------------------------------ MODULE ScanCode ------------------------------
(***************************************************************************)
(* The make-code tables of src/common/keyboard.c and matrix_callback,     *)
(* which turns a key event at (row, col) into the bytes of scan code set *)
(* 1 or 2.  Bytes are naturals; bit operations come from Bitwise.          *)
(***************************************************************************)
EXTENDS Naturals, Sequences, Bitwise

CROS_ROW_NUM == 8
CROS_COL_NUM == 13

(* enum scancode_set_list of keyboard.h: 0 asks for the current set.     *)
SCANCODE_GET_SET == 0
SCANCODE_SET_1   == 1
SCANCODE_SET_2   == 2

(* The tables, row by row; scancode_set1[r][c] is scancode_set1[r+1][c+1] *)
(* here.  0 marks a cell with no key.                                      *)
scancode_set1 == <<
  <<\h0000, \he05b, \h003b, \h0030, \h0044, \h0073, \h0031, \h0000, \h000d, \h0000, \he038, \h0000, \h0000>>,
  <<\h0000, \h0001, \h003e, \h0022, \h0041, \h0000, \h0023, \h0000, \h0028, \h0043, \h0000, \h000e, \h0078>>,
  <<\h001d, \h000f, \h003d, \h0014, \h0040, \h001b, \h0015, \h0056, \h001a, \h0042, \h0073, \h0000, \h0000>>,
  <<\h0000, \h0029, \h003c, \h0006, \h003f, \h0000, \h0007, \h0000, \h000c, \h0000, \h0000, \h002b, \h0079>>,
  <<\he01d, \h001e, \h0020, \h0021, \h001f, \h0025, \h0024, \h0000, \h0027, \h0026, \h002b, \h001c, \h0000>>,
  <<\h0000, \h002c, \h002e, \h002f, \h002d, \h0033, \h0032, \h002a, \h0035, \h0034, \h0000, \h0039, \h0000>>,
  <<\h0000, \h0002, \h0004, \h0005, \h0003, \h0009, \h0008, \h0000, \h000b, \h000a, \h0038, \he050, \he04d>>,
  <<\h0000, \h0010, \h0012, \h0013, \h0011, \h0017, \h0016, \h0036, \h0019, \h0018, \h0000, \he048, \he04b>> >>

scancode_set2 == <<
  <<\h0000, \he01f, \h0005, \h0032, \h0009, \h0051, \h0031, \h0000, \h0055, \h0000, \he011, \h0000, \h0000>>,
  <<\h0000, \h0076, \h000c, \h0034, \h0083, \h0000, \h0033, \h0000, \h0052, \h0001, \h0000, \h0066, \h0067>>,
  <<\h0014, \h000d, \h0004, \h002c, \h000b, \h005b, \h0035, \h0061, \h0054, \h000a, \h0051, \h0000, \h0000>>,
  <<\h0000, \h000e, \h0006, \h002e, \h0003, \h0000, \h0036, \h0000, \h004e, \h0000, \h0000, \h005d, \h0064>>,
  <<\he014, \h001c, \h0023, \h002b, \h001b, \h0042, \h003b, \h0000, \h004c, \h004b, \h005d, \h005a, \h0000>>,
  <<\h0000, \h001a, \h0021, \h002a, \h0022, \h0041, \h003a, \h0012, \h004a, \h0049, \h0000, \h0029, \h0000>>,
  <<\h0000, \h0016, \h0026, \h0025, \h001e, \h003e, \h003d, \h0000, \h0045, \h0046, \h0011, \he072, \he074>>,
  <<\h0000, \h0015, \h0024, \h002d, \h001d, \h0043, \h003c, \h0059, \h004d, \h0044, \h0000, \he075, \he06b>> >>

(* Slip: the two bytes of an extended code in the wrong order.            *)
MakeBytesSwapped(make_code) ==
  IF make_code >= \h0100 THEN << make_code & \hff, shiftR(make_code, 8) >>
  ELSE << make_code & \hff >>

(* The make code: one byte, or two for a code of 0x0100 and above.       *)
MakeBytes(make_code) ==
  IF make_code >= \h0100 THEN << shiftR(make_code, 8), make_code & \hff >>
  ELSE << make_code & \hff >>

(* Slip: the set-1 break bit put on the first byte of the code.          *)
BreakBytesFirst(code_set, sc) ==
  LET n == Len(sc)
  IN IF code_set = SCANCODE_SET_1 THEN [sc EXCEPT ![1] = @ | \h80]
     ELSE SubSeq(sc, 1, n - 1) \o << \hF0, sc[n] >>

(* The break code: set 1 sets bit 7 of the last byte; set 2 moves the    *)
(* last byte one place on and puts 0xF0 before it.                        *)
BreakBytes(code_set, sc) ==
  LET n == Len(sc)
  IN IF code_set = SCANCODE_SET_1 THEN [sc EXCEPT ![n] = @ | \h80]
     ELSE SubSeq(sc, 1, n - 1) \o << \hF0, sc[n] >>

(* matrix_callback: the result code and the bytes it writes.  xlate is   *)
(* the I8042_XLATE bit of controller_ram[0], which forces set 1.          *)
MatrixCallback(xlate, row, col, pressed, code_set0) ==
  LET code_set  == IF xlate THEN SCANCODE_SET_1 ELSE code_set0
      make_code == CASE code_set = SCANCODE_SET_1 -> scancode_set1[row + 1][col + 1]
                     [] code_set = SCANCODE_SET_2 -> scancode_set2[row + 1][col + 1]
                     [] OTHER -> 0
      sc        == MakeBytes(make_code)
  IN CASE row > CROS_ROW_NUM \/ col > CROS_COL_NUM ->
            [ret |-> "EC_ERROR_INVAL", code |-> << >>]
       [] code_set \notin {SCANCODE_SET_1, SCANCODE_SET_2} \/ make_code = 0 ->
            [ret |-> "EC_ERROR_UNIMPLEMENTED", code |-> << >>]
       [] OTHER ->
            [ret |-> "EC_SUCCESS",
             code |-> IF pressed THEN sc ELSE BreakBytes(code_set, sc)]

=============================================================================
