------------------------------ MODULE MCI8042 ------------------------------
(***************************************************************************)
(* Byte sets for the runs of I8042.                                       *)
(***************************************************************************)
EXTENDS I8042

(* Port 0x60 commands: every case of the STATE_NORMAL switch but SETREP   *)
(* and the ignored 0x60/0x45, and one NAK case (0xF7).                     *)
DataNoSetRep == {\hf0, \hed, \hee, \hf2, \hf4, \hf5, \hf6, \hff, \hfe, \hf7}
DataWithSetRep == DataNoSetRep \cup {\hf3}

(* Arguments: 0 queries the scan code set and 1 selects set 1; as command *)
(* bytes, 0x41 = XLATE|ENIRQ1 with the keyboard on, 0x10 = KBD_DIS, and    *)
(* 0x01 = ENIRQ1 with the keyboard on and no translation.                  *)
ArgSets == {0, 1, \h41, \h10}
(* For the hang: ENIRQ1 alone (translation off) and scan code set 3.      *)
ArgSet3 == {\h01, 3}

(* Port 0x64 commands: each case of handle_keyboard_command that changes   *)
(* state or reads it, a read of RAM byte 1, one pulse (0xF0) and          *)
(* one NAK (0xC0).  0xAA and 0xA9 only reply a constant.                  *)
CmdAll == {\h20, \h60, \had, \hae, \ha7, \ha8, \hd3, \hd4, \h21, \hf0, \hc0}

(* Two keys: one extended (E0 1F / E0 5B) and one plain (0x76 / 0x01).   *)
Cells == {<<0, 1>>, <<1, 1>>}

============================================================================
