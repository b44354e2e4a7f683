------------------------------- MODULE I8042 -------------------------------
(***************************************************************************)
(* The i8042 keyboard-controller emulation of src/common/keyboard.c: the  *)
(* data port (handle_keyboard_data), the command port                      *)
(* (handle_keyboard_command), the controller RAM and its side effects     *)
(* (update_ctl_ram, keyboard_enable), the resend buffer, the typematic    *)
(* settings, and key events turned into scan codes                         *)
(* (keyboard_state_changed).                                               *)
(*                                                                         *)
(* The host writes one byte at a time to port 0x60 (data) or 0x64         *)
(* (command); each write is handled to completion, so it is one step.    *)
(* Key events come from the keyboard scan task.  Bytes are naturals.     *)
(***************************************************************************)
EXTENDS Naturals, Sequences, SequencesExt, Bitwise, ScanCode

CONSTANTS
  DataBytes,        \* bytes the host sends to port 0x60 as a command
  ArgBytes,         \* bytes the host sends as the argument of a command
  CmdBytes,         \* bytes the host writes to port 0x64
  KeyCells,         \* matrix cells that can change, as <<row, col>>
  ConsoleSets,      \* arguments of the console command codeset
  MAX_SCAN_CODE_LEN \* from keyboard.h

(* i8042.h: data-port commands, controller commands, replies and the bits *)
(* of the command byte controller_ram[0].                                 *)
I8042_CMD_SETLEDS == \hed
I8042_CMD_DIAG_ECHO == \hee
I8042_CMD_GSCANSET == \hf0
I8042_CMD_GETID == \hf2
I8042_CMD_SETREP == \hf3
I8042_CMD_ENABLE == \hf4
I8042_CMD_RESET_DIS == \hf5
I8042_CMD_RESET_DEF == \hf6
I8042_CMD_RESET_BAT == \hff
I8042_CMD_RESEND == \hfe
I8042_CMD_EX_SETLEDS == \heb
I8042_CMD_OK_GETID == \he8
I8042_READ_CMD_BYTE == \h20
I8042_READ_CTL_RAM == \h21
I8042_READ_CTL_RAM_END == \h3f
I8042_WRITE_CMD_BYTE == \h60
I8042_WRITE_CTL_RAM == \h61
I8042_WRITE_CTL_RAM_END == \h7f
I8042_DIS_MOUSE == \ha7
I8042_ENA_MOUSE == \ha8
I8042_TEST_MOUSE == \ha9
I8042_RESET_SELF_TEST == \haa
I8042_DIS_KB == \had
I8042_ENA_KB == \hae
I8042_ECHO_MOUSE == \hd3
I8042_SEND_TO_MOUSE == \hd4
I8042_PULSE_START == \hf0
I8042_PULSE_END == \hfd
I8042_RET_BAT == \haa
I8042_RET_ACK == \hfa
I8042_RET_NAK == \hfe
I8042_XLATE == \h40
I8042_AUX_DIS == \h20
I8042_KBD_DIS == \h10
I8042_ENIRQ1 == \h01

DataPortStates == {"STATE_NORMAL", "STATE_SCANCODE", "STATE_SETLEDS",
                   "STATE_WRITE_CMD_BYTE", "STATE_ECHO_MOUSE", "STATE_SEND_TO_MOUSE"}

(* The typematic defaults.  DEFAULT_TYPEMATIC_VALUE is written with the   *)
(* logical ||, so its value is 1.                                         *)
DEFAULT_TYPEMATIC_VALUE == IF (2^5 # 0) \/ (2^3 # 0) \/ (3 # 0) THEN 1 ELSE 0
DEFAULT_FIRST_DELAY == 500
DEFAULT_INTER_DELAY == 91

VARIABLES
  data_port_state, scancode_set, controller_ram, controller_ram_address,
  keyboard_enabled, resend_command,
  typematic_value_from_host, refill_first_delay, refill_inter_delay,
  keyboard_irq,     \* i8042_enable/disable_keyboard_irq was last called to enable
  hung,             \* keyboard_state_changed is stuck in its ASSERT loop
  out,              \* the bytes the last handler returned to the host
  last_in,          \* what the last step handled: [port, byte]
  host_arg,         \* the host's next data byte is the argument of a command
  key_event         \* the key event of the last step, [cell, pressed], if any

vars == <<data_port_state, scancode_set, controller_ram, controller_ram_address,
          keyboard_enabled, resend_command, typematic_value_from_host,
          refill_first_delay, refill_inter_delay, keyboard_irq, hung, out,
          last_in, host_arg, key_event>>

(* The controller state as a record, so that the C functions compose.    *)
Kbd == [dps |-> data_port_state, set |-> scancode_set, ram |-> controller_ram,
        addr |-> controller_ram_address, en |-> keyboard_enabled,
        resend |-> resend_command, tv |-> typematic_value_from_host,
        first |-> refill_first_delay, inter |-> refill_inter_delay,
        irq |-> keyboard_irq]

-----------------------------------------------------------------------------
(* reset_rate_and_delay.  clean_underlying_buffer calls i8042_init, which *)
(* flushes the host queue; that queue is not modelled.                    *)
ResetRateAndDelay(k) ==
  [k EXCEPT !.tv = DEFAULT_TYPEMATIC_VALUE, !.first = DEFAULT_FIRST_DELAY,
            !.inter = DEFAULT_INTER_DELAY]

(* keyboard_enable: disabling an enabled keyboard resets the typematic    *)
(* settings and flushes.                                                   *)
KeyboardEnable(k, enable) ==
  LET k1 == IF k.en /\ ~enable THEN ResetRateAndDelay(k) ELSE k
  IN [k1 EXCEPT !.en = enable]

(* Slip: the IRQ is switched on with ENIRQ1 but never off again.          *)
UpdateCtlRamNoIrqOff(k, addr, data) ==
  LET orig == k.ram[addr]
      k1   == [k EXCEPT !.ram[addr] = data]
      k2   == KeyboardEnable(k1, (data & I8042_KBD_DIS) = 0)
      irq  == IF (orig & I8042_ENIRQ1) = 0 /\ (data & I8042_ENIRQ1) # 0 THEN TRUE ELSE k.irq
  IN IF addr = 0 THEN [k2 EXCEPT !.irq = irq] ELSE k1

(* update_ctl_ram: a write of the command byte re-applies its KBD_DIS bit *)
(* to the keyboard and calls the IRQ hooks on a change of ENIRQ1.         *)
UpdateCtlRam(k, addr, data) ==
  LET orig == k.ram[addr]
      k1   == [k EXCEPT !.ram[addr] = data]
      k2   == KeyboardEnable(k1, (data & I8042_KBD_DIS) = 0)
      irq  == CASE (orig & I8042_ENIRQ1) = 0 /\ (data & I8042_ENIRQ1) # 0 -> TRUE
                [] (orig & I8042_ENIRQ1) # 0 /\ (data & I8042_ENIRQ1) = 0 -> FALSE
                [] OTHER -> k.irq
  IN IF addr = 0 THEN [k2 EXCEPT !.irq = irq] ELSE k1

(* The SETREP arithmetic: delay and rate from a typematic byte.          *)
SetRep(k, data) ==
  LET tv == data
  IN [k EXCEPT !.tv = tv,
               !.first = shiftR(tv & \h60, 5) * 250,
               !.inter = (1000 * 2^shiftR(tv & \h18, 3) * ((tv & \h7) + 8)) \div 240]

(* The STATE_NORMAL branch of handle_keyboard_data: the reply and the     *)
(* new state for a device command byte.  The reply of RESEND is not kept  *)
(* for a later RESEND (save_for_resend = 0).                               *)
NormalData(k, data) ==
  LET ack == << I8042_RET_ACK >>
      r(k1, o) == [k |-> k1, o |-> o]
  IN CASE data = I8042_CMD_GSCANSET ->
            r([k EXCEPT !.dps = "STATE_SCANCODE"], ack)
       [] data \in {I8042_CMD_SETLEDS, I8042_CMD_EX_SETLEDS} ->
            r([k EXCEPT !.dps = "STATE_SETLEDS"], ack)
       [] data = I8042_CMD_DIAG_ECHO -> r(k, ack \o << I8042_CMD_DIAG_ECHO >>)
       [] data \in {I8042_CMD_GETID, I8042_CMD_OK_GETID} -> r(k, ack \o << \hab, \h83 >>)
       [] data = I8042_CMD_SETREP -> r(SetRep(k, data), ack)
       [] data = I8042_CMD_ENABLE -> r(KeyboardEnable(k, TRUE), ack)
       [] data = I8042_CMD_RESET_DIS ->
            r(ResetRateAndDelay(KeyboardEnable(k, FALSE)), ack)
       [] data = I8042_CMD_RESET_DEF -> r(ResetRateAndDelay(k), ack)
       [] data = I8042_CMD_RESET_BAT ->
            r(KeyboardEnable(k, FALSE), ack \o << I8042_RET_BAT, I8042_RET_BAT >>)
       [] data = I8042_CMD_RESEND -> r(k, ack \o k.resend)
       [] data \in {\h60, \h45} -> r(k, << >>)
       [] OTHER -> r(k, << I8042_RET_NAK >>)

(* Slip: a pending state that forgets to return to STATE_NORMAL.         *)
ToNormalKeep(k) == k

(* data_port_state = STATE_NORMAL at the end of each pending-state case.  *)
ToNormal(k) == [k EXCEPT !.dps = "STATE_NORMAL"]

(* Slip: RESEND's own reply kept for the next RESEND.                    *)
SaveForResendAlways(k, data) == TRUE

(* save_for_resend: cleared only by RESEND in STATE_NORMAL.               *)
SaveForResend(k, data) == ~(k.dps = "STATE_NORMAL" /\ data = I8042_CMD_RESEND)

(* handle_keyboard_data: a byte written to port 0x60.  A pending state    *)
(* takes it as its argument; otherwise it is a device command.  Every     *)
(* non-empty reply except that of RESEND is kept for RESEND.              *)
HandleKeyboardData(k, data) ==
  LET ack == << I8042_RET_ACK >>
      normal(k1) == ToNormal(k1)
      res == CASE k.dps = "STATE_SCANCODE" ->
                    IF data = SCANCODE_GET_SET
                    THEN [k |-> normal(k), o |-> ack \o << k.set >>]
                    ELSE [k |-> normal([k EXCEPT !.set = data]), o |-> ack]
               [] k.dps = "STATE_SETLEDS" -> [k |-> normal(k), o |-> ack]
               [] k.dps = "STATE_WRITE_CMD_BYTE" ->
                    [k |-> normal(UpdateCtlRam(k, k.addr, data)), o |-> ack]
               [] k.dps = "STATE_ECHO_MOUSE" -> [k |-> normal(k), o |-> ack \o << data >>]
               [] k.dps = "STATE_SEND_TO_MOUSE" -> [k |-> normal(k), o |-> << >>]
               [] OTHER -> NormalData(k, data)
      save == res.o # << >> /\ SaveForResend(k, data)
  IN IF save THEN [res EXCEPT !.k.resend = res.o] ELSE res

(* Slip: the write commands take their address with the read base 0x20.  *)
CtlRamAddressReadBase(command) == command - \h20

(* controller_ram_address = command - 0x60 for 0x60 .. 0x7f.              *)
CtlRamAddress(command) == command - \h60

(* handle_keyboard_command: a byte written to port 0x64.                  *)
HandleKeyboardCommand(k, command) ==
  LET r(k1, o) == [k |-> k1, o |-> o]
  IN CASE command = I8042_READ_CMD_BYTE -> r(k, << k.ram[0] >>)
       [] command = I8042_WRITE_CMD_BYTE ->
            r([k EXCEPT !.dps = "STATE_WRITE_CMD_BYTE", !.addr = CtlRamAddress(command)], << >>)
       [] command = I8042_DIS_KB -> r(KeyboardEnable(k, FALSE), << >>)
       [] command = I8042_ENA_KB -> r(KeyboardEnable(k, TRUE), << >>)
       [] command = I8042_RESET_SELF_TEST -> r(k, << \h55 >>)
       [] command = I8042_DIS_MOUSE -> r(UpdateCtlRam(k, 0, k.ram[0] | I8042_AUX_DIS), << >>)
       [] command = I8042_ENA_MOUSE ->
            r(UpdateCtlRam(k, 0, k.ram[0] & (255 - I8042_AUX_DIS)), << >>)
       [] command = I8042_TEST_MOUSE -> r(k, << 0 >>)
       [] command = I8042_ECHO_MOUSE -> r([k EXCEPT !.dps = "STATE_ECHO_MOUSE"], << >>)
       [] command = I8042_SEND_TO_MOUSE -> r([k EXCEPT !.dps = "STATE_SEND_TO_MOUSE"], << >>)
       [] command \in I8042_READ_CTL_RAM .. I8042_READ_CTL_RAM_END ->
            r(k, << k.ram[command - \h20] >>)
       [] command \in I8042_WRITE_CTL_RAM .. I8042_WRITE_CTL_RAM_END ->
            r([k EXCEPT !.dps = "STATE_WRITE_CMD_BYTE", !.addr = CtlRamAddress(command)], << >>)
       [] command \in I8042_PULSE_START .. I8042_PULSE_END -> r(k, << >>)
       [] OTHER ->
            r(ToNormal(ResetRateAndDelay(k)), << I8042_RET_NAK >>)

(* Store a controller record back into the variables.                     *)
SetKbd(k) ==
  /\ data_port_state' = k.dps
  /\ scancode_set' = k.set
  /\ controller_ram' = k.ram
  /\ controller_ram_address' = k.addr
  /\ keyboard_enabled' = k.en
  /\ resend_command' = k.resend
  /\ typematic_value_from_host' = k.tv
  /\ refill_first_delay' = k.first
  /\ refill_inter_delay' = k.inter
  /\ keyboard_irq' = k.irq

NoKey == [cell |-> << >>, pressed |-> FALSE]

-----------------------------------------------------------------------------
Init ==
  /\ data_port_state = "STATE_NORMAL"
  /\ scancode_set = SCANCODE_SET_2
  /\ controller_ram = [a \in 0 .. \h1f |->
                         IF a = 0 THEN I8042_XLATE | I8042_AUX_DIS | I8042_KBD_DIS ELSE 0]
  /\ controller_ram_address = 0
  /\ keyboard_enabled = FALSE
  /\ resend_command = << >>
  /\ typematic_value_from_host = DEFAULT_TYPEMATIC_VALUE
  /\ refill_first_delay = DEFAULT_FIRST_DELAY
  /\ refill_inter_delay = DEFAULT_INTER_DELAY
  /\ keyboard_irq = FALSE
  /\ hung = FALSE
  /\ out = << >>
  /\ last_in = [port |-> "none", byte |-> 0]
  /\ host_arg = FALSE
  /\ key_event = NoKey

(* Device commands whose next data byte is their argument (PS/2).  The    *)
(* controller commands 0x60-0x7f, 0xd3 and 0xd4 also take a data byte.    *)
ArgCommands == {I8042_CMD_GSCANSET, I8042_CMD_SETLEDS, I8042_CMD_EX_SETLEDS,
                I8042_CMD_SETREP}
ArgControllerCommands ==
  (I8042_WRITE_CMD_BYTE .. I8042_WRITE_CTL_RAM_END) \cup {I8042_ECHO_MOUSE, I8042_SEND_TO_MOUSE}

(* The host writes a byte to port 0x60: the argument it owes, or else a   *)
(* device command.                                                         *)
HostData(data) ==
  LET res == HandleKeyboardData(Kbd, data)
  IN /\ data \in (IF host_arg THEN ArgBytes ELSE DataBytes)
     /\ \E k \in {res.k} : SetKbd(k)
     /\ out' = res.o
     /\ last_in' = [port |-> "data", byte |-> data]
     /\ host_arg' = (~host_arg /\ data \in ArgCommands)
     /\ key_event' = NoKey
     /\ UNCHANGED hung

(* The host writes a byte to port 0x64 when it owes no argument.          *)
HostCommand(command) ==
  LET res == HandleKeyboardCommand(Kbd, command)
  IN /\ ~host_arg
     /\ \E k \in {res.k} : SetKbd(k)
     /\ out' = res.o
     /\ last_in' = [port |-> "command", byte |-> command]
     /\ host_arg' = (command \in ArgControllerCommands)
     /\ key_event' = NoKey
     /\ UNCHANGED hung

(* keyboard_state_changed from the scan task: translate and send, or stop *)
(* in the ASSERT loop when matrix_callback fails.                          *)
KeyStateChanged(cell, is_pressed) ==
  LET r == MatrixCallback((controller_ram[0] & I8042_XLATE) # 0, cell[1], cell[2],
                          is_pressed, scancode_set)
  IN /\ ~hung
     /\ hung' = (r.ret # "EC_SUCCESS")
     /\ out' = r.code
     /\ last_in' = [port |-> "key", byte |-> 0]
     /\ key_event' = [cell |-> cell, pressed |-> is_pressed]
     /\ UNCHANGED <<data_port_state, scancode_set, controller_ram, controller_ram_address,
                    keyboard_enabled, resend_command, typematic_value_from_host,
                    refill_first_delay, refill_inter_delay, keyboard_irq, host_arg>>

(* The console command "codeset <set>" (command_codeset): only sets 1 and *)
(* 2 are taken; anything else is refused and changes nothing.              *)
CommandCodeset(set) ==
  /\ set \in {SCANCODE_SET_1, SCANCODE_SET_2}
  /\ scancode_set' = set
  /\ out' = << >>
  /\ last_in' = [port |-> "console", byte |-> set]
  /\ key_event' = NoKey
  /\ UNCHANGED <<data_port_state, controller_ram, controller_ram_address, keyboard_enabled,
                 resend_command, typematic_value_from_host, refill_first_delay,
                 refill_inter_delay, keyboard_irq, hung, host_arg>>

(* The console command "ctrlram <index> <value>" (command_controller_ram) *)
(* writes through update_ctl_ram, with its side effects on RAM byte 0.     *)
CommandControllerRam(index, value) ==
  LET k == UpdateCtlRam(Kbd, index, value)
  IN /\ index < \h20
     /\ SetKbd(k)
     /\ out' = << >>
     /\ last_in' = [port |-> "console", byte |-> value]
     /\ key_event' = NoKey
     /\ UNCHANGED <<hung, host_arg>>

Next ==
  \/ \E d \in DataBytes \cup ArgBytes : HostData(d)
  \/ \E c \in CmdBytes : HostCommand(c)
  \/ \E cell \in KeyCells, p \in BOOLEAN : KeyStateChanged(cell, p)
  \/ \E set \in ConsoleSets : CommandCodeset(set)
  \/ \E v \in ArgBytes : CommandControllerRam(0, v)

Spec == Init /\ [][Next]_vars

-----------------------------------------------------------------------------
Byte == 0 .. 255

TypeOK ==
  /\ data_port_state \in DataPortStates
  /\ scancode_set \in Byte
  /\ controller_ram \in [0 .. \h1f -> Byte]
  /\ controller_ram_address \in 0 .. \h1f
  /\ keyboard_enabled \in BOOLEAN
  /\ resend_command \in Seq(Byte)
  /\ typematic_value_from_host \in Byte
  /\ keyboard_irq \in BOOLEAN
  /\ hung \in BOOLEAN
  /\ out \in Seq(Byte)
  /\ host_arg \in BOOLEAN

(* The ASSERTs at keyboard.c:432 and :439: no reply of handle_keyboard_data *)
(* is longer than MAX_SCAN_CODE_LEN, so the copy into resend_command stays *)
(* inside that array.  A RESEND replies ACK plus the cached reply, so this *)
(* depends on a RESEND reply never itself being cached.                    *)
OutputWithinBound ==
  /\ Len(out) <= MAX_SCAN_CODE_LEN
  /\ Len(resend_command) <= MAX_SCAN_CODE_LEN

(* update_ctl_ram calls i8042_enable_keyboard_irq and                     *)
(* i8042_disable_keyboard_irq only on a change of ENIRQ1; after any series *)
(* of command-byte writes the IRQ is enabled exactly when the bit is set.  *)
IrqFollowsEnirq1 ==
  keyboard_irq <=> (controller_ram[0] & I8042_ENIRQ1) # 0

(* The host's view and the controller's view of the data port agree: the *)
(* controller waits for an argument byte exactly when the host is about to *)
(* send one (after F0, ED, EB, F3 on port 0x60, or 0x60-0x7f, D3, D4 on    *)
(* port 0x64).  If they disagree, an argument is run as a command or a    *)
(* command is eaten as an argument.  SETREP (F3) breaks it: the handler  *)
(* answers ACK and stays in STATE_NORMAL, so the rate byte is run as a    *)
(* command; no run checks it (hazard at keyboard.c:370).                  *)
HostAndControllerAgree ==
  host_arg <=> data_port_state # "STATE_NORMAL"

(* Spec 8.5: a RESEND on port 0x60 reproduces byte for byte the previous  *)
(* cached response (the RESEND case of handle_keyboard_data).               *)
ResendReplays ==
  [][(/\ data_port_state = "STATE_NORMAL"
      /\ resend_command # << >>
      /\ last_in' = [port |-> "data", byte |-> I8042_CMD_RESEND])
     => out' = resend_command]_vars

(* Spec 4.5: update_ctl_ram changes the keyboard enable only when the     *)
(* KBD_DIS bit of the command byte changes, so the mouse commands A7 and   *)
(* A8, which rewrite the command byte with only AUX_DIS changed, leave the *)
(* keyboard as it was.                                                     *)
MouseCommandsLeaveKeyboard ==
  [][last_in'.port = "command" /\ last_in'.byte \in {I8042_DIS_MOUSE, I8042_ENA_MOUSE}
     => UNCHANGED keyboard_enabled]_vars

(* The typematic byte and the two refill delays agree: the delays are what *)
(* the SETREP arithmetic derives from typematic_value_from_host, both at   *)
(* start (the DEFAULT_* values, documented as 500 ms and 10.9 chars/s) and *)
(* after any reset or SETREP.                                              *)
TypematicConsistent ==
  LET k == SetRep(Kbd, typematic_value_from_host)
  IN refill_first_delay = k.first /\ refill_inter_delay = k.inter

(* The make code of a table entry written as bytes, most significant     *)
(* first, computed arithmetically as an independent reference.             *)
RefMake(e) == IF e < 256 THEN << e >> ELSE << e \div 256, e % 256 >>

(* Spec 4.5 and 8.4, on every key event: the set used is 1 when XLATE is  *)
(* on and the selected set otherwise; a cell with a table entry in set 1  *)
(* or 2 sends exactly its make bytes on a press, and on a release the     *)
(* same bytes with bit 7 of the last one set (set 1) or with 0xF0 before  *)
(* the last one (set 2); an empty cell or another set sends nothing and   *)
(* stops keyboard_state_changed in its ASSERT.                             *)
KeyEventTranslated ==
  key_event # NoKey =>
    LET r     == key_event.cell[1] + 1
        c     == key_event.cell[2] + 1
        set   == IF (controller_ram[0] & I8042_XLATE) # 0 THEN SCANCODE_SET_1 ELSE scancode_set
        entry == CASE set = SCANCODE_SET_1 -> scancode_set1[r][c]
                   [] set = SCANCODE_SET_2 -> scancode_set2[r][c]
                   [] OTHER -> 0
        make  == RefMake(entry)
    IN IF entry = 0
       THEN hung /\ out = << >>
       ELSE /\ ~hung
            /\ out = CASE key_event.pressed -> make
                        [] set = SCANCODE_SET_1 -> Front(make) \o << Last(make) + 128 >>
                        [] OTHER -> Front(make) \o << \hF0, Last(make) >>

(* keyboard_state_changed never stops in its ASSERT loop: whatever the     *)
(* host has configured, a key event on a real key is translated.          *)
KeyEventsNeverHang ==
  ~hung

=============================================================================
