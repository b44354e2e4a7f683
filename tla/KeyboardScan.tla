---------------------------- MODULE KeyboardScan ----------------------------
(***************************************************************************)
(* The keyboard scan task of src/chip/lm4/keyboard_scan.c and the matrix  *)
(* interrupt that wakes it.                                                *)
(*                                                                         *)
(* The rows are inputs with pull-ups; a row reads low when a pressed key  *)
(* joins it to a column that is driven low.  The GPIO block latches any   *)
(* edge of a row in its raw interrupt status (RIS) and raises the         *)
(* interrupt while the mask (IM) is on.  The task sleeps with every       *)
(* column driven (wait_for_interrupt), is woken by matrix_interrupt's     *)
(* message, then polls the whole matrix every SCAN_LOOP_DELAY and reports *)
(* each changed bit to keyboard_state_changed, until it has seen no key   *)
(* down for POLLING_MODE_TIMEOUT.                                          *)
(*                                                                         *)
(* A scan of the matrix (check_keys_changed) is one step; the user's key  *)
(* changes and the interrupt interleave with the task's steps.            *)
(***************************************************************************)
EXTENDS Naturals, FiniteSets

CONSTANTS
  Rows,                 \* row inputs KSI, a small set of numbers
  Cols,                 \* column outputs KSO, a small set of numbers
  KeyMask,              \* actual_key_mask: [Cols -> SUBSET Rows], the keys that exist
  TIMEOUT_POLLS,        \* POLLING_MODE_TIMEOUT / SCAN_LOOP_DELAY (100 in the code)
  KeysChangeInWindow    \* may a key change between the last poll and re-arming?

Cells == Rows \X Cols

VARIABLES
  keys,             \* the keys physically held down (environment)
  raw_state,        \* raw_state[c]: the rows last seen pressed in column c
  drive,            \* select_column: "all" (COLUMN_ASSERT_ALL) or "none" (TRI_STATE_ALL)
  ris,              \* LM4_GPIO_RIS of the row port: an edge has been latched
  im,               \* LM4_GPIO_IM of the row port: the interrupt is unmasked
  msg,              \* a task_send_msg to TASK_ID_KEYSCAN not yet received
  pc,               \* where keyboard_scan_task is
  key_press_timer,  \* consecutive polls with no key down
  view              \* the cells keyboard_state_changed last reported as pressed

vars == <<keys, raw_state, drive, ris, im, msg, pc, key_press_timer, view>>

(* The rows that read low: a row with a pressed key in a driven column.   *)
RowsLow(k, d) == IF d = "all" THEN {cell[1] : cell \in k} ELSE {}

(* What check_keys_changed reads for column c: inverted and masked.       *)
ScanColumn(c) == {r \in Rows : <<r, c>> \in keys} \cap KeyMask[c]

-----------------------------------------------------------------------------
(* keyboard_scan_init: columns tri-stated, raw_state cleared; the task    *)
(* then calls wait_for_interrupt.                                          *)
Init ==
  /\ keys = {}
  /\ raw_state = [c \in Cols |-> {}]
  /\ drive = "none"
  /\ ris = FALSE
  /\ im = FALSE
  /\ msg = FALSE
  /\ pc = "wait_for_interrupt"
  /\ key_press_timer = 0
  /\ view = {}

(* The race window of lines 309-312: after the poll loop has ended and    *)
(* before wait_for_interrupt has re-armed the interrupt.                  *)
InRaceWindow == pc = "wait_for_interrupt"

(* The user presses or releases a key.  Any change of a row level is      *)
(* latched in RIS, whatever the mask.                                      *)
ToggleKey(cell) ==
  LET k1 == IF cell \in keys THEN keys \ {cell} ELSE keys \cup {cell}
  IN /\ KeysChangeInWindow \/ ~InRaceWindow
     /\ keys' = k1
     /\ ris' = (ris \/ RowsLow(k1, drive) # RowsLow(keys, drive))
     /\ UNCHANGED <<raw_state, drive, im, msg, pc, key_press_timer, view>>

(* matrix_interrupt: taken while RIS and IM are set; clears RIS and sends *)
(* the task a message.                                                     *)
MatrixInterrupt ==
  /\ im /\ ris
  /\ ris' = FALSE
  /\ msg' = TRUE
  /\ UNCHANGED <<keys, raw_state, drive, im, pc, key_press_timer, view>>

(* Slip: the interrupt is left masked (the write of IM forgotten).        *)
WaitForInterruptNoUnmask ==
  /\ pc = "wait_for_interrupt"
  /\ drive' = "all"
  /\ ris' = FALSE
  /\ im' = FALSE
  /\ pc' = "wait_msg"
  /\ UNCHANGED <<keys, raw_state, msg, key_press_timer, view>>

(* wait_for_interrupt: assert every column, clear the edges this makes,  *)
(* unmask the interrupt; then the task waits in task_wait_msg.           *)
WaitForInterrupt ==
  /\ pc = "wait_for_interrupt"
  /\ drive' = "all"
  /\ ris' = FALSE
  /\ im' = TRUE
  /\ pc' = "wait_msg"
  /\ UNCHANGED <<keys, raw_state, msg, key_press_timer, view>>

(* task_wait_msg(-1) returns on the message; enter_polling_mode masks the *)
(* interrupt and tri-states the columns.                                   *)
WaitMsg ==
  /\ pc = "wait_msg"
  /\ msg
  /\ msg' = FALSE
  /\ im' = FALSE
  /\ drive' = "none"
  /\ pc' = "poll"
  /\ UNCHANGED <<keys, raw_state, ris, key_press_timer, view>>

(* Slip: keyboard_state_changed given (column, row) for (row, column).    *)
CheckKeysChangedSwapped ==
  LET r == [c \in Cols |-> ScanColumn(c)]
  IN [raw |-> r,
      edges |-> keys # {},
      pressed |-> {<<c, i>> : <<i, c>> \in {<<i, c>> \in Cells : i \in r[c] \ raw_state[c]}},
      released |-> {<<c, i>> : <<i, c>> \in {<<i, c>> \in Cells : i \in raw_state[c] \ r[c]}},
      down |-> \E c \in Cols : r[c] # {}]

(* check_keys_changed: each column is driven in turn (the edges are       *)
(* latched in RIS), each changed bit is reported to keyboard_state_changed *)
(* and raw_state is updated; it answers whether a key is still down.     *)
CheckKeysChanged ==
  LET r == [c \in Cols |-> ScanColumn(c)]
  IN [raw |-> r,
      edges |-> keys # {},
      pressed |-> {<<i, c>> \in Cells : i \in r[c] \ raw_state[c]},
      released |-> {<<i, c>> \in Cells : i \in raw_state[c] \ r[c]},
      down |-> \E c \in Cols : r[c] # {}]

(* Slip: the timeout is counted across held keys too.                     *)
NextTimerNoReset(down, t) == IF down THEN t + 1 ELSE t + 1

(* The loop of keyboard_scan_task: a held key restarts the timer, and     *)
(* TIMEOUT_POLLS polls with nothing down end polling mode.                *)
NextTimer(down, t) == IF down THEN 0 ELSE t + 1

(* One pass of the polling loop (usleep, then check_keys_changed).        *)
Poll ==
  LET s  == CheckKeysChanged
      t1 == NextTimer(s.down, key_press_timer)
  IN /\ pc = "poll"
     /\ raw_state' = s.raw
     /\ view' = (view \ s.released) \cup s.pressed
     /\ ris' = (ris \/ s.edges)
     /\ IF t1 >= TIMEOUT_POLLS
        THEN key_press_timer' = 0 /\ pc' = "wait_for_interrupt"
        ELSE key_press_timer' = t1 /\ pc' = "poll"
     /\ UNCHANGED <<keys, drive, im, msg>>

ScanTask == WaitForInterrupt \/ WaitMsg \/ Poll

Next ==
  \/ \E cell \in Cells : ToggleKey(cell)
  \/ MatrixInterrupt
  \/ ScanTask

(* The task is scheduled whenever it is runnable, and the NVIC takes a    *)
(* pending, unmasked interrupt.                                            *)
Spec == Init /\ [][Next]_vars /\ WF_vars(ScanTask) /\ WF_vars(MatrixInterrupt)

-----------------------------------------------------------------------------
TypeOK ==
  /\ keys \subseteq Cells
  /\ raw_state \in [Cols -> SUBSET Rows]
  /\ drive \in {"all", "none"}
  /\ {ris, im, msg} \subseteq BOOLEAN
  /\ pc \in {"wait_for_interrupt", "wait_msg", "poll"}
  /\ key_press_timer \in 0 .. TIMEOUT_POLLS - 1
  /\ view \subseteq Cells

(* The task leaves polling mode only after it has reported every key      *)
(* released: while it sleeps, neither raw_state nor the host holds a key. *)
(* Otherwise a key held across the timeout would never get its release.   *)
SleepsOnlyWhenReleased ==
  pc \in {"wait_for_interrupt", "wait_msg"} =>
    /\ view = {}
    /\ \A c \in Cols : raw_state[c] = {}

(* Every key change is eventually reported: whenever the keys held differ *)
(* from what keyboard_state_changed has reported and then stay as they    *)
(* are, the report catches up.  This needs the interrupt to be re-armed  *)
(* before any change it should see (the TODO at lines 309-312).           *)
KeyChangesReported ==
  \A S \in SUBSET Cells :
    (keys = S /\ view # S) ~> (view = S \/ keys # S)

=============================================================================
