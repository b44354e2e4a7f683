---------------------------- MODULE UartConsole ----------------------------
(***************************************************************************)
(* The console receive path of src/common/uart_buffering.c together with  *)
(* the console task of src/common/console.c.                               *)
(*                                                                         *)
(* The UART interrupt (uart_process) feeds every received byte to         *)
(* handle_console_char, which edits the current line rx_cur_buf, echoes   *)
(* directly to the terminal, runs the escape-sequence machine and the     *)
(* command history kept in rx_buf, and wakes the console task on a        *)
(* newline.  The console task (console_process) calls uart_peek and       *)
(* uart_gets, each with the UART interrupt disabled, so each of them is   *)
(* one atomic step here, as is each received byte.                         *)
(*                                                                         *)
(* Bytes are strings: printable characters are themselves ("a", "[", ...),*)
(* control characters are named ("CR", "LF", "BS", "DEL", "ESC", "^A",    *)
(* ...), and "NUL" is the '\0' that history_save writes.                   *)
(*                                                                         *)
(* The terminal that displays the echo is modelled by what the bytes do   *)
(* to it: term_line is the text on the cursor's row, term_col the cursor  *)
(* column.                                                                 *)
(***************************************************************************)
EXTENDS Integers, Sequences, SequencesExt, Functions, ConsoleCommand

CONSTANTS
  RX_BUF_SIZE,    \* CONFIG_UART_RX_BUF_SIZE: history storage ring
  RX_LINE_SIZE,   \* capacity of rx_cur_buf
  HISTORY_SIZE,   \* number of history slots
  Keys,           \* the bytes the user may type in this model
  TypeAhead,      \* may the user type while a completed line is pending?
  MaxOwed,        \* bound on completed lines not yet dispatched
  TERM_WIDTH,     \* columns of the terminal (no autowrap: the cursor stops
                  \* at the last column)
  DispatchLines   \* input_buf contents handle_command is checked on

ASSUME RX_LINE_SIZE \in Nat \ {0} /\ RX_BUF_SIZE > RX_LINE_SIZE
ASSUME HISTORY_SIZE \in Nat \ {0, 1}
ASSUME TypeAhead \in BOOLEAN /\ MaxOwed \in Nat \ {0}
ASSUME TERM_WIDTH > RX_LINE_SIZE + 2

(* The byte alphabet of the model and the character classes of util.c.   *)
Printable == {"a", "b", "[", "O", "1", "3", "~", "A", "B", "C", "D", "F", ">", " "}
Letters   == {"a", "b", "O", "A", "B", "C", "D", "F"}         \* isalpha
Controls  == {"CR", "LF", "BS", "DEL", "ESC", "^A", "^E", "^K", "^L", "^N", "^P"}
Bytes     == Printable \cup Controls \cup {"NUL", "FF"}
ASSUME Keys \subseteq Printable \cup Controls

EscStates == {"ESC_OUTSIDE", "ESC_START", "ESC_BAD", "ESC_BRACKET",
              "ESC_BRACKET_1", "ESC_BRACKET_3", "ESC_O"}

VARIABLES
  rx_cur_buf,       \* rx_cur_buf[0 .. rx_cur_buf_head-1] as a sequence
  rx_cur_buf_ptr,   \* cursor, 0-based
  rx_buf,           \* history storage, [0 .. RX_BUF_SIZE-1 -> Bytes]
  cmd_history,      \* [0 .. HISTORY_SIZE-1 -> [head, tail]]
  cmd_history_head, cmd_history_tail, cmd_history_ptr,
  esc_state, last_rx_was_cr,
  term_line, term_col,   \* the terminal driven by the echo
  console_pc,       \* console task: "peek", "gets", "prompt" or "wait"
  console_event,    \* task event set by console_has_input (task_wake)
  owed,             \* ghost: newlines entered minus lines dispatched
  overrun,          \* ghost: a byte was echoed that the line buffer dropped
  saved_line        \* ghost: the line each history slot was given

vars == <<rx_cur_buf, rx_cur_buf_ptr, rx_buf, cmd_history, cmd_history_head,
          cmd_history_tail, cmd_history_ptr, esc_state, last_rx_was_cr,
          term_line, term_col, console_pc, console_event, owed, overrun, saved_line>>

-----------------------------------------------------------------------------
(* Index arithmetic of the circular buffers (the macros at lines 36-43). *)
RX_BUF_NEXT(i)   == (i + 1) % RX_BUF_SIZE
RX_BUF_PREV(i)   == (i - 1) % RX_BUF_SIZE
RX_BUF_DIFF(i, j) == (i - j) % RX_BUF_SIZE
CMD_HIST_NEXT(i) == (i + 1) % HISTORY_SIZE
CMD_HIST_PREV(i) == (i - 1) % HISTORY_SIZE

(* The whole console state as one record, so that the C functions, which *)
(* call each other in sequence, compose as functions on it.  out is the  *)
(* sequence of bytes a handler writes to the terminal.                    *)
Con == [cur |-> rx_cur_buf, ptr |-> rx_cur_buf_ptr, rx |-> rx_buf,
        hist |-> cmd_history, hh |-> cmd_history_head,
        ht |-> cmd_history_tail, hp |-> cmd_history_ptr,
        esc |-> esc_state, cr |-> last_rx_was_cr, out |-> <<>>,
        saved |-> saved_line]

(* Terminal output: a character, or a cursor move of the ESC [ n C / D   *)
(* form that move_rx_ptr_* build with uart_write_int.                    *)
Ch(c)  == [k |-> "ch", v |-> c]
Fwd(n) == [k |-> "fwd", v |-> n]
Bwd(n) == [k |-> "bwd", v |-> n]
Emit(s, o) == [s EXCEPT !.out = @ \o o]
Repeat(c, n) == [i \in 1 .. n |-> Ch(c)]                 \* repeat_char
Echo(seq) == [i \in DOMAIN seq |-> Ch(seq[i])]

-----------------------------------------------------------------------------
(* Cursor motion (lines 123-169).                                          *)
(* Slip: moving right without the end-of-line check.                     *)
MoveFwdUnguarded(s) == Emit([s EXCEPT !.ptr = @ + 1], <<Fwd(1)>>)

MoveFwd(s) ==
  IF s.ptr # Len(s.cur) THEN Emit([s EXCEPT !.ptr = @ + 1], <<Fwd(1)>>) ELSE s

(* Slip: the End key's move one column short.                            *)
MoveEndShort(s) ==
  IF s.ptr = Len(s.cur) THEN s
  ELSE Emit([s EXCEPT !.ptr = Len(s.cur)], <<Fwd(Len(s.cur) - s.ptr - 1)>>)

MoveEnd(s) ==
  IF s.ptr = Len(s.cur) THEN s
  ELSE Emit([s EXCEPT !.ptr = Len(s.cur)], <<Fwd(Len(s.cur) - s.ptr)>>)

MoveBwd(s) ==
  IF s.ptr # 0 THEN Emit([s EXCEPT !.ptr = @ - 1], <<Bwd(1)>>) ELSE s

MoveBegin(s) ==
  IF s.ptr = 0 THEN s ELSE Emit([s EXCEPT !.ptr = 0], <<Bwd(s.ptr)>>)

(* Slip: stepping back over the redrawn tail without the blank.         *)
HandleBackspaceShortBack(s) ==
  IF s.ptr = 0 THEN s
  ELSE LET head == Len(s.cur)
           rest == SubSeq(s.cur, s.ptr + 1, head)
       IN Emit([s EXCEPT !.cur = RemoveAt(@, s.ptr), !.ptr = @ - 1],
               <<Ch("BS")>> \o Echo(rest) \o <<Ch(" ")>>
                 \o Repeat("BS", head - s.ptr))

(* handle_backspace: delete the byte before the cursor and redraw the    *)
(* rest of the line, space over the last column, then step back.         *)
HandleBackspace(s) ==
  IF s.ptr = 0 THEN s
  ELSE LET head == Len(s.cur)
           rest == SubSeq(s.cur, s.ptr + 1, head)
       IN Emit([s EXCEPT !.cur = RemoveAt(@, s.ptr), !.ptr = @ - 1],
               <<Ch("BS")>> \o Echo(rest) \o <<Ch(" ")>>
                 \o Repeat("BS", head - s.ptr + 1))

(* Slip: truncating one byte before the cursor.                          *)
HandleKillOffByOne(s) ==
  IF s.ptr = Len(s.cur) THEN s
  ELSE LET n == Len(s.cur) - s.ptr
       IN Emit([s EXCEPT !.cur = SubSeq(@, 1, s.ptr - 1)],
               Repeat(" ", n) \o Repeat("BS", n))

(* handle_kill (Ctrl-K): space over the text after the cursor, truncate. *)
HandleKill(s) ==
  IF s.ptr = Len(s.cur) THEN s
  ELSE LET n == Len(s.cur) - s.ptr
       IN Emit([s EXCEPT !.cur = SubSeq(@, 1, s.ptr)],
               Repeat(" ", n) \o Repeat("BS", n))

(* reprint_current (Ctrl-L): form feed, prompt, the line, step back.     *)
ReprintCurrent(s) ==
  Emit(s, <<Ch("FF"), Ch(">"), Ch(" ")>> \o Echo(s.cur)
            \o Repeat("BS", Len(s.cur) - s.ptr))

(* Slip: the overflow check without its exception for the newline.     *)
InsertCharDropAll(s, c) ==
  IF Len(s.cur) = RX_LINE_SIZE THEN s
  ELSE LET p    == IF c = "LF" THEN Len(s.cur) ELSE s.ptr
           rest == SubSeq(s.cur, p + 1, Len(s.cur))
       IN Emit([s EXCEPT !.cur = InsertAt(@, p + 1, c), !.ptr = p + 1],
               Echo(rest) \o Repeat("BS", Len(rest)))

(* insert_char in console mode: drop the byte when the line is full      *)
(* unless it is a newline; a newline goes to the end of the line.  The   *)
(* check lets a newline be stored at index RX_LINE_SIZE, one past the    *)
(* array; the model keeps that byte, as the adjacent static does.         *)
InsertChar(s, c) ==
  IF Len(s.cur) = RX_LINE_SIZE /\ c # "LF" THEN s
  ELSE LET p    == IF c = "LF" THEN Len(s.cur) ELSE s.ptr
           rest == SubSeq(s.cur, p + 1, Len(s.cur))
       IN Emit([s EXCEPT !.cur = InsertAt(@, p + 1, c), !.ptr = p + 1],
               Echo(rest) \o Repeat("BS", Len(rest)))

-----------------------------------------------------------------------------
(* Command history (lines 263-369).  Slot i holds rx_buf[tail .. head-1]. *)
RxSpaceAvailable(s) ==
  IF s.hh = s.ht THEN RX_BUF_SIZE
  ELSE RX_BUF_DIFF(s.hist[s.ht].tail, s.hist[CMD_HIST_PREV(s.hh)].head)

(* The bytes rx_buf[tail .. head-1] of a slot, read around the ring.     *)
SlotBytes(rx, slot) ==
  [i \in 1 .. RX_BUF_DIFF(slot.head, slot.tail) |-> rx[(slot.tail + i - 1) % RX_BUF_SIZE]]

(* The eviction loop of history_save: drop the oldest entry while the    *)
(* reported space is smaller than the line.                              *)
RECURSIVE EvictForSpace(_)
EvictForSpace(s) ==
  IF RxSpaceAvailable(s) < Len(s.cur)
  THEN EvictForSpace([s EXCEPT !.ht = CMD_HIST_NEXT(@)])
  ELSE s

(* history_save: evict for space, take the next slot (evicting the       *)
(* oldest when the slot ring is full), copy the line after the previous  *)
(* entry, and turn a trailing newline into '\0' outside the entry.        *)
HistorySave(s0) ==
  LET s     == EvictForSpace(s0)
      hid   == s.hh
      hh2   == CMD_HIST_NEXT(s.hh)
      ht2   == IF hh2 = s.ht THEN CMD_HIST_NEXT(s.ht) ELSE s.ht
      tail  == IF hid = ht2 THEN 0 ELSE RX_BUF_NEXT(s.hist[CMD_HIST_PREV(hid)].head)
      n     == Len(s.cur)
      end   == (tail + n) % RX_BUF_SIZE
      rx1   == [j \in DOMAIN s.rx |->
                  IF RX_BUF_DIFF(j, tail) < n THEN s.cur[RX_BUF_DIFF(j, tail) + 1]
                  ELSE s.rx[j]]
      nl    == rx1[RX_BUF_PREV(end)] = "LF"
      head  == IF nl THEN RX_BUF_PREV(end) ELSE end
      rx2   == IF nl THEN [rx1 EXCEPT ![head] = "NUL"] ELSE rx1
      \* ghost: the line as it should read back, without its newline
      text  == IF n > 0 /\ s.cur[n] = "LF" THEN SubSeq(s.cur, 1, n - 1) ELSE s.cur
  IN [s EXCEPT !.hh = hh2, !.ht = ht2, !.rx = rx2,
               !.hist[hid] = [head |-> head, tail |-> tail],
               !.saved[hid] = text]

(* Slip: loading an entry without setting rx_cur_buf_ptr to its end.    *)
HistoryLoadKeepPtr(s, id) ==
  LET line == SlotBytes(s.rx, s.hist[id])
      old  == Len(s.cur)
      gap  == IF Len(line) < old THEN old - Len(line) ELSE 0
  IN Emit([s EXCEPT !.hp = id, !.cur = line],
          Repeat("BS", s.ptr) \o Echo(line) \o Repeat(" ", gap) \o Repeat("BS", gap))

(* history_load: back to the start of the line, copy and print the slot, *)
(* space over what is left of the longer old line.                       *)
HistoryLoad(s, id) ==
  LET line == SlotBytes(s.rx, s.hist[id])
      old  == Len(s.cur)
      gap  == IF Len(line) < old THEN old - Len(line) ELSE 0
  IN Emit([s EXCEPT !.hp = id, !.cur = line, !.ptr = Len(line)],
          Repeat("BS", s.ptr) \o Echo(line) \o Repeat(" ", gap) \o Repeat("BS", gap))

(* Slip: history_prev without the stash guard.                           *)
HistoryPrevNoGuard(s) ==
  IF s.hp = s.ht THEN s
  ELSE LET s1 == IF s.hp = s.hh THEN HistorySave(s) ELSE s
       IN HistoryLoad(s1, CMD_HIST_PREV(s1.hp))

(* history_prev: stash the line being edited when not yet browsing,      *)
(* unless the stash guard says there is no room, then load the older     *)
(* entry.                                                                 *)
HistoryPrev(s) ==
  IF s.hp = s.ht THEN s
  ELSE IF s.hp = s.hh /\
          RX_BUF_DIFF(s.hist[CMD_HIST_PREV(s.hh)].head, s.hist[CMD_HIST_PREV(s.hh)].tail)
            + Len(s.cur) > RX_BUF_SIZE
  THEN s
  ELSE LET s1 == IF s.hp = s.hh THEN HistorySave(s) ELSE s
       IN HistoryLoad(s1, CMD_HIST_PREV(s1.hp))

(* history_next: load the newer entry; drop the stash once it is loaded. *)
HistoryNext(s) ==
  IF s.hp = s.hh THEN s
  ELSE LET id == CMD_HIST_NEXT(s.hp)
           s1 == HistoryLoad(s, id)
       IN IF id = CMD_HIST_PREV(s1.hh) THEN [s1 EXCEPT !.hh = id] ELSE s1

-----------------------------------------------------------------------------
(* handle_esc (lines 376-436).                                             *)
EscAction(s, c) ==
  CASE s.esc = "ESC_BRACKET" /\ c = "A" -> HistoryPrev(s)
    [] s.esc = "ESC_BRACKET" /\ c = "B" -> HistoryNext(s)
    [] s.esc = "ESC_BRACKET" /\ c = "C" -> MoveFwd(s)
    [] s.esc = "ESC_BRACKET" /\ c = "D" -> MoveBwd(s)
    [] s.esc = "ESC_O" /\ c = "F"       -> MoveEnd(s)
    [] s.esc = "ESC_BRACKET_1" /\ c = "~" -> MoveBegin(s)
    [] s.esc = "ESC_BRACKET_3" /\ c = "~" /\ s.ptr # Len(s.cur) ->
         HandleBackspace(MoveFwd(s))
    [] OTHER -> s

HandleEsc(s, c) ==
  CASE s.esc = "ESC_START" /\ c = "["   -> [s EXCEPT !.esc = "ESC_BRACKET"]
    [] s.esc = "ESC_START" /\ c = "O"   -> [s EXCEPT !.esc = "ESC_O"]
    [] s.esc = "ESC_BRACKET" /\ c = "1" -> [s EXCEPT !.esc = "ESC_BRACKET_1"]
    [] s.esc = "ESC_BRACKET" /\ c = "3" -> [s EXCEPT !.esc = "ESC_BRACKET_3"]
    [] OTHER -> [EscAction(s, c) EXCEPT
                   !.esc = IF c \in Letters \cup {"~"} THEN "ESC_OUTSIDE" ELSE "ESC_BAD"]

(* The control-character table of handle_console_char (lines 464-490).   *)
(* A newline is echoed as CR LF before it is inserted.                    *)
HandleControl(s, c) ==
  CASE c \in {"BS", "DEL"} -> HandleBackspace(s)
    [] c = "^A" -> MoveBegin(s)
    [] c = "^E" -> MoveEnd(s)
    [] c = "^L" -> ReprintCurrent(s)
    [] c = "^K" -> HandleKill(s)
    [] c = "^N" -> HistoryNext(s)
    [] c = "^P" -> HistoryPrev(s)
    [] c = "LF" -> InsertChar(Emit(s, <<Ch("CR"), Ch("LF")>>), "LF")
    [] c \in Printable -> InsertChar(Emit(s, <<Ch(c)>>), c)
    [] OTHER -> s

(* handle_console_char: CR and CRLF become one newline, then ESC starts  *)
(* an escape sequence, bytes inside one go to handle_esc, the rest to    *)
(* the control table.                                                     *)
Translated(s, c) == IF c = "CR" THEN "LF" ELSE c
SwallowedLF(s, c) == c = "LF" /\ s.cr

HandleConsoleChar(s0, c0) ==
  LET s == [s0 EXCEPT !.cr = (c0 = "CR")]
      c == Translated(s0, c0)
  IN CASE SwallowedLF(s0, c0) -> s
       [] c = "ESC"            -> [s EXCEPT !.esc = "ESC_START"]
       [] s.esc # "ESC_OUTSIDE" -> HandleEsc(s, c)
       [] OTHER                -> HandleControl(s, c)

(* Did handle_console_char reach the newline branch (console_has_input)? *)
NewlineEntered(s, c0) ==
  /\ ~SwallowedLF(s, c0)
  /\ Translated(s, c0) = "LF"
  /\ s.esc = "ESC_OUTSIDE"

-----------------------------------------------------------------------------
(* What the echoed bytes do to the terminal.                              *)
Prompt == <<">", " ">>
Pad(line, n) == line \o [i \in 1 .. (n - Len(line)) |-> " "]

LastCol == TERM_WIDTH - 1
TermPut(t, o) ==
  CASE o.k = "fwd" -> [t EXCEPT !.col = IF @ + o.v < LastCol THEN @ + o.v ELSE LastCol]
    [] o.k = "bwd" -> [t EXCEPT !.col = IF @ > o.v THEN @ - o.v ELSE 0]
    [] o.v = "CR"  -> [t EXCEPT !.col = 0]
    [] o.v = "LF"  -> [t EXCEPT !.line = <<>>]
    [] o.v = "FF"  -> [line |-> <<>>, col |-> 0]
    [] o.v = "BS"  -> [t EXCEPT !.col = IF @ > 0 THEN @ - 1 ELSE 0]
    [] o.v = "NUL" -> t
    [] OTHER -> [line |-> [Pad(t.line, t.col + 1) EXCEPT ![t.col + 1] = o.v],
                 col  |-> IF t.col < LastCol THEN t.col + 1 ELSE LastCol]

(* The terminal after a sequence of output bytes.                         *)
RECURSIVE TermAfter(_, _)
TermAfter(t, out) ==
  IF out = <<>> THEN t ELSE TermAfter(TermPut(t, Head(out)), Tail(out))

(* Store a console record back into the variables; its output goes to    *)
(* the terminal.                                                          *)
SetCon(s) ==
  /\ rx_cur_buf' = s.cur
  /\ rx_cur_buf_ptr' = s.ptr
  /\ rx_buf' = s.rx
  /\ cmd_history' = s.hist
  /\ cmd_history_head' = s.hh
  /\ cmd_history_tail' = s.ht
  /\ cmd_history_ptr' = s.hp
  /\ esc_state' = s.esc
  /\ last_rx_was_cr' = s.cr
  /\ saved_line' = s.saved
  /\ LET t == TermAfter([line |-> term_line, col |-> term_col], s.out)
     IN term_line' = t.line /\ term_col' = t.col

-----------------------------------------------------------------------------
Init ==
  /\ rx_cur_buf = <<>>
  /\ rx_cur_buf_ptr = 0
  /\ rx_buf = [i \in 0 .. RX_BUF_SIZE - 1 |-> "NUL"]
  /\ cmd_history = [i \in 0 .. HISTORY_SIZE - 1 |-> [head |-> 0, tail |-> 0]]
  /\ cmd_history_head = 0 /\ cmd_history_tail = 0 /\ cmd_history_ptr = 0
  /\ esc_state = "ESC_OUTSIDE"
  /\ last_rx_was_cr = FALSE
  /\ term_line = Prompt /\ term_col = Len(Prompt)    \* console_init's prompt
  /\ console_pc = "peek"
  /\ console_event = FALSE
  /\ owed = 0
  /\ overrun = FALSE
  /\ saved_line = [i \in 0 .. HISTORY_SIZE - 1 |-> <<>>]

(* The line holds a completed command the console task has not taken.    *)
LinePending == "LF" \in Range(rx_cur_buf)

(* A line is entered and its prompt has not been printed yet.             *)
AwaitingPrompt == LinePending \/ console_pc = "prompt"

(* The UART interrupt receives byte c and runs handle_console_char on it. *)
(* A newline wakes the console task.  Without TypeAhead the user waits   *)
(* for the prompt after a completed line before typing on.  Once a line  *)
(* has grown past rx_cur_buf (LineWithinBuffer fails), insert_char's check    *)
(* head == RX_LINE_SIZE no longer matches and every further byte is       *)
(* written over the statics that follow the array; the model takes no    *)
(* input from there on.                                                   *)
Receive(c) ==
  LET s  == Con
      nl == NewlineEntered(s, c)
  IN /\ Len(rx_cur_buf) <= RX_LINE_SIZE
     /\ TypeAhead \/ ~AwaitingPrompt
     /\ nl => owed < MaxOwed
     /\ \E s1 \in {HandleConsoleChar(s, c)} : SetCon(s1)
     /\ console_event' = (console_event \/ nl)
     /\ owed' = IF nl THEN owed + 1 ELSE owed
     /\ overrun' = (overrun \/ (/\ ~SwallowedLF(s, c) /\ s.esc = "ESC_OUTSIDE"
                                /\ c \in Printable /\ Len(s.cur) = RX_LINE_SIZE))
     /\ UNCHANGED console_pc

(* console_process: uart_peek('\n') with the interrupt disabled.         *)
Peek ==
  /\ console_pc = "peek"
  /\ console_pc' = IF LinePending THEN "gets" ELSE "wait"
  /\ UNCHANGED <<rx_cur_buf, rx_cur_buf_ptr, rx_buf, cmd_history,
                 cmd_history_head, cmd_history_tail, cmd_history_ptr, esc_state,
                 last_rx_was_cr, term_line, term_col, console_event, owed, overrun,
                 saved_line>>

(* console.c's input_buf, which uart_gets fills, is as long as rx_cur_buf *)
(* (80 bytes each).                                                        *)
INPUT_BUF_SIZE == RX_LINE_SIZE

(* Slip: the copy stops one byte earlier.                                *)
uart_gets_copyShort(line, size) ==
  LET n == Min({size - 2, Len(line)})
      nl == SelectInSeq(SubSeq(line, 1, n), LAMBDA c : c = "LF")
  IN IF nl = 0 THEN SubSeq(line, 1, n) ELSE SubSeq(line, 1, nl)

(* The copy loop of uart_gets: at most size - 1 bytes (the last is the   *)
(* '\0'), no more than the line holds, up to and including the first     *)
(* newline.                                                               *)
uart_gets_copy(line, size) ==
  LET n == Min({size - 1, Len(line)})
      nl == SelectInSeq(SubSeq(line, 1, n), LAMBDA c : c = "LF")
  IN IF nl = 0 THEN SubSeq(line, 1, n) ELSE SubSeq(line, 1, nl)

(* uart_gets with the interrupt disabled: drop the stash, save the line  *)
(* unless it is a bare newline, stop browsing, hand the line over and    *)
(* empty the line buffer.  handle_command then runs with the interrupt   *)
(* enabled.                                                               *)
Gets ==
  LET s0 == Con
      s1 == IF s0.hp # s0.hh THEN [s0 EXCEPT !.hh = CMD_HIST_PREV(@)] ELSE s0
      s2 == IF s1.cur # <<"LF">> THEN HistorySave(s1) ELSE s1
      s3 == [s2 EXCEPT !.hp = s2.hh, !.cur = <<>>, !.ptr = 0]
  IN /\ console_pc = "gets"
     /\ \E s \in {s3} : SetCon(s)
     /\ owed' = IF owed > 0 THEN owed - 1 ELSE 0
     /\ console_pc' = "prompt"
     /\ UNCHANGED <<console_event, overrun>>

(* ccputs(PROMPT) after handle_command, back to uart_peek.                *)
PrintPrompt ==
  LET t == TermAfter([line |-> term_line, col |-> term_col], Echo(Prompt))
  IN /\ console_pc = "prompt"
     /\ term_line' = t.line /\ term_col' = t.col
     /\ console_pc' = "peek"
     /\ UNCHANGED <<rx_cur_buf, rx_cur_buf_ptr, rx_buf, cmd_history,
                    cmd_history_head, cmd_history_tail, cmd_history_ptr, esc_state,
                    last_rx_was_cr, console_event, owed, overrun, saved_line>>

(* task_wait_event(-1): return at once if the event is already set.       *)
WaitEvent ==
  /\ console_pc = "wait"
  /\ console_event
  /\ console_event' = FALSE
  /\ console_pc' = "peek"
  /\ UNCHANGED <<rx_cur_buf, rx_cur_buf_ptr, rx_buf, cmd_history,
                 cmd_history_head, cmd_history_tail, cmd_history_ptr, esc_state,
                 last_rx_was_cr, term_line, term_col, owed, overrun, saved_line>>

ConsoleTask == Peek \/ Gets \/ PrintPrompt \/ WaitEvent

Next == (\E c \in Keys : Receive(c)) \/ ConsoleTask

(* The console task runs whenever it is ready: the scheduler runs every  *)
(* ready task, and the interrupt only delays it.  The user owes nothing.  *)
Spec == Init /\ [][Next]_vars /\ WF_vars(ConsoleTask)

-----------------------------------------------------------------------------
(* Properties.                                                             *)

Slot == [head : 0 .. RX_BUF_SIZE - 1, tail : 0 .. RX_BUF_SIZE - 1]

TypeOK ==
  /\ rx_cur_buf \in Seq(Bytes)
  /\ rx_cur_buf_ptr \in 0 .. Len(rx_cur_buf)
  /\ rx_buf \in [0 .. RX_BUF_SIZE - 1 -> Bytes]
  /\ cmd_history \in [0 .. HISTORY_SIZE - 1 -> Slot]
  /\ {cmd_history_head, cmd_history_tail, cmd_history_ptr} \subseteq 0 .. HISTORY_SIZE - 1
  /\ esc_state \in EscStates
  /\ last_rx_was_cr \in BOOLEAN
  /\ term_line \in Seq(Bytes) /\ Len(term_line) <= TERM_WIDTH
  /\ term_col \in 0 .. LastCol
  /\ console_pc \in {"peek", "gets", "prompt", "wait"}
  /\ console_event \in BOOLEAN
  /\ owed \in 0 .. MaxOwed /\ overrun \in BOOLEAN
  /\ saved_line \in [0 .. HISTORY_SIZE - 1 -> Seq(Bytes)]

(* The history slots from the oldest (cmd_history_tail) up to, not        *)
(* including, cmd_history_head.                                          *)
LiveSlots ==
  {(cmd_history_tail + k) % HISTORY_SIZE :
     k \in 0 .. ((cmd_history_head - cmd_history_tail) % HISTORY_SIZE) - 1}

(* Every live history entry reads back, byte for byte, as the line that   *)
(* history_save stored in it (without its newline): saving a new line,    *)
(* with its evictions, never overwrites a byte of an entry it keeps.      *)
HistoryIntact ==
  \A i \in LiveSlots : SlotBytes(rx_buf, cmd_history[i]) = saved_line[i]

(* The current line never outgrows rx_cur_buf (the spec's invariant      *)
(* 0 <= ptr <= head <= capacity), whatever insert_char and history_load   *)
(* copy into it.                                                          *)
LineWithinBuffer == Len(rx_cur_buf) <= RX_LINE_SIZE

(* The terminal shows what the line editor holds: after the prompt, the   *)
(* line, then only blanks, with the cursor at rx_cur_buf_ptr; once a      *)
(* newline is entered, and until the prompt is printed, the echo is on a *)
(* fresh, empty row.  This is what the echo arithmetic of insert_char,   *)
(* handle_backspace, handle_kill, reprint_current and history_load has   *)
(* to keep true.                                                          *)
DisplayInSync ==
  IF AwaitingPrompt
  THEN term_line = <<>> /\ term_col = 0
  ELSE LET n == Len(Prompt) + Len(rx_cur_buf)
       IN /\ Len(term_line) >= n
          /\ SubSeq(term_line, 1, n) = Prompt \o rx_cur_buf
          /\ \A i \in n + 1 .. Len(term_line) : term_line[i] = " "
          /\ term_col = Len(Prompt) + rx_cur_buf_ptr

(* The same, for as long as no typed byte has been echoed and then       *)
(* dropped by a full line buffer.                                          *)
DisplayInSyncUntilOverrun == ~overrun => DisplayInSync

(* While the user browses the history, cmd_history_ptr names a live      *)
(* entry: history_prev's stash can evict entries, and the pointer must   *)
(* not be left on one of them.                                            *)
BrowseInRange == cmd_history_ptr \in LiveSlots \cup {cmd_history_head}

(* The text of a command: the bytes before its first newline.           *)
CommandText(l) ==
  LET i == SelectInSeq(l, LAMBDA c : c = "LF")
  IN IF i = 0 THEN l ELSE SubSeq(l, 1, i - 1)

(* What uart_gets copies into input_buf for handle_command is the line   *)
(* the console task takes, up to its newline: the copy's bound of size-1 *)
(* bytes, with input_buf as long as rx_cur_buf, costs at most the newline *)
(* of a full line, never a typed character.  A line that has already     *)
(* overflowed rx_cur_buf (see LineWithinBuffer) is left out.              *)
CommandIsLine ==
  console_pc = "gets" /\ Len(rx_cur_buf) <= RX_LINE_SIZE
    => CommandText(uart_gets_copy(rx_cur_buf, INPUT_BUF_SIZE)) = CommandText(rx_cur_buf)

(* handle_command over every line of DispatchLines, as uart_gets leaves  *)
(* it in input_buf (at most 79 bytes, up to and including a newline).    *)
DispatchTableSound == \A l \in DispatchLines : DispatchSound(l)

(* The console task runs a command only when the line's first word, up   *)
(* to whitespace and before any '#', is a prefix of that command's name  *)
(* and of no other, whatever the case (spec section 6): for the line     *)
(* uart_gets is about to hand over, and for every line of DispatchLines.  *)
DispatchByUniquePrefix ==
  /\ console_pc = "gets" => DispatchSound(uart_gets_copy(rx_cur_buf, INPUT_BUF_SIZE))
  /\ DispatchTableSound

(* Every line the user completes with Enter is eventually handed to      *)
(* handle_command by the console task.                                    *)
LinesDispatched == owed > 0 ~> owed = 0

=============================================================================
