------------------------------- MODULE UartTx -------------------------------
(***************************************************************************)
(* What the console's transmit path promises its writers: a character    *)
(* that __tx_char reports as written (it returns 0) is queued behind      *)
(* everything written before it and eventually goes out on the wire, in  *)
(* order, whichever task wrote it.  A write may be refused (the buffer is *)
(* full), which this specification leaves open.                           *)
(***************************************************************************)
EXTENDS Sequences

CONSTANTS
  Writers,    \* the tasks that print
  Chars       \* the characters they print

VARIABLES
  written,    \* written[w]: the characters w has been told were written
  pending,    \* written characters not yet on the wire, as [by, c] records
  out         \* the characters on the wire, as [by, c] records

avars == <<written, pending, out>>

Init ==
  /\ written = [w \in Writers |-> << >>]
  /\ pending = << >>
  /\ out = << >>

(* A writer's character joins the back of the queue.                      *)
Accept(w, c) ==
  /\ written' = [written EXCEPT ![w] = Append(@, c)]
  /\ pending' = Append(pending, [by |-> w, c |-> c])
  /\ UNCHANGED out

(* The character at the front of the queue goes out on the wire.          *)
Emit ==
  /\ pending # << >>
  /\ out' = Append(out, Head(pending))
  /\ pending' = Tail(pending)
  /\ UNCHANGED written

Next == (\E w \in Writers, c \in Chars : Accept(w, c)) \/ Emit

SafeSpec == Init /\ [][Next]_avars

Spec == SafeSpec /\ WF_avars(Emit)

=============================================================================
