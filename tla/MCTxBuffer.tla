----------------------------- MODULE MCTxBuffer -----------------------------
(* The transmit path with small buffers: four tx_buf slots (three usable), *)
(* a two-character FIFO that interrupts when it falls to one.              *)
EXTENDS TxBuffer

CONSTANTS t1, t2

(* Each task prints a word ending in a newline, or a bare newline.        *)
TaskMsgs == [t \in Tasks |-> {<< IF t = t1 THEN "a" ELSE "b", "LF" >>, << "LF" >>}]

(* t2 has the higher priority.                                              *)
TaskPriority == [t \in Tasks |-> IF t = t1 THEN 1 ELSE 2]

=============================================================================
