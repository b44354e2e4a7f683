------------------------------ MODULE TxBuffer ------------------------------
(***************************************************************************)
(* The console transmit path of src/common/uart_buffering.c on the LM4    *)
(* UART of src/chip/lm4/uart.c: tasks print with uart_puts, which puts    *)
(* characters into the circular tx_buf with __tx_char (LF becomes CR LF)  *)
(* and starts the transmit interrupt if it is stopped; uart_process,      *)
(* run by the UART interrupt or by a task with the interrupt disabled,    *)
(* echoes received characters straight into the hardware FIFO, moves      *)
(* tx_buf into the FIFO while it has room and stops the transmit          *)
(* interrupt once tx_buf is empty.  The hardware FIFO sends one character *)
(* at a time and raises the transmit interrupt when its level crosses     *)
(* the trigger level from above (the comment in uart_tx_start).           *)
(*                                                                         *)
(* __tx_char is split at its reads and writes of tx_buf_head, since a     *)
(* task may be preempted by a higher-priority task between them.  The     *)
(* interrupt handler runs to completion before any task step; the         *)
(* hardware runs alongside it.                                             *)
(***************************************************************************)
EXTENDS Naturals, Sequences, SequencesExt

CONSTANTS
  Tasks,              \* the tasks that call uart_puts
  Msgs,               \* Msgs[t]: the strings task t prints
  Preemptive,         \* may a task be preempted by another (spec 5: no)?
  Priority,           \* Priority[t]: with Preemptive, a higher one preempts
  MaxPuts,            \* calls of uart_puts per task
  MaxRx,              \* characters received over the whole behaviour
  TX_BUF_SIZE,        \* CONFIG_UART_TX_BUF_SIZE, a power of two (512 in the code)
  FIFO_DEPTH,         \* the hardware transmit FIFO (16 on the LM4)
  TX_TRIGGER          \* IFLS: interrupt when the FIFO falls to this level (1/4)

Chars == {"a", "b", "CR", "LF"}

(* A character in the buffers carries the task that wrote it; the tag is  *)
(* not in the code, it only names the writer for the specification.      *)
Echo == [by |-> "echo", c |-> "e"]

TX_BUF_NEXT(i) == (i + 1) % TX_BUF_SIZE

VARIABLES
  tx_buf, tx_buf_head, tx_buf_tail,
  fifo,         \* the hardware transmit FIFO
  wire,         \* what has left the UART
  im_tx,        \* the TX bit (0x20) of LM4_UART_IM
  txris,        \* the raw TX interrupt status
  rxris,        \* the raw RX / RX-timeout interrupt status
  rx_count,     \* characters in the receive FIFO
  rx_left,      \* characters still to arrive
  trig,         \* task_trigger_irq has pended the UART interrupt
  ctx,          \* who runs uart_process: "none", "isr" or "task"
  phase,        \* uart_process's loop: "rx" then "tx"
  pc,           \* pc[t]: where task t is in uart_puts and __tx_char
  str,          \* str[t]: the rest of the string uart_puts is putting
  cur,          \* cur[t]: what __tx_char still puts for the current character
  nxt,          \* nxt[t]: __tx_char's tx_buf_next
  puts_left,    \* puts_left[t]: calls of uart_puts still to make
  accepted      \* accepted[t]: characters __tx_char told t it wrote

vars == <<tx_buf, tx_buf_head, tx_buf_tail, fifo, wire, im_tx, txris, rxris,
          rx_count, rx_left, trig, ctx, phase, pc, str, cur, nxt, puts_left,
          accepted>>

hw_vars == <<fifo, wire, txris, rxris, rx_count, rx_left>>
task_vars == <<pc, str, cur, nxt, puts_left, accepted>>

(* The LM4 UART of src/chip/lm4/uart.c: the TX bit of the interrupt mask *)
(* and the FIFO flags.                                                     *)
uart_tx_stopped == ~im_tx

uart_tx_stop == im_tx' = FALSE

uart_tx_ready == Len(fifo) < FIFO_DEPTH

uart_rx_available == rx_count > 0

(* uart_write_char: wait for room in the FIFO, then write the data       *)
(* register.                                                               *)
uart_write_char(e) == uart_tx_ready /\ fifo' = Append(fifo, e)

(* The characters in tx_buf, oldest first.                                 *)
BufContents ==
  [i \in 1 .. (tx_buf_head - tx_buf_tail) % TX_BUF_SIZE |->
     tx_buf[(tx_buf_tail + i - 1) % TX_BUF_SIZE]]

NotEcho(e) == e.by # "echo"

(* __tx_char's newline translation in console mode.                        *)
Expand(ch) == IF ch = "LF" THEN << "CR", "LF" >> ELSE << ch >>

Init ==
  /\ tx_buf = [i \in 0 .. TX_BUF_SIZE - 1 |-> Echo]
  /\ tx_buf_head = 0 /\ tx_buf_tail = 0
  /\ fifo = << >> /\ wire = << >>
  /\ im_tx = FALSE /\ txris = FALSE /\ rxris = FALSE
  /\ rx_count = 0 /\ rx_left = MaxRx
  /\ trig = FALSE /\ ctx = "none" /\ phase = "rx"
  /\ pc = [t \in Tasks |-> "idle"]
  /\ str = [t \in Tasks |-> << >>]
  /\ cur = [t \in Tasks |-> << >>]
  /\ nxt = [t \in Tasks |-> 0]
  /\ puts_left = [t \in Tasks |-> MaxPuts]
  /\ accepted = [t \in Tasks |-> << >>]

-----------------------------------------------------------------------------
(* Task steps; none runs while uart_process runs in the interrupt or with *)
(* the interrupt disabled.  Tasks switch only where one blocks, never     *)
(* inside uart_puts; with Preemptive, a task of higher priority may take   *)
(* over anywhere, and one of lower priority waits for it to finish.        *)
TaskStep(t, p) ==
  /\ ctx = "none" /\ pc[t] = p
  /\ \A u \in Tasks \ {t} :
       (~Preemptive \/ Priority[u] > Priority[t]) => pc[u] = "idle"

(* uart_puts is called with one of the task's strings.                    *)
Puts(t) ==
  /\ TaskStep(t, "idle") /\ puts_left[t] > 0
  /\ \E s \in Msgs[t] : str' = [str EXCEPT ![t] = s]
  /\ puts_left' = [puts_left EXCEPT ![t] = @ - 1]
  /\ pc' = [pc EXCEPT ![t] = "loop"]
  /\ UNCHANGED <<cur, nxt, accepted, tx_buf, tx_buf_head, tx_buf_tail,
                 im_tx, trig, ctx, phase, hw_vars>>

(* The loop over outstr: the next character goes to __tx_char.           *)
PutsLoop(t) ==
  /\ TaskStep(t, "loop")
  /\ IF str[t] = << >>
     THEN pc' = [pc EXCEPT ![t] = "check"] /\ UNCHANGED cur
     ELSE /\ cur' = [cur EXCEPT ![t] = Expand(Head(str[t]))]
          /\ pc' = [pc EXCEPT ![t] = "tx_check"]
  /\ UNCHANGED <<str, nxt, puts_left, accepted, tx_buf, tx_buf_head,
                 tx_buf_tail, im_tx, trig, ctx, phase, hw_vars>>

(* Slip: the result of __tx_char(NULL, '\r') ignored, so a refused CR is *)
(* skipped and its LF still tried.                                        *)
TxCheckIgnoreCr(t) ==
  /\ TaskStep(t, "tx_check")
  /\ nxt' = [nxt EXCEPT ![t] = TX_BUF_NEXT(tx_buf_head)]
  /\ IF nxt'[t] = tx_buf_tail /\ Len(cur[t]) = 2
     THEN cur' = [cur EXCEPT ![t] = Tail(@)] /\ pc' = [pc EXCEPT ![t] = "tx_check"]
     ELSE /\ pc' = [pc EXCEPT ![t] = IF nxt'[t] = tx_buf_tail THEN "check" ELSE "tx_store"]
          /\ UNCHANGED cur
  /\ UNCHANGED <<str, puts_left, accepted, tx_buf, tx_buf_head,
                 tx_buf_tail, im_tx, trig, ctx, phase, hw_vars>>

(* tx_buf_next = TX_BUF_NEXT(tx_buf_head); a full buffer returns 1 and    *)
(* uart_puts breaks out of its loop (for LF, after its CR went in).      *)
TxCheck(t) ==
  /\ TaskStep(t, "tx_check")
  /\ nxt' = [nxt EXCEPT ![t] = TX_BUF_NEXT(tx_buf_head)]
  /\ pc' = [pc EXCEPT ![t] = IF nxt'[t] = tx_buf_tail THEN "check" ELSE "tx_store"]
  /\ UNCHANGED <<str, cur, puts_left, accepted, tx_buf, tx_buf_head,
                 tx_buf_tail, im_tx, trig, ctx, phase, hw_vars>>

(* tx_buf[tx_buf_head] = c                                                 *)
TxStore(t) ==
  /\ TaskStep(t, "tx_store")
  /\ tx_buf' = [tx_buf EXCEPT ![tx_buf_head] = [by |-> t, c |-> Head(cur[t])]]
  /\ pc' = [pc EXCEPT ![t] = "tx_adv"]
  /\ UNCHANGED <<str, cur, nxt, puts_left, accepted, tx_buf_head,
                 tx_buf_tail, im_tx, trig, ctx, phase, hw_vars>>

(* tx_buf_head = tx_buf_next; return 0.  After the last piece of the      *)
(* character uart_puts moves on to the next one.                          *)
TxAdvance(t) ==
  /\ TaskStep(t, "tx_adv")
  /\ tx_buf_head' = nxt[t]
  /\ accepted' = [accepted EXCEPT ![t] = Append(@, Head(cur[t]))]
  /\ cur' = [cur EXCEPT ![t] = Tail(@)]
  /\ IF Tail(cur[t]) = << >>
     THEN str' = [str EXCEPT ![t] = Tail(@)] /\ pc' = [pc EXCEPT ![t] = "loop"]
     ELSE UNCHANGED str /\ pc' = [pc EXCEPT ![t] = "tx_check"]
  /\ UNCHANGED <<nxt, puts_left, tx_buf, tx_buf_tail, im_tx, trig, ctx, phase,
                 hw_vars>>

(* if (uart_tx_stopped()) ...                                              *)
TxStoppedCheck(t) ==
  /\ TaskStep(t, "check")
  /\ pc' = [pc EXCEPT ![t] = IF uart_tx_stopped THEN "start" ELSE "idle"]
  /\ UNCHANGED <<str, cur, nxt, puts_left, accepted, tx_buf, tx_buf_head,
                 tx_buf_tail, im_tx, trig, ctx, phase, hw_vars>>

(* Slip: uart_tx_start without the forced trigger.                         *)
uart_tx_startNoTrigger == im_tx' = TRUE /\ UNCHANGED trig

(* ... uart_tx_start(): unmask TX, then task_trigger_irq, since the FIFO  *)
(* only interrupts when its level crosses the trigger.                    *)
uart_tx_start == im_tx' = TRUE /\ trig' = TRUE

TxStart(t) ==
  /\ TaskStep(t, "start")
  /\ uart_tx_start
  /\ pc' = [pc EXCEPT ![t] = "idle"]
  /\ UNCHANGED <<str, cur, nxt, puts_left, accepted, tx_buf, tx_buf_head,
                 tx_buf_tail, ctx, phase, hw_vars>>

(* uart_flush_output, which console commands call (cflush) to see their  *)
(* output out before going on.                                             *)
Flush(t) ==
  /\ TaskStep(t, "idle")
  /\ pc' = [pc EXCEPT ![t] = "flush"]
  /\ UNCHANGED <<str, cur, nxt, puts_left, accepted, tx_buf, tx_buf_head,
                 tx_buf_tail, im_tx, trig, ctx, phase, hw_vars>>

(* Its first loop spins while tx_buf is not empty, restarting the         *)
(* transmit interrupt whenever it finds it stopped; a pass that does      *)
(* neither changes nothing, so only the passes that do are steps here.   *)
(* Without preemption the restart never happens: every uart_puts starts  *)
(* the interrupt before it returns, and uart_process stops it only on an *)
(* empty tx_buf.                                                          *)
FlushWait(t) ==
  /\ TaskStep(t, "flush")
  /\ tx_buf_head = tx_buf_tail \/ uart_tx_stopped
  /\ IF tx_buf_head = tx_buf_tail
     THEN pc' = [pc EXCEPT ![t] = "flush_fifo"] /\ UNCHANGED <<im_tx, trig>>
     ELSE uart_tx_start /\ UNCHANGED pc
  /\ UNCHANGED <<str, cur, nxt, puts_left, accepted, tx_buf, tx_buf_head,
                 tx_buf_tail, ctx, phase, hw_vars>>

(* Slip: uart_tx_flush left out, as if an empty tx_buf meant sent.        *)
uart_tx_flushNone == TRUE

(* uart_tx_flush of chip/lm4/uart.c: spin until the flag register says    *)
(* the transmit FIFO is empty (TXFE).                                      *)
uart_tx_flush == fifo = << >>

FlushFifo(t) ==
  /\ TaskStep(t, "flush_fifo")
  /\ uart_tx_flush
  /\ pc' = [pc EXCEPT ![t] = "idle"]
  /\ UNCHANGED <<str, cur, nxt, puts_left, accepted, tx_buf, tx_buf_head,
                 tx_buf_tail, im_tx, trig, ctx, phase, hw_vars>>

Task(t) ==
  \/ Puts(t) \/ PutsLoop(t) \/ TxCheck(t) \/ TxStore(t) \/ TxAdvance(t)
  \/ TxStoppedCheck(t) \/ TxStart(t) \/ Flush(t) \/ FlushWait(t) \/ FlushFifo(t)

-----------------------------------------------------------------------------
(* uart_0_interrupt: taken while TX is unmasked and its raw status set,   *)
(* while a character has been received, or when a task triggered it; it   *)
(* clears the interrupt status (ICR = 0x70) and runs uart_process.        *)
Interrupt ==
  /\ ctx = "none"
  /\ trig \/ (im_tx /\ txris) \/ rxris
  /\ ctx' = "isr" /\ phase' = "rx"
  /\ trig' = FALSE /\ txris' = FALSE /\ rxris' = FALSE
  /\ UNCHANGED <<tx_buf, tx_buf_head, tx_buf_tail, fifo, wire, rx_count,
                 rx_left, im_tx, task_vars>>

(* uart_peek, uart_getc and uart_gets run uart_process from a task with   *)
(* the UART interrupt disabled.                                            *)
TaskProcess(t) ==
  /\ TaskStep(t, "idle")
  /\ ctx' = "task" /\ phase' = "rx"
  /\ UNCHANGED <<tx_buf, tx_buf_head, tx_buf_tail, im_tx, trig, hw_vars,
                 task_vars>>

(* uart_process, first loop: each received character is handled by       *)
(* handle_console_char, whose echo goes straight into the FIFO with       *)
(* uart_write_char (which waits for room).                                 *)
ProcRx ==
  /\ ctx # "none" /\ phase = "rx"
  /\ IF uart_rx_available
     THEN /\ uart_write_char(Echo)
          /\ rx_count' = rx_count - 1
          /\ UNCHANGED phase
     ELSE phase' = "tx" /\ UNCHANGED <<fifo, rx_count>>
  /\ UNCHANGED <<tx_buf, tx_buf_head, tx_buf_tail, wire, im_tx, txris, rxris,
                 rx_left, trig, ctx, task_vars>>

(* Slip: uart_tx_ready() left out of the copy loop's condition.           *)
ProcTxNoReady ==
  /\ ctx # "none" /\ phase = "tx"
  /\ tx_buf_head # tx_buf_tail
  /\ fifo' = Append(fifo, tx_buf[tx_buf_tail])
  /\ tx_buf_tail' = TX_BUF_NEXT(tx_buf_tail)
  /\ UNCHANGED <<tx_buf, tx_buf_head, wire, im_tx, txris, rxris, rx_count,
                 rx_left, trig, ctx, phase, task_vars>>

(* Second loop: copy tx_buf into the FIFO while it has room.               *)
ProcTx ==
  /\ ctx # "none" /\ phase = "tx"
  /\ uart_tx_ready /\ tx_buf_head # tx_buf_tail
  /\ uart_write_char(tx_buf[tx_buf_tail])
  /\ tx_buf_tail' = TX_BUF_NEXT(tx_buf_tail)
  /\ UNCHANGED <<tx_buf, tx_buf_head, wire, im_tx, txris, rxris, rx_count,
                 rx_left, trig, ctx, phase, task_vars>>

(* The loop ends on a full FIFO or an empty tx_buf; an empty tx_buf       *)
(* stops the transmit interrupt.                                           *)
ProcEnd ==
  /\ ctx # "none" /\ phase = "tx"
  /\ ~uart_tx_ready \/ tx_buf_head = tx_buf_tail
  /\ IF tx_buf_tail = tx_buf_head THEN uart_tx_stop ELSE UNCHANGED im_tx
  /\ ctx' = "none"
  /\ UNCHANGED <<tx_buf, tx_buf_head, tx_buf_tail, trig, phase, hw_vars,
                 task_vars>>

UartProcess == ProcRx \/ ProcTx \/ ProcEnd

(* The UART sends the oldest character of its FIFO; a level falling      *)
(* through TX_TRIGGER raises the TX raw status.                           *)
HwSend ==
  /\ fifo # << >>
  /\ wire' = Append(wire, Head(fifo))
  /\ fifo' = Tail(fifo)
  /\ txris' = (txris \/ (Len(fifo) > TX_TRIGGER /\ Len(fifo) - 1 <= TX_TRIGGER))
  /\ UNCHANGED <<tx_buf, tx_buf_head, tx_buf_tail, im_tx, rxris, rx_count,
                 rx_left, trig, ctx, phase, task_vars>>

(* A character arrives from the terminal.                                  *)
HwReceive ==
  /\ rx_left > 0
  /\ rx_count' = rx_count + 1 /\ rx_left' = rx_left - 1
  /\ rxris' = TRUE
  /\ UNCHANGED <<tx_buf, tx_buf_head, tx_buf_tail, fifo, wire, im_tx, txris,
                 trig, ctx, phase, task_vars>>

(* Every task has made its calls and no more input comes.                 *)
Finished ==
  /\ \A t \in Tasks : pc[t] = "idle" /\ puts_left[t] = 0
  /\ rx_left = 0 /\ ctx = "none"

Next ==
  \/ \E t \in Tasks : Task(t) \/ TaskProcess(t)
  \/ Interrupt \/ UartProcess \/ HwSend \/ HwReceive
  \/ Finished /\ UNCHANGED vars

(* Tasks run whenever they are ready; the NVIC takes a pending, enabled   *)
(* interrupt; the handler runs to its end; the UART keeps sending.        *)
Spec ==
  /\ Init /\ [][Next]_vars
  /\ \A t \in Tasks : WF_vars(Task(t))
  /\ WF_vars(Interrupt) /\ WF_vars(UartProcess) /\ WF_vars(HwSend)

-----------------------------------------------------------------------------
TypeOK ==
  /\ tx_buf_head \in 0 .. TX_BUF_SIZE - 1 /\ tx_buf_tail \in 0 .. TX_BUF_SIZE - 1
  /\ Len(fifo) <= FIFO_DEPTH
  /\ ctx \in {"none", "isr", "task"} /\ phase \in {"rx", "tx"}
  /\ {im_tx, txris, rxris, trig} \subseteq BOOLEAN
  /\ \A t \in Tasks : pc[t] \in {"idle", "loop", "tx_check", "tx_store",
                                  "tx_adv", "check", "start", "flush", "flush_fifo"}

(* The transmit path implements UartTx: what __tx_char told each task it  *)
(* wrote is, in order, the queue of tx_buf behind the FIFO, and then the  *)
(* wire; and every such character eventually leaves the UART, which needs *)
(* uart_tx_start and the FIFO's trigger to keep the interrupt coming.     *)
Abs == INSTANCE UartTx WITH
         Writers <- Tasks,
         written <- accepted,
         pending <- SelectSeq(fifo, NotEcho) \o BufContents,
         out <- SelectSeq(wire, NotEcho)

WritesReachWire == Abs!Spec

(* The same, without the eventual delivery: nothing a task was told it   *)
(* wrote is lost, overwritten or sent out of order.                       *)
WritesKept == Abs!SafeSpec

(* Each task's output, as it reaches the wire, never has an LF that does  *)
(* not follow a CR: __tx_char gives up on LF when its CR did not fit.     *)
Stream(t) ==
  LET s == SelectSeq(SelectSeq(wire, NotEcho) \o SelectSeq(fifo, NotEcho) \o BufContents,
                     LAMBDA e : e.by = t)
  IN [i \in 1 .. Len(s) |-> s[i].c]

CrBeforeLf ==
  \A t \in Tasks : \A i \in 1 .. Len(Stream(t)) :
    Stream(t)[i] = "LF" => i > 1 /\ Stream(t)[i - 1] = "CR"

(* When uart_flush_output returns to a task, everything __tx_char told   *)
(* that task it wrote has left the UART: neither tx_buf nor the FIFO     *)
(* holds any of it, though the interrupt may have echoed input since.    *)
FlushedOutputSent ==
  [][\A t \in Tasks :
       pc[t] = "flush_fifo" /\ pc'[t] = "idle" =>
         SelectSeq(wire', LAMBDA e : e.by = t) =
           [i \in 1 .. Len(accepted'[t]) |-> [by |-> t, c |-> accepted'[t][i]]]]_vars

=============================================================================
