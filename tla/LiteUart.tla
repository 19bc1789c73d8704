------------------------------ MODULE LiteUart ------------------------------
(***************************************************************************)
(* One port of the LiteUART driver (liteuart.c).  It has no interrupt: a   *)
(* timer polls the receive FIFO, and start_tx() spins on the transmit FIFO *)
(* until the whole transmit ring is in it.  The serial core calls          *)
(* start_tx() with the port lock held, `sender # "idle"'; the handler of   *)
(* the timer takes no lock.                                                *)
(*                                                                         *)
(* A character is its number on its line; a flow control character is      *)
(* Flow.  The hardware drops what is written to a full FIFO and what       *)
(* arrives at one.                                                         *)
(***************************************************************************)
EXTENDS Integers, Sequences

CONSTANTS XMIT,         \* UART_XMIT_SIZE, the slots of the transmit ring
          WAKEUP,       \* WAKEUP_CHARS
          FIFO,         \* characters each FIFO of the hardware holds
          CloseInPoll,  \* whether a close may meet the handler running
          RemoveOpen,   \* whether the card may go while the port is open
          MaxIn,        \* bounds of the model: characters received,
          MaxOut,       \* characters written,
          MaxFlow       \* flow control characters sent

ASSUME SizeAssumption ==
  {XMIT, WAKEUP, FIFO} \subseteq Nat \ {0} /\ {MaxIn, MaxOut, MaxFlow} \subseteq Nat
ASSUME UartSwitchAssumption == {CloseInPoll, RemoveOpen} \subseteq BOOLEAN

VARIABLES
  port,     \* "absent", "bound" by probe(), or "open"
  timer,    \* whether the poll timer is armed
  poll,     \* whether its handler runs
  rxfifo,   \* the receive FIFO
  came,     \* characters that have arrived
  missed,   \* those of them that found it full
  tty,      \* what the line discipline was given
  buf, head, tail,   \* the transmit ring
  written,  \* characters put into it
  x_char,   \* a flow control character waits to be sent
  stopped,  \* the other end has stopped the transmission
  asleep,   \* a writer waits for room in the ring
  sender,   \* start_tx(): "idle", "start", "ring", or "put"
  ch,       \* the character of liteuart_putchar()
  txfifo,   \* the transmit FIFO
  line,     \* what has left it
  flows     \* flow control characters asked for

rxVars == <<rxfifo, came, missed, tty>>
txVars == <<buf, head, tail, written, x_char, stopped, asleep, sender, ch,
            txfifo, line, flows>>
uartVars   == <<port, timer, poll, rxVars, txVars>>

Flow  == 0
Slots == 0..XMIT - 1

UartInit ==
  /\ port = "absent" /\ timer = FALSE /\ poll = FALSE
  /\ rxfifo = <<>> /\ came = 0 /\ missed = {} /\ tty = <<>>
  /\ buf = [s \in Slots |-> Flow] /\ head = 0 /\ tail = 0 /\ written = 0
  /\ x_char = FALSE /\ stopped = FALSE /\ asleep = FALSE
  /\ sender = "idle" /\ ch = Flow
  /\ txfifo = <<>> /\ line = <<>> /\ flows = 0

-----------------------------------------------------------------------------
(* The port                                                                *)

\* A probe() that fails leaves nothing behind.
UartProbe ==
  /\ port = "absent"
  /\ port' = "bound"
  /\ UNCHANGED <<timer, poll, rxVars, txVars>>

\* The serial core empties the ring and calls startup().
Startup ==
  /\ port = "bound"
  /\ port' = "open"
  /\ timer' = TRUE
  /\ head' = 0 /\ tail' = 0
  /\ UNCHANGED <<poll, rxVars, buf, written, x_char, stopped, asleep, sender,
                 ch, txfifo, line, flows>>

Pending == (head - tail) % XMIT

\* The tty goes away, and with it its writers, and what is in the ring.
TtyGone ==
  /\ sender = "idle"
  /\ tail' = head /\ written' = written - Pending
  /\ stopped' = FALSE /\ asleep' = FALSE
  /\ UNCHANGED <<rxVars, buf, head, x_char, sender, ch, txfifo, line, flows>>

\* Faulty: does not delete the timer.
UartCloseTimerKept ==
  /\ port = "open" /\ (poll => CloseInPoll)
  /\ port' = "bound"
  /\ TtyGone
  /\ UNCHANGED <<timer, poll>>

\* The last close: stop_rx(), which does not wait for a running handler, and
\* shutdown(), which is empty.
UartClose ==
  /\ port = "open" /\ (poll => CloseInPoll)
  /\ port' = "bound"
  /\ timer' = FALSE
  /\ TtyGone
  /\ UNCHANGED poll

\* remove() hangs up the tty of an open port: shutdown() without stop_rx().
UartRemove ==
  /\ port = "bound" \/ (port = "open" /\ RemoveOpen)
  /\ port' = "absent"
  /\ TtyGone
  /\ UNCHANGED <<timer, poll>>

-----------------------------------------------------------------------------
(* Receiving                                                               *)

RxArrive ==
  /\ came < MaxIn
  /\ came' = came + 1
  /\ IF Len(rxfifo) < FIFO
     THEN rxfifo' = Append(rxfifo, came + 1) /\ UNCHANGED missed
     ELSE missed' = missed \cup {came + 1} /\ UNCHANGED rxfifo
  /\ UNCHANGED <<port, timer, poll, tty, txVars>>

TimerExpire ==
  /\ timer /\ ~poll
  /\ timer' = FALSE
  /\ poll' = TRUE
  /\ UNCHANGED <<port, rxVars, txVars>>

\* One round of the loop of liteuart_timer().
PollChar ==
  /\ poll /\ rxfifo # <<>>
  /\ tty' = Append(tty, Head(rxfifo))
  /\ rxfifo' = Tail(rxfifo)
  /\ UNCHANGED <<port, timer, poll, came, missed, txVars>>

\* Faulty: does not re-arm the timer.
PollDoneNoRearm ==
  /\ poll /\ rxfifo = <<>>
  /\ poll' = FALSE
  /\ UNCHANGED <<port, timer, rxVars, txVars>>

PollDone ==
  /\ poll /\ rxfifo = <<>>
  /\ poll' = FALSE
  /\ timer' = TRUE
  /\ UNCHANGED <<port, rxVars, txVars>>

-----------------------------------------------------------------------------
(* Transmitting                                                            *)

\* The serial core copies as much as the ring takes, and starts the port
\* unless it is stopped; the writer sleeps when it has more.
Write(n) ==
  LET room == XMIT - 1 - Pending
      k    == IF n < room THEN n ELSE room
  IN  /\ port = "open" /\ sender = "idle" /\ ~asleep
      /\ written + n <= MaxOut
      /\ buf' = [s \in Slots |-> IF (s - head) % XMIT < k
                                 THEN written + 1 + ((s - head) % XMIT)
                                 ELSE buf[s]]
      /\ head' = (head + k) % XMIT
      /\ written' = written + k
      /\ asleep' = (n > room)
      /\ sender' = IF stopped THEN "idle" ELSE "start"
      /\ UNCHANGED <<port, timer, poll, rxVars, tail, x_char, stopped, ch,
                     txfifo, line, flows>>

\* uart_send_xchar(): also when the transmission is stopped.
SendFlow ==
  /\ port = "open" /\ sender = "idle" /\ flows < MaxFlow
  /\ flows' = flows + 1
  /\ x_char' = TRUE
  /\ sender' = "start"
  /\ UNCHANGED <<port, timer, poll, rxVars, buf, head, tail, written, stopped,
                 asleep, ch, txfifo, line>>

StopTx ==
  /\ port = "open" /\ ~stopped /\ sender = "idle"
  /\ stopped' = TRUE
  /\ UNCHANGED <<port, timer, poll, rxVars, buf, head, tail, written, x_char,
                 asleep, sender, ch, txfifo, line, flows>>

RestartTx ==
  /\ port = "open" /\ stopped /\ sender = "idle"
  /\ stopped' = FALSE
  /\ sender' = "start"
  /\ UNCHANGED <<port, timer, poll, rxVars, buf, head, tail, written, x_char,
                 asleep, ch, txfifo, line, flows>>

\* litex_write8() of RXTX.
Push(c) == txfifo' = IF Len(txfifo) < FIFO THEN Append(txfifo, c) ELSE txfifo

\* The end of start_tx().
Wakeup ==
  /\ sender' = "idle"
  /\ asleep' = (asleep /\ Pending >= WAKEUP)

\* Faulty: does not clear x_char.
StartTxFlowKept ==
  /\ sender = "start" /\ x_char
  /\ Push(Flow)
  /\ Wakeup
  /\ UNCHANGED <<port, timer, poll, rxVars, buf, head, tail, written, x_char,
                 stopped, ch, line, flows>>

\* start_tx() with x_char: does not ask TXFULL, and leaves the ring alone.
StartTxFlow ==
  /\ sender = "start" /\ x_char
  /\ Push(Flow)
  /\ x_char' = FALSE
  /\ Wakeup
  /\ UNCHANGED <<port, timer, poll, rxVars, buf, head, tail, written, stopped,
                 ch, line, flows>>

StartTxRing ==
  /\ sender = "start" /\ ~x_char
  /\ sender' = "ring"
  /\ UNCHANGED <<port, timer, poll, rxVars, buf, head, tail, written, x_char,
                 stopped, asleep, ch, txfifo, line, flows>>

\* Faulty: does not wrap the tail.
TakeCharNoWrap ==
  /\ sender = "ring" /\ head # tail
  /\ ch' = buf[tail]
  /\ tail' = tail + 1
  /\ sender' = "put"
  /\ UNCHANGED <<port, timer, poll, rxVars, buf, head, written, x_char,
                 stopped, asleep, txfifo, line, flows>>

TakeChar ==
  /\ sender = "ring" /\ head # tail
  /\ ch' = buf[tail]
  /\ tail' = (tail + 1) % XMIT
  /\ sender' = "put"
  /\ UNCHANGED <<port, timer, poll, rxVars, buf, head, written, x_char,
                 stopped, asleep, txfifo, line, flows>>

\* Faulty: does not ask TXFULL.
PutCharNoWait ==
  /\ sender = "put"
  /\ Push(ch)
  /\ sender' = "ring"
  /\ UNCHANGED <<port, timer, poll, rxVars, buf, head, tail, written, x_char,
                 stopped, asleep, ch, line, flows>>

\* liteuart_putchar(): spins until TXFULL is clear.
PutChar ==
  /\ sender = "put" /\ Len(txfifo) < FIFO
  /\ Push(ch)
  /\ sender' = "ring"
  /\ UNCHANGED <<port, timer, poll, rxVars, buf, head, tail, written, x_char,
                 stopped, asleep, ch, line, flows>>

StartTxDone ==
  /\ sender = "ring" /\ head = tail
  /\ Wakeup
  /\ UNCHANGED <<port, timer, poll, rxVars, buf, head, tail, written, x_char,
                 stopped, ch, txfifo, line, flows>>

TxLeave ==
  /\ txfifo # <<>>
  /\ line' = Append(line, Head(txfifo))
  /\ txfifo' = Tail(txfifo)
  /\ UNCHANGED <<port, timer, poll, rxVars, buf, head, tail, written, x_char,
                 stopped, asleep, sender, ch, flows>>

-----------------------------------------------------------------------------
StartTx == StartTxFlow \/ StartTxRing \/ TakeChar \/ PutChar \/ StartTxDone
Polling == TimerExpire \/ PollChar \/ PollDone

UartNext ==
  \/ UartProbe \/ Startup \/ UartClose \/ UartRemove
  \/ RxArrive
  \/ Polling
  \/ \E n \in 1..XMIT : Write(n)
  \/ SendFlow \/ StopTx \/ RestartTx
  \/ StartTx
  \/ TxLeave

UartSpec == UartInit /\ [][UartNext]_uartVars

\* An armed timer expires and its handler goes on; start_tx() goes on; the
\* hardware sends what its FIFO holds.
UartLiveSpec ==
  UartSpec /\ WF_uartVars(Polling) /\ WF_uartVars(StartTx) /\ WF_uartVars(TxLeave)

-----------------------------------------------------------------------------
Taken    == IF sender = "put" THEN <<ch>> ELSE <<>>
Sent     == line \o txfifo \o Taken
Received == tty \o rxfifo

\* The characters of a line, flow control apart, and that they are in order.
Chars(s)     == {s[i] : i \in DOMAIN s} \ {Flow}
Ascending(s) ==
  \A i, j \in DOMAIN s : i < j /\ Flow \notin {s[i], s[j]} => s[i] < s[j]

UartTypeOK ==
  /\ port \in {"absent", "bound", "open"}
  /\ {timer, poll, x_char, stopped, asleep} \subseteq BOOLEAN
  /\ rxfifo \in Seq(1..came) /\ Len(rxfifo) <= FIFO
  /\ came \in 0..MaxIn /\ missed \subseteq 1..came /\ tty \in Seq(1..came)
  /\ buf \in [Slots -> 0..MaxOut] /\ {head, tail} \subseteq Slots
  /\ written \in 0..MaxOut /\ flows \in 0..MaxFlow
  /\ sender \in {"idle", "start", "ring", "put"} /\ ch \in 0..MaxOut
  /\ txfifo \in Seq(0..MaxOut) /\ Len(txfifo) <= FIFO
  /\ line \in Seq(0..MaxOut)

\* What start_tx() takes from the ring goes out in the order it was written,
\* nothing lost or sent twice, with flow control characters anywhere between
\* and the ring wrapping round (liteuart.c:116-122, 147-163); and what the
\* receive FIFO takes reaches the tty the same way, over closes and reopenings
\* (liteuart.c:102-111).
InOrder ==
  /\ Ascending(Sent) /\ Chars(Sent) = 1..written - Pending
  /\ \A k \in 1..Pending :
       buf[(tail + k - 1) % XMIT] = written - Pending + k
  /\ Ascending(Received) /\ Chars(Received) = (1..came) \ missed

\* There is no transmit interrupt that would come back for it: when start_tx()
\* has returned and the transmission is not stopped, the ring is empty and no
\* writer sleeps (liteuart.c:152-166).
NoneStranded == sender = "idle" /\ ~stopped => Pending = 0 /\ ~asleep

\* The poll timer and its handler are at rest whenever the port is not open:
\* startup() sets the timer up afresh, and remove() lets its memory be freed
\* (liteuart.c:169-175, 190, 287, 344).
ClosedQuiet == port # "open" => ~timer /\ ~poll

\* A flow control character reaches the line (liteuart.c:152-155).
FlowSent ==
  Len(SelectSeq(line \o txfifo, LAMBDA c : c = Flow))
    + (IF x_char THEN 1 ELSE 0) = flows

\* While the port is open the receive FIFO is emptied again and again, and
\* start_tx() returns (liteuart.c:113, 118-119).
KeepsPolling ==
  /\ (port = "open" /\ rxfifo # <<>>) ~> (port # "open" \/ rxfifo = <<>>)
  /\ (sender # "idle") ~> (sender = "idle")
=============================================================================
