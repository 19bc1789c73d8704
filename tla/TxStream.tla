------------------------------ MODULE TxStream ------------------------------
(***************************************************************************)
(* What write() on a LitePCIe channel promises: the client's buffers are   *)
(* taken in order, never more than half a ring ahead of the engine; one    *)
(* that is taken before the engine comes to it is sent exactly as given,   *)
(* at its place, and a buffer is only reported lost when the engine is     *)
(* past it (main.c:525-546).                                               *)
(***************************************************************************)
EXTENDS Integers

CONSTANT Half   \* DMA_BUFFER_COUNT/2

VARIABLES
  on,         \* the engine is started
  position,   \* buffers the engine has sent since it was started
  next,       \* the next buffer of the client
  due,        \* buffers taken in time, and not sent yet
  sent,       \* the last buffer sent: its place, its contents, whether due
  got         \* what the client was last told: kind, buffer, and where the
              \* engine was

txsVars == <<on, position, next, due, sent, got>>

TxsInit ==
  /\ on = FALSE /\ position = 0 /\ next = 0 /\ due = {}
  /\ sent.due = FALSE /\ got.kind = "none"

\* Of a place nobody has filled in time nothing is promised.
Send ==
  /\ position' = position + 1
  /\ due' = due \ {position}
  /\ sent'.seq = position
  /\ sent'.due = (position \in due)
  /\ position \in due => sent'.data = position
  /\ UNCHANGED <<on, next, got>>

Accept ==
  /\ next < position + Half
  /\ got' = [kind |-> "written", seq |-> next, at |-> position]
  /\ next' = next + 1
  /\ due' = IF on /\ position < next THEN due \cup {next} ELSE due
  /\ UNCHANGED <<on, position, sent>>

Lose ==
  /\ position > next
  /\ got' = [kind |-> "lost", seq |-> next, at |-> position]
  /\ next' = next + 1
  /\ UNCHANGED <<on, position, due, sent>>

\* The start ioctl ends, the stop ioctl or release() begins.
Switch ==
  /\ on' = ~on
  /\ UNCHANGED <<position, next, due, sent, got>>

\* The engine is flushed: what it has not sent is dropped.
Restart ==
  /\ ~on
  /\ position' = 0 /\ next' = 0 /\ due' = {}
  /\ UNCHANGED <<on, sent, got>>

\* open() before the engine is started.
Forget ==
  /\ ~on
  /\ next' = 0
  /\ UNCHANGED <<on, position, due, sent, got>>

TxsNext == Send \/ Accept \/ Lose \/ Switch \/ Restart \/ Forget

TxsSpec == TxsInit /\ [][TxsNext]_txsVars
=============================================================================
