------------------------------ MODULE RxStream ------------------------------
(***************************************************************************)
(* What read() on a LitePCIe channel promises: the buffers of the engine   *)
(* reach the client in order, each one exactly as the engine wrote it or   *)
(* reported lost, and a buffer may only be reported lost when the client   *)
(* is more than half a ring behind (main.c:475-490).                       *)
(***************************************************************************)
EXTENDS Integers

CONSTANT Half   \* DMA_BUFFER_COUNT/2

VARIABLES
  produced,   \* buffers the engine has completed since it was started
  next,       \* the next buffer the client is owed
  got         \* what the client last got: its kind and the buffer

rxsVars == <<produced, next, got>>

Nothing == [kind |-> "none", seq |-> 0]

RxsInit == produced = 0 /\ next = 0 /\ got = Nothing

Produce ==
  /\ produced' = produced + 1
  /\ UNCHANGED <<next, got>>

Deliver ==
  /\ next < produced
  /\ got' = [kind |-> "data", seq |-> next]
  /\ next' = next + 1
  /\ UNCHANGED produced

Lose ==
  /\ produced - next > Half
  /\ got' = [kind |-> "lost", seq |-> next]
  /\ next' = next + 1
  /\ UNCHANGED produced

\* The engine is stopped; a later start begins again at buffer 0.
Restart ==
  /\ produced' = 0
  /\ next' = 0
  /\ UNCHANGED got

RxsNext == Produce \/ Deliver \/ Lose \/ Restart

RxsSpec == RxsInit /\ [][RxsNext]_rxsVars
=============================================================================
