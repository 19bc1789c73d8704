----------------------------- MODULE EngineLease -----------------------------
(***************************************************************************)
(* What the LOCK ioctl and release() are there for: each DMA engine of a   *)
(* channel belongs to at most one client, only its owner switches it, and  *)
(* it is off whenever it changes hands, also when the owner was killed     *)
(* (main.c:416-442, 831-875).                                              *)
(***************************************************************************)
CONSTANTS Clients, Engines, NoOne

VARIABLES owner,   \* the owner of each engine, or NoOne
          on       \* the engines that run

leaseVars == <<owner, on>>

LeaseInit ==
  /\ owner = [e \in Engines |-> NoOne]
  /\ on = {}

Acquire(c, e) ==
  /\ owner[e] = NoOne
  /\ e \notin on
  /\ owner' = [owner EXCEPT ![e] = c]
  /\ UNCHANGED on

Switch(c, e) ==
  /\ owner[e] = c
  /\ on' \in {on \cup {e}, on \ {e}}
  /\ UNCHANGED owner

Free(c, e) ==
  /\ owner[e] = c
  /\ e \notin on
  /\ owner' = [owner EXCEPT ![e] = NoOne]
  /\ UNCHANGED on

LeaseNext ==
  \E c \in Clients, e \in Engines : Acquire(c, e) \/ Switch(c, e) \/ Free(c, e)

LeaseSpec == LeaseInit /\ [][LeaseNext]_leaseVars
=============================================================================
