------------------------------ MODULE PtmCross ------------------------------
(***************************************************************************)
(* PCIe Precision Time Measurement: probe() starts the first two dialogues *)
(* and getcrosststamp() runs one per call (main.c:1125-1194, 1456-1479).   *)
(*                                                                         *)
(* In a dialogue the requester notes t1, sends a request that reaches the  *)
(* PTM root at t2, and notes t4 when the response, sent at t3, arrives.    *)
(* The response carries t2 and the t3 - t2 of the dialogue before, so the  *)
(* driver keeps t1 and t4 of that one to know the link delay.  t1 and t4   *)
(* are times of the counter of PhcClock, of which only this is kept: at an *)
(* edge settime() or adjtime() may make it jump.  t2 and t3 are times of   *)
(* the root, here `now'.  The requester is gateware of an external core,   *)
(* the root is the host.                                                   *)
(***************************************************************************)
EXTENDS Integers

CONSTANTS Callers,   \* the processes that call getcrosststamp()
          NoOne,     \* not a caller
          Base,      \* 2^32, the values of half a register
          Wide,      \* 2^64, the driver computes in u64
          MinDelay,  \* the least and the greatest time a message of a
          MaxDelay,  \* dialogue takes
          MaxStay,   \* the greatest t3 - t2
          Jumps,     \* how far settime() and adjtime() may move the clock
          MaxJumps,  \* bound of the model: how often they do
          MaxNow     \* bound of the model: the time that passes

ASSUME CallersAssumption == NoOne \notin Callers /\ "probe" \notin Callers
ASSUME WidthAssumption   == Base \in Nat \ {0} /\ Wide \in Nat \ {0}
ASSUME DelayAssumption   ==
  MinDelay \in Nat /\ MaxDelay \in Nat /\ MaxStay \in Nat /\ MinDelay <= MaxDelay
ASSUME BoundsAssumption  ==
  Jumps \subseteq Int /\ MaxJumps \in Nat /\ MaxNow \in Nat

VARIABLES
  now,     \* periods of the counter's clock that have passed
  time,    \* the counter
  jumps,   \* how often it has jumped
  ptm,     \* the requester's registers
  dlg,     \* the dialogue: where it is (pc) and since when (age), t1 in the
           \* root's time (sent), t2, the t3 - t2 the response carries (stay,
           \* if data), who started the dialogue, and whether the clock was
           \* set meanwhile (stepped)
  root,    \* the t3 - t2 of the root's last dialogue, if any
  prev,    \* dev->t1_prev and dev->t4_prev
  cross,   \* the getcrosststamp() calls
  probe,   \* how far probe() is
  clean,   \* prev is the last dialogue's, which was valid and not stepped;
           \* a call keeps it as it was when it began, while it is alone
  stamp    \* the last cross timestamp: whether its dialogue was valid and it
           \* is clean, and how far its master time is off the root's time
           \* at its device time

clock == <<now, time, jumps>>
ptmVars == <<now, time, jumps, ptm, dlg, root, prev, cross, probe, clean, stamp>>

\* A register with its halves swapped.
Swapped(t) == (t % Base) * Base + t \div Base

NoDialogue == [pc |-> "idle", age |-> 0, sent |-> 0, t2 |-> 0, stay |-> 0,
               data |-> FALSE, owner |-> NoOne, stepped |-> FALSE]
NoCross == [pc |-> "idle", t1 |-> 0, master |-> 0, clean |-> FALSE]

PtmInit ==
  /\ now = 0 /\ time = 0 /\ jumps = 0
  /\ ptm = [busy |-> FALSE, valid |-> FALSE, t1 |-> 0, t4 |-> 0,
            master |-> 0, delay |-> 0]
  /\ dlg = NoDialogue
  /\ root = [known |-> FALSE, stay |-> 0]
  /\ prev = [t1 |-> 0, t4 |-> 0]
  /\ cross = [x \in Callers |-> NoCross]
  /\ probe = "first"
  /\ clean = FALSE
  /\ stamp = [made |-> FALSE, valid |-> FALSE, clean |-> FALSE, off |-> 0]

-----------------------------------------------------------------------------
(* Time, the requester and the root.                                       *)

\* A message takes at most MaxDelay and the root's answer at most MaxStay.
TimePasses ==
  /\ now < MaxNow
  /\ now' = now + 1
  /\ \/ time' = time + 1 /\ jumps' = jumps
     \/ /\ jumps < MaxJumps /\ jumps' = jumps + 1
        /\ \E d \in Jumps : time' = time + 1 + d
  /\ dlg.pc \in {"request", "response"} => dlg.age < MaxDelay
  /\ dlg.pc = "root" => dlg.age < MaxStay
  /\ dlg' = IF dlg.pc = "idle" THEN dlg
            ELSE [dlg EXCEPT !.age = IF dlg.pc = "dead" THEN 0 ELSE @ + 1,
                             !.stepped = @ \/ jumps' # jumps]
  /\ UNCHANGED <<ptm, root, prev, cross, probe, clean, stamp>>

\* PTM_CONTROL_TRIGGER: a requester that is busy ignores it.
Trigger(owner) ==
  IF ptm.busy
  THEN UNCHANGED <<ptm, dlg, clean>>
  ELSE /\ ptm' = [ptm EXCEPT !.busy = TRUE, !.valid = FALSE, !.t1 = time]
       /\ dlg' = [NoDialogue EXCEPT !.pc = "request", !.sent = now,
                                    !.owner = owner]
       /\ clean' = FALSE

RequestArrives ==
  /\ dlg.pc = "request"
  /\ dlg.age >= MinDelay
  /\ dlg' = [dlg EXCEPT !.pc = "root", !.age = 0, !.t2 = now]
  /\ UNCHANGED <<clock, ptm, root, prev, cross, probe, clean, stamp>>

\* The first response of a root carries no data.
RootAnswers ==
  /\ dlg.pc = "root"
  /\ dlg' = [dlg EXCEPT !.pc = "response", !.age = 0, !.stay = root.stay,
                        !.data = root.known]
  /\ root' = [known |-> TRUE, stay |-> now - dlg.t2]
  /\ UNCHANGED <<clock, ptm, prev, cross, probe, clean, stamp>>

ResponseArrives ==
  /\ dlg.pc = "response"
  /\ dlg.age >= MinDelay
  /\ ptm' = IF dlg.data
            THEN [ptm EXCEPT !.busy = FALSE, !.valid = TRUE, !.t4 = time,
                             !.master = dlg.t2, !.delay = dlg.stay]
            ELSE [ptm EXCEPT !.busy = FALSE, !.t4 = time]
  /\ dlg' = [dlg EXCEPT !.pc = "idle", !.age = 0]
  /\ UNCHANGED <<clock, root, prev, cross, probe, clean, stamp>>

\* A message is lost and the requester gives up, once it is late, ...
DialogueLost ==
  /\ dlg.pc \in {"request", "response"}
  /\ dlg.age = MaxDelay
  /\ ptm' = [ptm EXCEPT !.busy = FALSE]
  /\ dlg' = [dlg EXCEPT !.pc = "idle", !.age = 0]
  /\ UNCHANGED <<clock, root, prev, cross, probe, clean, stamp>>

\* ... or waits for ever.
DialogueDead ==
  /\ dlg.pc \in {"request", "response"}
  /\ dlg.age = MaxDelay
  /\ dlg' = [dlg EXCEPT !.pc = "dead", !.age = 0]
  /\ UNCHANGED <<clock, ptm, root, prev, cross, probe, clean, stamp>>

Requester ==
  RequestArrives \/ RootAnswers \/ ResponseArrives \/ DialogueLost
    \/ DialogueDead

-----------------------------------------------------------------------------
(* The end of probe().                                                     *)

\* Another writer of prev spoils the calls that are under way.
Spoilt == [x \in Callers |-> [cross[x] EXCEPT !.clean = FALSE]]

\* ptp_clock_register() comes before: calls may already be made.
ProbeTrigger ==
  /\ probe \in {"first", "second"}
  /\ Trigger("probe")
  /\ probe' = IF probe = "first" THEN "poll1" ELSE "poll2"
  /\ UNCHANGED <<clock, root, prev, cross, stamp>>

\* Up to 100 reads of PTM_STATUS; whether BUSY has fallen or the reads are
\* used up, probe() goes on.
ProbePoll ==
  /\ probe \in {"poll1", "poll2"}
  /\ probe' = IF probe = "poll1" THEN "second" ELSE "store4"
  /\ UNCHANGED <<clock, ptm, dlg, root, prev, cross, clean, stamp>>

ProbeStoreT4 ==
  /\ probe = "store4"
  /\ prev' = [prev EXCEPT !.t4 = ptm.t4]
  /\ probe' = "store1"
  /\ clean' = FALSE /\ cross' = Spoilt
  /\ UNCHANGED <<clock, ptm, dlg, root, stamp>>

\* t1_prev = readl(PTM_T1_TIME_L) << 32 | readl(PTM_T1_TIME_H)
ProbeStoreT1 ==
  /\ probe = "store1"
  /\ prev' = [prev EXCEPT !.t1 = Swapped(ptm.t1)]
  /\ probe' = "done"
  /\ clean' = FALSE /\ cross' = Spoilt
  /\ UNCHANGED <<clock, ptm, dlg, root, stamp>>

Probe == ProbeTrigger \/ ProbePoll \/ ProbeStoreT4 \/ ProbeStoreT1

-----------------------------------------------------------------------------
(* litepcie_phc_get_syncdevicetime().  No lock is held.                    *)

CrossTrigger(x) ==
  /\ cross[x].pc = "idle"
  /\ Trigger(x)
  /\ cross' = [cross EXCEPT ![x] = [NoCross EXCEPT !.pc = "poll",
                                                 !.clean = clean]]
  /\ UNCHANGED <<clock, root, prev, probe, stamp>>

\* "wait until valid": until BUSY has fallen.
CrossPoll(x) ==
  /\ cross[x].pc = "poll"
  /\ ~ptm.busy
  /\ cross' = [cross EXCEPT ![x].pc = "t1"]
  /\ UNCHANGED <<clock, ptm, dlg, root, prev, probe, clean, stamp>>

\* Faulty: the reads are not counted.
CrossNoTimeout(x) == FALSE /\ UNCHANGED ptmVars

\* Faulty: the call fails and does not return.
CrossTimeoutStays(x) ==
  /\ cross[x].pc = "poll"
  /\ ptm.busy
  /\ cross' = [cross EXCEPT ![x].pc = "failed"]
  /\ UNCHANGED <<clock, ptm, dlg, root, prev, probe, clean, stamp>>

\* "Exceeded number of tries for PTM cycle": -ETIMEDOUT.
CrossTimeout(x) ==
  /\ cross[x].pc = "poll"
  /\ ptm.busy
  /\ cross' = [cross EXCEPT ![x] = NoCross]
  /\ UNCHANGED <<clock, ptm, dlg, root, prev, probe, clean, stamp>>

CrossReadT1(x) ==
  /\ cross[x].pc = "t1"
  /\ cross' = [cross EXCEPT ![x].pc = "t2", ![x].t1 = ptm.t1]
  /\ UNCHANGED <<clock, ptm, dlg, root, prev, probe, clean, stamp>>

\* Faulty: the link delay is not halved.
MasterWholeDelay(t2, t4_prev, t1_prev, prop_delay) ==
  t2 - (((t4_prev - t1_prev) - prop_delay) % Wide)

\* t2_curr - (((t4_prev - t1_prev) - prop_delay) >> 1)
Master(t2, t4_prev, t1_prev, prop_delay) ==
  t2 - (((t4_prev - t1_prev) - prop_delay) % Wide) \div 2

CrossReadT2(x) ==
  /\ cross[x].pc = "t2"
  /\ cross' = [cross EXCEPT ![x].pc = "store",
               ![x].master = Master(ptm.master, prev.t4, prev.t1, ptm.delay)]
  /\ UNCHANGED <<clock, ptm, dlg, root, prev, probe, clean, stamp>>

\* The result, and "store T4 & T1 for next request".
CrossStore(x) ==
  /\ cross[x].pc = "store"
  /\ prev' = [t1 |-> cross[x].t1, t4 |-> ptm.t4]
  /\ LET own == dlg.owner = x /\ ~ptm.busy /\ ptm.valid IN
       /\ clean' = (own /\ ~dlg.stepped)
       /\ stamp' = [made |-> TRUE, valid |-> ptm.valid,
                    clean |-> own /\ cross[x].clean,
                    off |-> IF own /\ cross[x].clean
                            THEN cross[x].master - dlg.sent ELSE 0]
  /\ cross' = [Spoilt EXCEPT ![x] = NoCross]
  /\ UNCHANGED <<clock, ptm, dlg, root, probe>>

Cross(x) ==
  CrossTrigger(x) \/ CrossPoll(x) \/ CrossTimeout(x) \/ CrossReadT1(x)
    \/ CrossReadT2(x) \/ CrossStore(x)

PtmNext ==
  \/ TimePasses
  \/ Requester
  \/ Probe
  \/ \E x \in Callers : Cross(x)

PtmSpec == PtmInit /\ [][PtmNext]_ptmVars

\* probe() and a call that has begun run on.
Fairness ==
  /\ WF_ptmVars(Probe)
  /\ \A x \in Callers :
       WF_ptmVars(CrossPoll(x) \/ CrossTimeout(x) \/ CrossReadT1(x)
                 \/ CrossReadT2(x) \/ CrossStore(x))

PtmLiveSpec == PtmSpec /\ Fairness

-----------------------------------------------------------------------------
\* The types of the variables.
PtmTypeOK ==
  /\ now \in 0..MaxNow /\ time \in Int /\ jumps \in 0..MaxJumps
  /\ ptm \in [busy : BOOLEAN, valid : BOOLEAN, t1 : Int, t4 : Int,
               master : Int, delay : Nat]
  /\ dlg \in [pc : {"idle", "request", "root", "response", "dead"},
               age : Nat, sent : Nat, t2 : Nat, stay : Nat, data : BOOLEAN,
               owner : Callers \cup {NoOne, "probe"}, stepped : BOOLEAN]
  /\ root \in [known : BOOLEAN, stay : Nat]
  /\ prev \in [t1 : Int, t4 : Int]
  /\ cross \in [Callers -> [pc : {"idle", "poll", "t1", "t2", "store"},
                                 t1 : Int, master : Int, clean : BOOLEAN]]
  /\ probe \in {"first", "poll1", "second", "poll2", "store4", "store1",
                 "done"}
  /\ clean \in BOOLEAN
  /\ stamp \in [made : BOOLEAN, valid : BOOLEAN, clean : BOOLEAN, off : Int]

\* The master time of a cross timestamp is the root's time of its t1, up to
\* what the delays of two messages may differ, provided the call before it
\* ran the dialogue before, both dialogues were valid and the clock was not
\* set during the first (main.c:1168-1181): timestamps of different
\* dialogues are never combined.
StampAccurate ==
  stamp.clean => stamp.off \in -(MaxDelay - MinDelay)..(MaxDelay - MinDelay)

\* Both, for one run: the types hold and a clean cross timestamp is accurate
\* (main.c:1125-1194).
PtmInv == PtmTypeOK /\ StampAccurate

\* A cross timestamp is made of an answered dialogue: "wait until valid"
\* (main.c:1146).
StampValid == stamp.made => stamp.valid

\* After probe() the driver has "T1 & T4 for next request" (main.c:1461).
ProbePrepares ==
  probe = "done" /\ ~stamp.made /\ ~ptm.busy /\ dlg.owner = "probe"
    => prev.t1 = ptm.t1

\* Neither probe() nor getcrosststamp() waits for ever for a requester that
\* got no answer (main.c:1147-1155, 1462-1472).
NobodyWaits ==
  /\ <>(probe = "done")
  /\ \A x \in Callers : cross[x].pc # "idle" ~> cross[x].pc = "idle"
=============================================================================
