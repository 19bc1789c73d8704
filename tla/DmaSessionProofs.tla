-------------------------- MODULE DmaSessionProofs --------------------------
(***************************************************************************)
(* Theorems about DmaSession, for any number of clients: types, and, when  *)
(* the clients' system calls do not overlap and at most one client records *)
(* (the hypotheses Serial and OneRecorder), the invariants of the session  *)
(* and that it implements EngineLease.                                     *)
(***************************************************************************)
EXTENDS DmaSession, TLAPS

\* At most one client uses the writer: litepcie_dma_init() refuses only a
\* second user of the reader.
OneRecorder ==
  \A c, d \in Clients : "writer" \in Use[c] /\ "writer" \in Use[d] => c = d

InCall(c) == sys[c].op # "none"

Steps == [request |-> {"test", "take"},
          enable  |-> {"check", "start", "setread", "setwrite", "seton"},
          disable |-> {"uncheck", "clrread", "clrwrite", "stop", "setoff"},
          unlock  |-> {"drop"},
          release |-> {"clrread", "clrwrite", "stop", "unown", "setoff"}]

Calls == {"request", "enable", "disable", "unlock", "release"}

LEMMA CallFacts ==
  /\ First["request"] = "test" /\ First["enable"] = "check"
  /\ First["disable"] = "uncheck" /\ First["unlock"] = "drop"
  /\ First["release"] = "clrread"
  /\ After["request"] = "ready" /\ After["enable"] = "ready"
  /\ After["disable"] = "stopped" /\ After["unlock"] = "unlocked"
  /\ After["release"] = "closed"
  /\ Steps["request"] = {"test", "take"}
  /\ Steps["enable"] = {"check", "start", "setread", "setwrite", "seton"}
  /\ Steps["disable"] = {"uncheck", "clrread", "clrwrite", "stop", "setoff"}
  /\ Steps["unlock"] = {"drop"}
  /\ Steps["release"] = {"clrread", "clrwrite", "stop", "unown", "setoff"}
BY DEF First, After, Steps

SysType == [op : Op, k : Step, todo : SUBSET Engines,
            v : SUBSET Engines, ok : BOOLEAN]

\* A call has an engine left to handle, and is at one of its steps.
CallShape ==
  \A c \in Clients :
    /\ ~InCall(c) => sys[c] = User
    /\ InCall(c) => /\ sys[c].k \in Steps[sys[c].op]
                    /\ sys[c].todo # {}
    /\ at[c] = "closed" => ~InCall(c)

TypeInv == TypeOK /\ CallShape

LEMMA UserFacts == User \in SysType /\ User.op = "none" /\ User.k = "user"
BY DEF User, SysType, Op, Step

LEMMA EngineFacts ==
  ASSUME TypeInv, NEW c \in Clients, InCall(c)
  PROVE  /\ Engine(c) \in Engines /\ Engine(c) \in sys[c].todo
         /\ \A e \in Engines : e = Engine(c) \/ e = Other(Engine(c))
         /\ Other(Engine(c)) # Engine(c)
BY DEF TypeInv, TypeOK, CallShape, Engine, Leading, Other, Engines

\* The ways a step enters a system call, goes on in it, and leaves it.
Enters(c, op, engines) ==
  /\ sys' \in [Clients -> SysType]
  /\ sys[c] = User
  /\ sys'[c].op = op /\ sys'[c].k = First[op] /\ sys'[c].todo = engines
  /\ sys'[c].v = {} /\ sys'[c].ok = TRUE
  /\ \A d \in Clients \ {c} : sys'[d] = sys[d]
  /\ UNCHANGED <<shared, at>>

GoesOn(c, k) ==
  /\ sys' \in [Clients -> SysType]
  /\ sys'[c].op = sys[c].op /\ sys'[c].k = k /\ sys'[c].todo = sys[c].todo
  /\ sys'[c].ok = sys[c].ok
  /\ \A d \in Clients \ {c} : sys'[d] = sys[d]
  /\ UNCHANGED at

LEMMA EnterFacts ==
  ASSUME TypeInv, NEW c \in Clients, NEW op \in Calls,
         NEW engines \in SUBSET Engines, Enter(c, op, engines)
  PROVE  Enters(c, op, engines)
<1>1. sys[c] = User /\ sys \in [Clients -> SysType]
  BY DEF Enter, TypeInv, TypeOK, SysType
<1> DEFINE r == [[[User EXCEPT !.op = op] EXCEPT !.k = First[op]]
                    EXCEPT !.todo = engines]
<1>2. sys' = [sys EXCEPT ![c] = r]
  BY <1>1 DEF Enter
<1>3. op \in Op /\ First[op] \in Step
  BY CallFacts DEF Calls, Op, Step
<1>4. /\ r \in SysType /\ r.op = op /\ r.k = First[op] /\ r.todo = engines
      /\ r.v = {} /\ r.ok = TRUE
  BY <1>3 DEF User, SysType
<1>5. UNCHANGED <<shared, at>>
  BY DEF Enter
<1> HIDE DEF r
<1>6. QED
  BY <1>1, <1>2, <1>4, <1>5 DEF Enters

LEMMA GotoFacts ==
  ASSUME TypeInv, NEW c \in Clients, NEW k \in Step, Goto(c, k)
  PROVE  GoesOn(c, k) /\ sys'[c].v = sys[c].v
BY DEF Goto, TypeInv, TypeOK, SysType, GoesOn

LEMMA FinishFacts ==
  ASSUME TypeInv, NEW c \in Clients, NEW ok \in BOOLEAN, InCall(c), Finish(c, ok)
  PROVE  /\ sys' \in [Clients -> SysType]
         /\ \A d \in Clients \ {c} : sys'[d] = sys[d] /\ at'[d] = at[d]
         /\ \/ /\ sys[c].todo # {Engine(c)}
               /\ sys'[c].op = sys[c].op /\ sys'[c].k = First[sys[c].op]
               /\ sys'[c].todo = sys[c].todo \ {Engine(c)}
               /\ sys'[c].todo # {}
               /\ sys'[c].v = {} /\ sys'[c].ok = ok
               /\ UNCHANGED at
            \/ /\ sys[c].todo = {Engine(c)} /\ sys'[c] = User
               /\ at' = [at EXCEPT ![c] = IF ok THEN After[sys[c].op] ELSE "failed"]
<1>1. /\ sys \in [Clients -> SysType] /\ at \in [Clients -> At]
      /\ sys[c].op \in Op /\ First[sys[c].op] \in Step
      /\ sys[c].todo \subseteq Engines
      /\ Engine(c) \in sys[c].todo
  BY CallFacts, EngineFacts DEF TypeInv, TypeOK, SysType, InCall, Op, Step
<1> DEFINE rest == sys[c].todo \ {Engine(c)}
           next == [op |-> sys[c].op, k |-> First[sys[c].op], todo |-> rest,
                    v |-> {}, ok |-> ok]
<1>2. next \in SysType
  BY <1>1 DEF SysType
<1>3. CASE rest # {}
  <2>1. sys' = [sys EXCEPT ![c] = next] /\ UNCHANGED at
    BY <1>3 DEF Finish
  <2>2. QED
    BY <1>1, <1>2, <1>3, <2>1
<1>4. CASE rest = {}
  <2>1. sys' = [sys EXCEPT ![c] = User]
        /\ at' = [at EXCEPT ![c] = IF ok THEN After[sys[c].op] ELSE "failed"]
    BY <1>4 DEF Finish
  <2>2. QED
    BY <1>1, <1>4, <2>1, UserFacts
<1>5. QED
  BY <1>3, <1>4

-----------------------------------------------------------------------------
(* Types.                                                                  *)

LEMMA TypeInit == Init => TypeInv
BY UserFacts DEF Init, TypeInv, TypeOK, CallShape, InCall, SysType, At


LEMMA TypeStep == TypeInv /\ [Next]_vars => TypeInv'
<1> SUFFICES ASSUME TypeInv, [Next]_vars PROVE TypeInv'
  OBVIOUS
<1>0. /\ lock \subseteq Engines /\ enable \subseteq Engines
      /\ running \subseteq Engines /\ msi \subseteq Engines
      /\ mine \in [Clients -> SUBSET Engines] /\ at \in [Clients -> At]
      /\ sys \in [Clients -> SysType]
      /\ Use \in [Clients -> SUBSET Engines]
      /\ \A c \in Clients : Use[c] # {}
  BY UseAssumption DEF TypeInv, TypeOK, SysType
<1>1. CASE UNCHANGED vars
  BY <1>1 DEF vars, shared, TypeInv, TypeOK, CallShape, InCall
<1>2. ASSUME NEW c \in Clients, Call(c) PROVE TypeInv'
  <2>1. CASE OpenFile(c)
    BY <1>0, <2>1 DEF OpenFile, TypeInv, TypeOK, CallShape, InCall, SysType, At
  <2>2. CASE CloseOther(c)
    BY <1>0, <2>2, UserFacts
    DEF CloseOther, shared, TypeInv, TypeOK, CallShape, InCall, SysType, At
  <2>3. ASSUME NEW op \in Calls, NEW engines \in SUBSET Engines,
               engines # {}, at[c] # "closed", Enter(c, op, engines)
        PROVE  TypeInv'
    <3>1. Enters(c, op, engines)
      BY <2>3, EnterFacts
    <3>2. op # "none" /\ First[op] \in Steps[op]
      BY <2>3, CallFacts DEF Calls
    <3>3. QED
      BY <1>0, <2>3, <3>1, <3>2
      DEF Enters, shared, TypeInv, TypeOK, CallShape, InCall, SysType
  <2>4. QED
    BY <1>0, <1>2, <2>1, <2>2, <2>3
    DEF Call, RequestDma, Process, CleanupDma, ReleaseDma, CloseOwner, Calls
<1>3. ASSUME NEW c \in Clients, Kernel(c) PROVE TypeInv'
  <2>1. /\ InCall(c) /\ sys[c].op \in Calls /\ sys[c].k \in Steps[sys[c].op]
        /\ sys[c] \in SysType /\ at[c] # "closed"
    <3>1. sys[c].k # "user"
      BY <1>3
      DEF Kernel, LockTest, LockTake, LockDrop, EnableCheck, DisableCheck,
          StartEngine, MsiRead, MsiSet, MsiClear, EnableFlag, StopEngine, Unown,
          DisableFlag
    <3>2. QED
      BY <1>0, <3>1, UserFacts
      DEF TypeInv, CallShape, InCall, SysType, Op, Calls
  <2>2. Engine(c) \in Engines
    BY <2>1, EngineFacts
  <2>3. ASSUME lock' \subseteq Engines, enable' \subseteq Engines,
               running' \subseteq Engines, msi' \subseteq Engines,
               mine' \in [Clients -> SUBSET Engines],
               NEW k \in Steps[sys[c].op], GoesOn(c, k)
        PROVE  TypeInv'
    BY <1>0, <2>1, <2>3 DEF GoesOn, TypeInv, TypeOK, CallShape, InCall, SysType
  <2>4. ASSUME lock' \subseteq Engines, enable' \subseteq Engines,
               running' \subseteq Engines, msi' \subseteq Engines,
               mine' \in [Clients -> SUBSET Engines],
               NEW ok \in BOOLEAN, Finish(c, ok)
        PROVE  TypeInv'
    <3>1. at' \in [Clients -> At]
      BY <1>0, <2>1, <2>4, FinishFacts, CallFacts DEF Calls, At
    <3>2. First[sys[c].op] \in Steps[sys[c].op]
      BY <2>1, CallFacts DEF Calls
    <3>3. QED
      BY <1>0, <2>1, <2>4, <3>1, <3>2, FinishFacts, UserFacts
      DEF TypeInv, TypeOK, CallShape, InCall, SysType
  <2>5. ASSUME NEW k \in Step, k \in Steps[sys[c].op], Goto(c, k)
        PROVE  GoesOn(c, k)
    BY <2>5, GotoFacts
  <2>6. CASE LockTest(c)
    <3>1. "take" \in Steps[sys[c].op] /\ "take" \in Step
      BY <2>1, <2>6, CallFacts DEF LockTest, Calls, Step
    <3>2. (sys[c].ok /\ Engine(c) # "reader") \in BOOLEAN
      OBVIOUS
    <3>3. Goto(c, "take") \/ \E ok \in BOOLEAN : Finish(c, ok)
      BY <2>6, <3>2 DEF LockTest
    <3>4. QED
      BY <1>0, <2>6, <2>3, <2>4, <2>5, <3>1, <3>3 DEF LockTest, shared
  <2>7. CASE LockTake(c) \/ LockDrop(c)
    <3>1. sys[c].ok \in BOOLEAN
      BY <2>1 DEF SysType
    <3>2. \E ok \in BOOLEAN : Finish(c, ok)
      BY <2>7, <3>1 DEF LockTake, LockDrop
    <3>3. QED
      BY <1>0, <2>2, <2>7, <2>4, <3>2 DEF LockTake, LockDrop
  <2>8. CASE EnableFlag(c) \/ DisableFlag(c)
    BY <1>0, <2>2, <2>8, <2>4 DEF EnableFlag, DisableFlag
  <2>9. CASE EnableCheck(c)
    <3>1. PICK k \in {"seton", "start"} : Goto(c, k)
      BY <2>9 DEF EnableCheck
    <3>2. k \in Steps[sys[c].op] /\ k \in Step
      BY <2>1, <2>9, CallFacts DEF EnableCheck, Calls, Step
    <3>3. QED
      BY <1>0, <2>9, <2>3, <2>5, <3>1, <3>2 DEF EnableCheck, shared
  <2>10. CASE DisableCheck(c)
    <3>1. PICK k \in {"clrread", "setoff"} : Goto(c, k)
      BY <2>10 DEF DisableCheck
    <3>2. k \in Steps[sys[c].op] /\ k \in Step
      BY <2>1, <2>10, CallFacts DEF DisableCheck, Calls, Step
    <3>3. QED
      BY <1>0, <2>10, <2>3, <2>5, <3>1, <3>2 DEF DisableCheck, shared
  <2>11. CASE StartEngine(c) \/ MsiSet(c)
    <3>1. PICK k \in {"setread", "seton"} : Goto(c, k)
      BY <2>11 DEF StartEngine, MsiSet
    <3>2. k \in Steps[sys[c].op] /\ k \in Step
      BY <2>1, <2>11, CallFacts DEF StartEngine, MsiSet, Calls, Step
    <3>3. sys[c].v \subseteq Engines
      BY <2>1 DEF SysType
    <3>4. QED
      BY <1>0, <2>2, <2>11, <2>3, <2>5, <3>1, <3>2, <3>3 DEF StartEngine, MsiSet
  <2>12. CASE MsiRead(c)
    <3>1. PICK k \in {"setwrite", "clrwrite"} :
            /\ k = IF sys[c].k = "setread" THEN "setwrite" ELSE "clrwrite"
            /\ sys' = [sys EXCEPT ![c].v = msi, ![c].k = k]
      BY <2>1, <2>12 DEF MsiRead, SysType
    <3>2. k \in Steps[sys[c].op] /\ k \in Step
      BY <2>1, <2>12, <3>1, CallFacts DEF MsiRead, Calls, Step
    <3>3. GoesOn(c, k)
      BY <1>0, <2>1, <2>12, <3>1, <3>2 DEF MsiRead, GoesOn, SysType
    <3>4. QED
      BY <1>0, <2>3, <2>12, <3>2, <3>3 DEF MsiRead, shared
  <2>13. CASE MsiClear(c)
    <3>1. "stop" \in Steps[sys[c].op] /\ "stop" \in Step
      BY <2>1, <2>13, CallFacts DEF MsiClear, Calls, Step
    <3>2. sys[c].v \subseteq Engines
      BY <2>1 DEF SysType
    <3>3. QED
      BY <1>0, <2>13, <2>3, <2>5, <3>1, <3>2 DEF MsiClear
  <2>14. CASE StopEngine(c)
    <3>1. PICK k \in {"unown", "setoff"} :
            Goto(c, k) /\ k = IF sys[c].op = "release" THEN "unown" ELSE "setoff"
      BY <2>14 DEF StopEngine
    <3>2. k \in Steps[sys[c].op] /\ k \in Step
      BY <2>1, <2>14, <3>1, CallFacts DEF StopEngine, Calls, Step
    <3>3. QED
      BY <1>0, <2>14, <2>3, <2>5, <3>1, <3>2 DEF StopEngine
  <2>15. CASE Unown(c)
    <3>1. "setoff" \in Steps[sys[c].op] /\ "setoff" \in Step
      BY <2>1, <2>15, CallFacts DEF Unown, Calls, Step
    <3>2. QED
      BY <1>0, <2>15, <2>3, <2>5, <3>1 DEF Unown
  <2>16. QED
    BY <1>3, <2>6, <2>7, <2>8, <2>9, <2>10, <2>11, <2>12, <2>13, <2>14, <2>15
    DEF Kernel
<1>4. QED
  BY <1>1, <1>2, <1>3 DEF Next

\* The shared flags and registers, the files and the calls have their types
\* (main.c:390-442, 724-755, 831-875).
THEOREM SessionTypeCorrect == Spec => []TypeOK
<1>1. TypeInv => TypeOK
  BY DEF TypeInv
<1>2. QED
  BY <1>1, TypeInit, TypeStep, PTL DEF Spec

-----------------------------------------------------------------------------
(* One call at a time.                                                     *)

Alone == \A c, d \in Clients : InCall(c) /\ InCall(d) => c = d

\* A file owns what its client uses, nobody else owns it, and the locks say so.
LocksOK ==
  /\ \A c \in Clients : mine[c] \subseteq Use[c] /\ sys[c].todo \subseteq Use[c]
  /\ \A c, d \in Clients : c # d => mine[c] \cap mine[d] = {}
  /\ \A e \in Engines : e \in lock <=> \E c \in Clients : e \in mine[c]

\* The flag, the engine and its interrupt agree.
Consistent(e) == (e \in enable <=> e \in running) /\ (e \in enable <=> e \in msi)

\* What a client has between calls.
AtRest(c) ==
  /\ at[c] \in {"closed", "opened", "unlocked"} => mine[c] = {}
  /\ at[c] \in {"ready", "stopped"} => mine[c] = Use[c]
  /\ at[c] = "stopped" => mine[c] \cap enable = {}

\* What it has, and what has been done for the engine in hand, in each call.
InRequest(c) ==
  /\ at[c] = "opened" /\ mine[c] \cap sys[c].todo = {}
  /\ Consistent(Engine(c))
  /\ sys[c].k = "take" => Engine(c) \notin lock
  /\ sys[c].ok => mine[c] = Use[c] \ sys[c].todo
InEnable(c) ==
  /\ at[c] = "ready" /\ mine[c] = Use[c] /\ sys[c].ok
  /\ sys[c].k = "check" => Consistent(Engine(c))
  /\ sys[c].k = "start" => Engine(c) \notin enable \cup running \cup msi
  /\ sys[c].k \in {"setread", "setwrite"} =>
       Engine(c) \notin enable \cup msi /\ Engine(c) \in running
  /\ sys[c].k = "seton" => Engine(c) \in running \cap msi
InDisable(c) ==
  /\ at[c] = "ready" /\ mine[c] = Use[c] /\ sys[c].ok
  /\ (Use[c] \ sys[c].todo) \cap enable = {}
  /\ sys[c].k \in {"uncheck", "clrread"} => Consistent(Engine(c))
  /\ sys[c].k \in {"stop", "setoff"} => Engine(c) \notin msi
  /\ sys[c].k = "setoff" => Engine(c) \notin running
InUnlock(c) ==
  /\ at[c] = "stopped" /\ mine[c] = sys[c].todo /\ mine[c] \cap enable = {}
  /\ Consistent(Engine(c))
InRelease(c) ==
  /\ mine[c] = IF sys[c].k = "setoff" THEN sys[c].todo \ {Engine(c)} ELSE sys[c].todo
  /\ sys[c].ok
  /\ sys[c].k \in {"stop", "unown", "setoff"} => Engine(c) \notin msi
  /\ sys[c].k \in {"unown", "setoff"} => Engine(c) \notin running

ClientOK(c) ==
  /\ ~InCall(c) => AtRest(c)
  /\ sys[c].op = "request" => InRequest(c)
  /\ sys[c].op = "enable" => InEnable(c)
  /\ sys[c].op = "disable" => InDisable(c)
  /\ sys[c].op = "unlock" => InUnlock(c)
  /\ sys[c].op = "release" => InRelease(c)
  /\ sys[c].k \in {"setwrite", "clrwrite"} => sys[c].v = msi

\* An engine nobody's call is at.
Idle(e) == \A c \in Clients : InCall(c) => Engine(c) # e

\* Such an engine is consistent, and one that runs, interrupts or is enabled
\* has an owner (or its release() is about to clear the flag).
EnginesOK ==
  \A e \in Engines :
    /\ Idle(e) => Consistent(e)
    /\ e \in running \cup msi => e \in lock
    /\ e \in enable => \/ e \in lock
                       \/ \E c \in Clients : /\ sys[c].op = "release"
                                             /\ sys[c].k = "setoff"
                                             /\ Engine(c) = e

SessionInv == Alone /\ LocksOK /\ EnginesOK /\ \A c \in Clients : ClientOK(c)

\* While c is in a call, or between calls, the others are between calls.
OthersAtRest(c) ==
  \A d \in Clients \ {c} :
    sys[d] = User /\ sys'[d] = User /\ at'[d] = at[d] /\ mine'[d] = mine[d]

\* What EnginesOK says when only c may be in a call.
EnginesFor(c) ==
  \A e \in Engines :
    /\ ~(InCall(c) /\ Engine(c) = e) => Consistent(e)
    /\ e \in running \cup msi => e \in lock
    /\ e \in enable => \/ e \in lock
                       \/ sys[c].op = "release" /\ sys[c].k = "setoff" /\ Engine(c) = e

LEMMA AloneFacts ==
  ASSUME TypeInv, SessionInv, NEW c \in Clients, InCall(c) \/ \A d \in Clients : sys[d] = User
  PROVE  /\ \A d \in Clients \ {c} : sys[d] = User
         /\ EnginesFor(c)
<1>1. \A d \in Clients \ {c} : sys[d] = User
  BY DEF SessionInv, Alone, TypeInv, CallShape
<1>2. EnginesFor(c)
  BY <1>1, UserFacts DEF SessionInv, EnginesOK, EnginesFor, Idle, InCall
<1>3. QED
  BY <1>1, <1>2

LEMMA StepSuffices ==
  ASSUME TypeInv, SessionInv, TypeInv', NEW c \in Clients, OthersAtRest(c),
         LocksOK', ClientOK(c)', EnginesFor(c)', enable' \subseteq enable \cup mine[c]
  PROVE  SessionInv'
<1>1. \A d \in Clients \ {c} : ~InCall(d)'
  BY UserFacts DEF OthersAtRest, InCall
<1>2. Alone'
  BY <1>1 DEF Alone
<1>3. ASSUME NEW d \in Clients PROVE ClientOK(d)'
  <2>1. CASE d = c
    BY <2>1
  <2>2. CASE d # c
    <3>1. AtRest(d)
      BY <2>2 DEF SessionInv, ClientOK, OthersAtRest, InCall, User
    <3>2. mine[d] \cap mine[c] = {}
      BY <2>2 DEF SessionInv, LocksOK
    <3>3. AtRest(d)'
      BY <2>2, <3>1, <3>2 DEF AtRest, OthersAtRest
    <3>4. QED
      BY <2>2, <3>3 DEF ClientOK, OthersAtRest, InCall, User
  <2>3. QED
    BY <2>1, <2>2
<1>4. EnginesOK'
  <2>1. ASSUME NEW e \in Engines, Idle(e)' PROVE ~(InCall(c) /\ Engine(c) = e)'
    BY <2>1 DEF Idle
  <2>2. QED
    BY <2>1 DEF EnginesOK, EnginesFor
<1>5. QED
  BY <1>2, <1>3, <1>4 DEF SessionInv

LEMMA SessionInit == Init => SessionInv
<1> SUFFICES ASSUME Init PROVE SessionInv
  OBVIOUS
<1>1. \A c \in Clients : sys[c] = User /\ mine[c] = {} /\ at[c] = "closed"
  BY DEF Init
<1>2. \A c \in Clients : ~InCall(c) /\ ClientOK(c)
  BY <1>1, UserFacts DEF InCall, ClientOK, AtRest
<1>3. LocksOK
  BY <1>1 DEF LocksOK, Init, User
<1>4. EnginesOK
  BY DEF Init, EnginesOK, Consistent
<1>5. QED
  BY <1>2, <1>3, <1>4 DEF SessionInv, Alone

\* The client's own steps: open(), close() of a file that owns nothing, and
\* the beginning of each system call.
LEMMA CallStep ==
  ASSUME Serial, TypeInv, SessionInv, TypeInv', NEW c \in Clients, Call(c)
  PROVE  SessionInv'
<1>0. /\ \A d \in Clients : sys[d] = User
      /\ ~InCall(c) /\ AtRest(c) /\ EnginesFor(c) /\ LocksOK
      /\ mine \in [Clients -> SUBSET Engines] /\ at \in [Clients -> At]
      /\ Use \in [Clients -> SUBSET Engines]
  <2>1. \A d \in Clients : sys[d] = User
    BY SerialAssumption
    DEF Call, OpenFile, RequestDma, Process, CleanupDma, ReleaseDma, CloseOwner,
        CloseOther, Enter
  <2>2. QED
    BY <2>1, AloneFacts, UserFacts, UseAssumption
    DEF SessionInv, ClientOK, InCall, TypeInv, TypeOK
<1>1. CASE OpenFile(c) \/ CloseOther(c)
  <2>1. mine[c] = {} /\ mine' = mine /\ UNCHANGED <<sys, lock, enable, running, msi>>
    <3>1. mine[c] = {}
      BY <1>0, <1>1 DEF OpenFile, CloseOther, AtRest
    <3>2. mine' = mine
      BY <1>0, <1>1, <3>1 DEF OpenFile, CloseOther, shared
    <3>3. QED
      BY <1>1, <3>1, <3>2 DEF OpenFile, CloseOther, shared
  <2>2. at'[c] \in {"opened", "closed"} /\ \A d \in Clients \ {c} : at'[d] = at[d]
    BY <1>0, <1>1 DEF OpenFile, CloseOther
  <2>3. OthersAtRest(c)
    BY <1>0, <2>1, <2>2 DEF OthersAtRest
  <2>4. LocksOK' /\ EnginesFor(c)'
    BY <1>0, <2>1 DEF LocksOK, EnginesFor, InCall, Consistent, Engine, Leading, Other
  <2>5. ClientOK(c)'
    BY <1>0, <2>1, <2>2, UserFacts DEF ClientOK, AtRest, InCall
  <2>6. QED
    BY <2>1, <2>3, <2>4, <2>5, StepSuffices
<1>2. ASSUME NEW op \in Calls, NEW engines \in SUBSET Engines, engines # {},
             engines \subseteq Use[c], Enter(c, op, engines),
             op = "request" => at[c] = "opened" /\ engines = Use[c],
             op \in {"enable", "disable"} => at[c] = "ready" /\ engines = Use[c],
             op = "unlock" => at[c] = "stopped" /\ engines = Use[c],
             op = "release" => engines = mine[c]
      PROVE  SessionInv'
  <2>1. Enters(c, op, engines)
    BY <1>2, EnterFacts
  <2>2. OthersAtRest(c)
    BY <1>0, <2>1 DEF Enters, OthersAtRest, shared
  <2>3. LocksOK'
    BY <1>0, <1>2, <2>1 DEF Enters, LocksOK, shared
  <2>4. EnginesFor(c)'
    BY <1>0, <2>1 DEF Enters, EnginesFor, InCall, Consistent, shared
  <2>5. Engine(c)' \in Engines /\ Consistent(Engine(c)')
    <3>1. InCall(c)'
      BY <1>2, <2>1 DEF Enters, InCall, Calls
    <3>2. Engine(c)' \in Engines
      BY <1>2, <2>1 DEF Enters, Engine, Leading, Other, Engines
    <3>3. QED
      BY <1>0, <3>2 DEF EnginesFor
  <2>6. Consistent(Engine(c))'
    BY <2>1, <2>5 DEF Enters, Consistent, shared
  <2>7. ClientOK(c)'
    BY <1>0, <1>2, <2>1, <2>6, CallFacts
    DEF Enters, ClientOK, InCall, AtRest, InRequest, InEnable, InDisable, InUnlock,
        InRelease, Calls, shared
  <2>8. QED
    BY <2>1, <2>2, <2>3, <2>4, <2>7, StepSuffices DEF Enters, shared
<1>3. Use[c] # {} /\ Use[c] \subseteq Engines /\ mine[c] \subseteq Use[c]
  BY <1>0, UseAssumption DEF LocksOK
<1>4. QED
  BY <1>0, <1>1, <1>2, <1>3
  DEF Call, RequestDma, Process, CleanupDma, ReleaseDma, CloseOwner, Calls

\* What is known of the client whose call goes on.
LEMMA CallContext ==
  ASSUME TypeInv, SessionInv, NEW c \in Clients, InCall(c)
  PROVE  /\ \A d \in Clients \ {c} : sys[d] = User
         /\ EnginesFor(c) /\ LocksOK /\ ClientOK(c)
         /\ mine \in [Clients -> SUBSET Engines] /\ at \in [Clients -> At]
         /\ sys[c] \in SysType /\ sys[c].op \in Calls
         /\ sys[c].k \in Steps[sys[c].op]
         /\ Engine(c) \in Engines /\ Engine(c) \in sys[c].todo
         /\ Engine(c) \in Use[c]
<1>1. sys[c] \in SysType /\ sys[c].op \in Calls
  BY DEF TypeInv, TypeOK, SysType, InCall, Op, Calls
<1>2. QED
  BY <1>1, AloneFacts, EngineFacts
  DEF TypeInv, TypeOK, CallShape, SessionInv, LocksOK

\* The kernel's steps that stay at the same engine.
LEMMA GoesOnStep ==
  ASSUME TypeInv, SessionInv, TypeInv', NEW c \in Clients, InCall(c),
         NEW k \in Step, GoesOn(c, k), LocksOK', EnginesFor(c)', UNCHANGED enable,
         \A d \in Clients \ {c} : mine'[d] = mine[d],
         ClientOK(c)'
  PROVE  SessionInv'
BY CallContext, StepSuffices DEF GoesOn, OthersAtRest

LEMMA SameEngine ==
  ASSUME NEW c \in Clients, NEW k \in Step, GoesOn(c, k)
  PROVE  Engine(c)' = Engine(c)
BY DEF GoesOn, Engine, Leading, Other

LEMMA KernelGoesOn ==
  ASSUME TypeInv, SessionInv, TypeInv', NEW c \in Clients, InCall(c),
         \/ EnableCheck(c) \/ DisableCheck(c) \/ StartEngine(c) \/ MsiRead(c)
         \/ MsiSet(c) \/ MsiClear(c) \/ StopEngine(c) \/ Unown(c)
         \/ LockTest(c) /\ Goto(c, "take")
  PROVE  SessionInv'
<1>0. /\ \A d \in Clients \ {c} : sys[d] = User
      /\ EnginesFor(c) /\ LocksOK /\ ClientOK(c)
      /\ mine \in [Clients -> SUBSET Engines] /\ at \in [Clients -> At]
      /\ sys[c] \in SysType /\ sys[c].op \in Calls
      /\ sys[c].k \in Steps[sys[c].op]
      /\ Engine(c) \in Engines /\ Engine(c) \in sys[c].todo
      /\ Engine(c) \in Use[c]
  BY CallContext
<1> DEFINE Ready(k) == LocksOK' /\ EnginesFor(c)' /\ UNCHANGED enable /\ ClientOK(c)'
                       /\ \A d \in Clients \ {c} : mine'[d] = mine[d]
<1> USE CallFacts DEF Calls
<1>1. CASE LockTest(c) /\ Goto(c, "take")
  <2>1. GoesOn(c, "take") /\ "take" \in Step
    BY <1>1, GotoFacts DEF Step
  <2>2. Engine(c)' = Engine(c) /\ UNCHANGED shared
    BY <2>1, <1>1, SameEngine DEF LockTest
  <2>3. Engine(c) \notin lock /\ sys[c].op = "request"
    <3>1. sys[c].op = "request"
      BY <1>0, <1>1 DEF LockTest
    <3>2. ASSUME NEW ok \in BOOLEAN, Finish(c, ok) PROVE FALSE
      BY <2>1, <3>1, <3>2, FinishFacts, UserFacts DEF GoesOn
    <3>3. (sys[c].ok /\ Engine(c) # "reader") \in BOOLEAN
      OBVIOUS
    <3>4. QED
      BY <1>1, <3>1, <3>2, <3>3 DEF LockTest
  <2>4. Ready("take")
    BY <1>0, <2>1, <2>2, <2>3
    DEF GoesOn, shared, LocksOK, EnginesFor, Consistent, ClientOK, InCall, InRequest
  <2>5. QED
    BY <2>1, <2>4, GoesOnStep
<1>2. CASE EnableCheck(c)
  <2>1. PICK k \in {"seton", "start"} :
          Goto(c, k) /\ k = IF Engine(c) \in enable THEN "seton" ELSE "start"
    BY <1>2 DEF EnableCheck
  <2>2. GoesOn(c, k) /\ k \in Step
    BY <2>1, GotoFacts DEF Step
  <2>3. Engine(c)' = Engine(c) /\ UNCHANGED shared /\ sys[c].op = "enable"
    BY <2>2, <1>0, <1>2, SameEngine DEF EnableCheck
  <2>4. Ready(k)
    BY <1>0, <1>2, <2>1, <2>2, <2>3
    DEF EnableCheck, GoesOn, shared, LocksOK, EnginesFor, Consistent, ClientOK,
        InCall, InEnable
  <2>5. QED
    BY <2>2, <2>4, GoesOnStep
<1>3. CASE DisableCheck(c)
  <2>1. PICK k \in {"clrread", "setoff"} :
          Goto(c, k) /\ k = IF Engine(c) \in enable THEN "clrread" ELSE "setoff"
    BY <1>3 DEF DisableCheck
  <2>2. GoesOn(c, k) /\ k \in Step
    BY <2>1, GotoFacts DEF Step
  <2>3. Engine(c)' = Engine(c) /\ UNCHANGED shared /\ sys[c].op = "disable"
    BY <2>2, <1>0, <1>3, SameEngine DEF DisableCheck
  <2>4. Ready(k)
    BY <1>0, <1>3, <2>1, <2>2, <2>3
    DEF DisableCheck, GoesOn, shared, LocksOK, EnginesFor, Consistent, ClientOK,
        InCall, InDisable
  <2>5. QED
    BY <2>2, <2>4, GoesOnStep
<1>4. CASE StartEngine(c)
  <2>1. GoesOn(c, "setread") /\ "setread" \in Step
    BY <1>4, GotoFacts DEF StartEngine, Step
  <2>2. Engine(c)' = Engine(c) /\ sys[c].op = "enable"
    BY <2>1, <1>0, <1>4, SameEngine DEF StartEngine
  <2>3. Engine(c) \in lock
    BY <1>0, <2>2 DEF ClientOK, InEnable, LocksOK
  <2>4. Ready("setread")
    BY <1>0, <1>4, <2>1, <2>2, <2>3
    DEF StartEngine, GoesOn, LocksOK, EnginesFor, Consistent, ClientOK,
        InCall, InEnable
  <2>5. QED
    BY <2>1, <2>4, GoesOnStep
<1>5. CASE MsiRead(c)
  <2>1. PICK k \in {"setwrite", "clrwrite"} :
          /\ k = IF sys[c].k = "setread" THEN "setwrite" ELSE "clrwrite"
          /\ sys' = [sys EXCEPT ![c].v = msi, ![c].k = k]
    BY <1>0, <1>5 DEF MsiRead, SysType
  <2>2. GoesOn(c, k) /\ k \in Step /\ sys'[c].v = msi
    BY <1>0, <1>5, <2>1 DEF MsiRead, GoesOn, SysType, Step, TypeInv, TypeOK
  <2>3. Engine(c)' = Engine(c) /\ UNCHANGED shared
    BY <2>2, <1>5, SameEngine DEF MsiRead
  <2>4. Ready(k)
    BY <1>0, <1>5, <2>1, <2>2, <2>3
    DEF MsiRead, GoesOn, shared, LocksOK, EnginesFor, Consistent, ClientOK,
        InCall, InEnable, InDisable, InRelease
  <2>5. QED
    BY <2>2, <2>4, GoesOnStep
<1>6. CASE MsiSet(c)
  <2>1. GoesOn(c, "seton") /\ "seton" \in Step
    BY <1>6, GotoFacts DEF MsiSet, Step
  <2>2. Engine(c)' = Engine(c) /\ sys[c].op = "enable"
    BY <2>1, <1>0, <1>6, SameEngine DEF MsiSet
  <2>3. Engine(c) \in lock /\ msi' = msi \cup {Engine(c)}
    BY <1>0, <1>6, <2>2 DEF MsiSet, ClientOK, InEnable, LocksOK
  <2>4. Ready("seton")
    BY <1>0, <1>6, <2>1, <2>2, <2>3
    DEF MsiSet, GoesOn, LocksOK, EnginesFor, Consistent, ClientOK,
        InCall, InEnable
  <2>5. QED
    BY <2>1, <2>4, GoesOnStep
<1>7. CASE MsiClear(c)
  <2>1. GoesOn(c, "stop") /\ "stop" \in Step
    BY <1>7, GotoFacts DEF MsiClear, Step
  <2>2. Engine(c)' = Engine(c) /\ sys[c].op \in {"disable", "release"}
    BY <2>1, <1>0, <1>7, SameEngine DEF MsiClear
  <2>3. msi' = msi \ {Engine(c)}
    BY <1>0, <1>7 DEF MsiClear, ClientOK
  <2>4. Ready("stop")
    BY <1>0, <1>7, <2>1, <2>2, <2>3
    DEF MsiClear, GoesOn, LocksOK, EnginesFor, Consistent, ClientOK,
        InCall, InDisable, InRelease
  <2>5. QED
    BY <2>1, <2>4, GoesOnStep
<1>8. CASE StopEngine(c)
  <2>1. PICK k \in {"unown", "setoff"} :
          Goto(c, k) /\ k = IF sys[c].op = "release" THEN "unown" ELSE "setoff"
    BY <1>8 DEF StopEngine
  <2>2. GoesOn(c, k) /\ k \in Step
    BY <2>1, GotoFacts DEF Step
  <2>3. Engine(c)' = Engine(c) /\ sys[c].op \in {"disable", "release"}
    BY <2>2, <1>0, <1>8, SameEngine DEF StopEngine
  <2>4. Ready(k)
    BY <1>0, <1>8, <2>1, <2>2, <2>3
    DEF StopEngine, GoesOn, LocksOK, EnginesFor, Consistent, ClientOK,
        InCall, InDisable, InRelease
  <2>5. QED
    BY <2>2, <2>4, GoesOnStep
<1>9. CASE Unown(c)
  <2>1. GoesOn(c, "setoff") /\ "setoff" \in Step
    BY <1>9, GotoFacts DEF Unown, Step
  <2>2. Engine(c)' = Engine(c) /\ sys[c].op = "release"
    BY <2>1, <1>0, <1>9, SameEngine DEF Unown
  <2>3. /\ mine'[c] = mine[c] \ {Engine(c)} /\ lock' = lock \ {Engine(c)}
        /\ \A d \in Clients \ {c} : mine'[d] = mine[d]
        /\ Engine(c) \in mine[c]
    BY <1>0, <1>9, <2>2 DEF Unown, ClientOK, InRelease
  <2>4. LocksOK'
    BY <1>0, <2>1, <2>3 DEF LocksOK, GoesOn
  <2>5. Ready("setoff")
    BY <1>0, <1>9, <2>1, <2>2, <2>3, <2>4
    DEF Unown, GoesOn, EnginesFor, Consistent, ClientOK, InCall, InRelease
  <2>6. QED
    BY <2>1, <2>5, GoesOnStep
<1>10. QED
  BY <1>1, <1>2, <1>3, <1>4, <1>5, <1>6, <1>7, <1>8, <1>9

\* The kernel's steps that end with an engine: the next one, or the return.
LEMMA KernelFinishes ==
  ASSUME OneRecorder, TypeInv, SessionInv, TypeInv', NEW c \in Clients, InCall(c),
         NEW ok \in BOOLEAN, Finish(c, ok),
         \/ LockTest(c) /\ Engine(c) \in lock /\ ok = (sys[c].ok /\ Engine(c) # "reader")
         \/ LockTake(c) /\ ok = sys[c].ok
         \/ (LockDrop(c) \/ EnableFlag(c) \/ DisableFlag(c)) /\ ok = TRUE
  PROVE  SessionInv'
<1>0. /\ \A d \in Clients \ {c} : sys[d] = User
      /\ EnginesFor(c) /\ LocksOK /\ ClientOK(c)
      /\ mine \in [Clients -> SUBSET Engines] /\ at \in [Clients -> At]
      /\ sys[c] \in SysType /\ sys[c].op \in Calls
      /\ sys[c].k \in Steps[sys[c].op]
      /\ Engine(c) \in Engines /\ Engine(c) \in sys[c].todo
      /\ Engine(c) \in Use[c]
  BY CallContext
<1>1. /\ \A d \in Clients \ {c} : sys'[d] = sys[d] /\ at'[d] = at[d]
      /\ \/ /\ sys'[c].op = sys[c].op /\ sys'[c].k = First[sys[c].op]
            /\ sys'[c].todo = sys[c].todo \ {Engine(c)}
            /\ sys'[c].todo # {}
            /\ sys'[c].v = {} /\ sys'[c].ok = ok
            /\ UNCHANGED at
         \/ /\ sys[c].todo = {Engine(c)} /\ sys'[c] = User
            /\ at' = [at EXCEPT ![c] = IF ok THEN After[sys[c].op] ELSE "failed"]
  BY FinishFacts
\* The engine that follows is another one, at which nothing is going on.
<1>2. InCall(c)' => /\ Engine(c)' \in Engines /\ Engine(c)' \in sys[c].todo
                    /\ Engine(c)' # Engine(c)
                    /\ sys'[c].op = sys[c].op /\ sys'[c].k = First[sys[c].op]
                    /\ sys'[c].todo = sys[c].todo \ {Engine(c)}
                    /\ sys'[c].ok = ok /\ UNCHANGED at
                    /\ Consistent(Engine(c)')
  <2>1. InCall(c)' => Engine(c)' \in Engines /\ Engine(c)' \in sys'[c].todo
    BY <1>0, <1>1, UserFacts DEF InCall, Engine, Leading, Other, Engines, SysType
  <2>2. QED
    BY <1>0, <1>1, <2>1, UserFacts DEF InCall, EnginesFor
<1>3. ~InCall(c)' => /\ sys[c].todo = {Engine(c)} /\ sys'[c] = User
                     /\ at'[c] = IF ok THEN After[sys[c].op] ELSE "failed"
  BY <1>0, <1>1 DEF InCall
\* What is left to show of each step.
<1>4. ASSUME EnginesFor(c)', LocksOK', ClientOK(c)',
             \A d \in Clients \ {c} : mine'[d] = mine[d],
             enable' \subseteq enable \cup mine[c]
      PROVE  SessionInv'
  BY <1>0, <1>1, <1>4, StepSuffices DEF OthersAtRest
<1>5. \A e \in Engines \ {Engine(c)} : Consistent(e)
  BY <1>0 DEF EnginesFor
<1> USE CallFacts DEF Calls
<1>6. CASE LockTest(c) /\ Engine(c) \in lock /\ ok = (sys[c].ok /\ Engine(c) # "reader")
  <2>1. sys[c].op = "request" /\ UNCHANGED shared /\ InRequest(c)
    BY <1>0, <1>6 DEF LockTest, ClientOK
  <2>2. ~ok
    <3>1. PICK d \in Clients : Engine(c) \in mine[d] /\ Engine(c) \in Use[d]
      BY <1>0, <1>6 DEF LocksOK
    <3>2. d # c
      BY <1>0, <2>1, <3>1 DEF InRequest
    <3>3. Engine(c) # "writer"
      BY <1>0, <3>1, <3>2 DEF OneRecorder
    <3>4. QED
      BY <1>0, <1>6, <3>3 DEF Engines
  <2>3. EnginesFor(c)'
    BY <1>0, <1>1, <1>2, <2>1 DEF EnginesFor, shared, Consistent, InRequest
  <2>4. LocksOK'
    BY <1>0, <1>1, <2>1, UserFacts DEF LocksOK, shared, User
  <2>5. ClientOK(c)'
    BY <1>0, <1>1, <1>2, <2>1, <2>2, UserFacts
    DEF ClientOK, InCall, InRequest, AtRest, shared, Consistent
  <2>6. QED
    BY <1>4, <2>1, <2>3, <2>4, <2>5 DEF shared
<1>7. CASE LockTake(c) /\ ok = sys[c].ok
  <2>1. /\ sys[c].op = "request" /\ InRequest(c)
        /\ UNCHANGED <<enable, running, msi>> /\ lock' = lock \cup {Engine(c)}
        /\ mine'[c] = mine[c] \cup {Engine(c)} /\ Engine(c) \notin lock
        /\ \A d \in Clients \ {c} : mine'[d] = mine[d]
    BY <1>0, <1>7 DEF LockTake, ClientOK, InRequest
  <2>2. EnginesFor(c)'
    BY <1>0, <1>1, <1>2, <2>1 DEF EnginesFor, Consistent, InRequest
  <2>3. LocksOK'
    BY <1>0, <1>1, <2>1, UserFacts DEF LocksOK, User
  <2>4. ClientOK(c)'
    BY <1>0, <1>1, <1>2, <1>7, <2>1, UserFacts
    DEF ClientOK, InCall, InRequest, AtRest, Consistent
  <2>5. QED
    BY <1>4, <2>1, <2>2, <2>3, <2>4
<1>8. CASE LockDrop(c) /\ ok = TRUE
  <2>1. /\ sys[c].op = "unlock" /\ InUnlock(c)
        /\ UNCHANGED <<enable, running, msi>> /\ lock' = lock \ {Engine(c)}
        /\ mine'[c] = mine[c] \ {Engine(c)}
        /\ \A d \in Clients \ {c} : mine'[d] = mine[d]
    BY <1>0, <1>8 DEF LockDrop, ClientOK
  <2>2. Engine(c) \notin enable \cup running \cup msi
    BY <1>0, <2>1 DEF InUnlock, Consistent
  <2>3. EnginesFor(c)'
    BY <1>0, <1>1, <1>2, <2>1, <2>2 DEF EnginesFor, Consistent
  <2>4. LocksOK'
    BY <1>0, <1>1, <2>1, UserFacts DEF LocksOK, User, InUnlock
  <2>5. ClientOK(c)'
    <3>1. CASE InCall(c)'
      <4>1. InUnlock(c)'
        BY <1>0, <1>1, <1>2, <1>8, <2>1, <3>1 DEF InUnlock, Consistent
      <4>2. QED
        BY <1>0, <1>1, <1>2, <1>8, <2>1, <3>1, <4>1 DEF ClientOK, InCall
    <3>2. CASE ~InCall(c)'
      <4>1. AtRest(c)'
        BY <1>0, <1>3, <1>8, <2>1, <3>2, UserFacts DEF InUnlock, Consistent, AtRest, InCall
      <4>2. QED
        BY <1>1, <3>2, <4>1, UserFacts DEF ClientOK, InCall
    <3>3. QED
      BY <3>1, <3>2
  <2>6. QED
    BY <1>4, <2>1, <2>3, <2>4, <2>5
<1>9. CASE EnableFlag(c) /\ ok = TRUE
  <2>1. /\ sys[c].op = "enable" /\ InEnable(c) /\ Engine(c) \in running \cap msi
        /\ UNCHANGED <<lock, mine, running, msi>>
        /\ enable' = enable \cup {Engine(c)} /\ Engine(c) \in mine[c]
    BY <1>0, <1>9 DEF EnableFlag, ClientOK, InEnable
  <2>2. EnginesFor(c)'
    BY <1>0, <1>1, <1>2, <2>1 DEF EnginesFor, Consistent
  <2>3. LocksOK'
    BY <1>0, <1>1, <2>1, UserFacts DEF LocksOK, User
  <2>4. ClientOK(c)'
    <3>1. CASE InCall(c)'
      <4>1. InEnable(c)'
        BY <1>0, <1>1, <1>2, <1>5, <1>9, <2>1, <3>1 DEF InEnable, Consistent
      <4>2. QED
        BY <1>0, <1>1, <1>2, <1>5, <1>9, <2>1, <3>1, <4>1 DEF ClientOK, InCall
    <3>2. CASE ~InCall(c)'
      <4>1. AtRest(c)'
        BY <1>0, <1>3, <1>5, <1>9, <2>1, <3>2, UserFacts DEF InEnable, Consistent, AtRest, InCall
      <4>2. QED
        BY <1>1, <3>2, <4>1, UserFacts DEF ClientOK, InCall
    <3>3. QED
      BY <3>1, <3>2
  <2>5. QED
    BY <1>4, <2>1, <2>2, <2>3, <2>4
<1>10. CASE DisableFlag(c) /\ ok = TRUE
  <2>1. /\ sys[c].op \in {"disable", "release"}
        /\ sys[c].op = "disable" => InDisable(c)
        /\ sys[c].op = "release" => InRelease(c)
        /\ Engine(c) \notin running \cup msi /\ enable' = enable \ {Engine(c)}
        /\ UNCHANGED <<lock, mine, running, msi>> /\ sys[c].k = "setoff"
    BY <1>0, <1>10 DEF DisableFlag, ClientOK, InDisable, InRelease
  <2>2. EnginesFor(c)'
    BY <1>0, <1>1, <1>2, <2>1 DEF EnginesFor, Consistent
  <2>3. LocksOK'
    BY <1>0, <1>1, <2>1, UserFacts DEF LocksOK, User
  <2>4. ClientOK(c)'
    <3>1. CASE InCall(c)'
      <4>1. /\ sys[c].op = "disable" => InDisable(c)'
            /\ sys[c].op = "release" => InRelease(c)'
        BY <1>0, <1>1, <1>2, <1>5, <1>10, <2>1, <3>1 DEF InDisable, InRelease, Consistent
      <4>2. QED
        BY <1>0, <1>1, <1>2, <1>5, <1>10, <2>1, <3>1, <4>1 DEF ClientOK, InCall
    <3>2. CASE ~InCall(c)'
      <4>1. AtRest(c)'
        BY <1>0, <1>3, <1>5, <1>10, <2>1, <3>2, UserFacts DEF InDisable, InRelease, Consistent, AtRest, InCall
      <4>2. QED
        BY <1>1, <3>2, <4>1, UserFacts DEF ClientOK, InCall
    <3>3. QED
      BY <3>1, <3>2
  <2>5. QED
    BY <1>4, <2>1, <2>2, <2>3, <2>4
<1>11. QED
  BY <1>6, <1>7, <1>8, <1>9, <1>10

LEMMA SessionStep ==
  Serial /\ OneRecorder /\ TypeInv /\ TypeInv' /\ SessionInv /\ [Next]_vars
    => SessionInv'
<1> SUFFICES ASSUME Serial, OneRecorder, TypeInv, TypeInv', SessionInv, [Next]_vars
    PROVE  SessionInv'
  OBVIOUS
<1>1. CASE UNCHANGED vars
  BY <1>1
  DEF vars, shared, SessionInv, Alone, LocksOK, EnginesOK, ClientOK, AtRest, Idle,
      InRequest, InEnable, InDisable, InUnlock, InRelease, InCall, Consistent,
      Engine, Leading, Other
<1>2. ASSUME NEW c \in Clients, Call(c) PROVE SessionInv'
  BY <1>2, CallStep
<1>3. ASSUME NEW c \in Clients, Kernel(c) PROVE SessionInv'
  <2>1. InCall(c) /\ sys[c].ok \in BOOLEAN
    <3>1. sys[c].k # "user"
      BY <1>3
      DEF Kernel, LockTest, LockTake, LockDrop, EnableCheck, DisableCheck,
          StartEngine, MsiRead, MsiSet, MsiClear, EnableFlag, StopEngine, Unown,
          DisableFlag
    <3>2. sys[c] \in SysType
      BY DEF TypeInv, TypeOK, SysType
    <3>3. QED
      BY <3>1, <3>2, UserFacts DEF TypeInv, CallShape, SysType
  <2>2. CASE LockTest(c)
    <3>1. (sys[c].ok /\ Engine(c) # "reader") \in BOOLEAN
      OBVIOUS
    <3>2. CASE Engine(c) \in lock
      <4>1. Finish(c, sys[c].ok /\ Engine(c) # "reader")
        BY <2>2, <3>2 DEF LockTest
      <4>2. QED
        BY <2>1, <2>2, <3>1, <3>2, <4>1, KernelFinishes
    <3>3. CASE Engine(c) \notin lock
      <4>1. Goto(c, "take")
        BY <2>2, <3>3 DEF LockTest
      <4>2. QED
        BY <2>1, <2>2, <4>1, KernelGoesOn
    <3>4. QED
      BY <3>2, <3>3
  <2>3. CASE LockTake(c)
    <3>1. Finish(c, sys[c].ok)
      BY <2>3 DEF LockTake
    <3>2. QED
      BY <2>1, <2>3, <3>1, KernelFinishes
  <2>4. CASE LockDrop(c) \/ EnableFlag(c) \/ DisableFlag(c)
    <3>1. Finish(c, TRUE)
      BY <2>4 DEF LockDrop, EnableFlag, DisableFlag
    <3>2. QED
      BY <2>1, <2>4, <3>1, KernelFinishes
  <2>5. QED
    BY <1>3, <2>1, <2>2, <2>3, <2>4, KernelGoesOn DEF Kernel
<1>4. QED
  BY <1>1, <1>2, <1>3 DEF Next

\* An engine has one owner, whose lock is set; between calls the flag, the
\* engine and its interrupt agree; nothing runs when the last client is gone,
\* however the clients ended; and who was not refused owns what it asked for
\* (main.c:141-157, 416-442, 724-755, 831-875, litepcie_dma.c:51-100).
THEOREM SessionInvariance ==
  Serial /\ OneRecorder =>
    (Spec => [](LockExclusive /\ MsiMatches /\ NoOrphan /\ InitMeansOwner))
<1> SUFFICES ASSUME Serial, OneRecorder
    PROVE  Spec => [](LockExclusive /\ MsiMatches /\ NoOrphan /\ InitMeansOwner)
  OBVIOUS
<1>1. TypeInv /\ TypeInv' /\ SessionInv /\ [Next]_vars => SessionInv'
  BY SessionStep
<1>2. TypeInv /\ SessionInv
        => LockExclusive /\ MsiMatches /\ NoOrphan /\ InitMeansOwner
  <2> SUFFICES ASSUME TypeInv, SessionInv
      PROVE  LockExclusive /\ MsiMatches /\ NoOrphan /\ InitMeansOwner
    OBVIOUS
  <2>0. lock \subseteq Engines /\ enable \subseteq Engines
        /\ running \subseteq Engines /\ msi \subseteq Engines
        /\ mine \in [Clients -> SUBSET Engines]
    BY DEF TypeInv, TypeOK
  <2>1. ASSUME Quiet PROVE \A e \in Engines : Consistent(e)
    BY <2>1, UserFacts DEF Quiet, SessionInv, EnginesOK, Idle, InCall
  <2>2. LockExclusive
    BY <2>0 DEF LockExclusive, SessionInv, LocksOK
  <2>3. MsiMatches
    BY <2>0, <2>1 DEF MsiMatches, Consistent
  <2>4. InitMeansOwner
    BY UserFacts DEF InitMeansOwner, SessionInv, ClientOK, AtRest, InCall
  <2>5. NoOrphan
    <3>1. ASSUME \A c \in Clients : at[c] = "closed" PROVE lock = {}
      <4>1. \A c \in Clients : mine[c] = {}
        BY <3>1 DEF SessionInv, ClientOK, AtRest, TypeInv, CallShape
      <4>2. QED
        BY <2>0, <4>1 DEF SessionInv, LocksOK
    <3>2. QED
      BY <2>0, <3>1 DEF NoOrphan, SessionInv, EnginesOK
  <2>6. QED
    BY <2>2, <2>3, <2>4, <2>5
<1>3. QED
  BY <1>1, <1>2, TypeInit, TypeStep, SessionInit, PTL DEF Spec

-----------------------------------------------------------------------------
(* The session implements EngineLease.                                     *)

OwnerIn(m) == [e \in Engines |->
                 IF \E c \in Clients : e \in m[c]
                 THEN CHOOSE c \in Clients : e \in m[c] ELSE NoOne]
Owner == OwnerIn(mine)

\* With one owner at most, the choice is no choice.
LEMMA OwnerFacts ==
  ASSUME NEW m, \A c, d \in Clients : c # d => m[c] \cap m[d] = {}
  PROVE  /\ OwnerIn(m) = [e \in Engines |-> OwnerIn(m)[e]]
         /\ \A e \in Engines, c \in Clients : e \in m[c] => OwnerIn(m)[e] = c
         /\ \A e \in Engines :
              (\A c \in Clients : e \notin m[c]) => OwnerIn(m)[e] = NoOne
<1>1. ASSUME NEW e \in Engines, NEW c \in Clients, e \in m[c]
      PROVE  OwnerIn(m)[e] = c
  <2>1. \A d \in Clients : e \in m[d] => d = c
    BY <1>1
  <2>2. QED
    BY <1>1, <2>1 DEF OwnerIn
<1>2. QED
  BY <1>1 DEF OwnerIn

LEMMA LeaseActions ==
  ASSUME NEW c \in Clients, NEW e \in Engines,
         Lease!Acquire(c, e) \/ Lease!Switch(c, e) \/ Lease!Free(c, e)
  PROVE  Lease!LeaseNext
BY DEF Lease!LeaseNext

LEMMA LeaseStep ==
  ASSUME TypeInv, SessionInv, SessionInv', [Next]_vars
  PROVE  [Lease!LeaseNext]_(Lease!leaseVars)
<1>0. /\ LocksOK /\ LocksOK' /\ mine \in [Clients -> SUBSET Engines]
      /\ running \subseteq Engines
  BY DEF SessionInv, TypeInv, TypeOK
<1>1. Lease!leaseVars = <<Owner, running>> /\ Lease!leaseVars' = <<Owner', running'>>
  BY DEF Lease!leaseVars, Owner, OwnerIn
<1>2. ASSUME mine' = mine, running' = running PROVE UNCHANGED Lease!leaseVars
  BY <1>1, <1>2 DEF Owner, OwnerIn
<1>3. CASE UNCHANGED vars
  BY <1>2, <1>3 DEF vars, shared
<1>4. ASSUME NEW c \in Clients, Call(c) PROVE UNCHANGED Lease!leaseVars
  <2>1. CASE OpenFile(c)
    <3>1. mine[c] = {}
      BY <2>1, UserFacts DEF OpenFile, SessionInv, ClientOK, AtRest, InCall
    <3>2. QED
      BY <1>0, <1>2, <2>1, <3>1 DEF OpenFile
  <2>2. QED
    BY <1>2, <1>4, <2>1
    DEF Call, RequestDma, Process, CleanupDma, ReleaseDma, CloseOwner, CloseOther,
        Enter, shared
<1>5. ASSUME NEW c \in Clients, Kernel(c)
      PROVE  [Lease!LeaseNext]_(Lease!leaseVars)
  <2>1. /\ InCall(c) /\ Engine(c) \in Engines /\ ClientOK(c) /\ EnginesFor(c)
        /\ sys[c].op \in Calls /\ sys[c].k \in Steps[sys[c].op]
        /\ Engine(c) \in Use[c] /\ Engine(c) \in sys[c].todo
    <3>1. sys[c].k # "user"
      BY <1>5
      DEF Kernel, LockTest, LockTake, LockDrop, EnableCheck, DisableCheck,
          StartEngine, MsiRead, MsiSet, MsiClear, EnableFlag, StopEngine, Unown,
          DisableFlag
    <3>2. InCall(c)
      BY <3>1, UserFacts DEF TypeInv, CallShape
    <3>3. QED
      BY <3>2, CallContext
  <2>0. PICK e \in Engines : e = Engine(c)
    BY <2>1
  <2>2. ASSUME lock' \in {lock, lock \cup {e}, lock \ {e}},
               \A d \in Clients, f \in Engines :
                 (d # c \/ f # e) => (f \in mine'[d] <=> f \in mine[d])
        PROVE  \A f \in Engines \ {e} : Owner'[f] = Owner[f]
    <3>1. ASSUME NEW f \in Engines \ {e} PROVE Owner'[f] = Owner[f]
      <4>1. \A d \in Clients : f \in mine'[d] <=> f \in mine[d]
        BY <2>2, <3>1
      <4>2. CASE \E d \in Clients : f \in mine[d]
        <5>1. PICK d \in Clients : f \in mine[d] /\ f \in mine'[d]
          BY <4>1, <4>2
        <5>2. QED
          BY <1>0, <5>1, OwnerFacts DEF LocksOK, Owner
      <4>3. CASE \A d \in Clients : f \notin mine[d]
        BY <1>0, <4>1, <4>3, OwnerFacts DEF LocksOK, Owner
      <4>4. QED
        BY <4>2, <4>3
    <3>2. QED
      BY <3>1
  <2>3. Owner = [f \in Engines |-> Owner[f]] /\ Owner' = [f \in Engines |-> Owner'[f]]
    BY DEF Owner, OwnerIn
  <2>4. CASE LockTake(c)
    <3>1. /\ mine' = [mine EXCEPT ![c] = @ \cup {e}] /\ running' = running
          /\ lock' = lock \cup {e} /\ e \notin lock /\ Consistent(e)
      BY <2>0, <2>1, <2>4, CallFacts DEF LockTake, ClientOK, InRequest, Calls
    <3>2. e \notin running /\ Owner[e] = NoOne /\ Owner'[e] = c
      <4>1. e \notin running
        BY <2>0, <2>1, <3>1 DEF EnginesFor
      <4>2. \A d \in Clients : e \notin mine[d]
        BY <1>0, <2>0, <2>1, <3>1 DEF LocksOK
      <4>3. e \in mine'[c]
        BY <1>0, <3>1
      <4>4. QED
        BY <1>0, <2>0, <2>1, <4>1, <4>2, <4>3, OwnerFacts DEF LocksOK, Owner
    <3>3. Owner' = [Owner EXCEPT ![e] = c]
      BY <1>0, <2>0, <2>1, <2>2, <2>3, <3>1, <3>2
    <3>4. Lease!Acquire(c, e)
      BY <3>1, <3>2, <3>3 DEF Lease!Acquire, Owner, OwnerIn
    <3>5. QED
      BY <3>4, LeaseActions
  <2>5. CASE LockDrop(c) \/ Unown(c)
    <3>1. /\ mine' = [mine EXCEPT ![c] = @ \ {e}] /\ running' = running
          /\ lock' = lock \ {e}
      BY <2>0, <2>5 DEF LockDrop, Unown
    <3>2. e \in mine[c] /\ e \notin running
      BY <2>0, <2>1, <2>5, CallFacts
      DEF LockDrop, Unown, ClientOK, InUnlock, InRelease, Calls, Consistent
    <3>3. \A d \in Clients : e \notin mine'[d]
      BY <1>0, <2>0, <2>1, <3>1, <3>2 DEF LocksOK
    <3>4. Owner[e] = c /\ Owner'[e] = NoOne
      BY <1>0, <2>0, <2>1, <3>2, <3>3, OwnerFacts DEF LocksOK, Owner
    <3>5. Owner' = [Owner EXCEPT ![e] = NoOne]
      BY <1>0, <2>0, <2>1, <2>2, <2>3, <3>1, <3>4
    <3>6. Lease!Free(c, e)
      BY <3>1, <3>2, <3>4, <3>5 DEF Lease!Free, Owner, OwnerIn
    <3>7. QED
      BY <3>6, LeaseActions
  <2>6. CASE StartEngine(c) \/ StopEngine(c)
    <3>1. mine' = mine /\ running' \in {running \cup {e}, running \ {e}}
      BY <2>0, <2>6 DEF StartEngine, StopEngine
    <3>2. e \in mine[c]
      BY <2>0, <2>1, <2>6, CallFacts
      DEF StartEngine, StopEngine, ClientOK, InEnable, InDisable, InRelease, Calls
    <3>3. Owner[e] = c /\ Owner' = Owner
      BY <1>0, <2>0, <2>1, <3>1, <3>2, OwnerFacts DEF LocksOK, Owner
    <3>4. Lease!Switch(c, e)
      BY <3>1, <3>3 DEF Lease!Switch, Owner, OwnerIn
    <3>5. QED
      BY <3>4, LeaseActions
  <2>7. CASE LockTest(c) \/ EnableCheck(c) \/ DisableCheck(c) \/ MsiRead(c)
             \/ MsiSet(c) \/ MsiClear(c) \/ EnableFlag(c) \/ DisableFlag(c)
    BY <1>2, <2>7
    DEF LockTest, EnableCheck, DisableCheck, MsiRead, MsiSet, MsiClear, EnableFlag,
        DisableFlag, shared
  <2>8. QED
    BY <1>5, <2>4, <2>5, <2>6, <2>7 DEF Kernel
<1>6. QED
  BY <1>3, <1>4, <1>5 DEF Next

\* The clients of a channel lease its engines: an engine has one owner, only
\* its owner switches it, and it is off when it changes hands
\* (main.c:416-442, 831-875).
THEOREM SessionImplementsLease == Serial /\ OneRecorder => (Spec => ImplementsLease)
<1> SUFFICES ASSUME Serial, OneRecorder PROVE Spec => ImplementsLease
  OBVIOUS
<1>1. Init => Lease!LeaseInit
  BY DEF Init, Lease!LeaseInit
<1>2. TypeInv /\ TypeInv' /\ SessionInv /\ [Next]_vars => SessionInv'
  BY SessionStep
<1>3. TypeInv /\ SessionInv /\ SessionInv' /\ [Next]_vars
        => [Lease!LeaseNext]_(Lease!leaseVars)
  BY LeaseStep
<1>4. QED
  BY <1>1, <1>2, <1>3, TypeInit, TypeStep, SessionInit, PTL
  DEF Spec, ImplementsLease, Lease!LeaseSpec
=============================================================================
