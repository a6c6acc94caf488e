---------------------------- MODULE WatchdogProofs ----------------------------
(***************************************************************************)
(* Proofs about Watchdog for any number of processes, any faults and any   *)
(* bounds.                                                                 *)
(***************************************************************************)
EXTENDS Watchdog, FiniteSetTheorems, TLAPS

(* The dialogue thread exists once the first simple has been killed, and   *)
(* testkill starts a pyguard.py only when it has stopped the one before.   *)
StartInv ==
    /\ main \in {"first", "kill0"} <=> guard = "starting"
    /\ tk = "run" => guard = "down"

TypeInv == TypeOK /\ StartInv

-----------------------------------------------------------------------------
(* Types.                                                                  *)

LEMMA InitTyped == Init => TypeInv
<1> SUFFICES ASSUME Init PROVE TypeInv
  OBVIOUS
<1>1. /\ booting \in BOOLEAN /\ young \in BOOLEAN /\ alone \in BOOLEAN
      /\ sokOld \in BOOLEAN /\ adapterOK \in BOOLEAN /\ link \in BOOLEAN /\ silent \in BOOLEAN
  BY Zenon DEF Init
<1>2. /\ tk = "stopSimple" /\ told = "nothing" /\ guard = "down"
      /\ main = "off" /\ thread = "off" /\ found = [a \in Actors |-> {}]
      /\ alive = {} /\ orphans = 0 /\ deaths = 0 /\ faults = 0
  BY DEF Init
<1>3. QED
  BY <1>1, <1>2, BoundsAssumption DEF TypeInv, TypeOK, StartInv, Actors, At

LEMMA InShellTyped == InShell \in Nat
<1> DEFINE S == {a \in Actors : (IF a = "main" THEN main ELSE thread) = "shell"}
<1>1. IsFiniteSet(Actors)
  <2>1. IsFiniteSet({"main"}) /\ Actors = {"main"} \union {"thread"}
    BY FS_Singleton DEF Actors
  <2>2. QED
    BY <2>1, FS_AddElement
<1>2. S \in SUBSET Actors
  OBVIOUS
<1>3. IsFiniteSet(S)
  BY <1>1, <1>2, FS_Subset
<1>4. QED
  BY <1>3, FS_CardinalityType DEF InShell

LEMMA NewSimpleTyped ==
    ASSUME TypeOK, NewSimple
    PROVE  alive' \subseteq Pids
BY DEF TypeOK, NewSimple, Free

LEMMA TestKillTyped ==
    ASSUME TypeInv, TestKill \/ NoInterface \/ AnswerFails \/ NoAnswer
    PROVE  TypeInv'
<1> USE BoundsAssumption DEF TypeInv, TypeOK, StartInv, Actors, At, testkill, python, procs, world
<1>1. CASE StopSimple
  BY <1>1 DEF StopSimple
<1>2. CASE StopGuard
  <2>1. orphans' \in 0 .. MaxOrphans
    BY <1>2, InShellTyped DEF StopGuard
  <2>2. QED
    BY <1>2, <2>1 DEF StopGuard
<1>3. CASE RunGuard
  <2>1. found' = found /\ alive' = alive
    BY <1>3 DEF RunGuard
  <2>2. thread' = "off" /\ main' = "first" /\ guard' = "starting"
    BY <1>3 DEF RunGuard, ThreadAtStart
  <2>3. guard = "down" => \A a \in Actors : found[a] = {}
    OBVIOUS
  <2>4. guard = "down"
    BY <1>3 DEF RunGuard
  <2>5. QED
    BY <1>3, <2>1, <2>2, <2>3, <2>4 DEF RunGuard
<1>4. CASE TenSeconds
  <2>1. young' \in BOOLEAN
    BY <1>4, Zenon DEF TenSeconds
  <2>2. UNCHANGED <<tk, booting, told, python, procs, world>>
    BY <1>4 DEF TenSeconds
  <2>3. QED
    BY <2>1, <2>2
<1>5. CASE Ask
  BY <1>5 DEF Ask
<1>6. CASE AskFails
  BY <1>6 DEF AskFails, Conclude, Fault, FailureMeansYes
<1>7. CASE Answer
  BY <1>7 DEF Answer, Conclude
<1>8. CASE NoInterface
  BY <1>8 DEF NoInterface, Fault
<1>9. CASE AnswerFails
  BY <1>9 DEF AnswerFails, Conclude, Fault
<1>10. CASE NoAnswer
  BY <1>10 DEF NoAnswer, Fault
<1>11. QED
  BY <1>1, <1>2, <1>3, <1>4, <1>5, <1>6, <1>7, <1>8, <1>9, <1>10 DEF TestKill

LEMMA PythonTyped ==
    ASSUME TypeInv, NEW a \in Actors, Python(a)
    PROVE  TypeInv'
<1> USE BoundsAssumption DEF TypeInv, TypeOK, StartInv, Actors, At, Goto, testkill, procs, world
<1>1. CASE Look(a)
  <2>1. found' \in [Actors -> SUBSET Pids] /\ \A b \in Actors : b # a => found'[b] = found[b]
    BY <1>1 DEF Look
  <2>2. /\ alone' \in BOOLEAN /\ sokOld' \in BOOLEAN /\ adapterOK' \in BOOLEAN
    BY <1>1 DEF Look
  <2>3. CASE a = "main"
    BY <1>1, <2>1, <2>2, <2>3 DEF Look
  <2>4. CASE a = "thread"
    BY <1>1, <2>1, <2>2, <2>4 DEF Look
  <2>5. QED
    BY <2>3, <2>4
<1>2. CASE KillFound(a)
  <2>1. found' \in [Actors -> SUBSET Pids] /\ found'[a] = {}
        /\ \A b \in Actors : b # a => found'[b] = found[b]
    BY <1>2 DEF KillFound
  <2>2. alive' \subseteq Pids
    BY <1>2 DEF KillFound, Kills
  <2>3. CASE a = "main"
    BY <1>2, <2>1, <2>2, <2>3 DEF KillFound
  <2>4. CASE a = "thread"
    BY <1>2, <2>1, <2>2, <2>4 DEF KillFound
  <2>5. QED
    BY <2>3, <2>4
<1>3. CASE KillRaises(a)
  <2>1. found' \in [Actors -> SUBSET Pids] /\ found'[a] = {}
        /\ \A b \in Actors : b # a => found'[b] = found[b]
    BY <1>3 DEF KillRaises
  <2>2. alive' \subseteq Pids
    BY <1>3 DEF KillRaises
  <2>3. CASE a = "main"
    BY <1>3, <2>1, <2>2, <2>3 DEF KillRaises
  <2>4. CASE a = "thread"
    BY <1>3, <2>1, <2>2, <2>4 DEF KillRaises
  <2>5. QED
    BY <2>3, <2>4
<1>4. CASE Launch(a)
  <2>1. alive' \subseteq Pids
    BY <1>4, NewSimpleTyped DEF Launch
  <2>2. CASE a = "main"
    BY <1>4, <2>1, <2>2 DEF Launch
  <2>3. CASE a = "thread"
    BY <1>4, <2>1, <2>3 DEF Launch
  <2>4. QED
    BY <2>2, <2>3
<1>5. QED
  BY <1>1, <1>2, <1>3, <1>4 DEF Python

LEMMA OthersTyped ==
    ASSUME TypeInv,
           \/ OrphanLaunches \/ Contact \/ Hears \/ AdapterReported \/ Sticks
           \/ SimpleDies \/ SokAges \/ Unheard \/ LinkChanges
    PROVE  TypeInv'
<1> USE BoundsAssumption DEF TypeInv, TypeOK, StartInv, Actors, At, testkill, python, procs, world
<1>1. CASE OrphanLaunches
  <2>1. alive' \subseteq Pids
    BY <1>1, NewSimpleTyped DEF OrphanLaunches
  <2>2. QED
    BY <1>1, <2>1 DEF OrphanLaunches
<1>2. CASE Contact
  <2>1. silent' \in BOOLEAN
    BY <1>2, Zenon DEF Contact
  <2>2. /\ thread \in {"contact", "serve"} /\ thread' = "serve"
        /\ UNCHANGED <<testkill, guard, main, found, alone, sokOld, adapterOK, procs, link, faults>>
    BY <1>2 DEF Contact
  <2>3. QED
    BY <2>1, <2>2
<1>3. CASE Hears
  <2>1. sokOld' \in BOOLEAN
    BY <1>3, Zenon DEF Hears
  <2>2. UNCHANGED <<testkill, guard, main, thread, found, alone, adapterOK, procs, world>>
    BY <1>3 DEF Hears
  <2>3. QED
    BY <2>1, <2>2
<1>4. CASE AdapterReported
  <2>1. adapterOK' \in BOOLEAN
    BY <1>4, Zenon DEF AdapterReported
  <2>2. /\ faults' \in 0 .. MaxFaults
        /\ UNCHANGED <<testkill, guard, main, thread, found, alone, sokOld, procs, link, silent>>
    BY <1>4 DEF AdapterReported, Fault
  <2>3. QED
    BY <2>1, <2>2
<1>5. CASE Sticks
  BY <1>5 DEF Sticks, Fault
<1>6. CASE SimpleDies
  BY <1>6 DEF SimpleDies
<1>7. CASE SokAges
  BY <1>7 DEF SokAges
<1>8. CASE Unheard
  BY <1>8 DEF Unheard
<1>9. CASE LinkChanges
  BY <1>9 DEF LinkChanges, Fault
<1>10. QED
  BY <1>1, <1>2, <1>3, <1>4, <1>5, <1>6, <1>7, <1>8, <1>9

LEMMA StutterTyped == TypeInv /\ UNCHANGED vars => TypeInv'
BY DEF TypeInv, TypeOK, StartInv, Actors, At, vars, testkill, python, procs, world

LEMMA TypesKept == Spec => []TypeInv
<1>1. TypeInv /\ [Next]_vars => TypeInv'
  <2> SUFFICES ASSUME TypeInv, [Next]_vars PROVE TypeInv'
    OBVIOUS
  <2> QED
    BY TestKillTyped, PythonTyped, OthersTyped, StutterTyped DEF Next
<1>2. QED
  BY InitTyped, <1>1, PTL DEF Spec

(* TypeOK: the types of testkill, pyguard.py and the processes hold for    *)
(* any number of processes, any faults and any bounds.                     *)
THEOREM TypeCorrect == Spec => []TypeOK
<1>1. TypeInv => TypeOK
  BY DEF TypeInv
<1>2. QED
  BY TypesKept, <1>1, PTL

-----------------------------------------------------------------------------
(* A restart of the dialogue thread.                                       *)

(* A restart nobody competes with has found every simple there is, and     *)
(* none is left when its shell runs.                                       *)
AloneInv ==
    alone =>
        /\ thread \in {"kill", "shell"} => main \in {"idle", "dead"} /\ orphans = 0
        /\ thread = "kill" => alive \subseteq found["thread"]
        /\ thread = "shell" => alive = {}

LEMMA InitAlone == Init => AloneInv
BY DEF Init, AloneInv

LEMMA AloneKept ==
    ASSUME TypeInv, AloneInv, [Next]_vars
    PROVE  AloneInv'
<1> USE DEF AloneInv, TypeInv, TypeOK, StartInv, Actors, At, Goto, testkill, python, procs, world
<1>1. CASE TestKill
  <2>1. CASE StopSimple
    BY <2>1 DEF StopSimple
  <2>2. CASE StopGuard
    BY <2>2 DEF StopGuard
  <2>3. CASE RunGuard
    BY <2>3 DEF RunGuard, ThreadAtStart
  <2>4. CASE TenSeconds
    BY <2>4 DEF TenSeconds
  <2>5. CASE Ask
    BY <2>5 DEF Ask
  <2>6. CASE AskFails
    BY <2>6 DEF AskFails, Conclude
  <2>7. CASE Answer
    BY <2>7 DEF Answer, Conclude
  <2>8. QED
    BY <1>1, <2>1, <2>2, <2>3, <2>4, <2>5, <2>6, <2>7 DEF TestKill
<1>2. CASE NoInterface
  BY <1>2 DEF NoInterface
<1>3. CASE AnswerFails
  BY <1>3 DEF AnswerFails, Conclude
<1>4. CASE NoAnswer
  BY <1>4 DEF NoAnswer
<1>5. ASSUME NEW a \in Actors, Python(a) PROVE AloneInv'
  <2>1. CASE Look(a)
    <3>1. CASE a = "main"
      BY <2>1, <3>1 DEF Look
    <3>2. CASE a = "thread"
      <4>1. alone' = (main \in {"idle", "dead"} /\ orphans = 0)
        BY <2>1, <3>2 DEF Look
      <4>2. /\ thread' = "kill" /\ main' = main /\ orphans' = orphans
            /\ alive' = alive /\ found'["thread"] = alive
        BY <2>1, <3>2 DEF Look
      <4>3. QED
        BY <4>1, <4>2
    <3>3. QED
      BY <3>1, <3>2
  <2>2. CASE KillFound(a)
    <3>1. CASE a = "main"
      BY <2>2, <3>1 DEF KillFound, Kills
    <3>2. CASE a = "thread"
      <4>1. /\ thread = "kill" /\ thread' = "shell" /\ main' = main
            /\ orphans' = orphans /\ alone' = alone
            /\ alive' = alive \ found["thread"]
        BY <2>2, <3>2 DEF KillFound, Kills
      <4>2. QED
        BY <4>1
    <3>3. QED
      BY <3>1, <3>2
  <2>3. CASE KillRaises(a)
    <3>1. CASE a = "main"
      <4>1. alone => thread \notin {"kill", "shell"}
        BY <2>3, <3>1 DEF KillRaises
      <4>2. alone' = alone /\ thread' = thread
        BY <2>3, <3>1 DEF KillRaises
      <4>3. QED
        BY <4>1, <4>2
    <3>2. CASE a = "thread"
      <4>1. thread' = "dead"
        BY <2>3, <3>2 DEF KillRaises
      <4>2. QED
        BY <4>1
    <3>3. QED
      BY <3>1, <3>2
  <2>4. CASE Launch(a)
    <3>1. CASE a = "main"
      BY <2>4, <3>1 DEF Launch
    <3>2. CASE a = "thread"
      BY <2>4, <3>2 DEF Launch
    <3>3. QED
      BY <3>1, <3>2
  <2>5. QED
    BY <1>5, <2>1, <2>2, <2>3, <2>4 DEF Python
<1>6. CASE OrphanLaunches
  BY <1>6 DEF OrphanLaunches
<1>7. CASE Contact
  BY <1>7 DEF Contact
<1>8. CASE Hears \/ AdapterReported
  BY <1>8 DEF Hears, AdapterReported
<1>9. CASE Sticks
  BY <1>9 DEF Sticks
<1>10. CASE SimpleDies
  BY <1>10 DEF SimpleDies
<1>11. CASE SokAges
  BY <1>11 DEF SokAges
<1>12. CASE Unheard \/ LinkChanges
  BY <1>12 DEF Unheard, LinkChanges
<1>13. CASE UNCHANGED vars
  BY <1>13 DEF vars
<1>14. QED
  BY <1>1, <1>2, <1>3, <1>4, <1>5, <1>6, <1>7, <1>8, <1>9, <1>10, <1>11, <1>12, <1>13
     DEF Next

(* The only way from the shell back to the service is the new simple.      *)
LEMMA OnlyLaunchServes ==
    ASSUME TypeInv, Next, thread = "shell", thread' = "serve"
    PROVE  NewSimple
<1> USE DEF TypeInv, TypeOK, Actors, At, Goto, testkill, python, procs, world
<1>1. ~(TestKill \/ NoInterface \/ AnswerFails \/ NoAnswer)
  BY DEF TestKill, StopSimple, StopGuard, RunGuard, TenSeconds, Ask, AskFails, Answer,
         NoInterface, AnswerFails, NoAnswer, Conclude, ThreadAtStart
<1>2. ~(\/ OrphanLaunches \/ Contact \/ Hears \/ AdapterReported \/ Sticks
        \/ SimpleDies \/ SokAges \/ Unheard \/ LinkChanges)
  BY DEF OrphanLaunches, Contact, Hears, AdapterReported, Sticks, SimpleDies, SokAges,
         Unheard, LinkChanges
<1>3. PICK a \in Actors : Python(a)
  BY <1>1, <1>2 DEF Next
<1>4. ~Look(a) /\ ~KillFound(a) /\ ~KillRaises(a)
  BY DEF Look, KillFound, KillRaises
<1>5. QED
  BY <1>3, <1>4 DEF Python, Launch

LEMMA AloneLeavesOne ==
    ASSUME TypeInv, AloneInv, [Next]_vars,
           thread = "shell", thread' = "serve", alone
    PROVE  Cardinality(alive') = 1
<1>1. Next
  BY DEF vars, python
<1>2. NewSimple
  BY <1>1, OnlyLaunchServes
<1>3. alive = {}
  BY DEF AloneInv
<1>4. \E p : alive' = {p}
  BY <1>2, <1>3 DEF NewSimple
<1>5. QED
  BY <1>4, FS_Singleton

(* RestartLeavesOne: after a restart of simple by the dialogue thread that *)
(* began while nobody else was starting one there is exactly one simple.   *)
THEOREM RestartIsClean == Spec => RestartLeavesOne
<1>1. Init => TypeInv /\ AloneInv
  BY InitTyped, InitAlone
<1>2. TypeInv /\ AloneInv /\ [Next]_vars => AloneInv'
  BY AloneKept
<1>3. TypeInv /\ AloneInv /\ [Next]_vars
        => [thread = "shell" /\ thread' = "serve" /\ alone => Cardinality(alive') = 1]_vars
  BY AloneLeavesOne
<1>4. QED
  BY TypesKept, <1>1, <1>2, <1>3, PTL DEF Spec, RestartLeavesOne

-----------------------------------------------------------------------------
(* Copies.                                                                 *)

(* A starter that will find what it looked up still running: it kills it,  *)
(* if it has not yet, and adds one.                                        *)
Sure(a) == (At(a, "kill") \/ At(a, "shell")) /\ found[a] \subseteq alive

Both == found["main"] \union found["thread"]

(* Room for every start under way.                                         *)
CopiesInv ==
    /\ Cardinality(alive) + orphans <= 2 + MaxOrphans
    /\ \A a \in Actors :
          Sure(a) => Cardinality(alive \ found[a]) + 1 + orphans <= 2 + MaxOrphans
    /\ (\A a \in Actors : Sure(a))
          => Cardinality(alive \ Both) + 2 + orphans <= 2 + MaxOrphans

LEMMA SmallerCount ==
    ASSUME NEW S \in SUBSET Pids, NEW T \in SUBSET S
    PROVE  /\ Cardinality(S) \in Nat /\ Cardinality(T) \in Nat
           /\ Cardinality(T) <= Cardinality(S)
<1>1. IsFiniteSet(S)
  BY PidsAssumption, FS_Subset
<1>2. QED
  BY <1>1, FS_Subset, FS_CardinalityType

LEMMA OneMore ==
    ASSUME NEW S \in SUBSET Pids, NEW p \in Pids
    PROVE  /\ Cardinality(S) \in Nat
           /\ Cardinality(S \union {p}) \in Nat
           /\ Cardinality(S \union {p}) <= Cardinality(S) + 1
<1>1. IsFiniteSet(S)
  BY PidsAssumption, FS_Subset
<1>2. Cardinality(S) \in Nat
  BY <1>1, FS_CardinalityType
<1>3. Cardinality(S \union {p}) = IF p \in S THEN Cardinality(S) ELSE Cardinality(S) + 1
  BY <1>1, FS_AddElement
<1>4. QED
  BY <1>2, <1>3

LEMMA InShellCount ==
    ASSUME TypeInv
    PROVE  /\ main = "shell" /\ thread = "shell" => InShell = 2
           /\ main = "shell" /\ thread # "shell" => InShell = 1
           /\ main # "shell" /\ thread = "shell" => InShell = 1
           /\ main # "shell" /\ thread # "shell" => InShell = 0
<1> DEFINE S == {a \in Actors : (IF a = "main" THEN main ELSE thread) = "shell"}
<1>1. Cardinality({"main"}) = 1 /\ Cardinality({"thread"}) = 1 /\ Cardinality({}) = 0
      /\ IsFiniteSet({"main"})
  BY FS_Singleton, FS_EmptySet
<1>2. Cardinality({"main"} \union {"thread"}) = 2
  BY <1>1, FS_AddElement
<1>3. CASE main = "shell" /\ thread = "shell"
  <2>1. S = {"main"} \union {"thread"}
    BY <1>3 DEF Actors
  <2>2. QED
    BY <1>2, <1>3, <2>1 DEF InShell
<1>4. CASE main = "shell" /\ thread # "shell"
  <2>1. S = {"main"}
    BY <1>4 DEF Actors
  <2>2. QED
    BY <1>1, <1>4, <2>1 DEF InShell
<1>5. CASE main # "shell" /\ thread = "shell"
  <2>1. S = {"thread"}
    BY <1>5 DEF Actors
  <2>2. QED
    BY <1>1, <1>5, <2>1 DEF InShell
<1>6. CASE main # "shell" /\ thread # "shell"
  <2>1. S = {}
    BY <1>6 DEF Actors
  <2>2. QED
    BY <1>1, <1>6, <2>1 DEF InShell
<1>7. QED
  BY <1>3, <1>4, <1>5, <1>6

LEMMA InitCopies == Init => CopiesInv
<1> SUFFICES ASSUME Init PROVE CopiesInv
  OBVIOUS
<1>1. Cardinality(alive) = 0 /\ orphans = 0
  BY FS_EmptySet DEF Init
<1>2. \A a \in Actors : ~Sure(a)
  BY DEF Init, Sure, At, Actors
<1>3. QED
  BY <1>1, <1>2, BoundsAssumption DEF CopiesInv, Actors

(* Processes end, restarts are given up: there is room as before.          *)
LEMMA NoNewCopies ==
    ASSUME TypeInv, CopiesInv,
           alive' \subseteq alive, orphans' = orphans,
           \A a \in Actors : Sure(a)' => Sure(a) /\ alive' \ found'[a] \subseteq alive \ found[a],
           (\A a \in Actors : Sure(a)') => alive' \ Both' \subseteq alive \ Both
    PROVE  CopiesInv'
<1>1. alive \in SUBSET Pids /\ orphans \in Nat /\ MaxOrphans \in Nat
  BY BoundsAssumption DEF TypeInv, TypeOK
<1>2. Cardinality(alive') + orphans' <= 2 + MaxOrphans
  BY <1>1, SmallerCount DEF CopiesInv
<1>3. ASSUME NEW a \in Actors, Sure(a)'
      PROVE  Cardinality(alive' \ found'[a]) + 1 + orphans' <= 2 + MaxOrphans
  <2>1. /\ Cardinality(alive \ found[a]) \in Nat /\ Cardinality(alive' \ found'[a]) \in Nat
        /\ Cardinality(alive' \ found'[a]) <= Cardinality(alive \ found[a])
    BY <1>1, <1>3, SmallerCount
  <2>2. Cardinality(alive \ found[a]) + 1 + orphans <= 2 + MaxOrphans
    BY <1>3 DEF CopiesInv
  <2>3. QED
    BY <1>1, <2>1, <2>2
<1>4. ASSUME \A a \in Actors : Sure(a)'
      PROVE  Cardinality(alive' \ Both') + 2 + orphans' <= 2 + MaxOrphans
  <2>1. /\ Cardinality(alive \ Both) \in Nat /\ Cardinality(alive' \ Both') \in Nat
        /\ Cardinality(alive' \ Both') <= Cardinality(alive \ Both)
    BY <1>1, <1>4, SmallerCount
  <2>2. Cardinality(alive \ Both) + 2 + orphans <= 2 + MaxOrphans
    BY <1>4 DEF CopiesInv
  <2>3. QED
    BY <1>1, <2>1, <2>2
<1>5. QED
  BY <1>2, <1>3, <1>4 DEF CopiesInv

LEMMA Newcomer ==
    ASSUME TypeInv, NewSimple, NEW F
    PROVE  /\ Cardinality(alive \ F) \in Nat /\ Cardinality(alive' \ F) \in Nat
           /\ Cardinality(alive' \ F) <= Cardinality(alive \ F) + 1
<1>1. PICK p \in Free : alive' = alive \union {p}
  BY DEF NewSimple
<1>2. p \in Pids /\ alive \ F \in SUBSET Pids
  BY <1>1 DEF Free, TypeInv, TypeOK
<1>3. (alive \ F) \union {p} \in SUBSET Pids
  BY <1>2
<1>4. alive' \ F \in SUBSET ((alive \ F) \union {p})
  BY <1>1
<1>5. /\ Cardinality((alive \ F) \union {p}) \in Nat /\ Cardinality(alive' \ F) \in Nat
      /\ Cardinality(alive' \ F) <= Cardinality((alive \ F) \union {p})
  BY <1>3, <1>4, SmallerCount
<1>6. /\ Cardinality(alive \ F) \in Nat
      /\ Cardinality((alive \ F) \union {p}) <= Cardinality(alive \ F) + 1
  BY <1>2, OneMore
<1>7. QED
  BY <1>5, <1>6

LEMMA NewcomerIsNotFound ==
    ASSUME TypeInv, NewSimple, NEW a \in Actors, found' = found, found[a] \subseteq alive'
    PROVE  found[a] \subseteq alive
BY DEF TypeInv, TypeOK, NewSimple, Free, Actors

LEMMA LaunchCopies ==
    ASSUME TypeInv, CopiesInv, NEW a \in Actors, Launch(a)
    PROVE  CopiesInv'
<1> USE DEF TypeInv, TypeOK, Actors
<1>1. /\ NewSimple /\ found' = found /\ orphans' = orphans /\ At(a, "shell")
      /\ orphans \in Nat /\ MaxOrphans \in Nat
  BY BoundsAssumption DEF Launch
<1>2. found[a] = {} /\ Sure(a) /\ alive \ {} = alive /\ alive' \ {} = alive'
  BY <1>1 DEF At, Sure
<1>3. Cardinality(alive) + 1 + orphans <= 2 + MaxOrphans
  BY <1>2 DEF CopiesInv
<1>4. /\ Cardinality(alive) \in Nat /\ Cardinality(alive') \in Nat
      /\ Cardinality(alive') <= Cardinality(alive) + 1
  BY <1>1, <1>2, Newcomer
<1>5. Cardinality(alive') + orphans' <= 2 + MaxOrphans
  BY <1>1, <1>3, <1>4
<1>6. ~Sure(a)'
  BY DEF Launch, Goto, At, Sure
<1>7. ASSUME NEW b \in Actors, Sure(b)'
      PROVE  Cardinality(alive' \ found'[b]) + 1 + orphans' <= 2 + MaxOrphans
  <2>1. b # a
    BY <1>6, <1>7
  <2>2. found[b] \subseteq alive
    BY <1>1, <1>7, NewcomerIsNotFound DEF Sure
  <2>3. Sure(b)
    BY <1>7, <2>1, <2>2 DEF Launch, Goto, At, Sure
  <2>4. \A d \in Actors : Sure(d)
    BY <1>2, <2>1, <2>3
  <2>5. Both = found[b]
    BY <1>2, <2>1 DEF Both
  <2>6. Cardinality(alive \ found[b]) + 2 + orphans <= 2 + MaxOrphans
    BY <2>4, <2>5 DEF CopiesInv
  <2>7. /\ Cardinality(alive \ found[b]) \in Nat /\ Cardinality(alive' \ found[b]) \in Nat
        /\ Cardinality(alive' \ found[b]) <= Cardinality(alive \ found[b]) + 1
    BY <1>1, Newcomer
  <2>8. QED
    BY <1>1, <2>6, <2>7
<1>8. QED
  BY <1>5, <1>6, <1>7 DEF CopiesInv

LEMMA OrphanCopies ==
    ASSUME TypeInv, CopiesInv, OrphanLaunches
    PROVE  CopiesInv'
<1> USE DEF TypeInv, TypeOK
<1>1. /\ NewSimple /\ found' = found /\ main' = main /\ thread' = thread
      /\ orphans' = orphans - 1 /\ orphans \in Nat /\ MaxOrphans \in Nat
  BY BoundsAssumption DEF OrphanLaunches, python
<1>2. ASSUME NEW F, NEW n \in Nat, Cardinality(alive \ F) + n + orphans <= 2 + MaxOrphans
      PROVE  Cardinality(alive' \ F) + n + orphans' <= 2 + MaxOrphans
  <2>1. /\ Cardinality(alive \ F) \in Nat /\ Cardinality(alive' \ F) \in Nat
        /\ Cardinality(alive' \ F) <= Cardinality(alive \ F) + 1
    BY <1>1, Newcomer
  <2>2. QED
    BY <1>1, <1>2, <2>1
<1>3. \A a \in Actors : Sure(a)' => Sure(a)
  BY <1>1, NewcomerIsNotFound DEF Sure, At
<1>4. Cardinality(alive') + orphans' <= 2 + MaxOrphans
  <2>1. Cardinality(alive \ {}) + 0 + orphans <= 2 + MaxOrphans
    <3>1. alive \ {} = alive /\ Cardinality(alive) \in Nat
      BY SmallerCount
    <3>2. QED
      BY <1>1, <3>1 DEF CopiesInv
  <2>2. Cardinality(alive' \ {}) + 0 + orphans' <= 2 + MaxOrphans
    BY <1>2, <2>1
  <2>3. alive' \ {} = alive' /\ Cardinality(alive' \ {}) \in Nat
    BY <1>1, Newcomer
  <2>4. QED
    BY <1>1, <2>2, <2>3
<1>5. ASSUME NEW a \in Actors, Sure(a)'
      PROVE  Cardinality(alive' \ found'[a]) + 1 + orphans' <= 2 + MaxOrphans
  BY <1>1, <1>2, <1>3, <1>5 DEF CopiesInv
<1>6. ASSUME \A a \in Actors : Sure(a)'
      PROVE  Cardinality(alive' \ Both') + 2 + orphans' <= 2 + MaxOrphans
  <2>1. Both' = Both
    BY <1>1 DEF Both
  <2>2. Cardinality(alive \ Both) + 2 + orphans <= 2 + MaxOrphans
    BY <1>3, <1>6 DEF CopiesInv
  <2>3. QED
    BY <1>2, <2>1, <2>2
<1>7. QED
  BY <1>4, <1>5, <1>6 DEF CopiesInv

(* Who has just looked will kill every simple there is.                    *)
LEMMA LookCopies ==
    ASSUME TypeInv, CopiesInv, NEW a \in Actors, Look(a)
    PROVE  CopiesInv'
<1> USE DEF TypeInv, TypeOK, Actors
<1>1. /\ alive' = alive /\ orphans' = orphans /\ found'[a] = alive
      /\ orphans \in 0 .. MaxOrphans /\ MaxOrphans \in Nat
      /\ \A b \in Actors : b # a => found'[b] = found[b]
  BY BoundsAssumption DEF Look, procs
<1>2. Cardinality({}) = 0
  BY FS_EmptySet
<1>3. \A b \in Actors : b # a => (Sure(b)' <=> Sure(b))
  BY <1>1 DEF Look, Goto, Sure, At
<1>4. ASSUME NEW b \in Actors, Sure(b)'
      PROVE  Cardinality(alive' \ found'[b]) + 1 + orphans' <= 2 + MaxOrphans
  <2>1. CASE b = a
    <3>1. alive' \ found'[b] = {}
      BY <1>1, <2>1
    <3>2. QED
      BY <1>1, <1>2, <3>1
  <2>2. CASE b # a
    BY <1>1, <1>3, <1>4, <2>2 DEF CopiesInv
  <2>3. QED
    BY <2>1, <2>2
<1>5. Cardinality(alive' \ Both') + 2 + orphans' <= 2 + MaxOrphans
  <2>1. alive' \ Both' = {}
    BY <1>1 DEF Both
  <2>2. QED
    BY <1>1, <1>2, <2>1
<1>6. QED
  BY <1>1, <1>4, <1>5 DEF CopiesInv

LEMMA KillCopies ==
    ASSUME TypeInv, CopiesInv, NEW a \in Actors, KillFound(a) \/ KillRaises(a)
    PROVE  CopiesInv'
<1> USE DEF TypeInv, TypeOK, Actors
<1>1. alive' \subseteq alive /\ orphans' = orphans
  BY DEF KillFound, KillRaises, Kills
<1>2. ASSUME NEW b \in Actors, b # a, Sure(b)'
      PROVE  Sure(b) /\ found'[b] = found[b]
  BY <1>1, <1>2 DEF KillFound, KillRaises, Goto, Sure, At
<1>3. CASE KillFound(a) /\ At(a, "kill")
  <2>1. Sure(a) /\ alive' = alive \ found[a] /\ found'[a] = {}
    BY <1>3 DEF KillFound, Kills, Sure
  <2>2. \A b \in Actors : Sure(b)' => Sure(b) /\ alive' \ found'[b] \subseteq alive \ found[b]
    BY <1>1, <1>2, <2>1
  <2>3. (\A b \in Actors : Sure(b)') => alive' \ Both' \subseteq alive \ Both
    BY <1>2, <2>1 DEF Both
  <2>4. QED
    BY <1>1, <2>2, <2>3, NoNewCopies
<1>4. CASE ~(KillFound(a) /\ At(a, "kill"))
  <2>1. ~Sure(a)'
    BY <1>4 DEF KillFound, KillRaises, Goto, Sure, At, StartInv
  <2>2. \A b \in Actors : Sure(b)' => Sure(b) /\ alive' \ found'[b] \subseteq alive \ found[b]
    BY <1>1, <1>2, <2>1
  <2>3. QED
    BY <1>1, <2>1, <2>2, NoNewCopies
<1>5. QED
  BY <1>3, <1>4

(* The shells of a stopped guard stay under way.                           *)
LEMMA StopCopies ==
    ASSUME TypeInv, CopiesInv, StopGuard
    PROVE  CopiesInv'
<1> USE DEF TypeInv, TypeOK, Actors
<1>1. /\ alive' = alive /\ orphans' = orphans + InShell /\ orphans \in Nat /\ MaxOrphans \in Nat
      /\ main' = "off" /\ thread' = "off"
  BY BoundsAssumption DEF StopGuard
<1>2. \A a \in Actors : ~Sure(a)'
  BY <1>1 DEF Sure, At
<1>3. Cardinality(alive) \in Nat /\ alive \ {} = alive
  BY SmallerCount
<1>4. \A a \in Actors : At(a, "shell") => found[a] = {} /\ Sure(a)
  BY DEF At, Sure
<1>5. Cardinality(alive) + orphans + InShell <= 2 + MaxOrphans
  <2>1. CASE main = "shell" /\ thread = "shell"
    <3>1. alive \ Both = alive /\ (\A a \in Actors : Sure(a)) /\ InShell = 2
      BY <1>4, <2>1, InShellCount DEF At, Both
    <3>2. Cardinality(alive) + 2 + orphans <= 2 + MaxOrphans
      BY <3>1 DEF CopiesInv
    <3>3. QED
      BY <1>1, <1>3, <3>1, <3>2
  <2>2. ASSUME NEW a \in Actors, At(a, "shell"), InShell = 1
        PROVE  Cardinality(alive) + orphans + InShell <= 2 + MaxOrphans
    <3>1. Cardinality(alive) + 1 + orphans <= 2 + MaxOrphans
      BY <1>3, <1>4, <2>2 DEF CopiesInv
    <3>2. QED
      BY <1>1, <1>3, <2>2, <3>1
  <2>3. CASE main # "shell" /\ thread # "shell"
    <3>1. InShell = 0
      BY <2>3, InShellCount
    <3>2. QED
      BY <1>1, <1>3, <3>1 DEF CopiesInv
  <2>4. QED
    BY <2>1, <2>2, <2>3, InShellCount DEF At
<1>6. QED
  BY <1>1, <1>2, <1>3, <1>5, InShellTyped DEF CopiesInv

LEMMA CopiesKept ==
    ASSUME TypeInv, CopiesInv, [Next]_vars
    PROVE  CopiesInv'
<1>1. ASSUME alive' \subseteq alive, UNCHANGED <<orphans, found>>,
             \A a \in Actors : At(a, "kill")' \/ At(a, "shell")' => At(a, "kill") \/ At(a, "shell")
      PROVE  CopiesInv'
  <2>1. \A a \in Actors : Sure(a)' => Sure(a) /\ alive' \ found'[a] \subseteq alive \ found[a]
    BY <1>1 DEF Sure
  <2>2. alive' \ Both' \subseteq alive \ Both
    BY <1>1 DEF Both
  <2>3. QED
    BY <1>1, <2>1, <2>2, NoNewCopies
<1> USE DEF Actors, At, testkill, python, procs, world
<1>2. CASE TestKill
  <2>1. CASE StopSimple
    BY <1>1, <2>1 DEF StopSimple
  <2>2. CASE StopGuard
    BY <2>2, StopCopies
  <2>3. CASE RunGuard
    BY <1>1, <2>3 DEF RunGuard, ThreadAtStart
  <2>4. CASE TenSeconds
    BY <1>1, <2>4 DEF TenSeconds
  <2>5. CASE Ask \/ AskFails \/ Answer
    BY <1>1, <2>5 DEF Ask, AskFails, Answer, Conclude
  <2>6. QED
    BY <1>2, <2>1, <2>2, <2>3, <2>4, <2>5 DEF TestKill
<1>3. CASE NoInterface \/ AnswerFails \/ NoAnswer
  BY <1>1, <1>3 DEF NoInterface, AnswerFails, NoAnswer, Conclude
<1>4. ASSUME NEW a \in Actors, Python(a) PROVE CopiesInv'
  BY <1>4, LookCopies, KillCopies, LaunchCopies DEF Python
<1>5. CASE OrphanLaunches
  BY <1>5, OrphanCopies
<1>6. CASE Contact \/ Hears \/ AdapterReported \/ Sticks
  BY <1>1, <1>6 DEF Contact, Hears, AdapterReported, Sticks
<1>7. CASE SimpleDies \/ SokAges \/ Unheard \/ LinkChanges
  BY <1>1, <1>7 DEF SimpleDies, SokAges, Unheard, LinkChanges
<1>8. CASE UNCHANGED vars
  BY <1>1, <1>8 DEF vars
<1>9. QED
  BY <1>2, <1>3, <1>4, <1>5, <1>6, <1>7, <1>8 DEF Next

(* CopiesBounded: the copies of simple and the shells about to start one   *)
(* never exceed two starts and the shells of guards stopped meanwhile.     *)
THEOREM CopiesAreBounded == Spec => []CopiesBounded
<1>1. TypeInv /\ CopiesInv /\ [Next]_vars => CopiesInv'
  BY CopiesKept
<1>2. CopiesInv => CopiesBounded
  BY DEF CopiesInv, CopiesBounded
<1>3. QED
  BY TypesKept, InitCopies, <1>1, <1>2, PTL DEF Spec
=============================================================================
