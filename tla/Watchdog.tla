------------------------------- MODULE Watchdog -------------------------------
(***************************************************************************)
(* Who starts and stops what on the reader: testkill (kill/main.c), the    *)
(* start of pyguard.py and the watch over simple in its dialogue thread.   *)
(* The dialogue itself is module PyGuard; here the thread serves, hangs or *)
(* is dead.                                                                *)
(*                                                                         *)
(* A process simple is a number of a process.  Both threads of pyguard.py  *)
(* restart simple with restart_process(): look for it, kill what was       *)
(* found, run a shell that starts a new one.  The shell goes on when       *)
(* pyguard.py is stopped meanwhile.                                        *)
(***************************************************************************)
EXTENDS Integers, FiniteSets

CONSTANTS
    Pids,        \* process numbers simple can have
    Faults,      \* what may go wrong, a subset of FaultKinds
    MaxFaults,   \* bound: faults
    MaxDeaths,   \* bound: ends of simple by itself
    MaxOrphans,  \* bound: shells that outlive pyguard.py at one time
    InTime       \* pyguard.py has started before testkill asks again

FaultKinds == {"link", "slow", "reset", "silent", "nomac", "stuck", "adapter"}

ASSUME PidsAssumption == Pids \subseteq Nat /\ IsFiniteSet(Pids)
ASSUME FaultsAssumption == Faults \subseteq FaultKinds
ASSUME BoundsAssumption ==
    MaxFaults \in Nat /\ MaxDeaths \in Nat /\ MaxOrphans \in Nat
ASSUME SwitchAssumption == InTime \in BOOLEAN

VARIABLES
    tk,         \* testkill: where it is
    booting,    \* before its loop
    young,      \* the ten seconds after a start of pyguard.py
    told,       \* what it concluded from the last question
    guard,      \* pyguard.py: "down", "starting", "up"
    main,       \* its main thread
    thread,     \* its dialogue thread
    found,      \* the pids either found, [main, thread]
    alone,      \* ghost: nobody else was starting simple when thread looked
    alive,      \* the processes simple
    orphans,    \* shells whose pyguard.py is gone
    sokOld,     \* __sok_time is older than SIMPLE_DEAD
    adapterOK,  \* __isAdapterOK
    link,       \* connections to the server succeed
    silent,     \* the server has not heard of this reader for a minute
    faults, deaths

testkill == <<tk, booting, young, told>>
python == <<guard, main, thread, found, alone, sokOld, adapterOK>>
procs == <<alive, orphans, deaths>>
world == <<link, silent, faults>>
vars == <<testkill, python, procs, world>>

Actors == {"main", "thread"}

Init ==
    /\ tk = "stopSimple" /\ booting = TRUE /\ young = FALSE /\ told = "nothing"
    /\ guard = "down" /\ main = "off" /\ thread = "off"
    /\ found = [a \in Actors |-> {}] /\ alone = FALSE
    /\ alive = {} /\ orphans = 0 /\ deaths = 0
    /\ sokOld = TRUE /\ adapterOK = TRUE
    /\ link \in BOOLEAN /\ silent \in BOOLEAN
    /\ faults = 0

(* A fault happens.                                                        *)
Fault(f) == f \in Faults /\ faults < MaxFaults /\ faults' = faults + 1

-----------------------------------------------------------------------------
(* testkill.                                                               *)

(* stop_process("simple"): pkill; what follows never kills, as the count   *)
(* of pids is always > -1.                                                 *)
StopSimple ==
    /\ tk = "stopSimple"
    /\ alive' = {}
    /\ tk' = "stopGuard"
    /\ UNCHANGED <<booting, young, told, python, orphans, deaths, world>>

InShell == Cardinality({a \in Actors : (IF a = "main" THEN main ELSE thread) = "shell"})

(* stop_process("pyguard.py"); a shell it is waiting for goes on.          *)
StopGuard ==
    /\ tk = "stopGuard"
    /\ orphans + InShell <= MaxOrphans
    /\ orphans' = orphans + InShell
    /\ guard' = "down" /\ main' = "off" /\ thread' = "off"
    /\ found' = [a \in Actors |-> {}]
    /\ tk' = IF booting THEN "ask" ELSE "run"
    /\ booting' = FALSE
    /\ UNCHANGED <<young, told, alone, alive, deaths, sokOld, adapterOK, world>>

(* run_process(): a new pyguard.py.  Its thread is created after simple    *)
(* has been killed.                                                        *)
ThreadEarly == "contact"
ThreadAtStart == "off"
RunGuard ==
    /\ tk = "run"
    /\ guard' = "starting" /\ main' = "first" /\ thread' = ThreadAtStart
    /\ sokOld' = TRUE /\ adapterOK' = TRUE
    /\ young' = TRUE
    /\ tk' = "ask"
    /\ UNCHANGED <<booting, told, found, alone, procs, world>>

SimpleDue == sokOld \/ ~adapterOK

(* sleep(5) and sleep(5).                                                  *)
Started ==
    /\ guard # "starting" /\ main \in {"off", "idle", "dead"}
    /\ thread \in {"off", "stuck", "dead"} \/ (thread = "serve" /\ ~SimpleDue)
TenSeconds ==
    /\ young
    /\ InTime => Started
    /\ young' = FALSE
    /\ UNCHANGED <<tk, booting, told, python, procs, world>>

(* should_kill(): any result of writetcp() but 0 means yes.                *)
FailureMeansNo(f) == FALSE
FailureMeansYes(f) == TRUE
Conclude(yes, why) ==
    /\ told' = why
    /\ tk' = IF yes THEN "stopSimple" ELSE "ask"
    /\ UNCHANGED <<booting, young, python, procs>>

Ask ==
    /\ tk = "ask" /\ ~young /\ link
    /\ tk' = "answer"
    /\ UNCHANGED <<booting, young, told, python, procs, world>>

AskFails ==
    /\ tk = "ask" /\ ~young
    /\ \/ ~link /\ UNCHANGED world
       \/ Fault("slow") /\ UNCHANGED <<link, silent>>
    /\ Conclude(FailureMeansYes("connect"), "failure")

(* get_mac_address() fails: the process exits with 0, which ends the loop  *)
(* of the script, too.                                                     *)
NoInterface ==
    /\ tk = "ask" /\ ~young
    /\ Fault("nomac") /\ UNCHANGED <<link, silent>>
    /\ tk' = "exited"
    /\ UNCHANGED <<booting, young, told, python, procs>>

(* The server answers NCK to GDA for a reader it has not heard of.         *)
Answer ==
    /\ tk = "answer" /\ link
    /\ Conclude(silent, IF silent THEN "NCK" ELSE "ACK")
    /\ UNCHANGED world

(* The connection is closed (0 bytes, an empty answer) or broken, and the  *)
(* buffer has what was on the stack.                                       *)
AnswerFails ==
    /\ tk = "answer"
    /\ Fault("reset") /\ UNCHANGED <<link, silent>>
    /\ \E yes \in BOOLEAN : Conclude(yes, "failure")

(* recv() has no limit of time: a server that says nothing holds testkill. *)
NoAnswer ==
    /\ tk = "answer"
    /\ Fault("silent") /\ UNCHANGED <<link, silent>>
    /\ tk' = "waiting"
    /\ UNCHANGED <<booting, young, told, python, procs>>

TestKill ==
    \/ StopSimple \/ StopGuard \/ RunGuard \/ TenSeconds
    \/ Ask \/ AskFails \/ Answer

-----------------------------------------------------------------------------
(* pyguard.py.                                                             *)

At(a, place) == (IF a = "main" THEN main ELSE thread) = place
Goto(a, place) ==
    IF a = "main" THEN main' = place /\ UNCHANGED thread
                  ELSE thread' = place /\ UNCHANGED main

(* pidof.  The main thread looks twice: kill_process() before the thread   *)
(* is created, then restart_process().                                     *)
Look(a) ==
    /\ \/ a = "main" /\ At(a, "first") /\ Goto(a, "kill0")
       \/ a = "main" /\ At(a, "second") /\ Goto(a, "kill")
       \/ a = "thread" /\ At(a, "serve") /\ SimpleDue /\ Goto(a, "kill")
    /\ found' = [found EXCEPT ![a] = alive]
    /\ IF a = "thread"
       THEN /\ sokOld' = FALSE /\ adapterOK' = TRUE
            /\ alone' = (main \in {"idle", "dead"} /\ orphans = 0)
       ELSE UNCHANGED <<sokOld, adapterOK, alone>>
    /\ UNCHANGED <<testkill, guard, procs, world>>

(* os.kill() of every pid found, faulty variants first.                    *)
KillsFirst(S) == IF S = {} THEN {} ELSE {CHOOSE p \in S : TRUE}
KillsNone(S) == {}
Kills(S) == S

KillFound(a) ==
    /\ At(a, "kill0") \/ At(a, "kill")
    /\ found[a] \subseteq alive
    /\ alive' = alive \ Kills(found[a])
    /\ found' = [found EXCEPT ![a] = {}]
    /\ IF At(a, "kill0")
       THEN main' = "second" /\ thread' = "contact" /\ guard' = "up"
       ELSE Goto(a, "shell") /\ UNCHANGED guard
    /\ UNCHANGED <<testkill, alone, sokOld, adapterOK, orphans, deaths, world>>

(* A process found is gone: os.kill() raises OSError.  At first that ends  *)
(* pyguard.py, later the main thread, or by exit(0) the dialogue thread.   *)
KillRaises(a) ==
    /\ At(a, "kill0") \/ At(a, "kill")
    /\ ~(found[a] \subseteq alive)
    /\ \E before \in SUBSET (found[a] \intersect alive) : alive' = alive \ before
    /\ found' = [found EXCEPT ![a] = {}]
    /\ IF At(a, "kill0")
       THEN main' = "off" /\ guard' = "down" /\ UNCHANGED thread
       ELSE Goto(a, "dead") /\ UNCHANGED guard
    /\ UNCHANGED <<testkill, alone, sokOld, adapterOK, orphans, deaths, world>>

(* rmmod is done and the shell starts simple in the background.            *)
Free == Pids \ (alive \union found["main"] \union found["thread"])
NewSimple == Free # {} /\ alive' = alive \union {CHOOSE p \in Free : TRUE}

Launch(a) ==
    /\ At(a, "shell")
    /\ NewSimple
    /\ Goto(a, IF a = "main" THEN "idle" ELSE "serve")
    /\ UNCHANGED <<testkill, guard, found, alone, sokOld, adapterOK, orphans, deaths, world>>

OrphanLaunches ==
    /\ orphans > 0
    /\ orphans' = orphans - 1
    /\ NewSimple
    /\ UNCHANGED <<testkill, python, deaths, world>>

(* GST and CHK: at once in the first pass, then every ten seconds.         *)
Contact ==
    /\ thread \in {"contact", "serve"}
    /\ thread' = "serve"
    /\ silent' = IF link THEN FALSE ELSE silent
    /\ UNCHANGED <<testkill, guard, main, found, alone, sokOld, adapterOK, procs, link, faults>>

(* A request of simple: CFF renews __sok_time, ADS reports the adapter.    *)
Hears ==
    /\ thread = "serve" /\ alive # {} /\ sokOld
    /\ sokOld' = FALSE
    /\ UNCHANGED <<testkill, guard, main, thread, found, alone, adapterOK, procs, world>>
AdapterReported ==
    /\ thread = "serve" /\ alive # {} /\ adapterOK
    /\ Fault("adapter") /\ UNCHANGED <<link, silent>>
    /\ adapterOK' = FALSE
    /\ UNCHANGED <<testkill, guard, main, thread, found, alone, sokOld, procs>>

(* The ways PyGuard shows to a thread that waits for ever.                 *)
Sticks ==
    /\ thread = "serve"
    /\ Fault("stuck") /\ UNCHANGED <<link, silent>>
    /\ thread' = "stuck"
    /\ UNCHANGED <<testkill, guard, main, found, alone, sokOld, adapterOK, procs>>

Python(a) == Look(a) \/ KillFound(a) \/ KillRaises(a) \/ Launch(a)

-----------------------------------------------------------------------------
(* Around them.                                                            *)

SimpleDies ==
    /\ deaths < MaxDeaths
    /\ \E p \in alive : alive' = alive \ {p}
    /\ deaths' = deaths + 1
    /\ UNCHANGED <<testkill, python, orphans, world>>

(* Sixty seconds without CFF.                                              *)
SokAges ==
    /\ guard = "up" /\ ~sokOld
    /\ sokOld' = TRUE
    /\ UNCHANGED <<testkill, guard, main, thread, found, alone, adapterOK, procs, world>>

(* A minute in which the reader could not be heard of.                     *)
Unheard ==
    /\ ~silent /\ (thread # "serve" \/ ~link)
    /\ silent' = TRUE
    /\ UNCHANGED <<testkill, python, procs, link, faults>>

(* A connection that breaks under recv() holds testkill, too: "silent".    *)
LinkChanges ==
    /\ Fault("link") /\ UNCHANGED silent
    /\ tk = "answer" => "silent" \in Faults
    /\ link' = ~link
    /\ UNCHANGED <<testkill, python, procs>>

Next ==
    \/ TestKill \/ NoInterface \/ AnswerFails \/ NoAnswer
    \/ (\E a \in Actors : Python(a))
    \/ OrphanLaunches \/ Contact \/ Hears \/ AdapterReported \/ Sticks
    \/ SimpleDies \/ SokAges \/ Unheard \/ LinkChanges

Spec == Init /\ [][Next]_vars

(* Every process runs, a connection that is up brings an answer, and       *)
(* minutes pass.                                                           *)
FairSpec ==
    /\ Spec
    /\ WF_vars(TestKill)
    /\ \A a \in Actors : WF_vars(Python(a))
    /\ WF_vars(OrphanLaunches) /\ WF_vars(Contact)
    /\ WF_vars(alive = {} /\ SokAges) /\ WF_vars(Unheard)

-----------------------------------------------------------------------------
(* Properties.                                                             *)

TypeOK ==
    /\ tk \in {"stopSimple", "stopGuard", "run", "ask", "answer", "waiting", "exited"}
    /\ booting \in BOOLEAN /\ young \in BOOLEAN
    /\ told \in {"nothing", "failure", "NCK", "ACK"}
    /\ guard \in {"down", "starting", "up"}
    /\ main \in {"off", "first", "kill0", "second", "kill", "shell", "idle", "dead"}
    /\ thread \in {"off", "contact", "serve", "kill", "shell", "stuck", "dead"}
    /\ found \in [Actors -> SUBSET Pids]
    /\ (guard = "down") = (main = "off") /\ (guard = "up") = (thread # "off")
    /\ \A a \in Actors : found[a] # {} => At(a, "kill0") \/ At(a, "kill")
    /\ alone \in BOOLEAN
    /\ alive \subseteq Pids
    /\ orphans \in 0 .. MaxOrphans
    /\ sokOld \in BOOLEAN /\ adapterOK \in BOOLEAN
    /\ link \in BOOLEAN /\ silent \in BOOLEAN
    /\ faults \in 0 .. MaxFaults /\ deaths \in 0 .. MaxDeaths

(* A restart of simple by the dialogue thread that begins when nobody else *)
(* is starting one leaves exactly the new process, however many copies the *)
(* start of pyguard.py left.                                               *)
RestartLeavesOne ==
    [][thread = "shell" /\ thread' = "serve" /\ alone => Cardinality(alive') = 1]_vars

(* Copies do not pile up: two starts race, and shells of stopped guards.   *)
CopiesBounded == Cardinality(alive) + orphans <= 2 + MaxOrphans

(* testkill has ended, or waits in recv() for what does not come.          *)
WatchOver == tk \in {"exited", "waiting"} \/ (tk = "answer" /\ ~link)

(* A minute passes, testkill is told, and the reader is served again,      *)
(* whatever stopped pyguard.py or its thread; and there is a simple again  *)
(* and again, whatever ended it; unless testkill itself is gone.           *)
Served ==
    /\ []<>(thread = "serve" \/ WatchOver)
    /\ []<>(alive # {} \/ WatchOver)

(* "cekej v loopu na povel k zabiti obou procesu" (wait in a loop for the  *)
(* order to kill both processes): pyguard.py is stopped by an order.       *)
KillsOnCommand ==
    [][~booting /\ tk = "stopGuard" /\ tk' # tk => told = "NCK"]_vars

(* The same comment: testkill comes back to wait for an order.             *)
Listens == []<>(tk = "ask")

(* "trying find the process against its name, kill it and restart again":  *)
(* a restart replaces simple.                                              *)
OneSimple == Cardinality(alive) <= 1
=============================================================================
