------------------------------ MODULE Exchange ------------------------------
(***************************************************************************)
(* The single orders of core/engine.c to the adapter and the sensor, one   *)
(* answer each, as the cases of Csr::mLoop() in core/cser.cpp use them:    *)
(* finding the adapter, waiting for a sensor, reading its header, and      *)
(* erasing it after p3_readtourwork() (module TourRead).                   *)
(*                                                                         *)
(* One action is one exchange: an order, its answer, and what the code     *)
(* does up to the next order.  The user moves the sensor and the adapter   *)
(* between exchanges.  Nothing ever purges the receive queue: bytes of an  *)
(* older answer are read in place of the new one, which then takes theirs. *)
(*                                                                         *)
(* Data kept: an answer is "good" (what a P3 sensor that carries out the   *)
(* order says), "bad" (any other) or "none" (the order is not written or   *)
(* the read comes up short).  Stale bytes look like either of the first.   *)
(***************************************************************************)
EXTENDS Integers

CONSTANTS
    CHUNKS,      \* chunks of eight bytes p3_readeeprom() reads (14)
    DELETE_ATT,  \* "pocet pokusu o reconnect pri delete" (5)
    SYNCHROTIMEWAIT,  \* passes of m_waitforpes before m_servertime (10)
    TOUCHES,     \* passes of chip_touch() that WAIT_CHIP_TOUCH gives time for
    LONG,        \* bytes of a sensor's answer (16)
    NUMBER,      \* bytes of the answer with the adapter's number (5)
    MaxLeft,     \* bound: bytes a download leaves in the queue
    MaxStale,    \* bound: bytes of older answers in the queue
    MaxFaults,   \* bound: faults of the line
    MayStall,    \* an answer may come after the code gave up on it
    MayUnplug    \* the user may pull the adapter off the computer

ASSUME SizesAssumption ==
    /\ CHUNKS \in Nat \ {0} /\ DELETE_ATT \in Nat /\ TOUCHES \in Nat \ {0, 1}
    /\ SYNCHROTIMEWAIT \in Nat
    /\ LONG \in Nat \ {0} /\ NUMBER \in Nat \ {0}
ASSUME BoundsAssumption ==
    MaxLeft \in Nat /\ MaxFaults \in Nat /\ MaxStale \in Nat /\ MaxLeft <= MaxStale
ASSUME SwitchesAssumption == MayStall \in BOOLEAN /\ MayUnplug \in BOOLEAN

VARIABLES
    st,        \* fMachineState; "elsewhere" for the cases without an order
    at,        \* the order that goes out next
    caller,    \* who waits for the result of p3_reconnect() or is_p3()
    chunk,     \* the chunk p3_eechunk() asks for
    iWaitCnt,  \* passes of m_waitforpes
    iSat,      \* failed attempts to delete
    touches,   \* passes of chip_touch()
    stale,     \* bytes of older answers in the receive queue
    power,     \* RTS and DTR are set: the adapter runs
    plugged,   \* the adapter is connected to the computer
    attached,  \* a sensor is on the probe
    faults,    \* faults so far
    erased,    \* ghost: a sensor was erased since the last download
    number     \* ghost: where the adapter's number came from

control == <<st, at, caller>>
counters == <<chunk, iWaitCnt, iSat, touches>>
wire == <<stale, faults>>
ghosts == <<erased, number>>
vars == <<control, counters, wire, power, plugged, attached, ghosts>>

Results == {"good", "bad", "none"}
Found == {"good", "bad"}

Cases == {"m_waitforadapter", "m_waitforpes", "m_readp3header", "m_readp3",
          "m_prepdelp3", "m_deletep3", "m_settimep3", "m_beepok",
          "m_adapterError", "elsewhere"}
Orders == {"number", "media", "type", "chunk", "count", "tour", "touch",
           "touch again", "delete", "settime", "beep", "none"}
Callers == {"is_p3", "chunk", "touch again", "touch", "m_prepdelp3",
            "p3_delete", "m_deletep3", "m_settimep3", "p3_beep_ok", "nobody"}

Init ==
    /\ st = "m_waitforadapter" /\ at = "number" /\ caller = "nobody"
    /\ chunk = 0 /\ iWaitCnt = 0 /\ iSat = 0 /\ touches = 0
    /\ stale = 0 /\ faults = 0
    /\ power = FALSE /\ plugged = TRUE /\ attached \in BOOLEAN
    /\ erased = FALSE /\ number = "none"

-----------------------------------------------------------------------------
(* The line.                                                               *)

Fault == faults < MaxFaults /\ faults' = faults + 1

Said(true) == IF true THEN "good" ELSE "bad"

Capped(n) == IF n > MaxStale THEN MaxStale ELSE n

(* readbuf() when nothing new comes: the old bytes are taken as far as     *)
(* they go.  A short read takes them all.                                  *)
ReadOld(n, res) ==
    \/ stale >= n /\ res \in Found /\ stale' = stale - n
    \/ stale < n /\ res = "none" /\ stale' = 0

(* cmdsim(): an order whose answer has n bytes.  true: the sensor does     *)
(* what it is told; done: it has done it.                                  *)
Exchanged(n, true, res, done) ==
    LET answers == power /\ plugged
    IN  \/ /\ answers
           /\ res \in IF stale = 0 THEN {Said(true)} ELSE Found
           /\ done = true
           /\ UNCHANGED wire
        \/ ~answers /\ plugged /\ ReadOld(n, res) /\ ~done /\ UNCHANGED faults
        \/ ~plugged /\ res = "none" /\ ~done /\ UNCHANGED wire
        \/ \* the order is not written
           Fault /\ res = "none" /\ ~done /\ UNCHANGED stale
        \/ \* the order or its answer is lost
           answers /\ Fault /\ ReadOld(n, res) /\ done \in {FALSE, true}
        \/ \* one of them is damaged on the contact
           answers /\ Fault /\ res = "bad" /\ done \in {FALSE, true} /\ UNCHANGED stale
        \/ \* the answer comes late
           /\ MayStall /\ answers /\ Fault
           /\ done = true
           /\ IF stale >= n THEN res \in Found /\ UNCHANGED stale
                            ELSE res = "none" /\ stale' = Capped(n)

(* cmdapi(): the first byte is read alone.  If it is not 0 the rest stays  *)
(* in the queue; if it does not come, the rest is read all the same.       *)
NumberRead(res) ==
    \/ stale = 0 /\ res = "good" /\ number' = "adapter" /\ UNCHANGED wire
    \/ stale > 0 /\ res = "good" /\ number' = "queue" /\ UNCHANGED wire
    \/ stale > 0 /\ res = "bad" /\ stale' = Capped(stale + NUMBER - 1)
       /\ UNCHANGED <<faults, number>>
    \/ \* nothing comes
       /\ Fault
       /\ \/ stale >= NUMBER /\ res = "good" /\ stale' = stale - NUMBER /\ number' = "queue"
          \/ stale < NUMBER /\ res = "none" /\ stale' = 0 /\ UNCHANGED number
          \/ stale > 0 /\ res = "bad" /\ stale' = stale - 1 /\ UNCHANGED number
    \/ \* the adapter answers with an error
       Fault /\ res = "bad" /\ UNCHANGED <<stale, number>>
    \/ \* the answer comes late, for the first read or for both
       /\ MayStall /\ Fault /\ stale = 0
       /\ \/ res = "good" /\ stale' = Capped(1) /\ number' = "queue"
          \/ res = "none" /\ stale' = Capped(NUMBER) /\ UNCHANGED number

-----------------------------------------------------------------------------
(* Where the code goes on.                                                 *)

Call(order, who) == at' = order /\ caller' = who
Go(case, order) == st' = case /\ Call(order, "nobody")

ToAdapter == Go("m_waitforadapter", "number")
ToWait == st' = "m_waitforpes" /\ Call("media", "is_p3")
ToHeader == Go("m_readp3header", "chunk") /\ chunk' = 0
ToPrepare == Go("m_prepdelp3", "touch")
ToDelete == Go("m_deletep3", "delete")
ToSetTime == Go("m_settimep3", "settime")
Away == Go("elsewhere", "none")

(* "iSat++ > DELETE_ATT", n the failed attempts before this one.           *)
SameAttempt == iSat
NextAttempt == iSat + 1
OneMoreAttempt(n) == n > DELETE_ATT + 1
OutOfAttempts(n) == n > DELETE_ATT

(* m_waitforadapter: getadapternumber() switches the adapter off and on    *)
(* and asks for its number.                                                *)
AdapterNumber ==
    /\ st = "m_waitforadapter" /\ at = "number" /\ plugged
    /\ \E res \in Results :
          /\ NumberRead(res)
          /\ \/ res = "good" /\ power' = TRUE /\ ToWait
             \/ res # "good" /\ power' = FALSE /\ Away
    /\ UNCHANGED <<counters, plugged, attached, erased>>

(* m_prepdelp3 without a sensor.  "getadapternumber(...) == true" does not *)
(* hold when the adapter is found, FT_OK is 0: it is switched off.         *)
AdapterRestart ==
    /\ st = "m_prepdelp3" /\ at = "number" /\ plugged
    /\ \E res \in Results : NumberRead(res)
    /\ power' = FALSE
    /\ IF OutOfAttempts(iSat - 1) THEN Away ELSE ToPrepare
    /\ touches' = 0
    /\ UNCHANGED <<chunk, iWaitCnt, iSat, plugged, attached, erased>>

(* Both cases: _poweroff() fails.  What follows is in MainLoop.            *)
AdapterGone ==
    /\ at = "number" /\ ~plugged
    /\ Go("m_adapterError", "none")
    /\ UNCHANGED <<counters, wire, power, plugged, attached, ghosts>>

(* A chunk is taken; after the last one the serial number is looked at.    *)
ChunkTaken ==
    \/ chunk < CHUNKS - 1 /\ Go(st, "chunk") /\ chunk' = chunk + 1
    \/ chunk = CHUNKS - 1 /\ Go(st, "count") /\ UNCHANGED chunk
    \/ chunk = CHUNKS - 1 /\ ToAdapter /\ UNCHANGED chunk

AttemptFailed(again) ==
    /\ iSat' = NextAttempt
    /\ IF OutOfAttempts(iSat) THEN Away ELSE again

(* p3_eechunk() after an answer with a bad status: the chunk is not asked  *)
(* for again, a successful reconnect lets it pass.                         *)
ChunkRefused(found) == IF found THEN ChunkTaken ELSE ToAdapter /\ UNCHANGED chunk

(* is_p3() and p3_reconnect() ask whether something is on the probe, then  *)
(* whether it is a P3, and whoever called them goes on.                    *)
IsP3(found) ==
    /\ caller = "is_p3"
    /\ UNCHANGED <<iSat, touches>>
    /\ IF found THEN ToHeader /\ UNCHANGED iWaitCnt
       ELSE /\ IF iWaitCnt >= SYNCHROTIMEWAIT
               THEN Away /\ iWaitCnt' = 1              \* m_servertime
               ELSE ToWait /\ iWaitCnt' = iWaitCnt + 1
            /\ UNCHANGED chunk

ChunkAgain(found) ==
    /\ caller = "chunk"
    /\ ChunkRefused(found)
    /\ UNCHANGED <<iWaitCnt, iSat, touches>>

(* chip_touch(): in its loop the kind of the medium is what counts, behind *)
(* it the reconnect.                                                       *)
TouchAgain ==
    /\ \/ touches < TOUCHES /\ Call("touch again", "nobody")
       \/ Call("media", "touch")
    /\ UNCHANGED <<st, counters>>

TouchEnds(found) ==
    /\ caller = "touch"
    /\ IF found THEN Call("media", "m_prepdelp3") /\ UNCHANGED iSat
                ELSE Call("number", "nobody") /\ iSat' = NextAttempt
    /\ UNCHANGED <<st, chunk, iWaitCnt, touches>>

Prepared(found) ==
    /\ caller = "m_prepdelp3"
    /\ IF found THEN ToDelete /\ iSat' = 0 ELSE AttemptFailed(ToPrepare)
    /\ touches' = 0
    /\ UNCHANGED <<chunk, iWaitCnt>>

(* p3_delete() reconnects when it is refused, m_deletep3 once more.        *)
DeleteFailed ==
    \/ /\ caller = "p3_delete"
       /\ Call("media", "m_deletep3")
       /\ UNCHANGED <<st, counters>>
    \/ /\ caller = "m_deletep3"
       /\ AttemptFailed(ToDelete)
       /\ UNCHANGED <<chunk, iWaitCnt, touches>>

Reconnected(found) ==
    \/ ChunkAgain(found) \/ TouchEnds(found) \/ Prepared(found) \/ DeleteFailed
    \/ caller = "touch again" /\ TouchAgain
    \/ caller = "m_settimep3" /\ ToSetTime /\ UNCHANGED counters
    \/ caller = "p3_beep_ok" /\ Away /\ UNCHANGED counters

(* What makes them ask for the type: is_p3() any byte but 0, p3_reconnect() *)
(* no other than 1.                                                        *)
MediumSeen(res) == res = "good" \/ (res = "bad" /\ caller = "is_p3")

Media ==
    /\ at = "media"
    /\ \E res \in Results, done \in BOOLEAN :
          /\ Exchanged(1, attached, res, done)
          /\ \/ MediumSeen(res) /\ at' = "type" /\ UNCHANGED <<st, caller, counters>>
             \/ res # "good" /\ (IsP3(FALSE) \/ Reconnected(FALSE))
    /\ UNCHANGED <<power, plugged, attached, ghosts>>

(* is_p3() falls off its end when the type is another: what it returns is  *)
(* then left to chance.                                                    *)
Type ==
    /\ at = "type"
    /\ \E res \in Results, done \in BOOLEAN :
          /\ Exchanged(1, attached, res, done)
          /\ \/ IsP3(res = "good") \/ Reconnected(res = "good")
             \/ res = "bad" /\ IsP3(TRUE)
    /\ UNCHANGED <<power, plugged, attached, ghosts>>

(* p3_eechunk(): without an answer it asks again, for ever if need be.     *)
EeChunk ==
    /\ at = "chunk"
    /\ \E res \in Results, done \in BOOLEAN :
          /\ Exchanged(LONG, attached, res, done)
          /\ \/ res = "good" /\ ChunkTaken
             \/ res = "bad" /\ UNCHANGED <<st, chunk>> /\ Call("media", "chunk")
             \/ res = "none" /\ UNCHANGED <<control, chunk>>
    /\ UNCHANGED <<iWaitCnt, iSat, touches, power, plugged, attached, ghosts>>

(* p3_eventcount() does not look at the status: any answer is a number of  *)
(* events and a bank.                                                      *)
EventCount ==
    /\ at = "count"
    /\ \E res \in Results, done \in BOOLEAN :
          /\ Exchanged(LONG, attached, res, done)
          /\ \/ res # "none" /\ Go("m_readp3", "tour")
             \/ ToAdapter
    /\ UNCHANGED <<counters, power, plugged, attached, ghosts>>

(* p3_readtourwork(), see TourRead: it may leave packets in the queue.  It *)
(* does not return while no order can be written.                          *)
Download ==
    /\ at = "tour" /\ plugged
    /\ stale' \in 0 .. MaxLeft
    /\ \/ ToPrepare /\ iSat' = 0 /\ touches' = 0
       \/ ToAdapter /\ UNCHANGED <<iSat, touches>>
    /\ erased' = FALSE
    /\ UNCHANGED <<chunk, iWaitCnt, faults, power, plugged, attached, number>>

(* chip_touch(): medium_type(), first once, then in the loop.              *)
Touch ==
    /\ at = "touch" \/ at = "touch again"
    /\ touches' = touches + 1
    /\ \E res \in Results, done \in BOOLEAN :
          /\ Exchanged(1, attached, res, done)
          /\ \/ res = "good" /\ Call("media", "m_prepdelp3")
             \/ res # "good" /\ at = "touch" /\ Call("touch again", "nobody")
             \/ res = "bad" /\ at = "touch again" /\ Call("media", "touch again")
             \/ /\ res = "none" /\ at = "touch again"
                /\ \/ touches' < TOUCHES /\ Call("touch again", "nobody")
                   \/ Call("media", "touch")
    /\ UNCHANGED <<st, chunk, iWaitCnt, iSat, power, plugged, attached, ghosts>>

(* p3_delete().  The status is read even when no answer came; it is then   *)
(* that of an older answer.                                                *)
TakenAnyway(res) == res # "bad"
Deleted(res) == res = "good"

Delete ==
    /\ at = "delete"
    /\ \E res \in Results, done \in BOOLEAN :
          /\ Exchanged(LONG, attached, res, done)
          /\ erased' = (erased \/ done)
          /\ IF Deleted(res) THEN ToSetTime
             ELSE /\ UNCHANGED st
                  /\ \/ Call("media", "p3_delete")
                     \/ res = "none" /\ Call("media", "m_deletep3")
    /\ UNCHANGED <<counters, power, plugged, attached, number>>

(* p3_settime(): a full answer is enough.                                  *)
TimeSet(res) == res # "none"

SetTime ==
    /\ at = "settime"
    /\ \E res \in Results, done \in BOOLEAN :
          /\ Exchanged(LONG, attached, res, done)
          /\ IF TimeSet(res) THEN Go("m_beepok", "beep")
                             ELSE UNCHANGED st /\ Call("media", "m_settimep3")
    /\ UNCHANGED <<counters, power, plugged, attached, ghosts>>

BeepOk ==
    /\ at = "beep"
    /\ \E res \in Results, done \in BOOLEAN :
          /\ Exchanged(LONG, attached, res, done)
          /\ \/ Away
             \/ res # "good" /\ UNCHANGED st /\ Call("media", "p3_beep_ok")
    /\ UNCHANGED <<counters, power, plugged, attached, ghosts>>

(* The cases without an order to the adapter come back to it in the end.   *)
Elsewhere ==
    /\ st = "elsewhere"
    /\ ToAdapter
    /\ UNCHANGED <<counters, wire, power, plugged, attached, ghosts>>

Code ==
    \/ AdapterNumber \/ AdapterRestart \/ AdapterGone \/ Media \/ Type
    \/ EeChunk \/ EventCount \/ Download \/ Touch
    \/ Delete \/ SetTime \/ BeepOk \/ Elsewhere

(* The user lifts the sensor, puts one on, pulls the adapter off.          *)
MoveSensor ==
    /\ attached' = ~attached
    /\ UNCHANGED <<control, counters, wire, power, plugged, ghosts>>

Unplug ==
    /\ MayUnplug /\ plugged
    /\ plugged' = FALSE
    /\ UNCHANGED <<control, counters, wire, power, attached, ghosts>>

Next == Code \/ MoveSensor \/ Unplug

Spec == Init /\ [][Next]_vars

(* The thread of the main loop runs on; an adapter with power answers but  *)
(* for the faults counted.  Nothing is asked of the user.                  *)
FairSpec == Spec /\ WF_vars(Code)

-----------------------------------------------------------------------------
(* Properties.                                                             *)

TypeOK ==
    /\ st \in Cases /\ at \in Orders /\ caller \in Callers
    /\ chunk \in 0 .. CHUNKS - 1
    /\ iWaitCnt \in 0 .. SYNCHROTIMEWAIT + 1
    /\ iSat \in 0 .. DELETE_ATT + 2
    /\ touches \in 0 .. TOUCHES
    /\ stale \in 0 .. MaxStale
    /\ power \in BOOLEAN /\ plugged \in BOOLEAN /\ attached \in BOOLEAN
    /\ faults \in 0 .. MaxFaults
    /\ erased \in BOOLEAN
    /\ number \in {"none", "adapter", "queue"}

(* When the loop goes on behind m_deletep3, where the image is all that    *)
(* is left of the events, a sensor has been erased: a lost, damaged, late  *)
(* or missing answer, and a sensor lifted meanwhile, are not taken for     *)
(* one.  Only bytes of older answers, which nothing clears, can be.        *)
DeletedMeansErased ==
    [][at = "delete" /\ st' = "m_settimep3" => erased' \/ stale > 0]_vars

(* Each case that talks to a sensor is left, wherever the sensor is moved  *)
(* and whatever answers are lost or come late.  Two of them repeat an      *)
(* order without a limit: m_readp3header is left unless the adapter is     *)
(* pulled off, m_settimep3 unless it is pulled off or was switched off by  *)
(* m_prepdelp3 (AdapterRestart).                                           *)
CasesEnd ==
    /\ \A c \in {"m_prepdelp3", "m_deletep3"} : st = c ~> st # c
    /\ st = "m_readp3header" ~> st # "m_readp3header" \/ ~plugged
    /\ st = "m_settimep3" ~> st # "m_settimep3" \/ ~plugged \/ ~power

(* ... and an adapter that is plugged in gets the time to its sensor: not  *)
(* so behind an AdapterRestart, when old bytes answer for the deletion     *)
(* and none are left for the time.                                         *)
SetTimeEnds == st = "m_settimep3" ~> st # "m_settimep3" \/ ~plugged

(* "pocet pokusu o reconnect pri delete": the attempts to get the sensor   *)
(* back are made with an adapter that runs, the log calls what comes       *)
(* before them "restart adapter".                                          *)
RetriesPowered == st = "m_prepdelp3" /\ at = "touch" => power

(* "if suceeded, routine returns its serial number": the number            *)
(* getadapternumber() returns is not made of the bytes of a download.      *)
NumberIsAdapters == number # "queue"

(* "sem se dostanu, kdyz zacina pruser s adapterem": a pulled adapter is   *)
(* noticed.                                                                *)
TroubleNoticed == ~plugged ~> st = "m_adapterError"
=============================================================================
