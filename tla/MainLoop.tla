------------------------------ MODULE MainLoop ------------------------------
(***************************************************************************)
(* The process "simple": Csr::mLoop() of core/cser.cpp, its blink thread,  *)
(* its SQLite database and the sensors it empties.                         *)
(*                                                                         *)
(* One action is one pass through a case of the switch over fMachineState. *)
(* The answers of the Python process, of the adapter and of the sensor are *)
(* chosen by the environment; the dialogue with the Python process is      *)
(* module PyGuard, the writes to the database are module Sqlit.            *)
(*                                                                         *)
(* Data kept: an event is a number, given out in the order of recording; a *)
(* sensor's memory, an image, a database blob and a message to the server  *)
(* are sets of events.  The JSON text is not modelled here.                *)
(***************************************************************************)
EXTENDS Integers, Sequences, FiniteSets

CONSTANTS
    Sensors,          \* the P3 sensors in use
    NoSensor,         \* the empty probe
    SATCNT,           \* "pocet pokusu o spojeni se serverem"
    DELETE_ATT,       \* "pocet pokusu o reconnect pri delete"
    SYNCHROTIMEWAIT,  \* passes of m_waitforpes before m_servertime
    ADAERRORS,        \* adapter errors before the process gives up (100)
    BLOBSIZE,         \* events that fit the blob write_blob() allocates
    MaxEvents,        \* bound: events recorded
    MaxRows,          \* bound: downloads saved
    MaxParses,        \* bound: passes of the parser since the last download
    MaxCrashes,       \* bound: crashes
    Hazards           \* misbehaviour of the environment that is admitted

HazardKinds ==
    {"crash",         \* the process is killed
     "lift",          \* the user moves the sensor during a download
     "anytime",       \* ... or while nobody looks at it
     "shortread",     \* p3_readtourwork() succeeds with pages missing
     "lostreply",     \* p3_delete() has its effect, its reply is lost
     "adapterdown",   \* the adapter does not open when the process starts
     "resend",        \* the server asks for a download again
     "nothread",      \* pthread_create() fails
     "unconfirmed",   \* a transfer is taken for sent without being so
     "stale"}         \* an answer meant for an earlier request

ASSUME SensorsAssumption == NoSensor \notin Sensors
ASSUME LimitsAssumption ==
    /\ SATCNT \in Nat /\ DELETE_ATT \in Nat
    /\ SYNCHROTIMEWAIT \in Nat /\ ADAERRORS \in Nat /\ BLOBSIZE \in Nat
ASSUME BoundsAssumption ==
    MaxEvents \in Nat /\ MaxRows \in Nat /\ MaxParses \in Nat /\ MaxCrashes \in Nat
ASSUME HazardsAssumption == Hazards \subseteq HazardKinds

VARIABLES
    fm,          \* fMachineState; "down" when the process is not running
    iSat,        \* failed attempts, shared by several states
    iAdaErr,     \* adapter errors in a row
    iWaitCnt,    \* passes of m_waitforpes
    blinkState,  \* _blinkState: the thread goes on while it is 1
    blinkFork,   \* _blinkFork: thread to join, 0 for none
    blinkers,    \* blink threads alive; each uses the adapter
    joining,     \* state to enter when pthread_join() returns, or "none"
    dbopen,      \* _dbopen
    idSyn,       \* _idSyn: number of the download being sent
    evtSyn,      \* _evt.idSyn: row that gets tok=1
    isResend,    \* _isResend
    fts,         \* SQL lines collected by DoRepx(): one entry per parse
    firstfree,   \* events announced by the header
    serial,      \* p3header.serial
    buf,         \* pcBufRead: the image in memory
    raw,         \* table rawbuf, one row per download
    repx,        \* table repx, one entry per stored parse
    pes,         \* events in the memory of each sensor
    probe,       \* the sensor on the probe
    recordedBy,  \* ghost: which sensor recorded each event
    server,      \* ghost: what has reached the server
    crashes      \* ghost: crashes so far

blink == <<blinkState, blinkFork, blinkers, joining>>
counters == <<iSat, iAdaErr, iWaitCnt>>
sending == <<idSyn, evtSyn, isResend, fts>>
image == <<firstfree, serial, buf>>
database == <<raw, repx>>
world == <<pes, probe, recordedBy>>
vars == <<fm, counters, blink, dbopen, sending, image, database, world,
          server, crashes>>

-----------------------------------------------------------------------------
States ==
    {"m_start", "m_checkserver", "m_checkmissing", "m_serverError",
     "m_serverok", "m_waitforadapter", "m_adapterError",
     "m_adapterToPython", "m_waitforpes", "m_servertime", "m_readp3header",
     "m_readp3", "m_prepdelp3", "m_deletep3", "m_settimep3", "m_beepok",
     "m_saveblob", "m_parsedata", "down"}

(* States whose handler talks to the adapter.                              *)
AdapterStates ==
    {"m_start", "m_waitforadapter", "m_waitforpes", "m_readp3header",
     "m_readp3", "m_prepdelp3", "m_deletep3", "m_settimep3", "m_beepok"}

(* From the successful read to the saved blob the image is the only copy   *)
(* of events that may already be deleted from the sensor.                  *)
InDownload ==
    fm \in {"m_prepdelp3", "m_deletep3", "m_settimep3", "m_beepok",
            "m_saveblob"}

Threads == 1..2
NoId == -1
Rows == 1 .. Len(raw)
Recorded == 1 .. Len(recordedBy)

(* The n events of S recorded first.                                       *)
Oldest(S, n) == {e \in S : Cardinality({f \in S : f < e}) < n}

(* iSat is only tested for being above SATCNT or DELETE_ATT.              *)
SatCap == IF SATCNT > DELETE_ATT THEN SATCNT + 1 ELSE DELETE_ATT + 1

-----------------------------------------------------------------------------
(* Decisions of the handlers, each preceded by the faulty variants of it   *)
(* that the README's table of mutants uses.                                *)

(* iSat++                                                                  *)
CountWraps(n) == (n + 1) % (SATCNT + 1)
CountAttempt(n) == IF n < SatCap THEN n + 1 ELSE n

(* iWaitCnt after m_waitforpes found no sensor.                            *)
WaitOn == iWaitCnt + 1
WaitCount == IF iWaitCnt >= SYNCHROTIMEWAIT THEN 1 ELSE iWaitCnt + 1

(* The value stop_blinking() gives _blinkState.                            *)
BlinkLeftOn == 1
BlinkOff == 0

(* stop_blinking(), then go on to "next": with a thread to join, clear the *)
(* flag and wait for it.                                                   *)
StopWithoutJoin(next) ==
    /\ blinkState' = 0 /\ blinkFork' = 0
    /\ fm' = next
    /\ UNCHANGED <<blinkers, joining>>
StopBlinkingThen(next) ==
    \/ /\ blinkFork = 0
       /\ fm' = next
       /\ UNCHANGED blink
    \/ /\ blinkFork # 0
       /\ blinkState' = BlinkOff
       /\ joining' = next
       /\ UNCHANGED <<fm, blinkFork, blinkers>>

(* The row _evt.idSyn names after save_blob() has stored row "id".         *)
OldRow(id) == evtSyn
NewRow(id) == id

(* read_blob(): the image of row "id", firstfree with it.                  *)
ImageOf(id) == raw[id].evs

(* The sensor number in the header; the sensor's answer brings it.         *)
SerialKept == serial
SerialRead == probe

(* Where a failed read leads.                                              *)
ReadAnyway == "m_prepdelp3"
AfterFailedRead == "m_waitforadapter"

(* Where attempts to delete that are used up lead.                         *)
SaveAnyway == "m_saveblob"
NotDeleted == "m_checkserver"

(* get_sensorid(): from the first stored event of the download, else -1.   *)
SensorOf(id) ==
    IF \E i \in DOMAIN repx : repx[i].syn = id
    THEN repx[CHOOSE i \in DOMAIN repx : repx[i].syn = id].pes
    ELSE NoSensor

(* write_blob() binds a blob of BLOBSIZE whatever the size of the image.   *)
Stored(evs) == Oldest(evs, BLOBSIZE)

-----------------------------------------------------------------------------
Init ==
    /\ fm = "m_start"
    /\ iSat = 0 /\ iAdaErr = 0 /\ iWaitCnt = 0
    /\ blinkState = 0 /\ blinkFork = 0 /\ blinkers = {} /\ joining = "none"
    /\ dbopen = 0
    /\ idSyn = NoId /\ evtSyn = 0 /\ isResend = FALSE /\ fts = <<>>
    /\ firstfree = 0 /\ serial = NoSensor /\ buf = {}
    /\ raw = <<>> /\ repx = <<>>
    /\ pes = [s \in Sensors |-> {}] /\ probe = NoSensor /\ recordedBy = <<>>
    /\ server = {}
    /\ crashes = 0

(* The main thread is at the head of case "s" of the switch.               *)
At(s) == fm = s /\ joining = "none"

(* The process ends, its blink thread with it.                             *)
Ends ==
    /\ fm' = "down"
    /\ blinkState' = 0 /\ blinkFork' = 0 /\ blinkers' = {} /\ joining' = "none"

(* m_start with an adapter that opens.  After an adapter error the         *)
(* database is not opened; otherwise it is, and the newest row decides     *)
(* where to go: nothing of it is sent.                                     *)
Start ==
    /\ At("m_start")
    /\ IF iAdaErr > 0
       THEN /\ iAdaErr' = 0 /\ iWaitCnt' = 0
            /\ fm' = "m_adapterToPython"
            /\ UNCHANGED <<dbopen, evtSyn, firstfree>>
       ELSE /\ dbopen' = 1
            /\ evtSyn' = Len(raw)
            /\ firstfree' = IF raw = <<>> THEN 0 ELSE raw[Len(raw)].firstfree
            /\ fm' = IF raw # <<>> /\ raw[Len(raw)].tok = 0
                     THEN "m_waitforadapter" ELSE "m_adapterToPython"
            /\ UNCHANGED <<iAdaErr, iWaitCnt>>
    /\ UNCHANGED <<iSat, blink, idSyn, isResend, fts, serial, buf, database,
                   world, server, crashes>>

StartFails ==
    /\ At("m_start")
    /\ iAdaErr > 0 \/ "adapterdown" \in Hazards
    /\ fm' = "m_adapterError"
    /\ UNCHANGED <<counters, blink, dbopen, sending, image, database, world,
                   server, crashes>>

(* m_checkserver, answered without "EFB": the server is taken to be there. *)
(* After RMD_SECONDS the loop asks for missing data.                       *)
ServerFound ==
    /\ At("m_checkserver")
    /\ \E next \in {"m_serverok", "m_checkmissing"} : StopBlinkingThen(next)
    /\ iSat' = 0
    /\ UNCHANGED <<iAdaErr, iWaitCnt, dbopen, sending, image, database, world,
                   server, crashes>>

(* pthread_join() in stop_blinking() returns.                              *)
Joined ==
    /\ joining # "none"
    /\ blinkFork \notin blinkers
    /\ blinkFork' = 0
    /\ joining' = "none"
    /\ fm' = joining
    /\ UNCHANGED <<counters, blinkState, blinkers, dbopen, sending, image,
                   database, world, server, crashes>>

(* m_checkserver, no answer or "EFB".                                      *)
ServerMissed ==
    /\ At("m_checkserver")
    /\ iSat' = CountAttempt(iSat)
    /\ fm' = IF iSat > SATCNT THEN "m_serverError" ELSE fm
    /\ UNCHANGED <<iAdaErr, iWaitCnt, blink, dbopen, sending, image, database,
                   world, server, crashes>>

(* The lowest name that is free, as the thread's name says nothing.        *)
NewThread ==
    {t \in Threads \ blinkers : \A u \in Threads \ blinkers : t <= u}

(* m_serverError: start_blinking() unless the flag is set already.         *)
ServerError ==
    /\ At("m_serverError")
    /\ fm' = "m_checkserver"
    /\ IF blinkState = 0
       THEN \/ /\ blinkState' = 1
               /\ \E t \in NewThread :
                     blinkers' = blinkers \union {t} /\ blinkFork' = t
            \/ /\ "nothread" \in Hazards
               /\ UNCHANGED <<blinkState, blinkers, blinkFork>>
       ELSE UNCHANGED <<blinkState, blinkers, blinkFork>>
    /\ UNCHANGED <<counters, joining, dbopen, sending, image, database, world,
                   server, crashes>>

(* thread_start() leaves its loop.                                         *)
BlinkerExits ==
    /\ blinkState = 0
    /\ \E t \in blinkers : blinkers' = blinkers \ {t}
    /\ UNCHANGED <<fm, counters, blinkState, blinkFork, joining, dbopen,
                   sending, image, database, world, server, crashes>>

(* m_checkmissing: the server wants download "id" again.                   *)
Resend(id) ==
    /\ At("m_checkmissing")
    /\ dbopen = 1
    /\ isResend' = TRUE
    /\ idSyn' = id
    /\ serial' = SensorOf(id)
    /\ buf' = ImageOf(id) /\ firstfree' = raw[id].firstfree
    /\ iSat' = 0
    /\ fm' = "m_parsedata"
    /\ UNCHANGED <<iAdaErr, iWaitCnt, blink, dbopen, evtSyn, fts, database,
                   world, server, crashes>>

(* With the database not open sqlite3_blob_open() is given no handle.      *)
ResendCrashes ==
    /\ At("m_checkmissing")
    /\ dbopen = 0 /\ Rows # {}
    /\ Ends
    /\ UNCHANGED <<counters, dbopen, sending, image, database, world,
                   server, crashes>>

NothingMissing ==
    /\ At("m_checkmissing")
    /\ isResend' = FALSE
    /\ idSyn' = 0
    /\ fm' = "m_serverok"
    /\ UNCHANGED <<counters, blink, dbopen, evtSyn, fts, image, database,
                   world, server, crashes>>

(* m_checkmissing without a usable answer.  m_serverError is assigned, and *)
(* then overwritten.                                                       *)
MissingUnanswered ==
    /\ At("m_checkmissing")
    /\ isResend' = FALSE
    /\ iSat' = IF iSat > SATCNT THEN 0 ELSE CountAttempt(iSat)
    /\ fm' = "m_checkserver"
    /\ UNCHANGED <<iAdaErr, iWaitCnt, blink, dbopen, idSyn, evtSyn, fts,
                   image, database, world, server, crashes>>

ServerOk ==
    /\ At("m_serverok")
    /\ StopBlinkingThen("m_waitforadapter")
    /\ UNCHANGED <<counters, dbopen, sending, image, database, world, server,
                   crashes>>

(* m_waitforadapter: the adapter names itself; else its power is tried.    *)
AdapterFound ==
    /\ At("m_waitforadapter")
    /\ iAdaErr' = 0
    /\ fm' = "m_waitforpes"
    /\ UNCHANGED <<iSat, iWaitCnt, blink, dbopen, sending, image, database,
                   world, server, crashes>>

AdapterMute ==
    /\ At("m_waitforadapter")
    /\ \/ fm' = "m_adapterError" /\ iSat' = 0
       \/ fm' = "m_adapterToPython" /\ UNCHANGED iSat
    /\ UNCHANGED <<iAdaErr, iWaitCnt, blink, dbopen, sending, image, database,
                   world, server, crashes>>

(* m_adapterError: report it, give up after ADAERRORS of them.             *)
AdapterError ==
    /\ At("m_adapterError")
    /\ IF iAdaErr > ADAERRORS
       THEN Ends /\ UNCHANGED iAdaErr
       ELSE /\ fm' = "m_adapterToPython" /\ iAdaErr' = iAdaErr + 1
            /\ UNCHANGED blink
    /\ UNCHANGED <<iSat, iWaitCnt, dbopen, sending, image, database,
                   world, server, crashes>>

(* m_adapterToPython: "answered" when any line came back.                  *)
AdapterToPython(answered) ==
    /\ At("m_adapterToPython")
    /\ fm' = IF answered /\ iAdaErr > 0 THEN "m_start" ELSE "m_checkserver"
    /\ UNCHANGED <<counters, blink, dbopen, sending, image, database, world,
                   server, crashes>>

SensorSeen ==
    /\ At("m_waitforpes")
    /\ probe # NoSensor
    /\ Len(raw) < MaxRows
    /\ fm' = "m_readp3header"
    /\ UNCHANGED <<counters, blink, dbopen, sending, image, database, world,
                   server, crashes>>

NoSensorSeen ==
    /\ At("m_waitforpes")
    /\ iWaitCnt' = WaitCount
    /\ fm' = IF iWaitCnt >= SYNCHROTIMEWAIT THEN "m_servertime" ELSE fm
    /\ UNCHANGED <<iSat, iAdaErr, blink, dbopen, sending, image, database,
                   world, server, crashes>>

(* m_servertime: "OFB" and "EFB" carry no time, parse_sst_line() refuses   *)
(* both; any other first word of up to 4 letters is compared with "EFB".   *)
ServerTime(answered) ==
    /\ At("m_servertime")
    /\ fm' = IF answered THEN "m_adapterToPython" ELSE "m_checkserver"
    /\ UNCHANGED <<counters, blink, dbopen, sending, image, database, world,
                   server, crashes>>

(* ... and one that sorts before it, "AOK", is parsed for a date it does   *)
(* not have: strcpy() from NULL.                                           *)
ServerTimeCrashes ==
    /\ At("m_servertime")
    /\ Ends
    /\ UNCHANGED <<counters, dbopen, sending, image, database, world,
                   server, crashes>>

(* m_readp3header: sensor number and event count of what is on the probe.  *)
(* It may fail before the number is set, after it, after the 12 bytes, one *)
(* event, that stand for the count at first, or after the count.           *)
ReadHeader ==
    /\ At("m_readp3header")
    /\ \/ /\ fm' = "m_waitforadapter"
          /\ UNCHANGED <<serial, firstfree>>
       \/ /\ probe # NoSensor
          /\ serial' = SerialRead
          /\ \/ /\ fm' = "m_waitforadapter"
                /\ firstfree' \in {firstfree, 1, Cardinality(pes[probe])}
             \/ /\ fm' = "m_readp3"
                /\ firstfree' = Cardinality(pes[probe]) /\ firstfree' > 0
    /\ UNCHANGED <<counters, blink, dbopen, sending, buf, database, world,
                   server, crashes>>

(* m_readp3: as many events as the header announced, from whatever sensor  *)
(* is on the probe now.  See TourRead for how pages can be missing.        *)
ReadImage ==
    /\ At("m_readp3")
    /\ probe # NoSensor
    /\ LET whole == Oldest(pes[probe], firstfree) IN
          \/ buf' = whole
          \/ "shortread" \in Hazards /\ \E part \in SUBSET whole : buf' = part
    /\ iSat' = 0
    /\ fm' = "m_prepdelp3"
    /\ UNCHANGED <<iAdaErr, iWaitCnt, blink, dbopen, sending, firstfree,
                   serial, database, world, server, crashes>>

ReadImageFails ==
    /\ At("m_readp3")
    /\ buf' = {}
    /\ fm' = AfterFailedRead
    /\ UNCHANGED <<counters, blink, dbopen, sending, firstfree, serial,
                   database, world, server, crashes>>

(* m_prepdelp3: a sensor answers; no check that it is the one just read.   *)
ReadyToDelete ==
    /\ At("m_prepdelp3")
    /\ probe # NoSensor
    /\ iSat' = 0
    /\ fm' = "m_deletep3"
    /\ UNCHANGED <<iAdaErr, iWaitCnt, blink, dbopen, sending, image, database,
                   world, server, crashes>>

(* ... it does not answer.  When the adapter's power fails as well the     *)
(* adapter error has the last word.                                        *)
NotReadyToDelete ==
    /\ At("m_prepdelp3")
    /\ iSat' = CountAttempt(iSat)
    /\ \/ fm' = IF iSat > DELETE_ATT THEN NotDeleted ELSE fm
       \/ fm' = "m_adapterError"
    /\ UNCHANGED <<iAdaErr, iWaitCnt, blink, dbopen, sending, image, database,
                   world, server, crashes>>

(* m_deletep3                                                              *)
Delete ==
    /\ At("m_deletep3")
    /\ probe # NoSensor
    /\ pes' = [pes EXCEPT ![probe] = {}]
    /\ fm' = "m_settimep3"
    /\ UNCHANGED <<counters, blink, dbopen, sending, image, database, probe,
                   recordedBy, server, crashes>>

DeleteFails ==
    /\ At("m_deletep3")
    /\ \/ UNCHANGED pes
       \/ /\ "lostreply" \in Hazards
          /\ probe # NoSensor
          /\ pes' = [pes EXCEPT ![probe] = {}]
    /\ iSat' = CountAttempt(iSat)
    /\ fm' = IF iSat > DELETE_ATT THEN NotDeleted ELSE fm
    /\ UNCHANGED <<iAdaErr, iWaitCnt, blink, dbopen, sending, image, database,
                   probe, recordedBy, server, crashes>>

(* m_settimep3: repeated until an answer comes; what it says is not read.  *)
SetTime ==
    /\ At("m_settimep3")
    /\ fm' = "m_beepok"
    /\ UNCHANGED <<counters, blink, dbopen, sending, image, database, world,
                   server, crashes>>

BeepOk ==
    /\ At("m_beepok")
    /\ fm' = "m_saveblob"
    /\ UNCHANGED <<counters, blink, dbopen, sending, image, database, world,
                   server, crashes>>

(* m_saveblob: without a database the download has no number and no row.   *)
SaveBlob ==
    /\ At("m_saveblob")
    /\ fts' = <<>>
    /\ IF dbopen = 1
       THEN /\ raw' = Append(raw, [evs |-> Stored(buf),
                                   firstfree |-> firstfree, tok |-> 0])
            /\ idSyn' = Len(raw')
            /\ evtSyn' = NewRow(Len(raw'))
       ELSE /\ idSyn' = NoId
            /\ UNCHANGED <<raw, evtSyn>>
    /\ iSat' = 0
    /\ fm' = "m_parsedata"
    /\ UNCHANGED <<iAdaErr, iWaitCnt, blink, dbopen, isResend, image, repx,
                   world, server, crashes>>

(* m_parsedata: parse the image, collect the SQL lines, send the JSON.     *)
(* "sent" is what reached the server.                                      *)
Parse(sent) ==
    /\ At("m_parsedata")
    /\ Len(fts) < MaxParses
    /\ fts' = IF dbopen = 1 THEN Append(fts, [syn |-> idSyn, pes |-> serial])
                            ELSE fts
    /\ server' = IF sent = {} THEN server
                 ELSE server \union
                        {[syn |-> idSyn, pes |-> serial, evs |-> sent]}

(* ... taken for sent: the row of _evt.idSyn is marked, the SQL lines are  *)
(* executed unless this was a resend.  fts is not cleared.                 *)
ParseDone(sent) ==
    /\ Parse(sent)
    /\ raw' = IF dbopen = 1 /\ evtSyn \in Rows
              THEN [raw EXCEPT ![evtSyn].tok = 1] ELSE raw
    /\ repx' = IF isResend THEN repx ELSE repx \o fts'
    /\ iSat' = 0
    /\ fm' = "m_checkserver"
    /\ UNCHANGED <<iAdaErr, iWaitCnt, blink, dbopen, idSyn, evtSyn, isResend,
                   image, world, crashes>>

ParseFails(sent) ==
    /\ Parse(sent)
    /\ iSat' = CountAttempt(iSat)
    /\ fm' = IF iSat > DELETE_ATT THEN "m_checkserver" ELSE fm
    /\ UNCHANGED <<iAdaErr, iWaitCnt, blink, dbopen, idSyn, evtSyn, isResend,
                   image, database, world, crashes>>

-----------------------------------------------------------------------------
(* The processes around the program, and the users.                        *)

(* SIGKILL by pyguard.py or testkill, or a power cut.                      *)
Killed ==
    /\ "crash" \in Hazards
    /\ fm # "down"
    /\ crashes < MaxCrashes
    /\ crashes' = crashes + 1
    /\ Ends
    /\ UNCHANGED <<counters, dbopen, sending, image, database, world, server>>

(* pyguard.py starts the process again: everything in memory is new.       *)
Restarted ==
    /\ fm = "down"
    /\ fm' = "m_start"
    /\ iSat' = 0 /\ iAdaErr' = 0 /\ iWaitCnt' = 0
    /\ dbopen' = 0
    /\ idSyn' = NoId /\ evtSyn' = 0 /\ isResend' = FALSE /\ fts' = <<>>
    /\ firstfree' = 0 /\ serial' = NoSensor /\ buf' = {}
    /\ UNCHANGED <<blink, database, world, server, crashes>>

(* Without "lift" the user holds the sensor on the probe from the header   *)
(* to the beep; without "anytime" it is moved only in the two states       *)
(* before, the only others that look.                                      *)
MayMove ==
    \/ "lift" \in Hazards
    \/ "anytime" \in Hazards /\ ~InDownload /\ fm # "m_readp3"
    \/ fm \in {"m_waitforpes", "m_readp3header"}

PutOn(s) ==
    /\ probe = NoSensor
    /\ MayMove
    /\ probe' = s
    /\ UNCHANGED <<fm, counters, blink, dbopen, sending, image, database, pes,
                   recordedBy, server, crashes>>

TakeOff ==
    /\ probe # NoSensor
    /\ MayMove
    /\ probe' = NoSensor
    /\ UNCHANGED <<fm, counters, blink, dbopen, sending, image, database, pes,
                   recordedBy, server, crashes>>

Record(s) ==
    /\ probe # s
    /\ Len(recordedBy) < MaxEvents
    /\ recordedBy' = Append(recordedBy, s)
    /\ pes' = [pes EXCEPT ![s] = @ \union {Len(recordedBy) + 1}]
    /\ UNCHANGED <<fm, counters, blink, dbopen, sending, image, database,
                   probe, server, crashes>>

-----------------------------------------------------------------------------
(* The parser goes through firstfree events, and through one in any case.  *)
Parsed == Oldest(buf, IF firstfree = 0 THEN 1 ELSE firstfree)

(* What a transfer may bring to the server when this module stands alone:  *)
(* all of it or nothing, and success means all unless "unconfirmed".       *)
Transfer ==
    \/ ParseDone(Parsed)
    \/ \E part \in {{}, Parsed} : ParseFails(part)
    \/ "unconfirmed" \in Hazards /\ \E part \in SUBSET Parsed : ParseDone(part)

(* A resend is asked for while the parser passes it costs stay in bounds.  *)
ResendRequest ==
    /\ "resend" \in Hazards
    /\ Len(fts) + DELETE_ATT + 2 <= MaxParses
    /\ \E id \in Rows : Resend(id)

LocalStep ==
    \/ Start \/ StartFails \/ Joined \/ ServerError \/ ServerOk
    \/ AdapterFound \/ AdapterMute
    \/ SensorSeen \/ NoSensorSeen \/ ReadHeader \/ ReadImage \/ ReadImageFails
    \/ ReadyToDelete \/ NotReadyToDelete \/ Delete \/ DeleteFails
    \/ SetTime \/ BeepOk \/ SaveBlob

DialogueStep ==
    \/ ServerFound \/ ServerMissed
    \/ ResendRequest \/ NothingMissing \/ MissingUnanswered
    \/ AdapterError
    \/ \E answered \in BOOLEAN : AdapterToPython(answered) \/ ServerTime(answered)
    \/ "stale" \in Hazards /\ ServerTimeCrashes
    \/ "resend" \in Hazards /\ ResendCrashes
    \/ Transfer

User == TakeOff \/ \E s \in Sensors : PutOn(s) \/ Record(s)

Next ==
    \/ LocalStep \/ DialogueStep \/ BlinkerExits
    \/ Killed \/ Restarted \/ User

Spec == Init /\ [][Next]_vars

(* The main thread and the blink thread are scheduled; nothing is promised *)
(* of answers, sensors and users.                                          *)
FairSpec ==
    /\ Spec
    /\ WF_vars(LocalStep \/ DialogueStep)
    /\ WF_vars(BlinkerExits)

-----------------------------------------------------------------------------
(* Properties.                                                             *)

(* The types: of the loop's control, of its data, of what is outside it.   *)
Row == [evs : SUBSET Recorded, firstfree : Nat, tok : {0, 1}]
Entry == [syn : Int, pes : Sensors \union {NoSensor}]
Message == [syn : Int, pes : Sensors \union {NoSensor}, evs : SUBSET Recorded]

ControlType ==
    /\ fm \in States
    /\ iSat \in 0 .. SatCap
    /\ iAdaErr \in 0 .. ADAERRORS + 1
    /\ iWaitCnt \in 0 .. SYNCHROTIMEWAIT + 1
    /\ blinkState \in {0, 1}
    /\ blinkFork \in Threads \union {0}
    /\ blinkers \subseteq Threads
    /\ joining \in States \union {"none"}
    /\ crashes \in 0 .. MaxCrashes

MemoryType ==
    /\ dbopen \in {0, 1}
    /\ idSyn \in Int /\ evtSyn \in Nat
    /\ isResend \in BOOLEAN
    /\ fts \in Seq(Entry)
    /\ firstfree \in Nat
    /\ serial \in Sensors \union {NoSensor}
    /\ buf \subseteq Recorded

WorldType ==
    /\ raw \in Seq(Row) /\ repx \in Seq(Entry)
    /\ pes \in [Sensors -> SUBSET Recorded]
    /\ probe \in Sensors \union {NoSensor}
    /\ recordedBy \in Seq(Sensors)
    /\ server \subseteq Message

TypeOK == ControlType /\ MemoryType /\ WorldType

(* The blink thread and the main loop share one adapter handle and one     *)
(* answer buffer without a lock.  No blink thread is alive while the main  *)
(* loop is in a state that talks to the adapter, and never two of them.    *)
AdapterExclusive ==
    blinkers # {} =>
        fm \notin AdapterStates /\ Cardinality(blinkers) = 1

(* Every event is on a sensor, in the image of a running download, in the  *)
(* database or at the server, although the loop deletes before it saves:   *)
(* nothing is lost but the download in progress when the process is        *)
(* killed, at most one sensor's events per crash.                          *)
Kept(e) ==
    \/ \E s \in Sensors : e \in pes[s]
    \/ InDownload /\ e \in buf
    \/ \E i \in Rows : e \in raw[i].evs
    \/ \E m \in server : e \in m.evs

Custody ==
    Cardinality({recordedBy[e] : e \in {f \in Recorded : ~Kept(f)}}) <= crashes

(* Only events that have been read are deleted from a sensor.              *)
ErasedOnlyRead ==
    [][\A s \in Sensors : pes[s] \ pes'[s] \subseteq buf]_vars

(* Every event goes its way once and whole: from the sensor that is then   *)
(* erased to one row, from the row to the server under its number, through *)
(* retries, resends and restarts.                                          *)
InHand == IF InDownload THEN buf ELSE {}
InTable == [i \in Rows |-> raw[i].evs]
Received == {<<m.syn, m.evs>> : m \in server}

R == INSTANCE Relay WITH
         Events <- 1 .. MaxEvents, held <- pes, hand <- InHand, stored <- InTable,
         received <- Received, kills <- crashes
Relays == R!Spec

(* What the server holds under a number is what the row of that number     *)
(* holds, through retries, resends and restarts.                           *)
MessagesMatchRows ==
    \A m \in server : m.syn \in Rows => m.evs \subseteq raw[m.syn].evs

(* The comment on the update: "do blobu zapis, ze jsem odeslal data", a    *)
(* row marked tok=1 has been sent.                                         *)
TokMeansSent ==
    \A i \in Rows : raw[i].tok = 1 =>
        \E m \in server : m.syn = i /\ m.evs = raw[i].evs

(* Events reach the server under the sensor that recorded them.            *)
Attribution ==
    \A m \in server : \A e \in m.evs : recordedBy[e] = m.pes

(* "save the stream into database": a download that leaves m_saveblob is   *)
(* in the database, all of it.                                             *)
DownloadStored ==
    [][fm = "m_saveblob" /\ fm' = "m_parsedata" =>
          \E i \in DOMAIN raw' : buf \subseteq raw'[i].evs]_vars

(* A sensor that does not let itself be deleted does not hold the loop,    *)
(* nor does a transfer that never succeeds.                                *)
AttemptsEnd ==
    /\ LET Deletion == {"m_prepdelp3", "m_deletep3"}
       IN  fm \in Deletion ~> fm \notin Deletion
    /\ fm = "m_parsedata" ~> fm # "m_parsedata"

(* A server that stays away makes the adapter blink.                       *)
BlinkingStarts ==
    <>[](fm \in {"m_checkserver", "m_serverError"}) => <>(blinkState = 1)

(* stop_blinking() returns: the thread sees the flag.                      *)
JoinReturns == joining # "none" ~> joining = "none"
=============================================================================
