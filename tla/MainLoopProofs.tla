--------------------------- MODULE MainLoopProofs ---------------------------
(***************************************************************************)
(* Proofs about MainLoop for every set of sensors, every value of the      *)
(* limits and bounds and every set of admitted hazards unless a theorem    *)
(* says otherwise.                                                         *)
(***************************************************************************)
EXTENDS MainLoop, FiniteSetTheorems, SequenceTheorems, TLAPS

(* A name for a state, for the provers the state itself.                   *)
USE DEF NotDeleted

(* Facts about the helpers.                                                *)

LEMMA OldestSubset == \A S, n : Oldest(S, n) \subseteq S
BY DEF Oldest

LEMMA SatCapType == SatCap \in Nat \ {0}
BY LimitsAssumption DEF SatCap

LEMMA CountAttemptType ==
    ASSUME NEW n \in 0 .. SatCap
    PROVE  CountAttempt(n) \in 0 .. SatCap
BY SatCapType DEF CountAttempt

LEMMA WaitCountType ==
    ASSUME iWaitCnt \in 0 .. SYNCHROTIMEWAIT + 1
    PROVE  WaitCount \in 0 .. SYNCHROTIMEWAIT + 1
BY LimitsAssumption DEF WaitCount

(* What a step of the main thread needs to be at the head of case s.       *)
LEMMA AtCase == ASSUME NEW s, At(s) PROVE fm = s /\ joining = "none"
BY DEF At

-----------------------------------------------------------------------------
(* The control part of the state keeps its type.                           *)

LEMMA ControlInit == Init => ControlType
BY SatCapType, LimitsAssumption, BoundsAssumption
   DEF Init, ControlType, States, Threads

LEMMA StopBlinkingType ==
    ASSUME ControlType, NEW next \in States, StopBlinkingThen(next)
    PROVE  /\ fm' \in States
           /\ blinkState' \in {0, 1}
           /\ blinkFork' \in Threads \union {0}
           /\ blinkers' \subseteq Threads
           /\ joining' \in States \union {"none"}
BY DEF ControlType, StopBlinkingThen, BlinkOff, blink

LEMMA EndsType ==
    ASSUME Ends
    PROVE  /\ fm' \in States
           /\ blinkState' \in {0, 1}
           /\ blinkFork' \in Threads \union {0}
           /\ blinkers' \subseteq Threads
           /\ joining' \in States \union {"none"}
BY DEF Ends, States

LEMMA ControlNext == ControlType /\ [Next]_vars => ControlType'
<1> SUFFICES ASSUME ControlType, [Next]_vars PROVE ControlType'
  OBVIOUS
<1> USE SatCapType, LimitsAssumption, BoundsAssumption
(* Steps that move to another case and nothing else here.                  *)
<1>1. ASSUME fm' \in States, UNCHANGED <<counters, blink, crashes>>
      PROVE  ControlType'
  BY <1>1 DEF ControlType, counters, blink
(* Steps that also count.                                                  *)
<1>2. ASSUME fm' \in States, UNCHANGED <<blink, crashes>>,
             iSat' \in 0 .. SatCap,
             iAdaErr' \in 0 .. ADAERRORS + 1,
             iWaitCnt' \in 0 .. SYNCHROTIMEWAIT + 1
      PROVE  ControlType'
  BY <1>2 DEF ControlType, blink
<1>3. CountAttempt(iSat) \in 0 .. SatCap
  BY CountAttemptType DEF ControlType
<1>4. /\ iSat \in 0 .. SatCap /\ iAdaErr \in 0 .. ADAERRORS + 1
      /\ iWaitCnt \in 0 .. SYNCHROTIMEWAIT + 1
      /\ 0 \in 0 .. SatCap /\ 0 \in 0 .. ADAERRORS + 1
      /\ 0 \in 0 .. SYNCHROTIMEWAIT + 1
  BY DEF ControlType
<1>5. CASE Start
  <2>1. fm' \in States
    BY <1>5 DEF Start, States
  <2>2. QED
    BY <1>2, <1>4, <1>5, <2>1 DEF Start
<1>6. CASE StartFails
  BY <1>1, <1>6 DEF StartFails, States
<1>7. CASE ServerFound
  <2>1. PICK next \in {"m_serverok", "m_checkmissing"} : StopBlinkingThen(next)
    BY <1>7 DEF ServerFound
  <2>2. next \in States
    BY DEF States
  <2>3. QED
    BY <1>7, <2>1, <2>2, StopBlinkingType, <1>4 DEF ServerFound, ControlType
<1>8. CASE Joined
  BY <1>8 DEF Joined, ControlType, counters
<1>9. CASE ServerMissed
  <2>1. fm' \in States
    BY <1>9, AtCase DEF ServerMissed, States, At
  <2>2. QED
    BY <1>2, <1>3, <1>4, <1>9, <2>1 DEF ServerMissed
<1>10. CASE ServerError
  <2>1. fm' \in States
    BY <1>10 DEF ServerError, States
  <2>2. /\ blinkState' \in {0, 1} /\ blinkFork' \in Threads \union {0}
        /\ blinkers' \subseteq Threads
    BY <1>10 DEF ServerError, NewThread, ControlType
  <2>3. QED
    BY <1>10, <2>1, <2>2 DEF ServerError, ControlType, counters
<1>11. CASE BlinkerExits
  BY <1>11 DEF BlinkerExits, ControlType, counters
<1>12. CASE ResendRequest
  <2>1. PICK id : Resend(id)
    BY <1>12 DEF ResendRequest
  <2>2. fm' \in States
    BY <2>1 DEF Resend, States
  <2>3. QED
    BY <1>2, <1>4, <2>1, <2>2 DEF Resend
<1>13. CASE NothingMissing
  BY <1>1, <1>13 DEF NothingMissing, States
<1>14. CASE MissingUnanswered
  <2>1. fm' \in States
    BY <1>14 DEF MissingUnanswered, States
  <2>2. iSat' \in 0 .. SatCap
    BY <1>3, <1>4, <1>14 DEF MissingUnanswered
  <2>3. QED
    BY <1>2, <1>4, <1>14, <2>1, <2>2 DEF MissingUnanswered
<1>15. CASE ServerOk
  <2>1. "m_waitforadapter" \in States
    BY DEF States
  <2>2. QED
    BY <1>15, <2>1, StopBlinkingType DEF ServerOk, ControlType, counters
<1>16. CASE AdapterFound
  <2>1. fm' \in States
    BY <1>16 DEF AdapterFound, States
  <2>2. QED
    BY <1>2, <1>4, <1>16, <2>1 DEF AdapterFound
<1>17. CASE AdapterMute
  <2>1. fm' \in States
    BY <1>17 DEF AdapterMute, States
  <2>2. QED
    BY <1>2, <1>4, <1>17, <2>1 DEF AdapterMute
<1>18. CASE AdapterError
  <2>1. CASE iAdaErr > ADAERRORS
    BY <1>18, <2>1, EndsType DEF AdapterError, ControlType
  <2>2. CASE ~(iAdaErr > ADAERRORS)
    <3>1. fm' \in States
      BY <1>18, <2>2 DEF AdapterError, States
    <3>2. iAdaErr' \in 0 .. ADAERRORS + 1
      BY <1>4, <1>18, <2>2 DEF AdapterError
    <3>3. QED
      BY <1>2, <1>4, <1>18, <2>2, <3>1, <3>2 DEF AdapterError
  <2>3. QED
    BY <2>1, <2>2
<1>19. CASE \E answered \in BOOLEAN : AdapterToPython(answered)
  BY <1>1, <1>19 DEF AdapterToPython, States
<1>20. CASE \E answered \in BOOLEAN : ServerTime(answered)
  BY <1>1, <1>20 DEF ServerTime, States
<1>21. CASE ServerTimeCrashes \/ ResendCrashes
  BY <1>21, EndsType DEF ServerTimeCrashes, ResendCrashes, ControlType, counters
<1>22. CASE SensorSeen
  BY <1>1, <1>22 DEF SensorSeen, States
<1>23. CASE NoSensorSeen
  <2>1. fm' \in States
    BY <1>23 DEF NoSensorSeen, ControlType, States
  <2>2. iWaitCnt' \in 0 .. SYNCHROTIMEWAIT + 1
    BY <1>4, <1>23, WaitCountType DEF NoSensorSeen
  <2>3. QED
    BY <1>2, <1>4, <1>23, <2>1, <2>2 DEF NoSensorSeen
<1>24. CASE ReadHeader
  <2>1. fm' \in {"m_readp3", "m_waitforadapter"}
    BY <1>24 DEF ReadHeader
  <2>2. QED
    BY <1>1, <1>24, <2>1 DEF ReadHeader, States
<1>25. CASE ReadImage
  <2>1. fm' \in States
    BY <1>25 DEF ReadImage, States
  <2>2. QED
    BY <1>2, <1>4, <1>25, <2>1 DEF ReadImage
<1>26. CASE ReadImageFails
  BY <1>1, <1>26 DEF ReadImageFails, AfterFailedRead, States
<1>27. CASE ReadyToDelete
  <2>1. fm' \in States
    BY <1>27 DEF ReadyToDelete, States
  <2>2. QED
    BY <1>2, <1>4, <1>27, <2>1 DEF ReadyToDelete
<1>28. CASE NotReadyToDelete
  <2>1. fm' \in States
    BY <1>28 DEF NotReadyToDelete, ControlType, States
  <2>2. QED
    BY <1>2, <1>3, <1>4, <1>28, <2>1 DEF NotReadyToDelete
<1>29. CASE Delete \/ SetTime \/ BeepOk
  BY <1>1, <1>29 DEF Delete, SetTime, BeepOk, States
<1>30. CASE DeleteFails
  <2>1. fm' \in States
    BY <1>30 DEF DeleteFails, ControlType, States
  <2>2. QED
    BY <1>2, <1>3, <1>4, <1>30, <2>1 DEF DeleteFails
<1>31. CASE SaveBlob
  <2>1. fm' \in States
    BY <1>31 DEF SaveBlob, States
  <2>2. QED
    BY <1>2, <1>4, <1>31, <2>1 DEF SaveBlob
<1>32. CASE \E sent : ParseDone(sent)
  <2>1. fm' \in States
    BY <1>32 DEF ParseDone, States
  <2>2. QED
    BY <1>2, <1>4, <1>32, <2>1 DEF ParseDone
<1>33. CASE \E sent : ParseFails(sent)
  <2>1. fm' \in States
    BY <1>33 DEF ParseFails, ControlType, States
  <2>2. QED
    BY <1>2, <1>3, <1>4, <1>33, <2>1 DEF ParseFails
<1>34. CASE Killed
  BY <1>34, EndsType DEF Killed, ControlType, counters
<1>35. CASE Restarted
  <2>1. fm' \in States
    BY <1>35 DEF Restarted, States
  <2>2. QED
    BY <1>2, <1>4, <1>35, <2>1 DEF Restarted
<1>36. CASE User
  BY <1>36 DEF User, PutOn, TakeOff, Record, ControlType, counters, blink
<1>37. CASE UNCHANGED vars
  BY <1>37 DEF vars, ControlType, counters, blink
<1>38. QED
  BY <1>5, <1>6, <1>7, <1>8, <1>9, <1>10, <1>11, <1>12, <1>13, <1>14, <1>15,
     <1>16, <1>17, <1>18, <1>19, <1>20, <1>21, <1>22, <1>23, <1>24, <1>25,
     <1>26, <1>27, <1>28, <1>29, <1>30, <1>31, <1>32, <1>33, <1>34, <1>35,
     <1>36, <1>37
     DEF Next, LocalStep, DialogueStep, Transfer

THEOREM ControlCorrect == Spec => []ControlType
<1>1. QED
  BY ControlInit, ControlNext, PTL DEF Spec

-----------------------------------------------------------------------------
(* One thread at a time uses the adapter.                                  *)

(* A thread that is to be joined exists only while the loop goes back and  *)
(* forth between m_checkserver and m_serverError; it is the only one; and  *)
(* the flag is set whenever it is not being joined, so that m_serverError  *)
(* starts no second one.                                                   *)
BlinkInv ==
    /\ blinkers \subseteq {blinkFork}
    /\ blinkFork # 0 => fm \in {"m_checkserver", "m_serverError"}
    /\ blinkFork # 0 /\ joining = "none" => blinkState = 1
    /\ joining # "none" => blinkFork # 0
    /\ joining \in {"none", "m_serverok", "m_checkmissing"}

LEMMA BlinkInit == Init => BlinkInv
BY DEF Init, BlinkInv

LEMMA BlinkNext == ControlType /\ BlinkInv /\ [Next]_vars => BlinkInv'
<1> SUFFICES ASSUME ControlType, BlinkInv, [Next]_vars PROVE BlinkInv'
  OBVIOUS
(* A case without a thread: nothing can go wrong before the next one.      *)
<1>1. ASSUME blinkFork = 0, UNCHANGED blink PROVE BlinkInv'
  BY <1>1 DEF BlinkInv, blink
<1>2. ASSUME Ends PROVE BlinkInv'
  BY <1>2 DEF BlinkInv, Ends
<1>3. ASSUME UNCHANGED <<fm, blink>> PROVE BlinkInv'
  BY <1>3 DEF BlinkInv, blink
<1>4. ASSUME NEW s, At(s), s \notin {"m_checkserver", "m_serverError"}
      PROVE  blinkFork = 0
  BY <1>4 DEF At, BlinkInv
<1>5. ASSUME At("m_checkserver"), NEW next \in {"m_serverok", "m_checkmissing"},
             StopBlinkingThen(next)
      PROVE  BlinkInv'
  <2>1. CASE blinkFork = 0
    BY <1>1, <1>5, <2>1 DEF StopBlinkingThen
  <2>2. CASE blinkFork # 0
    BY <1>5, <2>2 DEF StopBlinkingThen, BlinkInv, At
  <2>3. QED
    BY <2>1, <2>2
<1>6. CASE Joined
  BY <1>6 DEF Joined, BlinkInv
<1>7. CASE ServerFound
  BY <1>5, <1>7 DEF ServerFound
<1>8. CASE ServerMissed
  BY <1>8 DEF ServerMissed, BlinkInv, blink, At
<1>9. CASE ServerError
  <2>1. CASE blinkState = 0
    <3>1. blinkFork = 0 /\ blinkers = {}
      BY <1>9, <2>1 DEF ServerError, At, BlinkInv, ControlType, Threads
    <3>2. QED
      BY <1>9, <2>1, <3>1 DEF ServerError, NewThread, At, BlinkInv
  <2>2. CASE blinkState # 0
    BY <1>9, <2>2 DEF ServerError, At, BlinkInv
  <2>3. QED
    BY <2>1, <2>2
<1>10. CASE BlinkerExits
  BY <1>10 DEF BlinkerExits, BlinkInv
<1>11. CASE ServerOk
  <2>1. blinkFork = 0
    BY <1>4, <1>11 DEF ServerOk
  <2>2. UNCHANGED blink
    BY <1>11, <2>1 DEF ServerOk, StopBlinkingThen
  <2>3. QED
    BY <1>1, <2>1, <2>2
<1>12. CASE AdapterError
  BY <1>1, <1>2, <1>4, <1>12 DEF AdapterError
<1>13. CASE ServerTimeCrashes \/ ResendCrashes \/ Killed
  BY <1>2, <1>13 DEF ServerTimeCrashes, ResendCrashes, Killed
<1>14. CASE Restarted
  BY <1>1, <1>14 DEF Restarted, BlinkInv
<1>15. CASE User \/ UNCHANGED vars
  BY <1>3, <1>15 DEF User, PutOn, TakeOff, Record, vars
<1>16. CASE Start \/ StartFails \/ AdapterFound \/ AdapterMute
            \/ SensorSeen \/ NoSensorSeen
  BY <1>1, <1>4, <1>16
     DEF Start, StartFails, AdapterFound, AdapterMute, SensorSeen, NoSensorSeen
<1>17. CASE ReadHeader \/ ReadImage \/ ReadImageFails
            \/ ReadyToDelete \/ NotReadyToDelete
  BY <1>1, <1>4, <1>17
     DEF ReadHeader, ReadImage, ReadImageFails, ReadyToDelete, NotReadyToDelete
<1>18. CASE Delete \/ DeleteFails \/ SetTime \/ BeepOk \/ SaveBlob
  BY <1>1, <1>4, <1>18 DEF Delete, DeleteFails, SetTime, BeepOk, SaveBlob
<1>19. CASE ResendRequest \/ NothingMissing \/ MissingUnanswered
  BY <1>1, <1>4, <1>19
     DEF ResendRequest, Resend, NothingMissing, MissingUnanswered
<1>20. CASE \E answered \in BOOLEAN :
               AdapterToPython(answered) \/ ServerTime(answered)
  BY <1>1, <1>4, <1>20 DEF AdapterToPython, ServerTime
<1>21. CASE \E sent : ParseDone(sent) \/ ParseFails(sent)
  BY <1>1, <1>4, <1>21 DEF ParseDone, ParseFails, Parse
<1>22. QED
  BY <1>6, <1>7, <1>8, <1>9, <1>10, <1>11, <1>12, <1>13, <1>14, <1>15, <1>16,
     <1>17, <1>18, <1>19, <1>20, <1>21
     DEF Next, LocalStep, DialogueStep, Transfer

LEMMA BlinkSuffices == ControlType /\ BlinkInv => AdapterExclusive
<1> SUFFICES ASSUME ControlType, BlinkInv, blinkers # {}
             PROVE  fm \notin AdapterStates /\ Cardinality(blinkers) = 1
  BY DEF AdapterExclusive
<1>1. blinkers = {blinkFork} /\ blinkFork # 0
  <2>1. PICK t \in blinkers : t \in Threads
    BY DEF ControlType
  <2>2. t = blinkFork /\ t # 0
    BY <2>1 DEF BlinkInv, Threads
  <2>3. QED
    BY <2>1, <2>2 DEF BlinkInv
<1>2. Cardinality(blinkers) = 1
  BY <1>1, FS_Singleton
<1>3. fm \notin AdapterStates
  BY <1>1 DEF BlinkInv, AdapterStates
<1>4. QED
  BY <1>2, <1>3

(* The blink thread and the main loop never use the adapter at the same    *)
(* time, though neither takes a lock: stop_blinking() joins the thread     *)
(* before the loop leaves m_checkserver.                                   *)
THEOREM AdapterIsExclusive == Spec => []AdapterExclusive
<1>1. QED
  BY ControlInit, ControlNext, BlinkInit, BlinkNext, BlinkSuffices, PTL DEF Spec

-----------------------------------------------------------------------------
(* The database, the sensors and the server keep their types.              *)

LEMMA RowsOfRaw ==
    ASSUME WorldType, NEW id \in Rows
    PROVE  /\ raw[id].evs \subseteq Recorded
           /\ raw[id].firstfree \in Nat
           /\ raw[id].tok \in {0, 1}
<1>1. raw[id] \in Row
  BY ElementOfSeq DEF WorldType, Rows
<1>2. QED
  BY <1>1 DEF Row

LEMMA LengthOfRaw == WorldType => Len(raw) \in Nat
BY LenProperties DEF WorldType

LEMMA SensorOfType ==
    ASSUME WorldType, NEW id
    PROVE  SensorOf(id) \in Sensors \union {NoSensor}
<1>1. CASE \E i \in DOMAIN repx : repx[i].syn = id
  <2> DEFINE k == CHOOSE i \in DOMAIN repx : repx[i].syn = id
  <2>1. k \in DOMAIN repx
    BY <1>1
  <2>2. repx[k] \in Entry
    BY <2>1, LenProperties, ElementOfSeq DEF WorldType
  <2>3. repx[k].pes \in Sensors \union {NoSensor}
    BY <2>2 DEF Entry
  <2>4. QED
    BY <1>1, <2>3 DEF SensorOf
<1>2. CASE ~ \E i \in DOMAIN repx : repx[i].syn = id
  BY <1>2 DEF SensorOf
<1>3. QED
  BY <1>1, <1>2

LEMMA MemorySizeType ==
    ASSUME WorldType, NEW s \in Sensors
    PROVE  IsFiniteSet(pes[s]) /\ Cardinality(pes[s]) \in Nat
<1>1. Len(recordedBy) \in Nat /\ pes[s] \subseteq Recorded
  BY LenProperties DEF WorldType
<1>2. IsFiniteSet(Recorded)
  BY <1>1, FS_Interval DEF Recorded
<1>3. QED
  BY <1>1, <1>2, FS_Subset, FS_CardinalityType

LEMMA WorldInit == Init => WorldType
<1> SUFFICES ASSUME Init PROVE WorldType
  OBVIOUS
<1>1. raw \in Seq(Row) /\ repx \in Seq(Entry) /\ recordedBy \in Seq(Sensors)
  BY EmptySeq DEF Init
<1>2. QED
  BY <1>1 DEF Init, WorldType

LEMMA MemoryInit == Init => MemoryType
<1> SUFFICES ASSUME Init PROVE MemoryType
  OBVIOUS
<1>1. isResend \in BOOLEAN
  BY Zenon DEF Init
<1>2. fts \in Seq(Entry)
  BY EmptySeq DEF Init
<1>3. QED
  BY <1>1, <1>2 DEF Init, MemoryType, NoId

(* What a parse appends and sends.                                         *)
LEMMA ParseTypes ==
    ASSUME MemoryType, WorldType, NEW sent, sent \subseteq Parsed, Parse(sent),
           UNCHANGED recordedBy
    PROVE  fts' \in Seq(Entry) /\ server' \subseteq Message'
<1>1. [syn |-> idSyn, pes |-> serial] \in Entry
  BY DEF MemoryType, Entry
<1>2. Append(fts, [syn |-> idSyn, pes |-> serial]) \in Seq(Entry)
  BY <1>1, AppendProperties DEF MemoryType
<1>3. sent \subseteq Recorded
  BY OldestSubset DEF Parsed, MemoryType
<1>4. [syn |-> idSyn, pes |-> serial, evs |-> sent] \in Message
  BY <1>3 DEF Message, MemoryType
<1>5. Message' = Message
  BY DEF Message, Recorded
<1>6. fts' \in Seq(Entry)
  BY <1>2 DEF Parse, MemoryType
<1>7. server' \subseteq Message
  BY <1>4 DEF Parse, WorldType
<1>8. QED
  BY <1>5, <1>6, <1>7

(* Only the users record, and only the dialogue with the server parses.    *)
LEMMA ParsedOnly ==
    ASSUME Transfer
    PROVE  \E sent \in SUBSET Parsed : ParseDone(sent) \/ ParseFails(sent)
BY DEF Transfer

LEMMA WorldNext == MemoryType /\ WorldType /\ [Next]_vars => WorldType'
<1> SUFFICES ASSUME MemoryType, WorldType, [Next]_vars PROVE WorldType'
  OBVIOUS
<1>1. ASSUME UNCHANGED <<database, world, server>> PROVE WorldType'
  BY <1>1 DEF WorldType, database, world, Row, Entry, Message, Recorded
<1>2. ASSUME pes' \in [Sensors -> SUBSET Recorded],
             UNCHANGED <<database, probe, recordedBy, server>>
      PROVE  WorldType'
  BY <1>2 DEF WorldType, database, Row, Entry, Message, Recorded
<1>3. ASSUME raw' \in Seq(Row), repx' \in Seq(Entry),
             server' \subseteq Message', UNCHANGED world
      PROVE  WorldType'
  BY <1>3 DEF WorldType, world, Row, Entry, Recorded
<1>4. CASE Delete \/ DeleteFails
  <2>1. pes' \in [Sensors -> SUBSET Recorded]
    BY <1>4 DEF Delete, DeleteFails, WorldType
  <2>2. QED
    BY <1>2, <1>4, <2>1 DEF Delete, DeleteFails
<1>5. CASE SaveBlob
  <2>1. Stored(buf) \subseteq Recorded
    BY OldestSubset DEF Stored, MemoryType
  <2>2. [evs |-> Stored(buf), firstfree |-> firstfree, tok |-> 0] \in Row
    BY <2>1 DEF Row, MemoryType
  <2>3. raw' \in Seq(Row)
    <3>1. Append(raw, [evs |-> Stored(buf), firstfree |-> firstfree, tok |-> 0])
             \in Seq(Row)
      BY <2>2, AppendProperties DEF WorldType
    <3>2. QED
      BY <1>5, <3>1 DEF SaveBlob, WorldType
  <2>4. Message' = Message
    BY <1>5 DEF SaveBlob, Message, Recorded, world
  <2>5. QED
    BY <1>3, <1>5, <2>3, <2>4 DEF SaveBlob, WorldType
<1>6. ASSUME NEW sent \in SUBSET Parsed, ParseDone(sent) PROVE WorldType'
  <2>1. fts' \in Seq(Entry) /\ server' \subseteq Message'
    BY <1>6, ParseTypes DEF ParseDone, world
  <2>2. raw' \in Seq(Row)
    <3>1. CASE dbopen = 1 /\ evtSyn \in Rows
      <4>1. raw[evtSyn] \in Row
        BY <3>1, ElementOfSeq DEF WorldType, Rows
      <4>2. [raw[evtSyn] EXCEPT !.tok = 1] \in Row
        BY <4>1 DEF Row
      <4>3. raw' = [raw EXCEPT ![evtSyn] = [raw[evtSyn] EXCEPT !.tok = 1]]
        BY <1>6, <3>1 DEF ParseDone
      <4>4. QED
        BY <3>1, <4>2, <4>3, ExceptSeq DEF WorldType, Rows
    <3>2. CASE ~(dbopen = 1 /\ evtSyn \in Rows)
      BY <1>6, <3>2 DEF ParseDone, WorldType
    <3>3. QED
      BY <3>1, <3>2
  <2>3. repx' \in Seq(Entry)
    BY <1>6, <2>1, ConcatProperties DEF ParseDone, WorldType
  <2>4. QED
    BY <1>3, <1>6, <2>1, <2>2, <2>3 DEF ParseDone
<1>7. ASSUME NEW sent \in SUBSET Parsed, ParseFails(sent) PROVE WorldType'
  <2>1. server' \subseteq Message'
    BY <1>7, ParseTypes DEF ParseFails, world
  <2>2. QED
    BY <1>3, <1>7, <2>1 DEF ParseFails, WorldType, database
<1>8. CASE Transfer
  BY <1>6, <1>7, <1>8, ParsedOnly
<1>9. CASE TakeOff \/ \E s \in Sensors : PutOn(s)
  BY <1>9
     DEF TakeOff, PutOn, WorldType, database, Row, Entry, Message, Recorded
<1>10. ASSUME NEW s \in Sensors, Record(s) PROVE WorldType'
  <2>1. /\ recordedBy' \in Seq(Sensors)
        /\ Len(recordedBy') = Len(recordedBy) + 1
        /\ Len(recordedBy) \in Nat
    BY <1>10, AppendProperties, LenProperties DEF Record, WorldType
  <2>2. /\ Recorded \subseteq Recorded'
        /\ Len(recordedBy) + 1 \in Recorded'
    BY <2>1 DEF Recorded
  <2>3. Row \subseteq Row' /\ Message \subseteq Message' /\ Entry' = Entry
    BY <2>2 DEF Row, Message, Entry
  <2>4. raw' \in Seq(Row')
    BY <1>10, <2>3, SeqMonotonic DEF Record, WorldType, database
  <2>5. pes' \in [Sensors -> SUBSET Recorded']
    BY <1>10, <2>2 DEF Record, WorldType
  <2>6. QED
    BY <1>10, <2>1, <2>3, <2>4, <2>5 DEF Record, WorldType, database
<1>11. CASE Start \/ StartFails \/ Joined \/ ServerError \/ ServerOk
            \/ AdapterFound \/ AdapterMute \/ SensorSeen \/ NoSensorSeen
  BY <1>1, <1>11 DEF Start, StartFails, Joined, ServerError, ServerOk,
     AdapterFound, AdapterMute, SensorSeen, NoSensorSeen
<1>12. CASE ReadHeader \/ ReadImage \/ ReadImageFails \/ ReadyToDelete
            \/ NotReadyToDelete \/ SetTime \/ BeepOk
  BY <1>1, <1>12 DEF ReadHeader, ReadImage, ReadImageFails, ReadyToDelete,
     NotReadyToDelete, SetTime, BeepOk
<1>13. CASE ServerFound \/ ServerMissed \/ ResendRequest \/ NothingMissing
            \/ MissingUnanswered \/ AdapterError \/ ServerTimeCrashes \/ ResendCrashes
  BY <1>1, <1>13 DEF ServerFound, ServerMissed, ResendRequest, Resend,
     NothingMissing, MissingUnanswered, AdapterError, ServerTimeCrashes, ResendCrashes
<1>14. CASE \E answered \in BOOLEAN :
               AdapterToPython(answered) \/ ServerTime(answered)
  BY <1>1, <1>14 DEF AdapterToPython, ServerTime
<1>15. CASE BlinkerExits \/ Killed \/ Restarted \/ UNCHANGED vars
  BY <1>1, <1>15 DEF BlinkerExits, Killed, Restarted, vars
<1>16. QED
  BY <1>4, <1>5, <1>8, <1>9, <1>10, <1>11, <1>12, <1>13, <1>14, <1>15
     DEF Next, LocalStep, DialogueStep, User

(* The program's memory keeps its type.                                    *)
LEMMA MemoryNext ==
    MemoryType /\ WorldType /\ [Next]_vars => MemoryType'
<1> SUFFICES ASSUME MemoryType, WorldType, [Next]_vars PROVE MemoryType'
  OBVIOUS
<1>1. ASSUME UNCHANGED <<dbopen, sending, image, recordedBy>> PROVE MemoryType'
  BY <1>1 DEF MemoryType, sending, image, Entry, Recorded
<1>2. ASSUME UNCHANGED <<dbopen, sending, recordedBy>>,
             firstfree' \in Nat, serial' \in Sensors \union {NoSensor},
             buf' \subseteq Recorded
      PROVE  MemoryType'
  BY <1>2 DEF MemoryType, sending, Entry, Recorded
<1>3. ASSUME UNCHANGED recordedBy,
             dbopen' \in {0, 1}, idSyn' \in Int, evtSyn' \in Nat,
             isResend' \in BOOLEAN, fts' \in Seq(Entry),
             firstfree' \in Nat, serial' \in Sensors \union {NoSensor},
             buf' \subseteq Recorded
      PROVE  MemoryType'
  BY <1>3 DEF MemoryType, Entry, Recorded
<1>4. CASE Start
  <2>1. evtSyn' \in Nat
    BY <1>4, LengthOfRaw DEF Start, MemoryType
  <2>2. firstfree' \in Nat
    <3>1. CASE iAdaErr > 0 \/ raw = <<>>
      BY <1>4, <3>1 DEF Start, MemoryType
    <3>2. CASE ~(iAdaErr > 0) /\ raw # <<>>
      <4>1. Len(raw) \in Rows
        BY <3>2, EmptySeq DEF WorldType, Rows
      <4>2. QED
        BY <1>4, <3>2, <4>1, RowsOfRaw DEF Start
    <3>3. QED
      BY <3>1, <3>2
  <2>3. dbopen' \in {0, 1}
    BY <1>4 DEF Start, MemoryType
  <2>4. isResend' \in BOOLEAN
    BY <1>4 DEF Start, MemoryType
  <2>5. QED
    BY <1>3, <1>4, <2>1, <2>2, <2>3, <2>4 DEF Start, MemoryType, world
<1>5. ASSUME NEW id \in Rows, Resend(id) PROVE MemoryType'
  <2>1. isResend' \in BOOLEAN
    BY <1>5, Zenon DEF Resend
  <2>2. firstfree' \in Nat /\ buf' \subseteq Recorded
    BY <1>5, RowsOfRaw DEF Resend, ImageOf, MemoryType
  <2>3. serial' \in Sensors \union {NoSensor}
    BY <1>5, SensorOfType DEF Resend
  <2>4. idSyn' \in Int
    BY <1>5, LengthOfRaw DEF Resend, Rows
  <2>5. UNCHANGED <<recordedBy, dbopen, evtSyn, fts>>
    BY <1>5 DEF Resend, world
  <2>6. QED
    BY <1>3, <2>1, <2>2, <2>3, <2>4, <2>5 DEF MemoryType
<1>6. CASE NothingMissing \/ MissingUnanswered
  <2>1. isResend' \in BOOLEAN
    BY <1>6, Zenon DEF NothingMissing, MissingUnanswered
  <2>2. idSyn' \in Int
    BY <1>6 DEF NothingMissing, MissingUnanswered, MemoryType
  <2>3. UNCHANGED <<recordedBy, dbopen, evtSyn, fts, image>>
    BY <1>6 DEF NothingMissing, MissingUnanswered, world
  <2>4. QED
    BY <1>3, <2>1, <2>2, <2>3 DEF MemoryType, image
<1>7. CASE ReadHeader
  <2>1. firstfree' \in Nat
    BY <1>7, MemorySizeType DEF ReadHeader, MemoryType, WorldType
  <2>2. serial' \in Sensors \union {NoSensor}
    BY <1>7 DEF ReadHeader, SerialRead, MemoryType, WorldType
  <2>3. QED
    BY <1>2, <1>7, <2>1, <2>2 DEF ReadHeader, MemoryType, world
<1>8. CASE ReadImage
  <2>1. pes[probe] \subseteq Recorded
    BY <1>8 DEF ReadImage, WorldType
  <2>2. buf' \subseteq pes[probe]
    BY <1>8, OldestSubset DEF ReadImage
  <2>3. QED
    BY <1>2, <1>8, <2>1, <2>2 DEF ReadImage, MemoryType, world
<1>9. CASE ReadImageFails
  BY <1>2, <1>9 DEF ReadImageFails, MemoryType, world
<1>10. CASE SaveBlob
  <2>1. idSyn' \in Int /\ evtSyn' \in Nat
    <3>1. CASE dbopen = 1
      <4>1. [evs |-> Stored(buf), firstfree |-> firstfree, tok |-> 0] \in Row
        BY OldestSubset DEF Stored, Row, MemoryType
      <4>2. Len(raw') \in Nat
        BY <1>10, <3>1, <4>1, AppendProperties, LengthOfRaw
           DEF SaveBlob, WorldType
      <4>3. QED
        BY <1>10, <3>1, <4>2 DEF SaveBlob, NewRow
    <3>2. CASE dbopen # 1
      BY <1>10, <3>2 DEF SaveBlob, NoId, MemoryType
    <3>3. QED
      BY <3>1, <3>2
  <2>2. fts' \in Seq(Entry)
    BY <1>10, EmptySeq DEF SaveBlob
  <2>3. UNCHANGED <<recordedBy, dbopen, isResend, image>>
    BY <1>10 DEF SaveBlob, world
  <2>4. isResend' \in BOOLEAN
    BY <2>3 DEF MemoryType
  <2>5. QED
    BY <1>3, <2>1, <2>2, <2>3, <2>4 DEF MemoryType, image
<1>11. ASSUME NEW sent \in SUBSET Parsed, ParseDone(sent) \/ ParseFails(sent)
       PROVE  MemoryType'
  <2>1. UNCHANGED <<recordedBy, dbopen, idSyn, evtSyn, isResend, image>>
    BY <1>11 DEF ParseDone, ParseFails, world
  <2>2. fts' \in Seq(Entry)
    BY <1>11, <2>1, ParseTypes DEF ParseDone, ParseFails
  <2>3. isResend' \in BOOLEAN
    BY <2>1 DEF MemoryType
  <2>4. QED
    BY <1>3, <2>1, <2>2, <2>3 DEF MemoryType, image
<1>12. CASE Transfer
  BY <1>11, <1>12, ParsedOnly
<1>13. CASE Restarted
  <2>1. isResend' \in BOOLEAN
    BY <1>13, Zenon DEF Restarted
  <2>2. fts' \in Seq(Entry)
    BY <1>13, EmptySeq DEF Restarted
  <2>3. /\ dbopen' \in {0, 1} /\ idSyn' \in Int /\ evtSyn' \in Nat
        /\ firstfree' \in Nat /\ serial' \in Sensors \union {NoSensor}
        /\ buf' \subseteq Recorded /\ UNCHANGED recordedBy
    BY <1>13 DEF Restarted, NoId, world
  <2>4. QED
    BY <1>3, <2>1, <2>2, <2>3
<1>14. ASSUME NEW s \in Sensors, Record(s) PROVE MemoryType'
  <2>1. Recorded \subseteq Recorded'
    <3>1. Len(recordedBy') = Len(recordedBy) + 1 /\ Len(recordedBy) \in Nat
      BY <1>14, AppendProperties, LenProperties DEF Record, WorldType
    <3>2. QED
      BY <3>1 DEF Recorded
  <2>2. UNCHANGED <<dbopen, sending, image>>
    BY <1>14 DEF Record
  <2>3. QED
    BY <2>1, <2>2 DEF MemoryType, sending, image, Entry
<1>15. CASE TakeOff \/ \E s \in Sensors : PutOn(s)
  BY <1>1, <1>15 DEF TakeOff, PutOn
<1>16. CASE StartFails \/ Joined \/ ServerError \/ ServerOk
            \/ AdapterFound \/ AdapterMute \/ SensorSeen \/ NoSensorSeen
  BY <1>1, <1>16 DEF StartFails, Joined, ServerError, ServerOk, AdapterFound,
     AdapterMute, SensorSeen, NoSensorSeen, world
<1>17. CASE ReadyToDelete \/ NotReadyToDelete \/ Delete \/ DeleteFails
            \/ SetTime \/ BeepOk
  BY <1>1, <1>17 DEF ReadyToDelete, NotReadyToDelete, Delete, DeleteFails,
     SetTime, BeepOk, world
<1>18. CASE ServerFound \/ ServerMissed \/ AdapterError \/ ServerTimeCrashes \/ ResendCrashes
  BY <1>1, <1>18
     DEF ServerFound, ServerMissed, AdapterError, ServerTimeCrashes, ResendCrashes, world
<1>19. CASE \E answered \in BOOLEAN :
               AdapterToPython(answered) \/ ServerTime(answered)
  BY <1>1, <1>19 DEF AdapterToPython, ServerTime, world
<1>20. CASE BlinkerExits \/ Killed \/ UNCHANGED vars
  BY <1>1, <1>20 DEF BlinkerExits, Killed, vars, world
<1>21. QED
  BY <1>4, <1>5, <1>6, <1>7, <1>8, <1>9, <1>10, <1>12, <1>13, <1>14, <1>15,
     <1>16, <1>17, <1>18, <1>19, <1>20
     DEF Next, LocalStep, DialogueStep, ResendRequest, User

(* Every variable keeps its type, whatever the hazards.                    *)
THEOREM TypeCorrect == Spec => []TypeOK
<1>1. Init => TypeOK
  BY ControlInit, MemoryInit, WorldInit DEF TypeOK
<1>2. TypeOK /\ [Next]_vars => TypeOK'
  BY ControlNext, MemoryNext, WorldNext DEF TypeOK
<1>3. QED
  BY <1>1, <1>2, PTL DEF Spec

-----------------------------------------------------------------------------
(* A message says what the row of its number says.                         *)

(* Unless the adapter is down when the process starts, the loop never      *)
(* leaves m_start without a database.                                      *)
DbInv == dbopen = 0 => fm = "down" \/ (fm = "m_start" /\ iAdaErr = 0)

LEMMA DbInit == Init => DbInv
BY DEF Init, DbInv

LEMMA DbNext ==
    ASSUME "adapterdown" \notin Hazards
    PROVE  BlinkInv /\ DbInv /\ [Next]_vars => DbInv'
<1> SUFFICES ASSUME BlinkInv, DbInv, [Next]_vars PROVE DbInv'
  OBVIOUS
<1>1. ASSUME UNCHANGED <<fm, dbopen, iAdaErr>> PROVE DbInv'
  BY <1>1 DEF DbInv
<1>2. ASSUME NEW s, At(s), s \notin {"m_start", "down"}, UNCHANGED dbopen
      PROVE  DbInv'
  BY <1>2 DEF At, DbInv
<1>3. ASSUME Ends PROVE DbInv'
  BY <1>3 DEF Ends, DbInv
<1>4. CASE Start
  BY <1>4 DEF Start, At, DbInv
<1>5. CASE StartFails
  BY <1>5 DEF StartFails, At, DbInv
<1>6. CASE Joined
  <2>1. fm \in {"m_checkserver", "m_serverError"}
    BY <1>6 DEF Joined, BlinkInv
  <2>2. QED
    BY <1>6, <2>1 DEF Joined, DbInv
<1>7. CASE Restarted
  BY <1>7 DEF Restarted, DbInv
<1>8. CASE BlinkerExits \/ User \/ UNCHANGED vars
  BY <1>1, <1>8
     DEF BlinkerExits, User, PutOn, TakeOff, Record, vars, counters
<1>9. CASE ServerTimeCrashes \/ ResendCrashes \/ Killed
  BY <1>3, <1>9 DEF ServerTimeCrashes, ResendCrashes, Killed
<1>10. CASE ServerFound \/ ServerMissed \/ ServerError \/ ServerOk
            \/ AdapterError
  BY <1>2, <1>10
     DEF ServerFound, ServerMissed, ServerError, ServerOk, AdapterError
<1>11. CASE ResendRequest \/ NothingMissing \/ MissingUnanswered
  BY <1>2, <1>11
     DEF ResendRequest, Resend, NothingMissing, MissingUnanswered
<1>12. CASE \E answered \in BOOLEAN :
               AdapterToPython(answered) \/ ServerTime(answered)
  BY <1>2, <1>12 DEF AdapterToPython, ServerTime
<1>13. CASE AdapterFound \/ AdapterMute \/ SensorSeen \/ NoSensorSeen
  BY <1>2, <1>13 DEF AdapterFound, AdapterMute, SensorSeen, NoSensorSeen
<1>14. CASE ReadHeader \/ ReadImage \/ ReadImageFails
            \/ ReadyToDelete \/ NotReadyToDelete
  BY <1>2, <1>14
     DEF ReadHeader, ReadImage, ReadImageFails, ReadyToDelete, NotReadyToDelete
<1>15. CASE Delete \/ DeleteFails \/ SetTime \/ BeepOk \/ SaveBlob
  BY <1>2, <1>15 DEF Delete, DeleteFails, SetTime, BeepOk, SaveBlob
<1>16. CASE \E sent : ParseDone(sent) \/ ParseFails(sent)
  BY <1>2, <1>16 DEF ParseDone, ParseFails, Parse
<1>17. QED
  BY <1>4, <1>5, <1>6, <1>7, <1>8, <1>9, <1>10, <1>11, <1>12, <1>13, <1>14,
     <1>15, <1>16
     DEF Next, LocalStep, DialogueStep, Transfer

(* Few events fit any blob.                                                *)
LEMMA StoredWhole ==
    ASSUME MaxEvents <= BLOBSIZE, Len(recordedBy) \in Nat,
           Len(recordedBy) <= MaxEvents, NEW S, S \subseteq Recorded
    PROVE  Stored(S) = S
<1>1. ASSUME NEW e \in S PROVE Cardinality({f \in S : f < e}) < BLOBSIZE
  <2>1. e \in Nat /\ 1 <= e /\ e <= Len(recordedBy)
    BY DEF Recorded
  <2>2. IsFiniteSet(1 .. e - 1) /\ Cardinality(1 .. e - 1) = e - 1
    <3> DEFINE d == e - 1
    <3>1. 1 \in Int /\ d \in Int /\ d >= 0
      BY <2>1
    <3> HIDE DEF d
    <3>2. IsFiniteSet(1 .. d)
          /\ Cardinality(1 .. d) = IF 1 > d THEN 0 ELSE d - 1 + 1
      BY <3>1, FS_Interval, Zenon
    <3>3. Cardinality(1 .. d) = d
      BY <3>1, <3>2
    <3>4. QED
      BY <3>2, <3>3 DEF d
  <2> DEFINE T == {f \in S : f < e}
  <2>3. T \in SUBSET (1 .. e - 1)
    <3>1. ASSUME NEW f \in T PROVE f \in 1 .. e - 1
      <4>1. f \in 1 .. Len(recordedBy) /\ f < e
        BY DEF Recorded
      <4>2. QED
        BY <2>1, <4>1
    <3>2. QED
      BY <3>1, Zenon
  <2> HIDE DEF T
  <2>4. IsFiniteSet(T) /\ Cardinality(T) <= e - 1
    BY <2>2, <2>3, FS_Subset
  <2>5. Cardinality(T) \in Nat
    BY <2>4, FS_CardinalityType
  <2>6. Cardinality(T) < BLOBSIZE
    BY <2>1, <2>4, <2>5, BoundsAssumption, LimitsAssumption
  <2>7. QED
    BY <2>6 DEF T
<1>2. QED
  BY <1>1 DEF Stored, Oldest

(* Numbers beyond the last row are not in use yet, and what is about to be *)
(* sent under a number is what its row holds.                              *)
MatchInv ==
    /\ Len(recordedBy) <= MaxEvents
    /\ idSyn <= Len(raw)
    /\ \A m \in server : m.syn <= Len(raw)
    /\ fm = "m_parsedata" /\ idSyn \in Rows => buf \subseteq raw[idSyn].evs
    /\ MessagesMatchRows

LEMMA MatchInit == Init => MatchInv
<1> SUFFICES ASSUME Init PROVE MatchInv
  OBVIOUS
<1>1. Len(recordedBy) = 0 /\ Len(raw) = 0
  BY EmptySeq DEF Init
<1>2. QED
  BY <1>1, BoundsAssumption DEF Init, MatchInv, MessagesMatchRows, NoId

(* A transfer that brings part of the image keeps the invariant, as long   *)
(* as the rows keep their events.                                          *)
LEMMA MatchParse ==
    ASSUME TypeOK, MatchInv, NEW sent \in SUBSET Parsed, Parse(sent),
           Len(raw') = Len(raw),
           \A id \in Rows : raw'[id].evs = raw[id].evs,
           UNCHANGED <<idSyn, buf, recordedBy>>
    PROVE  MatchInv'
<1>1. Rows' = Rows /\ sent \subseteq buf
  BY OldestSubset DEF Rows, Parsed
<1>2. fm = "m_parsedata"
  BY DEF Parse, At
<1>3. idSyn \in Rows => buf \subseteq raw[idSyn].evs
  BY <1>2 DEF MatchInv
<1>4. \/ server' = server
      \/ server' = server \union {[syn |-> idSyn, pes |-> serial, evs |-> sent]}
  BY DEF Parse
<1>5. ASSUME NEW m \in server'
      PROVE  /\ m.syn <= Len(raw)
             /\ m.syn \in Rows => m.evs \subseteq raw[m.syn].evs
  <2>1. CASE m \in server
    BY <2>1 DEF MatchInv, MessagesMatchRows
  <2>2. CASE m = [syn |-> idSyn, pes |-> serial, evs |-> sent]
    BY <1>1, <1>3, <2>2 DEF MatchInv
  <2>3. QED
    BY <1>4, <2>1, <2>2
<1>6. idSyn' \in Rows' => buf' \subseteq raw'[idSyn'].evs
  BY <1>1, <1>3
<1>7. MessagesMatchRows'
  BY <1>1, <1>5 DEF MessagesMatchRows
<1>8. QED
  BY <1>5, <1>6, <1>7 DEF MatchInv

LEMMA MatchNext ==
    ASSUME MaxEvents <= BLOBSIZE
    PROVE  /\ TypeOK /\ TypeOK' /\ BlinkInv /\ DbInv /\ MatchInv
           /\ [Next]_vars
           => MatchInv'
<1> SUFFICES ASSUME TypeOK, TypeOK', BlinkInv, DbInv, MatchInv, [Next]_vars
             PROVE  MatchInv'
  OBVIOUS
<1>1. Len(raw) \in Nat /\ Len(recordedBy) \in Nat
  BY LenProperties DEF TypeOK, WorldType
(* Steps that do not lead to a transfer.                                   *)
<1>2. ASSUME fm' # "m_parsedata", idSyn' <= Len(raw),
             UNCHANGED <<raw, recordedBy, server>>
      PROVE  MatchInv'
  BY <1>2 DEF MatchInv, MessagesMatchRows, Rows
<1>3. ASSUME UNCHANGED <<fm, idSyn, buf, raw, recordedBy, server>>
      PROVE  MatchInv'
  BY <1>3 DEF MatchInv, MessagesMatchRows, Rows
<1>4. idSyn <= Len(raw)
  BY DEF MatchInv
<1>5. ASSUME NEW id \in Rows, Resend(id) PROVE MatchInv'
  <2>1. dbopen = 1
    BY <1>5 DEF Resend, At, DbInv, TypeOK, MemoryType
  <2>2. idSyn' = id /\ buf' = raw[id].evs
    BY <1>5, <2>1 DEF Resend, ImageOf
  <2>3. UNCHANGED <<raw, recordedBy, server>>
    BY <1>5 DEF Resend, database, world
  <2>4. id <= Len(raw)
    BY <1>1 DEF Rows
  <2>5. QED
    BY <2>2, <2>3, <2>4 DEF MatchInv, MessagesMatchRows, Rows
<1>6. CASE NothingMissing \/ MissingUnanswered
  BY <1>1, <1>2, <1>4, <1>6
     DEF NothingMissing, MissingUnanswered, database, world
<1>7. CASE SaveBlob
  <2> DEFINE row == [evs |-> Stored(buf), firstfree |-> firstfree, tok |-> 0]
  <2>1. dbopen = 1
    BY <1>7 DEF SaveBlob, At, DbInv, TypeOK, MemoryType
  <2>2. Stored(buf) = buf
    BY <1>1, StoredWhole DEF MatchInv, TypeOK, MemoryType
  <2>3. row \in Row
    BY <2>2 DEF TypeOK, MemoryType, Row
  <2>4. raw' = Append(raw, row)
    BY <1>7, <2>1 DEF SaveBlob
  <2>5. /\ Len(raw') = Len(raw) + 1
        /\ \A id \in Rows : raw'[id] = raw[id]
        /\ raw'[Len(raw) + 1] = row
    BY <2>3, <2>4, AppendProperties DEF TypeOK, WorldType, Rows
  <2>6. idSyn' = Len(raw) + 1 /\ UNCHANGED <<buf, recordedBy, server>>
    BY <1>7, <2>1, <2>5 DEF SaveBlob, image, world
  <2>7. raw'[idSyn'].evs = buf'
    BY <2>2, <2>5, <2>6
  <2>8. \A m \in server : m.syn <= Len(raw)
    BY DEF MatchInv
  <2>9. ASSUME NEW m \in server', m.syn \in Rows'
        PROVE  m.evs \subseteq raw'[m.syn].evs
    <3>1. m \in server /\ m.syn <= Len(raw)
      BY <2>6, <2>8, <2>9
    <3>2. m.syn \in Rows
      BY <1>1, <2>5, <2>9, <3>1 DEF Rows
    <3>3. QED
      BY <2>5, <3>1, <3>2 DEF MatchInv, MessagesMatchRows
  <2>10. \A m \in server' : m.syn <= Len(raw')
    <3>1. \A m \in server : m.syn \in Int
      BY DEF TypeOK, WorldType, Message
    <3>2. QED
      BY <1>1, <2>5, <2>6, <2>8, <3>1
  <2>11. QED
    BY <1>1, <2>5, <2>6, <2>7, <2>9, <2>10 DEF MatchInv, MessagesMatchRows
<1>8. ASSUME NEW sent \in SUBSET Parsed, ParseDone(sent) PROVE MatchInv'
  <2>1. UNCHANGED <<idSyn, buf, recordedBy>>
    BY <1>8 DEF ParseDone, image, world
  <2>2. /\ Len(raw') = Len(raw)
        /\ \A id \in Rows : raw'[id].evs = raw[id].evs
    <3>1. CASE dbopen = 1 /\ evtSyn \in Rows
      <4>1. raw' = [raw EXCEPT ![evtSyn].tok = 1]
        BY <1>8, <3>1 DEF ParseDone
      <4>2. raw \in [Rows -> Row]
        BY LenProperties DEF TypeOK, WorldType, Rows
      <4>3. raw \in [Rows -> Row] /\ raw' \in Seq(Row')
        BY <4>2 DEF TypeOK, WorldType
      <4>4. DOMAIN raw' = 1 .. Len(raw') /\ Len(raw') \in Nat
        BY <4>3, LenProperties
      <4>5. DOMAIN raw' = 1 .. Len(raw)
        BY <4>1, <4>2 DEF Rows
      <4>6. Len(raw') = Len(raw)
        BY <1>1, <4>4, <4>5
      <4>7. ASSUME NEW id \in Rows PROVE raw'[id].evs = raw[id].evs
        <5>1. raw[id] \in Row
          BY <4>2
        <5>2. QED
          BY <4>1, <4>2, <5>1 DEF Row
      <4>8. QED
        BY <4>6, <4>7
    <3>2. CASE ~(dbopen = 1 /\ evtSyn \in Rows)
      BY <1>8, <3>2 DEF ParseDone
    <3>3. QED
      BY <3>1, <3>2
  <2>3. QED
    BY <1>8, <2>1, <2>2, MatchParse DEF ParseDone
<1>9. ASSUME NEW sent \in SUBSET Parsed, ParseFails(sent) PROVE MatchInv'
  BY <1>9, MatchParse DEF ParseFails, image, database, world
<1>10. CASE Transfer
  BY <1>8, <1>9, <1>10, ParsedOnly
<1>11. ASSUME NEW s \in Sensors, Record(s) PROVE MatchInv'
  <2>1. Len(recordedBy') = Len(recordedBy) + 1
    BY <1>11, AppendProperties DEF Record, TypeOK, WorldType
  <2>2. Len(recordedBy') <= MaxEvents
    BY <1>1, <1>11, <2>1, BoundsAssumption DEF Record
  <2>3. UNCHANGED <<fm, idSyn, buf, raw, server>>
    BY <1>11 DEF Record, sending, image, database
  <2>4. QED
    BY <2>2, <2>3 DEF MatchInv, MessagesMatchRows, Rows
<1>12. CASE TakeOff \/ \E s \in Sensors : PutOn(s)
  BY <1>3, <1>12 DEF TakeOff, PutOn, sending, image, database
<1>13. CASE Start \/ StartFails
  BY <1>2, <1>4, <1>13
     DEF Start, StartFails, sending, database, world
<1>14. CASE Joined
  BY <1>2, <1>4, <1>14 DEF Joined, BlinkInv, sending, database, world
<1>15. CASE ServerMissed \/ ServerError \/ AdapterFound \/ AdapterMute
            \/ SensorSeen \/ NoSensorSeen
  BY <1>2, <1>4, <1>15
     DEF ServerMissed, ServerError, AdapterFound, AdapterMute, SensorSeen,
         NoSensorSeen, At, sending, database, world
<1>16. CASE ServerFound \/ ServerOk
  <2>1. fm' # "m_parsedata"
    BY <1>16 DEF ServerFound, ServerOk, StopBlinkingThen, At
  <2>2. QED
    BY <1>2, <1>4, <1>16, <2>1
       DEF ServerFound, ServerOk, sending, database, world
<1>17. CASE ReadHeader \/ ReadImage \/ ReadImageFails \/ ReadyToDelete
            \/ NotReadyToDelete
  <2>1. fm' # "m_parsedata"
    BY <1>17 DEF ReadHeader, ReadImage, ReadImageFails, AfterFailedRead,
       ReadyToDelete, NotReadyToDelete, At
  <2>2. QED
    BY <1>2, <1>4, <1>17, <2>1
       DEF ReadHeader, ReadImage, ReadImageFails, ReadyToDelete,
           NotReadyToDelete, sending, database, world
<1>18. CASE Delete \/ DeleteFails \/ SetTime \/ BeepOk
  BY <1>2, <1>4, <1>18
     DEF Delete, DeleteFails, SetTime, BeepOk, At, sending, database, world
<1>19. CASE AdapterError \/ ServerTimeCrashes \/ ResendCrashes \/ Killed
  BY <1>2, <1>4, <1>19
     DEF AdapterError, ServerTimeCrashes, ResendCrashes, Killed, Ends, sending, database,
         world
<1>20. CASE \E answered \in BOOLEAN :
               AdapterToPython(answered) \/ ServerTime(answered)
  BY <1>2, <1>4, <1>20
     DEF AdapterToPython, ServerTime, sending, database, world
<1>21. CASE Restarted
  BY <1>1, <1>2, <1>21 DEF Restarted, NoId, database, world
<1>22. CASE BlinkerExits \/ UNCHANGED vars
  BY <1>3, <1>22 DEF BlinkerExits, vars, sending, image, database, world
<1>23. QED
  BY <1>5, <1>6, <1>7, <1>10, <1>11, <1>12, <1>13, <1>14, <1>15, <1>16, <1>17,
     <1>18, <1>19, <1>20, <1>21, <1>22
     DEF Next, LocalStep, DialogueStep, ResendRequest, User

(* Retries, resends, crashes and restarts never put something else under   *)
(* the number of a download than its row holds, provided the process finds *)
(* its adapter when it starts and every image fits a blob.                 *)
THEOREM MessagesAreRows ==
    ASSUME MaxEvents <= BLOBSIZE, "adapterdown" \notin Hazards
    PROVE  Spec => []MessagesMatchRows
<1>1. DbInv /\ BlinkInv /\ [Next]_vars => DbInv'
  BY DbNext
<1>2. TypeOK /\ TypeOK' /\ BlinkInv /\ DbInv /\ MatchInv /\ [Next]_vars
         => MatchInv'
  BY MatchNext
<1>3. TypeOK => ControlType
  BY DEF TypeOK
<1>4. MatchInv => MessagesMatchRows
  BY DEF MatchInv
<1>5. QED
  BY <1>1, <1>2, <1>3, <1>4, TypeCorrect, BlinkInit, BlinkNext, DbInit,
     MatchInit, PTL DEF Spec

-----------------------------------------------------------------------------
(* Where the events are, from the sensor to the server.                    *)

(* States in which the probe or the image in memory matters.               *)
Loading == fm = "m_readp3" \/ InDownload
Sending == fm = "m_parsedata" /\ "resend" \notin Hazards
DownloadStates ==
    {"m_readp3", "m_prepdelp3", "m_deletep3", "m_settimep3", "m_beepok",
     "m_saveblob", "m_parsedata"}

(* While the user holds the sensor still the image is of the sensor the    *)
(* header named.                                                           *)
HeldInv ==
    /\ \A s \in Sensors : \A e \in pes[s] : recordedBy[e] = s
    /\ Loading => probe \in Sensors /\ serial = probe
    /\ InDownload \/ Sending => \A e \in buf : recordedBy[e] = serial

(* When no page is missing either, the image is all the header announced   *)
(* and all there is to erase.                                              *)
WholeInv ==
    /\ fm = "m_readp3" => firstfree = Cardinality(pes[probe]) /\ firstfree > 0
    /\ InDownload \/ Sending => buf # {} /\ firstfree = Cardinality(buf)
    /\ fm \in {"m_prepdelp3", "m_deletep3"} =>
          /\ pes[probe] \subseteq buf
          /\ "lostreply" \notin Hazards => buf \subseteq pes[probe]

-----------------------------------------------------------------------------
(* Sets of events.                                                         *)

LEMMA RecordedFinite ==
    ASSUME TypeOK, NEW S \in SUBSET Recorded
    PROVE  IsFiniteSet(S) /\ Cardinality(S) \in Nat
<1>1. Len(recordedBy) \in Nat
  BY LenProperties DEF TypeOK, WorldType
<1>2. IsFiniteSet(1 .. Len(recordedBy))
  BY <1>1, FS_Interval
<1>3. IsFiniteSet(S)
  BY <1>2, FS_Subset DEF Recorded
<1>4. QED
  BY <1>3, FS_CardinalityType

(* As many events as there are: all of them.                               *)
LEMMA OldestAll ==
    ASSUME TypeOK, NEW S \in SUBSET Recorded
    PROVE  Oldest(S, Cardinality(S)) = S
<1>1. ASSUME NEW e \in S PROVE Cardinality({f \in S : f < e}) < Cardinality(S)
  <2> DEFINE T == {f \in S : f < e}
  <2>1. T \in SUBSET S /\ e \notin T
    BY DEF Recorded
  <2> HIDE DEF T
  <2>2. IsFiniteSet(S) /\ Cardinality(S) \in Nat
    BY RecordedFinite
  <2>3. Cardinality(T) <= Cardinality(S) /\ (Cardinality(S) = Cardinality(T) => S = T)
    BY <2>1, <2>2, FS_Subset
  <2>4. Cardinality(T) \in Nat
    BY <2>1, RecordedFinite
  <2>5. Cardinality(T) # Cardinality(S)
    BY <2>1, <2>3
  <2>6. QED
    BY <2>2, <2>3, <2>4, <2>5 DEF T
<1>2. QED
  BY <1>1 DEF Oldest

(* A new event changes nothing of the others.                              *)
LEMMA RecordStep ==
    ASSUME TypeOK, NEW s \in Sensors, Record(s)
    PROVE  /\ \A e \in Recorded : e \in Recorded' /\ recordedBy'[e] = recordedBy[e]
           /\ \A e \in Recorded' : e \in Recorded \/ e = Len(recordedBy) + 1
           /\ recordedBy'[Len(recordedBy) + 1] = s
           /\ pes' = [pes EXCEPT ![s] = @ \union {Len(recordedBy) + 1}]
           /\ probe # s
           /\ UNCHANGED <<fm, joining, crashes, serial, firstfree, buf, raw, probe, server>>
<1>1. Len(recordedBy) \in Nat /\ recordedBy \in Seq(Sensors)
  BY LenProperties DEF TypeOK, WorldType
<1>2. /\ Len(recordedBy') = Len(recordedBy) + 1
      /\ \A e \in 1 .. Len(recordedBy) : recordedBy'[e] = recordedBy[e]
      /\ recordedBy'[Len(recordedBy) + 1] = s
  BY <1>1, AppendProperties DEF Record
<1>3. QED
  BY <1>1, <1>2 DEF Record, Recorded, blink, image, database

-----------------------------------------------------------------------------
(* The image is of the sensor of the header.                               *)

LEMMA HeldInit == Init => HeldInv
BY DEF Init, HeldInv, Loading, InDownload, Sending

LEMMA HeldNext ==
    ASSUME "lift" \notin Hazards
    PROVE  TypeOK /\ BlinkInv /\ HeldInv /\ [Next]_vars => HeldInv'
<1> SUFFICES ASSUME TypeOK, BlinkInv, HeldInv, [Next]_vars PROVE HeldInv'
  OBVIOUS
(* Steps outside of a download.                                            *)
<1>1. ASSUME fm' \notin DownloadStates, UNCHANGED <<pes, recordedBy>> PROVE HeldInv'
  BY <1>1 DEF HeldInv, Loading, InDownload, Sending, DownloadStates
(* Steps of a download that leave the image and the probe alone.           *)
<1>2. ASSUME UNCHANGED <<pes, recordedBy, probe, serial, buf>>,
             Loading' => Loading,
             InDownload' => InDownload,
             Sending' => InDownload \/ Sending
      PROVE  HeldInv'
  BY <1>2 DEF HeldInv
<1>3. CASE ReadHeader
  <2>1. CASE fm' = "m_readp3"
    BY <1>3, <2>1
       DEF ReadHeader, HeldInv, Loading, InDownload, Sending, SerialRead, TypeOK, WorldType, world
  <2>2. CASE fm' # "m_readp3"
    BY <1>1, <1>3, <2>2 DEF ReadHeader, DownloadStates, world
  <2>3. QED
    BY <2>1, <2>2
<1>4. CASE ReadImage
  <2>1. /\ fm = "m_readp3" /\ fm' = "m_prepdelp3" /\ buf' \subseteq Oldest(pes[probe], firstfree)
        /\ UNCHANGED <<pes, recordedBy, probe, serial>>
    BY <1>4 DEF ReadImage, At, world
  <2>2. buf' \subseteq pes[probe]
    BY <2>1, OldestSubset
  <2>3. QED
    BY <2>1, <2>2 DEF HeldInv, Loading, InDownload, Sending
<1>5. CASE Delete \/ DeleteFails
  <2>1. /\ pes' = pes \/ pes' = [pes EXCEPT ![probe] = {}]
        /\ UNCHANGED <<recordedBy, probe, serial, buf>>
        /\ InDownload /\ (InDownload' \/ fm' = "m_checkserver")
    BY <1>5 DEF Delete, DeleteFails, At, InDownload, image
  <2>2. \A s \in Sensors : pes'[s] \subseteq pes[s]
    BY <2>1 DEF TypeOK, WorldType
  <2>3. fm' # "m_parsedata"
    BY <1>5 DEF Delete, DeleteFails, At
  <2>4. QED
    BY <2>1, <2>2, <2>3 DEF HeldInv, Loading, Sending, InDownload
<1>6. CASE ReadyToDelete \/ NotReadyToDelete \/ SetTime \/ BeepOk \/ SaveBlob
  <2>1. UNCHANGED <<pes, recordedBy, probe, serial, buf>> /\ InDownload
    BY <1>6 DEF ReadyToDelete, NotReadyToDelete, SetTime, BeepOk, SaveBlob, At, InDownload,
                image, world
  <2>2. Loading' => InDownload'
    BY <1>6 DEF ReadyToDelete, NotReadyToDelete, SetTime, BeepOk, SaveBlob, At, Loading, InDownload
  <2>3. QED
    BY <1>2, <2>1, <2>2 DEF Loading
<1>7. ASSUME NEW s \in Sensors, Record(s) PROVE HeldInv'
  <2>1. \A t \in Sensors : \A e \in pes'[t] : recordedBy'[e] = t
    <3> SUFFICES ASSUME NEW t \in Sensors, NEW e \in pes'[t] PROVE recordedBy'[e] = t
      OBVIOUS
    <3>1. CASE t = s /\ e = Len(recordedBy) + 1
      BY <1>7, <3>1, RecordStep
    <3>2. CASE ~(t = s /\ e = Len(recordedBy) + 1)
      <4>1. e \in pes[t]
        BY <1>7, <3>2, RecordStep DEF TypeOK, WorldType
      <4>2. e \in Recorded /\ recordedBy[e] = t
        BY <4>1 DEF HeldInv, TypeOK, WorldType
      <4>3. QED
        BY <1>7, <4>2, RecordStep
    <3>3. QED
      BY <3>1, <3>2
  <2>2. buf \subseteq Recorded
    BY DEF TypeOK, MemoryType
  <2>3. QED
    BY <1>7, <2>1, <2>2, RecordStep DEF HeldInv, Loading, InDownload, Sending
<1>8. CASE TakeOff \/ \E s \in Sensors : PutOn(s)
  <2>1. ~Loading
    BY <1>8 DEF TakeOff, PutOn, MayMove, Loading, InDownload
  <2>2. UNCHANGED <<fm, pes, recordedBy, serial, buf>>
    BY <1>8 DEF TakeOff, PutOn, image
  <2>3. QED
    BY <2>1, <2>2 DEF HeldInv, Loading, InDownload, Sending
<1>9. CASE Transfer
  <2>1. PICK sent : ParseDone(sent) \/ ParseFails(sent)
    BY <1>9 DEF Transfer
  <2>2. /\ UNCHANGED <<pes, recordedBy, probe, serial, buf>>
        /\ fm = "m_parsedata" /\ fm' \in {"m_parsedata", "m_checkserver"}
    BY <2>1 DEF ParseDone, ParseFails, Parse, At, image, world
  <2>3. QED
    BY <1>2, <2>2 DEF Loading, InDownload, Sending
<1>10. CASE ResendRequest
  <2>1. "resend" \in Hazards /\ fm' = "m_parsedata" /\ UNCHANGED <<pes, recordedBy>>
    BY <1>10 DEF ResendRequest, Resend, world
  <2>2. QED
    BY <2>1 DEF HeldInv, Loading, InDownload, Sending
<1>11. CASE ReadImageFails \/ Start \/ StartFails \/ ServerMissed \/ ServerError
            \/ AdapterFound \/ AdapterMute \/ SensorSeen \/ NoSensorSeen
  BY <1>1, <1>11
     DEF ReadImageFails, AfterFailedRead, Start, StartFails, ServerMissed, ServerError,
         AdapterFound, AdapterMute, SensorSeen, NoSensorSeen, At, DownloadStates, world
<1>12. CASE Joined
  BY <1>1, <1>12 DEF Joined, BlinkInv, DownloadStates, world
<1>13. CASE ServerFound \/ ServerOk
  <2>1. fm' \notin DownloadStates
    BY <1>13 DEF ServerFound, ServerOk, StopBlinkingThen, At, DownloadStates
  <2>2. QED
    BY <1>1, <1>13, <2>1 DEF ServerFound, ServerOk, world
<1>14. CASE NothingMissing \/ MissingUnanswered \/ AdapterError
            \/ \E answered \in BOOLEAN : AdapterToPython(answered) \/ ServerTime(answered)
  BY <1>1, <1>14
     DEF NothingMissing, MissingUnanswered, AdapterError, Ends, AdapterToPython, ServerTime,
         DownloadStates, world
<1>15. CASE ServerTimeCrashes \/ ResendCrashes \/ Killed \/ Restarted
  BY <1>1, <1>15 DEF ServerTimeCrashes, ResendCrashes, Killed, Restarted, Ends, DownloadStates,
       world
<1>16. CASE BlinkerExits \/ UNCHANGED vars
  BY <1>2, <1>16 DEF BlinkerExits, vars, image, world, Loading, InDownload, Sending
<1>17. QED
  BY <1>3, <1>4, <1>5, <1>6, <1>7, <1>8, <1>9, <1>10, <1>11, <1>12, <1>13, <1>14, <1>15, <1>16
     DEF Next, LocalStep, DialogueStep, User

LEMMA Held ==
    ASSUME "lift" \notin Hazards
    PROVE  Spec => [](TypeOK /\ BlinkInv /\ HeldInv)
<1>1. TypeOK => ControlType
  BY DEF TypeOK
<1>2. TypeOK /\ BlinkInv /\ HeldInv /\ [Next]_vars => HeldInv'
  BY HeldNext
<1>3. QED
  BY <1>1, <1>2, TypeCorrect, BlinkInit, BlinkNext, HeldInit, PTL DEF Spec

-----------------------------------------------------------------------------
(* The image is everything the sensor had.                                 *)

LEMMA WholeInit == Init => WholeInv
BY DEF Init, WholeInv, InDownload, Sending

LEMMA WholeNext ==
    ASSUME "lift" \notin Hazards, "shortread" \notin Hazards
    PROVE  TypeOK /\ BlinkInv /\ HeldInv /\ WholeInv /\ [Next]_vars => WholeInv'
<1> SUFFICES ASSUME TypeOK, BlinkInv, HeldInv, WholeInv, [Next]_vars PROVE WholeInv'
  OBVIOUS
<1>1. ASSUME fm' \notin DownloadStates PROVE WholeInv'
  BY <1>1 DEF WholeInv, InDownload, Sending, DownloadStates
<1>2. ASSUME UNCHANGED <<pes, probe, firstfree, buf>>,
             fm' = "m_readp3" => fm = "m_readp3",
             fm' \in {"m_prepdelp3", "m_deletep3"} => fm \in {"m_prepdelp3", "m_deletep3"},
             InDownload' \/ Sending' => InDownload \/ Sending
      PROVE  WholeInv'
  BY <1>2 DEF WholeInv
<1>3. CASE ReadHeader
  <2>1. CASE fm' = "m_readp3"
    <3>1. firstfree' = Cardinality(pes[probe]) /\ firstfree' > 0 /\ UNCHANGED <<pes, probe>>
      BY <1>3, <2>1 DEF ReadHeader, world
    <3>2. QED
      BY <2>1, <3>1 DEF WholeInv, InDownload, Sending
  <2>2. CASE fm' # "m_readp3"
    BY <1>1, <1>3, <2>2 DEF ReadHeader, DownloadStates
  <2>3. QED
    BY <2>1, <2>2
<1>4. CASE ReadImage
  <2>1. /\ fm = "m_readp3" /\ fm' = "m_prepdelp3" /\ buf' = Oldest(pes[probe], firstfree)
        /\ UNCHANGED <<pes, probe, firstfree>>
    BY <1>4 DEF ReadImage, At, world
  <2>2. probe \in Sensors /\ firstfree = Cardinality(pes[probe]) /\ firstfree > 0
    BY <2>1 DEF HeldInv, WholeInv, Loading
  <2>3. pes[probe] \in SUBSET Recorded
    BY <2>2 DEF TypeOK, WorldType
  <2>4. buf' = pes[probe]
    BY <2>1, <2>2, <2>3, OldestAll
  <2>5. pes[probe] # {}
    BY <2>2, FS_EmptySet
  <2>6. QED
    BY <2>1, <2>2, <2>4, <2>5 DEF WholeInv, InDownload, Sending
<1>5. CASE Delete \/ DeleteFails
  <2>1. probe \in Sensors /\ fm = "m_deletep3" /\ InDownload
    BY <1>5 DEF Delete, DeleteFails, At, HeldInv, Loading, InDownload
  <2>2. UNCHANGED <<probe, firstfree, buf>>
    BY <1>5 DEF Delete, DeleteFails, image
  <2>3. CASE fm' = "m_deletep3"
    <3>1. pes' = pes \/ ("lostreply" \in Hazards /\ pes' = [pes EXCEPT ![probe] = {}])
      BY <1>5, <2>3 DEF Delete, DeleteFails
    <3>2. pes'[probe] = pes[probe] \/ ("lostreply" \in Hazards /\ pes'[probe] = {})
      BY <2>1, <3>1 DEF TypeOK, WorldType
    <3>3. QED
      BY <2>1, <2>2, <2>3, <3>2 DEF WholeInv, InDownload, Sending
  <2>4. CASE fm' = "m_settimep3"
    BY <2>1, <2>2, <2>4 DEF WholeInv, InDownload, Sending
  <2>5. CASE fm' = "m_checkserver"
    BY <1>1, <2>5 DEF DownloadStates
  <2>6. QED
    BY <1>5, <2>1, <2>3, <2>4, <2>5 DEF Delete, DeleteFails
<1>6. CASE NotReadyToDelete
  <2>1. CASE fm' = "m_prepdelp3"
    BY <1>2, <1>6, <2>1 DEF NotReadyToDelete, At, InDownload, image, world
  <2>2. CASE fm' # "m_prepdelp3"
    BY <1>1, <1>6, <2>2 DEF NotReadyToDelete, At, DownloadStates
  <2>3. QED
    BY <2>1, <2>2
<1>7. CASE ReadyToDelete \/ SetTime \/ BeepOk \/ SaveBlob
  BY <1>2, <1>7 DEF ReadyToDelete, SetTime, BeepOk, SaveBlob, At, InDownload, image, world
<1>8. ASSUME NEW s \in Sensors, Record(s) PROVE WholeInv'
  <2>1. UNCHANGED <<fm, probe, firstfree, buf>> /\ (Loading => pes'[probe] = pes[probe])
    BY <1>8, RecordStep DEF HeldInv, TypeOK, WorldType
  <2>2. QED
    BY <2>1 DEF WholeInv, Loading, InDownload, Sending
<1>9. CASE TakeOff \/ \E s \in Sensors : PutOn(s)
  <2>1. ~Loading
    BY <1>9 DEF TakeOff, PutOn, MayMove, Loading, InDownload
  <2>2. UNCHANGED <<fm, firstfree, buf>>
    BY <1>9 DEF TakeOff, PutOn, image
  <2>3. QED
    BY <2>1, <2>2 DEF WholeInv, Loading, InDownload, Sending
<1>10. CASE Transfer
  <2>1. PICK sent : ParseDone(sent) \/ ParseFails(sent)
    BY <1>10 DEF Transfer
  <2>2. /\ UNCHANGED <<pes, probe, firstfree, buf>>
        /\ fm = "m_parsedata" /\ fm' \in {"m_parsedata", "m_checkserver"}
    BY <2>1 DEF ParseDone, ParseFails, Parse, At, image, world
  <2>3. QED
    BY <1>2, <2>2 DEF InDownload, Sending
<1>11. CASE ResendRequest
  <2>1. "resend" \in Hazards /\ fm' = "m_parsedata"
    BY <1>11 DEF ResendRequest, Resend
  <2>2. QED
    BY <2>1 DEF WholeInv, InDownload, Sending
<1>12. CASE ReadImageFails \/ Start \/ StartFails \/ ServerMissed \/ ServerError
            \/ AdapterFound \/ AdapterMute \/ SensorSeen \/ NoSensorSeen
  BY <1>1, <1>12
     DEF ReadImageFails, AfterFailedRead, Start, StartFails, ServerMissed, ServerError,
         AdapterFound, AdapterMute, SensorSeen, NoSensorSeen, At, DownloadStates
<1>13. CASE Joined
  BY <1>1, <1>13 DEF Joined, BlinkInv, DownloadStates
<1>14. CASE ServerFound \/ ServerOk
  BY <1>1, <1>14 DEF ServerFound, ServerOk, StopBlinkingThen, At, DownloadStates
<1>15. CASE NothingMissing \/ MissingUnanswered \/ AdapterError
            \/ \E answered \in BOOLEAN : AdapterToPython(answered) \/ ServerTime(answered)
  BY <1>1, <1>15
     DEF NothingMissing, MissingUnanswered, AdapterError, Ends, AdapterToPython, ServerTime,
         DownloadStates
<1>16. CASE ServerTimeCrashes \/ ResendCrashes \/ Killed \/ Restarted
  BY <1>1, <1>16 DEF ServerTimeCrashes, ResendCrashes, Killed, Restarted, Ends, DownloadStates
<1>17. CASE BlinkerExits \/ UNCHANGED vars
  BY <1>2, <1>17 DEF BlinkerExits, vars, image, world, InDownload, Sending
<1>18. QED
  BY <1>3, <1>4, <1>5, <1>6, <1>7, <1>8, <1>9, <1>10, <1>11, <1>12, <1>13, <1>14, <1>15, <1>16,
     <1>17
     DEF Next, LocalStep, DialogueStep, User

LEMMA Whole ==
    ASSUME "lift" \notin Hazards, "shortread" \notin Hazards
    PROVE  Spec => [](TypeOK /\ BlinkInv /\ HeldInv /\ WholeInv)
<1>1. TypeOK /\ BlinkInv /\ HeldInv /\ WholeInv /\ [Next]_vars => WholeInv'
  BY WholeNext
<1>2. QED
  BY <1>1, Held, WholeInit, PTL DEF Spec

-----------------------------------------------------------------------------
(* What is erased.                                                         *)

LEMMA OnlyDeletesErase ==
    ASSUME TypeOK, HeldInv, WholeInv, [Next]_vars, NEW s \in Sensors
    PROVE  pes[s] \ pes'[s] \subseteq buf
<1>1. CASE UNCHANGED pes
  BY <1>1
<1>2. CASE Delete \/ DeleteFails
  <2>1. probe \in Sensors /\ pes[probe] \subseteq buf
    BY <1>2 DEF Delete, DeleteFails, At, HeldInv, WholeInv, Loading, InDownload
  <2>2. pes' = pes \/ pes' = [pes EXCEPT ![probe] = {}]
    BY <1>2 DEF Delete, DeleteFails
  <2>3. QED
    BY <2>1, <2>2 DEF TypeOK, WorldType
<1>3. ASSUME NEW t \in Sensors, Record(t) PROVE pes[s] \subseteq pes'[s]
  BY <1>3, RecordStep DEF TypeOK, WorldType
<1>4. CASE Start \/ StartFails \/ Joined \/ ServerError \/ ServerOk
           \/ AdapterFound \/ AdapterMute \/ SensorSeen \/ NoSensorSeen
  BY <1>1, <1>4
     DEF Start, StartFails, Joined, ServerError, ServerOk, AdapterFound, AdapterMute,
         SensorSeen, NoSensorSeen, world
<1>5. CASE ReadHeader \/ ReadImage \/ ReadImageFails \/ ReadyToDelete \/ NotReadyToDelete
           \/ SetTime \/ BeepOk \/ SaveBlob
  BY <1>1, <1>5
     DEF ReadHeader, ReadImage, ReadImageFails, ReadyToDelete, NotReadyToDelete, SetTime,
         BeepOk, SaveBlob, world
<1>6. CASE DialogueStep
  BY <1>1, <1>6
     DEF DialogueStep, ServerFound, ServerMissed, ResendRequest, Resend, NothingMissing,
         MissingUnanswered, AdapterError, AdapterToPython, ServerTime, ServerTimeCrashes,
         ResendCrashes,
         Transfer, ParseDone, ParseFails, world
<1>7. CASE BlinkerExits \/ Killed \/ Restarted \/ UNCHANGED vars
  BY <1>1, <1>7 DEF BlinkerExits, Killed, Restarted, vars, world
<1>8. CASE TakeOff \/ \E t \in Sensors : PutOn(t)
  BY <1>1, <1>8 DEF TakeOff, PutOn
<1>9. QED
  BY <1>2, <1>3, <1>4, <1>5, <1>6, <1>7, <1>8 DEF Next, LocalStep, User

(* ErasedOnlyRead: while the user holds the sensor still and no page is    *)
(* missing, only what is in the image is erased, however often deleting    *)
(* is repeated and whatever replies are lost.                              *)
THEOREM ErasedWasRead ==
    ASSUME "lift" \notin Hazards, "shortread" \notin Hazards
    PROVE  Spec => ErasedOnlyRead
<1>1. TypeOK /\ HeldInv /\ WholeInv /\ [Next]_vars
        => [\A s \in Sensors : pes[s] \ pes'[s] \subseteq buf]_vars
  BY OnlyDeletesErase
<1>2. QED
  BY <1>1, Whole, PTL DEF Spec, ErasedOnlyRead

-----------------------------------------------------------------------------
(* Rows, messages and numbers.                                             *)

(* Every other step leaves the database and the server alone.              *)
LEMMA OnlySavingAndParsingStore ==
    ASSUME [Next]_vars
    PROVE  \/ UNCHANGED <<raw, server>>
           \/ SaveBlob
           \/ Transfer
<1>1. CASE LocalStep
  BY <1>1
     DEF LocalStep, Start, StartFails, Joined, ServerError, ServerOk, AdapterFound, AdapterMute,
         SensorSeen, NoSensorSeen, ReadHeader, ReadImage, ReadImageFails, ReadyToDelete,
         NotReadyToDelete, Delete, DeleteFails, SetTime, BeepOk, database
<1>2. CASE DialogueStep
  BY <1>2
     DEF DialogueStep, ServerFound, ServerMissed, ResendRequest, Resend, NothingMissing,
         MissingUnanswered, AdapterError, AdapterToPython, ServerTime, ServerTimeCrashes,
         ResendCrashes, database
<1>3. CASE BlinkerExits \/ Killed \/ Restarted \/ User \/ UNCHANGED vars
  BY <1>3 DEF BlinkerExits, Killed, Restarted, User, PutOn, TakeOff, Record, vars, database
<1>4. QED
  BY <1>1, <1>2, <1>3 DEF Next

(* Who recorded an event does not change.                                  *)
LEMMA RecordedStays ==
    ASSUME TypeOK, [Next]_vars
    PROVE  \A e \in Recorded : e \in Recorded' /\ recordedBy'[e] = recordedBy[e]
<1>1. CASE UNCHANGED recordedBy
  BY <1>1 DEF Recorded
<1>2. ASSUME NEW s \in Sensors, Record(s)
      PROVE  \A e \in Recorded : e \in Recorded' /\ recordedBy'[e] = recordedBy[e]
  BY <1>2, RecordStep
<1>3. CASE LocalStep
  BY <1>1, <1>3
     DEF LocalStep, Start, StartFails, Joined, ServerError, ServerOk, AdapterFound, AdapterMute,
         SensorSeen, NoSensorSeen, ReadHeader, ReadImage, ReadImageFails, ReadyToDelete,
         NotReadyToDelete, Delete, DeleteFails, SetTime, BeepOk, SaveBlob, world
<1>4. CASE DialogueStep
  BY <1>1, <1>4
     DEF DialogueStep, ServerFound, ServerMissed, ResendRequest, Resend, NothingMissing,
         MissingUnanswered, AdapterError, AdapterToPython, ServerTime, ServerTimeCrashes,
         ResendCrashes,
         Transfer, ParseDone, ParseFails, world
<1>5. CASE BlinkerExits \/ Killed \/ Restarted \/ TakeOff \/ (\E s \in Sensors : PutOn(s))
           \/ UNCHANGED vars
  BY <1>1, <1>5 DEF BlinkerExits, Killed, Restarted, PutOn, TakeOff, vars, world
<1>6. QED
  BY <1>2, <1>3, <1>4, <1>5 DEF Next, User

(* A transfer brings part of the image under the number and the sensor in  *)
(* memory, and no row changes but for its mark.                            *)
LEMMA TransferStep ==
    ASSUME TypeOK, Transfer
    PROVE  /\ fm = "m_parsedata"
           /\ \E sent \in SUBSET buf :
                server' = IF sent = {} THEN server
                          ELSE server \union {[syn |-> idSyn, pes |-> serial, evs |-> sent]}
           /\ Len(raw') = Len(raw) /\ Rows' = Rows
           /\ \A i \in Rows : raw'[i].evs = raw[i].evs
           /\ UNCHANGED <<idSyn, evtSyn, buf, pes, recordedBy, crashes, firstfree, dbopen>>
<1>1. PICK sent \in SUBSET Parsed : ParseDone(sent) \/ ParseFails(sent)
  BY ParsedOnly DEF Transfer
<1>2. fm = "m_parsedata" /\ sent \in SUBSET buf
  BY <1>1, OldestSubset DEF ParseDone, ParseFails, Parse, At, Parsed
<1>3. server' = IF sent = {} THEN server
                ELSE server \union {[syn |-> idSyn, pes |-> serial, evs |-> sent]}
  BY <1>1 DEF ParseDone, ParseFails, Parse
<1>4. UNCHANGED <<idSyn, evtSyn, buf, pes, recordedBy, crashes, firstfree, dbopen>>
  BY <1>1 DEF ParseDone, ParseFails, image, world
<1>5. /\ Len(raw') = Len(raw)
      /\ \A i \in Rows : raw'[i].evs = raw[i].evs
  <2>1. CASE raw' = raw
    BY <2>1
  <2>2. CASE evtSyn \in Rows /\ raw' = [raw EXCEPT ![evtSyn].tok = 1]
    <3>1. raw \in [Rows -> Row] /\ Len(raw) \in Nat
      BY LenProperties DEF TypeOK, WorldType, Rows
    <3>2. Len(raw') = Len(raw)
      BY <2>2, <3>1 DEF TypeOK, WorldType
    <3>3. ASSUME NEW i \in Rows PROVE raw'[i].evs = raw[i].evs
      <4>1. raw[i] \in Row
        BY <3>1
      <4>2. QED
        BY <2>2, <3>1, <4>1 DEF Row
    <3>4. QED
      BY <3>2, <3>3
  <2>3. QED
    BY <1>1, <2>1, <2>2 DEF ParseDone, ParseFails, database
<1>6. QED
  BY <1>2, <1>3, <1>4, <1>5 DEF Rows

(* A saved download gets a row of its own; the others stay.                *)
LEMMA SaveStep ==
    ASSUME TypeOK, SaveBlob
    PROVE  /\ fm = "m_saveblob" /\ fm' = "m_parsedata" /\ joining = "none"
           /\ UNCHANGED <<buf, firstfree, serial, pes, recordedBy, crashes, server, dbopen>>
           /\ dbopen = 1 =>
                /\ Len(raw) \in Nat /\ Len(raw') = Len(raw) + 1
                /\ \A i \in Rows : i \in Rows' /\ raw'[i] = raw[i]
                /\ raw'[Len(raw) + 1].evs = Stored(buf) /\ raw'[Len(raw) + 1].tok = 0
                /\ idSyn' = Len(raw) + 1 /\ evtSyn' = Len(raw) + 1
           /\ dbopen # 1 => raw' = raw
<1> DEFINE row == [evs |-> Stored(buf), firstfree |-> firstfree, tok |-> 0]
<1>1. row \in Row
  BY OldestSubset DEF TypeOK, MemoryType, Row, Stored
<1>2. CASE dbopen = 1
  <2>1. raw' = Append(raw, row)
    BY <1>2 DEF SaveBlob
  <2>2. /\ Len(raw) \in Nat /\ Len(raw') = Len(raw) + 1
        /\ \A i \in Rows : raw'[i] = raw[i]
        /\ raw'[Len(raw) + 1] = row
    BY <1>1, <2>1, AppendProperties, LenProperties DEF TypeOK, WorldType, Rows
  <2>3. idSyn' = Len(raw) + 1 /\ evtSyn' = Len(raw) + 1
    BY <1>2, <2>2 DEF SaveBlob, NewRow
  <2>4. QED
    BY <1>2, <2>2, <2>3 DEF SaveBlob, At, image, world, Rows
<1>3. CASE dbopen # 1
  BY <1>3 DEF SaveBlob, At, image, world
<1>4. QED
  BY <1>2, <1>3

-----------------------------------------------------------------------------
(* Under which sensor.                                                     *)

LEMMA AttributionNext ==
    ASSUME "resend" \notin Hazards
    PROVE  TypeOK /\ HeldInv /\ Attribution /\ [Next]_vars => Attribution'
<1> SUFFICES ASSUME TypeOK, HeldInv, Attribution, [Next]_vars PROVE Attribution'
  OBVIOUS
<1>1. \A m \in server : m.evs \subseteq Recorded
  BY DEF TypeOK, WorldType, Message
<1>2. CASE server' = server
  BY <1>1, <1>2, RecordedStays DEF Attribution
<1>3. CASE Transfer
  <2>1. PICK sent \in SUBSET buf :
           server' = IF sent = {} THEN server
                     ELSE server \union {[syn |-> idSyn, pes |-> serial, evs |-> sent]}
    BY <1>3, TransferStep
  <2>2. recordedBy' = recordedBy /\ \A e \in buf : recordedBy[e] = serial
    BY <1>3, TransferStep DEF HeldInv, Sending
  <2>3. ASSUME NEW m \in server', NEW e \in m.evs PROVE recordedBy'[e] = m.pes
    <3>1. CASE m \in server
      BY <2>2, <2>3, <3>1 DEF Attribution
    <3>2. CASE m = [syn |-> idSyn, pes |-> serial, evs |-> sent]
      BY <2>1, <2>2, <2>3, <3>2
    <3>3. QED
      BY <2>1, <3>1, <3>2
  <2>4. QED
    BY <2>3 DEF Attribution
<1>4. QED
  BY <1>2, <1>3, OnlySavingAndParsingStore, SaveStep

(* Attribution: as long as the server asks for nothing again and the user  *)
(* holds the sensor still, events reach the server under the sensor that   *)
(* recorded them, even if pages are missing and transfers unconfirmed.     *)
THEOREM EventsAreAttributed ==
    ASSUME "lift" \notin Hazards, "resend" \notin Hazards
    PROVE  Spec => []Attribution
<1>1. Init => Attribution
  BY DEF Init, Attribution
<1>2. TypeOK /\ HeldInv /\ Attribution /\ [Next]_vars => Attribution'
  BY AttributionNext
<1>3. QED
  BY <1>1, <1>2, Held, PTL DEF Spec

-----------------------------------------------------------------------------
(* What a mark means.                                                      *)

Few == Len(recordedBy) <= MaxEvents

LEMMA FewEvents == Spec => []Few
<1>1. Init => Few
  BY EmptySeq, BoundsAssumption DEF Init, Few
<1>2. TypeOK /\ Few /\ [Next]_vars => Few'
  <2> USE DEF Few
  <2> SUFFICES ASSUME TypeOK, Len(recordedBy) <= MaxEvents, [Next]_vars
               PROVE  Len(recordedBy') <= MaxEvents
    OBVIOUS
  <2>1. CASE UNCHANGED recordedBy
    BY <2>1
  <2>2. ASSUME NEW s \in Sensors, Record(s) PROVE Len(recordedBy') <= MaxEvents
    <3>1. Len(recordedBy) \in Nat /\ Len(recordedBy') = Len(recordedBy) + 1
      BY <2>2, AppendProperties, LenProperties DEF Record, TypeOK, WorldType
    <3>2. QED
      BY <2>2, <3>1, BoundsAssumption DEF Record
  <2>3. CASE LocalStep
    BY <2>1, <2>3
       DEF LocalStep, Start, StartFails, Joined, ServerError, ServerOk, AdapterFound, AdapterMute,
           SensorSeen, NoSensorSeen, ReadHeader, ReadImage, ReadImageFails, ReadyToDelete,
           NotReadyToDelete, Delete, DeleteFails, SetTime, BeepOk, SaveBlob, world
  <2>4. CASE DialogueStep
    BY <2>1, <2>4
       DEF DialogueStep, ServerFound, ServerMissed, ResendRequest, Resend, NothingMissing,
           MissingUnanswered, AdapterError, AdapterToPython, ServerTime, ServerTimeCrashes,
           ResendCrashes,
           Transfer, ParseDone, ParseFails, world
  <2>5. CASE BlinkerExits \/ Killed \/ Restarted \/ TakeOff \/ (\E s \in Sensors : PutOn(s))
             \/ UNCHANGED vars
    BY <2>1, <2>5 DEF BlinkerExits, Killed, Restarted, PutOn, TakeOff, vars, world
  <2>6. QED
    BY <2>2, <2>3, <2>4, <2>5 DEF Next, User
<1>3. QED
  BY <1>1, <1>2, TypeCorrect, PTL DEF Spec

(* The loop comes to m_parsedata by saving or by a resend, and stays there *)
(* with what it has in memory.                                             *)
LEMMA WaysToParse ==
    ASSUME BlinkInv, [Next]_vars, fm' = "m_parsedata", ~SaveBlob, ~ResendRequest
    PROVE  fm = "m_parsedata" /\ UNCHANGED <<dbopen, idSyn, evtSyn, buf>>
<1>1. CASE Transfer
  BY <1>1 DEF Transfer, ParseDone, ParseFails, Parse, At, image
<1>2. ~(Start \/ StartFails \/ ServerError \/ AdapterFound \/ AdapterMute
        \/ SensorSeen \/ NoSensorSeen)
  BY DEF Start, StartFails, ServerError, AdapterFound, AdapterMute, SensorSeen, NoSensorSeen, At
<1>3. ~Joined
  BY DEF Joined, BlinkInv
<1>4. ~(ServerOk \/ ServerFound)
  BY DEF ServerFound, ServerOk, StopBlinkingThen, At
<1>5. ~(ReadHeader \/ ReadImage \/ ReadImageFails \/ ReadyToDelete \/ NotReadyToDelete
        \/ Delete \/ DeleteFails \/ SetTime \/ BeepOk)
  BY DEF ReadHeader, ReadImage, ReadImageFails, AfterFailedRead, ReadyToDelete, NotReadyToDelete,
         Delete, DeleteFails, SetTime, BeepOk, At
<1>6. ~(ServerMissed \/ NothingMissing \/ MissingUnanswered \/ AdapterError)
  BY DEF ServerMissed, NothingMissing, MissingUnanswered, AdapterError, Ends, At
<1>7. ~(\/ \E answered \in BOOLEAN : AdapterToPython(answered) \/ ServerTime(answered)
        \/ ServerTimeCrashes \/ ResendCrashes \/ Killed \/ Restarted)
  BY DEF AdapterToPython, ServerTime, ServerTimeCrashes, ResendCrashes, Killed, Restarted,
       Ends, At
<1>8. CASE BlinkerExits \/ User \/ UNCHANGED vars
  BY <1>8 DEF BlinkerExits, User, PutOn, TakeOff, Record, vars, sending, image
<1>9. QED
  BY <1>1, <1>2, <1>3, <1>4, <1>5, <1>6, <1>7, <1>8 DEF Next, LocalStep, DialogueStep

TokInv ==
    /\ Sending /\ dbopen = 1 => evtSyn = idSyn /\ idSyn \in Rows /\ raw[idSyn].evs = buf
    /\ TokMeansSent

LEMMA TokInit == Init => TokInv
<1> SUFFICES ASSUME Init PROVE TokInv
  OBVIOUS
<1>1. Rows = {} /\ ~Sending
  BY EmptySeq DEF Init, Rows, Sending
<1>2. QED
  BY <1>1 DEF TokInv, TokMeansSent

(* A transfer that counts as sent brought the image, which is the row's.   *)
LEMMA MarkedWasSent ==
    ASSUME "resend" \notin Hazards, "unconfirmed" \notin Hazards,
           TypeOK, WholeInv, TokInv, Transfer, NEW i \in Rows, raw'[i].tok = 1, raw[i].tok # 1
    PROVE  \E m \in server' : m.syn = i /\ m.evs = raw[i].evs
<1>1. ParseDone(Parsed) /\ dbopen = 1 /\ evtSyn \in Rows /\ raw' = [raw EXCEPT ![evtSyn].tok = 1]
  BY DEF Transfer, ParseDone, ParseFails, database
<1>2. Sending
  BY <1>1 DEF ParseDone, Parse, At, Sending
<1>3. i = evtSyn
  <2>1. raw \in [Rows -> Row]
    BY LenProperties DEF TypeOK, WorldType, Rows
  <2>2. QED
    BY <1>1, <2>1
<1>4. i = idSyn /\ raw[i].evs = buf
  BY <1>1, <1>2, <1>3 DEF TokInv
<1>5. Parsed = buf /\ buf # {}
  <2>1. buf \in SUBSET Recorded /\ buf # {} /\ firstfree = Cardinality(buf)
    BY <1>2 DEF WholeInv, TypeOK, MemoryType
  <2>2. firstfree # 0
    BY <2>1, RecordedFinite, FS_EmptySet
  <2>3. QED
    BY <2>1, <2>2, OldestAll DEF Parsed
<1>6. server' = server \union {[syn |-> idSyn, pes |-> serial, evs |-> buf]}
  BY <1>1, <1>5 DEF ParseDone, Parse
<1> DEFINE m == [syn |-> idSyn, pes |-> serial, evs |-> buf]
<1>7. m \in server' /\ m.syn = i /\ m.evs = raw[i].evs
  BY <1>4, <1>6
<1>8. QED
  BY <1>7, Zenon

LEMMA TokNext ==
    ASSUME MaxEvents <= BLOBSIZE, "resend" \notin Hazards, "unconfirmed" \notin Hazards
    PROVE  TypeOK /\ BlinkInv /\ WholeInv /\ Few /\ TokInv /\ [Next]_vars
             => TokInv'
<1> SUFFICES ASSUME TypeOK, BlinkInv, WholeInv, Few, TokInv, [Next]_vars
             PROVE  TokInv'
  OBVIOUS
<1>1. ~ResendRequest
  BY DEF ResendRequest
<1>2. CASE SaveBlob
  <2>1. CASE dbopen = 1
    <3>1. Stored(buf) = buf
      BY StoredWhole, LenProperties DEF Few, TypeOK, MemoryType, WorldType
    <3>2. /\ Len(raw) \in Nat /\ Len(raw') = Len(raw) + 1
          /\ \A i \in Rows : raw'[i] = raw[i]
          /\ raw'[Len(raw) + 1].evs = buf /\ raw'[Len(raw) + 1].tok = 0
          /\ idSyn' = Len(raw) + 1 /\ evtSyn' = Len(raw) + 1
          /\ buf' = buf /\ server' = server
      BY <1>2, <2>1, <3>1, SaveStep
    <3>3. ASSUME NEW i \in Rows', raw'[i].tok = 1
          PROVE  \E m \in server' : m.syn = i /\ m.evs = raw'[i].evs
      <4>1. i \in Rows
        BY <3>2, <3>3 DEF Rows
      <4>2. QED
        BY <3>2, <3>3, <4>1 DEF TokInv, TokMeansSent
    <3>4. QED
      BY <3>2, <3>3 DEF TokInv, TokMeansSent, Rows
  <2>2. CASE dbopen # 1
    <3>1. raw' = raw /\ server' = server /\ dbopen' # 1
      BY <1>2, <2>2, SaveStep
    <3>2. QED
      BY <3>1 DEF TokInv, TokMeansSent, Rows
  <2>3. QED
    BY <2>1, <2>2
<1>3. ASSUME ~SaveBlob, Sending', dbopen' = 1
      PROVE  Sending /\ dbopen = 1 /\ UNCHANGED <<idSyn, evtSyn, buf>>
  BY <1>1, <1>3, WaysToParse DEF Sending
<1>4. CASE Transfer
  <2>1. /\ Rows' = Rows /\ server \subseteq server'
        /\ \A i \in Rows : raw'[i].evs = raw[i].evs
    BY <1>4, TransferStep
  <2>2. ~SaveBlob
    BY <1>4 DEF Transfer, ParseDone, ParseFails, Parse, SaveBlob, At
  <2>3. ASSUME NEW i \in Rows, raw'[i].tok = 1
        PROVE  \E m \in server' : m.syn = i /\ m.evs = raw'[i].evs
    <3>1. CASE raw[i].tok = 1
      BY <2>1, <3>1 DEF TokInv, TokMeansSent
    <3>2. CASE raw[i].tok # 1
      BY <1>4, <2>1, <2>3, <3>2, MarkedWasSent
    <3>3. QED
      BY <3>1, <3>2
  <2>4. QED
    BY <1>3, <2>1, <2>2, <2>3 DEF TokInv, TokMeansSent
<1>5. CASE UNCHANGED <<raw, server>> /\ ~SaveBlob
  BY <1>3, <1>5 DEF TokInv, TokMeansSent, Rows
<1>6. QED
  BY <1>2, <1>4, <1>5, OnlySavingAndParsingStore

(* TokMeansSent: as long as the server asks for nothing again and a result *)
(* that counts as sent is one, a row marked as sent has reached the server *)
(* with all its events, through retries and crashes.                       *)
THEOREM MarkedRowsWereSent ==
    ASSUME MaxEvents <= BLOBSIZE, "lift" \notin Hazards, "shortread" \notin Hazards,
           "resend" \notin Hazards, "unconfirmed" \notin Hazards
    PROVE  Spec => []TokMeansSent
<1>1. TypeOK /\ BlinkInv /\ WholeInv /\ Few /\ TokInv /\ [Next]_vars
        => TokInv'
  BY TokNext
<1>2. TokInv => TokMeansSent
  BY DEF TokInv
<1>3. QED
  BY <1>1, <1>2, TokInit, FewEvents, Whole, PTL DEF Spec

-----------------------------------------------------------------------------
(* Custody.                                                                *)

(* The sensors that lost events.                                           *)
Losers == {recordedBy[e] : e \in {f \in Recorded : ~Kept(f)}}

CustodyInv == IsFiniteSet(Losers) /\ Custody

LEMMA CustodyInit == Init => CustodyInv
<1> SUFFICES ASSUME Init PROVE CustodyInv
  OBVIOUS
<1>1. Recorded = {}
  BY EmptySeq DEF Init, Recorded
<1>2. Losers = {}
  BY <1>1 DEF Losers
<1>3. crashes = 0 /\ IsFiniteSet({}) /\ Cardinality({}) = 0
  BY FS_EmptySet DEF Init
<1>4. QED
  BY <1>2, <1>3 DEF CustodyInv, Custody, Losers

(* A sensor that did not lose an event loses none by a step that keeps     *)
(* what is kept and records what it adds.                                  *)
LEMMA NoNewLosers ==
    ASSUME TypeOK, CustodyInv, crashes' = crashes,
           \A e \in Recorded : recordedBy'[e] = recordedBy[e],
           \A e \in Recorded' : Kept(e)' \/ (e \in Recorded /\ ~Kept(e))
    PROVE  CustodyInv'
<1>1. Losers' \in SUBSET Losers
  BY DEF Losers
<1>2. IsFiniteSet(Losers') /\ Cardinality(Losers') <= Cardinality(Losers)
  BY <1>1, FS_Subset DEF CustodyInv
<1>3. Cardinality(Losers) \in Nat /\ Cardinality(Losers') \in Nat
  BY <1>2, FS_CardinalityType DEF CustodyInv
<1>4. Cardinality(Losers) <= crashes /\ crashes \in Nat
  BY BoundsAssumption DEF CustodyInv, Custody, Losers, TypeOK, ControlType
<1>5. Cardinality(Losers') <= crashes'
  BY <1>2, <1>3, <1>4
<1>6. QED
  BY <1>2, <1>5 DEF CustodyInv, Custody, Losers

(* A crash in a download costs one sensor's events.                        *)
LEMMA OneNewLoser ==
    ASSUME TypeOK, CustodyInv, crashes' = crashes + 1, NEW s,
           \A e \in Recorded : recordedBy'[e] = recordedBy[e],
           \A e \in Recorded' : Kept(e)' \/ (e \in Recorded /\ ~Kept(e)) \/ recordedBy'[e] = s
    PROVE  CustodyInv'
<1>1. Losers' \in SUBSET (Losers \union {s})
  BY DEF Losers
<1>2. /\ IsFiniteSet(Losers \union {s})
      /\ Cardinality(Losers \union {s}) = IF s \in Losers THEN Cardinality(Losers)
                                                       ELSE Cardinality(Losers) + 1
  BY FS_AddElement DEF CustodyInv
<1>3. IsFiniteSet(Losers') /\ Cardinality(Losers') <= Cardinality(Losers \union {s})
  BY <1>1, <1>2, FS_Subset
<1>4. Cardinality(Losers) \in Nat /\ Cardinality(Losers') \in Nat
  BY <1>3, FS_CardinalityType DEF CustodyInv
<1>5. Cardinality(Losers) <= crashes /\ crashes \in Nat
  BY BoundsAssumption DEF CustodyInv, Custody, Losers, TypeOK, ControlType
<1>6. Cardinality(Losers') <= crashes'
  BY <1>2, <1>3, <1>4, <1>5
<1>7. QED
  BY <1>3, <1>6 DEF CustodyInv, Custody, Losers

(* An event is kept where it was when nothing is taken away.               *)
LEMMA KeptInPlace ==
    ASSUME NEW e, Kept(e),
           \A s \in Sensors : pes[s] \subseteq pes'[s],
           InDownload /\ e \in buf => Kept(e)',
           \A i \in Rows : i \in Rows' /\ raw'[i].evs = raw[i].evs,
           server \subseteq server'
    PROVE  Kept(e)'
BY DEF Kept

LEMMA CustodyNext ==
    ASSUME MaxEvents <= BLOBSIZE, "lift" \notin Hazards, "shortread" \notin Hazards,
           "lostreply" \notin Hazards, "adapterdown" \notin Hazards
    PROVE  TypeOK /\ BlinkInv /\ DbInv /\ HeldInv /\ WholeInv /\ Few /\ CustodyInv /\ [Next]_vars
             => CustodyInv'
<1> SUFFICES ASSUME TypeOK, BlinkInv, DbInv, HeldInv, WholeInv, Few, CustodyInv, [Next]_vars
             PROVE  CustodyInv'
  OBVIOUS
(* Steps outside of a download, and those that keep the image.             *)
<1>1. ASSUME UNCHANGED <<pes, recordedBy, raw, server, crashes>>,
             InDownload => InDownload' /\ buf' = buf
      PROVE  CustodyInv'
  <2>1. \A e \in Recorded : Kept(e) => Kept(e)'
    BY <1>1 DEF Kept, Rows
  <2>2. QED
    BY <1>1, <2>1, NoNewLosers DEF Recorded
(* Giving up a deletion: everything is still on the sensor.                *)
<1>2. ASSUME UNCHANGED <<pes, recordedBy, raw, server, crashes>>,
             fm \in {"m_prepdelp3", "m_deletep3"}
      PROVE  CustodyInv'
  <2>1. probe \in Sensors /\ buf \subseteq pes[probe]
    BY <1>2 DEF HeldInv, WholeInv, Loading, InDownload
  <2>2. \A e \in Recorded : Kept(e) => Kept(e)'
    BY <1>2, <2>1 DEF Kept, Rows
  <2>3. QED
    BY <1>2, <2>2, NoNewLosers DEF Recorded
<1>3. CASE Delete
  <2>1. /\ probe \in Sensors /\ pes[probe] \subseteq buf
        /\ InDownload' /\ InDownload
        /\ UNCHANGED <<recordedBy, raw, server, crashes, buf>>
    BY <1>3 DEF Delete, At, HeldInv, WholeInv, Loading, InDownload, image, database
  <2>2. \A s \in Sensors : s # probe => pes'[s] = pes[s]
    BY <1>3 DEF Delete, TypeOK, WorldType
  <2>3. \A e \in Recorded : Kept(e) => Kept(e)'
    BY <2>1, <2>2 DEF Kept, Rows
  <2>4. QED
    BY <2>1, <2>3, NoNewLosers DEF Recorded
<1>4. CASE DeleteFails
  BY <1>2, <1>4 DEF DeleteFails, At, database
<1>5. CASE NotReadyToDelete
  BY <1>2, <1>5 DEF NotReadyToDelete, At, database, world
<1>6. CASE SaveBlob
  <2>1. dbopen = 1
    BY <1>6 DEF SaveBlob, At, DbInv, TypeOK, MemoryType
  <2>2. Stored(buf) = buf
    BY StoredWhole, LenProperties DEF Few, TypeOK, MemoryType, WorldType
  <2>3. /\ Len(raw) \in Nat /\ Len(raw') = Len(raw) + 1
        /\ \A i \in Rows : i \in Rows' /\ raw'[i] = raw[i]
        /\ raw'[Len(raw) + 1].evs = buf
        /\ UNCHANGED <<pes, recordedBy, crashes, server>>
    BY <1>6, <2>1, <2>2, SaveStep
  <2>4. Len(raw) + 1 \in Rows'
    BY <2>3 DEF Rows
  <2>5. \A e \in buf : Kept(e)'
    BY <2>3, <2>4 DEF Kept
  <2>6. \A e \in Recorded : Kept(e) => Kept(e)'
    BY <2>3, <2>5, KeptInPlace
  <2>7. QED
    BY <2>3, <2>6, NoNewLosers DEF Recorded
<1>7. CASE Transfer
  <2>1. /\ ~InDownload /\ server \subseteq server' /\ Rows' = Rows
        /\ \A i \in Rows : raw'[i].evs = raw[i].evs
        /\ UNCHANGED <<pes, recordedBy, crashes>>
    BY <1>7, TransferStep DEF InDownload
  <2>2. \A e \in Recorded : Kept(e) => Kept(e)'
    BY <2>1, KeptInPlace
  <2>3. QED
    BY <2>1, <2>2, NoNewLosers DEF Recorded
<1>8. ASSUME NEW s \in Sensors, Record(s) PROVE CustodyInv'
  <2>1. \A t \in Sensors : pes[t] \subseteq pes'[t]
    BY <1>8, RecordStep DEF TypeOK, WorldType
  <2>2. \A e \in pes'[s] : Kept(e)'
    BY DEF Kept
  <2>3. UNCHANGED <<fm, buf, raw, server, crashes>>
    BY <1>8, RecordStep
  <2>4. \A e \in Recorded : Kept(e) => Kept(e)'
    BY <2>1, <2>3 DEF Kept, InDownload, Rows
  <2>5. \A e \in Recorded : recordedBy'[e] = recordedBy[e]
    BY <1>8, RecordStep
  <2>6. \A e \in Recorded' : e \in Recorded \/ e = Len(recordedBy) + 1
    BY <1>8, RecordStep
  <2>7. \A e \in Recorded' : Kept(e)' \/ (e \in Recorded /\ ~Kept(e))
    <3>1. Len(recordedBy) + 1 \in pes'[s]
      BY <1>8, RecordStep DEF TypeOK, WorldType
    <3>2. QED
      BY <2>2, <2>4, <2>6, <3>1
  <2>8. QED
    BY <2>3, <2>5, <2>7, NoNewLosers
<1>9. CASE Killed
  <2>1. UNCHANGED <<pes, recordedBy, raw, server>> /\ crashes' = crashes + 1
    BY <1>9 DEF Killed, database, world
  <2>2. \A e \in Recorded : Kept(e) => Kept(e)' \/ recordedBy'[e] = serial
    BY <2>1 DEF Kept, Rows, HeldInv
  <2>3. QED
    BY <2>1, <2>2, OneNewLoser DEF Recorded
<1>10. CASE ReadyToDelete \/ SetTime \/ BeepOk
  BY <1>1, <1>10 DEF ReadyToDelete, SetTime, BeepOk, At, InDownload, image, database, world
<1>11. CASE Start \/ StartFails \/ ServerError \/ AdapterFound \/ AdapterMute
            \/ SensorSeen \/ NoSensorSeen \/ ReadHeader \/ ReadImage \/ ReadImageFails
  BY <1>1, <1>11
     DEF Start, StartFails, ServerError, AdapterFound, AdapterMute, SensorSeen, NoSensorSeen,
         ReadHeader, ReadImage, ReadImageFails, At, InDownload, database, world
<1>12. CASE Joined
  BY <1>1, <1>12 DEF Joined, BlinkInv, InDownload, database, world
<1>13. CASE ServerFound \/ ServerMissed \/ ServerOk \/ ResendRequest \/ NothingMissing
            \/ MissingUnanswered \/ AdapterError
  BY <1>1, <1>13
     DEF ServerFound, ServerMissed, ServerOk, ResendRequest, Resend, NothingMissing,
         MissingUnanswered, AdapterError, At, InDownload, database, world
<1>14. CASE \/ \E answered \in BOOLEAN : AdapterToPython(answered) \/ ServerTime(answered)
            \/ ServerTimeCrashes \/ ResendCrashes \/ Restarted
  BY <1>1, <1>14
     DEF AdapterToPython, ServerTime, ServerTimeCrashes, ResendCrashes, Restarted, At,
         InDownload, database, world
<1>15. CASE BlinkerExits \/ TakeOff \/ (\E s \in Sensors : PutOn(s)) \/ UNCHANGED vars
  BY <1>1, <1>15 DEF BlinkerExits, TakeOff, PutOn, vars, InDownload, image, database, world
<1>16. QED
  BY <1>3, <1>4, <1>5, <1>6, <1>7, <1>8, <1>9, <1>10, <1>11, <1>12, <1>13, <1>14, <1>15
     DEF Next, LocalStep, DialogueStep, User

(* Custody: although the loop erases before it saves, no event is lost but *)
(* those of one sensor for each crash, whatever the server answers and     *)
(* whatever is taken for sent, while the user holds the sensor still, no   *)
(* page is missing, no reply of the deletion is lost and the adapter opens *)
(* at the start.                                                           *)
THEOREM EventsAreKept ==
    ASSUME MaxEvents <= BLOBSIZE, "lift" \notin Hazards, "shortread" \notin Hazards,
           "lostreply" \notin Hazards, "adapterdown" \notin Hazards
    PROVE  Spec => []Custody
<1>1. DbInv /\ BlinkInv /\ [Next]_vars => DbInv'
  BY DbNext
<1>2. TypeOK /\ BlinkInv /\ DbInv /\ HeldInv /\ WholeInv /\ Few /\ CustodyInv /\ [Next]_vars
        => CustodyInv'
  BY CustodyNext
<1>3. CustodyInv => Custody
  BY DEF CustodyInv
<1>4. QED
  BY <1>1, <1>2, <1>3, DbInit, CustodyInit, FewEvents, Whole, PTL DEF Spec

-----------------------------------------------------------------------------
(* The way of the events: MainLoop implements Relay.                       *)

(* No event is in two places: what has a row is on no sensor and not in    *)
(* the image that comes next, and what is about to be saved is erased.     *)
Saving == fm \in {"m_settimep3", "m_beepok", "m_saveblob"}
OnceInv ==
    /\ \A i \in Rows : \A s \in Sensors : raw[i].evs \cap pes[s] = {}
    /\ InDownload => \A i \in Rows : buf \cap raw[i].evs = {}
    /\ Saving => \A s \in Sensors : buf \cap pes[s] = {}

(* What is about to be sent is the row of its number, all of it, after a   *)
(* download and after a resend.                                            *)
SendInv ==
    /\ \A i \in Rows : raw[i].evs # {} /\ raw[i].firstfree = Cardinality(raw[i].evs)
    /\ fm = "m_parsedata" => /\ idSyn \in Rows /\ buf = raw[idSyn].evs
                             /\ firstfree = raw[idSyn].firstfree

LEMMA OnceInit == Init => OnceInv
<1> SUFFICES ASSUME Init PROVE OnceInv
  OBVIOUS
<1>1. Rows = {}
  BY EmptySeq DEF Init, Rows
<1>2. QED
  BY <1>1 DEF Init, OnceInv, InDownload, Saving

LEMMA OnceNext ==
    ASSUME "lift" \notin Hazards, "shortread" \notin Hazards, "lostreply" \notin Hazards
    PROVE  TypeOK /\ BlinkInv /\ HeldInv /\ WholeInv /\ OnceInv /\ [Next]_vars => OnceInv'
<1> SUFFICES ASSUME TypeOK, BlinkInv, HeldInv, WholeInv, OnceInv, [Next]_vars PROVE OnceInv'
  OBVIOUS
(* Steps outside of a download, and those that keep the image.             *)
<1>1. ASSUME UNCHANGED <<pes, raw>>, fm' \notin DownloadStates PROVE OnceInv'
  BY <1>1 DEF OnceInv, InDownload, Saving, DownloadStates, Rows
<1>2. ASSUME UNCHANGED <<pes, raw, buf>>, InDownload' => InDownload, Saving' => Saving
      PROVE  OnceInv'
  BY <1>2 DEF OnceInv, Rows
<1>3. \A i \in Rows : raw[i].evs \subseteq Recorded
  BY RowsOfRaw DEF TypeOK
<1>4. CASE ReadImage
  <2>1. /\ fm = "m_readp3" /\ fm' = "m_prepdelp3" /\ buf' \subseteq Oldest(pes[probe], firstfree)
        /\ UNCHANGED <<pes, raw>>
    BY <1>4 DEF ReadImage, At, world, database
  <2>2. buf' \subseteq pes[probe] /\ probe \in Sensors
    BY <2>1, OldestSubset DEF HeldInv, Loading
  <2>3. QED
    BY <2>1, <2>2 DEF OnceInv, InDownload, Saving, Rows
<1>5. CASE Delete \/ DeleteFails
  <2>1. /\ probe \in Sensors /\ fm = "m_deletep3" /\ InDownload
        /\ buf = pes[probe] /\ UNCHANGED <<buf, raw>>
    BY <1>5 DEF Delete, DeleteFails, At, HeldInv, WholeInv, Loading, InDownload, image, database
  <2>2. CASE Delete
    <3>1. pes'[probe] = {} /\ \A s \in Sensors \ {probe} : pes'[s] = pes[s]
      BY <2>1, <2>2 DEF Delete, TypeOK, WorldType
    <3>2. \A s \in Sensors \ {probe} : pes[probe] \cap pes[s] = {}
      BY <2>1 DEF HeldInv
    <3>3. \A s \in Sensors : buf \cap pes'[s] = {}
      BY <2>1, <3>1, <3>2
    <3>4. QED
      BY <2>1, <3>1, <3>3 DEF OnceInv, Rows
  <2>3. CASE DeleteFails
    BY <1>2, <2>1, <2>3 DEF DeleteFails, At, InDownload, Saving
  <2>4. QED
    BY <1>5, <2>2, <2>3
<1>6. CASE SaveBlob
  <2>1. /\ Saving /\ fm' = "m_parsedata" /\ UNCHANGED pes
    BY <1>6, SaveStep DEF Saving
  <2>2. \A i \in Rows' : raw'[i].evs \subseteq buf \/ (i \in Rows /\ raw'[i] = raw[i])
    <3>1. CASE dbopen = 1
      <4>1. \A i \in Rows' : i \in Rows \/ i = Len(raw) + 1
        BY <1>6, <3>1, SaveStep DEF Rows
      <4>2. Stored(buf) \subseteq buf
        BY OldestSubset DEF Stored
      <4>3. QED
        BY <1>6, <3>1, <4>1, <4>2, SaveStep
    <3>2. CASE dbopen # 1
      BY <1>6, <3>2, SaveStep DEF Rows
    <3>3. QED
      BY <3>1, <3>2
  <2>3. QED
    BY <2>1, <2>2 DEF OnceInv, InDownload, Saving
<1>7. CASE Transfer
  <2>1. /\ fm' \in {"m_parsedata", "m_checkserver"}
    BY <1>7 DEF Transfer, ParseDone, ParseFails, Parse, At
  <2>2. QED
    BY <1>7, <2>1, TransferStep DEF OnceInv, InDownload, Saving
<1>8. ASSUME NEW s \in Sensors, Record(s) PROVE OnceInv'
  <2>1. /\ Len(recordedBy) + 1 \notin Recorded
        /\ \A t \in Sensors : pes'[t] \subseteq pes[t] \union {Len(recordedBy) + 1}
    <3>1. Len(recordedBy) \in Nat
      BY LenProperties DEF TypeOK, WorldType
    <3>2. QED
      BY <1>8, <3>1, RecordStep DEF TypeOK, WorldType, Recorded
  <2>2. buf \subseteq Recorded /\ UNCHANGED <<fm, buf, raw>>
    BY <1>8, RecordStep DEF TypeOK, MemoryType
  <2>3. QED
    BY <1>3, <2>1, <2>2 DEF OnceInv, InDownload, Saving, Rows
<1>9. CASE ReadyToDelete \/ NotReadyToDelete \/ SetTime \/ BeepOk
  BY <1>2, <1>9
     DEF ReadyToDelete, NotReadyToDelete, SetTime, BeepOk, At, InDownload, Saving, image,
         database, world
<1>10. CASE ReadHeader
  BY <1>2, <1>10 DEF ReadHeader, InDownload, Saving, database, world
<1>11. CASE ReadImageFails \/ Start \/ StartFails \/ ServerMissed \/ ServerError
            \/ AdapterFound \/ AdapterMute \/ SensorSeen \/ NoSensorSeen
  BY <1>1, <1>11
     DEF ReadImageFails, AfterFailedRead, Start, StartFails, ServerMissed, ServerError,
         AdapterFound, AdapterMute, SensorSeen, NoSensorSeen, At, DownloadStates, database, world
<1>12. CASE Joined
  BY <1>1, <1>12 DEF Joined, BlinkInv, DownloadStates, database, world
<1>13. CASE ServerFound \/ ServerOk
  BY <1>1, <1>13
     DEF ServerFound, ServerOk, StopBlinkingThen, At, DownloadStates, database, world
<1>14. CASE ResendRequest
  <2>1. fm' = "m_parsedata" /\ UNCHANGED <<pes, raw>>
    BY <1>14 DEF ResendRequest, Resend, database, world
  <2>2. QED
    BY <2>1 DEF OnceInv, InDownload, Saving, Rows
<1>15. CASE NothingMissing \/ MissingUnanswered \/ AdapterError
            \/ \E answered \in BOOLEAN : AdapterToPython(answered) \/ ServerTime(answered)
  BY <1>1, <1>15
     DEF NothingMissing, MissingUnanswered, AdapterError, Ends, AdapterToPython, ServerTime,
         DownloadStates, database, world
<1>16. CASE ServerTimeCrashes \/ ResendCrashes \/ Killed \/ Restarted
  BY <1>1, <1>16 DEF ServerTimeCrashes, ResendCrashes, Killed, Restarted, Ends, DownloadStates,
       database, world
<1>17. CASE BlinkerExits \/ TakeOff \/ (\E s \in Sensors : PutOn(s)) \/ UNCHANGED vars
  BY <1>2, <1>17
     DEF BlinkerExits, TakeOff, PutOn, vars, image, database, world, InDownload, Saving
<1>18. QED
  BY <1>4, <1>5, <1>6, <1>7, <1>8, <1>9, <1>10, <1>11, <1>12, <1>13, <1>14, <1>15, <1>16, <1>17
     DEF Next, LocalStep, DialogueStep, User

LEMMA SendInit == Init => SendInv
<1> SUFFICES ASSUME Init PROVE SendInv
  OBVIOUS
<1>1. Rows = {}
  BY EmptySeq DEF Init, Rows
<1>2. QED
  BY <1>1 DEF Init, SendInv

(* A new row announces what it has; a mark changes neither.                *)
LEMMA SavedSize ==
    ASSUME TypeOK, SaveBlob, dbopen = 1
    PROVE  raw'[Len(raw) + 1].firstfree = firstfree
<1>1. [evs |-> Stored(buf), firstfree |-> firstfree, tok |-> 0] \in Row
  BY OldestSubset DEF TypeOK, MemoryType, Row, Stored
<1>2. QED
  BY <1>1, AppendProperties DEF SaveBlob, TypeOK, WorldType

LEMMA MarkedSize ==
    ASSUME TypeOK, Transfer
    PROVE  \A i \in Rows : raw'[i].firstfree = raw[i].firstfree
<1>1. raw' = raw \/ (evtSyn \in Rows /\ raw' = [raw EXCEPT ![evtSyn].tok = 1])
  BY DEF Transfer, ParseDone, ParseFails, database
<1>2. raw \in [Rows -> Row]
  BY LenProperties DEF TypeOK, WorldType, Rows
<1>3. ASSUME NEW i \in Rows PROVE raw'[i].firstfree = raw[i].firstfree
  <2>1. raw[i] \in Row
    BY <1>2
  <2>2. QED
    BY <1>1, <1>2, <2>1 DEF Row
<1>4. QED
  BY <1>3

LEMMA SendNext ==
    ASSUME MaxEvents <= BLOBSIZE, "lift" \notin Hazards, "shortread" \notin Hazards,
           "adapterdown" \notin Hazards
    PROVE  TypeOK /\ BlinkInv /\ DbInv /\ WholeInv /\ Few /\ SendInv /\ [Next]_vars => SendInv'
<1> SUFFICES ASSUME TypeOK, BlinkInv, DbInv, WholeInv, Few, SendInv, [Next]_vars PROVE SendInv'
  OBVIOUS
<1>1. CASE SaveBlob
  <2>1. dbopen = 1 /\ InDownload
    BY <1>1 DEF SaveBlob, At, DbInv, TypeOK, MemoryType, InDownload
  <2>2. Stored(buf) = buf
    BY StoredWhole, LenProperties DEF Few, TypeOK, MemoryType, WorldType
  <2>3. buf # {} /\ firstfree = Cardinality(buf)
    BY <2>1 DEF WholeInv
  <2>4. /\ Len(raw) \in Nat /\ Len(raw') = Len(raw) + 1
        /\ \A i \in Rows : raw'[i] = raw[i]
        /\ raw'[Len(raw) + 1].evs = buf /\ raw'[Len(raw) + 1].firstfree = firstfree
        /\ idSyn' = Len(raw) + 1 /\ UNCHANGED <<buf, firstfree>>
    BY <1>1, <2>1, <2>2, SaveStep, SavedSize
  <2>5. idSyn' \in Rows' /\ \A i \in Rows' : i \in Rows \/ i = Len(raw) + 1
    BY <2>4 DEF Rows
  <2>6. QED
    BY <2>3, <2>4, <2>5 DEF SendInv
<1>2. CASE Transfer
  BY <1>2, TransferStep, MarkedSize DEF SendInv
<1>3. CASE ResendRequest
  <2>1. PICK id \in Rows : Resend(id)
    BY <1>3 DEF ResendRequest
  <2>2. dbopen = 1
    BY <2>1 DEF Resend, At, DbInv, TypeOK, MemoryType
  <2>3. /\ idSyn' = id /\ buf' = raw[id].evs /\ firstfree' = raw[id].firstfree
        /\ UNCHANGED raw
    BY <2>1, <2>2 DEF Resend, ImageOf, database
  <2>4. QED
    BY <2>3 DEF SendInv, Rows
<1>4. CASE ~SaveBlob /\ ~Transfer /\ ~ResendRequest
  <2>1. UNCHANGED raw
    BY <1>4, OnlySavingAndParsingStore
  <2>2. fm' = "m_parsedata" => UNCHANGED <<fm, idSyn, buf, firstfree>>
    <3> SUFFICES ASSUME fm' = "m_parsedata" PROVE UNCHANGED <<fm, idSyn, buf, firstfree>>
      OBVIOUS
    <3>1. fm = "m_parsedata" /\ UNCHANGED <<idSyn, buf>>
      BY <1>4, WaysToParse
    <3>2. UNCHANGED firstfree
      BY <1>4, <3>1
         DEF Next, LocalStep, DialogueStep, User, Start, StartFails, Joined, BlinkInv, ServerError,
             ServerOk, AdapterFound, AdapterMute, SensorSeen, NoSensorSeen, ReadHeader, ReadImage,
             ReadImageFails, ReadyToDelete, NotReadyToDelete, Delete, DeleteFails, SetTime, BeepOk,
             ServerFound, ServerMissed, NothingMissing, MissingUnanswered, AdapterError,
             AdapterToPython, ServerTime, ServerTimeCrashes, ResendCrashes, BlinkerExits,
             Killed, Restarted,
             TakeOff, PutOn, Record, At, vars, image
    <3>3. QED
      BY <3>1, <3>2
  <2>3. QED
    BY <2>1, <2>2 DEF SendInv, Rows
<1>5. QED
  BY <1>1, <1>2, <1>3, <1>4

(* The table and the server, as Relay sees them.                           *)
LEMMA TableIs ==
    ASSUME TypeOK
    PROVE  /\ DOMAIN InTable = Rows /\ Rows = 1 .. Len(raw) /\ Len(raw) \in Nat
           /\ \A i \in Rows : InTable[i] = raw[i].evs
           /\ InTable \in Seq(SUBSET Recorded) /\ Len(InTable) = Len(raw)
<1>1. Len(raw) \in Nat /\ \A i \in Rows : raw[i].evs \in SUBSET Recorded
  BY RowsOfRaw, LengthOfRaw DEF TypeOK
<1>2. InTable \in [1 .. Len(raw) -> SUBSET Recorded]
  BY <1>1 DEF InTable, Rows
<1>3. InTable \in Seq(SUBSET Recorded) /\ Len(InTable) = Len(raw)
  <2>1. InTable \in Seq(SUBSET Recorded)
    BY <1>1, <1>2, SeqDef
  <2>2. 1 .. Len(InTable) = 1 .. Len(raw) /\ Len(InTable) \in Nat
    BY <1>2, <2>1, LenProperties
  <2>3. QED
    BY <1>1, <2>1, <2>2
<1>4. QED
  BY <1>1, <1>3 DEF InTable, Rows

LEMMA RelayInit == Init => R!Init
<1> SUFFICES ASSUME Init PROVE R!Init
  OBVIOUS
<1>1. Len(raw) = 0 /\ Rows = {}
  BY EmptySeq DEF Init, Rows
<1>2. InTable = <<>>
  BY <1>1 DEF InTable
<1>3. QED
  BY <1>2 DEF Init, R!Init, InHand, InDownload, Received

(* Nothing moves.                                                          *)
LEMMA RelayStays ==
    ASSUME UNCHANGED <<pes, raw, server, crashes>>, InHand' = InHand
    PROVE  UNCHANGED R!vars
BY DEF R!vars, InTable, Received, Rows

LEMMA RelayTakes ==
    ASSUME TypeOK, HeldInv, WholeInv, "shortread" \notin Hazards, ReadImage
    PROVE  \E s \in Sensors : R!Take(s)
<1>1. /\ fm = "m_readp3" /\ fm' = "m_prepdelp3" /\ buf' = Oldest(pes[probe], firstfree)
      /\ UNCHANGED <<pes, raw, server, crashes>>
  BY DEF ReadImage, At, world, database
<1>2. probe \in Sensors /\ firstfree = Cardinality(pes[probe]) /\ firstfree > 0
  BY <1>1 DEF HeldInv, WholeInv, Loading
<1>3. pes[probe] \in SUBSET Recorded
  BY <1>2 DEF TypeOK, WorldType
<1>4. buf' = pes[probe] /\ pes[probe] # {}
  BY <1>1, <1>2, <1>3, OldestAll, FS_EmptySet
<1>5. InHand = {} /\ InHand' = pes[probe]
  BY <1>1, <1>4 DEF InHand, InDownload
<1>6. R!Take(probe)
  BY <1>1, <1>4, <1>5 DEF R!Take, InTable, Received, Rows
<1>7. QED
  BY <1>2, <1>6

(* What is in hand before the deletion is what the sensor has.             *)
LEMMA StillOnSensor ==
    ASSUME HeldInv, WholeInv, "lostreply" \notin Hazards, fm \in {"m_prepdelp3", "m_deletep3"}
    PROVE  probe \in Sensors /\ InHand = buf /\ buf # {} /\ buf = pes[probe]
BY DEF HeldInv, WholeInv, Loading, InDownload, InHand

(* A deletion that is not done leaves the image in hand, or gives it up.   *)
LEMMA RelayGivesUp ==
    ASSUME HeldInv, WholeInv, "lostreply" \notin Hazards, NotReadyToDelete \/ DeleteFails
    PROVE  (\E s \in Sensors : R!GiveUp(s)) \/ UNCHANGED R!vars
<1>1. /\ fm \in {"m_prepdelp3", "m_deletep3"}
      /\ fm' = fm \/ fm' \in {"m_checkserver", "m_adapterError"}
      /\ UNCHANGED <<pes, raw, server, crashes, buf>>
  BY DEF NotReadyToDelete, DeleteFails, At, image, database, world
<1>2. probe \in Sensors /\ InHand = buf /\ buf # {} /\ buf = pes[probe]
  BY <1>1, StillOnSensor
<1>3. CASE fm' = fm
  <2>1. InHand' = InHand
    BY <1>1, <1>3 DEF InHand, InDownload
  <2>2. QED
    BY <1>1, <2>1, RelayStays
<1>4. CASE fm' \in {"m_checkserver", "m_adapterError"}
  <2>1. InHand' = {}
    BY <1>4 DEF InHand, InDownload
  <2>2. R!GiveUp(probe)
    BY <1>1, <1>2, <2>1 DEF R!GiveUp, InTable, Received, Rows
  <2>3. QED
    BY <1>2, <2>2
<1>5. QED
  BY <1>1, <1>3, <1>4

LEMMA RelayErases ==
    ASSUME HeldInv, WholeInv, "lostreply" \notin Hazards, Delete
    PROVE  \E s \in Sensors : R!Erase(s)
<1>1. /\ fm = "m_deletep3" /\ fm' = "m_settimep3" /\ pes' = [pes EXCEPT ![probe] = {}]
      /\ UNCHANGED <<raw, server, crashes, buf>>
  BY DEF Delete, At, image, database
<1>2. probe \in Sensors /\ InHand = buf /\ buf # {} /\ buf = pes[probe]
  BY <1>1, StillOnSensor
<1>3. InHand' = InHand
  BY <1>1, <1>2 DEF InHand, InDownload
<1>4. R!Erase(probe)
  BY <1>1, <1>2, <1>3 DEF R!Erase, InTable, Received, Rows
<1>5. QED
  BY <1>2, <1>4

LEMMA RelayStores ==
    ASSUME MaxEvents <= BLOBSIZE, TypeOK, TypeOK', DbInv, WholeInv, OnceInv, Few, SaveBlob
    PROVE  R!Store
<1>1. dbopen = 1 /\ InDownload /\ Saving /\ fm' = "m_parsedata"
  BY DEF SaveBlob, At, DbInv, TypeOK, MemoryType, InDownload, Saving
<1>2. Stored(buf) = buf
  BY StoredWhole, LenProperties DEF Few, TypeOK, MemoryType, WorldType
<1>3. /\ Len(raw) \in Nat /\ Len(raw') = Len(raw) + 1
      /\ \A i \in Rows : raw'[i] = raw[i]
      /\ raw'[Len(raw) + 1].evs = buf
      /\ UNCHANGED <<pes, crashes, server>>
  BY <1>1, <1>2, SaveStep
<1>4. InHand = buf /\ InHand' = {} /\ buf # {}
  BY <1>1 DEF InHand, InDownload, WholeInv
<1>5. ~R!OnSensors(buf) /\ ~R!InRows(buf)
  BY <1>1, TableIs DEF OnceInv, R!OnSensors, R!InRows
<1>6. InTable' = Append(InTable, buf)
  <2>1. /\ InTable \in Seq(SUBSET Recorded) /\ Len(InTable) = Len(raw)
        /\ buf \in SUBSET Recorded
    BY TableIs DEF TypeOK, MemoryType
  <2> DEFINE t == Append(InTable, buf)
  <2>2. /\ t \in Seq(SUBSET Recorded) /\ Len(t) = Len(raw) + 1
        /\ \A i \in Rows : t[i] = InTable[i]
        /\ t[Len(raw) + 1] = buf
    BY <2>1, AppendProperties DEF Rows
  <2>3. t \in [1 .. Len(raw) + 1 -> SUBSET Recorded]
    BY <2>2, LenProperties
  <2> HIDE DEF t
  <2>4. InTable' = [i \in 1 .. Len(raw) + 1 |-> raw'[i].evs]
    BY <1>3 DEF InTable, Rows
  <2>5. \A i \in 1 .. Len(raw) + 1 : i \in Rows \/ i = Len(raw) + 1
    BY <1>3 DEF Rows
  <2>6. \A i \in 1 .. Len(raw) + 1 : raw'[i].evs = t[i]
    BY <1>3, <2>2, <2>5 DEF InTable
  <2>7. InTable' = t
    BY <2>3, <2>4, <2>6
  <2>8. QED
    BY <2>7 DEF t
<1>7. QED
  BY <1>3, <1>4, <1>5, <1>6 DEF R!Store, Received

(* A transfer brings a row, all of it or nothing.                          *)
LEMMA RelayDelivers ==
    ASSUME "unconfirmed" \notin Hazards, TypeOK, SendInv, Transfer
    PROVE  (\E i \in DOMAIN InTable : R!Deliver(i)) \/ UNCHANGED R!vars
<1>1. PICK sent \in {{}, Parsed} : ParseDone(sent) \/ ParseFails(sent)
  BY DEF Transfer
<1>2. /\ fm = "m_parsedata" /\ fm' \in {"m_parsedata", "m_checkserver"}
      /\ UNCHANGED <<pes, crashes>>
  BY <1>1 DEF ParseDone, ParseFails, Parse, At, world
<1>3. InHand = {} /\ InHand' = {}
  BY <1>2 DEF InHand, InDownload
<1>4. InTable' = InTable
  BY TransferStep DEF InTable
<1>5. idSyn \in Rows /\ InTable[idSyn] = buf
  BY <1>2 DEF SendInv, InTable
<1>6. Parsed = buf
  <2>1. firstfree = Cardinality(buf) /\ buf # {} /\ buf \in SUBSET Recorded
    BY <1>2 DEF SendInv, TypeOK, MemoryType
  <2>2. firstfree # 0
    BY <2>1, RecordedFinite, FS_EmptySet
  <2>3. QED
    BY <2>1, <2>2, OldestAll DEF Parsed
<1>7. CASE sent = {}
  <2>1. server' = server
    BY <1>1, <1>7 DEF ParseDone, ParseFails, Parse
  <2>2. QED
    BY <1>2, <1>3, <1>4, <2>1 DEF R!vars, Received
<1>8. CASE sent # {}
  <2>1. server' = server \union {[syn |-> idSyn, pes |-> serial, evs |-> buf]}
    BY <1>1, <1>6, <1>8 DEF ParseDone, ParseFails, Parse
  <2>2. Received' = Received \union {<<idSyn, InTable[idSyn]>>}
    <3> DEFINE r == [syn |-> idSyn, pes |-> serial, evs |-> buf]
    <3>1. r.syn = idSyn /\ r.evs = InTable[idSyn]
      BY <1>5
    <3> HIDE DEF r
    <3>2. server' = server \union {r}
      BY <2>1 DEF r
    <3>3. {<<m.syn, m.evs>> : m \in server \union {r}}
            = {<<m.syn, m.evs>> : m \in server} \union {<<r.syn, r.evs>>}
      OBVIOUS
    <3>4. QED
      BY <3>1, <3>2, <3>3 DEF Received
  <2>3. R!Deliver(idSyn)
    BY <1>2, <1>3, <1>4, <2>2 DEF R!Deliver
  <2>4. QED
    BY <1>5, <2>3 DEF InTable
<1>9. QED
  BY <1>7, <1>8

LEMMA RelayRecords ==
    ASSUME TypeOK, NEW s \in Sensors, Record(s)
    PROVE  R!Record(s)
<1> DEFINE e == Len(recordedBy) + 1
<1>1. Len(recordedBy) \in Nat /\ Len(recordedBy) < MaxEvents
  BY LenProperties DEF Record, TypeOK, WorldType
<1>2. e \in 1 .. MaxEvents /\ e \notin Recorded
  BY <1>1, BoundsAssumption DEF Recorded
<1> HIDE DEF e
<1>3. ~R!OnSensors({e})
  BY <1>2 DEF R!OnSensors, TypeOK, WorldType
<1>4. e \notin InHand
  BY <1>2 DEF InHand, TypeOK, MemoryType
<1>5. ~R!InRows({e})
  BY <1>2, TableIs, RowsOfRaw DEF R!InRows, TypeOK
<1>6. /\ pes' = [pes EXCEPT ![s] = @ \union {e}]
      /\ UNCHANGED <<fm, buf, raw, server, crashes>>
  BY RecordStep DEF e
<1>7. QED
  BY <1>2, <1>3, <1>4, <1>5, <1>6 DEF R!Record, InHand, InDownload, InTable, Received, Rows

LEMMA RelayKilled == Killed => R!Killed
BY DEF Killed, Ends, R!Killed, InHand, InDownload, InTable, Received, Rows, database, world

LEMMA RelayNext ==
    ASSUME MaxEvents <= BLOBSIZE, "lift" \notin Hazards, "shortread" \notin Hazards,
           "lostreply" \notin Hazards, "adapterdown" \notin Hazards,
           "unconfirmed" \notin Hazards
    PROVE  TypeOK /\ TypeOK' /\ BlinkInv /\ DbInv /\ HeldInv /\ WholeInv /\ Few /\ OnceInv
             /\ SendInv /\ [Next]_vars => [R!Next]_(R!vars)
<1> SUFFICES ASSUME TypeOK, TypeOK', BlinkInv, DbInv, HeldInv, WholeInv, Few, OnceInv, SendInv,
                    [Next]_vars
             PROVE  R!Next \/ UNCHANGED R!vars
  OBVIOUS
<1>1. CASE ReadImage
  BY <1>1, RelayTakes DEF R!Next
<1>2. CASE NotReadyToDelete \/ DeleteFails
  BY <1>2, RelayGivesUp DEF R!Next
<1>3. CASE Delete
  BY <1>3, RelayErases DEF R!Next
<1>4. CASE SaveBlob
  BY <1>4, RelayStores DEF R!Next
<1>5. CASE Transfer
  BY <1>5, RelayDelivers DEF R!Next
<1>6. ASSUME NEW s \in Sensors, Record(s) PROVE R!Next
  BY <1>6, RelayRecords DEF R!Next
<1>7. CASE Killed
  BY <1>7, RelayKilled DEF R!Next
(* The image stays in hand, or nothing was.                                *)
<1>8. ASSUME UNCHANGED <<pes, raw, server, crashes>>,
             UNCHANGED <<fm, buf>> \/ (InDownload /\ InDownload' /\ UNCHANGED buf)
               \/ (~InDownload /\ ~InDownload')
      PROVE  UNCHANGED R!vars
  <2>1. InHand' = InHand
    BY <1>8 DEF InHand, InDownload
  <2>2. QED
    BY <1>8, <2>1, RelayStays
<1>9. CASE ReadyToDelete \/ SetTime \/ BeepOk
  BY <1>8, <1>9
     DEF ReadyToDelete, SetTime, BeepOk, At, InDownload, image, database, world
<1>10. CASE ReadHeader \/ ReadImageFails \/ Start \/ StartFails \/ ServerMissed \/ ServerError
            \/ AdapterFound \/ AdapterMute \/ SensorSeen \/ NoSensorSeen
  BY <1>8, <1>10
     DEF ReadHeader, ReadImageFails, AfterFailedRead, Start, StartFails, ServerMissed, ServerError,
         AdapterFound, AdapterMute, SensorSeen, NoSensorSeen, At, InDownload, database, world
<1>11. CASE Joined
  BY <1>8, <1>11 DEF Joined, BlinkInv, InDownload, database, world
<1>12. CASE ServerFound \/ ServerOk
  BY <1>8, <1>12
     DEF ServerFound, ServerOk, StopBlinkingThen, At, InDownload, database, world
<1>13. CASE ResendRequest \/ NothingMissing \/ MissingUnanswered \/ AdapterError
            \/ \E answered \in BOOLEAN : AdapterToPython(answered) \/ ServerTime(answered)
  BY <1>8, <1>13
     DEF ResendRequest, Resend, NothingMissing, MissingUnanswered, AdapterError, Ends,
         AdapterToPython, ServerTime, At, InDownload, database, world
<1>14. CASE ServerTimeCrashes \/ ResendCrashes \/ Restarted
  BY <1>8, <1>14 DEF ServerTimeCrashes, ResendCrashes, Restarted, Ends, At, InDownload,
       database, world
<1>15. CASE BlinkerExits \/ TakeOff \/ (\E s \in Sensors : PutOn(s)) \/ UNCHANGED vars
  BY <1>8, <1>15 DEF BlinkerExits, TakeOff, PutOn, vars, image, database, world
<1>16. QED
  BY <1>1, <1>2, <1>3, <1>4, <1>5, <1>6, <1>7, <1>9, <1>10, <1>11, <1>12, <1>13, <1>14, <1>15
     DEF Next, LocalStep, DialogueStep, User

(* Every step of simple is a step of Relay or none, through retries,       *)
(* resends, restarts and kills: while the user holds the sensor still, no  *)
(* page is missing, no reply of the deletion is lost, the adapter opens at *)
(* the start and success is what happened, an event gets at most one row,  *)
(* a row goes to the server whole, and only a kill loses what is in hand.  *)
THEOREM RelayImplemented ==
    ASSUME MaxEvents <= BLOBSIZE, "lift" \notin Hazards, "shortread" \notin Hazards,
           "lostreply" \notin Hazards, "adapterdown" \notin Hazards,
           "unconfirmed" \notin Hazards
    PROVE  Spec => Relays
<1>1. DbInv /\ BlinkInv /\ [Next]_vars => DbInv'
  BY DbNext
<1>2. TypeOK /\ BlinkInv /\ HeldInv /\ WholeInv /\ OnceInv /\ [Next]_vars => OnceInv'
  BY OnceNext
<1>3. TypeOK /\ BlinkInv /\ DbInv /\ WholeInv /\ Few /\ SendInv /\ [Next]_vars => SendInv'
  BY SendNext
<1>4. TypeOK /\ TypeOK' /\ BlinkInv /\ DbInv /\ HeldInv /\ WholeInv /\ Few /\ OnceInv
        /\ SendInv /\ [Next]_vars => [R!Next]_(R!vars)
  BY RelayNext
<1>5. QED
  BY <1>1, <1>2, <1>3, <1>4, RelayInit, DbInit, OnceInit, SendInit, FewEvents, Whole, PTL
     DEF Spec, Relays, R!Spec
================================================================================
