---------------------------- MODULE ExchangeProofs ----------------------------
(***************************************************************************)
(* Proofs about Exchange for every number of chunks and attempts, any size *)
(* of the answers and of the queue, and any number of faults.              *)
(***************************************************************************)
EXTENDS Exchange, TLAPS

(* Where the loop is and what it asks for go together: a reconnect returns *)
(* to the case that called it.                                             *)
Placed(s, a, c) ==
    LET own(orders) == a \in orders /\ c = "nobody"
        asked(callers) == a \in {"media", "type"} /\ c \in callers
    IN  CASE s = "m_waitforadapter" -> own({"number"})
          [] s = "m_waitforpes"   -> asked({"is_p3"})
          [] s = "m_readp3header" -> own({"chunk", "count"}) \/ asked({"chunk"})
          [] s = "m_readp3"       -> own({"tour"})
          [] s = "m_prepdelp3"    -> \/ own({"touch", "touch again", "number"})
                                     \/ asked({"touch again", "touch", "m_prepdelp3"})
          [] s = "m_deletep3"     -> own({"delete"}) \/ asked({"p3_delete", "m_deletep3"})
          [] s = "m_settimep3"    -> own({"settime"}) \/ asked({"m_settimep3"})
          [] s = "m_beepok"       -> own({"beep"}) \/ asked({"p3_beep_ok"})
          [] OTHER                -> own({"none"})

(* The attempts that are left, and the passes of chip_touch().             *)
Bounded ==
    /\ st = "m_prepdelp3" => iSat <= DELETE_ATT + (IF at = "number" THEN 2 ELSE 1)
    /\ st = "m_deletep3" => iSat <= DELETE_ATT + 1
    /\ at = "touch" => touches = 0
    /\ at = "touch again" => touches < TOUCHES

Led ==
    /\ st \in Cases /\ at \in Orders /\ caller \in Callers
    /\ chunk \in 0 .. CHUNKS - 1
    /\ iWaitCnt \in 0 .. SYNCHROTIMEWAIT + 1
    /\ iSat \in 0 .. DELETE_ATT + 2
    /\ touches \in 0 .. TOUCHES
    /\ Placed(st, at, caller)
    /\ Bounded

Wired ==
    /\ stale \in 0 .. MaxStale
    /\ power \in BOOLEAN /\ plugged \in BOOLEAN /\ attached \in BOOLEAN
    /\ faults \in 0 .. MaxFaults
    /\ erased \in BOOLEAN
    /\ number \in {"none", "adapter", "queue"}

IInv == Led /\ Wired

LEMMA InvTypes == IInv => TypeOK
BY DEF IInv, Led, Wired, TypeOK

LEMMA InvInit == Init => IInv
<1> SUFFICES ASSUME Init PROVE IInv
  OBVIOUS
<1>1. Bounded /\ Placed(st, at, caller)
  BY DEF Init, Bounded, Placed
<1>2. Led
  BY <1>1, SizesAssumption DEF Init, Led, Cases, Orders, Callers
<1>3. Wired
  <2>1. 0 \in 0 .. MaxStale /\ 0 \in 0 .. MaxFaults
    BY BoundsAssumption
  <2>2. QED
    BY <2>1, Zenon DEF Init, Wired
<1>4. QED
  BY <1>2, <1>3 DEF IInv

(* The line, whatever is asked.                                            *)
LEMMA CappedTyped ==
    ASSUME NEW n \in Nat
    PROVE  Capped(n) \in 0 .. MaxStale
BY BoundsAssumption DEF Capped

LEMMA ExchangedTyped ==
    ASSUME Wired, NEW n \in Nat, NEW true \in BOOLEAN, NEW res, NEW done,
           Exchanged(n, true, res, done)
    PROVE  /\ stale' \in 0 .. MaxStale /\ faults' \in 0 .. MaxFaults
           /\ res \in Results
<1>1. stale \in 0 .. MaxStale /\ faults \in 0 .. MaxFaults
      /\ MaxStale \in Nat /\ MaxFaults \in Nat
  BY BoundsAssumption DEF Wired
<1>2. ReadOld(n, res) => stale' \in 0 .. MaxStale /\ res \in Results
  BY <1>1 DEF ReadOld, Found, Results
<1>3. Fault => faults' \in 0 .. MaxFaults
  BY <1>1 DEF Fault
<1>4. Capped(n) \in 0 .. MaxStale
  BY CappedTyped
<1>5. Said(true) \in Results /\ Found \subseteq Results
  BY DEF Said, Found, Results
<1>6. "none" \in Results /\ "bad" \in Results
  BY DEF Results
<1>7. QED
  BY <1>1, <1>2, <1>3, <1>4, <1>5, <1>6 DEF Exchanged, wire

LEMMA NumberReadTyped ==
    ASSUME Wired, NEW res, NumberRead(res)
    PROVE  /\ stale' \in 0 .. MaxStale /\ faults' \in 0 .. MaxFaults
           /\ number' \in {"none", "adapter", "queue"}
<1>1. /\ stale \in 0 .. MaxStale /\ faults \in 0 .. MaxFaults
      /\ MaxStale \in Nat /\ MaxFaults \in Nat /\ NUMBER \in Nat \ {0}
      /\ number \in {"none", "adapter", "queue"}
  BY BoundsAssumption, SizesAssumption DEF Wired
<1>2. Fault => faults' \in 0 .. MaxFaults
  BY <1>1 DEF Fault
<1>3. stale + NUMBER - 1 \in Nat
  BY <1>1
<1>4. /\ Capped(stale + NUMBER - 1) \in 0 .. MaxStale
      /\ Capped(1) \in 0 .. MaxStale /\ Capped(NUMBER) \in 0 .. MaxStale
  BY <1>1, <1>3, CappedTyped
<1>5. QED
  BY <1>1, <1>2, <1>4 DEF NumberRead, wire

(* Where the code goes on.                                                 *)
LEMMA Goes ==
    ASSUME Led, UNCHANGED counters
    PROVE  ToAdapter \/ Away \/ ToSetTime \/ Go("m_readp3", "tour")
             \/ Go("m_beepok", "beep") \/ Go("m_adapterError", "none") => Led'
BY DEF Led, counters, ToAdapter, Away, ToSetTime, Go, Call, Cases, Orders, Callers,
       Placed, Bounded

(* Which case an order and a caller belong to.                             *)
LEMMA PlacedMeans ==
    ASSUME Led
    PROVE  /\ caller = "is_p3" => st = "m_waitforpes"
           /\ caller = "chunk" => st = "m_readp3header"
           /\ caller \in {"touch again", "touch", "m_prepdelp3"} => st = "m_prepdelp3"
           /\ caller \in {"p3_delete", "m_deletep3"} => st = "m_deletep3"
           /\ caller = "m_settimep3" => st = "m_settimep3"
           /\ caller = "p3_beep_ok" => st = "m_beepok"
           /\ at \in {"media", "type"} => caller # "nobody"
           /\ at \in {"chunk", "count"} => st = "m_readp3header"
           /\ at = "tour" => st = "m_readp3"
           /\ at \in {"touch", "touch again"} => st = "m_prepdelp3"
           /\ at = "delete" => st = "m_deletep3"
           /\ at = "settime" => st = "m_settimep3"
           /\ at = "beep" => st = "m_beepok"
           /\ at \notin {"media", "type"} => caller = "nobody"
BY DEF Led, Placed, Cases

(* A step to a place that is one, with its counters in their bounds.       *)
LEMMA Arrived ==
    ASSUME NEW s \in Cases, NEW a \in Orders, NEW c \in Callers,
           st' = s, at' = a, caller' = c, Placed(s, a, c),
           chunk' \in 0 .. CHUNKS - 1, iWaitCnt' \in 0 .. SYNCHROTIMEWAIT + 1,
           iSat' \in 0 .. DELETE_ATT + 2, touches' \in 0 .. TOUCHES,
           s = "m_prepdelp3" => iSat' <= DELETE_ATT + (IF a = "number" THEN 2 ELSE 1),
           s = "m_deletep3" => iSat' <= DELETE_ATT + 1,
           a = "touch" => touches' = 0,
           a = "touch again" => touches' < TOUCHES
    PROVE  Led'
BY DEF Led, Bounded

LEMMA ChunkTakenLed ==
    ASSUME Led, ChunkTaken, st = "m_readp3header", UNCHANGED <<iWaitCnt, iSat, touches>>
    PROVE  Led'
<1>1. /\ chunk \in 0 .. CHUNKS - 1 /\ iWaitCnt' \in 0 .. SYNCHROTIMEWAIT + 1
      /\ iSat' \in 0 .. DELETE_ATT + 2 /\ touches' \in 0 .. TOUCHES
  BY DEF Led
<1>2. CASE chunk = CHUNKS - 1 /\ ToAdapter /\ UNCHANGED chunk
  BY <1>2, Goes DEF counters
<1>3. CASE chunk < CHUNKS - 1 /\ Go(st, "chunk") /\ chunk' = chunk + 1
  <2>1. chunk' \in 0 .. CHUNKS - 1
    BY <1>1, <1>3, SizesAssumption
  <2>2. st' = "m_readp3header" /\ at' = "chunk" /\ caller' = "nobody"
    BY <1>3 DEF Go, Call
  <2>3. Placed("m_readp3header", "chunk", "nobody")
    BY DEF Placed
  <2>4. "m_readp3header" \in Cases /\ "chunk" \in Orders /\ "nobody" \in Callers
    BY DEF Cases, Orders, Callers
  <2>5. QED
    BY <1>1, <2>1, <2>2, <2>3, <2>4, Arrived
<1>4. CASE chunk = CHUNKS - 1 /\ Go(st, "count") /\ UNCHANGED chunk
  <2>1. st' = "m_readp3header" /\ at' = "count" /\ caller' = "nobody"
    BY <1>4 DEF Go, Call
  <2>2. Placed("m_readp3header", "count", "nobody")
    BY DEF Placed
  <2>3. "m_readp3header" \in Cases /\ "count" \in Orders /\ "nobody" \in Callers
    BY DEF Cases, Orders, Callers
  <2>4. QED
    BY <1>1, <1>4, <2>1, <2>2, <2>3, Arrived
<1>5. QED
  BY <1>2, <1>3, <1>4 DEF ChunkTaken

(* Whoever asked for the sensor goes on.                                   *)
LEMMA IsP3Led ==
    ASSUME Led, at \in {"media", "type"}, NEW found \in BOOLEAN, IsP3(found)
    PROVE  Led'
<1>1. /\ chunk \in 0 .. CHUNKS - 1 /\ iWaitCnt \in 0 .. SYNCHROTIMEWAIT + 1
      /\ iSat' \in 0 .. DELETE_ATT + 2 /\ touches' \in 0 .. TOUCHES
  BY DEF Led, IsP3
<1>2. CASE found
  <2>1. /\ st' = "m_readp3header" /\ at' = "chunk" /\ caller' = "nobody"
        /\ chunk' = 0 /\ iWaitCnt' = iWaitCnt
    BY <1>2 DEF IsP3, ToHeader, Go, Call
  <2>2. chunk' \in 0 .. CHUNKS - 1
    BY <2>1, SizesAssumption
  <2>3. Placed("m_readp3header", "chunk", "nobody")
    BY DEF Placed
  <2>4. "m_readp3header" \in Cases /\ "chunk" \in Orders /\ "nobody" \in Callers
    BY DEF Cases, Orders, Callers
  <2>5. QED
    BY <1>1, <2>1, <2>2, <2>3, <2>4, Arrived
<1>3. CASE ~found
  <2>1. chunk' \in 0 .. CHUNKS - 1 /\ iWaitCnt' \in 0 .. SYNCHROTIMEWAIT + 1
    BY <1>1, <1>3, SizesAssumption DEF IsP3
  <2>2. CASE Away
    <3>1. st' = "elsewhere" /\ at' = "none" /\ caller' = "nobody"
      BY <2>2 DEF Away, Go, Call
    <3>2. Placed("elsewhere", "none", "nobody")
      BY DEF Placed
    <3>3. "elsewhere" \in Cases /\ "none" \in Orders /\ "nobody" \in Callers
      BY DEF Cases, Orders, Callers
    <3>4. QED
      BY <1>1, <2>1, <3>1, <3>2, <3>3, Arrived
  <2>3. CASE ToWait
    <3>1. st' = "m_waitforpes" /\ at' = "media" /\ caller' = "is_p3"
      BY <2>3 DEF ToWait, Call
    <3>2. Placed("m_waitforpes", "media", "is_p3")
      BY DEF Placed
    <3>3. "m_waitforpes" \in Cases /\ "media" \in Orders /\ "is_p3" \in Callers
      BY DEF Cases, Orders, Callers
    <3>4. QED
      BY <1>1, <2>1, <3>1, <3>2, <3>3, Arrived
  <2>4. QED
    BY <1>3, <2>2, <2>3 DEF IsP3
<1>4. QED
  BY <1>2, <1>3

LEMMA ChunkAgainLed ==
    ASSUME Led, at \in {"media", "type"}, NEW found \in BOOLEAN, ChunkAgain(found)
    PROVE  Led'
<1>1. st = "m_readp3header"
  BY DEF Led, ChunkAgain, Placed, Cases
<1>2. CASE found
  BY <1>1, <1>2, ChunkTakenLed DEF ChunkAgain, ChunkRefused
<1>3. CASE ~found
  BY <1>1, <1>3, Goes DEF ChunkAgain, ChunkRefused, counters
<1>4. QED
  BY <1>2, <1>3

LEMMA TouchAgainLed ==
    ASSUME Led, at \in {"media", "type"}, caller = "touch again", TouchAgain
    PROVE  Led'
BY SizesAssumption DEF Led, TouchAgain, Call, counters, Cases, Orders, Callers, Placed, Bounded

LEMMA TouchEndsLed ==
    ASSUME Led, at \in {"media", "type"}, NEW found \in BOOLEAN, TouchEnds(found)
    PROVE  Led'
<1>1. /\ st = "m_prepdelp3" /\ st' = st
      /\ chunk' \in 0 .. CHUNKS - 1 /\ iWaitCnt' \in 0 .. SYNCHROTIMEWAIT + 1
      /\ touches' \in 0 .. TOUCHES
  BY PlacedMeans DEF Led, TouchEnds
<1>2. iSat \in 0 .. DELETE_ATT + 2 /\ iSat <= DELETE_ATT + 1
  BY <1>1 DEF Led, Bounded
<1>3. CASE found
  <2>1. at' = "media" /\ caller' = "m_prepdelp3" /\ iSat' = iSat
    BY <1>3 DEF TouchEnds, Call
  <2>2. Placed("m_prepdelp3", "media", "m_prepdelp3")
    BY DEF Placed
  <2>3. "m_prepdelp3" \in Cases /\ "media" \in Orders /\ "m_prepdelp3" \in Callers
    BY DEF Cases, Orders, Callers
  <2>4. QED
    BY <1>1, <1>2, <2>1, <2>2, <2>3, Arrived
<1>4. CASE ~found
  <2>1. at' = "number" /\ caller' = "nobody" /\ iSat' = iSat + 1
    BY <1>4 DEF TouchEnds, Call, NextAttempt
  <2>2. Placed("m_prepdelp3", "number", "nobody")
    BY DEF Placed
  <2>3. "m_prepdelp3" \in Cases /\ "number" \in Orders /\ "nobody" \in Callers
    BY DEF Cases, Orders, Callers
  <2>4. iSat' \in 0 .. DELETE_ATT + 2 /\ iSat' <= DELETE_ATT + 2
    BY <1>2, <2>1, SizesAssumption
  <2>5. QED
    BY <1>1, <2>1, <2>2, <2>3, <2>4, Arrived
<1>5. QED
  BY <1>3, <1>4

(* One failed attempt more, in a case that tries again.                    *)
LEMMA AttemptTyped ==
    ASSUME Led, st \in {"m_prepdelp3", "m_deletep3"}, at \in {"media", "type"},
           iSat' = NextAttempt
    PROVE  /\ iSat' \in 0 .. DELETE_ATT + 2
           /\ ~OutOfAttempts(iSat) => iSat' <= DELETE_ATT + 1
<1>1. iSat \in 0 .. DELETE_ATT + 2 /\ iSat <= DELETE_ATT + 1
  BY DEF Led, Bounded
<1>2. iSat' = iSat + 1 /\ (~OutOfAttempts(iSat) => ~(iSat > DELETE_ATT))
  BY DEF NextAttempt, OutOfAttempts
<1>3. QED
  BY <1>1, <1>2, SizesAssumption

LEMMA AwayLed ==
    ASSUME Away, chunk' \in 0 .. CHUNKS - 1, iWaitCnt' \in 0 .. SYNCHROTIMEWAIT + 1,
           iSat' \in 0 .. DELETE_ATT + 2, touches' \in 0 .. TOUCHES
    PROVE  Led'
<1>1. st' = "elsewhere" /\ at' = "none" /\ caller' = "nobody"
  BY DEF Away, Go, Call
<1>2. Placed("elsewhere", "none", "nobody")
  BY DEF Placed
<1>3. "elsewhere" \in Cases /\ "none" \in Orders /\ "nobody" \in Callers
  BY DEF Cases, Orders, Callers
<1>4. QED
  BY <1>1, <1>2, <1>3, Arrived

LEMMA ToDeleteLed ==
    ASSUME ToDelete, chunk' \in 0 .. CHUNKS - 1, iWaitCnt' \in 0 .. SYNCHROTIMEWAIT + 1,
           iSat' \in 0 .. DELETE_ATT + 2, iSat' <= DELETE_ATT + 1, touches' \in 0 .. TOUCHES
    PROVE  Led'
<1>1. st' = "m_deletep3" /\ at' = "delete" /\ caller' = "nobody"
  BY DEF ToDelete, Go, Call
<1>2. Placed("m_deletep3", "delete", "nobody")
  BY DEF Placed
<1>3. "m_deletep3" \in Cases /\ "delete" \in Orders /\ "nobody" \in Callers
  BY DEF Cases, Orders, Callers
<1>4. QED
  BY <1>1, <1>2, <1>3, Arrived

LEMMA ToPrepareLed ==
    ASSUME ToPrepare, chunk' \in 0 .. CHUNKS - 1, iWaitCnt' \in 0 .. SYNCHROTIMEWAIT + 1,
           iSat' \in 0 .. DELETE_ATT + 2, iSat' <= DELETE_ATT + 1, touches' = 0
    PROVE  Led'
<1>1. st' = "m_prepdelp3" /\ at' = "touch" /\ caller' = "nobody"
  BY DEF ToPrepare, Go, Call
<1>2. Placed("m_prepdelp3", "touch", "nobody")
  BY DEF Placed
<1>3. "m_prepdelp3" \in Cases /\ "touch" \in Orders /\ "nobody" \in Callers
  BY DEF Cases, Orders, Callers
<1>4. touches' \in 0 .. TOUCHES
  BY SizesAssumption
<1>5. QED
  BY <1>1, <1>2, <1>3, <1>4, Arrived

LEMMA PreparedLed ==
    ASSUME Led, at \in {"media", "type"}, NEW found \in BOOLEAN, Prepared(found)
    PROVE  Led'
<1>1. /\ st = "m_prepdelp3" /\ touches' = 0
      /\ chunk' \in 0 .. CHUNKS - 1 /\ iWaitCnt' \in 0 .. SYNCHROTIMEWAIT + 1
  BY PlacedMeans DEF Led, Prepared
<1>2. touches' \in 0 .. TOUCHES
  BY <1>1, SizesAssumption
<1>3. CASE found
  <2>1. ToDelete /\ iSat' = 0
    BY <1>3 DEF Prepared
  <2>2. iSat' \in 0 .. DELETE_ATT + 2 /\ iSat' <= DELETE_ATT + 1
    BY <2>1, SizesAssumption
  <2>3. QED
    BY <1>1, <1>2, <2>1, <2>2, ToDeleteLed
<1>4. CASE ~found
  <2>1. iSat' = NextAttempt /\ IF OutOfAttempts(iSat) THEN Away ELSE ToPrepare
    BY <1>4 DEF Prepared, AttemptFailed
  <2>2. iSat' \in 0 .. DELETE_ATT + 2 /\ (Away \/ (ToPrepare /\ iSat' <= DELETE_ATT + 1))
    BY <1>1, <2>1, AttemptTyped
  <2>3. QED
    BY <1>1, <1>2, <2>2, AwayLed, ToPrepareLed
<1>5. QED
  BY <1>3, <1>4

LEMMA DeleteFailedLed ==
    ASSUME Led, at \in {"media", "type"}, DeleteFailed
    PROVE  Led'
<1>1. /\ st = "m_deletep3"
      /\ chunk' \in 0 .. CHUNKS - 1 /\ iWaitCnt' \in 0 .. SYNCHROTIMEWAIT + 1
      /\ touches' \in 0 .. TOUCHES
  BY PlacedMeans DEF Led, DeleteFailed, counters
<1>2. CASE Call("media", "m_deletep3") /\ UNCHANGED <<st, counters>>
  <2>1. st' = "m_deletep3" /\ at' = "media" /\ caller' = "m_deletep3" /\ iSat' = iSat
    BY <1>1, <1>2 DEF Call, counters
  <2>2. iSat' \in 0 .. DELETE_ATT + 2 /\ iSat' <= DELETE_ATT + 1
    BY <1>1, <2>1 DEF Led, Bounded
  <2>3. Placed("m_deletep3", "media", "m_deletep3")
    BY DEF Placed
  <2>4. "m_deletep3" \in Cases /\ "media" \in Orders /\ "m_deletep3" \in Callers
    BY DEF Cases, Orders, Callers
  <2>5. QED
    BY <1>1, <2>1, <2>2, <2>3, <2>4, Arrived
<1>3. CASE AttemptFailed(ToDelete)
  <2>1. iSat' = NextAttempt /\ IF OutOfAttempts(iSat) THEN Away ELSE ToDelete
    BY <1>3 DEF AttemptFailed
  <2>2. iSat' \in 0 .. DELETE_ATT + 2 /\ (Away \/ (ToDelete /\ iSat' <= DELETE_ATT + 1))
    BY <1>1, <2>1, AttemptTyped
  <2>3. QED
    BY <1>1, <2>2, AwayLed, ToDeleteLed
<1>4. QED
  BY <1>2, <1>3 DEF DeleteFailed

LEMMA ReconnectedLed ==
    ASSUME Led, at \in {"media", "type"}, NEW found \in BOOLEAN, Reconnected(found)
    PROVE  Led'
BY ChunkAgainLed, TouchAgainLed, TouchEndsLed, PreparedLed, DeleteFailedLed, Goes
   DEF Reconnected

(* A pass that leaves the counters alone, for one of these places.         *)
LEMMA LedStays ==
    ASSUME Led
    PROVE  /\ chunk \in 0 .. CHUNKS - 1 /\ iWaitCnt \in 0 .. SYNCHROTIMEWAIT + 1
           /\ iSat \in 0 .. DELETE_ATT + 2 /\ touches \in 0 .. TOUCHES
           /\ st \in Cases /\ at \in Orders /\ caller \in Callers
           /\ Placed(st, at, caller) /\ Bounded
BY DEF Led

LEMMA WiredStays ==
    ASSUME Wired, UNCHANGED <<power, plugged, attached, ghosts>>,
           stale' \in 0 .. MaxStale, faults' \in 0 .. MaxFaults
    PROVE  Wired'
BY DEF Wired, ghosts

-----------------------------------------------------------------------------
(* One lemma per action.                                                   *)

LEMMA AdapterNumberKeeps ==
    ASSUME IInv, AdapterNumber
    PROVE  IInv'
<1>1. Led /\ Wired
  BY DEF IInv
<1>2. PICK res \in Results :
         /\ NumberRead(res)
         /\ \/ res = "good" /\ power' = TRUE /\ ToWait
            \/ res # "good" /\ power' = FALSE /\ Away
  BY DEF AdapterNumber
<1>3. UNCHANGED <<counters, plugged, attached, erased>>
  BY DEF AdapterNumber
<1>4. Wired'
  <2>1. /\ stale' \in 0 .. MaxStale /\ faults' \in 0 .. MaxFaults
        /\ number' \in {"none", "adapter", "queue"}
    BY <1>1, <1>2, NumberReadTyped
  <2>2. power' \in BOOLEAN /\ plugged' \in BOOLEAN /\ attached' \in BOOLEAN
        /\ erased' \in BOOLEAN
    BY <1>1, <1>2, <1>3 DEF Wired
  <2>3. QED
    BY <2>1, <2>2 DEF Wired
<1>5. CASE Away
  BY <1>1, <1>3, <1>4, <1>5, Goes DEF IInv
<1>6. CASE ToWait
  <2>1. st' = "m_waitforpes" /\ at' = "media" /\ caller' = "is_p3"
    BY <1>6 DEF ToWait, Call
  <2>2. Placed("m_waitforpes", "media", "is_p3")
    BY DEF Placed
  <2>3. "m_waitforpes" \in Cases /\ "media" \in Orders /\ "is_p3" \in Callers
    BY DEF Cases, Orders, Callers
  <2>4. Led'
    BY <1>1, <1>3, <2>1, <2>2, <2>3, LedStays, Arrived DEF counters
  <2>5. QED
    BY <1>4, <2>4 DEF IInv
<1>7. QED
  BY <1>2, <1>5, <1>6

LEMMA AdapterRestartKeeps ==
    ASSUME IInv, AdapterRestart
    PROVE  IInv'
<1>1. Led /\ Wired
  BY DEF IInv
<1>2. PICK res \in Results : NumberRead(res)
  BY DEF AdapterRestart
<1>3. /\ st = "m_prepdelp3" /\ at = "number" /\ power' = FALSE /\ touches' = 0
      /\ IF OutOfAttempts(iSat - 1) THEN Away ELSE ToPrepare
      /\ UNCHANGED <<chunk, iWaitCnt, iSat, plugged, attached, erased>>
  BY DEF AdapterRestart
<1>4. Wired'
  <2>1. /\ stale' \in 0 .. MaxStale /\ faults' \in 0 .. MaxFaults
        /\ number' \in {"none", "adapter", "queue"}
    BY <1>1, <1>2, NumberReadTyped
  <2>2. power' \in BOOLEAN /\ plugged' \in BOOLEAN /\ attached' \in BOOLEAN
        /\ erased' \in BOOLEAN
    BY <1>1, <1>3 DEF Wired
  <2>3. QED
    BY <2>1, <2>2 DEF Wired
<1>5. /\ chunk' \in 0 .. CHUNKS - 1 /\ iWaitCnt' \in 0 .. SYNCHROTIMEWAIT + 1
      /\ iSat' \in 0 .. DELETE_ATT + 2 /\ touches' \in 0 .. TOUCHES
  BY <1>1, <1>3, LedStays, SizesAssumption
<1>6. CASE Away
  BY <1>4, <1>5, <1>6, AwayLed DEF IInv
<1>7. CASE ~OutOfAttempts(iSat - 1) /\ ToPrepare
  <2>1. iSat' <= DELETE_ATT + 1
    BY <1>3, <1>5, <1>7, SizesAssumption DEF OutOfAttempts
  <2>2. QED
    BY <1>3, <1>4, <1>5, <1>7, <2>1, ToPrepareLed DEF IInv
<1>8. QED
  BY <1>3, <1>6, <1>7

LEMMA AdapterGoneKeeps ==
    ASSUME IInv, AdapterGone
    PROVE  IInv'
<1>1. Led /\ Wired
  BY DEF IInv
<1>2. /\ Go("m_adapterError", "none")
      /\ UNCHANGED <<counters, wire, power, plugged, attached, ghosts>>
  BY DEF AdapterGone
<1>3. Led'
  BY <1>1, <1>2, Goes
<1>4. Wired'
  BY <1>1, <1>2 DEF Wired, wire, ghosts
<1>5. QED
  BY <1>3, <1>4 DEF IInv

LEMMA MediaKeeps ==
    ASSUME IInv, Media
    PROVE  IInv'
<1>1. Led /\ Wired
  BY DEF IInv
<1>2. PICK res \in Results, done \in BOOLEAN :
         /\ Exchanged(1, attached, res, done)
         /\ \/ MediumSeen(res) /\ at' = "type" /\ UNCHANGED <<st, caller, counters>>
            \/ res # "good" /\ (IsP3(FALSE) \/ Reconnected(FALSE))
  BY DEF Media
<1>3. at = "media" /\ UNCHANGED <<power, plugged, attached, ghosts>>
  BY DEF Media
<1>4. Wired'
  <2>1. attached \in BOOLEAN
    BY <1>1 DEF Wired
  <2>2. QED
    BY <1>1, <1>2, <1>3, <2>1, ExchangedTyped, WiredStays
<1>5. CASE at' = "type" /\ UNCHANGED <<st, caller, counters>>
  <2>1. Placed(st, at, caller) /\ at = "media"
    BY <1>1, <1>3, LedStays
  <2>2. Placed(st, "type", caller)
    BY <2>1 DEF Placed
  <2>3. "type" \in Orders /\ st \in Cases /\ caller \in Callers
    BY <1>1, LedStays DEF Orders
  <2>4. /\ st = "m_prepdelp3" => iSat <= DELETE_ATT + 1
        /\ st = "m_deletep3" => iSat <= DELETE_ATT + 1
    BY <1>1, <1>3, LedStays DEF Bounded
  <2>5. Led'
    BY <1>1, <1>5, <2>2, <2>3, <2>4, LedStays, Arrived DEF counters
  <2>6. QED
    BY <1>4, <2>5 DEF IInv
<1>6. CASE IsP3(FALSE) \/ Reconnected(FALSE)
  BY <1>1, <1>3, <1>4, <1>6, IsP3Led, ReconnectedLed DEF IInv
<1>7. QED
  BY <1>2, <1>5, <1>6

LEMMA TypeKeeps ==
    ASSUME IInv, Type
    PROVE  IInv'
<1>1. Led /\ Wired
  BY DEF IInv
<1>2. PICK res \in Results, done \in BOOLEAN :
         /\ Exchanged(1, attached, res, done)
         /\ \/ IsP3(res = "good") \/ Reconnected(res = "good")
            \/ res = "bad" /\ IsP3(TRUE)
  BY DEF Type
<1>3. at = "type" /\ UNCHANGED <<power, plugged, attached, ghosts>>
  BY DEF Type
<1>4. Wired'
  <2>1. attached \in BOOLEAN
    BY <1>1 DEF Wired
  <2>2. QED
    BY <1>1, <1>2, <1>3, <2>1, ExchangedTyped, WiredStays
<1>5. PICK found \in BOOLEAN : IsP3(found) \/ Reconnected(found)
  <2>1. (res = "good") \in BOOLEAN
    OBVIOUS
  <2>2. QED
    BY <1>2, <2>1, Zenon
<1>6. Led'
  BY <1>1, <1>3, <1>5, IsP3Led, ReconnectedLed
<1>7. QED
  BY <1>4, <1>6 DEF IInv

LEMMA EeChunkKeeps ==
    ASSUME IInv, EeChunk
    PROVE  IInv'
<1>1. Led /\ Wired
  BY DEF IInv
<1>2. PICK res \in Results, done \in BOOLEAN :
         /\ Exchanged(LONG, attached, res, done)
         /\ \/ res = "good" /\ ChunkTaken
            \/ res = "bad" /\ UNCHANGED <<st, chunk>> /\ Call("media", "chunk")
            \/ res = "none" /\ UNCHANGED <<control, chunk>>
  BY DEF EeChunk
<1>3. /\ at = "chunk"
      /\ UNCHANGED <<iWaitCnt, iSat, touches, power, plugged, attached, ghosts>>
  BY DEF EeChunk
<1>4. Wired'
  <2>1. attached \in BOOLEAN /\ LONG \in Nat
    BY <1>1, SizesAssumption DEF Wired
  <2>2. QED
    BY <1>1, <1>2, <1>3, <2>1, ExchangedTyped, WiredStays
<1>5. st = "m_readp3header"
  BY <1>1, <1>3, PlacedMeans
<1>6. CASE ChunkTaken
  BY <1>1, <1>3, <1>4, <1>5, <1>6, ChunkTakenLed DEF IInv
<1>7. CASE UNCHANGED <<st, chunk>> /\ Call("media", "chunk")
  <2>1. st' = "m_readp3header" /\ at' = "media" /\ caller' = "chunk"
    BY <1>5, <1>7 DEF Call
  <2>2. Placed("m_readp3header", "media", "chunk")
    BY DEF Placed
  <2>3. "m_readp3header" \in Cases /\ "media" \in Orders /\ "chunk" \in Callers
    BY DEF Cases, Orders, Callers
  <2>4. Led'
    BY <1>1, <1>3, <1>7, <2>1, <2>2, <2>3, LedStays, Arrived
  <2>5. QED
    BY <1>4, <2>4 DEF IInv
<1>8. CASE UNCHANGED <<control, chunk>>
  <2>1. Led'
    BY <1>1, <1>3, <1>8 DEF Led, Bounded, control
  <2>2. QED
    BY <1>4, <2>1 DEF IInv
<1>9. QED
  BY <1>2, <1>6, <1>7, <1>8

LEMMA EventCountKeeps ==
    ASSUME IInv, EventCount
    PROVE  IInv'
<1>1. Led /\ Wired
  BY DEF IInv
<1>2. PICK res \in Results, done \in BOOLEAN :
         /\ Exchanged(LONG, attached, res, done)
         /\ \/ res # "none" /\ Go("m_readp3", "tour")
            \/ ToAdapter
  BY DEF EventCount
<1>3. UNCHANGED <<counters, power, plugged, attached, ghosts>>
  BY DEF EventCount
<1>4. Wired'
  <2>1. attached \in BOOLEAN /\ LONG \in Nat
    BY <1>1, SizesAssumption DEF Wired
  <2>2. QED
    BY <1>1, <1>2, <1>3, <2>1, ExchangedTyped, WiredStays
<1>5. Led'
  BY <1>1, <1>2, <1>3, Goes
<1>6. QED
  BY <1>4, <1>5 DEF IInv

LEMMA DownloadKeeps ==
    ASSUME IInv, Download
    PROVE  IInv'
<1>1. Led /\ Wired
  BY DEF IInv
<1>2. /\ stale' \in 0 .. MaxLeft /\ erased' = FALSE
      /\ \/ ToPrepare /\ iSat' = 0 /\ touches' = 0
         \/ ToAdapter /\ UNCHANGED <<iSat, touches>>
      /\ UNCHANGED <<chunk, iWaitCnt, faults, power, plugged, attached, number>>
  BY DEF Download
<1>3. Wired'
  <2>1. stale' \in 0 .. MaxStale
    BY <1>2, BoundsAssumption
  <2>2. erased' \in BOOLEAN
    BY <1>2
  <2>3. QED
    BY <1>1, <1>2, <2>1, <2>2 DEF Wired
<1>4. CASE ToPrepare /\ iSat' = 0 /\ touches' = 0
  <2>1. iSat' \in 0 .. DELETE_ATT + 2 /\ iSat' <= DELETE_ATT + 1
    BY <1>4, SizesAssumption
  <2>2. QED
    BY <1>1, <1>2, <1>3, <1>4, <2>1, LedStays, ToPrepareLed DEF IInv
<1>5. CASE ToAdapter /\ UNCHANGED <<iSat, touches>>
  BY <1>1, <1>2, <1>3, <1>5, Goes DEF IInv, counters
<1>6. QED
  BY <1>2, <1>4, <1>5

(* chip_touch() goes on in its own case, with an order and a caller.       *)
LEMMA TouchGoesOn ==
    ASSUME Led, st = "m_prepdelp3", at \in {"touch", "touch again"}, st' = st,
           UNCHANGED <<chunk, iWaitCnt, iSat>>, touches' \in 0 .. TOUCHES,
           NEW a, NEW c, Call(a, c),
           \/ a = "media" /\ c \in {"m_prepdelp3", "touch again", "touch"}
           \/ a = "touch again" /\ c = "nobody" /\ touches' < TOUCHES
    PROVE  Led'
<1>1. at' = a /\ caller' = c /\ st' = "m_prepdelp3"
  BY DEF Call
<1>2. Placed("m_prepdelp3", a, c)
  BY DEF Placed
<1>3. "m_prepdelp3" \in Cases /\ a \in Orders /\ c \in Callers
  BY DEF Cases, Orders, Callers
<1>4. iSat' <= DELETE_ATT + 1
  BY LedStays DEF Bounded
<1>5. a # "touch" /\ a # "number"
  OBVIOUS
<1>6. /\ chunk' \in 0 .. CHUNKS - 1 /\ iWaitCnt' \in 0 .. SYNCHROTIMEWAIT + 1
      /\ iSat' \in 0 .. DELETE_ATT + 2
  BY LedStays
<1>7. a = "touch again" => touches' < TOUCHES
  OBVIOUS
<1>8. QED
  BY <1>1, <1>2, <1>3, <1>4, <1>5, <1>6, <1>7, Arrived

LEMMA TouchKeeps ==
    ASSUME IInv, Touch
    PROVE  IInv'
<1>1. Led /\ Wired
  BY DEF IInv
<1>2. PICK res \in Results, done \in BOOLEAN :
         /\ Exchanged(1, attached, res, done)
         /\ \/ res = "good" /\ Call("media", "m_prepdelp3")
            \/ res # "good" /\ at = "touch" /\ Call("touch again", "nobody")
            \/ res = "bad" /\ at = "touch again" /\ Call("media", "touch again")
            \/ /\ res = "none" /\ at = "touch again"
               /\ \/ touches' < TOUCHES /\ Call("touch again", "nobody")
                  \/ Call("media", "touch")
  BY DEF Touch
<1>3. /\ at \in {"touch", "touch again"} /\ touches' = touches + 1
      /\ UNCHANGED <<st, chunk, iWaitCnt, iSat, power, plugged, attached, ghosts>>
  BY DEF Touch
<1>4. Wired'
  <2>1. attached \in BOOLEAN
    BY <1>1 DEF Wired
  <2>2. QED
    BY <1>1, <1>2, <1>3, <2>1, ExchangedTyped, WiredStays
<1>5. st = "m_prepdelp3"
  BY <1>1, <1>3, PlacedMeans
<1>6. touches' \in 0 .. TOUCHES /\ (at = "touch" => touches' < TOUCHES)
  <2>1. touches \in 0 .. TOUCHES /\ Bounded
    BY <1>1, LedStays
  <2>2. TOUCHES \in Nat /\ TOUCHES > 1
    BY SizesAssumption
  <2>3. CASE at = "touch"
    BY <1>3, <2>1, <2>2, <2>3 DEF Bounded
  <2>4. CASE at = "touch again"
    <3>1. touches < TOUCHES /\ at # "touch"
      BY <2>1, <2>4 DEF Bounded
    <3>2. touches' = touches + 1 /\ touches \in 0 .. TOUCHES
      BY <1>3, <2>1
    <3>3. touches' \in 0 .. TOUCHES
      BY <2>2, <3>1, <3>2
    <3>4. QED
      BY <3>1, <3>3
  <2>5. QED
    BY <1>3, <2>3, <2>4
<1>7. \/ Call("media", "m_prepdelp3") \/ Call("media", "touch again") \/ Call("media", "touch")
      \/ touches' < TOUCHES /\ Call("touch again", "nobody")
  BY <1>2, <1>6
<1>8. Led'
  BY <1>1, <1>3, <1>5, <1>6, <1>7, TouchGoesOn
<1>9. QED
  BY <1>4, <1>8 DEF IInv

(* A case asks for its sensor, after an order that failed.                 *)
LEMMA Asks ==
    ASSUME Led, UNCHANGED counters, st' = st, NEW c, Call("media", c),
           \/ st = "m_deletep3" /\ c \in {"p3_delete", "m_deletep3"}
           \/ st = "m_settimep3" /\ c = "m_settimep3"
           \/ st = "m_beepok" /\ c = "p3_beep_ok"
    PROVE  Led'
<1>1. at' = "media" /\ caller' = c
  BY DEF Call
<1>2. Placed(st, "media", c)
  BY DEF Placed
<1>3. st \in Cases /\ "media" \in Orders /\ c \in Callers
  BY LedStays DEF Cases, Orders, Callers
<1>4. st = "m_deletep3" => iSat <= DELETE_ATT + 1
  BY LedStays DEF Bounded
<1>5. st # "m_prepdelp3"
  OBVIOUS
<1>6. QED
  BY <1>1, <1>2, <1>3, <1>4, <1>5, LedStays, Arrived DEF counters

LEMMA DeleteKeeps ==
    ASSUME IInv, Delete
    PROVE  IInv'
<1>1. Led /\ Wired
  BY DEF IInv
<1>2. PICK res \in Results, done \in BOOLEAN :
         /\ Exchanged(LONG, attached, res, done)
         /\ erased' = (erased \/ done)
         /\ IF Deleted(res) THEN ToSetTime
            ELSE /\ UNCHANGED st
                 /\ \/ Call("media", "p3_delete")
                    \/ res = "none" /\ Call("media", "m_deletep3")
  BY DEF Delete
<1>3. at = "delete" /\ UNCHANGED <<counters, power, plugged, attached, number>>
  BY DEF Delete
<1>4. Wired'
  <2>1. attached \in BOOLEAN /\ LONG \in Nat
    BY <1>1, SizesAssumption DEF Wired
  <2>2. stale' \in 0 .. MaxStale /\ faults' \in 0 .. MaxFaults
    BY <1>1, <1>2, <2>1, ExchangedTyped
  <2>3. erased' \in BOOLEAN
    BY <1>2
  <2>4. QED
    BY <1>1, <1>3, <2>2, <2>3 DEF Wired
<1>5. st = "m_deletep3"
  BY <1>1, <1>3, PlacedMeans
<1>6. CASE ToSetTime
  BY <1>1, <1>3, <1>4, <1>6, Goes DEF IInv
<1>7. CASE UNCHANGED st /\ (Call("media", "p3_delete") \/ Call("media", "m_deletep3"))
  BY <1>1, <1>3, <1>4, <1>5, <1>7, Asks DEF IInv
<1>8. QED
  BY <1>2, <1>6, <1>7

LEMMA SetTimeKeeps ==
    ASSUME IInv, SetTime
    PROVE  IInv'
<1>1. Led /\ Wired
  BY DEF IInv
<1>2. PICK res \in Results, done \in BOOLEAN :
         /\ Exchanged(LONG, attached, res, done)
         /\ IF TimeSet(res) THEN Go("m_beepok", "beep")
                            ELSE UNCHANGED st /\ Call("media", "m_settimep3")
  BY DEF SetTime
<1>3. at = "settime" /\ UNCHANGED <<counters, power, plugged, attached, ghosts>>
  BY DEF SetTime
<1>4. Wired'
  <2>1. attached \in BOOLEAN /\ LONG \in Nat
    BY <1>1, SizesAssumption DEF Wired
  <2>2. QED
    BY <1>1, <1>2, <1>3, <2>1, ExchangedTyped, WiredStays
<1>5. st = "m_settimep3"
  BY <1>1, <1>3, PlacedMeans
<1>6. Led'
  BY <1>1, <1>2, <1>3, <1>5, Goes, Asks
<1>7. QED
  BY <1>4, <1>6 DEF IInv

LEMMA BeepOkKeeps ==
    ASSUME IInv, BeepOk
    PROVE  IInv'
<1>1. Led /\ Wired
  BY DEF IInv
<1>2. PICK res \in Results, done \in BOOLEAN :
         /\ Exchanged(LONG, attached, res, done)
         /\ Away \/ (UNCHANGED st /\ Call("media", "p3_beep_ok"))
  BY DEF BeepOk
<1>3. at = "beep" /\ UNCHANGED <<counters, power, plugged, attached, ghosts>>
  BY DEF BeepOk
<1>4. Wired'
  <2>1. attached \in BOOLEAN /\ LONG \in Nat
    BY <1>1, SizesAssumption DEF Wired
  <2>2. QED
    BY <1>1, <1>2, <1>3, <2>1, ExchangedTyped, WiredStays
<1>5. st = "m_beepok"
  BY <1>1, <1>3, PlacedMeans
<1>6. Led'
  BY <1>1, <1>2, <1>3, <1>5, Goes, Asks
<1>7. QED
  BY <1>4, <1>6 DEF IInv

LEMMA InvNext == IInv /\ [Next]_vars => IInv'
<1> SUFFICES ASSUME IInv, [Next]_vars PROVE IInv'
  OBVIOUS
<1>1. Led /\ Wired
  BY DEF IInv
<1>2. CASE Elsewhere
  <2>1. Led'
    BY <1>1, <1>2, Goes DEF Elsewhere
  <2>2. Wired'
    BY <1>1, <1>2 DEF Elsewhere, Wired, wire, ghosts
  <2>3. QED
    BY <2>1, <2>2 DEF IInv
<1>3. CASE MoveSensor
  <2>1. Led'
    BY <1>1, <1>3 DEF MoveSensor, Led, Bounded, control, counters
  <2>2. Wired'
    BY <1>1, <1>3 DEF MoveSensor, Wired, wire, ghosts
  <2>3. QED
    BY <2>1, <2>2 DEF IInv
<1>4. CASE Unplug
  <2>1. Led'
    BY <1>1, <1>4 DEF Unplug, Led, Bounded, control, counters
  <2>2. Wired'
    BY <1>1, <1>4 DEF Unplug, Wired, wire, ghosts
  <2>3. QED
    BY <2>1, <2>2 DEF IInv
<1>5. CASE UNCHANGED vars
  <2>1. Led'
    BY <1>1, <1>5 DEF vars, Led, Bounded, control, counters
  <2>2. Wired'
    BY <1>1, <1>5 DEF vars, Wired, wire, ghosts
  <2>3. QED
    BY <2>1, <2>2 DEF IInv
<1>6. QED
  BY <1>2, <1>3, <1>4, <1>5, AdapterNumberKeeps, AdapterRestartKeeps, AdapterGoneKeeps,
     MediaKeeps, TypeKeeps, EeChunkKeeps, EventCountKeeps, DownloadKeeps, TouchKeeps,
     DeleteKeeps, SetTimeKeeps, BeepOkKeeps DEF Next, Code

LEMMA InvAlways == Spec => []IInv
BY InvInit, InvNext, PTL DEF Spec

-----------------------------------------------------------------------------
(* The order that goes out is one of the case the loop is in, the attempts *)
(* to get the sensor back end in time, and the queue never holds more than *)
(* the bound of the model.                                                 *)
THEOREM ExchangeTypeCorrect == Spec => []TypeOK
BY InvTypes, InvAlways, PTL

(* Whatever the line does and whoever moves the sensor, the loop does not  *)
(* go on behind m_deletep3 before a sensor was erased, unless bytes of an  *)
(* older answer were in the queue.                                         *)
THEOREM NoDeleteForNothing == Spec => DeletedMeansErased
<1>1. IInv /\ [Next]_vars
        => [at = "delete" /\ st' = "m_settimep3" => erased' \/ stale > 0]_vars
  <2> SUFFICES ASSUME IInv, Next, at = "delete", st' = "m_settimep3"
               PROVE  erased' \/ stale > 0
    BY DEF vars
  <2>1. Led /\ Wired
    BY DEF IInv
  <2>2. st = "m_deletep3"
    BY <2>1, PlacedMeans
  <2>3. Delete
    <3>1. st' # st /\ at # "none"
      BY <2>2
    <3>2. ~MoveSensor /\ ~Unplug /\ ~Elsewhere
      BY <2>2, <3>1 DEF MoveSensor, Unplug, Elsewhere, control
    <3>3. QED
      BY <2>2, <3>2 DEF Next, Code, AdapterNumber, AdapterRestart, AdapterGone, Media, Type,
                        EeChunk, EventCount, Download, Touch, SetTime, BeepOk
  <2>4. PICK res \in Results, done \in BOOLEAN :
           /\ Exchanged(LONG, attached, res, done)
           /\ erased' = (erased \/ done)
           /\ Deleted(res)
    BY <2>2, <2>3 DEF Delete
  <2>5. CASE stale > 0
    BY <2>5
  <2>6. CASE stale = 0
    <3>1. res = "good" /\ LONG \in Nat \ {0}
      BY <2>4, SizesAssumption DEF Deleted
    <3>2. ~(ReadOld(LONG, res))
      BY <2>6, <3>1 DEF ReadOld
    <3>3. done = attached /\ Said(attached) = "good"
      <4>1. res # "none" /\ res # "bad" /\ ~(stale >= LONG)
        BY <2>6, <3>1
      <4>2. done = attached /\ res \in {Said(attached)}
        BY <2>4, <2>6, <3>2, <4>1, Zenon DEF Exchanged
      <4>3. QED
        BY <3>1, <4>2
    <3>4. done
      BY <2>1, <3>3 DEF Said, Wired
    <3>5. QED
      BY <2>4, <3>4
  <2>7. QED
    BY <2>1, <2>5, <2>6, BoundsAssumption DEF Wired
<1>2. QED
  BY <1>1, InvAlways, PTL DEF Spec, DeletedMeansErased
=============================================================================
