--------------------------- MODULE PyGuardProofs ---------------------------
(***************************************************************************)
(* Proofs about PyGuard for every set of documents, number of lines and    *)
(* bound.                                                                  *)
(***************************************************************************)
EXTENDS PyGuard, SequenceTheorems, TLAPS

(* Messages and queues.                                                    *)

HasFresh(q) == \E i \in DOMAIN q : q[i].fresh

LEMMA MsgType ==
    ASSUME NEW k \in Requests \cup Answers, NEW f \in BOOLEAN
    PROVE  Msg(k, f) \in Messages /\ Msg(k, f).fresh = f /\ Msg(k, f).kind = k
BY DEF Msg, Messages

LEMMA LineMsgType ==
    ASSUME NEW d \in Docs, NEW i \in 1 .. LINES
    PROVE  LineMsg(d, i) \in Messages /\ LineMsg(d, i).fresh = TRUE
BY DEF LineMsg, Messages

LEMMA MessageFields ==
    ASSUME NEW m \in Messages
    PROVE  /\ m.fresh \in BOOLEAN
           /\ m.kind \in Requests \cup Answers \cup {"LINE"}
           /\ m.kind = "LINE" => m.doc \in Docs /\ m.line \in 1 .. LINES
           /\ m # NoRequest
BY DEF Messages, NoRequest, Msg, Requests, Questions, Answers

LEMMA AgedType ==
    ASSUME NEW m \in Messages
    PROVE  Aged(m) \in Messages
<1>1. CASE m \in [kind : Requests \cup Answers, doc : {NoDoc}, line : {0}, fresh : BOOLEAN]
    BY <1>1 DEF Aged, Messages
<1>2. CASE m \in [kind : {"LINE"}, doc : Docs, line : 1 .. LINES, fresh : BOOLEAN]
    BY <1>2 DEF Aged, Messages
<1> QED BY <1>1, <1>2 DEF Messages

LEMMA AgedHand ==
    ASSUME NEW h \in Messages \cup {NoRequest}
    PROVE  /\ Aged(h) \in Messages \cup {NoRequest}
           /\ (Aged(h) = NoRequest) <=> (h = NoRequest)
           /\ Aged(h).kind = h.kind
<1>1. CASE h = NoRequest
    <2>1. /\ NoRequest \in [kind : {"none"}, doc : {NoDoc}, line : {0}, fresh : BOOLEAN]
          /\ NoRequest.fresh = FALSE
        BY DEF NoRequest, Msg
    <2>2. Aged(NoRequest) = NoRequest
        BY <2>1 DEF Aged
    <2> QED BY <1>1, <2>2
<1>2. CASE h \in Messages
    <2>1. Aged(h) \in Messages
        BY <1>2, AgedType
    <2>2. Aged(h).kind = h.kind
        BY <1>2 DEF Aged, Messages
    <2> QED BY <1>2, <2>1, <2>2, MessageFields
<1> QED BY <1>1, <1>2

LEMMA AgedQueueType ==
    ASSUME NEW q \in Seq(Messages)
    PROVE  AgedQueue(q) \in Seq(Messages) /\ Len(AgedQueue(q)) = Len(q)
<1>1. Len(q) \in Nat /\ DOMAIN q = 1 .. Len(q)
    BY LenProperties
<1>2. \A i \in 1 .. Len(q) : Aged(q[i]) \in Messages
    BY ElementOfSeq, AgedType
<1>3. AgedQueue(q) = [i \in 1 .. Len(q) |-> Aged(q[i])]
    BY <1>1 DEF AgedQueue
<1>4. AgedQueue(q) \in [1 .. Len(q) -> Messages]
    BY <1>2, <1>3
<1>5. AgedQueue(q) \in Seq(Messages)
    BY <1>1, <1>4, SeqDef
<1> QED BY <1>1, <1>4, <1>5, LenProperties

LEMMA Appended ==
    ASSUME NEW q \in Seq(Messages), NEW m \in Messages
    PROVE  /\ Append(q, m) \in Seq(Messages)
           /\ Len(Append(q, m)) = Len(q) + 1
           /\ HasFresh(q) \/ m.fresh => HasFresh(Append(q, m))
<1> DEFINE a == Append(q, m)
<1>1. /\ a \in Seq(Messages) /\ Len(a) = Len(q) + 1
      /\ \A i \in 1 .. Len(q) : a[i] = q[i]
      /\ a[Len(q) + 1] = m
    BY AppendProperties
<1>2. DOMAIN a = 1 .. Len(a) /\ DOMAIN q = 1 .. Len(q) /\ Len(q) \in Nat
    BY <1>1, LenProperties
<1>3. ASSUME NEW i \in DOMAIN q, q[i].fresh
      PROVE  HasFresh(a)
    <2>1. i \in DOMAIN a /\ a[i] = q[i]
        BY <1>1, <1>2
    <2> QED BY <2>1, <1>3 DEF HasFresh
<1>4. ASSUME m.fresh
      PROVE  HasFresh(a)
    <2>1. Len(q) + 1 \in DOMAIN a /\ a[Len(q) + 1] = m
        BY <1>1, <1>2
    <2> QED BY <2>1, <1>4 DEF HasFresh
<1> QED BY <1>1, <1>3, <1>4 DEF HasFresh

LEMMA Removed ==
    ASSUME NEW q \in Seq(Messages), q # <<>>
    PROVE  /\ Head(q) \in Messages
           /\ Tail(q) \in Seq(Messages)
           /\ Len(Tail(q)) = Len(q) - 1
           /\ HasFresh(q) => Head(q).fresh \/ HasFresh(Tail(q))
<1>1. /\ Head(q) \in Messages /\ Tail(q) \in Seq(Messages) /\ Len(Tail(q)) = Len(q) - 1
      /\ \A i \in 1 .. Len(Tail(q)) : Tail(q)[i] = q[i + 1]
    BY HeadTailProperties
<1>2. /\ DOMAIN Tail(q) = 1 .. Len(Tail(q))
      /\ DOMAIN q = 1 .. Len(q) /\ Len(q) \in Nat
    BY <1>1, LenProperties
<1>3. Head(q) = q[1]
    OBVIOUS
<1>4. ASSUME NEW i \in DOMAIN q, q[i].fresh, i # 1
      PROVE  HasFresh(Tail(q))
    <2>1. i - 1 \in DOMAIN Tail(q) /\ Tail(q)[i - 1] = q[i]
        BY <1>1, <1>2, <1>4
    <2> QED BY <2>1, <1>4 DEF HasFresh
<1> QED BY <1>1, <1>3, <1>4 DEF HasFresh

LEMMA CollectType ==
    ASSUME NEW t \in Seq(Lines) \cup {Spoiled}, NEW m \in Messages
    PROVE  Collect(t, m) \in Seq(Lines) \cup {Spoiled}
<1>1. CASE t = Spoiled \/ m.kind # "LINE" \/ Len(t) = LINES
    BY <1>1 DEF Collect
<1>2. CASE ~(t = Spoiled \/ m.kind # "LINE" \/ Len(t) = LINES)
    <2>1. t \in Seq(Lines)
        BY <1>2
    <2>2. [doc |-> m.doc, line |-> m.line] \in Lines
        BY <1>2, MessageFields DEF Lines
    <2> QED BY <1>2, <2>1, <2>2, AppendProperties DEF Collect
<1> QED BY <1>1, <1>2

LEMMA SpoiledIsBad == ~WellFormed(Spoiled)
<1>1. 1 \in DOMAIN Spoiled /\ Spoiled[1].line = 0
    BY DEF Spoiled, Junk
<1> QED BY <1>1 DEF WellFormed

LEMMA JsonReplyIs ==
    ASSUME NEW m \in Messages
    PROVE  \E r \in Messages : JsonReply(m) = <<r>> /\ r.fresh = m.fresh
<1>1. m.fresh \in BOOLEAN
    BY MessageFields
<1>2. /\ Msg("EJK", m.fresh) \in Messages /\ Msg("EJK", m.fresh).fresh = m.fresh
      /\ Msg("OJL", m.fresh) \in Messages /\ Msg("OJL", m.fresh).fresh = m.fresh
    BY <1>1, MsgType DEF Answers
<1> QED BY <1>2 DEF JsonReply
-----------------------------------------------------------------------------
(* What a move of messages means for queues, hand and their count.         *)

QueueType ==
    mq \in Seq(Messages) /\ mw \in Seq(Messages) /\ hand \in Messages \cup {NoRequest}

UnderWay == Len(mq) + Len(mw) + InHand
Fresh == hand.fresh \/ HasFresh(mq) \/ HasFresh(mw)

LEMMA CountType == QueueType => UnderWay \in Nat /\ Len(mq) \in Nat /\ Len(mw) \in Nat
BY LenProperties DEF QueueType, UnderWay, InHand

LEMMA OwedOrFresh == Fresh <=> Owed \/ HasFresh(mw)
BY DEF Fresh, Owed, HasFresh

LEMMA EmptyHasNone == ~HasFresh(<<>>)
BY DEF HasFresh

(* simple sends m, having taken the first answer or none.                  *)
LEMMA Sent ==
    ASSUME QueueType, NEW m \in Messages, m.fresh,
           mq' = Append(AgedQueue(mq), m), hand' = Aged(hand),
           \/ mw' = AgedQueue(mw) \/ mw' = mw
           \/ mw # <<>> /\ mw' = AgedQueue(Tail(mw))
    PROVE  /\ QueueType'
           /\ Fresh'
           /\ (hand' = NoRequest) <=> (hand = NoRequest)
           /\ hand'.kind = hand.kind
           /\ (mw' = AgedQueue(mw) \/ mw' = mw) => UnderWay' = UnderWay + 1
           /\ (mw # <<>> /\ mw' = AgedQueue(Tail(mw))) => UnderWay' = UnderWay
<1>1. /\ AgedQueue(mq) \in Seq(Messages)
      /\ Len(AgedQueue(mq)) = Len(mq)
    BY AgedQueueType DEF QueueType
<1>2. /\ mq' \in Seq(Messages)
      /\ Len(mq') = Len(mq) + 1
      /\ HasFresh(mq')
    BY <1>1, Appended
<1>3. /\ hand' \in Messages \cup {NoRequest}
      /\ (hand' = NoRequest) <=> (hand = NoRequest)
      /\ hand'.kind = hand.kind
    BY AgedHand DEF QueueType
<1>4. /\ mw' \in Seq(Messages)
      /\ (mw' = AgedQueue(mw) \/ mw' = mw) => Len(mw') = Len(mw)
      /\ (mw # <<>> /\ mw' = AgedQueue(Tail(mw))) => Len(mw') = Len(mw) - 1
    <2>1. CASE mw' = AgedQueue(mw) \/ mw' = mw
        <3>1. mw' \in Seq(Messages) /\ Len(mw') = Len(mw)
            BY <2>1, AgedQueueType DEF QueueType
        <3>2. mw # <<>> /\ mw' = AgedQueue(Tail(mw)) => Len(mw') = Len(mw) - 1
            BY Removed, AgedQueueType DEF QueueType
        <3> QED BY <3>1, <3>2
    <2>2. CASE mw # <<>> /\ mw' = AgedQueue(Tail(mw))
        <3>1. Tail(mw) \in Seq(Messages) /\ Len(Tail(mw)) = Len(mw) - 1
            BY <2>2, Removed DEF QueueType
        <3>2. mw' \in Seq(Messages) /\ Len(mw') = Len(mw) - 1
            BY <2>2, <3>1, AgedQueueType
        <3>3. (mw' = AgedQueue(mw) \/ mw' = mw) => Len(mw') = Len(mw)
            BY AgedQueueType DEF QueueType
        <3> QED BY <3>2, <3>3
    <2> QED BY <2>1, <2>2
<1>5. QueueType'
    BY <1>2, <1>3, <1>4 DEF QueueType
<1>6. Fresh'
    BY <1>2 DEF Fresh
<1>7. InHand' = InHand
    BY <1>3 DEF InHand
<1>8. Len(mq) \in Nat /\ Len(mw) \in Nat /\ InHand \in Nat
    BY CountType DEF InHand
<1>9. UnderWay' = Len(mq) + 1 + Len(mw') + InHand
    BY <1>2, <1>7 DEF UnderWay
<1>10. /\ (mw' = AgedQueue(mw) \/ mw' = mw) => UnderWay' = UnderWay + 1
       /\ (mw # <<>> /\ mw' = AgedQueue(Tail(mw))) => UnderWay' = UnderWay
    <2>1. CASE Len(mw') = Len(mw)
        BY <2>1, <1>4, <1>8, <1>9 DEF UnderWay
    <2>2. CASE Len(mw') = Len(mw) - 1
        BY <2>2, <1>4, <1>8, <1>9 DEF UnderWay
    <2> QED BY <2>1, <2>2, <1>4
<1> QED BY <1>3, <1>5, <1>6, <1>10

(* Either process takes the first message of mw and puts nothing.          *)
LEMMA TakenFromMw ==
    ASSUME QueueType, mw # <<>>, mw' = Tail(mw), mq' = mq, hand' = hand
    PROVE  QueueType' /\ UnderWay' = UnderWay - 1
<1>1. mw' \in Seq(Messages) /\ Len(mw') = Len(mw) - 1
    BY Removed DEF QueueType
<1>2. InHand' = InHand /\ InHand \in Nat
    BY DEF InHand
<1>3. Len(mq) \in Nat /\ Len(mw) \in Nat
    BY CountType
<1> QED BY <1>1, <1>2, <1>3 DEF QueueType, UnderWay

(* The thread drops the first request.                                     *)
LEMMA TakenFromMq ==
    ASSUME QueueType, mq # <<>>, mq' = Tail(mq), mw' = mw, hand' = hand
    PROVE  QueueType' /\ UnderWay' = UnderWay - 1
<1>1. mq' \in Seq(Messages) /\ Len(mq') = Len(mq) - 1
    BY Removed DEF QueueType
<1>2. InHand' = InHand /\ InHand \in Nat
    BY DEF InHand
<1>3. Len(mq) \in Nat /\ Len(mw) \in Nat
    BY CountType
<1> QED BY <1>1, <1>2, <1>3 DEF QueueType, UnderWay

(* The thread answers the first request at once.                           *)
LEMMA AnsweredAtOnce ==
    ASSUME QueueType, mq # <<>>, mq' = Tail(mq), hand' = hand,
           NEW r \in Messages, mw' = Append(mw, r), r.fresh = Head(mq).fresh
    PROVE  QueueType' /\ UnderWay' = UnderWay /\ (Fresh => Fresh')
<1>1. /\ mq' \in Seq(Messages) /\ Len(mq') = Len(mq) - 1
      /\ HasFresh(mq) => Head(mq).fresh \/ HasFresh(mq')
    BY Removed DEF QueueType
<1>2. /\ mw' \in Seq(Messages) /\ Len(mw') = Len(mw) + 1
      /\ HasFresh(mw) \/ r.fresh => HasFresh(mw')
    BY Appended DEF QueueType
<1>3. InHand' = InHand /\ InHand \in Nat
    BY DEF InHand
<1>4. Len(mq) \in Nat /\ Len(mw) \in Nat
    BY CountType
<1>5. UnderWay' = UnderWay
    BY <1>1, <1>2, <1>3, <1>4 DEF UnderWay
<1>6. Fresh => Fresh'
    BY <1>1, <1>2 DEF Fresh
<1> QED BY <1>1, <1>2, <1>5, <1>6 DEF QueueType

(* The thread takes the first request in hand.                             *)
LEMMA TakenInHand ==
    ASSUME QueueType, mq # <<>>, hand = NoRequest, mq' = Tail(mq),
           hand' \in Messages, hand'.fresh = Head(mq).fresh, mw' = mw
    PROVE  QueueType' /\ UnderWay' = UnderWay /\ (Fresh => Fresh')
<1>1. /\ mq' \in Seq(Messages) /\ Len(mq') = Len(mq) - 1
      /\ HasFresh(mq) => hand'.fresh \/ HasFresh(mq')
    BY Removed DEF QueueType
<1>2. InHand = 0 /\ InHand' = 1
    BY <1>1, MessageFields DEF InHand
<1>3. Len(mq) \in Nat /\ Len(mw) \in Nat
    BY CountType
<1>4. UnderWay' = UnderWay
    BY <1>1, <1>2, <1>3 DEF UnderWay
<1>5. Fresh => Fresh'
    BY <1>1 DEF Fresh, NoRequest, Msg
<1> QED BY <1>1, <1>4, <1>5 DEF QueueType

(* The thread answers the request in hand.                                 *)
LEMMA AnsweredFromHand ==
    ASSUME QueueType, hand # NoRequest, hand' = NoRequest, mq' = mq,
           NEW r \in Messages, mw' = Append(mw, r), r.fresh = hand.fresh
    PROVE  QueueType' /\ UnderWay' = UnderWay /\ (Fresh => Fresh')
<1>1. /\ mw' \in Seq(Messages) /\ Len(mw') = Len(mw) + 1
      /\ HasFresh(mw) \/ r.fresh => HasFresh(mw')
    BY Appended DEF QueueType
<1>2. InHand = 1 /\ InHand' = 0
    BY DEF InHand
<1>3. Len(mq) \in Nat /\ Len(mw) \in Nat
    BY CountType
<1>4. UnderWay' = UnderWay
    BY <1>1, <1>2, <1>3 DEF UnderWay
<1>5. Fresh => Fresh'
    BY <1>1 DEF Fresh
<1> QED BY <1>1, <1>4, <1>5 DEF QueueType

(* The request in hand is left without an answer.                          *)
LEMMA DroppedFromHand ==
    ASSUME QueueType, hand # NoRequest, hand' = NoRequest, mq' = mq, mw' = mw
    PROVE  QueueType' /\ UnderWay' = UnderWay - 1
<1>1. InHand = 1 /\ InHand' = 0
    BY DEF InHand
<1>2. Len(mq) \in Nat /\ Len(mw) \in Nat
    BY CountType
<1> QED BY <1>1, <1>2 DEF QueueType, UnderWay

-----------------------------------------------------------------------------
(* The inductive invariant.                                                *)

StateType ==
    /\ sm \in Waits \cup {"idle", "down"}
    /\ sdoc \in Docs \cup {NoDoc} /\ sline \in 0 .. LINES
    /\ pc \in Places
    /\ text \in Seq(Lines) \cup {Spoiled}
    /\ adapterOK \in BOOLEAN /\ sokOld \in BOOLEAN /\ booting \in BOOLEAN
    /\ stops \in 0 .. MaxStops
    /\ abandoned \in 0 .. MaxAbandoned /\ mispaired \in BOOLEAN
    /\ parsed \subseteq Seq(Lines) /\ acked \subseteq Docs
    /\ sm \in {"SJS", "line", "EJS"} => sdoc \in Docs

(* The hand holds a question while the thread serves it, and then only.    *)
HandInv ==
    /\ hand # NoRequest => pc \in {"clear", "receive", "send"} /\ hand.kind \in Questions
    /\ pc = "send" => hand.kind \in {"ADS", "RMD"}

(* With the queues as full as they may be, the last message is the one     *)
(* simple waits for.                                                       *)
BacklogInv ==
    /\ UnderWay <= abandoned + 1
    /\ UnderWay = abandoned + 1 => sm \in Waits /\ Fresh

PInv == QueueType /\ StateType /\ HandInv /\ BacklogInv

LEMMA InvInit == Init => PInv
<1> SUFFICES ASSUME Init PROVE PInv
    OBVIOUS
<1>1. QueueType
    BY EmptySeq DEF Init, QueueType
<1>2. StateType
    <2>1. text \in Seq(Lines) /\ parsed \subseteq Seq(Lines) /\ acked \subseteq Docs
        BY EmptySeq DEF Init
    <2>2. sline \in 0 .. LINES /\ stops \in 0 .. MaxStops /\ abandoned \in 0 .. MaxAbandoned
        BY LinesAssumption, BoundsAssumption DEF Init
    <2> QED BY <2>1, <2>2 DEF Init, StateType, Places
<1>3. HandInv
    BY DEF Init, HandInv
<1>4. UnderWay = 0
    BY EmptySeq DEF Init, UnderWay, InHand
<1>5. BacklogInv
    BY <1>4 DEF Init, BacklogInv
<1> QED BY <1>1, <1>2, <1>3, <1>5 DEF PInv

(* What is left of BacklogInv when simple is not waiting, and after it     *)
(* gave up a wait or was stopped.                                          *)
LEMMA NotFull ==
    ASSUME PInv, sm \notin Waits \/ ~Fresh
    PROVE  UnderWay <= abandoned
BY CountType DEF PInv, BacklogInv, StateType

LEMMA AfterTimeout ==
    ASSUME PInv, TimesOut
    PROVE  /\ UnderWay <= abandoned'
           /\ abandoned' \in 0 .. MaxAbandoned
<1>1. abandoned \in 0 .. MaxAbandoned /\ UnderWay \in Nat /\ UnderWay <= abandoned + 1
    BY CountType DEF PInv, StateType, BacklogInv
<1>2. CASE Owed
    BY <1>1, <1>2, BoundsAssumption DEF TimesOut
<1>3. CASE ~Owed
    <2>1. ~Fresh
        BY <1>3, OwedOrFresh, EmptyHasNone DEF TimesOut
    <2>2. UnderWay <= abandoned
        BY <2>1, NotFull
    <2> QED BY <1>1, <1>3, <2>2 DEF TimesOut
<1> QED BY <1>2, <1>3

LEMMA AfterStop ==
    ASSUME PInv, Stopped
    PROVE  /\ UnderWay <= abandoned'
           /\ abandoned' \in 0 .. MaxAbandoned
<1>1. abandoned \in 0 .. MaxAbandoned /\ UnderWay \in Nat /\ UnderWay <= abandoned + 1
    BY CountType DEF PInv, StateType, BacklogInv
<1>2. CASE sm \in Waits
    BY <1>1, <1>2, BoundsAssumption DEF Stopped
<1>3. CASE sm \notin Waits
    BY <1>1, <1>3, NotFull DEF Stopped
<1> QED BY <1>2, <1>3

-----------------------------------------------------------------------------
(* The steps of simple.                                                    *)

(* A request leaves room: either simple was idle, or its wait has ended.   *)
LEMMA Requested ==
    ASSUME PInv, NEW m \in Messages, m.fresh,
           mq' = Append(AgedQueue(mq), m), hand' = Aged(hand),
           \/ mw' = AgedQueue(mw) \/ mw' = mw
           \/ mw # <<>> /\ mw' = AgedQueue(Tail(mw)),
           \/ UnderWay <= abandoned'
           \/ mw # <<>> /\ mw' = AgedQueue(Tail(mw)) /\ abandoned' = abandoned,
           abandoned' \in Nat, sm' \in Waits, pc' = pc
    PROVE  QueueType' /\ HandInv' /\ BacklogInv'
<1>1. /\ QueueType' /\ Fresh'
      /\ (hand' = NoRequest) <=> (hand = NoRequest)
      /\ hand'.kind = hand.kind
      /\ (mw' = AgedQueue(mw) \/ mw' = mw) => UnderWay' = UnderWay + 1
      /\ (mw # <<>> /\ mw' = AgedQueue(Tail(mw))) => UnderWay' = UnderWay
    BY Sent DEF PInv
<1>2. HandInv'
    BY <1>1 DEF PInv, HandInv
<1>3. UnderWay \in Nat /\ UnderWay <= abandoned + 1 /\ abandoned \in Nat
    BY CountType DEF PInv, BacklogInv, StateType
<1>4. UnderWay' <= abandoned' + 1
    <2>1. UnderWay' = UnderWay + 1 \/ UnderWay' = UnderWay
        BY <1>1
    <2>2. UnderWay <= abandoned' \/ (UnderWay' = UnderWay /\ abandoned' = abandoned)
        BY <1>1
    <2> QED BY <2>1, <2>2, <1>3
<1>5. BacklogInv'
    BY <1>1, <1>4 DEF BacklogInv
<1> QED BY <1>1, <1>2, <1>5

LEMMA AbandonedNat == PInv => abandoned \in Nat
BY BoundsAssumption DEF PInv, StateType

LEMMA InvAsk ==
    ASSUME PInv, NEW k \in Questions, Ask(k)
    PROVE  PInv'
<1>1. Msg(k, TRUE) \in Messages /\ Msg(k, TRUE).fresh
    BY MsgType DEF Requests
<1>2. UnderWay <= abandoned'
    BY NotFull DEF Ask, Waits
<1>3. QueueType' /\ HandInv' /\ BacklogInv'
    BY <1>1, <1>2, Requested, AbandonedNat DEF Ask, Send, Waits, UnchangedBySimple
<1>4. StateType'
    BY DEF PInv, StateType, Ask, Waits, UnchangedBySimple, watch
<1> QED BY <1>3, <1>4 DEF PInv

LEMMA InvSendJson ==
    ASSUME PInv, NEW d \in Docs, SendJson(d)
    PROVE  PInv'
<1>1. Msg("SJS", TRUE) \in Messages /\ Msg("SJS", TRUE).fresh
    BY MsgType DEF Requests
<1>2. UnderWay <= abandoned'
    BY NotFull DEF SendJson, Waits
<1>3. QueueType' /\ HandInv' /\ BacklogInv'
    BY <1>1, <1>2, Requested, AbandonedNat DEF SendJson, Send, Waits, UnchangedBySimple
<1>4. StateType'
    BY LinesAssumption DEF PInv, StateType, SendJson, Waits, UnchangedBySimple, watch
<1> QED BY <1>3, <1>4 DEF PInv

(* An answer taken without a new request leaves room for one.              *)
LEMMA InvTakeAnswer ==
    ASSUME PInv, TakeAnswer
    PROVE  PInv'
<1>1. QueueType' /\ UnderWay' = UnderWay - 1
    BY TakenFromMw DEF PInv, TakeAnswer, Receive
<1>2. HandInv'
    BY DEF PInv, HandInv, TakeAnswer, Receive, UnchangedBySimple
<1>3. BacklogInv'
    BY <1>1, CountType DEF PInv, BacklogInv, StateType, TakeAnswer, Receive
<1>4. mispaired' \in BOOLEAN
    BY Zenon DEF PInv, StateType, TakeAnswer, Receive
<1>5. StateType'
    BY <1>4 DEF PInv, StateType, TakeAnswer, Receive, Waits, UnchangedBySimple, watch
<1> QED BY <1>1, <1>2, <1>3, <1>5 DEF PInv

LEMMA InvTakeFirstReply ==
    ASSUME PInv, TakeFirstReply
    PROVE  PInv'
<1>1. Msg("ADS", TRUE) \in Messages /\ Msg("ADS", TRUE).fresh
    BY MsgType DEF Requests, Questions
<1>2. QueueType' /\ HandInv' /\ BacklogInv'
    BY <1>1, Requested, AbandonedNat DEF TakeFirstReply, SecondReport, Receive, Waits, UnchangedBySimple
<1>3. mispaired' \in BOOLEAN
    BY Zenon DEF PInv, StateType, TakeFirstReply, Receive
<1>4. StateType'
    BY <1>3 DEF PInv, StateType, TakeFirstReply, SecondReport, Receive, Waits,
                UnchangedBySimple, watch
<1> QED BY <1>2, <1>4 DEF PInv

LEMMA InvNextLine ==
    ASSUME PInv, NextLine
    PROVE  PInv'
<1>1. sline + 1 \in 1 .. LINES /\ sdoc \in Docs
    BY LinesAssumption DEF PInv, StateType, NextLine, MoreLines
<1>2. LineMsg(sdoc, sline + 1) \in Messages /\ LineMsg(sdoc, sline + 1).fresh
    BY <1>1, LineMsgType
<1>3. QueueType' /\ HandInv' /\ BacklogInv'
    BY <1>2, Requested, AbandonedNat DEF NextLine, Receive, Waits, UnchangedBySimple
<1>4. mispaired' \in BOOLEAN
    BY Zenon DEF PInv, StateType, NextLine, Receive
<1>5. StateType'
    BY <1>1, <1>4, LinesAssumption
       DEF PInv, StateType, NextLine, Receive, Waits, UnchangedBySimple, watch
<1> QED BY <1>3, <1>5 DEF PInv

LEMMA InvEndOfLines ==
    ASSUME PInv, EndOfLines
    PROVE  PInv'
<1>1. Msg("EJS", TRUE) \in Messages /\ Msg("EJS", TRUE).fresh
    BY MsgType DEF Requests
<1>2. QueueType' /\ HandInv' /\ BacklogInv'
    BY <1>1, Requested, AbandonedNat DEF EndOfLines, Receive, Waits, UnchangedBySimple
<1>3. mispaired' \in BOOLEAN
    BY Zenon DEF PInv, StateType, EndOfLines, Receive
<1>4. StateType'
    BY <1>3 DEF PInv, StateType, EndOfLines, Receive, Waits, UnchangedBySimple, watch
<1> QED BY <1>2, <1>4 DEF PInv

LEMMA InvAwaitEJK ==
    ASSUME PInv, AwaitEJK
    PROVE  PInv'
<1>1. QueueType' /\ UnderWay' = UnderWay - 1
    BY TakenFromMw DEF PInv, AwaitEJK, Receive
<1>2. HandInv'
    BY DEF PInv, HandInv, AwaitEJK, Receive, UnchangedBySimple
<1>3. BacklogInv'
    BY <1>1, CountType DEF PInv, BacklogInv, StateType, AwaitEJK, Receive
<1>4. mispaired' \in BOOLEAN
    BY Zenon DEF PInv, StateType, AwaitEJK, Receive
<1>5. CASE Head(mw).kind # "EJK"
    <2>1. UNCHANGED <<sm, sdoc, sline, acked>>
        BY <1>5 DEF AwaitEJK, simple
    <2>2. StateType'
        BY <1>4, <2>1 DEF PInv, StateType, AwaitEJK, Receive, UnchangedBySimple, watch
    <2> QED BY <1>1, <1>2, <1>3, <2>2 DEF PInv
<1>6. StateType' => PInv'
    BY <1>1, <1>2, <1>3 DEF PInv
<1>7. Head(mw).kind = "EJK" => StateType'
    BY <1>4, LinesAssumption
       DEF PInv, StateType, AwaitEJK, Receive, Waits, UnchangedBySimple, watch
<1> QED BY <1>5, <1>6, <1>7

LEMMA InvGiveUp ==
    ASSUME PInv, GiveUp
    PROVE  PInv'
<1>1. QueueType' /\ UnderWay' = UnderWay
    BY DEF PInv, QueueType, GiveUp, queues, UnderWay, InHand
<1>2. HandInv'
    BY DEF PInv, HandInv, GiveUp, TimesOut, UnchangedBySimple
<1>3. UnderWay <= abandoned' /\ abandoned' \in 0 .. MaxAbandoned
    BY AfterTimeout DEF GiveUp
<1>4. BacklogInv'
    BY <1>1, <1>3, CountType, BoundsAssumption DEF PInv, BacklogInv
<1>5. StateType'
    BY <1>3, LinesAssumption
       DEF PInv, StateType, GiveUp, TimesOut, Waits, UnchangedBySimple, watch
<1> QED BY <1>1, <1>2, <1>4, <1>5 DEF PInv

LEMMA InvGiveUpFirstReply ==
    ASSUME PInv, GiveUpFirstReply
    PROVE  PInv'
<1>1. Msg("ADS", TRUE) \in Messages /\ Msg("ADS", TRUE).fresh
    BY MsgType DEF Requests, Questions
<1>2. UnderWay <= abandoned' /\ abandoned' \in 0 .. MaxAbandoned
    BY AfterTimeout DEF GiveUpFirstReply
<1>3. QueueType' /\ HandInv' /\ BacklogInv'
    <2>1. /\ mq' = Append(AgedQueue(mq), Msg("ADS", TRUE))
          /\ hand' = Aged(hand) /\ mw' = mw /\ sm' \in Waits /\ pc' = pc
        BY DEF GiveUpFirstReply, TimesOut, SecondReport, Waits, UnchangedBySimple
    <2>2. abandoned' \in Nat
        BY <1>2, BoundsAssumption
    <2> QED BY <1>1, <1>2, <2>1, <2>2, Requested
<1>4. StateType'
    BY <1>2 DEF PInv, StateType, GiveUpFirstReply, TimesOut, SecondReport, Waits,
                UnchangedBySimple, watch
<1> QED BY <1>3, <1>4 DEF PInv
-----------------------------------------------------------------------------
(* The steps of the thread.                                                *)

(* The count and what simple waits for stay, or the count sinks.           *)
LEMMA CountKept ==
    ASSUME PInv, QueueType', sm' = sm, abandoned' = abandoned,
           \/ UnderWay' = UnderWay - 1
           \/ UnderWay' = UnderWay /\ (Fresh => Fresh')
    PROVE  BacklogInv'
BY CountType, AbandonedNat DEF PInv, BacklogInv

LEMMA InvClearRequests ==
    ASSUME PInv, ClearRequests
    PROVE  PInv'
<1>1. /\ QueueType'
      /\ \/ UnderWay' = UnderWay - 1
         \/ UnderWay' = UnderWay /\ (Fresh => Fresh')
    <2>1. CASE mq = <<>>
        BY <2>1 DEF PInv, QueueType, ClearRequests, UnderWay, InHand, Fresh
    <2>2. CASE mq # <<>>
        BY <2>2, TakenFromMq DEF PInv, ClearRequests
    <2> QED BY <2>1, <2>2
<1>2. BacklogInv'
    BY <1>1, CountKept DEF ClearRequests, UnchangedByThread, simple
<1>3. HandInv'
    BY DEF PInv, HandInv, ClearRequests
<1>4. StateType'
    BY DEF PInv, StateType, ClearRequests, Places, UnchangedByThread, simple, watch
<1> QED BY <1>1, <1>2, <1>3, <1>4 DEF PInv

LEMMA InvMustClear ==
    ASSUME PInv, MustClear
    PROVE  PInv'
<1>1. QueueType' /\ UnderWay' = UnderWay /\ (Fresh => Fresh')
    BY DEF PInv, QueueType, MustClear, queues, UnderWay, InHand, Fresh
<1>2. BacklogInv'
    BY <1>1, CountKept DEF MustClear, UnchangedByThread, simple
<1>3. HandInv'
    BY DEF PInv, HandInv, MustClear
<1>4. StateType'
    BY DEF PInv, StateType, MustClear, Places, UnchangedByThread, simple, watch
<1> QED BY <1>1, <1>2, <1>3, <1>4 DEF PInv

LEMMA InvClearOne ==
    ASSUME PInv, ClearOne
    PROVE  PInv'
<1>1. QueueType' /\ UnderWay' = UnderWay - 1
    BY TakenFromMw DEF PInv, ClearOne
<1>2. BacklogInv'
    BY <1>1, CountKept DEF ClearOne, UnchangedByThread, simple
<1>3. HandInv'
    BY DEF PInv, HandInv, ClearOne
<1>4. StateType'
    BY DEF PInv, StateType, ClearOne, Places, UnchangedByThread, simple, watch
<1> QED BY <1>1, <1>2, <1>3, <1>4 DEF PInv

(* The answer to the question in hand.                                     *)
LEMMA AnswerToHand ==
    ASSUME PInv, hand.kind \in Questions
    PROVE  /\ hand # NoRequest
           /\ Msg("ANS", hand.fresh) \in Messages
           /\ Msg("ANS", hand.fresh).fresh = hand.fresh
<1>1. hand # NoRequest
    BY DEF NoRequest, Msg, Questions
<1>2. hand.fresh \in BOOLEAN
    BY <1>1, MessageFields DEF PInv, QueueType
<1> QED BY <1>1, <1>2, MsgType DEF Answers

LEMMA InvCleared ==
    ASSUME PInv, Cleared
    PROVE  PInv'
<1>1. mw = <<>> /\ mq' = mq /\ sm' = sm /\ abandoned' = abandoned
    BY DEF Cleared, UnchangedByThread, simple
<1>2. \A m : <<m>> = Append(mw, m)
    BY <1>1
<1>3. CASE hand.kind = "CFF"
    <2>1. /\ pc' = "house" /\ hand' = NoRequest /\ sokOld' = FALSE
          /\ mw' = Append(mw, Msg("ANS", hand.fresh))
        BY <1>2, <1>3 DEF Cleared
    <2>2. QueueType' /\ UnderWay' = UnderWay /\ (Fresh => Fresh')
        BY <1>1, <1>3, <2>1, AnswerToHand, AnsweredFromHand DEF PInv, Questions
    <2>3. HandInv'
        BY <2>1 DEF HandInv
    <2>4. StateType'
        BY <2>1 DEF PInv, StateType, Cleared, Places, UnchangedByThread, simple, watch
    <2> QED BY <1>1, <2>2, <2>3, <2>4, CountKept DEF PInv
<1>4. CASE hand.kind = "ADA"
    <2>1. /\ pc' = "house" /\ hand' = NoRequest /\ sokOld' = sokOld
          /\ mw' = Append(mw, Msg("ANS", hand.fresh)) \/ mw' = mw
        BY <1>2, <1>4 DEF Cleared
    <2>2. /\ QueueType'
          /\ \/ UnderWay' = UnderWay - 1
             \/ UnderWay' = UnderWay /\ (Fresh => Fresh')
        <3>1. CASE mw' = Append(mw, Msg("ANS", hand.fresh))
            BY <1>1, <1>4, <2>1, <3>1, AnswerToHand, AnsweredFromHand DEF PInv, Questions
        <3>2. CASE mw' = mw
            BY <1>1, <1>4, <2>1, <3>2, AnswerToHand, DroppedFromHand DEF PInv, Questions
        <3> QED BY <2>1, <3>1, <3>2
    <2>3. HandInv'
        BY <2>1 DEF HandInv
    <2>4. StateType'
        BY <2>1 DEF PInv, StateType, Cleared, Places, UnchangedByThread, simple, watch
    <2> QED BY <1>1, <2>2, <2>3, <2>4, CountKept DEF PInv
<1>5. CASE hand.kind \notin {"CFF", "ADA"}
    <2>1. /\ mw' = mw /\ hand' = hand /\ sokOld' = sokOld
          /\ IF hand.kind \in {"ADS", "RMD"} THEN pc' = "send" ELSE pc' = "loop"
        BY <1>5 DEF Cleared
    <2>2. QueueType' /\ UnderWay' = UnderWay /\ (Fresh => Fresh')
        BY <1>1, <2>1 DEF PInv, QueueType, UnderWay, InHand, Fresh
    <2>3. HandInv'
        BY <1>5, <2>1 DEF PInv, HandInv, Questions
    <2>4. StateType'
        BY <2>1 DEF PInv, StateType, Cleared, Places, UnchangedByThread, simple, watch
    <2> QED BY <1>1, <2>2, <2>3, <2>4, CountKept DEF PInv
<1> QED BY <1>3, <1>4, <1>5

LEMMA InvTakeQuestion ==
    ASSUME PInv, TakeQuestion
    PROVE  PInv'
<1>1. hand = NoRequest
    BY DEF PInv, HandInv, TakeQuestion
<1>2. PICK k \in Heard(Head(mq)) :
         /\ hand' = Msg(k, Head(mq).fresh)
         /\ adapterOK' = (adapterOK /\ k # "ADS")
    BY DEF TakeQuestion
<1>3. k \in Questions /\ Head(mq).fresh \in BOOLEAN
    BY Removed, MessageFields DEF PInv, QueueType, TakeQuestion, Heard, Questions
<1>4. hand' \in Messages /\ hand'.fresh = Head(mq).fresh /\ hand'.kind \in Questions
    BY <1>2, <1>3, MsgType DEF Requests
<1>5. QueueType' /\ UnderWay' = UnderWay /\ (Fresh => Fresh')
    BY <1>1, <1>4, TakenInHand DEF PInv, TakeQuestion
<1>6. BacklogInv'
    BY <1>5, CountKept DEF TakeQuestion, UnchangedByThread, simple
<1>7. HandInv'
    BY <1>4 DEF HandInv, TakeQuestion
<1>8. adapterOK' \in BOOLEAN
    BY <1>2, Zenon DEF PInv, StateType
<1>9. StateType'
    BY <1>8 DEF PInv, StateType, TakeQuestion, Places, UnchangedByThread, simple
<1> QED BY <1>5, <1>6, <1>7, <1>9 DEF PInv

LEMMA InvTakeSJS ==
    ASSUME PInv, TakeSJS
    PROVE  PInv'
<1>1. Head(mq).fresh \in BOOLEAN
    BY Removed, MessageFields DEF PInv, QueueType, TakeSJS
<1>2. /\ Msg("SJO", Head(mq).fresh) \in Messages
      /\ Msg("SJO", Head(mq).fresh).fresh = Head(mq).fresh
    BY <1>1, MsgType DEF Answers
<1>3. QueueType' /\ UnderWay' = UnderWay /\ (Fresh => Fresh')
    BY <1>2, AnsweredAtOnce DEF PInv, TakeSJS
<1>4. BacklogInv'
    BY <1>3, CountKept DEF TakeSJS, UnchangedByThread, simple
<1>5. HandInv'
    BY DEF PInv, HandInv, TakeSJS
<1>6. text' \in Seq(Lines)
    BY EmptySeq DEF TakeSJS, FirstText
<1>7. StateType'
    BY <1>6 DEF PInv, StateType, TakeSJS, Places, UnchangedByThread, simple, watch
<1> QED BY <1>3, <1>4, <1>5, <1>7 DEF PInv

LEMMA InvTakeStray ==
    ASSUME PInv, TakeStray
    PROVE  PInv'
<1>1. QueueType' /\ UnderWay' = UnderWay - 1
    BY TakenFromMq DEF PInv, TakeStray
<1>2. BacklogInv'
    BY <1>1, CountKept DEF TakeStray, UnchangedByThread, simple
<1>3. HandInv'
    BY DEF PInv, HandInv, TakeStray
<1>4. StateType'
    BY DEF PInv, StateType, TakeStray, Places, UnchangedByThread, simple, watch
<1> QED BY <1>1, <1>2, <1>3, <1>4 DEF PInv

LEMMA InvReadJson ==
    ASSUME PInv, ReadJson
    PROVE  PInv'
<1>1. Head(mq) \in Messages /\ mw \in Seq(Messages)
    BY Removed DEF PInv, QueueType, ReadJson
<1>2. PICK r \in Messages : JsonReply(Head(mq)) = <<r>> /\ r.fresh = Head(mq).fresh
    BY <1>1, JsonReplyIs
<1>3. mw' = Append(mw, r)
    BY <1>1, <1>2, AppendIsConcat DEF ReadJson
<1>4. QueueType' /\ UnderWay' = UnderWay /\ (Fresh => Fresh')
    BY <1>2, <1>3, AnsweredAtOnce DEF PInv, ReadJson
<1>5. BacklogInv'
    BY <1>4, CountKept DEF ReadJson, UnchangedByThread, simple
<1>6. HandInv'
    BY DEF PInv, HandInv, ReadJson
<1>7. text' \in Seq(Lines) \cup {Spoiled}
    BY <1>1, CollectType DEF PInv, StateType, ReadJson
<1>8. StateType'
    BY <1>7 DEF PInv, StateType, ReadJson, Places, UnchangedByThread, simple, watch
<1> QED BY <1>4, <1>5, <1>6, <1>8 DEF PInv

LEMMA InvParse ==
    ASSUME PInv, Parse
    PROVE  PInv'
<1>1. QueueType' /\ UnderWay' = UnderWay /\ (Fresh => Fresh')
    BY DEF PInv, QueueType, Parse, queues, UnderWay, InHand, Fresh
<1>2. BacklogInv'
    BY <1>1, CountKept DEF Parse, UnchangedByThread, simple
<1>3. HandInv'
    BY DEF PInv, HandInv, Parse
<1>4. parsed' \subseteq Seq(Lines)
    BY SpoiledIsBad DEF PInv, StateType, Parse
<1>5. pc' \in Places
    BY DEF Parse, Places
<1>6. StateType'
    BY <1>4, <1>5 DEF PInv, StateType, Parse, UnchangedByThread, simple, watch
<1> QED BY <1>1, <1>2, <1>3, <1>6 DEF PInv

LEMMA InvSendAndReturn ==
    ASSUME PInv, SendAndReturn
    PROVE  PInv'
<1>1. hand.kind \in Questions
    BY DEF PInv, HandInv, SendAndReturn, Questions
<1>2. /\ QueueType'
      /\ \/ UnderWay' = UnderWay - 1
         \/ UnderWay' = UnderWay /\ (Fresh => Fresh')
    <2>1. CASE mw' = Append(mw, Msg("ANS", hand.fresh))
        BY <1>1, <2>1, AnswerToHand, AnsweredFromHand DEF PInv, SendAndReturn
    <2>2. CASE mw' = mw
        BY <1>1, <2>2, AnswerToHand, DroppedFromHand DEF PInv, SendAndReturn
    <2> QED BY <2>1, <2>2 DEF SendAndReturn
<1>3. BacklogInv'
    BY <1>2, CountKept DEF SendAndReturn, UnchangedByThread, simple
<1>4. HandInv'
    BY DEF HandInv, SendAndReturn
<1>5. StateType'
    BY DEF PInv, StateType, SendAndReturn, Places, UnchangedByThread, simple, watch
<1> QED BY <1>2, <1>3, <1>4, <1>5 DEF PInv

LEMMA InvPassing ==
    ASSUME PInv, NoMessage \/ Push \/ House
    PROVE  PInv'
<1>1. QueueType' /\ UnderWay' = UnderWay /\ (Fresh => Fresh')
    BY DEF PInv, QueueType, NoMessage, Push, House, queues, UnderWay, InHand, Fresh
<1>2. BacklogInv'
    BY <1>1, CountKept DEF NoMessage, Push, House, UnchangedByThread, simple
<1>3. HandInv'
    BY DEF PInv, HandInv, NoMessage, Push, House
<1>4. StateType'
    BY DEF PInv, StateType, NoMessage, Push, House, Places, UnchangedByThread, simple, watch
<1> QED BY <1>1, <1>2, <1>3, <1>4 DEF PInv

-----------------------------------------------------------------------------
(* simple is started or stopped.                                           *)

LEMMA CountAfterStop ==
    ASSUME PInv, Stopped, QueueType',
           UnderWay' = UnderWay \/ UnderWay' = UnderWay - 1
    PROVE  BacklogInv'
BY AfterStop, CountType, BoundsAssumption DEF PInv, BacklogInv

LEMMA InvStarted ==
    ASSUME PInv, HouseRestart \/ StartSimple \/ SimpleEnds
    PROVE  PInv'
<1>1. QueueType' /\ UnderWay' = UnderWay
    BY DEF PInv, QueueType, HouseRestart, StartSimple, SimpleEnds, queues, UnderWay, InHand
<1>2. Stopped
    BY DEF HouseRestart, StartSimple, SimpleEnds
<1>3. BacklogInv'
    BY <1>1, <1>2, CountAfterStop
<1>4. HandInv'
    BY DEF PInv, HandInv, HouseRestart, StartSimple, SimpleEnds
<1>5. abandoned' \in 0 .. MaxAbandoned /\ 0 \in 0 .. LINES
    BY <1>2, AfterStop, LinesAssumption
<1>6. ASSUME HouseRestart
      PROVE  StateType'
    BY <1>5, <1>6 DEF PInv, StateType, HouseRestart, Places
<1>7. ASSUME StartSimple
      PROVE  StateType'
    BY <1>5, <1>7 DEF PInv, StateType, StartSimple, watch
<1>8. ASSUME SimpleEnds
      PROVE  StateType'
    <2>1. stops' \in 0 .. MaxStops
        BY <1>8, BoundsAssumption DEF PInv, StateType, SimpleEnds
    <2> QED BY <1>5, <1>8, <2>1 DEF PInv, StateType, SimpleEnds, watch
<1> QED BY <1>1, <1>3, <1>4, <1>6, <1>7, <1>8 DEF PInv

LEMMA InvTestKill ==
    ASSUME PInv, TestKill
    PROVE  PInv'
<1>1. mq' = mq /\ mw' = mw /\ hand' = NoRequest
    BY DEF TestKill, queues
<1>2. QueueType'
    BY <1>1 DEF PInv, QueueType
<1>3. UnderWay' = UnderWay \/ UnderWay' = UnderWay - 1
    <2>1. CASE hand = NoRequest
        BY <1>1, <2>1 DEF UnderWay, InHand
    <2>2. CASE hand # NoRequest
        BY <1>1, <2>2, DroppedFromHand DEF PInv
    <2> QED BY <2>1, <2>2
<1>4. BacklogInv'
    BY <1>2, <1>3, CountAfterStop DEF TestKill
<1>5. HandInv'
    BY DEF HandInv, TestKill
<1>6. abandoned' \in 0 .. MaxAbandoned /\ 0 \in 0 .. LINES
    BY AfterStop, LinesAssumption DEF TestKill
<1>7. stops' \in 0 .. MaxStops
    BY BoundsAssumption DEF PInv, StateType, TestKill
<1>8. text' \in Seq(Lines)
    BY EmptySeq DEF TestKill
<1>9. StateType'
    BY <1>6, <1>7, <1>8 DEF PInv, StateType, TestKill, Places
<1> QED BY <1>2, <1>4, <1>5, <1>9 DEF PInv

LEMMA InvSilence ==
    ASSUME PInv, Silence
    PROVE  PInv'
<1>1. QueueType' /\ UnderWay' = UnderWay /\ (Fresh => Fresh')
    BY DEF PInv, QueueType, Silence, queues, UnderWay, InHand, Fresh
<1>2. BacklogInv'
    BY <1>1, CountKept DEF Silence, simple, ghosts
<1>3. HandInv'
    BY DEF PInv, HandInv, Silence
<1>4. StateType'
    BY DEF PInv, StateType, Silence, simple, ghosts
<1> QED BY <1>1, <1>2, <1>3, <1>4 DEF PInv

-----------------------------------------------------------------------------
(* The theorems.                                                           *)

LEMMA InvNext == PInv /\ [Next]_vars => PInv'
<1> SUFFICES ASSUME PInv, [Next]_vars PROVE PInv'
    OBVIOUS
<1>1. ASSUME Simple
      PROVE  PInv'
    BY <1>1, InvAsk, InvSendJson, InvTakeAnswer, InvTakeFirstReply, InvNextLine,
       InvEndOfLines, InvAwaitEJK, InvGiveUp, InvGiveUpFirstReply
       DEF Simple, Conversation
<1>2. ASSUME Thread
      PROVE  PInv'
    BY <1>2, InvClearRequests, InvMustClear, InvClearOne, InvCleared, InvTakeQuestion,
       InvTakeSJS, InvTakeStray, InvReadJson, InvParse, InvSendAndReturn, InvPassing,
       InvStarted
       DEF Thread
<1>3. ASSUME StartSimple \/ Silence \/ SimpleEnds \/ TestKill
      PROVE  PInv'
    BY <1>3, InvStarted, InvSilence, InvTestKill
<1>4. ASSUME UNCHANGED vars
      PROVE  PInv'
    BY <1>4 DEF vars, queues, simple, watch, ghosts, PInv, QueueType, StateType, HandInv,
                BacklogInv, UnderWay, InHand, Fresh, HasFresh
<1> QED BY <1>1, <1>2, <1>3, <1>4 DEF Next

LEMMA Invariance == Spec => []PInv
BY InvInit, InvNext, PTL DEF Spec

(* The variables keep their types.                                         *)
THEOREM TypeCorrect == Spec => []TypeOK
<1>1. PInv => TypeOK
    BY DEF PInv, QueueType, StateType, TypeOK
<1> QED BY <1>1, Invariance, PTL

(* Whatever is abandoned, stopped and restarted, requests and answers      *)
(* under way exceed the waits given up by one at most: msgsnd() with       *)
(* IPC_NOWAIT (cser.cpp 590) finds room as long as waits are not given up. *)
THEOREM BacklogBounded == Spec => []Backlog
<1>1. PInv => Backlog
    BY DEF PInv, BacklogInv, UnderWay, Backlog
<1> QED BY <1>1, Invariance, PTL

-----------------------------------------------------------------------------
(* What the thread passes on is one document, and until a wait is given up *)
(* the two processes are in step.                                          *)

(* The lines of a document on their way.                                   *)

FirstLines(d, n) == [i \in 1 .. n |-> [doc |-> d, line |-> i]]

(* Line n of d comes after message p, or continues text t.                 *)
AfterMessage(p, d, n) ==
    IF n = 1 THEN p.kind = "SJS" ELSE p.kind = "LINE" /\ p.doc = d /\ p.line = n - 1
AfterText(t, d, n) ==
    \/ t = Spoiled
    \/ IF n = 1 THEN t = <<>>
                ELSE t # <<>> /\ t[Len(t)] = [doc |-> d, line |-> n - 1]

(* Whatever the thread reads in between, every line of the queue comes     *)
(* after the one sent before it.                                           *)
QueueInOrder ==
    \A i \in 2 .. Len(mq) :
        mq[i].kind = "LINE" => AfterMessage(mq[i - 1], mq[i].doc, mq[i].line)
HeadInOrder ==
    pc = "json" /\ mq # <<>> /\ mq[1].kind = "LINE" => AfterText(text, mq[1].doc, mq[1].line)
NextInOrder ==
    sm \in {"SJS", "line"} =>
        /\ sm = "SJS" => sline = 0
        /\ mq # <<>> => AfterMessage(mq[Len(mq)], sdoc, sline + 1)
        /\ mq = <<>> /\ pc = "json" => AfterText(text, sdoc, sline + 1)
TextInOrder ==
    pc \in {"json", "parse"} =>
        text = Spoiled \/ \E d \in Docs \cup {NoDoc} : text = FirstLines(d, Len(text))

StreamInv == QueueInOrder /\ HeadInOrder /\ NextInOrder /\ TextInOrder /\ WholeDocuments

-----------------------------------------------------------------------------
LEMMA FirstLinesAre ==
    ASSUME NEW d, NEW n \in Nat
    PROVE  /\ Len(FirstLines(d, n)) = n
           /\ DOMAIN FirstLines(d, n) = 1 .. n
           /\ \A i \in 1 .. n : FirstLines(d, n)[i] = [doc |-> d, line |-> i]
           /\ FirstLines(d, n) = <<>> <=> n = 0
           /\ Append(FirstLines(d, n), [doc |-> d, line |-> n + 1]) = FirstLines(d, n + 1)
<1> DEFINE f == FirstLines(d, n)
           S == {[doc |-> d, line |-> i] : i \in Nat}
<1>1. /\ f \in Seq(S) /\ DOMAIN f = 1 .. n
      /\ \A i \in 1 .. n : f[i] = [doc |-> d, line |-> i]
    <2>1. f \in [1 .. n -> S]
        BY DEF FirstLines
    <2> QED BY <2>1, SeqDef DEF FirstLines
<1>2. Len(f) = n
    BY <1>1, LenProperties
<1>3. f = <<>> <=> n = 0
    BY <1>1, <1>2, EmptySeq
<1>4. Append(f, [doc |-> d, line |-> n + 1]) = FirstLines(d, n + 1)
    <2> DEFINE x == [doc |-> d, line |-> n + 1]
               g == FirstLines(d, n + 1)
    <2>1. x \in S
        OBVIOUS
    <2>2. x = [doc |-> d, line |-> n + 1]
        OBVIOUS
    <2> HIDE DEF f, x, S
    <2>3. /\ Append(f, x) \in Seq(S) /\ Len(Append(f, x)) = n + 1
          /\ \A i \in 1 .. n : Append(f, x)[i] = f[i]
          /\ Append(f, x)[n + 1] = x
        BY <1>1, <1>2, <2>1, AppendProperties
    <2>4. g \in [1 .. n + 1 -> S] /\ n + 1 \in Nat
        BY DEF FirstLines, S
    <2>5. \A i \in 1 .. n + 1 : g[i] = [doc |-> d, line |-> i]
        BY DEF FirstLines
    <2> HIDE DEF g
    <2>6. g \in Seq(S) /\ Len(g) = n + 1
        BY <2>4, SeqDef, LenProperties
    <2>7. \A i \in 1 .. n + 1 : Append(f, x)[i] = g[i]
        <3> SUFFICES ASSUME NEW i \in 1 .. n + 1
                     PROVE  Append(f, x)[i] = g[i]
            OBVIOUS
        <3>1. g[i] = [doc |-> d, line |-> i]
            BY <2>5
        <3>2. CASE i = n + 1
            BY <2>3, <2>2, <3>1, <3>2
        <3>3. CASE i \in 1 .. n
            BY <1>1, <2>3, <3>1, <3>3
        <3>4. i = n + 1 \/ i \in 1 .. n
            OBVIOUS
        <3> QED BY <3>2, <3>3, <3>4
    <2>8. Append(f, x) = g
        BY <2>3, <2>6, <2>7, SeqEqual
    <2> QED BY <2>8 DEF x, g
<1> QED BY <1>1, <1>2, <1>3, <1>4

LEMMA AgedSame ==
    ASSUME NEW m \in Messages
    PROVE  Aged(m).kind = m.kind /\ Aged(m).doc = m.doc /\ Aged(m).line = m.line
<1>1. CASE m \in [kind : Requests \cup Answers, doc : {NoDoc}, line : {0}, fresh : BOOLEAN]
    BY <1>1 DEF Aged
<1>2. CASE m \in [kind : {"LINE"}, doc : Docs, line : 1 .. LINES, fresh : BOOLEAN]
    BY <1>2 DEF Aged
<1> QED BY <1>1, <1>2 DEF Messages

(* A queue to which simple has sent m.                                     *)
LEMMA QueueSent ==
    ASSUME QueueType, NEW m \in Messages, mq' = Append(AgedQueue(mq), m)
    PROVE  /\ Len(mq) \in Nat /\ Len(mq') = Len(mq) + 1 /\ mq' # <<>>
           /\ mq'[Len(mq')] = m
           /\ \A i \in 1 .. Len(mq) :
                 /\ mq'[i].kind = mq[i].kind /\ mq'[i].doc = mq[i].doc
                 /\ mq'[i].line = mq[i].line
<1> DEFINE q == AgedQueue(mq)
<1>1. q \in Seq(Messages) /\ Len(q) = Len(mq) /\ Len(mq) \in Nat /\ DOMAIN mq = 1 .. Len(mq)
    BY AgedQueueType, LenProperties DEF QueueType
<1>2. /\ Len(mq') = Len(mq) + 1 /\ mq'[Len(mq) + 1] = m
      /\ \A i \in 1 .. Len(mq) : mq'[i] = q[i]
    BY <1>1, AppendProperties
<1>3. \A i \in 1 .. Len(mq) : q[i] = Aged(mq[i]) /\ mq[i] \in Messages
    BY <1>1, ElementOfSeq DEF AgedQueue, QueueType
<1>4. mq' # <<>>
    BY <1>1, <1>2, EmptySeq
<1> QED BY <1>1, <1>2, <1>3, <1>4, AgedSame

(* A queue from which the thread has taken the first message.              *)
LEMMA QueueTaken ==
    ASSUME QueueType, mq # <<>>, mq' = Tail(mq)
    PROVE  /\ Len(mq) \in Nat \ {0} /\ Len(mq') = Len(mq) - 1
           /\ Head(mq) = mq[1] /\ mq[1] \in Messages
           /\ \A i \in 1 .. Len(mq') : mq'[i] = mq[i + 1]
           /\ mq' = <<>> <=> Len(mq) = 1
<1>1. /\ Len(mq') = Len(mq) - 1 /\ mq' \in Seq(Messages)
      /\ \A i \in 1 .. Len(mq') : mq'[i] = mq[i + 1]
    BY HeadTailProperties DEF QueueType
<1>2. Len(mq) \in Nat \ {0} /\ Len(mq') \in Nat
    BY <1>1, LenProperties, EmptySeq DEF QueueType
<1>3. mq' = <<>> <=> Len(mq') = 0
    BY <1>1, EmptySeq
<1>4. mq[1] \in Messages
    BY <1>2, ElementOfSeq DEF QueueType
<1> QED BY <1>1, <1>2, <1>3, <1>4

-----------------------------------------------------------------------------
(* Steps on the stream of lines.                                           *)

(* simple sends m: a line comes after what it sent last.                   *)
LEMMA StreamSent ==
    ASSUME PInv, StreamInv, NEW m \in Messages, mq' = Append(AgedQueue(mq), m),
           pc' = pc, text' = text, parsed' = parsed,
           m.kind = "LINE" =>
               sm \in {"SJS", "line"} /\ m.doc = sdoc /\ m.line = sline + 1,
           sm' \in {"SJS", "line"} =>
               AfterMessage(m, sdoc', sline' + 1) /\ (sm' = "SJS" => sline' = 0)
    PROVE  StreamInv'
<1>1. /\ Len(mq) \in Nat /\ Len(mq') = Len(mq) + 1 /\ mq' # <<>>
      /\ mq'[Len(mq')] = m
      /\ \A i \in 1 .. Len(mq) :
            /\ mq'[i].kind = mq[i].kind /\ mq'[i].doc = mq[i].doc
            /\ mq'[i].line = mq[i].line
      /\ mq = <<>> <=> Len(mq) = 0
    BY QueueSent, EmptySeq DEF PInv, QueueType
<1>2. QueueInOrder'
    <2> SUFFICES ASSUME NEW i \in 2 .. Len(mq'), mq'[i].kind = "LINE"
                 PROVE  AfterMessage(mq'[i - 1], mq'[i].doc, mq'[i].line)
        BY DEF QueueInOrder
    <2>1. CASE i \in 2 .. Len(mq)
        <3>1. AfterMessage(mq[i - 1], mq[i].doc, mq[i].line)
            BY <1>1, <2>1 DEF StreamInv, QueueInOrder
        <3>2. i - 1 \in 1 .. Len(mq) /\ i \in 1 .. Len(mq)
            BY <1>1, <2>1
        <3> QED BY <1>1, <3>1, <3>2 DEF AfterMessage
    <2>2. CASE i = Len(mq) + 1
        <3>1. mq'[i] = m /\ i - 1 = Len(mq) /\ Len(mq) \in 1 .. Len(mq)
            BY <1>1, <2>2
        <3>2. mq # <<>>
            BY <1>1, <3>1
        <3>3. AfterMessage(mq[Len(mq)], m.doc, m.line)
            BY <3>1, <3>2 DEF StreamInv, NextInOrder
        <3> QED BY <1>1, <3>1, <3>3 DEF AfterMessage
    <2> QED BY <1>1, <2>1, <2>2
<1>3. HeadInOrder'
    <2>1. CASE mq = <<>>
        <3>1. mq'[1] = m
            BY <1>1, <2>1
        <3> QED BY <2>1, <3>1 DEF StreamInv, HeadInOrder, NextInOrder
    <2>2. CASE mq # <<>>
        <3>1. 1 \in 1 .. Len(mq)
            BY <1>1, <2>2
        <3> QED BY <1>1, <2>2, <3>1 DEF StreamInv, HeadInOrder
    <2> QED BY <2>1, <2>2
<1>4. NextInOrder'
    BY <1>1 DEF NextInOrder
<1>5. TextInOrder' /\ WholeDocuments'
    BY DEF StreamInv, TextInOrder, WholeDocuments
<1> QED BY <1>2, <1>3, <1>4, <1>5 DEF StreamInv

(* The thread takes the first message: what came after it comes after the  *)
(* text it makes of it.                                                    *)
LEMMA StreamTaken ==
    ASSUME PInv, StreamInv, mq # <<>>, mq' = Tail(mq),
           sm' = sm, sdoc' = sdoc, sline' = sline, parsed' = parsed,
           pc' = "json" =>
               \A d, n : AfterMessage(mq[1], d, n) => AfterText(text', d, n),
           TextInOrder'
    PROVE  StreamInv'
<1>1. /\ Len(mq) \in Nat \ {0} /\ Len(mq') = Len(mq) - 1
      /\ \A i \in 1 .. Len(mq') : mq'[i] = mq[i + 1]
      /\ mq' = <<>> <=> Len(mq) = 1
    BY QueueTaken DEF PInv
<1>2. QueueInOrder'
    <2> SUFFICES ASSUME NEW i \in 2 .. Len(mq'), mq'[i].kind = "LINE"
                 PROVE  AfterMessage(mq'[i - 1], mq'[i].doc, mq'[i].line)
        BY DEF QueueInOrder
    <2>1. mq'[i] = mq[i + 1] /\ mq'[i - 1] = mq[i] /\ i + 1 \in 2 .. Len(mq) /\ (i + 1) - 1 = i
        BY <1>1
    <2> QED BY <2>1 DEF StreamInv, QueueInOrder
<1>3. HeadInOrder'
    <2> SUFFICES ASSUME pc' = "json", mq' # <<>>, mq'[1].kind = "LINE"
                 PROVE  AfterText(text', mq'[1].doc, mq'[1].line)
        BY DEF HeadInOrder
    <2>1. mq'[1] = mq[2] /\ 2 \in 2 .. Len(mq)
        BY <1>1
    <2>2. AfterMessage(mq[2 - 1], mq[2].doc, mq[2].line)
        BY <2>1 DEF StreamInv, QueueInOrder
    <2> QED BY <2>1, <2>2
<1>4. NextInOrder'
    <2> SUFFICES ASSUME sm \in {"SJS", "line"}
                 PROVE  /\ sm = "SJS" => sline = 0
                        /\ mq' # <<>> => AfterMessage(mq'[Len(mq')], sdoc, sline + 1)
                        /\ mq' = <<>> /\ pc' = "json" => AfterText(text', sdoc, sline + 1)
        BY DEF NextInOrder
    <2>1. /\ sm = "SJS" => sline = 0
          /\ AfterMessage(mq[Len(mq)], sdoc, sline + 1)
        BY DEF StreamInv, NextInOrder
    <2>2. mq' # <<>> => mq'[Len(mq')] = mq[Len(mq)]
        BY <1>1
    <2> QED BY <1>1, <2>1, <2>2
<1>5. WholeDocuments'
    BY DEF StreamInv, WholeDocuments
<1> QED BY <1>2, <1>3, <1>4, <1>5 DEF StreamInv

(* Nothing moves in mq, and simple stays where it is or leaves its         *)
(* document.                                                               *)
LEMMA StreamStays ==
    ASSUME StreamInv, mq' = mq, WholeDocuments',
           pc' \in {"json", "parse"} => pc' = pc /\ text' = text,
           \/ sm' = sm /\ sdoc' = sdoc /\ sline' = sline
           \/ sm' \notin {"SJS", "line"}
    PROVE  StreamInv'
<1>1. QueueInOrder'
    BY DEF StreamInv, QueueInOrder
<1>2. HeadInOrder'
    BY DEF StreamInv, HeadInOrder
<1>3. NextInOrder'
    BY DEF StreamInv, NextInOrder
<1>4. TextInOrder'
    BY DEF StreamInv, TextInOrder
<1> QED BY <1>1, <1>2, <1>3, <1>4 DEF StreamInv

(* A message added to the text.                                            *)
LEMMA CollectInOrder ==
    ASSUME NEW t \in Seq(Lines) \cup {Spoiled}, NEW m \in Messages,
           NEW d, NEW n, AfterMessage(m, d, n)
    PROVE  AfterText(Collect(t, m), d, n)
<1>1. CASE t = Spoiled \/ m.kind # "LINE" \/ Len(t) = LINES
    BY <1>1 DEF Collect, AfterText
<1>2. CASE ~(t = Spoiled \/ m.kind # "LINE" \/ Len(t) = LINES)
    <2> DEFINE x == [doc |-> m.doc, line |-> m.line]
    <2>1. t \in Seq(Lines) /\ Collect(t, m) = Append(t, x) /\ x \in Lines
        BY <1>2, MessageFields DEF Collect, Lines
    <2>2. n # 1 /\ x = [doc |-> d, line |-> n - 1]
        BY <1>2 DEF AfterMessage
    <2> HIDE DEF x
    <2>3. /\ Append(t, x) \in Seq(Lines)
          /\ Len(Append(t, x)) = Len(t) + 1 /\ Append(t, x)[Len(t) + 1] = x
          /\ Append(t, x) # <<>>
        BY <2>1, AppendProperties
    <2>4. Append(t, x)[Len(Append(t, x))] = x
        BY <2>3
    <2> QED BY <2>1, <2>2, <2>3, <2>4 DEF AfterText
<1> QED BY <1>1, <1>2

InOrder(t) == t = Spoiled \/ \E d \in Docs \cup {NoDoc} : t = FirstLines(d, Len(t))

LEMMA CollectKeepsOrder ==
    ASSUME NEW t \in Seq(Lines) \cup {Spoiled}, NEW m \in Messages, InOrder(t),
           m.kind = "LINE" => AfterText(t, m.doc, m.line)
    PROVE  InOrder(Collect(t, m))
<1>1. CASE t = Spoiled \/ m.kind # "LINE" \/ Len(t) = LINES
    BY <1>1 DEF Collect, InOrder
<1>2. CASE ~(t = Spoiled \/ m.kind # "LINE" \/ Len(t) = LINES)
    <2> DEFINE x == [doc |-> m.doc, line |-> m.line]
    <2>1. t \in Seq(Lines) /\ Collect(t, m) = Append(t, x)
        BY <1>2 DEF Collect
    <2>2. m.doc \in Docs /\ m.line \in 1 .. LINES /\ AfterText(t, m.doc, m.line)
        BY <1>2, MessageFields
    <2>3. PICK d \in Docs \cup {NoDoc} : t = FirstLines(d, Len(t))
        BY <1>2 DEF InOrder
    <2>4. Len(t) \in Nat /\ (t = <<>> <=> Len(t) = 0)
        BY <2>1, LenProperties, EmptySeq
    <2>5. t = FirstLines(m.doc, Len(t)) /\ m.line = Len(t) + 1
        <3>1. CASE m.line = 1
            <4>1. t = <<>>
                BY <1>2, <2>2, <3>1 DEF AfterText
            <4>2. Len(t) = 0
                BY <2>4, <4>1
            <4>3. FirstLines(m.doc, 0) = <<>>
                BY FirstLinesAre
            <4> QED BY <3>1, <4>1, <4>2, <4>3
        <3>2. CASE m.line # 1
            <4>1. t # <<>> /\ t[Len(t)] = [doc |-> m.doc, line |-> m.line - 1]
                BY <1>2, <2>2, <3>2 DEF AfterText
            <4>2. Len(t) \in 1 .. Len(t)
                BY <2>4, <4>1
            <4>3. FirstLines(d, Len(t))[Len(t)] = [doc |-> d, line |-> Len(t)]
                BY <2>4, <4>2, FirstLinesAre
            <4>4. [doc |-> d, line |-> Len(t)] = [doc |-> m.doc, line |-> m.line - 1]
                BY <2>3, <4>1, <4>3
            <4>5. d = m.doc /\ Len(t) = m.line - 1
                BY <4>4
            <4> QED BY <2>2, <2>3, <4>5
        <3> QED BY <3>1, <3>2
    <2>6. Append(t, x) = FirstLines(m.doc, Len(t) + 1)
        BY <2>4, <2>5, FirstLinesAre
    <2>7. Len(Append(t, x)) = Len(t) + 1
        BY <2>4, <2>6, FirstLinesAre
    <2> QED BY <2>1, <2>2, <2>6, <2>7 DEF InOrder
<1> QED BY <1>1, <1>2

(* What json.loads() accepts of such a text is a whole document.           *)
LEMMA WellFormedIsWhole ==
    ASSUME NEW t \in Seq(Lines) \cup {Spoiled}, InOrder(t), WellFormed(t)
    PROVE  \E d \in Docs : t = Whole(d)
<1>1. t # Spoiled /\ t \in Seq(Lines)
    BY SpoiledIsBad
<1>2. PICK d \in Docs \cup {NoDoc} : t = FirstLines(d, Len(t))
    BY <1>1 DEF InOrder
<1>3. Len(t) \in Nat \ {0} /\ DOMAIN t = 1 .. Len(t) /\ t # <<>>
    BY <1>1, LenProperties, EmptySeq DEF WellFormed
<1>4. \A i \in 1 .. Len(t) : t[i] = [doc |-> d, line |-> i] /\ t[i] \in Lines
    <2> DEFINE n == Len(t)
    <2>1. n \in Nat /\ t = FirstLines(d, n)
        BY <1>2, <1>3
    <2> HIDE DEF n
    <2>2. \A i \in 1 .. n : t[i] = [doc |-> d, line |-> i]
        BY <2>1, FirstLinesAre
    <2>3. \A i \in 1 .. Len(t) : t[i] \in Lines
        BY <1>1, ElementOfSeq
    <2> QED BY <2>2, <2>3 DEF n
<1>5. t[1].doc = d /\ t[1].doc \in Docs
    BY <1>3, <1>4 DEF Lines
<1>6. t[Len(t)].line = Len(t) /\ t[Len(t)].line = LINES
    BY <1>3, <1>4 DEF WellFormed
<1> QED BY <1>2, <1>5, <1>6 DEF Whole, FirstLines

-----------------------------------------------------------------------------
(* Every step keeps the stream in order.                                   *)

LEMMA StreamInit == Init => StreamInv
BY EmptySeq DEF Init, StreamInv, QueueInOrder, HeadInOrder, NextInOrder, TextInOrder, WholeDocuments

LEMMA StreamRequest ==
    ASSUME PInv, StreamInv,
           \/ \E k \in Questions : Ask(k)
           \/ \E d \in Docs : SendJson(d)
           \/ TakeFirstReply \/ GiveUpFirstReply \/ EndOfLines
    PROVE  StreamInv'
<1>1. ASSUME NEW k \in Questions, Ask(k)
      PROVE  StreamInv'
    <2>1. Msg(k, TRUE) \in Messages /\ Msg(k, TRUE).kind = k /\ k # "LINE"
        BY MsgType DEF Requests, Questions
    <2>2. /\ mq' = Append(AgedQueue(mq), Msg(k, TRUE)) /\ pc' = pc /\ text' = text
          /\ parsed' = parsed /\ sm' \notin {"SJS", "line"}
        BY <1>1 DEF Ask, Send, UnchangedBySimple
    <2> QED BY <2>1, <2>2, StreamSent
<1>2. ASSUME NEW d \in Docs, SendJson(d)
      PROVE  StreamInv'
    <2>1. Msg("SJS", TRUE) \in Messages /\ Msg("SJS", TRUE).kind = "SJS"
        BY MsgType DEF Requests
    <2>2. /\ mq' = Append(AgedQueue(mq), Msg("SJS", TRUE)) /\ pc' = pc /\ text' = text
          /\ parsed' = parsed /\ sm' = "SJS" /\ sline' = 0
        BY <1>2 DEF SendJson, Send, UnchangedBySimple
    <2>3. sline' + 1 = 1
        BY <2>2
    <2>4. AfterMessage(Msg("SJS", TRUE), sdoc', sline' + 1)
        BY <2>1, <2>3 DEF AfterMessage
    <2> QED BY <2>1, <2>2, <2>4, StreamSent
<1>3. ASSUME TakeFirstReply \/ GiveUpFirstReply
      PROVE  StreamInv'
    <2>1. Msg("ADS", TRUE) \in Messages /\ Msg("ADS", TRUE).kind = "ADS"
        BY MsgType DEF Requests, Questions
    <2>2. /\ mq' = Append(AgedQueue(mq), Msg("ADS", TRUE)) /\ pc' = pc /\ text' = text
          /\ parsed' = parsed /\ sm' = "question"
        BY <1>3 DEF TakeFirstReply, GiveUpFirstReply, SecondReport, Receive, TimesOut,
                    UnchangedBySimple
    <2> QED BY <2>1, <2>2, StreamSent
<1>4. ASSUME EndOfLines
      PROVE  StreamInv'
    <2>1. Msg("EJS", TRUE) \in Messages /\ Msg("EJS", TRUE).kind = "EJS"
        BY MsgType DEF Requests
    <2>2. /\ mq' = Append(AgedQueue(mq), Msg("EJS", TRUE)) /\ pc' = pc /\ text' = text
          /\ parsed' = parsed /\ sm' = "EJS"
        BY <1>4 DEF EndOfLines, Receive, UnchangedBySimple
    <2> QED BY <2>1, <2>2, StreamSent
<1> QED BY <1>1, <1>2, <1>3, <1>4

LEMMA StreamNextLine ==
    ASSUME PInv, StreamInv, NextLine
    PROVE  StreamInv'
<1> DEFINE m == LineMsg(sdoc, sline + 1)
<1>1. sline \in Nat /\ sline + 1 \in 1 .. LINES /\ sdoc \in Docs
    BY LinesAssumption DEF PInv, StateType, NextLine, MoreLines
<1>2. m \in Messages /\ m.kind = "LINE" /\ m.doc = sdoc /\ m.line = sline + 1
    BY <1>1, LineMsgType DEF LineMsg
<1>3. /\ mq' = Append(AgedQueue(mq), m) /\ pc' = pc /\ text' = text
      /\ parsed' = parsed /\ sm' = "line" /\ sline' = sline + 1 /\ sdoc' = sdoc
      /\ sm \in {"SJS", "line"}
    BY DEF NextLine, Receive, UnchangedBySimple
<1> HIDE DEF m
<1>4. AfterMessage(m, sdoc', sline' + 1)
    BY <1>1, <1>2, <1>3 DEF AfterMessage
<1> QED BY <1>2, <1>3, <1>4, StreamSent

LEMMA StreamQuiet ==
    ASSUME StreamInv,
           \/ TakeAnswer \/ AwaitEJK \/ GiveUp
           \/ MustClear \/ ClearOne \/ Cleared \/ NoMessage \/ Push \/ SendAndReturn
           \/ House \/ HouseRestart \/ StartSimple \/ Silence \/ SimpleEnds \/ TestKill
    PROVE  StreamInv'
<1>1. mq' = mq /\ parsed' = parsed
    BY DEF TakeAnswer, AwaitEJK, GiveUp, TimesOut, Receive, UnchangedBySimple,
           MustClear, ClearOne, Cleared, NoMessage, Push, SendAndReturn, House, HouseRestart,
           StartSimple, Silence, SimpleEnds, TestKill, queues, ghosts
<1>2. WholeDocuments'
    BY <1>1 DEF StreamInv, WholeDocuments
<1>3. pc' \in {"json", "parse"} => pc' = pc /\ text' = text
    <2>1. CASE Cleared
        BY <2>1 DEF Cleared
    <2>2. CASE ~Cleared
        BY <2>2 DEF TakeAnswer, AwaitEJK, GiveUp, TimesOut, Receive, UnchangedBySimple,
           MustClear, ClearOne, NoMessage, Push, SendAndReturn, House, HouseRestart,
           StartSimple, Silence, SimpleEnds, TestKill
    <2> QED BY <2>1, <2>2
<1>4. \/ sm' = sm /\ sdoc' = sdoc /\ sline' = sline
      \/ sm' \notin {"SJS", "line"}
    BY DEF TakeAnswer, AwaitEJK, GiveUp, simple, UnchangedByThread,
           MustClear, ClearOne, Cleared, NoMessage, Push, SendAndReturn, House, HouseRestart,
           StartSimple, Silence, SimpleEnds, TestKill
<1> QED BY <1>1, <1>2, <1>3, <1>4, StreamStays

LEMMA StreamOut ==
    ASSUME PInv, StreamInv, ClearRequests \/ TakeQuestion \/ TakeStray \/ TakeSJS
    PROVE  StreamInv'
<1>1. sm' = sm /\ sdoc' = sdoc /\ sline' = sline /\ parsed' = parsed
    BY DEF ClearRequests, TakeQuestion, TakeStray, TakeSJS, UnchangedByThread, simple
<1>2. CASE ClearRequests /\ mq = <<>>
    <2>1. mq' = mq /\ pc' = "clear"
        BY <1>2 DEF ClearRequests
    <2>2. WholeDocuments'
        BY <1>1 DEF StreamInv, WholeDocuments
    <2> QED BY <1>1, <2>1, <2>2, StreamStays
<1>3. CASE (ClearRequests /\ mq # <<>>) \/ TakeQuestion \/ TakeStray
    <2>1. mq # <<>> /\ mq' = Tail(mq) /\ pc' \notin {"json", "parse"}
        BY <1>3 DEF ClearRequests, TakeQuestion, TakeStray
    <2>2. TextInOrder'
        BY <2>1 DEF TextInOrder
    <2> QED BY <1>1, <2>1, <2>2, StreamTaken
<1>4. CASE TakeSJS
    <2>1. mq # <<>> /\ mq' = Tail(mq) /\ text' = <<>> /\ mq[1].kind = "SJS"
        BY <1>4 DEF TakeSJS, FirstText
    <2>2. \A d, n : AfterMessage(mq[1], d, n) => AfterText(text', d, n)
        BY <2>1 DEF AfterMessage, AfterText
    <2>3. text' = FirstLines(NoDoc, 0) /\ Len(text') = 0
        BY <2>1, FirstLinesAre
    <2>4. TextInOrder'
        BY <2>3 DEF TextInOrder
    <2> QED BY <1>1, <2>1, <2>2, <2>4, StreamTaken
<1> QED BY <1>2, <1>3, <1>4

LEMMA StreamRead ==
    ASSUME PInv, StreamInv, ReadJson
    PROVE  StreamInv'
<1>1. /\ mq # <<>> /\ mq' = Tail(mq) /\ pc = "json" /\ Head(mq) = mq[1] /\ mq[1] \in Messages
      /\ sm' = sm /\ sdoc' = sdoc /\ sline' = sline /\ parsed' = parsed
    BY QueueTaken DEF PInv, ReadJson, UnchangedByThread, simple
<1>2. text \in Seq(Lines) \cup {Spoiled} /\ InOrder(text)
    BY <1>1 DEF PInv, StateType, StreamInv, TextInOrder, InOrder
<1>3. CASE EndsJson(Head(mq))
    <2>1. pc' = "parse" /\ text' = text
        BY <1>3 DEF ReadJson
    <2>2. TextInOrder'
        BY <1>2, <2>1 DEF TextInOrder, InOrder
    <2> QED BY <1>1, <2>1, <2>2, StreamTaken
<1>4. CASE ~EndsJson(Head(mq))
    <2>1. pc' = "json" /\ text' = Collect(text, mq[1])
        BY <1>1, <1>4 DEF ReadJson
    <2>2. \A d, n : AfterMessage(mq[1], d, n) => AfterText(text', d, n)
        BY <1>1, <1>2, <2>1, CollectInOrder
    <2>3. mq[1].kind = "LINE" => AfterText(text, mq[1].doc, mq[1].line)
        BY <1>1 DEF StreamInv, HeadInOrder
    <2>4. InOrder(text')
        BY <1>1, <1>2, <2>1, <2>3, CollectKeepsOrder
    <2>5. TextInOrder'
        BY <2>4 DEF TextInOrder, InOrder
    <2> QED BY <1>1, <2>2, <2>5, StreamTaken
<1> QED BY <1>3, <1>4

LEMMA StreamParse ==
    ASSUME PInv, StreamInv, Parse
    PROVE  StreamInv'
<1>1. text \in Seq(Lines) \cup {Spoiled} /\ InOrder(text)
    BY DEF PInv, StateType, StreamInv, TextInOrder, InOrder, Parse
<1>2. WholeDocuments'
    <2>1. CASE WellFormed(text)
        <3>1. parsed' = parsed \cup {text}
            BY <2>1 DEF Parse
        <3>2. \E d \in Docs : text = Whole(d)
            BY <1>1, <2>1, WellFormedIsWhole
        <3> QED BY <3>1, <3>2 DEF StreamInv, WholeDocuments
    <2>2. CASE ~WellFormed(text)
        BY <2>2 DEF Parse, StreamInv, WholeDocuments
    <2> QED BY <2>1, <2>2
<1>3. mq' = mq /\ pc' \notin {"json", "parse"} /\ sm' = sm /\ sdoc' = sdoc /\ sline' = sline
    BY DEF Parse, queues, UnchangedByThread, simple
<1> QED BY <1>2, <1>3, StreamStays

LEMMA StreamNext == PInv /\ StreamInv /\ [Next]_vars => StreamInv'
<1> SUFFICES ASSUME PInv, StreamInv, [Next]_vars PROVE StreamInv'
    OBVIOUS
<1>1. ASSUME Simple
      PROVE  StreamInv'
    BY <1>1, StreamRequest, StreamNextLine, StreamQuiet DEF Simple, Conversation
<1>2. ASSUME Thread
      PROVE  StreamInv'
    BY <1>2, StreamQuiet, StreamOut, StreamRead, StreamParse DEF Thread
<1>3. ASSUME StartSimple \/ Silence \/ SimpleEnds \/ TestKill
      PROVE  StreamInv'
    BY <1>3, StreamQuiet
<1>4. ASSUME UNCHANGED vars
      PROVE  StreamInv'
    <2>1. mq' = mq /\ sm' = sm /\ sdoc' = sdoc /\ sline' = sline /\ pc' = pc /\ text' = text
        BY <1>4 DEF vars, queues, simple
    <2>2. WholeDocuments'
        BY <1>4 DEF vars, ghosts, StreamInv, WholeDocuments
    <2> QED BY <2>1, <2>2, StreamStays
<1> QED BY <1>1, <1>2, <1>3, <1>4 DEF Next

(* Whatever is abandoned, stopped or answered out of turn, a text that     *)
(* json.loads() accepts is one document, whole and in order: the lines of  *)
(* two transfers never make one that is passed on (pyguard.py 448-475).    *)
THEOREM PassedOnIsWhole == Spec => []WholeDocuments
<1>1. StreamInv => WholeDocuments
    BY DEF StreamInv
<1> QED BY <1>1, StreamInit, StreamNext, Invariance, PTL DEF Spec
-----------------------------------------------------------------------------
(* The two processes in step, as long as no wait is given up: one message  *)
(* at most is under way, and it is the one simple waits for.               *)

(* The thread is not in read_json().                                       *)
Outside ==
    /\ sm # "line"
    /\ sm = "SJS" =>
          mw = <<>> /\ hand = NoRequest /\ (mq # <<>> => mq[1].kind = "SJS")
    /\ sm \in {"question", "report"} /\ mq # <<>> => mq[1].kind \in Questions
    /\ sm = "EJS" => mq = <<>>

(* It is: a line or EJS is on its way to it, or it has answered the last.  *)
LineToCome ==
    /\ sm = "line" /\ sline >= 1
    /\ mq # <<>> /\ mq[1].kind = "LINE" /\ mq[1].doc = sdoc /\ mq[1].line = sline
    /\ text = FirstLines(sdoc, sline - 1)
EndToCome ==
    /\ sm = "EJS"
    /\ mq # <<>> /\ mq[1].kind = "EJS"
    /\ sline = LINES /\ text = FirstLines(sdoc, LINES)
LineRead ==
    /\ \/ sm = "SJS" /\ sline = 0
       \/ sm = "line" /\ sline >= 1
    /\ mq = <<>> /\ mw # <<>>
    /\ text = FirstLines(sdoc, sline)

Sync ==
    /\ ~mispaired
    /\ pc \notin {"dead", "receive"}
    /\ pc \in {"clear", "clearq"} => mw = <<>>
    /\ pc = "parse" => WellFormed(text)
    /\ pc # "json" => Outside
    /\ pc = "json" => LineToCome \/ EndToCome \/ LineRead

SyncInv == abandoned = 0 => Sync

Nothing == mq = <<>> /\ mw = <<>> /\ hand = NoRequest

LEMMA OneUnderWay ==
    ASSUME PInv, abandoned = 0
    PROVE  /\ mq # <<>> =>
                 sm \in Waits /\ Len(mq) = 1 /\ mw = <<>> /\ hand = NoRequest
           /\ mw # <<>> =>
                 /\ sm \in Waits /\ Len(mw) = 1 /\ mq = <<>> /\ hand = NoRequest
                 /\ Head(mw).fresh
           /\ hand # NoRequest => sm \in Waits /\ mq = <<>> /\ mw = <<>>
           /\ UnderWay = 0 => Nothing
<1>1. /\ Len(mq) \in Nat /\ Len(mw) \in Nat /\ InHand \in {0, 1}
      /\ Len(mq) + Len(mw) + InHand <= 1
      /\ Len(mq) + Len(mw) + InHand = 1 => sm \in Waits /\ Fresh
    BY CountType DEF PInv, BacklogInv, UnderWay, InHand
<1>2. /\ mq = <<>> <=> Len(mq) = 0
      /\ mw = <<>> <=> Len(mw) = 0
      /\ hand = NoRequest <=> InHand = 0
    BY EmptySeq DEF PInv, QueueType, InHand
<1>3. ASSUME mw # <<>>
      PROVE  Head(mw).fresh
    <2>1. Len(mw) # 0
        BY <1>2, <1>3
    <2>2. Len(mw) = 1 /\ Len(mq) = 0 /\ InHand = 0
        BY <1>1, <2>1
    <2>3. Fresh
        BY <1>1, <2>2
    <2>4. Len(mw) = 1 /\ mq = <<>> /\ hand = NoRequest /\ Fresh
        BY <1>2, <2>2, <2>3
    <2>5. HasFresh(mw)
        BY <2>4, EmptyHasNone DEF Fresh, NoRequest, Msg
    <2>6. DOMAIN mw = 1 .. 1
        BY <2>4, LenProperties DEF PInv, QueueType
    <2> QED BY <2>5, <2>6 DEF HasFresh
<1>4. ASSUME mq # <<>>
      PROVE  sm \in Waits /\ Len(mq) = 1 /\ mw = <<>> /\ hand = NoRequest
    <2>1. Len(mq) # 0
        BY <1>2, <1>4
    <2>2. \A a, b \in Nat, c \in {0, 1} :
              a + b + c <= 1 /\ a # 0 => a = 1 /\ b = 0 /\ c = 0 /\ a + b + c = 1
        OBVIOUS
    <2>3. Len(mq) = 1 /\ Len(mw) = 0 /\ InHand = 0 /\ Len(mq) + Len(mw) + InHand = 1
        BY <1>1, <2>1, <2>2
    <2> QED BY <1>1, <1>2, <2>3
<1>5. ASSUME mw # <<>>
      PROVE  sm \in Waits /\ Len(mw) = 1 /\ mq = <<>> /\ hand = NoRequest
    <2>1. Len(mw) # 0
        BY <1>2, <1>5
    <2>2. Len(mw) = 1 /\ Len(mq) = 0 /\ InHand = 0
        BY <1>1, <2>1
    <2> QED BY <1>1, <1>2, <2>2
<1>6. ASSUME hand # NoRequest
      PROVE  sm \in Waits /\ mq = <<>> /\ mw = <<>>
    <2>1. InHand = 1
        BY <1>1, <1>2, <1>6
    <2>2. Len(mq) = 0 /\ Len(mw) = 0
        BY <1>1, <2>1
    <2> QED BY <1>1, <1>2, <2>1, <2>2
<1>7. ASSUME UnderWay = 0
      PROVE  Nothing
    <2>1. Len(mq) = 0 /\ Len(mw) = 0 /\ InHand = 0
        BY <1>1, <1>7 DEF UnderWay
    <2> QED BY <1>2, <2>1 DEF Nothing
<1> QED BY <1>3, <1>4, <1>5, <1>6, <1>7

(* A wait that ends without being abandoned, and a stop outside a wait,    *)
(* leave nothing behind.                                                   *)
LEMMA TimeoutClean ==
    ASSUME PInv, TimesOut, abandoned' = 0
    PROVE  abandoned = 0 /\ Nothing
<1>1. abandoned \in Nat
    BY AbandonedNat
<1>2. ~Owed /\ abandoned = 0
    BY <1>1 DEF TimesOut
<1>3. ~Fresh
    BY <1>2, OwedOrFresh, EmptyHasNone DEF TimesOut
<1>4. UnderWay = 0
    BY <1>2, <1>3, NotFull, CountType DEF PInv
<1> QED BY <1>2, <1>4, OneUnderWay

LEMMA StopClean ==
    ASSUME PInv, Stopped, abandoned' = 0
    PROVE  abandoned = 0 /\ Nothing
<1>1. abandoned \in Nat
    BY AbandonedNat
<1>2. sm \notin Waits /\ abandoned = 0
    BY <1>1 DEF Stopped
<1>3. UnderWay = 0
    BY <1>2, NotFull, CountType DEF PInv
<1> QED BY <1>2, <1>3, OneUnderWay

LEMMA NotReading ==
    ASSUME Sync, Nothing
    PROVE  pc # "json" /\ Outside
BY DEF Sync, Nothing, LineToCome, EndToCome, LineRead

LEMMA AgedEmpty == AgedQueue(<<>>) = <<>>
<1>1. AgedQueue(<<>>) \in Seq(Messages) /\ Len(AgedQueue(<<>>)) = Len(<<>>)
    BY AgedQueueType, EmptySeq
<1> QED BY <1>1, EmptySeq

(* What simple sends in step is alone on its way.                          *)
LEMMA SentAlone ==
    ASSUME PInv, NEW m \in Messages, mq' = Append(AgedQueue(mq), m), hand' = Aged(hand),
           \/ Nothing /\ (mw' = mw \/ mw' = AgedQueue(mw))
           \/ abandoned = 0 /\ mw # <<>> /\ mw' = AgedQueue(Tail(mw))
    PROVE  mq' # <<>> /\ mq'[1] = m /\ mw' = <<>> /\ hand' = NoRequest
<1>1. mq = <<>> /\ hand = NoRequest
    BY OneUnderWay DEF Nothing
<1>2. Len(mq) = 0
    BY <1>1, EmptySeq
<1>3. mq' # <<>> /\ mq'[1] = m
    BY <1>2, QueueSent DEF PInv
<1>4. hand' = NoRequest
    BY <1>1, AgedHand
<1>5. CASE Nothing
    BY <1>3, <1>4, <1>5, AgedEmpty DEF Nothing
<1>6. CASE abandoned = 0 /\ mw # <<>> /\ mw' = AgedQueue(Tail(mw))
    <2>1. Len(mw) = 1
        BY <1>6, OneUnderWay
    <2>2. Tail(mw) \in Seq(Messages) /\ Len(Tail(mw)) = 0
        BY <1>6, <2>1, Removed DEF PInv, QueueType
    <2>3. Tail(mw) = <<>>
        BY <2>2, EmptySeq
    <2> QED BY <1>3, <1>4, <1>6, <2>3, AgedEmpty
<1> QED BY <1>5, <1>6

(* A message the thread takes in step leaves the queue empty.              *)
LEMMA TakenAlone ==
    ASSUME PInv, abandoned = 0, mq # <<>>, mq' = Tail(mq)
    PROVE  /\ mq' = <<>> /\ mw = <<>> /\ hand = NoRequest /\ sm \in Waits
           /\ Head(mq) = mq[1] /\ mq[1] \in Messages
BY OneUnderWay, QueueTaken DEF PInv

-----------------------------------------------------------------------------
(* Every step keeps them in step.                                          *)

LEMMA SyncInit == Init => Sync
BY DEF Init, Sync, Outside

LEMMA SyncAsk ==
    ASSUME PInv, Sync, abandoned = 0, NEW k \in Questions, Ask(k)
    PROVE  Sync'
<1>1. sm = "idle" /\ sm \notin Waits
    BY DEF Ask, Waits
<1>2. Nothing
    BY <1>1, OneUnderWay DEF Nothing
<1>3. Msg(k, TRUE) \in Messages /\ Msg(k, TRUE).kind = k
    BY MsgType DEF Requests
<1>4. mq' # <<>> /\ mq'[1] = Msg(k, TRUE) /\ mw' = <<>> /\ hand' = NoRequest
    BY <1>2, <1>3, SentAlone DEF Ask, Send
<1>5. /\ sm' \in {"question", "report"} /\ pc' = pc /\ text' = text /\ mispaired' = mispaired
      /\ pc # "json"
    BY <1>2, NotReading DEF Ask, UnchangedBySimple
<1> QED BY <1>3, <1>4, <1>5 DEF Sync, Outside

LEMMA SyncSendJson ==
    ASSUME PInv, Sync, abandoned = 0, NEW d \in Docs, SendJson(d)
    PROVE  Sync'
<1>1. sm = "idle" /\ sm \notin Waits
    BY DEF SendJson, Waits
<1>2. Nothing
    BY <1>1, OneUnderWay DEF Nothing
<1>3. Msg("SJS", TRUE) \in Messages /\ Msg("SJS", TRUE).kind = "SJS"
    BY MsgType DEF Requests
<1>4. mq' # <<>> /\ mq'[1] = Msg("SJS", TRUE) /\ mw' = <<>> /\ hand' = NoRequest
    BY <1>2, <1>3, SentAlone DEF SendJson, Send
<1>5. /\ sm' = "SJS" /\ pc' = pc /\ text' = text /\ mispaired' = mispaired /\ pc # "json"
    BY <1>2, NotReading DEF SendJson, UnchangedBySimple
<1> QED BY <1>3, <1>4, <1>5 DEF Sync, Outside

(* simple takes the answer to its own request.                             *)
LEMMA TakesItsOwn ==
    ASSUME PInv, Sync, abandoned = 0, Receive
    PROVE  /\ ~mispaired' /\ mq = <<>> /\ hand = NoRequest
           /\ pc' = pc /\ text' = text /\ pc \notin {"clear", "clearq"}
<1>1. mw # <<>> /\ Head(mw).fresh /\ mq = <<>> /\ hand = NoRequest
    BY OneUnderWay DEF Receive
<1> QED BY <1>1 DEF Receive, Sync, UnchangedBySimple

LEMMA SyncTakeAnswer ==
    ASSUME PInv, Sync, abandoned = 0, TakeAnswer
    PROVE  Sync'
<1>1. /\ ~mispaired' /\ pc' = pc /\ text' = text /\ pc \notin {"clear", "clearq"}
      /\ sm = "question" /\ sm' = "idle"
    BY TakesItsOwn DEF TakeAnswer
<1>2. pc # "json"
    BY <1>1 DEF Sync, LineToCome, EndToCome, LineRead
<1> QED BY <1>1, <1>2 DEF Sync, Outside

LEMMA SyncReport ==
    ASSUME PInv, Sync, abandoned = 0, abandoned' = 0, TakeFirstReply \/ GiveUpFirstReply
    PROVE  Sync'
<1>1. Msg("ADS", TRUE) \in Messages /\ Msg("ADS", TRUE).kind = "ADS"
    BY MsgType DEF Requests, Questions
<1>2. /\ mq' = Append(AgedQueue(mq), Msg("ADS", TRUE)) /\ hand' = Aged(hand)
      /\ sm = "report" /\ sm' = "question" /\ pc' = pc /\ text' = text
    BY DEF TakeFirstReply, GiveUpFirstReply, SecondReport, Receive, TimesOut,
           UnchangedBySimple
<1>3. /\ ~mispaired'
      /\ \/ Nothing /\ mw' = mw
         \/ mw # <<>> /\ mw' = AgedQueue(Tail(mw))
    <2>1. CASE TakeFirstReply
        BY <2>1, TakesItsOwn DEF TakeFirstReply, Receive
    <2>2. CASE GiveUpFirstReply
        BY <2>2, TimeoutClean DEF GiveUpFirstReply, TimesOut, Sync
    <2> QED BY <2>1, <2>2
<1>4. mq' # <<>> /\ mq'[1] = Msg("ADS", TRUE) /\ mw' = <<>>
    BY <1>1, <1>2, <1>3, SentAlone
<1>5. pc # "json"
    BY <1>2 DEF Sync, LineToCome, EndToCome, LineRead
<1> QED BY <1>1, <1>2, <1>3, <1>4, <1>5 DEF Sync, Outside, Questions

(* In a transfer an answer can only come from read_json().                 *)
LEMMA AnswerInTransfer ==
    ASSUME PInv, Sync, abandoned = 0, Receive, sm \in {"SJS", "line"}
    PROVE  pc = "json" /\ LineRead /\ sdoc \in Docs /\ sline \in 0 .. LINES
<1>1. mw # <<>> /\ mq = <<>>
    BY TakesItsOwn DEF Receive
<1>2. pc = "json"
    BY <1>1 DEF Sync, Outside
<1>3. LineRead
    BY <1>1, <1>2 DEF Sync, LineToCome, EndToCome
<1> QED BY <1>2, <1>3 DEF PInv, StateType

LEMMA SyncNextLine ==
    ASSUME PInv, Sync, abandoned = 0, NextLine
    PROVE  Sync'
<1> DEFINE m == LineMsg(sdoc, sline + 1)
<1>1. pc = "json" /\ LineRead /\ sdoc \in Docs /\ sline \in 0 .. LINES
    BY AnswerInTransfer DEF NextLine
<1>2. sline + 1 \in 1 .. LINES /\ sline \in Nat /\ (sline + 1) - 1 = sline
    BY <1>1, LinesAssumption DEF NextLine, MoreLines
<1>3. m \in Messages /\ m.kind = "LINE" /\ m.doc = sdoc /\ m.line = sline + 1
    BY <1>1, <1>2, LineMsgType DEF LineMsg
<1>4. /\ ~mispaired' /\ pc' = pc /\ text' = text
      /\ sm' = "line" /\ sdoc' = sdoc /\ sline' = sline + 1
      /\ mq' = Append(AgedQueue(mq), m) /\ hand' = Aged(hand)
      /\ mw # <<>> /\ mw' = AgedQueue(Tail(mw))
    BY TakesItsOwn DEF NextLine, Receive
<1> HIDE DEF m
<1>5. mq' # <<>> /\ mq'[1] = m
    BY <1>3, <1>4, SentAlone
<1>6. sline' >= 1 /\ sline' - 1 = sline
    BY <1>2, <1>4
<1>7. text' = FirstLines(sdoc', sline' - 1)
    BY <1>1, <1>4, <1>6 DEF LineRead
<1>8. LineToCome'
    BY <1>3, <1>4, <1>5, <1>6, <1>7 DEF LineToCome
<1> QED BY <1>1, <1>4, <1>8 DEF Sync

LEMMA SyncEndOfLines ==
    ASSUME PInv, Sync, abandoned = 0, EndOfLines
    PROVE  Sync'
<1>1. pc = "json" /\ LineRead /\ sline \in 0 .. LINES
    BY AnswerInTransfer DEF EndOfLines
<1>2. sline = LINES
    BY <1>1, LinesAssumption DEF EndOfLines, MoreLines
<1>3. Msg("EJS", TRUE) \in Messages /\ Msg("EJS", TRUE).kind = "EJS"
    BY MsgType DEF Requests
<1>4. /\ ~mispaired' /\ pc' = pc /\ text' = text
      /\ sm' = "EJS" /\ sdoc' = sdoc /\ sline' = sline
      /\ mq' = Append(AgedQueue(mq), Msg("EJS", TRUE)) /\ hand' = Aged(hand)
      /\ mw # <<>> /\ mw' = AgedQueue(Tail(mw))
    BY TakesItsOwn DEF EndOfLines, Receive
<1>5. mq' # <<>> /\ mq'[1] = Msg("EJS", TRUE)
    BY <1>3, <1>4, SentAlone
<1>6. EndToCome'
    BY <1>1, <1>2, <1>3, <1>4, <1>5 DEF EndToCome, LineRead
<1> QED BY <1>1, <1>4, <1>6 DEF Sync

LEMMA SyncAwaitEJK ==
    ASSUME PInv, Sync, abandoned = 0, AwaitEJK
    PROVE  Sync'
<1>1. /\ ~mispaired' /\ pc' = pc /\ text' = text /\ pc \notin {"clear", "clearq"}
      /\ mq' = <<>> /\ mq = <<>> /\ sm = "EJS" /\ sm' \in {"idle", "EJS"}
    BY TakesItsOwn DEF AwaitEJK, simple
<1>2. pc # "json"
    BY <1>1 DEF Sync, LineToCome, EndToCome, LineRead
<1> QED BY <1>1, <1>2 DEF Sync, Outside

LEMMA SyncGiveUp ==
    ASSUME PInv, Sync, abandoned' = 0, GiveUp
    PROVE  Sync'
<1>1. Nothing
    BY TimeoutClean DEF GiveUp
<1>2. pc # "json"
    BY <1>1, NotReading
<1>3. /\ mispaired' = mispaired /\ pc' = pc /\ text' = text /\ mw' = mw /\ mq' = mq
      /\ sm' = "idle"
    BY DEF GiveUp, TimesOut, UnchangedBySimple, queues
<1> QED BY <1>2, <1>3 DEF Sync, Outside

-----------------------------------------------------------------------------
LEMMA SyncClear ==
    ASSUME PInv, Sync, abandoned = 0, ClearRequests \/ MustClear \/ ClearOne \/ Cleared
    PROVE  Sync'
<1>1. mw = <<>> /\ Outside
    BY DEF Sync, ClearRequests, MustClear, ClearOne, Cleared
<1>2. ~MustClear /\ ~ClearOne
    BY <1>1 DEF MustClear, ClearOne
<1>3. sm' = sm /\ mispaired' = mispaired /\ ~mispaired
    BY DEF Sync, ClearRequests, MustClear, ClearOne, Cleared, UnchangedByThread, simple
<1>4. CASE ClearRequests
    <2>1. mw' = mw /\ hand' = hand /\ pc' \in {"clear", "clearq"}
        BY <1>4 DEF ClearRequests
    <2>2. mq' = mq \/ mq' = <<>>
        BY <1>4, TakenAlone DEF ClearRequests
    <2>3. Outside'
        BY <1>1, <1>3, <2>1, <2>2 DEF Outside
    <2> QED BY <1>1, <1>3, <2>1, <2>3 DEF Sync
<1>5. CASE Cleared
    <2>1. mq' = mq /\ pc' \in {"house", "send", "loop"}
        BY <1>5 DEF Cleared
    <2>2. sm = "SJS" => mw' = <<>> /\ hand' = NoRequest
        <3> SUFFICES ASSUME sm = "SJS" PROVE mw' = <<>> /\ hand' = NoRequest
            OBVIOUS
        <3>1. hand = NoRequest /\ hand.kind = "none"
            BY <1>1 DEF Outside, NoRequest, Msg
        <3> QED BY <1>1, <1>5, <3>1 DEF Cleared
    <2>3. Outside'
        BY <1>1, <1>3, <2>1, <2>2 DEF Outside
    <2> QED BY <1>3, <2>1, <2>3 DEF Sync
<1> QED BY <1>2, <1>4, <1>5

LEMMA SyncTake ==
    ASSUME PInv, Sync, abandoned = 0, TakeQuestion \/ TakeStray
    PROVE  Sync'
<1>1. pc = "loop" /\ mq # <<>> /\ mq' = Tail(mq) /\ mw' = mw
    BY DEF TakeQuestion, TakeStray
<1>2. mq' = <<>> /\ mw = <<>> /\ hand = NoRequest /\ Head(mq) = mq[1]
    BY <1>1, TakenAlone
<1>3. sm' = sm /\ mispaired' = mispaired /\ ~mispaired /\ Outside
    BY <1>1 DEF Sync, TakeQuestion, TakeStray, UnchangedByThread, simple
<1>4. pc' \in {"clear", "house"}
    BY DEF TakeQuestion, TakeStray
<1>5. sm # "SJS"
    BY <1>1, <1>2, <1>3 DEF TakeQuestion, TakeStray, Outside, Heard, Questions
<1>6. Outside'
    BY <1>2, <1>3, <1>5 DEF Outside
<1> QED BY <1>1, <1>2, <1>3, <1>4, <1>6 DEF Sync

LEMMA SyncTakeSJS ==
    ASSUME PInv, StreamInv, Sync, abandoned = 0, TakeSJS
    PROVE  Sync'
<1>1. pc = "loop" /\ mq # <<>> /\ mq' = Tail(mq) /\ mw' = Append(mw, Msg("SJO", Head(mq).fresh))
      /\ text' = <<>> /\ pc' = "json" /\ Head(mq).kind = "SJS"
    BY DEF TakeSJS, FirstText
<1>2. mq' = <<>> /\ sm \in Waits /\ Head(mq) = mq[1] /\ mq[1] \in Messages
    BY <1>1, TakenAlone
<1>3. sm' = sm /\ sdoc' = sdoc /\ sline' = sline /\ mispaired' = mispaired /\ ~mispaired /\ Outside
    BY <1>1 DEF Sync, TakeSJS, UnchangedByThread, simple
<1>4. sm = "SJS" /\ sline = 0
    BY <1>1, <1>2, <1>3 DEF Outside, Waits, Questions, StreamInv, NextInOrder
<1>5. mw' # <<>>
    <2>1. Msg("SJO", Head(mq).fresh) \in Messages
        BY <1>2, MessageFields, MsgType DEF Answers
    <2> QED BY <1>1, <2>1, AppendProperties DEF PInv, QueueType
<1>6. FirstLines(sdoc', 0) = <<>>
    BY FirstLinesAre
<1>7. LineRead'
    BY <1>1, <1>2, <1>3, <1>4, <1>5, <1>6 DEF LineRead
<1> QED BY <1>1, <1>3, <1>7 DEF Sync

LEMMA WholeIsGood ==
    ASSUME NEW d \in Docs, NEW n \in 0 .. LINES
    PROVE  /\ FirstLines(d, n) # Spoiled
           /\ WellFormed(FirstLines(d, LINES))
           /\ FirstLines(d, n) = SubSeq(Whole(d), 1, n)
<1>1. n \in Nat /\ LINES \in Nat /\ LINES >= 2
    BY LinesAssumption
<1>2. FirstLines(d, n) # Spoiled
    <2> SUFFICES ASSUME FirstLines(d, n) = Spoiled PROVE FALSE
        OBVIOUS
    <2>1. Len(Spoiled) = 1 /\ Spoiled[1].doc = NoDoc
        BY DEF Spoiled, Junk
    <2>2. n = 1
        BY <1>1, <2>1, FirstLinesAre
    <2>3. FirstLines(d, n)[1] = [doc |-> d, line |-> 1]
        BY <1>1, <2>2, FirstLinesAre
    <2> QED BY <2>1, <2>3, DocsAssumption
<1>3. WellFormed(FirstLines(d, LINES))
    <2> DEFINE t == FirstLines(d, LINES)
    <2>1. t = <<>> <=> LINES = 0
        BY <1>1, FirstLinesAre
    <2>2. LINES # 0
        BY <1>1
    <2>3. /\ Len(t) = LINES /\ DOMAIN t = 1 .. LINES /\ t # <<>>
          /\ \A i \in 1 .. LINES : t[i] = [doc |-> d, line |-> i]
        BY <1>1, <2>1, <2>2, FirstLinesAre
    <2> HIDE DEF t
    <2>4. \A i \in 1 .. LINES : t[i].line = i
        BY <2>3
    <2>5. WellFormed(t)
        BY <1>1, <2>3, <2>4 DEF WellFormed
    <2> QED BY <2>5 DEF t
<1>4. FirstLines(d, n) = SubSeq(Whole(d), 1, n)
    <2> DEFINE w == Whole(d)
               f == FirstLines(d, n)
    <2>1. w = FirstLines(d, LINES)
        BY DEF Whole, FirstLines
    <2>2. /\ Len(w) = LINES /\ DOMAIN w = 1 .. LINES
          /\ \A i \in 1 .. LINES : w[i] = [doc |-> d, line |-> i]
        BY <1>1, <2>1, FirstLinesAre
    <2>3. /\ Len(f) = n /\ DOMAIN f = 1 .. n
          /\ \A i \in 1 .. n : f[i] = [doc |-> d, line |-> i]
        BY <1>1, FirstLinesAre
    <2> HIDE DEF w, f
    <2>4. \A i \in 1 .. LINES : w[i] \in Lines
        BY <2>2 DEF Lines
    <2>5. w \in Seq(Lines)
        <3>1. w = [i \in 1 .. LINES |-> w[i]]
            BY DEF w, Whole
        <3>2. w \in [1 .. LINES -> Lines]
            BY <2>4, <3>1
        <3> QED BY <1>1, <3>2, SeqDef
    <2>6. /\ SubSeq(w, 1, n) \in Seq(Lines) /\ Len(SubSeq(w, 1, n)) = n
          /\ \A i \in 1 .. n : SubSeq(w, 1, n)[i] = w[i]
        BY <1>1, <2>2, <2>5, SubSeqProperties
    <2>7. f \in Seq(Lines)
        <3>1. f = [i \in 1 .. n |-> f[i]] /\ \A i \in 1 .. n : f[i] \in Lines
            BY <1>1, <2>2, <2>3, <2>4 DEF f, FirstLines
        <3>2. f \in [1 .. n -> Lines]
            BY <3>1
        <3> QED BY <1>1, <3>2, SeqDef
    <2>8. f = SubSeq(w, 1, n)
        BY <1>1, <2>2, <2>3, <2>6, <2>7, SeqEqual
    <2> QED BY <2>8 DEF f, w
<1> QED BY <1>2, <1>3, <1>4

LEMMA SyncReadJson ==
    ASSUME PInv, Sync, abandoned = 0, ReadJson
    PROVE  Sync'
<1>1. /\ mq # <<>> /\ mq' = Tail(mq) /\ pc = "json" /\ mw' = mw \o JsonReply(Head(mq))
      /\ sm' = sm /\ sdoc' = sdoc /\ sline' = sline /\ mispaired' = mispaired /\ ~mispaired
    BY DEF ReadJson, UnchangedByThread, simple, Sync
<1>2. mq' = <<>> /\ mw = <<>> /\ Head(mq) = mq[1] /\ mq[1] \in Messages
    BY <1>1, TakenAlone
<1>3. mw' # <<>>
    <2>1. PICK r \in Messages : JsonReply(Head(mq)) = <<r>>
        BY <1>2, JsonReplyIs
    <2>2. mw \in Seq(Messages) /\ mw' = Append(mw, r)
        BY <1>1, <2>1, AppendIsConcat DEF PInv, QueueType
    <2> QED BY <2>2, AppendProperties
<1>4. CASE LineToCome
    <2>1. sm = "line" /\ sdoc \in Docs /\ sline \in 1 .. LINES /\ LINES \in Nat
        BY <1>4, LinesAssumption DEF LineToCome, PInv, StateType
    <2>2. sline - 1 \in 0 .. LINES /\ sline - 1 \in Nat /\ sline - 1 # LINES /\ (sline - 1) + 1 = sline
        BY <2>1
    <2>3. text = FirstLines(sdoc, sline - 1) /\ text # Spoiled /\ Len(text) # LINES
        BY <1>4, <2>1, <2>2, WholeIsGood, FirstLinesAre DEF LineToCome
    <2>4. pc' = "json" /\ text' = Append(text, [doc |-> sdoc, line |-> sline])
        BY <1>1, <1>2, <1>4, <2>3 DEF LineToCome, ReadJson, EndsJson, Collect
    <2>5. text' = FirstLines(sdoc, sline)
        <3> DEFINE k == sline - 1
        <3>1. k \in Nat /\ k + 1 = sline
            BY <2>2
        <3>2. text = FirstLines(sdoc, k)
            BY <2>3
        <3> HIDE DEF k
        <3>3. Append(FirstLines(sdoc, k), [doc |-> sdoc, line |-> k + 1]) = FirstLines(sdoc, k + 1)
            BY <3>1, FirstLinesAre
        <3> QED BY <2>4, <3>1, <3>2, <3>3
    <2>6. LineRead'
        BY <1>1, <1>2, <1>3, <2>1, <2>5 DEF LineRead
    <2> QED BY <1>1, <2>4, <2>6 DEF Sync
<1>5. CASE EndToCome
    <2>1. pc' = "parse" /\ text' = text
        BY <1>2, <1>5 DEF EndToCome, ReadJson, EndsJson
    <2>2. sdoc \in Docs
        BY <1>5 DEF EndToCome, PInv, StateType
    <2>3. WellFormed(text)
        BY <1>5, <2>2, WholeIsGood, LinesAssumption DEF EndToCome
    <2>4. WellFormed(text')
        BY <2>1, <2>3
    <2>5. Outside'
        BY <1>1, <1>2, <1>5 DEF Outside, EndToCome
    <2> QED BY <1>1, <2>1, <2>4, <2>5 DEF Sync
<1> QED BY <1>1, <1>4, <1>5 DEF Sync, LineRead

LEMMA SyncThread ==
    ASSUME PInv, Sync, NoMessage \/ Parse \/ Push \/ SendAndReturn \/ House
    PROVE  Sync'
<1>1. /\ pc # "json" /\ Outside /\ ~mispaired
      /\ sm' = sm /\ mq' = mq /\ mispaired' = mispaired
    BY DEF Sync, NoMessage, Parse, Push, SendAndReturn, House, UnchangedByThread, simple, queues
<1>2. pc' \in {"house", "push", "loop", "raised"}
    BY DEF Sync, NoMessage, Parse, Push, SendAndReturn, House
<1>3. sm = "SJS" => mw' = mw /\ hand' = hand
    <2>1. CASE SendAndReturn
        <3>1. hand # NoRequest
            BY <2>1 DEF PInv, HandInv, SendAndReturn, NoRequest, Msg
        <3> QED BY <1>1, <3>1 DEF Outside
    <2>2. CASE ~SendAndReturn
        BY <2>2 DEF NoMessage, Parse, Push, House, queues
    <2> QED BY <2>1, <2>2
<1>4. Outside'
    BY <1>1, <1>3 DEF Outside
<1> QED BY <1>1, <1>2, <1>4 DEF Sync

LEMMA SyncStop ==
    ASSUME PInv, Sync, abandoned' = 0,
           HouseRestart \/ StartSimple \/ SimpleEnds \/ TestKill
    PROVE  Sync'
<1>1. Stopped
    BY DEF HouseRestart, StartSimple, SimpleEnds, TestKill
<1>2. Nothing
    BY <1>1, StopClean
<1>3. pc # "json"
    BY <1>2, NotReading
<1>4. /\ mq' = mq /\ mw' = mw /\ mispaired' = mispaired /\ sm' \in {"idle", "down"}
      /\ pc' \in {"loop", "clearq"} \/ (pc' = pc /\ text' = text)
    BY DEF HouseRestart, StartSimple, SimpleEnds, TestKill, queues
<1> QED BY <1>2, <1>3, <1>4 DEF Sync, Outside, Nothing

LEMMA SyncSame ==
    ASSUME Sync, UNCHANGED <<queues, sm, sdoc, sline, pc, hand, text, mispaired>>
    PROVE  Sync'
BY DEF Sync, Outside, LineToCome, EndToCome, LineRead, queues

LEMMA NeverTakenBack == PInv /\ [Next]_vars /\ abandoned' = 0 => abandoned = 0
<1> SUFFICES ASSUME PInv, [Next]_vars, abandoned' = 0 PROVE abandoned = 0
    OBVIOUS
<1>1. abandoned \in Nat
    BY AbandonedNat
<1>2. abandoned' = abandoned \/ abandoned' = abandoned + 1
    BY DEF Next, Simple, Conversation, Thread, vars, ghosts, Ask, SendJson, TakeAnswer,
           TakeFirstReply, NextLine, EndOfLines, AwaitEJK, Receive, GiveUp, GiveUpFirstReply,
           TimesOut, ClearRequests, MustClear, ClearOne, Cleared, TakeQuestion, TakeSJS,
           TakeStray, NoMessage, ReadJson, Parse, Push, SendAndReturn, House, HouseRestart,
           StartSimple, Silence, SimpleEnds, TestKill, Stopped, UnchangedByThread
<1> QED BY <1>1, <1>2

LEMMA SyncNext == PInv /\ StreamInv /\ SyncInv /\ [Next]_vars => SyncInv'
<1> SUFFICES ASSUME PInv, StreamInv, SyncInv, [Next]_vars, abandoned' = 0 PROVE Sync'
    BY DEF SyncInv
<1>1. abandoned = 0 /\ Sync
    BY NeverTakenBack DEF SyncInv
<1>2. ASSUME Simple
      PROVE  Sync'
    BY <1>1, <1>2, SyncAsk, SyncSendJson, SyncTakeAnswer, SyncReport, SyncNextLine,
       SyncEndOfLines, SyncAwaitEJK, SyncGiveUp DEF Simple, Conversation
<1>3. ASSUME Thread
      PROVE  Sync'
    BY <1>1, <1>3, SyncClear, SyncTake, SyncTakeSJS, SyncReadJson, SyncThread, SyncStop
       DEF Thread
<1>4. ASSUME StartSimple \/ SimpleEnds \/ TestKill
      PROVE  Sync'
    BY <1>1, <1>4, SyncStop
<1>5. ASSUME Silence \/ UNCHANGED vars
      PROVE  Sync'
    BY <1>1, <1>5, SyncSame DEF Silence, vars, simple, ghosts
<1> QED BY <1>2, <1>3, <1>4, <1>5 DEF Next

(* Until a wait is given up, every answer simple takes is the one to its   *)
(* request, the thread meets no bad text and no empty queue, and it has    *)
(* read what simple has sent, but for the line on its way: the pairing     *)
(* that the messages do not carry is kept by the order of the two loops    *)
(* alone (cser.cpp 788-836, pyguard.py 150-613).                           *)
THEOREM TheTwoAreInStep == Spec => []InStep
<1>1. PInv /\ SyncInv => InStep
    <2> SUFFICES ASSUME PInv, Sync, abandoned = 0
                 PROVE  /\ ~mispaired /\ pc # "dead" /\ ~(pc = "receive" /\ mw = <<>>)
                        /\ pc = "json" =>
                              /\ sm \in {"SJS", "line", "EJS"}
                              /\ text = SubSeq(Whole(sdoc), 1, Len(text))
                              /\ sline - Len(text) \in {0, 1}
        BY DEF SyncInv, InStep
    <2>1. ASSUME pc = "json"
          PROVE  /\ sm \in {"SJS", "line", "EJS"}
                 /\ text = SubSeq(Whole(sdoc), 1, Len(text))
                 /\ sline - Len(text) \in {0, 1}
        <3>1. sm \in {"SJS", "line", "EJS"} /\ sline \in 0 .. LINES
            BY <2>1 DEF Sync, LineToCome, EndToCome, LineRead, PInv, StateType
        <3>2. sdoc \in Docs /\ sline \in Int /\ LINES \in Nat
            BY <3>1, LinesAssumption DEF PInv, StateType
        <3>3. \E n \in 0 .. LINES : text = FirstLines(sdoc, n) /\ (n = sline \/ n = sline - 1)
            BY <2>1, <3>1, <3>2 DEF Sync, LineToCome, EndToCome, LineRead
        <3>4. PICK n \in 0 .. LINES : text = FirstLines(sdoc, n) /\ (n = sline \/ n = sline - 1)
            BY <3>3
        <3>5. Len(text) = n /\ text = SubSeq(Whole(sdoc), 1, n)
            BY <3>2, <3>4, WholeIsGood, FirstLinesAre
        <3> QED BY <3>1, <3>2, <3>4, <3>5
    <2> QED BY <2>1 DEF Sync
<1>2. Init => SyncInv
    BY SyncInit DEF SyncInv
<1> QED BY <1>1, <1>2, StreamInit, StreamNext, SyncNext, Invariance, PTL DEF Spec
================================================================================
