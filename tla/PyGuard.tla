------------------------------ MODULE PyGuard ------------------------------
(***************************************************************************)
(* The dialogue between "simple" and pyguard.py: the two System V queues,  *)
(* the waits of core/cser.cpp and the thread PrimeNumber.run of            *)
(* pyguard.py, which also restarts simple.                                 *)
(*                                                                         *)
(* simple always asks and the thread answers.  No message names the        *)
(* request it answers: the first one in the queue is taken.  A ghost flag  *)
(* of every message, fresh, tells whether it belongs to the last request.  *)
(*                                                                         *)
(* A document is the JSON text of a download, cut into LINES messages.     *)
(* Which request simple makes next is decided by Csr::mLoop, the module    *)
(* MainLoop; here any request may follow any other.                        *)
(***************************************************************************)
EXTENDS Integers, Sequences

CONSTANTS
    Docs,          \* the downloads simple may send, any of them repeatedly
    NoDoc,         \* in the fields of a message that is no line
    LINES,         \* lines of a document
    AutoUser,      \* "_auto_user" of lan_reader_cfg.txt is positive
    MaxAbandoned,  \* bound: waits given up before the answer came
    MaxStops       \* bound: simple ends by itself or testkill stops both

ASSUME DocsAssumption == NoDoc \notin Docs
ASSUME LinesAssumption == LINES \in Nat /\ LINES >= 2
ASSUME AutoUserAssumption == AutoUser \in BOOLEAN
ASSUME BoundsAssumption ==
    MaxAbandoned \in Nat /\ MaxStops \in Nat

VARIABLES
    mq,         \* queue 44, simple to pyguard.py
    mw,         \* queue 45, pyguard.py to simple
    sm,         \* what simple waits for; "idle" between two waits
    sdoc,       \* the document simple is sending
    sline,      \* its line sent last
    pc,         \* where the thread is
    hand,       \* the request the thread is serving
    text,       \* __json: the lines collected so far
    adapterOK,  \* __isAdapterOK
    sokOld,     \* __sok_time is more than SIMPLE_DEAD seconds ago
    booting,    \* the main thread of pyguard.py has not started simple yet
    stops,      \* how often the environment interfered
    abandoned,  \* ghost: waits given up while their answer was to come
    mispaired,  \* ghost: simple took the answer to an older request
    parsed,     \* ghost: the texts json.loads() accepted
    acked       \* ghost: the documents whose EJK simple received

queues == <<mq, mw>>
simple == <<sm, sdoc, sline>>
watch  == <<adapterOK, sokOld>>
ghosts == <<abandoned, mispaired, parsed, acked>>
vars   == <<queues, simple, pc, hand, text, watch, booting, stops, ghosts>>

-----------------------------------------------------------------------------
\* Messages.

Questions == {"CFF", "ADA", "RMD", "ADS"}
Requests  == Questions \cup {"SJS", "EJS"}
Answers   == {"SJO", "OJL", "EJK", "ANS"}  \* "ANS" is any answer to a question

Messages ==
    [kind : Requests \cup Answers, doc : {NoDoc}, line : {0}, fresh : BOOLEAN]
        \cup [kind : {"LINE"}, doc : Docs, line : 1..LINES, fresh : BOOLEAN]

Msg(k, f) == [kind |-> k, doc |-> NoDoc, line |-> 0, fresh |-> f]
LineMsg(d, i) == [kind |-> "LINE", doc |-> d, line |-> i, fresh |-> TRUE]
NoRequest == Msg("none", FALSE)

Aged(m) == [m EXCEPT !.fresh = FALSE]
AgedQueue(q) == [i \in DOMAIN q |-> Aged(q[i])]

\* send_str(): what was under way belongs to an earlier request from now on.
Send(m) ==
    /\ mq' = Append(AgedQueue(mq), m)
    /\ mw' = AgedQueue(mw)
    /\ hand' = Aged(hand)

\* The request simple waits for is still waiting or being served.
Owed == hand.fresh \/ \E i \in DOMAIN mq : mq[i].fresh

-----------------------------------------------------------------------------
\* The text the thread collects.

Lines   == [doc : Docs, line : 1..LINES]
Junk    == [doc |-> NoDoc, line |-> 0]
Spoiled == <<Junk>>  \* with a message that is no line, or with too many

Collect(t, m) ==
    IF t = Spoiled \/ m.kind # "LINE" \/ Len(t) = LINES
    THEN Spoiled
    ELSE Append(t, [doc |-> m.doc, line |-> m.line])

\* The text read_json() starts with; OldText forgets to reset it.
OldText == text
FirstText == <<>>

\* Unchecked goes on after the exception, as json_validator() would.
Unchecked(t) == TRUE

\* json.loads() accepts a text that starts with the first line of a document,
\* ends with a last one and has none of them in between.
WellFormed(t) ==
    /\ t # <<>>
    /\ \A i \in DOMAIN t :
          /\ (t[i].line = 1) <=> (i = 1)
          /\ (t[i].line = LINES) <=> (i = Len(t))

\* What ends a document and how its messages are answered; EndMissed forgets to
\* set final, AnsweredTwice forgets the else.
EndMissed(m) == FALSE
EndsJson(m) == m.kind = "EJS"

AnsweredTwice(m) ==
    IF EndsJson(m) THEN <<Msg("EJK", m.fresh), Msg("OJL", m.fresh)>>
                   ELSE <<Msg("OJL", m.fresh)>>
JsonReply(m) ==
    IF EndsJson(m) THEN <<Msg("EJK", m.fresh)>> ELSE <<Msg("OJL", m.fresh)>>

Whole(d) == [i \in 1..LINES |-> [doc |-> d, line |-> i]]

-----------------------------------------------------------------------------
\* simple.

Waits == {"question", "report", "SJS", "line", "EJS"}

\* Where the thread may stay longer than a wait of simple: it talks to the
\* server, restarts simple, is stuck, has ended, or has nothing to read.
SlowPlaces == {"receive", "send", "push", "house", "dead", "raised"}
Stays == pc \in SlowPlaces \/ (pc = "json" /\ mq = <<>>)

Init ==
    /\ mq = <<>> /\ mw = <<>>
    /\ sm = "down" /\ sdoc = NoDoc /\ sline = 0
    /\ pc = "clearq" /\ hand = NoRequest /\ text = <<>>
    /\ adapterOK = TRUE /\ sokOld = TRUE /\ booting = TRUE
    /\ stops = 0
    /\ abandoned = 0 /\ mispaired = FALSE /\ parsed = {} /\ acked = {}

UnchangedBySimple == UNCHANGED <<pc, text, watch, booting, stops, parsed>>

\* wait_for_line() with CFF, ADA, RMD, or the first of the two ADS.
Ask(k) ==
    /\ sm = "idle"
    /\ Send(Msg(k, TRUE))
    /\ sm' = IF k = "ADS" THEN "report" ELSE "question"
    /\ UNCHANGED <<sdoc, sline, abandoned, mispaired, acked>>
    /\ UnchangedBySimple

\* send_json() starts.
SendJson(d) ==
    /\ sm = "idle"
    /\ Send(Msg("SJS", TRUE))
    /\ sm' = "SJS" /\ sdoc' = d /\ sline' = 0
    /\ UNCHANGED <<abandoned, mispaired, acked>>
    /\ UnchangedBySimple

\* simple takes the first message of mw, whatever it is.
Receive ==
    /\ mw # <<>>
    /\ mispaired' = (mispaired \/ ~Head(mw).fresh)
    /\ UNCHANGED abandoned
    /\ UnchangedBySimple

\* m_adapterError sends its report twice.
SecondReport ==
    /\ mq' = Append(AgedQueue(mq), Msg("ADS", TRUE))
    /\ hand' = Aged(hand)
    /\ sm' = "question"
    /\ UNCHANGED <<sdoc, sline, acked>>

TakeAnswer ==
    /\ sm = "question"
    /\ Receive
    /\ mw' = Tail(mw)
    /\ sm' = "idle"
    /\ UNCHANGED <<mq, hand, sdoc, sline, acked>>

TakeFirstReply ==
    /\ sm = "report"
    /\ Receive
    /\ mw' = AgedQueue(Tail(mw))
    /\ SecondReport

\* OneMore sends a line too many.
OneMore == sline <= LINES
MoreLines == sline < LINES

\* Any answer to SJS or to a line lets send_json() go on.
NextLine ==
    /\ sm \in {"SJS", "line"}
    /\ MoreLines
    /\ Receive
    /\ sm' = "line" /\ sline' = sline + 1
    /\ mq' = Append(AgedQueue(mq), LineMsg(sdoc, sline + 1))
    /\ mw' = AgedQueue(Tail(mw))
    /\ hand' = Aged(hand)
    /\ UNCHANGED <<sdoc, acked>>

EndOfLines ==
    /\ sm = "line"
    /\ ~MoreLines
    /\ Receive
    /\ sm' = "EJS"
    /\ mq' = Append(AgedQueue(mq), Msg("EJS", TRUE))
    /\ mw' = AgedQueue(Tail(mw))
    /\ hand' = Aged(hand)
    /\ UNCHANGED <<sdoc, sline, acked>>

\* wait_for_str("EJK") throws other messages away.
AwaitEJK ==
    /\ sm = "EJS"
    /\ Receive
    /\ mw' = Tail(mw)
    /\ IF Head(mw).kind = "EJK"
       THEN sm' = "idle" /\ sdoc' = NoDoc /\ sline' = 0 /\ acked' = acked \cup {sdoc}
       ELSE UNCHANGED <<simple, acked>>
    /\ UNCHANGED <<mq, hand>>

\* A wait ends without a message.  It is abandoned if the answer is to come.
TimesOut ==
    /\ sm \in Waits
    /\ mw = <<>>
    /\ Stays
    /\ IF Owed
       THEN abandoned < MaxAbandoned /\ abandoned' = abandoned + 1
       ELSE UNCHANGED abandoned
    /\ UNCHANGED <<mispaired, acked>>
    /\ UnchangedBySimple

GiveUp ==
    /\ sm # "report"
    /\ TimesOut
    /\ sm' = "idle" /\ sdoc' = NoDoc /\ sline' = 0
    /\ UNCHANGED <<queues, hand>>

GiveUpFirstReply ==
    /\ sm = "report"
    /\ TimesOut
    /\ UNCHANGED mw
    /\ SecondReport

Conversation ==
    \/ TakeAnswer \/ TakeFirstReply \/ NextLine \/ EndOfLines \/ AwaitEJK
    \/ GiveUp \/ GiveUpFirstReply

Simple ==
    \/ \E k \in Questions : Ask(k)
    \/ \E d \in Docs : SendJson(d)
    \/ Conversation

-----------------------------------------------------------------------------
\* The thread.

UnchangedByThread ==
    UNCHANGED <<simple, booting, stops, abandoned, mispaired, acked>>

\* clear_pipe(mq) when the thread starts; nobody else receives from mq.
ClearRequests ==
    /\ pc = "clearq"
    /\ IF mq = <<>> THEN pc' = "clear" /\ UNCHANGED mq
                    ELSE mq' = Tail(mq) /\ UNCHANGED pc
    /\ UNCHANGED <<mw, hand, text, watch, parsed>>
    /\ UnchangedByThread

\* clear_pipe(mw): is there a message?
MustClear ==
    /\ pc = "clear"
    /\ mw # <<>>
    /\ pc' = "receive"
    /\ UNCHANGED <<queues, hand, text, watch, parsed>>
    /\ UnchangedByThread

\* Its receive(), which waits for a message if simple has taken this one.
ClearOne ==
    /\ pc = "receive"
    /\ mw # <<>>
    /\ mw' = Tail(mw)
    /\ pc' = "clear"
    /\ UNCHANGED <<mq, hand, text, watch, parsed>>
    /\ UnchangedByThread

\* mw is empty: the thread starts, or goes on with the request in hand.
Cleared ==
    /\ pc = "clear"
    /\ mw = <<>>
    /\ CASE hand.kind = "CFF" ->
               /\ pc' = "house" /\ hand' = NoRequest /\ sokOld' = FALSE
               /\ mw' = <<Msg("ANS", hand.fresh)>>
         [] hand.kind = "ADA" ->
               /\ pc' = "house" /\ hand' = NoRequest /\ UNCHANGED sokOld
               /\ mw' = IF AutoUser THEN <<Msg("ANS", hand.fresh)>> ELSE mw
         [] hand.kind \in {"ADS", "RMD"} ->
               pc' = "send" /\ UNCHANGED <<mw, hand, sokOld>>
         [] OTHER ->
               pc' = "loop" /\ UNCHANGED <<mw, hand, sokOld>>
    /\ UNCHANGED <<mq, text, adapterOK, parsed>>
    /\ UnchangedByThread

\* find() looks at the whole text: a line out of place, which has numbers in
\* hexadecimal, can be taken for one of two questions.
Heard(m) == IF m.kind = "LINE" THEN {"CFF", "ADA"} ELSE {m.kind} \cap Questions

TakeQuestion ==
    /\ pc = "loop" /\ mq # <<>>
    /\ \E k \in Heard(Head(mq)) :
          /\ hand' = Msg(k, Head(mq).fresh)
          /\ adapterOK' = (adapterOK /\ k # "ADS")
    /\ mq' = Tail(mq)
    /\ pc' = "clear"
    /\ UNCHANGED <<mw, text, sokOld, parsed>>
    /\ UnchangedByThread

TakeSJS ==
    /\ pc = "loop" /\ mq # <<>>
    /\ Head(mq).kind = "SJS"
    /\ mq' = Tail(mq) /\ mw' = Append(mw, Msg("SJO", Head(mq).fresh))
    /\ text' = FirstText
    /\ pc' = "json"
    /\ UNCHANGED <<hand, watch, parsed>>
    /\ UnchangedByThread

\* For most lines, and for EJS, out of place there is no branch.
TakeStray ==
    /\ pc = "loop" /\ mq # <<>>
    /\ Head(mq).kind \in {"LINE", "EJS"}
    /\ mq' = Tail(mq)
    /\ pc' = "house"
    /\ UNCHANGED <<mw, hand, text, watch, parsed>>
    /\ UnchangedByThread

NoMessage ==
    /\ pc = "loop" /\ mq = <<>>
    /\ pc' = "house"
    /\ UNCHANGED <<queues, hand, text, watch, parsed>>
    /\ UnchangedByThread

\* read_json(): whatever comes before EJS is a line.
ReadJson ==
    /\ pc = "json" /\ mq # <<>>
    /\ mq' = Tail(mq)
    /\ mw' = mw \o JsonReply(Head(mq))
    /\ IF EndsJson(Head(mq))
       THEN pc' = "parse" /\ UNCHANGED text
       ELSE text' = Collect(text, Head(mq)) /\ UNCHANGED pc
    /\ UNCHANGED <<hand, watch, parsed>>
    /\ UnchangedByThread

\* json.loads() raises an exception on a bad text; its handler calls exit(0),
\* which ends the thread and not the process.
Parse ==
    /\ pc = "parse"
    /\ IF WellFormed(text)
       THEN pc' = "push" /\ parsed' = parsed \cup {text}
       ELSE pc' = "dead" /\ UNCHANGED parsed
    /\ UNCHANGED <<queues, hand, text, watch>>
    /\ UnchangedByThread

\* json_to_prop() and save_json(); their result changes __fire_time only.  They
\* may raise an exception, a file that cannot be written for one: "raised" is
\* the end of the thread by it.
Push ==
    /\ pc = "push"
    /\ pc' \in {"house", "raised"}
    /\ UNCHANGED <<queues, hand, text, watch, parsed>>
    /\ UnchangedByThread

\* send_and_return() for ADS and RMD.  RMD is not answered when the server
\* does not answer; an empty reply is as good as none.
SendAndReturn ==
    /\ pc = "send"
    /\ \/ mw' = Append(mw, Msg("ANS", hand.fresh))
       \/ UNCHANGED mw
    /\ hand' = NoRequest
    /\ pc' = "house"
    /\ UNCHANGED <<mq, text, watch, parsed>>
    /\ UnchangedByThread

\* BothSigns restarts simple only when it is silent and reported the adapter.
BothSigns == sokOld /\ ~adapterOK
SimpleIsDead == sokOld \/ ~adapterOK

\* The end of the loop: server_stamp(), chk_and_ack(), then the watch.
House ==
    /\ pc = "house" /\ ~SimpleIsDead
    /\ pc' = "loop"
    /\ UNCHANGED <<queues, hand, text, watch, parsed>>
    /\ UnchangedByThread

\* A wait simple was in when it was stopped counts as abandoned.
Stopped ==
    IF sm \in Waits
    THEN abandoned < MaxAbandoned /\ abandoned' = abandoned + 1
    ELSE UNCHANGED abandoned

HouseRestart ==
    /\ pc = "house" /\ SimpleIsDead
    /\ Stopped
    /\ sm' = "idle" /\ sdoc' = NoDoc /\ sline' = 0
    /\ adapterOK' = TRUE /\ sokOld' = FALSE
    /\ pc' = "loop"
    /\ UNCHANGED <<queues, hand, text, booting, stops, mispaired, parsed, acked>>

Thread ==
    \/ ClearRequests \/ MustClear \/ ClearOne \/ Cleared
    \/ TakeQuestion \/ TakeSJS \/ TakeStray \/ NoMessage
    \/ ReadJson \/ Parse \/ Push \/ SendAndReturn
    \/ House \/ HouseRestart

-----------------------------------------------------------------------------
\* The rest of the reader.

\* The main thread of pyguard.py starts simple, after stopping any other.
StartSimple ==
    /\ booting
    /\ booting' = FALSE
    /\ Stopped
    /\ sm' = "idle" /\ sdoc' = NoDoc /\ sline' = 0
    /\ UNCHANGED <<queues, pc, hand, text, watch, stops, mispaired, parsed, acked>>

\* Sixty seconds without CFF.
Silence ==
    /\ ~sokOld
    /\ sokOld' = TRUE
    /\ UNCHANGED <<queues, simple, pc, hand, text, adapterOK, booting, stops, ghosts>>

\* simple ends: exit(0) of m_adapterError, or a crash.
SimpleEnds ==
    /\ sm # "down"
    /\ stops < MaxStops /\ stops' = stops + 1
    /\ Stopped
    /\ sm' = "down" /\ sdoc' = NoDoc /\ sline' = 0
    /\ UNCHANGED <<queues, pc, hand, text, watch, booting, mispaired, parsed, acked>>

\* testkill stops both and starts pyguard.py; the queues stay.
TestKill ==
    /\ stops < MaxStops /\ stops' = stops + 1
    /\ Stopped
    /\ sm' = "down" /\ sdoc' = NoDoc /\ sline' = 0
    /\ pc' = "clearq" /\ hand' = NoRequest /\ text' = <<>>
    /\ adapterOK' = TRUE /\ sokOld' = TRUE /\ booting' = TRUE
    /\ UNCHANGED <<queues, mispaired, parsed, acked>>

Next == Simple \/ Thread \/ StartSimple \/ Silence \/ SimpleEnds \/ TestKill

Spec == Init /\ [][Next]_vars

\* Two processes under the scheduler; simple finishes its waits but owes no new
\* request.  Time passes.
FairSpec ==
    /\ Spec
    /\ WF_vars(Conversation)
    /\ WF_vars(Thread)
    /\ WF_vars(Silence)
    /\ WF_vars(StartSimple)
-----------------------------------------------------------------------------
\* Properties.

Places == {"clearq", "clear", "receive", "loop", "send", "json", "parse", "push",
           "house", "dead", "raised"}

TypeOK ==
    /\ mq \in Seq(Messages) /\ mw \in Seq(Messages)
    /\ sm \in Waits \cup {"idle", "down"}
    /\ sdoc \in Docs \cup {NoDoc} /\ sline \in 0..LINES
    /\ pc \in Places
    /\ hand \in Messages \cup {NoRequest}
    /\ text \in Seq(Lines) \cup {Spoiled}
    /\ adapterOK \in BOOLEAN /\ sokOld \in BOOLEAN /\ booting \in BOOLEAN
    /\ stops \in 0..MaxStops
    /\ abandoned \in 0..MaxAbandoned /\ mispaired \in BOOLEAN
    /\ parsed \subseteq Seq(Lines) /\ acked \subseteq Docs

\* What is under way between the two processes: at most one request or answer
\* more than there were waits given up.  send_str() does not notice a full
\* queue; this is why a living thread never lets one fill.
InHand == IF hand = NoRequest THEN 0 ELSE 1
Backlog == Len(mq) + Len(mw) + InHand <= abandoned + 1

\* A text that json.loads() accepts is one document, whole and in order,
\* whatever was abandoned, stopped or answered out of turn: nothing else is
\* passed on to the server (pyguard.py 448-475).
WholeDocuments == \A t \in parsed : \E d \in Docs : t = Whole(d)

\* As long as every wait of simple is ended by its answer, the two are in step:
\* simple takes the answer to its own request, the thread meets no bad text and
\* no empty queue in clear_pipe(), and it reads lines of the document simple is
\* sending, as far as simple has sent it.
InStep ==
    abandoned = 0 =>
        /\ ~mispaired
        /\ pc # "dead"
        /\ ~(pc = "receive" /\ mw = <<>>)
        /\ pc = "json" =>
              /\ sm \in {"SJS", "line", "EJS"}
              /\ text = SubSeq(Whole(sdoc), 1, Len(text))
              /\ sline - Len(text) \in {0, 1}

\* "konec json prenosu, pockej si na potvrzeni z pythonu": a document whose
\* EJK arrived was accepted by the thread, or is about to be (cser.cpp 777,
\* 832).
AckMeansReceived ==
    \A d \in acked : Whole(d) \in parsed \cup {text}

\* A simple that is not running is started again, unless the thread waits for
\* the rest of a document, waits in clear_pipe() or has ended (pyguard.py
\* 594-606).
DeadSimpleRestarted ==
    sm = "down" ~> (sm # "down" \/ pc \in {"json", "receive", "dead", "raised"})

\* If no wait is ever given up and what is passed on raises no exception, the
\* thread comes back to its queue again and again.
Serves == [](abandoned = 0 /\ pc # "raised") => []<>(pc = "loop")

=============================================================================
