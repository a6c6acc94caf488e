------------------------------ MODULE TourRead ------------------------------
(***************************************************************************)
(* p3_readtourwork() of core/engine.c: the page by page download of a P3   *)
(* sensor's event memory through the TMD adapter (an FTDI serial line).    *)
(* One behaviour is one call of the function.  The reader is the state     *)
(* machine "twstate"; the adapter, its serial queue and the sensor on the  *)
(* probe are the environment.                                              *)
(*                                                                         *)
(* Data kept: a packet is the number of the 64-byte page it carries, so    *)
(* curaddr is counted in pages (the code adds 64 to a byte address).  BAD  *)
(* is a packet whose status byte (cBufRead[68]) is not 0, TMO the single   *)
(* byte 254 or 255 the adapter sends when the sensor does not answer.      *)
(***************************************************************************)
EXTENDS Integers, Sequences

CONSTANTS
    FirstFrees,   \* values of firstfree the function is called with
    RxCap,        \* bound: packets waiting in the adapter's receive queue
    MaxFaults,    \* bound: faults of the line, the adapter and the user
    MayStall,     \* packets may arrive after the reader gave up on them
    MaySplit      \* ... or between the reader's two reads of one packet

PageSize  == 64
CountByte == 256      \* the page count travels in one byte
WordSize  == 65536    \* curcnt is a WORD

ASSUME FirstFreesAssumption == FirstFrees \subseteq 1 .. WordSize - 1
ASSUME BoundsAssumption == RxCap \in Nat \ {0} /\ MaxFaults \in Nat
ASSUME SwitchesAssumption == MayStall \in BOOLEAN /\ MaySplit \in BOOLEAN

BLANK == -1           \* memdump as read_p3() fills it: 0xFF
JUNK  == -2           \* page content shifted by one byte
BAD   == -1
TMO   == -2

VARIABLES
    twstate,    \* state of the reader
    firstfree,  \* argument: address of the sensor's first free byte
    curaddr,    \* next page to copy
    curcnt,     \* pages still to read
    memdump,    \* the image built so far, by page
    pkt,        \* the page in cBufRead
    reread,     \* how often the current packet was read again
    rx,         \* receive queue of the FTDI adapter
    skew,       \* the queue is one byte out of step with the packets
    feed,       \* what the adapter is sending: next page and pages left
    attached,   \* the sensor is on the probe
    faults,     \* faults so far
    skipped     \* ghost: pages given up when the address was reset

reader == <<firstfree, curaddr, curcnt, memdump, pkt>>
vars == <<twstate, reader, reread, rx, skew, feed, attached, faults, skipped>>

-----------------------------------------------------------------------------
(* Pages the function plans to read: the last page is dropped when         *)
(* firstfree - 1 is a multiple of the page size.                           *)
PageCount(ff) ==
    IF (ff - 1) % PageSize = 0 THEN (ff - 1) \div PageSize
                               ELSE (ff - 1) \div PageSize + 1

(* Pages read_p3() allocates for the image.                                *)
MemPagesTight(ff) == ff \div PageSize      \* faulty variant, see README
MemPages(ff) == ff \div PageSize + 1

Pages(ff) == 0 .. MemPages(ff) - 1

(* The plan fits the counter: neither an empty plan nor one whose length   *)
(* is lost in the one-byte page count.                                     *)
Countable(ff) == PageCount(ff) \in 1 .. CountByte - 1

Idle == [page |-> 0, left |-> 0]

States == {"bgSTART", "bgWRITE", "bgREAD", "bgBUFOK", "bgBUFERR",
           "bgRECONNECT", "bgFINISH", "bgERROR", "overrun"}

Done == twstate \in {"bgFINISH", "bgERROR", "overrun"}

Init ==
    /\ twstate = "bgSTART"
    /\ firstfree \in FirstFrees
    /\ curaddr = 0
    /\ curcnt = PageCount(firstfree) % CountByte
    /\ memdump = [p \in Pages(firstfree) |-> BLANK]
    /\ pkt = BLANK
    /\ reread = 0
    /\ rx = <<>>
    /\ skew = FALSE
    /\ feed = Idle
    /\ attached = TRUE
    /\ faults = 0
    /\ skipped = 0

-----------------------------------------------------------------------------
(* The decisions of the reader, each preceded by the faulty variants of it *)
(* that the README's table of mutants uses.                                *)

(* The address test of bgREAD.                                             *)
AnyAddress(p) == p >= 0
AddressEchoed(p) == p = curaddr

(* curcnt-- on a WORD.                                                     *)
CountSigned == curcnt - 1
CountDown == (curcnt - 1) % WordSize

(* "if (curcnt>0)" in bgBUFOK.                                             *)
MorePagesButLast(n) == n > 1
MorePages(n) == n > 0

(* Where bgSTART makes the read begin.                                     *)
ResumeHere == curaddr
StartAddress == 0

(* The state after a read that came up short.                              *)
ReadOn == "bgREAD"
AfterShortRead == "bgWRITE"

-----------------------------------------------------------------------------
(* The reader.                                                             *)

(* bgSTART: "_purgerxtx == FALSE" compares the function, it does not call  *)
(* it, so the receive queue is never purged.                               *)
Start ==
    /\ twstate = "bgSTART"
    /\ curaddr' = StartAddress
    /\ twstate' = "bgWRITE"
    /\ UNCHANGED <<firstfree, curcnt, memdump, pkt, reread, rx, skew, feed,
                   attached, faults, skipped>>

(* bgWRITE: order "curcnt" pages from "curaddr" on.  What the adapter does *)
(* with a count byte of 0 is not specified: nothing, or 256 pages.         *)
Write ==
    /\ twstate = "bgWRITE"
    /\ \E n \in {curcnt % CountByte} \union
                (IF curcnt % CountByte = 0 THEN {CountByte} ELSE {}) :
          feed' = [page |-> curaddr, left |-> n]
    /\ reread' = 0
    /\ twstate' = "bgREAD"
    /\ UNCHANGED <<reader, rx, skew, attached, faults, skipped>>

(* writebuf() fails: FT_Write reports an error or a short write.           *)
WriteFails ==
    /\ twstate = "bgWRITE"
    /\ faults < MaxFaults
    /\ faults' = faults + 1
    /\ twstate' = "bgRECONNECT"
    /\ UNCHANGED <<reader, reread, rx, skew, feed, attached, skipped>>

(* bgRECONNECT: p3_reconnect() finds the sensor and the case falls through *)
(* into bgSTART.  curaddr starts again from 0, curcnt does not.  With      *)
(* bytes of an older answer in the queue p3_reconnect() reads those: it    *)
(* fails, or by chance succeeds and leaves the queue out of step.          *)
Reconnect ==
    /\ twstate = "bgRECONNECT"
    /\ attached
    /\ skew' = (skew \/ rx # <<>>)
    /\ feed' = Idle
    /\ skipped' = skipped + curaddr
    /\ curaddr' = StartAddress
    /\ twstate' = "bgWRITE"
    /\ UNCHANGED <<firstfree, curcnt, memdump, pkt, reread, rx, attached,
                   faults>>

ReconnectFails ==
    /\ twstate = "bgRECONNECT"
    /\ rx # <<>>
    /\ rx' = Tail(rx)
    /\ feed' = Idle
    /\ UNCHANGED <<twstate, reader, reread, skew, attached, faults, skipped>>

(* bgREAD: the first byte is 254 or 255, the sensor is off the probe.      *)
ReadTimeoutByte ==
    /\ twstate = "bgREAD"
    /\ ~skew /\ reread = 0
    /\ rx # <<>> /\ Head(rx) = TMO
    /\ rx' = Tail(rx)
    /\ twstate' = "bgWRITE"
    /\ UNCHANGED <<reader, reread, skew, feed, attached, faults, skipped>>

(* bgREAD: the bytes do not come in time.  The short read takes what there *)
(* is and so brings the queue into step again.                             *)
ReadShort ==
    /\ twstate = "bgREAD"
    /\ rx = <<>>
    /\ \/ feed.left = 0 /\ faults' = faults
       \/ MayStall /\ faults < MaxFaults /\ faults' = faults + 1
    /\ skew' = FALSE
    /\ reread' = 0
    /\ twstate' = AfterShortRead
    /\ UNCHANGED <<reader, rx, feed, attached, skipped>>

(* bgREAD: 69 bytes with status 0; the address they name decides.          *)
ReadPacket ==
    /\ twstate = "bgREAD"
    /\ ~skew
    /\ rx # <<>> /\ Head(rx) >= 0
    /\ rx' = Tail(rx)
    /\ pkt' = Head(rx)
    /\ reread' = 0
    /\ twstate' = IF AddressEchoed(Head(rx)) THEN "bgBUFOK" ELSE "bgBUFERR"
    /\ UNCHANGED <<firstfree, curaddr, curcnt, memdump, skew, feed, attached,
                   faults, skipped>>

(* bgREAD: status byte not 0.  The packet is read again, twice at most.    *)
ReadBad ==
    /\ twstate = "bgREAD"
    /\ ~skew
    /\ rx # <<>> /\ Head(rx) = BAD
    /\ rx' = Tail(rx)
    /\ \/ reread < 2 /\ reread' = reread + 1 /\ UNCHANGED twstate
       \/ reread = 2 /\ reread' = 0 /\ twstate' = "bgBUFERR"
    /\ UNCHANGED <<reader, skew, feed, attached, faults, skipped>>

(* bgREAD, reading a packet again: the timeout byte is swallowed as its    *)
(* first byte, and what follows names a page beyond the sensor's memory.   *)
ReadAgainTimeoutByte ==
    /\ twstate = "bgREAD"
    /\ ~skew /\ reread > 0
    /\ rx # <<>> /\ Head(rx) = TMO
    /\ rx' = <<>>
    /\ reread' = 0
    /\ \/ twstate' = "bgWRITE"
       \/ Len(rx) > 1 /\ twstate' = "bgBUFERR"
    /\ UNCHANGED <<reader, skew, feed, attached, faults, skipped>>

(* bgREAD, one byte out of step: the packet fails one of the tests, or the *)
(* repeated read comes up short.                                           *)
ReadSkewed ==
    /\ twstate = "bgREAD"
    /\ skew
    /\ rx # <<>>
    /\ rx' = <<>>
    /\ reread' = 0
    /\ \/ twstate' = "bgBUFERR" /\ UNCHANGED skew
       \/ twstate' = "bgWRITE" /\ skew' = FALSE
    /\ UNCHANGED <<reader, feed, attached, faults, skipped>>

(* bgREAD: readbuf(1) fails, its result is not tested, and the packet      *)
(* arrives in time for readbuf(68).  cBufRead[0] is whatever firstbyte     *)
(* held.  The page 0 packet then passes the address test when firstbyte is *)
(* 0 and its 68th byte is 0; any other is refused.                         *)
ReadSplit ==
    /\ MaySplit
    /\ twstate = "bgREAD"
    /\ ~skew /\ reread = 0
    /\ rx = <<>> /\ feed.left > 0 /\ attached
    /\ faults < MaxFaults
    /\ faults' = faults + 1
    /\ feed' = [page |-> feed.page + 1, left |-> feed.left - 1]
    /\ \/ /\ curaddr = 0 /\ feed.page = 0
          /\ pkt' = JUNK
          /\ skew' = TRUE
          /\ twstate' = "bgBUFOK"
       \/ /\ UNCHANGED <<pkt, skew>>
          /\ twstate' \in {"bgBUFERR", "bgWRITE"}
    /\ UNCHANGED <<firstfree, curaddr, curcnt, memdump, reread, rx, attached,
                   skipped>>

(* bgBUFOK: copy the page, count it.  The counter is a WORD.               *)
BufOK ==
    /\ twstate = "bgBUFOK"
    /\ curaddr \in Pages(firstfree)
    /\ memdump' = [memdump EXCEPT ![curaddr] = pkt]
    /\ curcnt' = CountDown
    /\ curaddr' = curaddr + 1
    /\ twstate' = IF MorePages(CountDown) THEN "bgREAD" ELSE "bgFINISH"
    /\ UNCHANGED <<firstfree, pkt, reread, rx, skew, feed, attached, faults,
                   skipped>>

(* bgBUFOK with the address beyond the image: undefined behaviour, the     *)
(* model stops here.                                                       *)
BufOverrun ==
    /\ twstate = "bgBUFOK"
    /\ curaddr \notin Pages(firstfree)
    /\ twstate' = "overrun"
    /\ UNCHANGED <<reader, reread, rx, skew, feed, attached, faults, skipped>>

(* bgBUFERR: the packet is not asked for again.                            *)
BufErr ==
    /\ twstate = "bgBUFERR"
    /\ twstate' = "bgERROR"
    /\ UNCHANGED <<reader, reread, rx, skew, feed, attached, faults, skipped>>

Reader ==
    \/ Start \/ Write \/ WriteFails \/ Reconnect \/ ReconnectFails
    \/ ReadTimeoutByte \/ ReadShort \/ ReadPacket \/ ReadBad
    \/ ReadAgainTimeoutByte \/ ReadSkewed \/ ReadSplit
    \/ BufOK \/ BufOverrun \/ BufErr

-----------------------------------------------------------------------------
(* The adapter and the user.                                               *)

NextPage == [page |-> feed.page + 1, left |-> feed.left - 1]

SendPage ==
    /\ feed.left > 0 /\ attached /\ Len(rx) < RxCap
    /\ rx' = Append(rx, feed.page)
    /\ feed' = NextPage
    /\ UNCHANGED <<twstate, reader, reread, skew, attached, faults, skipped>>

(* A packet damaged on the contact: the adapter repeats the page or goes   *)
(* on with the next one.                                                   *)
SendBad ==
    /\ feed.left > 0 /\ attached /\ Len(rx) < RxCap
    /\ faults < MaxFaults
    /\ faults' = faults + 1
    /\ rx' = Append(rx, BAD)
    /\ \/ UNCHANGED feed
       \/ feed' = NextPage
    /\ UNCHANGED <<twstate, reader, reread, skew, attached, skipped>>

SendTimeout ==
    /\ feed.left > 0 /\ ~attached /\ Len(rx) < RxCap
    /\ rx' = Append(rx, TMO)
    /\ feed' = Idle
    /\ UNCHANGED <<twstate, reader, reread, skew, attached, faults, skipped>>

(* The adapter goes silent without a timeout byte.                         *)
GoSilent ==
    /\ feed.left > 0
    /\ faults < MaxFaults
    /\ faults' = faults + 1
    /\ feed' = Idle
    /\ UNCHANGED <<twstate, reader, reread, rx, skew, attached, skipped>>

Lift ==
    /\ attached /\ ~Done
    /\ faults < MaxFaults
    /\ faults' = faults + 1
    /\ attached' = FALSE
    /\ UNCHANGED <<twstate, reader, reread, rx, skew, feed, skipped>>

Touch ==
    /\ ~attached
    /\ attached' = TRUE
    /\ UNCHANGED <<twstate, reader, reread, rx, skew, feed, faults, skipped>>

Adapter == SendPage \/ SendBad \/ SendTimeout \/ GoSilent

Next == Reader \/ Adapter \/ Lift \/ Touch

Spec == Init /\ [][Next]_vars

(* The reader's loop runs on, and the adapter, a device with a loop of its *)
(* own, answers an order; the user owes nothing.                           *)
FairSpec ==
    /\ Spec
    /\ WF_vars(Reader)
    /\ WF_vars(SendPage \/ SendTimeout)

-----------------------------------------------------------------------------
(* Properties.                                                             *)

TypeOK ==
    /\ twstate \in States
    /\ firstfree \in FirstFrees
    /\ curaddr \in Nat
    /\ curcnt \in 0 .. WordSize - 1
    /\ memdump \in [Pages(firstfree) -> Nat \union {BLANK, JUNK}]
    /\ pkt \in Nat \union {BLANK, JUNK}
    /\ reread \in 0..2
    /\ rx \in Seq(Nat \union {BAD, TMO})
    /\ skew \in BOOLEAN
    /\ feed \in [page : Nat, left : 0 .. CountByte]
    /\ attached \in BOOLEAN
    /\ faults \in 0 .. MaxFaults
    /\ skipped \in Nat

(* What a copied cell holds: its page.  The first page may come one byte   *)
(* out of step when it arrives between the two reads of bgREAD.            *)
Content(p) == IF MaySplit /\ p = 0 THEN {p, JUNK} ELSE {p}

(* A page of the image is untouched or holds that very page of the sensor, *)
(* whatever stale, damaged or missing packets the reader met: the echo of  *)
(* the address in each packet is what the code relies on.  It tells a      *)
(* packet that is out of step, too, unless that is the first one.          *)
PageIntegrity ==
    \A p \in Pages(firstfree) : memdump[p] \in {BLANK} \union Content(p)

(* The copy in bgBUFOK never leaves the buffer read_p3() allocated,        *)
(* for every firstfree whose page count fits the counter.                  *)
NoOverrun == Countable(firstfree) => twstate # "overrun"

(* Address and counter move together: every planned page is copied, still  *)
(* to be read, or was given up by a reconnect that reset the address only. *)
Accounting ==
    Countable(firstfree) =>
        curaddr + curcnt + skipped = PageCount(firstfree)

(* When the function reports success, all planned pages are in the image   *)
(* but for as many as reconnects gave up.                                  *)
FinishedPrefix ==
    Countable(firstfree) /\ twstate = "bgFINISH" =>
        \A p \in 0 .. PageCount(firstfree) - skipped - 1 :
            memdump[p] \in Content(p)

(* The comment above the function: "read all the data from sensor": when   *)
(* it reports success every byte below firstfree has been read.            *)
ReadsAllData ==
    twstate = "bgFINISH" =>
        \A b \in 0 .. firstfree - 1 : memdump[b \div PageSize] # BLANK

(* The comments at the tests of a packet and at bgBUFERR: a packet that     *)
(* fails a test is got from the adapter again, "maximum number of repaired *)
(* packets ... is 3x", before the call gives up: it takes three faults, of *)
(* the line or of the user, to make it report an error.                    *)
ThreeRepairs == twstate = "bgERROR" => faults >= 3

(* The states that lead to a first order.                                  *)
Starting == twstate = "bgSTART" \/ twstate = "bgRECONNECT"

(* The comment in bgSTART: "clear hardware buffer on FTDI".  The order a   *)
(* start or a reconnect leads to finds no bytes of an answer to an older   *)
(* one in the receive queue.                                               *)
PurgedAtStart ==
    [][Starting /\ twstate' = "bgWRITE" => Len(rx') = 0]_vars

(* The result a caller of p3_readtourwork() can see.                       *)
Outcome ==
    CASE twstate = "bgFINISH" -> "success"
      [] twstate = "bgERROR"  -> "error"
      [] twstate = "overrun"  -> "overrun"
      [] OTHER                -> "none"

PT == INSTANCE PageTransfer WITH
        Plans  <- {PageCount(ff) : ff \in FirstFrees},
        Blank  <- BLANK,
        Content <- Content,
        plan   <- PageCount(firstfree),
        image  <- memdump,
        next   <- curaddr,
        copies <- curaddr + skipped,
        result <- Outcome

(* The reader implements the transfer of PageTransfer for each plan that   *)
(* is countable: each step of its states, the stale queue and the          *)
(* reconnects included, copies the next page in its place, rewinds, fails  *)
(* or changes nothing a caller can see, and success comes with the last    *)
(* copy due.                                                               *)
Transfers ==
    /\ Countable(firstfree) => PT!Init
    /\ [][Countable(firstfree) => PT!Next]_(PT!vars)

(* With the sensor back on the probe for good the call returns: the resets *)
(* and repeated orders cannot go on for ever.                              *)
Returns ==
    Countable(firstfree) /\ <>[]attached => <>Done
=============================================================================
