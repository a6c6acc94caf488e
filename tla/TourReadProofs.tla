--------------------------- MODULE TourReadProofs ---------------------------
(***************************************************************************)
(* Proofs about TourRead for every set of images, every bound on faults    *)
(* and queue, and either setting of the switches unless a theorem says     *)
(* otherwise.                                                              *)
(***************************************************************************)
EXTENDS TourRead, TLAPS

LEMMA WordRange == WordSize \in Nat /\ CountByte \in Nat /\ CountByte < WordSize
BY DEF WordSize, CountByte

(* The plan is a number of pages that the allocated image can hold, and    *)
(* the count byte does not change a countable plan.                        *)
LEMMA PlanFits ==
    ASSUME NEW ff \in 1 .. WordSize - 1
    PROVE  /\ PageCount(ff) \in Nat
           /\ PageCount(ff) <= MemPages(ff)
           /\ PageCount(ff) % CountByte \in 0 .. CountByte - 1
           /\ Countable(ff) => /\ PageCount(ff) % CountByte = PageCount(ff)
                               /\ PageCount(ff) > 0
<1>1. ff \in Int /\ ff >= 1
  BY WordRange
<1>2. (ff - 1) \div 64 \in Nat /\ (ff - 1) \div 64 <= ff \div 64
  BY <1>1
<1>3. /\ PageCount(ff) \in Nat
      /\ PageCount(ff) <= MemPages(ff)
  BY <1>1, <1>2 DEF PageCount, MemPages, PageSize
<1>4. PageCount(ff) % CountByte \in 0 .. CountByte - 1
  BY <1>3 DEF CountByte
<1>5. ASSUME Countable(ff)
      PROVE  PageCount(ff) % CountByte = PageCount(ff) /\ PageCount(ff) > 0
  BY <1>5, <1>3 DEF Countable, CountByte
<1>6. QED
  BY <1>3, <1>4, <1>5

LEMMA ModRange ==
    ASSUME NEW n \in Int, NEW w \in Nat, w > 0
    PROVE  n % w \in 0 .. w - 1
OBVIOUS

LEMMA CountDownIsWord == curcnt \in Int => CountDown \in 0 .. WordSize - 1
<1>1. WordSize \in Nat /\ WordSize > 0
  BY DEF WordSize
<1>2. ASSUME curcnt \in Int PROVE CountDown \in 0 .. WordSize - 1
  <2>1. curcnt - 1 \in Int
    BY <1>2
  <2>2. (curcnt - 1) % WordSize \in 0 .. WordSize - 1
    BY <2>1, <1>1, ModRange
  <2>3. QED
    BY <2>2 DEF CountDown
<1>3. QED
  BY <1>2

LEMMA TypeInit == Init => TypeOK
<1> SUFFICES ASSUME Init PROVE TypeOK
  OBVIOUS
<1>1. curcnt \in 0 .. WordSize - 1
  <2>1. firstfree \in 1 .. WordSize - 1
    BY FirstFreesAssumption DEF Init
  <2>2. QED
    BY <2>1, PlanFits, WordRange DEF Init
<1>2. rx \in Seq(Nat \union {BAD, TMO})
  BY DEF Init
<1>3. feed \in [page : Nat, left : 0 .. CountByte]
  BY DEF Init, Idle, CountByte
<1>4. skew \in BOOLEAN /\ attached \in BOOLEAN
  BY Zenon DEF Init
<1>5. memdump \in [Pages(firstfree) -> Nat \union {BLANK, JUNK}]
  BY DEF Init
<1>6. /\ twstate \in States
      /\ firstfree \in FirstFrees
      /\ curaddr \in Nat /\ skipped \in Nat
      /\ pkt \in Nat \union {BLANK, JUNK}
      /\ reread \in 0..2
      /\ faults \in 0 .. MaxFaults
  BY BoundsAssumption DEF Init, States
<1>7. QED
  BY <1>1, <1>2, <1>3, <1>4, <1>5, <1>6 DEF TypeOK

(* One step of the reader or of its environment keeps the types.           *)
LEMMA TypeNext == TypeOK /\ [Next]_vars => TypeOK'
<1> SUFFICES ASSUME TypeOK, [Next]_vars PROVE TypeOK'
  OBVIOUS
<1> DEFINE Symbols == Nat \union {BAD, TMO}
<1>t. rx # <<>> => Tail(rx) \in Seq(Symbols) /\ Head(rx) \in Symbols
  BY DEF TypeOK
<1>e. <<>> \in Seq(Symbols)
  OBVIOUS
<1>f. Idle \in [page : Nat, left : 0 .. CountByte]
  BY DEF Idle, CountByte
<1>n. feed.left > 0 => NextPage \in [page : Nat, left : 0 .. CountByte]
  BY DEF TypeOK, NextPage, CountByte
<1>k. BLANK \in Int /\ JUNK \in Int /\ BAD \in Int /\ TMO \in Int
  BY DEF BLANK, JUNK, BAD, TMO
<1>1. CASE Start
  BY <1>1 DEF Start, TypeOK, States, StartAddress
<1>2. CASE Write
  <2>1. PICK n \in {curcnt % CountByte} \union
                   (IF curcnt % CountByte = 0 THEN {CountByte} ELSE {}) :
          feed' = [page |-> curaddr, left |-> n]
    BY <1>2 DEF Write
  <2>2. n \in 0 .. CountByte
    BY <2>1, WordRange DEF CountByte, TypeOK
  <2>3. feed' \in [page : Nat, left : 0 .. CountByte]
    BY <2>1, <2>2 DEF TypeOK
  <2>4. QED
    BY <1>2, <2>3 DEF Write, TypeOK, States, reader
<1>3. CASE WriteFails
  BY <1>3, BoundsAssumption DEF WriteFails, TypeOK, States, reader
<1>4. CASE Reconnect
  BY <1>4, <1>f DEF Reconnect, TypeOK, States, StartAddress
<1>5. CASE ReconnectFails
  BY <1>5, <1>f, <1>t DEF ReconnectFails, TypeOK, reader
<1>6. CASE ReadTimeoutByte
  BY <1>6, <1>t DEF ReadTimeoutByte, TypeOK, States, reader
<1>7. CASE ReadShort
  <2>1. faults' \in 0 .. MaxFaults
    BY <1>7, BoundsAssumption DEF ReadShort, TypeOK
  <2>2. skew' \in BOOLEAN
    BY <1>7, Zenon DEF ReadShort
  <2>3. QED
    BY <1>7, <2>1, <2>2 DEF ReadShort, TypeOK, States, reader, AfterShortRead
<1>8. CASE ReadPacket
  BY <1>8, <1>t DEF ReadPacket, TypeOK, States, BAD, TMO
<1>9. CASE ReadBad
  BY <1>9, <1>t DEF ReadBad, TypeOK, States, reader
<1>10. CASE ReadAgainTimeoutByte
  BY <1>10, <1>e DEF ReadAgainTimeoutByte, TypeOK, States, reader
<1>11. CASE ReadSkewed
  <2>1. skew' \in BOOLEAN
    BY <1>11, Zenon DEF ReadSkewed, TypeOK
  <2>2. /\ twstate' \in {"bgBUFERR", "bgWRITE"} /\ rx' = <<>> /\ reread' = 0
        /\ UNCHANGED <<reader, feed, attached, faults, skipped>>
    BY <1>11, Zenon DEF ReadSkewed
  <2>3. QED
    BY <2>2, <1>e, <2>1 DEF TypeOK, States, reader
<1>12. CASE ReadSplit
  <2>1. skew' \in BOOLEAN
    BY <1>12, Zenon DEF ReadSplit, TypeOK
  <2>2. faults' \in 0 .. MaxFaults
    BY <1>12, BoundsAssumption DEF ReadSplit, TypeOK
  <2>3. feed' \in [page : Nat, left : 0 .. CountByte]
    BY <1>12, <1>n DEF ReadSplit, NextPage
  <2>4. pkt' \in Nat \union {BLANK, JUNK} /\ twstate' \in States
    BY <1>12 DEF ReadSplit, TypeOK, States
  <2>5. QED
    BY <1>12, <2>1, <2>2, <2>3, <2>4 DEF ReadSplit, TypeOK
<1>13. CASE BufOK
  <2>1. memdump' \in [Pages(firstfree) -> Nat \union {BLANK, JUNK}]
    BY <1>13 DEF BufOK, TypeOK
  <2>2. CountDown \in 0 .. WordSize - 1
    BY CountDownIsWord, WordRange DEF TypeOK
  <2>3. QED
    BY <1>13, <2>1, <2>2 DEF BufOK, TypeOK, States
<1>14. CASE BufOverrun
  BY <1>14 DEF BufOverrun, TypeOK, States, reader
<1>15. CASE BufErr
  BY <1>15 DEF BufErr, TypeOK, States, reader
<1>16. CASE SendPage
  <2>1. Append(rx, feed.page) \in Seq(Symbols)
    BY DEF TypeOK
  <2>2. QED
    BY <1>16, <2>1, <1>n DEF SendPage, TypeOK, reader
<1>17. CASE SendBad
  <2>1. Append(rx, BAD) \in Seq(Symbols)
    BY DEF TypeOK
  <2>2. QED
    BY <1>17, <2>1, <1>n, BoundsAssumption DEF SendBad, TypeOK, reader
<1>18. CASE SendTimeout
  <2>1. Append(rx, TMO) \in Seq(Symbols)
    BY DEF TypeOK
  <2>2. QED
    BY <1>18, <2>1, <1>f DEF SendTimeout, TypeOK, reader
<1>19. CASE GoSilent
  BY <1>19, <1>f, BoundsAssumption DEF GoSilent, TypeOK, reader
<1>20. CASE Lift
  <2>1. attached' \in BOOLEAN
    BY <1>20, Zenon DEF Lift
  <2>2. QED
    BY <1>20, <2>1, BoundsAssumption DEF Lift, TypeOK, reader
<1>21. CASE Touch
  BY <1>21 DEF Touch, TypeOK, reader
<1>22. CASE UNCHANGED vars
  BY <1>22 DEF vars, TypeOK, reader
<1>23. QED
  BY <1>1, <1>2, <1>3, <1>4, <1>5, <1>6, <1>7, <1>8, <1>9, <1>10, <1>11,
     <1>12, <1>13, <1>14, <1>15, <1>16, <1>17, <1>18, <1>19, <1>20, <1>21,
     <1>22 DEF Next, Reader, Adapter

(* Every variable of the reader stays in its type: in particular the WORD  *)
(* counter and the at most two repeated reads of bgREAD.                   *)
THEOREM TypeCorrect == Spec => []TypeOK
BY TypeInit, TypeNext, PTL DEF Spec

-----------------------------------------------------------------------------
(* What bgBUFOK is about to copy is the page the address names, and what   *)
(* has been copied is in its place.  The first conjunct is what makes the  *)
(* integrity of the image inductive.                                       *)
InPlace ==
    /\ twstate = "bgBUFOK" => pkt \in Content(curaddr)
    /\ PageIntegrity

LEMMA InPlaceInit == Init => InPlace
BY DEF Init, InPlace, PageIntegrity

LEMMA InPlaceNext ==
    TypeOK /\ InPlace /\ [Next]_vars => InPlace'
<1> SUFFICES ASSUME TypeOK, InPlace, [Next]_vars
             PROVE  InPlace'
  OBVIOUS
<1> USE DEF InPlace, PageIntegrity
<1>1. CASE ReadPacket
  BY <1>1 DEF ReadPacket, AddressEchoed, Content
<1>2. CASE BufOK
  <2>1. twstate' # "bgBUFOK"
    BY <1>2 DEF BufOK
  <2>2. ASSUME NEW p \in Pages(firstfree)' PROVE memdump'[p] \in {BLANK} \union Content(p)
    BY <1>2, <2>2 DEF BufOK, TypeOK
  <2>3. QED
    BY <2>1, <2>2
<1>3. CASE ReadSplit
  BY <1>3 DEF ReadSplit, Content
<1>4. ASSUME UNCHANGED <<firstfree, curaddr, memdump, pkt>>,
             twstate' = "bgBUFOK" => twstate = "bgBUFOK"
      PROVE  InPlace'
  BY <1>4
<1>5. ASSUME UNCHANGED <<firstfree, memdump, pkt>>, twstate' # "bgBUFOK"
      PROVE  InPlace'
  BY <1>5
<1>6. CASE Start \/ Reconnect
  BY <1>5, <1>6 DEF Start, Reconnect
<1>7. CASE Write \/ WriteFails \/ ReconnectFails \/ ReadTimeoutByte \/ ReadShort
  BY <1>4, <1>7 DEF Write, WriteFails, ReconnectFails, ReadTimeoutByte,
                    ReadShort, AfterShortRead, reader
<1>8. CASE ReadBad \/ ReadAgainTimeoutByte \/ ReadSkewed \/ BufOverrun \/ BufErr
  BY <1>4, <1>8 DEF ReadBad, ReadAgainTimeoutByte, ReadSkewed, BufOverrun,
                    BufErr, reader
<1>9. CASE Adapter \/ Lift \/ Touch
  BY <1>4, <1>9 DEF Adapter, SendPage, SendBad, SendTimeout, GoSilent, Lift,
                    Touch, reader
<1>10. CASE UNCHANGED vars
  BY <1>4, <1>10 DEF vars, reader
<1>11. QED
  BY <1>1, <1>2, <1>3, <1>6, <1>7, <1>8, <1>9, <1>10 DEF Next, Reader

(* Whatever stale, damaged or missing packets the reader meets, a page of  *)
(* the image is blank or the sensor's page of that number, or the first    *)
(* page as it comes between the reader's two reads of it.                  *)
THEOREM ImageIntegrity == Spec => []PageIntegrity
<1>1. InPlace => PageIntegrity
  BY DEF InPlace
<1>2. TypeOK /\ InPlace /\ [Next]_vars => InPlace'
  BY InPlaceNext
<1>3. QED
  BY <1>1, <1>2, InPlaceInit, TypeCorrect, PTL DEF Spec

-----------------------------------------------------------------------------
(* The accounts of a countable plan: the counter is 0 only once the read   *)
(* has finished, so the WORD never wraps and the address stays below the   *)
(* plan; the prefix below the address has been copied.                     *)
Accounts ==
    Countable(firstfree) =>
        /\ curaddr + curcnt + skipped = PageCount(firstfree)
        /\ twstate # "overrun"
        /\ twstate = "bgFINISH" <=> curcnt = 0
        /\ twstate = "bgSTART" => curaddr = 0

LEMMA AccountsInit == Init => Accounts
<1> SUFFICES ASSUME Init, Countable(firstfree) PROVE Accounts
  BY DEF Accounts
<1>1. firstfree \in 1 .. WordSize - 1
  BY FirstFreesAssumption DEF Init
<1>2. curcnt = PageCount(firstfree) /\ curcnt \in Nat /\ curcnt > 0
  BY <1>1, PlanFits DEF Init
<1>3. QED
  BY <1>2 DEF Init, Accounts

LEMMA AccountsNext == TypeOK /\ Accounts /\ [Next]_vars => Accounts'
<1> SUFFICES ASSUME TypeOK, Accounts, [Next]_vars, Countable(firstfree)'
             PROVE  Accounts'
  BY DEF Accounts
<1>1. firstfree' = firstfree /\ firstfree \in 1 .. WordSize - 1
  <2>1. firstfree' = firstfree
    BY DEF vars, reader, Next, Reader, Adapter, Start, Write, WriteFails,
           Reconnect, ReconnectFails, ReadTimeoutByte, ReadShort, ReadPacket,
           ReadBad, ReadAgainTimeoutByte, ReadSkewed, ReadSplit, BufOK,
           BufOverrun, BufErr, SendPage, SendBad, SendTimeout, GoSilent,
           Lift, Touch
  <2>2. QED
    BY <2>1, FirstFreesAssumption DEF TypeOK
<1>2. /\ curaddr + curcnt + skipped = PageCount(firstfree)
      /\ twstate # "overrun"
      /\ twstate = "bgFINISH" <=> curcnt = 0
      /\ twstate = "bgSTART" => curaddr = 0
  BY <1>1 DEF Accounts
<1>3. /\ PageCount(firstfree) \in Nat
      /\ PageCount(firstfree) <= MemPages(firstfree)
      /\ MemPages(firstfree) \in Int
  <2>1. MemPages(firstfree) \in Int
    BY <1>1, WordRange DEF MemPages, PageSize
  <2>2. QED
    BY <2>1, <1>1, PlanFits
<1>4. curaddr \in Nat /\ curcnt \in Nat /\ curcnt < WordSize /\ skipped \in Nat
  BY WordRange DEF TypeOK
<1>5. ASSUME UNCHANGED <<curaddr, curcnt, skipped>>,
             twstate' # "overrun",
             twstate # "bgFINISH",
             twstate' \notin {"bgFINISH", "bgSTART"}
      PROVE  Accounts'
  BY <1>1, <1>2, <1>5 DEF Accounts
<1>6. ASSUME UNCHANGED <<curaddr, curcnt, skipped, twstate>>
      PROVE  Accounts'
  BY <1>1, <1>2, <1>6 DEF Accounts
<1>7. CASE Start
  BY <1>7, <1>1, <1>2, <1>4 DEF Start, Accounts, StartAddress
<1>8. CASE Reconnect
  BY <1>8, <1>1, <1>2, <1>4 DEF Reconnect, Accounts, StartAddress
<1>9. CASE BufOK
  <2>1. curcnt # 0 /\ curcnt >= 1
    BY <1>2, <1>4, <1>9 DEF BufOK
  <2>2. CountDown = curcnt - 1
    BY <2>1, <1>4 DEF CountDown, WordSize
  <2>3. QED
    BY <1>9, <1>1, <1>2, <1>4, <2>1, <2>2 DEF BufOK, Accounts, MorePages
<1>10. CASE BufOverrun
  <2>1. curcnt >= 1
    BY <1>2, <1>4, <1>10 DEF BufOverrun
  <2>2. curaddr \in Pages(firstfree)
    BY <2>1, <1>2, <1>3, <1>4 DEF Pages
  <2>3. QED
    BY <1>10, <2>2 DEF BufOverrun
<1>11. CASE Write \/ WriteFails \/ ReadTimeoutByte \/ ReadShort \/ ReadPacket
  BY <1>5, <1>11 DEF Write, WriteFails, ReadTimeoutByte, ReadShort,
                     ReadPacket, AfterShortRead, reader
<1>12. CASE ReadBad \/ ReadAgainTimeoutByte \/ ReadSkewed \/ ReadSplit \/ BufErr
  BY <1>5, <1>12 DEF ReadBad, ReadAgainTimeoutByte, ReadSkewed, ReadSplit,
                     BufErr, reader
<1>13. CASE ReconnectFails \/ Adapter \/ Lift \/ Touch \/ UNCHANGED vars
  BY <1>6, <1>13 DEF ReconnectFails, Adapter, SendPage, SendBad, SendTimeout,
                     GoSilent, Lift, Touch, reader, vars
<1>14. QED
  BY <1>7, <1>8, <1>9, <1>10, <1>11, <1>12, <1>13 DEF Next, Reader

(* Every planned page is copied, to be read, or was given up by a          *)
(* reconnect that reset the address and not the counter.                   *)
THEOREM PagesAccounted == Spec => []Accounting
<1>1. Accounts => Accounting
  BY DEF Accounts, Accounting
<1>2. QED
  BY <1>1, AccountsInit, AccountsNext, TypeCorrect, PTL DEF Spec

(* The copy loop of bgBUFOK stays inside the allocated image, for every    *)
(* firstfree whose plan fits the one-byte count.                           *)
THEOREM CopyInBounds == Spec => []NoOverrun
<1>1. Accounts => NoOverrun
  BY DEF Accounts, NoOverrun
<1>2. QED
  BY <1>1, AccountsInit, AccountsNext, TypeCorrect, PTL DEF Spec

-----------------------------------------------------------------------------
(* The pages below the address are the sensor's own.                       *)
CopiedPrefix == \A p \in Pages(firstfree) :
    p < curaddr => memdump[p] \in Content(p)

LEMMA PrefixInit == Init => CopiedPrefix
<1> SUFFICES ASSUME Init, NEW p \in Pages(firstfree), p < curaddr
             PROVE  FALSE
  BY DEF CopiedPrefix
<1>1. p \in Int /\ p >= 0
  BY DEF Pages
<1>2. QED
  BY <1>1 DEF Init

LEMMA PrefixNext ==
    TypeOK /\ InPlace /\ CopiedPrefix /\ [Next]_vars => CopiedPrefix'
<1> SUFFICES ASSUME TypeOK, InPlace, CopiedPrefix, [Next]_vars
             PROVE  CopiedPrefix'
  OBVIOUS
<1>1. CASE Start \/ Reconnect
  <2>1. curaddr' = 0 /\ UNCHANGED firstfree
    BY <1>1 DEF Start, Reconnect, StartAddress
  <2>2. \A p \in Pages(firstfree) : p \in Int /\ p >= 0
    BY DEF Pages
  <2>3. QED
    BY <2>1, <2>2 DEF CopiedPrefix
<1>2. CASE BufOK
  <2>1. /\ UNCHANGED firstfree
        /\ curaddr' = curaddr + 1
        /\ memdump' = [memdump EXCEPT ![curaddr] = pkt]
        /\ pkt \in Content(curaddr)
    BY <1>2 DEF BufOK, InPlace
  <2>2. ASSUME NEW p \in Pages(firstfree), p < curaddr + 1
        PROVE  memdump'[p] \in Content(p)
    <3>1. p \in Int /\ curaddr \in Int
      BY DEF Pages, TypeOK
    <3>2. p = curaddr \/ p < curaddr
      BY <3>1, <2>2
    <3>3. memdump \in [Pages(firstfree) -> Nat \union {BLANK, JUNK}]
      BY DEF TypeOK
    <3>4. QED
      BY <2>1, <2>2, <3>2, <3>3 DEF CopiedPrefix
  <2>3. QED
    BY <2>1, <2>2 DEF CopiedPrefix
<1>3. ASSUME UNCHANGED <<firstfree, curaddr, memdump>>
      PROVE  CopiedPrefix'
  BY <1>3 DEF CopiedPrefix
<1>4. CASE Write \/ WriteFails \/ ReconnectFails \/ ReadTimeoutByte \/ ReadShort
  BY <1>3, <1>4 DEF Write, WriteFails, ReconnectFails, ReadTimeoutByte,
                    ReadShort, reader
<1>5. CASE ReadPacket \/ ReadBad \/ ReadAgainTimeoutByte \/ ReadSkewed \/ ReadSplit
  BY <1>3, <1>5 DEF ReadPacket, ReadBad, ReadAgainTimeoutByte, ReadSkewed,
                    ReadSplit, reader
<1>6. CASE BufOverrun \/ BufErr \/ Adapter \/ Lift \/ Touch \/ UNCHANGED vars
  BY <1>3, <1>6 DEF BufOverrun, BufErr, Adapter, SendPage, SendBad,
                    SendTimeout, GoSilent, Lift, Touch, reader, vars
<1>7. QED
  BY <1>1, <1>2, <1>4, <1>5, <1>6 DEF Next, Reader

(* A successful return of a countable plan leaves every planned page in    *)
(* the image, up to the number that reconnects gave up.                    *)
THEOREM SuccessMeansPrefix == Spec => []FinishedPrefix
<1>1. TypeOK /\ Accounts /\ CopiedPrefix => FinishedPrefix
  <2> SUFFICES ASSUME TypeOK, Accounts, CopiedPrefix, Countable(firstfree),
                      twstate = "bgFINISH",
                      NEW p \in 0 .. PageCount(firstfree) - skipped - 1
               PROVE  memdump[p] \in Content(p)
    BY DEF FinishedPrefix
  <2>1. firstfree \in 1 .. WordSize - 1
    BY FirstFreesAssumption DEF TypeOK
  <2>2. /\ PageCount(firstfree) \in Nat
        /\ PageCount(firstfree) <= MemPages(firstfree)
        /\ MemPages(firstfree) \in Int
    BY <2>1, PlanFits, WordRange DEF MemPages, PageSize
  <2>3. curaddr = PageCount(firstfree) - skipped /\ skipped \in Nat
    BY <2>2 DEF Accounts, TypeOK
  <2>4. p \in Pages(firstfree) /\ p < curaddr
    BY <2>2, <2>3 DEF Pages
  <2>5. QED
    BY <2>4 DEF CopiedPrefix
<1>2. TypeOK /\ InPlace /\ [Next]_vars => InPlace'
  BY InPlaceNext
<1>3. TypeOK /\ InPlace /\ CopiedPrefix /\ [Next]_vars => CopiedPrefix'
  BY PrefixNext
<1>4. QED
  BY <1>1, <1>2, <1>3, InPlaceInit, PrefixInit, AccountsInit, AccountsNext,
     TypeCorrect, PTL DEF Spec

-----------------------------------------------------------------------------
(* The transfer a caller sees.                                             *)

LEMMA TransferInit ==
    Init => (Countable(firstfree) => PT!Init)
<1> SUFFICES ASSUME Init PROVE PT!Init
  OBVIOUS
<1>1. firstfree \in FirstFrees /\ firstfree \in 1 .. WordSize - 1
  BY FirstFreesAssumption DEF Init
<1>2. /\ PageCount(firstfree) \in Nat
      /\ PageCount(firstfree) <= MemPages(firstfree)
      /\ MemPages(firstfree) \in Int
  BY <1>1, PlanFits, WordRange DEF MemPages, PageSize
<1>3. DOMAIN memdump = Pages(firstfree)
  BY DEF Init
<1>4. 0 .. PageCount(firstfree) - 1 \subseteq DOMAIN memdump
  BY <1>2, <1>3 DEF Pages
<1>5. memdump = [p \in DOMAIN memdump |-> BLANK]
  BY <1>3 DEF Init
<1>6. PageCount(firstfree) \in {PageCount(ff) : ff \in FirstFrees}
  BY <1>1
<1>7. /\ curaddr = 0
      /\ curaddr + skipped = 0
      /\ Outcome = "none"
  BY DEF Init, Outcome
<1>8. QED
  BY <1>4, <1>5, <1>6, <1>7 DEF PT!Init

(* A step that neither moves the address nor ends the call is not seen.    *)
LEMMA HiddenStep ==
    ASSUME UNCHANGED <<firstfree, curaddr, memdump, skipped>>,
           twstate \notin {"bgFINISH", "bgERROR", "overrun"},
           twstate' \notin {"bgFINISH", "bgERROR", "overrun"}
    PROVE  UNCHANGED PT!vars
BY DEF PT!vars, Outcome

LEMMA TransferNext ==
    ASSUME TypeOK, InPlace, Accounts, [Next]_vars, Countable(firstfree)
    PROVE  [PT!Next]_(PT!vars)
<1>1. firstfree \in 1 .. WordSize - 1 /\ Countable(firstfree)
  BY FirstFreesAssumption DEF TypeOK
<1>2. /\ curaddr + curcnt + skipped = PageCount(firstfree)
      /\ twstate = "bgFINISH" <=> curcnt = 0
      /\ twstate = "bgSTART" => curaddr = 0
  BY <1>1 DEF Accounts
<1>3. /\ PageCount(firstfree) \in Nat
      /\ PageCount(firstfree) <= MemPages(firstfree)
      /\ MemPages(firstfree) \in Int
  BY <1>1, PlanFits, WordRange DEF MemPages, PageSize
<1>4. curaddr \in Nat /\ curcnt \in Nat /\ curcnt < WordSize /\ skipped \in Nat
  BY WordRange DEF TypeOK
<1>5. CASE BufOK
  <2>1. curcnt >= 1 /\ Outcome = "none"
    BY <1>2, <1>4, <1>5 DEF BufOK, Outcome
  <2>2. CountDown = curcnt - 1
    BY <2>1, <1>4 DEF CountDown, WordSize
  <2>3. curaddr + skipped < PageCount(firstfree)
    BY <2>1, <1>2, <1>3, <1>4
  <2>4. DOMAIN memdump = Pages(firstfree)
    BY DEF TypeOK
  <2>5. /\ curaddr \in DOMAIN memdump
        /\ pkt \in Content(curaddr)
        /\ memdump' = [memdump EXCEPT ![curaddr] = pkt]
        /\ curaddr' = curaddr + 1
        /\ UNCHANGED <<firstfree, skipped>>
    BY <1>5, <2>4 DEF BufOK, InPlace
  <2>6. curaddr' + skipped' = curaddr + skipped + 1
    BY <2>5, <1>4
  <2>7. Outcome' = IF curaddr + skipped + 1 = PageCount(firstfree)
                     THEN "success" ELSE "none"
    <3>1. CASE curcnt = 1
      <4>1. twstate' = "bgFINISH"
        BY <1>5, <2>2, <3>1 DEF BufOK, MorePages
      <4>2. curaddr + skipped + 1 = PageCount(firstfree)
        BY <3>1, <1>2, <1>3, <1>4
      <4>3. QED
        BY <4>1, <4>2 DEF Outcome
    <3>2. CASE curcnt # 1
      <4>1. twstate' = "bgREAD"
        BY <1>4, <1>5, <2>1, <2>2, <3>2 DEF BufOK, MorePages
      <4>2. curaddr + skipped + 1 # PageCount(firstfree)
        BY <3>2, <1>2, <1>3, <1>4
      <4>3. QED
        BY <4>1, <4>2 DEF Outcome
    <3>3. QED
      BY <3>1, <3>2
  <2>8. PageCount(firstfree)' = PageCount(firstfree)
    BY <2>5
  <2>9. PT!CopyPage
    BY <2>1, <2>3, <2>5, <2>6, <2>7, <2>8 DEF PT!CopyPage
  <2>10. QED
    BY <2>9 DEF PT!Next
<1>6. CASE Reconnect
  <2>1. /\ Outcome = "none" /\ Outcome' = "none"
        /\ curaddr' = 0
        /\ skipped' = skipped + curaddr
        /\ UNCHANGED <<firstfree, memdump>>
    BY <1>6 DEF Reconnect, Outcome, StartAddress
  <2>2. curaddr' + skipped' = curaddr + skipped
    BY <2>1, <1>4
  <2>3. PT!Rewind
    BY <2>1, <2>2 DEF PT!Rewind
  <2>4. QED
    BY <2>3 DEF PT!Next
<1>7. CASE BufErr
  <2>1. Outcome = "none" /\ Outcome' = "error"
    BY <1>7 DEF BufErr, Outcome
  <2>2. PT!Fail
    BY <1>7, <2>1 DEF BufErr, reader, PT!Fail
  <2>3. QED
    BY <2>2 DEF PT!Next
<1>8. CASE BufOverrun
  <2>1. curcnt >= 1
    BY <1>2, <1>4, <1>8 DEF BufOverrun
  <2>2. curaddr \in Pages(firstfree)
    BY <2>1, <1>2, <1>3, <1>4 DEF Pages
  <2>3. QED
    BY <1>8, <2>2 DEF BufOverrun
<1>9. CASE Start
  <2>1. UNCHANGED <<firstfree, curaddr, memdump, skipped>>
    BY <1>2, <1>9 DEF Start, StartAddress
  <2>2. twstate = "bgSTART" /\ twstate' = "bgWRITE"
    BY <1>9 DEF Start
  <2>3. QED
    BY <2>1, <2>2, HiddenStep
<1>10. CASE Write \/ WriteFails \/ ReadTimeoutByte \/ ReadShort \/ ReadPacket
  BY <1>10, HiddenStep DEF Write, WriteFails, ReadTimeoutByte, ReadShort,
                           ReadPacket, AfterShortRead, reader
<1>11. CASE ReadBad \/ ReadAgainTimeoutByte \/ ReadSkewed \/ ReadSplit
  BY <1>11, HiddenStep DEF ReadBad, ReadAgainTimeoutByte, ReadSkewed,
                           ReadSplit, reader
<1>12. ASSUME UNCHANGED <<firstfree, curaddr, memdump, skipped, twstate>>
       PROVE  UNCHANGED PT!vars
  BY <1>12 DEF PT!vars, Outcome
<1>13. CASE ReconnectFails \/ Adapter \/ Lift \/ Touch \/ UNCHANGED vars
  BY <1>12, <1>13 DEF ReconnectFails, Adapter, SendPage, SendBad, SendTimeout,
                      GoSilent, Lift, Touch, reader, vars
<1>14. QED
  BY <1>5, <1>6, <1>7, <1>8, <1>9, <1>10, <1>11, <1>13 DEF Next, Reader

(* The reader implements the transfer of PageTransfer for every countable  *)
(* plan, every queue length and any number of faults.                      *)
THEOREM TransferImplemented == Spec => Transfers
<1>1. Init => (Countable(firstfree) => PT!Init)
  BY TransferInit
<1>2. TypeOK /\ InPlace /\ Accounts /\ [Next]_vars
        => [Countable(firstfree) => PT!Next]_(PT!vars)
  BY TransferNext
<1>3. TypeOK /\ InPlace /\ [Next]_vars => InPlace'
  BY InPlaceNext
<1>4. QED
  BY <1>1, <1>2, <1>3, InPlaceInit, AccountsInit, AccountsNext, TypeCorrect,
     PTL DEF Spec, Transfers
=============================================================================
