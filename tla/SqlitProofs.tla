------------------------------ MODULE SqlitProofs ------------------------------
(***************************************************************************)
(* Proofs about Sqlit for every set of images, every bound and, unless a   *)
(* theorem says otherwise, every set of statements that may fail.          *)
(***************************************************************************)
EXTENDS Sqlit, SequenceTheorems, TLAPS

(* What the calls of sqlit.c rely on: a number has been given out for the  *)
(* image that is stored, and its row is there when the blob is written.    *)
Prepared ==
    /\ view.last <= downloads /\ disk.last <= downloads
    /\ pc \in {"max", "insert", "fill"} => mem \in Images
    /\ pc \in {"insert", "fill", "parse", "mark"} => syn \in Numbers
    /\ pc = "fill" => view.rows # <<>>

TypeInv == TypeOK /\ Prepared

-----------------------------------------------------------------------------
(* Contents of the database.                                               *)

LEMMA EmptyContents == Empty \in Contents
BY BoundsAssumption DEF Empty, Contents, Numbers

LEMMA NewNumberTyped ==
    ASSUME NEW c \in Contents, c.last + 1 \in Numbers
    PROVE  /\ [c EXCEPT !.last = @ + 1] \in Contents
           /\ [c EXCEPT !.last = @ + 1].last = c.last + 1
           /\ [c EXCEPT !.last = @ + 1].rows = c.rows
BY DEF Contents

LEMMA AppendRow ==
    ASSUME NEW q \in Seq(Rows), NEW r \in Rows
    PROVE  /\ Append(q, r) \in Seq(Rows)
           /\ Append(q, r) # <<>>
           /\ Len(Append(q, r)) = Len(q) + 1
           /\ Append(q, r)[Len(q) + 1] = r
           /\ \A i \in 1 .. Len(q) : Append(q, r)[i] = q[i]
BY AppendProperties

LEMMA NewRowTyped ==
    ASSUME NEW c \in Contents, NEW n \in Numbers
    PROVE  /\ [c EXCEPT !.rows = Append(@, L!Row(n, ZEROS, FALSE))] \in Contents
           /\ [c EXCEPT !.rows = Append(@, L!Row(n, ZEROS, FALSE))].rows # <<>>
           /\ [c EXCEPT !.rows = Append(@, L!Row(n, ZEROS, FALSE))].last = c.last
<1> DEFINE r == L!Row(n, ZEROS, FALSE)
<1>1. r \in Rows
  BY DEF L!Row, Rows
<1> HIDE DEF r
<1>2. c.rows \in Seq(Rows)
  BY DEF Contents
<1>3. Append(c.rows, r) \in Seq(Rows) /\ Append(c.rows, r) # <<>>
  BY <1>1, <1>2, AppendRow
<1>4. /\ [c EXCEPT !.rows = Append(@, r)] \in Contents
      /\ [c EXCEPT !.rows = Append(@, r)].rows = Append(c.rows, r)
      /\ [c EXCEPT !.rows = Append(@, r)].last = c.last
  BY <1>3 DEF Contents
<1>5. QED
  BY <1>3, <1>4 DEF r

LEMMA FilledTyped ==
    ASSUME NEW c \in Contents, NEW i \in Nat, NEW b \in Images
    PROVE  /\ [c EXCEPT !.rows[i].blob = b] \in Contents
           /\ [c EXCEPT !.rows[i].blob = b].last = c.last
<1>1. c.rows \in Seq(Rows)
  BY DEF Contents
<1>2. ASSUME NEW r \in Rows PROVE [r EXCEPT !.blob = b] \in Rows
  BY DEF Rows
<1>3. [c.rows EXCEPT ![i].blob = b] \in Seq(Rows)
  <2>1. c.rows \in [1 .. Len(c.rows) -> Rows]
    BY <1>1
  <2>2. [c.rows EXCEPT ![i].blob = b] \in [1 .. Len(c.rows) -> Rows]
    BY <1>2, <2>1
  <2>3. QED
    BY <1>1, <2>2
<1>4. [c EXCEPT !.rows = [c.rows EXCEPT ![i].blob = b]] \in Contents
  BY <1>3 DEF Contents
<1>5. [c EXCEPT !.rows = [c.rows EXCEPT ![i].blob = b]].last = c.last
  BY DEF Contents
<1>6. QED
  BY <1>4, <1>5

LEMMA MarkedTyped ==
    ASSUME view \in Contents, NEW n
    PROVE  /\ MarkRows(n) \in Seq(Rows)
           /\ Len(MarkRows(n)) = Len(view.rows)
           /\ [view EXCEPT !.rows = MarkRows(n)] \in Contents
           /\ [view EXCEPT !.rows = MarkRows(n)].last = view.last
<1>1. view.rows \in Seq(Rows) /\ DOMAIN view.rows = 1 .. Len(view.rows)
  BY DEF Contents
<1>2. ASSUME NEW r \in Rows PROVE MarkRow(n, r) \in Rows
  BY DEF MarkRow, Rows
<1>3. MarkRows(n) \in Seq(Rows) /\ Len(MarkRows(n)) = Len(view.rows)
  BY <1>1, <1>2 DEF MarkRows
<1>4. QED
  BY <1>3 DEF Contents

LEMMA LineTyped ==
    ASSUME NEW c \in Contents, NEW n \in Numbers
    PROVE  /\ [c EXCEPT !.lines = Append(@, n)] \in Contents
           /\ [c EXCEPT !.lines = Append(@, n)].last = c.last
<1>1. Append(c.lines, n) \in Seq(Numbers)
  BY DEF Contents
<1>2. QED
  BY <1>1 DEF Contents

(* Whatever becomes of a statement, each copy of the content is the old    *)
(* one, the new one or that of the disk, and the rest keeps its type.      *)
LEMMA DoSqlTyped ==
    ASSUME TypeOK, NEW c \in Contents, DoSql(c)
    PROVE  /\ disk' \in {disk, c} /\ view' \in {view, disk, c}
           /\ txn' \in BOOLEAN /\ leaked' = leaked
           /\ handle' \in {"open", "closed"}
           /\ leaked => handle' = handle
           /\ faults' \in 0 .. MaxFaults
<1>1. txn' \in BOOLEAN
  BY Zenon DEF DoSql
<1>2. leaked' = leaked
  BY Zenon DEF DoSql
<1>3. disk' \in {disk, c} /\ view' \in {view, disk, c}
  BY DEF DoSql
<1>4. handle' \in {"open", "closed"} /\ (leaked => handle' = handle)
  BY DEF DoSql, AfterClose, TypeOK
<1>5. faults' \in 0 .. MaxFaults
  BY BoundsAssumption DEF DoSql, Fault, TypeOK
<1>6. QED
  BY <1>1, <1>2, <1>3, <1>4, <1>5

LEMMA ExecuteTyped ==
    ASSUME NEW c \in Contents, Execute(c)
    PROVE  /\ disk' \in {disk, c} /\ view' = c
           /\ UNCHANGED <<txn, handle, leaked>>
BY DEF Execute

-----------------------------------------------------------------------------
LEMMA TypeInit == Init => TypeInv
<1> SUFFICES ASSUME Init PROVE TypeInv
  OBVIOUS
<1>1. txn \in BOOLEAN /\ leaked \in BOOLEAN /\ isResend \in BOOLEAN
  BY Zenon DEF Init
<1>2. fts \in Seq(Numbers)
  BY DEF Init
<1>3. /\ pc = "off" /\ handle = "closed" /\ mem = NONE
      /\ disk = Empty /\ view = Empty
      /\ syn = -1 /\ evtSyn = 0 /\ tries = 0
      /\ downloads = 0 /\ resends = 0 /\ faults = 0 /\ crashes = 0
  BY DEF Init
<1>4. TypeOK
  BY <1>1, <1>2, <1>3, EmptyContents, BoundsAssumption
     DEF TypeOK, Places, Numbers
<1>5. Prepared
  BY <1>3 DEF Prepared, Empty
<1>6. QED
  BY <1>4, <1>5 DEF TypeInv

LEMMA GoneTyped ==
    ASSUME TypeInv, Gone,
           downloads' = downloads, resends' \in 0 .. MaxResends,
           faults' \in 0 .. MaxFaults, crashes' \in 0 .. MaxCrashes
    PROVE  TypeInv'
<1>1. txn' \in BOOLEAN /\ leaked' \in BOOLEAN /\ isResend' \in BOOLEAN
  BY Zenon DEF Gone
<1>2. fts' \in Seq(Numbers)
  BY DEF Gone
<1>3. /\ pc' = "off" /\ handle' = "closed" /\ mem' = NONE
      /\ view' = disk /\ disk' = disk
      /\ syn' = -1 /\ evtSyn' = 0 /\ tries' = 0
  BY DEF Gone
<1>4. TypeOK'
  BY <1>1, <1>2, <1>3, BoundsAssumption DEF TypeInv, TypeOK, Places, Numbers
<1>5. Prepared'
  BY <1>3 DEF TypeInv, Prepared
<1>6. QED
  BY <1>4, <1>5 DEF TypeInv

LEMMA TypeNext == TypeInv /\ [Next]_vars => TypeInv'
<1> SUFFICES ASSUME TypeInv, [Next]_vars PROVE TypeInv'
  OBVIOUS
<1> USE DEF TypeInv
<1>n. /\ 0 \in Numbers /\ downloads \in 0 .. MaxDownloads /\ MaxDownloads \in Nat
      /\ view.last \in 0 .. MaxDownloads /\ disk.last \in 0 .. MaxDownloads
  BY BoundsAssumption DEF Numbers, TypeOK, Contents
<1>1. CASE Open
  <2>1. LastRow \in Numbers
    <3>1. view.rows \in Seq(Rows)
      BY DEF TypeOK, Contents
    <3>2. CASE view.rows = <<>>
      BY <3>2, <1>n DEF LastRow
    <3>3. CASE view.rows # <<>>
      <4>1. view.rows[Len(view.rows)] \in Rows
        BY <3>1, <3>3
      <4>2. QED
        BY <4>1, <3>3 DEF LastRow, Rows
    <3>4. QED
      BY <3>2, <3>3
  <2>2. leaked' \in BOOLEAN
    BY <1>1, Zenon DEF Open, StatementLeft
  <2>3. TypeOK'
    BY <1>1, <2>1, <2>2 DEF Open, TypeOK, counts, Places
  <2>4. Prepared'
    BY <1>1 DEF Open, Prepared, counts
  <2>5. QED
    BY <2>3, <2>4
<1>2. CASE NewFile
  <2> DEFINE c == [view EXCEPT !.last = @ + 1]
  <2>1. downloads < MaxDownloads
    BY <1>2 DEF NewFile
  <2>2. view \in Contents /\ view.last + 1 \in Numbers
    BY <2>1, <1>n DEF TypeOK, Prepared, Numbers
  <2>3. c \in Contents /\ c.last = view.last + 1
    BY <2>2, NewNumberTyped
  <2>4. DoSql(c)
    BY <1>2 DEF NewFile
  <2> HIDE DEF c
  <2>5. /\ disk' \in {disk, c} /\ view' \in {view, disk, c}
        /\ txn' \in BOOLEAN /\ leaked' = leaked
        /\ handle' \in {"open", "closed"}
        /\ faults' \in 0 .. MaxFaults
    BY <2>3, <2>4, DoSqlTyped
  <2>6. fts' \in Seq(Numbers) /\ downloads' = downloads + 1
    BY <1>2 DEF NewFile
  <2>7. downloads' \in 0 .. MaxDownloads /\ tries' \in 0 .. MaxAttempts
    BY <1>2, BoundsAssumption DEF NewFile, TypeOK
  <2>8. /\ mem' \in Images /\ pc' = "max"
        /\ UNCHANGED <<syn, evtSyn, isResend, resends, crashes>>
    BY <1>2 DEF NewFile
  <2>9. TypeOK'
    BY <2>3, <2>5, <2>6, <2>7, <2>8 DEF TypeOK, Places
  <2>10. disk'.last <= downloads' /\ view'.last <= downloads'
    BY <2>3, <2>5, <2>6, <1>n DEF Prepared
  <2>11. QED
    BY <2>9, <2>10, <2>8 DEF Prepared
<1>3. CASE GetMax
  <2>1. MaxOf \in Numbers
    BY <1>n DEF MaxOf, Numbers
  <2>2. TypeOK'
    BY <1>3, <2>1 DEF GetMax, TypeOK, Places, db, counts
  <2>3. Prepared'
    BY <1>3, <2>1 DEF GetMax, At, Prepared, db, counts
  <2>4. QED
    BY <2>2, <2>3
<1>4. CASE InsertRow
  <2> DEFINE c == [view EXCEPT !.rows = Append(@, L!Row(syn, ZEROS, FALSE))]
  <2>1. syn \in Numbers /\ view \in Contents /\ mem \in Images
    BY <1>4 DEF InsertRow, At, Prepared, TypeOK
  <2>2. c \in Contents /\ c.rows # <<>> /\ c.last = view.last
    BY <2>1, NewRowTyped
  <2>3. Execute(c)
    BY <1>4 DEF InsertRow
  <2> HIDE DEF c
  <2>4. /\ disk' \in {disk, c} /\ view' = c
        /\ UNCHANGED <<txn, handle, leaked>>
    BY <2>2, <2>3, ExecuteTyped
  <2>5. /\ pc' = "fill"
        /\ UNCHANGED <<syn, evtSyn, mem, fts, isResend, tries, counts>>
    BY <1>4 DEF InsertRow
  <2>6. TypeOK'
    BY <2>2, <2>4, <2>5 DEF TypeOK, Places, counts
  <2>7. Prepared'
    BY <2>1, <2>2, <2>4, <2>5 DEF Prepared, counts
  <2>8. QED
    BY <2>6, <2>7
<1>5. CASE WriteExits
  <2>1. faults' \in 0 .. MaxFaults
    BY <1>5, BoundsAssumption DEF WriteExits, Fault, TypeOK
  <2>2. QED
    BY <1>5, <2>1, GoneTyped DEF WriteExits, TypeOK
<1>6. CASE FillBlob
  <2> DEFINE c == [view EXCEPT !.rows[BlobRow].blob = mem]
  <2>1. view \in Contents /\ mem \in Images /\ syn \in Numbers
    BY <1>6 DEF FillBlob, At, TypeOK, Prepared
  <2>2. BlobRow \in Nat
    BY <2>1 DEF BlobRow, Contents
  <2>3. c \in Contents /\ c.last = view.last
    BY <2>1, <2>2, FilledTyped
  <2>4. (Execute(c) /\ UNCHANGED faults) \/ (Fault("blob") /\ UNCHANGED db)
    BY <1>6, Zenon DEF FillBlob
  <2> HIDE DEF c
  <2>5. /\ disk' \in {disk, c} /\ view' \in {view, c}
        /\ UNCHANGED <<txn, handle, leaked>>
    BY <2>3, <2>4, ExecuteTyped DEF db
  <2>6. faults' \in 0 .. MaxFaults
    BY <2>4, BoundsAssumption DEF Fault, TypeOK
  <2>7. /\ pc' = "parse" /\ evtSyn' = syn
        /\ UNCHANGED <<syn, mem, fts, isResend, tries, downloads, resends, crashes>>
    BY <1>6 DEF FillBlob
  <2>8. TypeOK'
    BY <2>1, <2>3, <2>5, <2>6, <2>7 DEF TypeOK, Places
  <2>9. Prepared'
    BY <2>1, <2>3, <2>5, <2>7 DEF Prepared
  <2>10. QED
    BY <2>8, <2>9
<1>7. CASE Delivers
  <2>1. syn \in Numbers /\ Append(fts, syn) \in Seq(Numbers)
    BY <1>7 DEF Delivers, At, Prepared, TypeOK
  <2>2. TypeOK'
    BY <1>7, <2>1 DEF Delivers, TypeOK, Places, db, counts
  <2>3. Prepared'
    BY <1>7, <2>1 DEF Delivers, Prepared, db, counts
  <2>4. QED
    BY <2>2, <2>3
<1>8. CASE TransferFails
  <2>1. syn \in Numbers /\ Append(fts, syn) \in Seq(Numbers)
    BY <1>8 DEF TransferFails, At, Prepared, TypeOK
  <2>2. tries' \in 0 .. MaxAttempts /\ pc' \in {"parse", "wait"}
    BY <1>8, BoundsAssumption DEF TransferFails, TypeOK
  <2>3. /\ fts' = Append(fts, syn)
        /\ UNCHANGED <<db, syn, evtSyn, mem, isResend, counts>>
    BY <1>8 DEF TransferFails
  <2>4. TypeOK'
    BY <2>1, <2>2, <2>3 DEF TypeOK, Places, db, counts
  <2>5. Prepared'
    BY <2>1, <2>2, <2>3 DEF Prepared, db, counts
  <2>6. QED
    BY <2>4, <2>5
<1>9. CASE MarkSent
  <2> DEFINE c == [view EXCEPT !.rows = MarkRows(evtSyn)]
  <2>1. view \in Contents
    BY DEF TypeOK
  <2>2. c \in Contents /\ c.last = view.last
    BY <2>1, MarkedTyped
  <2>3. DoSql(c)
    BY <1>9 DEF MarkSent
  <2> HIDE DEF c
  <2>4. /\ disk' \in {disk, c} /\ view' \in {view, disk, c}
        /\ txn' \in BOOLEAN /\ leaked' = leaked
        /\ handle' \in {"open", "closed"}
        /\ faults' \in 0 .. MaxFaults
    BY <2>2, <2>3, DoSqlTyped
  <2>5. /\ pc' \in {"wait", "lines"}
        /\ UNCHANGED <<syn, evtSyn, mem, fts, isResend, tries, downloads, resends, crashes>>
    BY <1>9 DEF MarkSent, AfterMark
  <2>6. TypeOK'
    BY <2>2, <2>4, <2>5 DEF TypeOK, Places
  <2>7. Prepared'
    BY <2>2, <2>4, <2>5 DEF Prepared
  <2>8. QED
    BY <2>6, <2>7
<1>10. CASE EnterLine
  <2> DEFINE c == [view EXCEPT !.lines = Append(@, Head(fts))]
  <2>1. view \in Contents /\ Head(fts) \in Numbers /\ Tail(fts) \in Seq(Numbers)
    BY <1>10 DEF EnterLine, TypeOK
  <2>2. c \in Contents /\ c.last = view.last
    BY <2>1, LineTyped
  <2>3. DoSql(c)
    BY <1>10 DEF EnterLine
  <2> HIDE DEF c
  <2>4. /\ disk' \in {disk, c} /\ view' \in {view, disk, c}
        /\ txn' \in BOOLEAN /\ leaked' = leaked
        /\ handle' \in {"open", "closed"}
        /\ faults' \in 0 .. MaxFaults
    BY <2>2, <2>3, DoSqlTyped
  <2>5. /\ pc = "lines" /\ pc' = pc /\ fts' = Tail(fts)
        /\ UNCHANGED <<syn, evtSyn, mem, isResend, tries, downloads, resends, crashes>>
    BY <1>10 DEF EnterLine, At
  <2>6. TypeOK'
    BY <2>1, <2>2, <2>4, <2>5 DEF TypeOK, Places
  <2>7. Prepared'
    BY <2>2, <2>4, <2>5 DEF Prepared
  <2>8. QED
    BY <2>6, <2>7
<1>11. CASE LinesEntered
  <2>1. TypeOK'
    BY <1>11 DEF LinesEntered, TypeOK, Places, db, counts
  <2>2. Prepared'
    BY <1>11 DEF LinesEntered, Prepared, db, counts
  <2>3. QED
    BY <2>1, <2>2
<1>12. CASE NothingMissing
  <2>1. isResend' \in BOOLEAN
    BY <1>12, Zenon DEF NothingMissing
  <2>2. TypeOK'
    BY <1>12, <2>1 DEF NothingMissing, TypeOK, db, counts
  <2>3. Prepared'
    BY <1>12 DEF NothingMissing, Prepared, db, counts
  <2>4. QED
    BY <2>2, <2>3
<1>13. CASE Resend
  <2>1. PICK n \in Asked :
           /\ RowsOf(n) # {} \/ mem # NONE
           /\ syn' = n
           /\ mem' \in ImageFound(n)
    BY <1>13 DEF Resend
  <2>2. n \in Numbers
    BY <1>n DEF Asked, Numbers
  <2>3. mem' \in Images \union {ZEROS, NONE}
    <3>1. view.rows \in Seq(Rows)
      BY DEF TypeOK, Contents
    <3>2. ASSUME NEW i \in FirstRows(n) PROVE view.rows[i].blob \in Images \union {ZEROS}
      <4>1. view.rows[i] \in Rows
        BY <3>1, <3>2 DEF FirstRows, RowsOf
      <4>2. QED
        BY <4>1 DEF Rows
    <3>3. QED
      BY <2>1, <3>2 DEF ImageFound, TypeOK
  <2>4. isResend' \in BOOLEAN
    BY <1>13, Zenon DEF Resend
  <2>5. resends' \in 0 .. MaxResends /\ tries' \in 0 .. MaxAttempts
    BY <1>13, BoundsAssumption DEF Resend, TypeOK
  <2>6. pc' = "parse" /\ UNCHANGED <<db, evtSyn, fts, downloads, faults, crashes>>
    BY <1>13 DEF Resend
  <2>7. TypeOK'
    BY <2>1, <2>2, <2>3, <2>4, <2>5, <2>6 DEF TypeOK, Places, db
  <2>8. Prepared'
    BY <2>1, <2>2, <2>6 DEF Prepared, db
  <2>9. QED
    BY <2>7, <2>8
<1>14. CASE ResendCrashes
  <2>1. resends' \in 0 .. MaxResends
    BY <1>14, BoundsAssumption DEF ResendCrashes, TypeOK
  <2>2. QED
    BY <1>14, <2>1, GoneTyped DEF ResendCrashes, TypeOK
<1>15. CASE Killed
  <2>1. crashes' \in 0 .. MaxCrashes
    BY <1>15, BoundsAssumption DEF Killed, TypeOK
  <2>2. QED
    BY <1>15, <2>1, GoneTyped DEF Killed, TypeOK
<1>16. CASE UNCHANGED vars
  <2>1. TypeOK'
    BY <1>16 DEF vars, db, counts, TypeOK
  <2>2. Prepared'
    BY <1>16 DEF vars, db, counts, Prepared
  <2>3. QED
    BY <2>1, <2>2
<1>17. QED
  BY <1>1, <1>2, <1>3, <1>4, <1>5, <1>6, <1>7, <1>8, <1>9, <1>10, <1>11,
     <1>12, <1>13, <1>14, <1>15, <1>16 DEF Next

LEMMA TypeInvariant == Spec => []TypeInv
BY TypeInit, TypeNext, PTL DEF Spec

(* Every variable of the database and its callers keeps its type whatever  *)
(* statements fail and wherever simple is killed.                          *)
THEOREM TypeCorrect == Spec => []TypeOK
BY TypeInvariant, PTL DEF TypeInv

-----------------------------------------------------------------------------
(* The statement m_start leaves behind is there as long as simple runs.    *)
Leaks == pc # "off" => handle = "open" /\ leaked

LEMMA LeaksNext == TypeInv /\ Leaks /\ [Next]_vars => Leaks'
<1> SUFFICES ASSUME TypeInv, Leaks, [Next]_vars PROVE Leaks'
  OBVIOUS
<1>1. ASSUME NEW c, DoSql(c), pc # "off" PROVE handle' = "open" /\ leaked'
  <2>1. leaked' = leaked /\ leaked
    BY <1>1, Zenon DEF DoSql, Leaks
  <2>2. handle' = "open"
    BY <1>1, <2>1 DEF DoSql, AfterClose, Leaks
  <2>3. QED
    BY <2>1, <2>2
<1>2. ASSUME NEW c, Execute(c), pc # "off" PROVE handle' = "open" /\ leaked'
  BY <1>2 DEF Execute, Leaks
<1>3. CASE Open
  BY <1>3 DEF Open, Leaks, StatementLeft
<1>4. CASE NewFile
  BY <1>4, <1>1 DEF NewFile, At, Leaks
<1>5. CASE MarkSent
  BY <1>5, <1>1 DEF MarkSent, At, Leaks
<1>6. CASE EnterLine
  BY <1>6, <1>1 DEF EnterLine, At, Leaks
<1>7. CASE InsertRow
  BY <1>7, <1>2 DEF InsertRow, At, Leaks
<1>8. CASE FillBlob
  BY <1>8, <1>2 DEF FillBlob, At, Leaks, db
<1>9. CASE WriteExits \/ ResendCrashes \/ Killed
  BY <1>9 DEF WriteExits, ResendCrashes, Killed, Gone, Leaks
<1>10. CASE GetMax \/ Delivers \/ TransferFails \/ LinesEntered \/ NothingMissing
  BY <1>10 DEF GetMax, Delivers, TransferFails, LinesEntered, NothingMissing,
               At, Leaks, db
<1>11. CASE Resend \/ UNCHANGED vars
  BY <1>11 DEF Resend, At, Leaks, db, vars
<1>12. QED
  BY <1>3, <1>4, <1>5, <1>6, <1>7, <1>8, <1>9, <1>10, <1>11 DEF Next

(* Whatever statements fail, simple never goes on with a closed database.  *)
THEOREM DatabaseStaysOpen == Spec => []StaysOpen
<1>1. Init => Leaks
  BY DEF Init, Leaks
<1>2. Leaks => StaysOpen
  BY DEF Leaks, StaysOpen
<1>3. QED
  BY <1>1, <1>2, LeaksNext, TypeInvariant, PTL DEF Spec

-----------------------------------------------------------------------------
(* Without a fault the connection sees what is on the disk, numbers grow   *)
(* with the rows, and the row being written is the last one.               *)
Kept ==
    /\ view = disk /\ txn = FALSE
    /\ \A i \in DOMAIN disk.rows : disk.rows[i].syn <= disk.last
    /\ \A i, k \in DOMAIN disk.rows : disk.rows[i].syn = disk.rows[k].syn => i = k
    /\ pc \in {"max", "insert"} =>
          disk.last > 0 /\ \A i \in DOMAIN disk.rows : disk.rows[i].syn < disk.last
    /\ pc = "insert" => syn = disk.last
    /\ pc = "fill" => /\ syn \in 1 .. disk.last
                      /\ disk.rows[Len(disk.rows)].syn = syn
                      /\ disk.rows[Len(disk.rows)].blob = ZEROS

(* The lines of a download that is no resend are those of its number,      *)
(* which has a row, and they are entered when it is marked.                *)
Lined ==
    /\ pc \in {"max", "insert", "fill"} => fts = <<>>
    /\ pc \in {"parse", "mark"} /\ ~isResend =>
          /\ evtSyn = syn /\ syn \in 1 .. disk.last
          /\ \E i \in DOMAIN disk.rows : disk.rows[i].syn = syn
          /\ \A i \in DOMAIN fts : fts[i] = syn
    /\ pc = "lines" =>
          /\ evtSyn \in 1 .. disk.last /\ L!Marked(evtSyn)
          /\ \A i \in DOMAIN fts : fts[i] = evtSyn

(* What each call does to the disk.                                        *)

LEMMA NoFault ==
    ASSUME TypeInv, faults' = 0, NEW f
    PROVE  ~Fault(f)
BY BoundsAssumption DEF TypeInv, TypeOK, Fault

LEMMA FaultsStay ==
    ASSUME TypeInv, [Next]_vars, faults' = 0
    PROVE  faults = 0
<1>1. \A f : ~Fault(f)
  BY NoFault
<1>2. ASSUME NEW c, DoSql(c) PROVE faults' = faults
  BY <1>1, <1>2 DEF DoSql
<1>3. CASE NewFile \/ MarkSent \/ EnterLine
  BY <1>2, <1>3 DEF NewFile, MarkSent, EnterLine
<1>4. CASE WriteExits \/ FillBlob
  BY <1>1, <1>4 DEF WriteExits, FillBlob
<1>5. CASE Open \/ GetMax \/ InsertRow \/ Delivers \/ TransferFails
  BY <1>5 DEF Open, GetMax, InsertRow, Delivers, TransferFails, counts
<1>6. CASE LinesEntered \/ NothingMissing \/ Resend \/ ResendCrashes \/ Killed
  BY <1>6 DEF LinesEntered, NothingMissing, Resend, ResendCrashes, Killed, counts
<1>7. CASE UNCHANGED vars
  BY <1>7 DEF vars, counts
<1>8. QED
  BY <1>3, <1>4, <1>5, <1>6, <1>7 DEF Next

LEMMA SureDoSql ==
    ASSUME TypeInv, faults' = 0, NEW c, DoSql(c)
    PROVE  view' = c /\ disk' = c /\ txn' = FALSE
BY NoFault DEF DoSql

LEMMA SureExecute ==
    ASSUME txn = FALSE, NEW c, Execute(c)
    PROVE  view' = c /\ disk' = c /\ txn' = FALSE
BY DEF Execute

LEMMA NewFileEffect ==
    ASSUME faults' = 0, TypeInv, Kept, NewFile
    PROVE  /\ view' = disk' /\ txn' = FALSE
           /\ disk'.last = disk.last + 1
           /\ disk'.rows = disk.rows /\ disk'.lines = disk.lines
<1> DEFINE c == [view EXCEPT !.last = @ + 1]
<1>1. c.last = view.last + 1 /\ c.rows = view.rows /\ c.lines = view.lines
  BY DEF TypeInv, TypeOK, Contents
<1>2. DoSql(c)
  BY DEF NewFile
<1> HIDE DEF c
<1>3. view' = c /\ disk' = c /\ txn' = FALSE
  BY <1>2, SureDoSql
<1>4. QED
  BY <1>1, <1>3 DEF Kept

LEMMA InsertRowEffect ==
    ASSUME TypeInv, Kept, InsertRow
    PROVE  /\ view' = disk' /\ txn' = FALSE
           /\ disk'.rows = Append(disk.rows, L!Row(syn, ZEROS, FALSE))
           /\ disk'.last = disk.last /\ disk'.lines = disk.lines
<1> DEFINE r == L!Row(syn, ZEROS, FALSE)
<1> DEFINE c == [view EXCEPT !.rows = Append(@, r)]
<1>1. Execute(c)
  BY DEF InsertRow
<1> HIDE DEF r
<1>2. c.last = view.last /\ c.rows = Append(view.rows, r) /\ c.lines = view.lines
  BY DEF TypeInv, TypeOK, Contents
<1> HIDE DEF c
<1>3. view' = c /\ disk' = c /\ txn' = FALSE
  BY <1>1, SureExecute DEF Kept
<1>4. QED
  BY <1>2, <1>3 DEF Kept, r

LEMMA FillBlobEffect ==
    ASSUME faults' = 0, TypeInv, Kept, FillBlob
    PROVE  /\ view' = disk' /\ txn' = FALSE
           /\ disk'.rows = [disk.rows EXCEPT ![Len(disk.rows)].blob = mem]
           /\ disk'.last = disk.last /\ disk'.lines = disk.lines
<1> DEFINE c == [view EXCEPT !.rows[BlobRow].blob = mem]
<1>1. Execute(c)
  BY NoFault DEF FillBlob
<1>2. /\ c.last = view.last /\ c.lines = view.lines
      /\ c.rows = [view.rows EXCEPT ![BlobRow].blob = mem]
  BY DEF TypeInv, TypeOK, Contents
<1> HIDE DEF c
<1>3. view' = c /\ disk' = c /\ txn' = FALSE
  BY <1>1, SureExecute DEF Kept
<1>4. QED
  BY <1>2, <1>3 DEF Kept, BlobRow

LEMMA MarkSentEffect ==
    ASSUME faults' = 0, TypeInv, Kept, MarkSent
    PROVE  /\ view' = disk' /\ txn' = FALSE
           /\ disk'.rows = MarkRows(evtSyn)
           /\ disk'.last = disk.last /\ disk'.lines = disk.lines
<1> DEFINE c == [view EXCEPT !.rows = MarkRows(evtSyn)]
<1>1. DoSql(c)
  BY DEF MarkSent
<1>2. c.last = view.last /\ c.rows = MarkRows(evtSyn) /\ c.lines = view.lines
  BY DEF TypeInv, TypeOK, Contents
<1> HIDE DEF c
<1>3. view' = c /\ disk' = c /\ txn' = FALSE
  BY <1>1, SureDoSql
<1>4. QED
  BY <1>2, <1>3 DEF Kept

LEMMA EnterLineEffect ==
    ASSUME faults' = 0, TypeInv, Kept, EnterLine
    PROVE  /\ view' = disk' /\ txn' = FALSE
           /\ disk'.lines = Append(disk.lines, Head(fts))
           /\ disk'.last = disk.last /\ disk'.rows = disk.rows
<1> DEFINE c == [view EXCEPT !.lines = Append(@, Head(fts))]
<1>1. DoSql(c)
  BY DEF EnterLine
<1>2. /\ c.last = view.last /\ c.rows = view.rows
      /\ c.lines = Append(view.lines, Head(fts))
  BY DEF TypeInv, TypeOK, Contents
<1> HIDE DEF c
<1>3. view' = c /\ disk' = c /\ txn' = FALSE
  BY <1>1, SureDoSql
<1>4. QED
  BY <1>2, <1>3 DEF Kept

(* The steps that leave the disk alone.                                    *)
Aside ==
    \/ Open \/ GetMax \/ Delivers \/ TransferFails \/ LinesEntered
    \/ NothingMissing \/ Resend \/ ResendCrashes \/ Killed \/ UNCHANGED vars

LEMMA AsideEffect ==
    ASSUME Kept, Aside
    PROVE  view' = disk' /\ txn' = FALSE /\ disk' = disk
BY DEF Aside, Open, GetMax, Delivers, TransferFails, LinesEntered,
       NothingMissing, Resend, ResendCrashes, Killed, Gone, Kept, db, vars

LEMMA StepKinds ==
    ASSUME TypeInv, faults' = 0, [Next]_vars
    PROVE  NewFile \/ InsertRow \/ FillBlob \/ MarkSent \/ EnterLine \/ Aside
BY NoFault DEF Next, WriteExits, Aside

(* The rows of the file as a marking or a filling leaves them.             *)
LEMMA RowsKept ==
    ASSUME TypeInv, Kept
    PROVE  /\ disk.rows \in Seq(Rows) /\ DOMAIN disk.rows = 1 .. Len(disk.rows)
           /\ disk.last \in Nat /\ Len(disk.rows) \in Nat
           /\ \A i \in DOMAIN disk.rows : /\ disk.rows[i] \in Rows
                                          /\ disk.rows[i].syn \in Nat
<1>1. disk.rows \in Seq(Rows) /\ disk.last \in Nat
  BY BoundsAssumption DEF TypeInv, TypeOK, Contents, Numbers
<1>2. DOMAIN disk.rows = 1 .. Len(disk.rows) /\ Len(disk.rows) \in Nat
  BY <1>1, LenProperties
<1>3. \A i \in DOMAIN disk.rows : disk.rows[i] \in Rows
  BY <1>1, <1>2
<1>4. \A r \in Rows : r.syn \in Nat
  BY BoundsAssumption DEF Rows, Numbers
<1>5. QED
  BY <1>1, <1>2, <1>3, <1>4

LEMMA MarkedRows ==
    ASSUME TypeInv, Kept, NEW n
    PROVE  /\ DOMAIN MarkRows(n) = DOMAIN disk.rows
           /\ \A i \in DOMAIN disk.rows :
                /\ MarkRows(n)[i].syn = disk.rows[i].syn
                /\ MarkRows(n)[i].blob = disk.rows[i].blob
                /\ disk.rows[i].syn = n => MarkRows(n)[i].tok
<1>1. view = disk
  BY DEF Kept
<1>2. DOMAIN MarkRows(n) = DOMAIN disk.rows
  BY <1>1 DEF MarkRows
<1>3. ASSUME NEW r \in Rows
      PROVE  /\ MarkRow(n, r).syn = r.syn /\ MarkRow(n, r).blob = r.blob
             /\ r.syn = n => MarkRow(n, r).tok
  BY DEF MarkRow, Rows
<1>4. \A i \in DOMAIN disk.rows : MarkRows(n)[i] = MarkRow(n, disk.rows[i])
  BY <1>1 DEF MarkRows
<1>5. QED
  BY <1>2, <1>3, <1>4, RowsKept

LEMMA FilledRows ==
    ASSUME TypeInv, Kept, NEW i \in DOMAIN disk.rows, NEW b
    PROVE  LET q == [disk.rows EXCEPT ![i].blob = b]
           IN  /\ DOMAIN q = DOMAIN disk.rows
               /\ q[i].blob = b
               /\ \A k \in DOMAIN disk.rows :
                    /\ q[k].syn = disk.rows[k].syn
                    /\ k # i => q[k] = disk.rows[k]
<1>1. ASSUME NEW r \in Rows PROVE [r EXCEPT !.blob = b].syn = r.syn /\ [r EXCEPT !.blob = b].blob = b
  BY DEF Rows
<1>2. QED
  BY <1>1, RowsKept

LEMMA KeptInit == Init => Kept
BY DEF Init, Kept, Empty

LEMMA KeptNext ==
    faults' = 0 /\ TypeInv /\ Kept /\ [Next]_vars => Kept'
<1> SUFFICES ASSUME faults' = 0, TypeInv, Kept, [Next]_vars PROVE Kept'
  OBVIOUS
<1>r. /\ disk.rows \in Seq(Rows) /\ DOMAIN disk.rows = 1 .. Len(disk.rows)
      /\ disk.last \in Nat /\ Len(disk.rows) \in Nat
      /\ \A i \in DOMAIN disk.rows : disk.rows[i].syn \in Nat
  BY RowsKept
<1>1. CASE NewFile
  <2>1. pc' = "max"
    BY <1>1 DEF NewFile
  <2>2. /\ view' = disk' /\ txn' = FALSE
        /\ disk'.last = disk.last + 1 /\ disk'.rows = disk.rows
    BY <1>1, NewFileEffect
  <2>3. \A i \in DOMAIN disk.rows : disk.rows[i].syn < disk.last + 1
    BY <1>r DEF Kept
  <2>4. \A i \in DOMAIN disk.rows : disk.rows[i].syn <= disk.last + 1
    BY <1>r DEF Kept
  <2>5. /\ disk'.last > 0
        /\ \A i \in DOMAIN disk'.rows : disk'.rows[i].syn < disk'.last
        /\ \A i \in DOMAIN disk'.rows : disk'.rows[i].syn <= disk'.last
    BY <1>r, <2>2, <2>3, <2>4
  <2>6. \A i, k \in DOMAIN disk'.rows :
          disk'.rows[i].syn = disk'.rows[k].syn => i = k
    BY <2>2 DEF Kept
  <2>7. QED
    BY <2>1, <2>2, <2>5, <2>6 DEF Kept
<1>2. CASE InsertRow
  <2> DEFINE r == L!Row(syn, ZEROS, FALSE)
  <2>1. r \in Rows /\ r.syn = syn /\ r.blob = ZEROS
    <3>1. syn \in Numbers
      BY <1>2 DEF InsertRow, At, TypeInv, Prepared
    <3>2. QED
      BY <3>1 DEF L!Row, Rows
  <2>2. disk'.rows = Append(disk.rows, r)
    BY <1>2, InsertRowEffect
  <2> HIDE DEF r
  <2>3. /\ Len(disk'.rows) = Len(disk.rows) + 1
        /\ disk'.rows[Len(disk.rows) + 1] = r
        /\ \A i \in 1 .. Len(disk.rows) : disk'.rows[i] = disk.rows[i]
        /\ DOMAIN disk'.rows = 1 .. Len(disk.rows) + 1
    BY <1>r, <2>1, <2>2, AppendRow
  <2>4. /\ pc = "insert" /\ syn = disk.last /\ disk.last > 0
        /\ \A i \in DOMAIN disk.rows : disk.rows[i].syn < disk.last
    BY <1>2 DEF InsertRow, At, Kept
  <2>5. pc' = "fill" /\ syn' = syn
    BY <1>2 DEF InsertRow
  <2>6. disk'.last = disk.last /\ view' = disk' /\ txn' = FALSE
    BY <1>2, InsertRowEffect
  <2>7. ASSUME NEW i \in DOMAIN disk'.rows PROVE disk'.rows[i].syn <= disk'.last
    <3>1. CASE i \in 1 .. Len(disk.rows)
      <4>1. disk'.rows[i] = disk.rows[i] /\ disk.rows[i].syn < disk.last
        BY <1>r, <2>3, <2>4, <3>1
      <4>2. disk.rows[i].syn \in Nat
        BY <1>r, <3>1
      <4>3. QED
        BY <1>r, <2>6, <4>1, <4>2
    <3>2. CASE i = Len(disk.rows) + 1
      BY <1>r, <2>1, <2>3, <2>4, <2>6, <3>2
    <3>3. QED
      BY <1>r, <2>3, <2>7, <3>1, <3>2
  <2>8. ASSUME NEW i \in DOMAIN disk'.rows, NEW k \in DOMAIN disk'.rows,
               disk'.rows[i].syn = disk'.rows[k].syn
        PROVE  i = k
    <3>1. \A j \in 1 .. Len(disk.rows) : disk'.rows[j].syn < disk.last
      BY <1>r, <2>3, <2>4
    <3>2. disk'.rows[Len(disk.rows) + 1].syn = disk.last
      BY <2>1, <2>3, <2>4
    <3>3. CASE i \in 1 .. Len(disk.rows) /\ k \in 1 .. Len(disk.rows)
      BY <1>r, <2>3, <2>8, <3>3 DEF Kept
    <3>4. CASE i = Len(disk.rows) + 1 \/ k = Len(disk.rows) + 1
      <4>1. \A j \in 1 .. Len(disk.rows) : disk'.rows[j].syn \in Nat
        BY <1>r, <2>3
      <4>2. QED
        BY <1>r, <2>3, <2>8, <3>1, <3>2, <3>4, <4>1
    <3>5. QED
      BY <1>r, <2>3, <3>3, <3>4
  <2>9. QED
    BY <1>r, <2>1, <2>3, <2>4, <2>5, <2>6, <2>7, <2>8 DEF Kept
<1>3. CASE FillBlob
  <2>1. pc' = "parse"
    BY <1>3 DEF FillBlob
  <2>2. Len(disk.rows) \in DOMAIN disk.rows
    <3>1. disk.rows # <<>>
      BY <1>3 DEF FillBlob, At, TypeInv, Prepared, Kept
    <3>2. QED
      BY <1>r, <3>1, EmptySeq
  <2>3. /\ disk'.rows = [disk.rows EXCEPT ![Len(disk.rows)].blob = mem]
        /\ disk'.last = disk.last /\ view' = disk' /\ txn' = FALSE
    BY <1>3, FillBlobEffect
  <2>4. /\ DOMAIN disk'.rows = DOMAIN disk.rows
        /\ \A k \in DOMAIN disk.rows : disk'.rows[k].syn = disk.rows[k].syn
    BY <2>2, <2>3, FilledRows
  <2>5. QED
    BY <2>1, <2>3, <2>4 DEF Kept
<1>4. CASE MarkSent
  <2>1. pc' \in {"wait", "lines"}
    BY <1>4 DEF MarkSent, AfterMark
  <2>2. /\ disk'.rows = MarkRows(evtSyn)
        /\ disk'.last = disk.last /\ view' = disk' /\ txn' = FALSE
    BY <1>4, MarkSentEffect
  <2>3. /\ DOMAIN disk'.rows = DOMAIN disk.rows
        /\ \A k \in DOMAIN disk.rows : disk'.rows[k].syn = disk.rows[k].syn
    BY <2>2, MarkedRows
  <2>4. QED
    BY <2>1, <2>2, <2>3 DEF Kept
<1>5. CASE EnterLine
  <2>1. pc' = "lines"
    BY <1>5 DEF EnterLine, At
  <2>2. QED
    BY <1>5, <2>1, EnterLineEffect DEF Kept
<1>6. CASE Aside
  <2>1. view' = disk' /\ txn' = FALSE /\ disk' = disk
    BY <1>6, AsideEffect
  <2>2. CASE GetMax
    <3>1. pc = "max" /\ pc' = "insert" /\ syn' = disk.last
      BY <2>2 DEF GetMax, At, MaxOf, Kept
    <3>2. QED
      BY <2>1, <3>1 DEF Kept
  <2>3. CASE UNCHANGED vars
    BY <2>1, <2>3 DEF vars, Kept
  <2>4. CASE ~GetMax /\ ~UNCHANGED vars
    <3>1. pc' \in {"off", "wait", "parse", "mark"} \/ (pc' = pc /\ syn' = syn)
      BY <1>6, <2>4 DEF Aside, Open, Delivers, TransferFails, LinesEntered,
         NothingMissing, Resend, ResendCrashes, Killed, Gone
    <3>2. QED
      BY <2>1, <3>1 DEF Kept
  <2>5. QED
    BY <2>2, <2>3, <2>4
<1>7. QED
  BY <1>1, <1>2, <1>3, <1>4, <1>5, <1>6, StepKinds

LEMMA LinedInit == Init => Lined
BY DEF Init, Lined

(* The database and the main loop go on from where they were.              *)
LEMMA LinedNext ==
    faults' = 0 /\ TypeInv /\ Kept /\ Lined /\ [Next]_vars => Lined'
<1> SUFFICES ASSUME faults' = 0, TypeInv, Kept, Lined, [Next]_vars
             PROVE  Lined'
  OBVIOUS
<1>r. /\ disk.rows \in Seq(Rows) /\ DOMAIN disk.rows = 1 .. Len(disk.rows)
      /\ disk.last \in Nat /\ Len(disk.rows) \in Nat
  BY RowsKept
<1>f. fts \in Seq(Numbers) /\ DOMAIN fts = 1 .. Len(fts) /\ Len(fts) \in Nat
  BY LenProperties DEF TypeInv, TypeOK
<1>1. CASE NewFile
  BY <1>1 DEF NewFile, Lined
<1>2. CASE InsertRow
  BY <1>2 DEF InsertRow, At, Lined
<1>3. CASE FillBlob
  <2>1. /\ pc = "fill" /\ pc' = "parse" /\ evtSyn' = syn /\ syn' = syn
        /\ fts' = fts /\ fts = <<>>
    BY <1>3 DEF FillBlob, At, Lined
  <2>2. Len(disk.rows) \in DOMAIN disk.rows
    <3>1. disk.rows # <<>>
      BY <1>3 DEF FillBlob, At, TypeInv, Prepared, Kept
    <3>2. QED
      BY <1>r, <3>1, EmptySeq
  <2>3. /\ disk'.rows = [disk.rows EXCEPT ![Len(disk.rows)].blob = mem]
        /\ disk'.last = disk.last
    BY <1>3, FillBlobEffect
  <2>4. /\ DOMAIN disk'.rows = DOMAIN disk.rows
        /\ \A k \in DOMAIN disk.rows : disk'.rows[k].syn = disk.rows[k].syn
    BY <2>2, <2>3, FilledRows
  <2>5. disk'.rows[Len(disk.rows)].syn = syn /\ syn \in 1 .. disk.last
    BY <2>1, <2>2, <2>4 DEF Kept
  <2>6. DOMAIN fts = {}
    BY <2>1
  <2>7. QED
    BY <2>1, <2>2, <2>3, <2>4, <2>5, <2>6 DEF Lined
<1>4. CASE MarkSent
  <2>1. /\ pc = "mark" /\ pc' = AfterMark
        /\ UNCHANGED <<syn, evtSyn, fts, isResend>>
    BY <1>4 DEF MarkSent, At
  <2>2. CASE isResend
    BY <2>1, <2>2 DEF AfterMark, Lined
  <2>3. CASE ~isResend
    <3>1. /\ evtSyn = syn /\ syn \in 1 .. disk.last
          /\ \E i \in DOMAIN disk.rows : disk.rows[i].syn = syn
          /\ \A i \in DOMAIN fts : fts[i] = syn
      BY <2>1, <2>3 DEF Lined
    <3>2. disk'.rows = MarkRows(evtSyn) /\ disk'.last = disk.last
      BY <1>4, MarkSentEffect
    <3>3. L!Marked(evtSyn)'
      BY <2>1, <3>1, <3>2, MarkedRows DEF L!Marked
    <3>4. QED
      BY <2>1, <2>3, <3>1, <3>2, <3>3 DEF AfterMark, Lined
  <2>4. QED
    BY <2>2, <2>3
<1>5. CASE EnterLine
  <2>1. /\ pc = "lines" /\ pc' = "lines" /\ fts # <<>> /\ fts' = Tail(fts)
        /\ evtSyn' = evtSyn
    BY <1>5 DEF EnterLine, At
  <2>2. disk'.rows = disk.rows /\ disk'.last = disk.last
    BY <1>5, EnterLineEffect
  <2>3. \A i \in DOMAIN fts' : fts'[i] = evtSyn
    <3>1. \A i \in DOMAIN fts : fts[i] = evtSyn
      BY <2>1 DEF Lined
    <3>2. \A i \in 1 .. Len(Tail(fts)) : /\ Tail(fts)[i] = fts[i + 1]
                                         /\ i + 1 \in 1 .. Len(fts)
      BY <1>f, <2>1, HeadTailProperties
    <3>3. DOMAIN Tail(fts) = 1 .. Len(Tail(fts))
      BY <1>f, <2>1, HeadTailProperties, LenProperties
    <3>4. QED
      BY <1>f, <2>1, <3>1, <3>2, <3>3
  <2>4. L!Marked(evtSyn)'
    BY <2>1, <2>2 DEF Lined, L!Marked
  <2>5. QED
    BY <2>1, <2>2, <2>3, <2>4 DEF Lined
<1>6. CASE Delivers \/ TransferFails
  <2>1. /\ disk' = disk /\ pc = "parse" /\ pc' \in {"mark", "parse", "wait"}
        /\ fts' = Append(fts, syn) /\ UNCHANGED <<syn, evtSyn, isResend>>
    BY <1>6 DEF Delivers, TransferFails, At, db
  <2>2. ASSUME ~isResend PROVE \A i \in DOMAIN fts' : fts'[i] = syn
    <3>1. syn \in Numbers /\ \A i \in DOMAIN fts : fts[i] = syn
      BY <2>1, <2>2 DEF TypeInv, Prepared, Lined
    <3>2. /\ Append(fts, syn) \in Seq(Numbers)
          /\ Len(Append(fts, syn)) = Len(fts) + 1
          /\ \A i \in 1 .. Len(fts) : Append(fts, syn)[i] = fts[i]
          /\ Append(fts, syn)[Len(fts) + 1] = syn
      BY <1>f, <3>1, AppendProperties
    <3>3. DOMAIN Append(fts, syn) = 1 .. Len(fts) + 1
      BY <3>2, LenProperties
    <3>4. QED
      BY <1>f, <2>1, <3>1, <3>2, <3>3
  <2>3. QED
    BY <2>1, <2>2 DEF Lined
<1>7. CASE GetMax \/ LinesEntered \/ NothingMissing
  BY <1>7 DEF GetMax, LinesEntered, NothingMissing, At, Lined
<1>8. CASE Open \/ Resend \/ ResendCrashes \/ Killed
  BY <1>8 DEF Open, Resend, ResendCrashes, Killed, Gone, Lined
<1>9. CASE UNCHANGED vars
  BY <1>9 DEF vars, db, Lined, L!Marked
<1>10. QED
  BY <1>1, <1>2, <1>3, <1>4, <1>5, <1>6, <1>7, <1>8, <1>9, StepKinds DEF Aside

-----------------------------------------------------------------------------
LEMMA LedgerInit == Init => L!Init
BY DEF Init, Empty, L!Init

LEMMA LedgerNext ==
    ASSUME faults' = 0, TypeInv, Kept, Lined, [Next]_vars
    PROVE  [L!Next]_(L!vars)
<1>r. /\ disk.rows \in Seq(Rows) /\ DOMAIN disk.rows = 1 .. Len(disk.rows)
      /\ disk.last \in Nat /\ Len(disk.rows) \in Nat
  BY RowsKept
<1>1. CASE NewFile
  <2>1. L!Number
    BY <1>1, NewFileEffect DEF L!Number
  <2>2. QED
    BY <2>1 DEF L!Next
<1>2. CASE InsertRow
  <2>1. /\ syn = disk.last /\ disk.last > 0
        /\ \A i \in DOMAIN disk.rows : disk.rows[i].syn < disk.last
    BY <1>2 DEF InsertRow, At, Kept
  <2>2. L!AddRow
    BY <1>2, <2>1, InsertRowEffect DEF L!AddRow
  <2>3. QED
    BY <2>2 DEF L!Next
<1>3. CASE FillBlob
  <2>1. pc = "fill" /\ disk.rows # <<>> /\ mem \in Images
    BY <1>3 DEF FillBlob, At, TypeInv, Prepared, Kept
  <2>2. Len(disk.rows) \in DOMAIN disk.rows
    BY <1>r, <2>1, EmptySeq
  <2>3. disk.rows[Len(disk.rows)].blob = ZEROS
    BY <2>1 DEF Kept
  <2>4. L!Fill
    BY <1>3, <2>1, <2>2, <2>3, FillBlobEffect DEF L!Fill
  <2>5. QED
    BY <2>4 DEF L!Next
<1>4. CASE MarkSent
  <2>1. /\ disk'.rows = MarkRows(evtSyn)
        /\ disk'.last = disk.last /\ disk'.lines = disk.lines
    BY <1>4, MarkSentEffect
  <2>2. view = disk
    BY DEF Kept
  <2>3. CASE \E i \in DOMAIN disk.rows : disk.rows[i].syn = evtSyn
    <3>1. PICK i \in DOMAIN disk.rows : disk.rows[i].syn = evtSyn
      BY <2>3
    <3>2. \A k \in DOMAIN disk.rows : disk.rows[k].syn = evtSyn => k = i
      BY <3>1 DEF Kept
    <3>3. MarkRows(evtSyn) = [disk.rows EXCEPT ![i].tok = TRUE]
      BY <1>r, <2>2, <3>1, <3>2 DEF MarkRows, MarkRow
    <3>4. L!Mark
      BY <2>1, <3>3 DEF L!Mark
    <3>5. QED
      BY <3>4 DEF L!Next
  <2>4. CASE \A i \in DOMAIN disk.rows : disk.rows[i].syn # evtSyn
    <3>1. MarkRows(evtSyn) = disk.rows
      BY <1>r, <2>2, <2>4 DEF MarkRows, MarkRow
    <3>2. QED
      BY <2>1, <3>1 DEF L!vars
  <2>5. QED
    BY <2>3, <2>4
<1>5. CASE EnterLine
  <2>1. pc = "lines" /\ fts # <<>>
    BY <1>5 DEF EnterLine, At
  <2>2. 1 \in DOMAIN fts /\ Head(fts) = fts[1]
    BY <2>1, EmptySeq, LenProperties DEF TypeInv, TypeOK
  <2>3. Head(fts) = evtSyn /\ evtSyn \in 1 .. disk.last /\ L!Marked(evtSyn)
    BY <2>1, <2>2 DEF Lined
  <2>4. L!AddLine
    BY <1>5, <2>3, EnterLineEffect DEF L!AddLine
  <2>5. QED
    BY <2>4 DEF L!Next
<1>6. CASE Aside
  BY <1>6, AsideEffect DEF L!vars
<1>7. QED
  BY <1>1, <1>2, <1>3, <1>4, <1>5, <1>6, StepKinds

(* Until a statement fails every step of simple is a step of the ledger or *)
(* none, for every set of images, any number of downloads, resends and     *)
(* kills, and whatever numbers the server asks for.                        *)
KeptSoFar == faults = 0 => Kept /\ Lined

LEMMA KeptSoFarNext == TypeInv /\ KeptSoFar /\ [Next]_vars => KeptSoFar'
<1> SUFFICES ASSUME TypeInv, KeptSoFar, [Next]_vars, faults' = 0
             PROVE  Kept' /\ Lined'
  BY DEF KeptSoFar
<1>1. Kept /\ Lined
  BY FaultsStay DEF KeptSoFar
<1>2. QED
  BY <1>1, KeptNext, LinedNext

THEOREM LedgerKept == Spec => KeepsLedger
<1>1. Init => KeptSoFar
  BY KeptInit, LinedInit DEF KeptSoFar
<1>2. TypeInv /\ KeptSoFar /\ [Next]_vars => [faults' = 0 => L!Next]_(L!vars)
  <2> SUFFICES ASSUME TypeInv, KeptSoFar, [Next]_vars, faults' = 0
               PROVE  [L!Next]_(L!vars)
    OBVIOUS
  <2>1. Kept /\ Lined
    BY FaultsStay DEF KeptSoFar
  <2>2. QED
    BY <2>1, LedgerNext
<1>3. QED
  BY <1>1, <1>2, KeptSoFarNext, LedgerInit, TypeInvariant, PTL
     DEF Spec, KeepsLedger

-----------------------------------------------------------------------------
(* What is about to be sent is in a row of its number, or its number has   *)
(* no row, and will never have one.                                        *)
NoRow(n) == AsksGaps /\ \A i \in DOMAIN disk.rows : disk.rows[i].syn # n

Sendable ==
    /\ \A s \in server : s[1] \in Int /\ s[1] <= disk.last
    /\ pc \in {"max", "insert"} => \A s \in server : s[1] < disk.last
    /\ pc = "fill" => \A s \in server : s[1] # syn
    /\ pc \in {"parse", "mark"} =>
          /\ syn \in 1 .. disk.last
          /\ \/ \E i \in DOMAIN disk.rows :
                   disk.rows[i].syn = syn /\ disk.rows[i].blob = mem
             \/ NoRow(syn)

SentStored ==
    \A s \in server :
        \/ \E i \in DOMAIN disk.rows :
              disk.rows[i].syn = s[1] /\ disk.rows[i].blob = s[2]
        \/ NoRow(s[1])

SentInv == Sendable /\ SentStored

(* With the rows and the names in memory unchanged, or changed as a        *)
(* marking or a filling does it, what was sent is still in a row.          *)
LEMMA SentStays ==
    ASSUME SentStored, server' = server,
           DOMAIN disk.rows = DOMAIN disk'.rows,
           \A i \in DOMAIN disk.rows : /\ disk'.rows[i].syn = disk.rows[i].syn
                                       /\ disk'.rows[i].blob = disk.rows[i].blob
    PROVE  SentStored'
BY DEF SentStored, NoRow

LEMMA SentInvNext ==
    faults' = 0 /\ TypeInv /\ Kept /\ SentInv /\ [Next]_vars => SentInv'
<1> SUFFICES ASSUME faults' = 0, TypeInv, Kept, SentInv, [Next]_vars
             PROVE  SentInv'
  OBVIOUS
<1> USE DEF SentInv
<1>r. /\ disk.rows \in Seq(Rows) /\ DOMAIN disk.rows = 1 .. Len(disk.rows)
      /\ disk.last \in Nat /\ Len(disk.rows) \in Nat
  BY RowsKept
<1>1. CASE NewFile
  <2>1. pc' = "max" /\ server' = server
    BY <1>1 DEF NewFile
  <2>2. disk'.last = disk.last + 1 /\ disk'.rows = disk.rows
    BY <1>1, NewFileEffect
  <2>3. \A s \in server : s[1] \in Int /\ s[1] <= disk.last + 1 /\ s[1] < disk.last + 1
    BY <1>r DEF Sendable
  <2>4. Sendable'
    BY <2>1, <2>2, <2>3 DEF Sendable
  <2>5. QED
    BY <2>1, <2>2, <2>4, SentStays
<1>2. CASE InsertRow
  <2>1. /\ pc = "insert" /\ pc' = "fill" /\ syn' = syn /\ server' = server
        /\ syn \in Numbers
    BY <1>2 DEF InsertRow, At, TypeInv, Prepared
  <2> DEFINE r == L!Row(syn, ZEROS, FALSE)
  <2>2. r \in Rows
    BY <2>1 DEF L!Row, Rows
  <2>3. disk'.rows = Append(disk.rows, r) /\ disk'.last = disk.last
    BY <1>2, InsertRowEffect
  <2> HIDE DEF r
  <2>4. /\ \A i \in DOMAIN disk.rows : disk'.rows[i] = disk.rows[i]
        /\ DOMAIN disk'.rows = 1 .. Len(disk.rows) + 1
        /\ disk'.rows[Len(disk.rows) + 1] = r
    BY <1>r, <2>2, <2>3, AppendRow, LenProperties
  <2>5. r.syn = syn
    BY DEF r, L!Row
  <2>7. \A s \in server : s[1] # syn
    BY <1>r, <2>1 DEF Sendable, Kept
  <2>6. ASSUME NEW s \in server
        PROVE  \/ \E i \in DOMAIN disk'.rows :
                     disk'.rows[i].syn = s[1] /\ disk'.rows[i].blob = s[2]
               \/ NoRow(s[1])'
    <3>1. CASE \E i \in DOMAIN disk.rows :
                 disk.rows[i].syn = s[1] /\ disk.rows[i].blob = s[2]
      BY <1>r, <2>4, <3>1
    <3>2. CASE NoRow(s[1])
      BY <1>r, <2>4, <2>5, <2>7, <3>2 DEF NoRow
    <3>3. QED
      BY <3>1, <3>2 DEF SentStored
  <2>8. Sendable'
    BY <2>1, <2>3, <2>7 DEF Sendable
  <2>9. QED
    BY <2>1, <2>6, <2>8 DEF SentStored
<1>3. CASE FillBlob
  <2>1. /\ pc = "fill" /\ pc' = "parse" /\ syn' = syn /\ mem' = mem
        /\ server' = server
    BY <1>3 DEF FillBlob, At
  <2>2. disk.rows # <<>>
    BY <2>1 DEF TypeInv, Prepared, Kept
  <2> DEFINE n == Len(disk.rows)
  <2>3. n \in DOMAIN disk.rows
    BY <1>r, <2>2, EmptySeq
  <2>4. disk'.rows = [disk.rows EXCEPT ![n].blob = mem] /\ disk'.last = disk.last
    BY <1>3, FillBlobEffect
  <2> HIDE DEF n
  <2>5. /\ DOMAIN disk'.rows = DOMAIN disk.rows
        /\ disk'.rows[n].blob = mem
        /\ \A k \in DOMAIN disk.rows : /\ disk'.rows[k].syn = disk.rows[k].syn
                                       /\ k # n => disk'.rows[k] = disk.rows[k]
    BY <2>3, <2>4, FilledRows
  <2>6. disk.rows[n].syn = syn
    BY <2>1 DEF Kept, n
  <2>7. ASSUME NEW s \in server
        PROVE  \/ \E i \in DOMAIN disk'.rows :
                     disk'.rows[i].syn = s[1] /\ disk'.rows[i].blob = s[2]
               \/ NoRow(s[1])'
    <3>1. CASE NoRow(s[1])
      BY <2>5, <3>1 DEF NoRow
    <3>2. CASE ~NoRow(s[1])
      <4>1. PICK i \in DOMAIN disk.rows :
               disk.rows[i].syn = s[1] /\ disk.rows[i].blob = s[2]
        BY <3>2 DEF SentStored
      <4>2. i # n
        BY <2>1, <2>6, <4>1 DEF Sendable
      <4>3. QED
        BY <2>5, <4>1, <4>2
    <3>3. QED
      BY <3>1, <3>2
  <2>8. SentStored'
    BY <2>1, <2>7 DEF SentStored
  <2>9. Sendable'
    <3>1. syn \in 1 .. disk.last
      BY <2>1 DEF Kept
    <3>2. QED
      BY <2>1, <2>3, <2>4, <2>5, <2>6, <3>1 DEF Sendable
  <2>10. QED
    BY <2>8, <2>9
<1>4. CASE MarkSent
  <2>1. pc' \in {"wait", "lines"} /\ server' = server
    BY <1>4 DEF MarkSent, AfterMark
  <2>2. disk'.rows = MarkRows(evtSyn) /\ disk'.last = disk.last
    BY <1>4, MarkSentEffect
  <2>3. /\ DOMAIN disk'.rows = DOMAIN disk.rows
        /\ \A i \in DOMAIN disk.rows : /\ disk'.rows[i].syn = disk.rows[i].syn
                                       /\ disk'.rows[i].blob = disk.rows[i].blob
    BY <2>2, MarkedRows
  <2>4. SentStored'
    BY <2>1, <2>3, SentStays
  <2>5. Sendable'
    BY <2>1, <2>2 DEF Sendable
  <2>6. QED
    BY <2>4, <2>5
<1>5. CASE EnterLine
  <2>1. pc' = "lines" /\ server' = server
    BY <1>5 DEF EnterLine, At
  <2>2. disk'.rows = disk.rows /\ disk'.last = disk.last
    BY <1>5, EnterLineEffect
  <2>3. QED
    BY <2>1, <2>2, SentStays DEF Sendable
<1>6. CASE Delivers \/ TransferFails
  <2>1. /\ pc = "parse" /\ pc' \in {"mark", "parse", "wait"}
        /\ server' \in {server, server \union {<<syn, mem>>}}
        /\ disk' = disk /\ UNCHANGED <<syn, mem>>
    BY <1>6 DEF Delivers, TransferFails, At, db
  <2>2. \/ \E i \in DOMAIN disk.rows : disk.rows[i].syn = syn /\ disk.rows[i].blob = mem
        \/ NoRow(syn)
    BY <2>1 DEF Sendable
  <2>3. syn \in 1 .. disk.last
    BY <2>1 DEF Sendable
  <2>4. Sendable'
    BY <1>r, <2>1, <2>2, <2>3 DEF Sendable, NoRow
  <2>5. SentStored'
    BY <2>1, <2>2 DEF SentStored, NoRow
  <2>6. QED
    BY <2>4, <2>5
<1>7. CASE Resend
  <2>1. PICK n \in Asked : syn' = n /\ mem' \in ImageFound(n)
    BY <1>7 DEF Resend
  <2>2. n \in 1 .. disk.last
    BY <2>1 DEF Asked, Kept
  <2>3. pc' = "parse" /\ UNCHANGED <<disk, server>>
    BY <1>7 DEF Resend, db
  <2>4. \/ \E i \in DOMAIN disk.rows : disk.rows[i].syn = n /\ disk.rows[i].blob = mem'
        \/ NoRow(n)
    <3>1. CASE RowsOf(n) = {}
      BY <2>1, <3>1 DEF Asked, RowsOf, NoRow, Kept
    <3>2. CASE RowsOf(n) # {}
      <4>1. PICK i \in FirstRows(n) : mem' = view.rows[i].blob
        BY <2>1, <3>2 DEF ImageFound
      <4>2. i \in DOMAIN disk.rows /\ disk.rows[i].syn = n /\ disk.rows[i].blob = mem'
        BY <4>1 DEF FirstRows, RowsOf, Kept
      <4>3. QED
        BY <4>2
    <3>3. QED
      BY <3>1, <3>2
  <2>5. Sendable'
    BY <2>1, <2>2, <2>3, <2>4 DEF Sendable, NoRow
  <2>6. QED
    BY <2>3, <2>5, SentStays
<1>8. CASE GetMax
  <2>1. pc = "max" /\ pc' = "insert" /\ UNCHANGED <<disk, server>>
    BY <1>8 DEF GetMax, At, db
  <2>2. QED
    BY <2>1, SentStays DEF Sendable
<1>9. CASE Open \/ LinesEntered \/ NothingMissing \/ ResendCrashes \/ Killed
  <2>1. pc' \in {"off", "wait"} /\ UNCHANGED <<disk, server>>
    BY <1>9 DEF Open, LinesEntered, NothingMissing, ResendCrashes, Killed,
                Gone, At, db
  <2>2. QED
    BY <2>1, SentStays DEF Sendable
<1>10. CASE UNCHANGED vars
  BY <1>10 DEF vars, db, Sendable, SentStored, NoRow
<1>11. QED
  BY <1>1, <1>2, <1>3, <1>4, <1>5, <1>6, <1>7, <1>8, <1>9, <1>10, StepKinds
     DEF Aside

(* Wherever simple is killed, and whatever numbers the server asks for,    *)
(* the row of a number holds what the server has under it, until a         *)
(* statement fails.                                                        *)
SentSoFar == faults = 0 => SentInv

THEOREM SentIsStored == Spec => []SentIsRow
<1>1. Init => KeptSoFar /\ SentSoFar
  BY KeptInit, LinedInit
     DEF Init, KeptSoFar, SentSoFar, SentInv, Sendable, SentStored
<1>2. TypeInv /\ KeptSoFar /\ SentSoFar /\ [Next]_vars => SentSoFar'
  <2> SUFFICES ASSUME TypeInv, KeptSoFar, SentSoFar, [Next]_vars, faults' = 0
               PROVE  SentInv'
    BY DEF SentSoFar
  <2>1. Kept /\ SentInv
    BY FaultsStay DEF KeptSoFar, SentSoFar
  <2>2. QED
    BY <2>1, SentInvNext
<1>3. SentSoFar => SentIsRow
  BY DEF SentSoFar, SentInv, SentStored, SentIsRow, NoRow
<1>4. QED
  BY <1>1, <1>2, <1>3, KeptSoFarNext, TypeInvariant, PTL DEF Spec

-----------------------------------------------------------------------------
(* Zeros are in the row that is being filled, or left by a kill; the       *)
(* number of that row was given for the image in memory.                   *)
Filled(i) ==
    \/ <<disk.rows[i].syn, disk.rows[i].blob>> \in saved
    \/ /\ disk.rows[i].blob = ZEROS
       /\ crashes > 0 \/ (pc = "fill" /\ i = Len(disk.rows))

RowInv ==
    /\ pc \in {"insert", "fill"} => <<syn, mem>> \in saved
    /\ \A i \in DOMAIN disk.rows : Filled(i)

(* What a step that leaves the names and images of the rows alone keeps.   *)
LEMMA FilledStays ==
    ASSUME RowInv, saved \subseteq saved', pc # "fill",
           crashes' \in Nat, crashes > 0 => crashes' > 0,
           DOMAIN disk.rows = DOMAIN disk'.rows,
           \A i \in DOMAIN disk.rows : /\ disk'.rows[i].syn = disk.rows[i].syn
                                       /\ disk'.rows[i].blob = disk.rows[i].blob
    PROVE  \A i \in DOMAIN disk'.rows : Filled(i)'
BY DEF RowInv, Filled

LEMMA RowInvNext ==
    faults' = 0 /\ TypeInv /\ Kept /\ RowInv /\ [Next]_vars => RowInv'
<1> SUFFICES ASSUME faults' = 0, TypeInv, Kept, RowInv, [Next]_vars
             PROVE  RowInv'
  OBVIOUS
<1>r. /\ disk.rows \in Seq(Rows) /\ DOMAIN disk.rows = 1 .. Len(disk.rows)
      /\ Len(disk.rows) \in Nat
  BY RowsKept
<1>c. crashes \in Nat
  BY BoundsAssumption DEF TypeInv, TypeOK
<1>1. CASE NewFile
  <2>1. pc = "wait" /\ pc' = "max" /\ saved' = saved /\ crashes' = crashes
    BY <1>1 DEF NewFile, At
  <2>2. disk'.rows = disk.rows
    BY <1>1, NewFileEffect
  <2>3. QED
    BY <1>c, <2>1, <2>2, FilledStays DEF RowInv
<1>2. CASE InsertRow
  <2>1. /\ pc = "insert" /\ pc' = "fill" /\ syn' = syn /\ mem' = mem
        /\ saved' = saved /\ crashes' = crashes /\ syn \in Numbers
    BY <1>2 DEF InsertRow, At, TypeInv, Prepared, counts
  <2> DEFINE r == L!Row(syn, ZEROS, FALSE)
  <2>2. r \in Rows /\ r.blob = ZEROS
    BY <2>1 DEF L!Row, Rows
  <2>3. disk'.rows = Append(disk.rows, r)
    BY <1>2, InsertRowEffect
  <2> HIDE DEF r
  <2>4. /\ \A i \in 1 .. Len(disk.rows) : disk'.rows[i] = disk.rows[i]
        /\ DOMAIN disk'.rows = 1 .. Len(disk.rows) + 1
        /\ Len(disk'.rows) = Len(disk.rows) + 1
        /\ disk'.rows[Len(disk.rows) + 1] = r
    BY <1>r, <2>2, <2>3, AppendRow
  <2>5. ASSUME NEW i \in DOMAIN disk'.rows PROVE Filled(i)'
    <3>1. CASE i \in 1 .. Len(disk.rows)
      <4>1. Filled(i) /\ disk'.rows[i] = disk.rows[i]
        BY <1>r, <2>4, <3>1 DEF RowInv
      <4>2. QED
        BY <2>1, <4>1 DEF Filled
    <3>2. CASE i = Len(disk.rows) + 1
      BY <2>1, <2>2, <2>4, <3>2 DEF Filled
    <3>3. QED
      BY <1>r, <2>4, <3>1, <3>2
  <2>6. QED
    BY <2>1, <2>5 DEF RowInv
<1>3. CASE FillBlob
  <2>1. /\ pc = "fill" /\ pc' = "parse" /\ syn' = syn /\ mem' = mem
        /\ saved' = saved /\ crashes' = crashes
    BY <1>3 DEF FillBlob, At
  <2> DEFINE n == Len(disk.rows)
  <2>2. n \in DOMAIN disk.rows
    <3>1. disk.rows # <<>>
      BY <2>1 DEF TypeInv, Prepared, Kept
    <3>2. QED
      BY <1>r, <3>1, EmptySeq
  <2>3. disk'.rows = [disk.rows EXCEPT ![n].blob = mem]
    BY <1>3, FillBlobEffect
  <2>4. disk.rows[n].syn = syn /\ <<syn, mem>> \in saved
    BY <2>1 DEF Kept, RowInv
  <2>5. \A i \in DOMAIN disk.rows : i # n =>
          \/ <<disk.rows[i].syn, disk.rows[i].blob>> \in saved
          \/ disk.rows[i].blob = ZEROS /\ crashes > 0
    BY DEF RowInv, Filled
  <2> HIDE DEF n
  <2>6. /\ DOMAIN disk'.rows = DOMAIN disk.rows
        /\ disk'.rows[n].blob = mem
        /\ \A k \in DOMAIN disk.rows : /\ disk'.rows[k].syn = disk.rows[k].syn
                                       /\ k # n => disk'.rows[k] = disk.rows[k]
    BY <2>2, <2>3, FilledRows
  <2>7. QED
    BY <2>1, <2>4, <2>5, <2>6 DEF RowInv, Filled
<1>4. CASE MarkSent
  <2>1. /\ pc = "mark" /\ pc' \in {"wait", "lines"} /\ saved' = saved
        /\ crashes' = crashes
    BY <1>4 DEF MarkSent, AfterMark, At
  <2>2. disk'.rows = MarkRows(evtSyn)
    BY <1>4, MarkSentEffect
  <2>3. /\ DOMAIN disk'.rows = DOMAIN disk.rows
        /\ \A i \in DOMAIN disk.rows : /\ disk'.rows[i].syn = disk.rows[i].syn
                                       /\ disk'.rows[i].blob = disk.rows[i].blob
    BY <2>2, MarkedRows
  <2>4. QED
    BY <1>c, <2>1, <2>3, FilledStays DEF RowInv
<1>5. CASE EnterLine
  <2>1. pc = "lines" /\ pc' = "lines" /\ saved' = saved /\ crashes' = crashes
    BY <1>5 DEF EnterLine, At
  <2>2. disk'.rows = disk.rows
    BY <1>5, EnterLineEffect
  <2>3. QED
    BY <1>c, <2>1, <2>2, FilledStays DEF RowInv
<1>6. CASE GetMax
  <2>1. /\ pc = "max" /\ pc' = "insert" /\ syn' = MaxOf /\ mem' = mem
        /\ saved' = saved \union {<<MaxOf, mem>>}
        /\ disk' = disk /\ crashes' = crashes
    BY <1>6 DEF GetMax, At, db, counts
  <2>2. QED
    BY <1>c, <2>1, FilledStays DEF RowInv
<1>7. CASE Killed
  <2>1. pc' = "off" /\ saved' = saved /\ disk' = disk /\ crashes' = crashes + 1
    BY <1>7 DEF Killed, Gone
  <2>2. QED
    BY <1>c, <2>1 DEF RowInv, Filled
<1>8. CASE Open \/ Delivers \/ TransferFails \/ LinesEntered
           \/ NothingMissing \/ Resend \/ ResendCrashes
  <2>1. /\ pc \in {"off", "parse", "lines", "wait"}
        /\ pc' \in {"wait", "parse", "mark", "off"}
        /\ saved' = saved /\ disk' = disk /\ crashes' = crashes
    BY <1>8 DEF Open, Delivers, TransferFails, LinesEntered, NothingMissing,
                Resend, ResendCrashes, Gone, At, db, counts
  <2>2. QED
    BY <1>c, <2>1, FilledStays DEF RowInv
<1>9. CASE UNCHANGED vars
  BY <1>9 DEF vars, db, counts, RowInv, Filled
<1>10. QED
  BY <1>1, <1>2, <1>3, <1>4, <1>5, <1>6, <1>7, <1>8, <1>9, StepKinds DEF Aside

(* Until a statement fails a row holds the image its number was given for, *)
(* or the zeros it was inserted with when simple was killed before the     *)
(* blob was written.                                                       *)
RowsSoFar == faults = 0 => RowInv

THEOREM RowsAreImages == Spec => []RowIsImage
<1>1. Init => KeptSoFar /\ RowsSoFar
  BY KeptInit, LinedInit DEF Init, Empty, KeptSoFar, RowsSoFar, RowInv
<1>2. TypeInv /\ KeptSoFar /\ RowsSoFar /\ [Next]_vars => RowsSoFar'
  <2> SUFFICES ASSUME TypeInv, KeptSoFar, RowsSoFar, [Next]_vars, faults' = 0
               PROVE  RowInv'
    BY DEF RowsSoFar
  <2>1. Kept /\ RowInv
    BY FaultsStay DEF KeptSoFar, RowsSoFar
  <2>2. QED
    BY <2>1, RowInvNext
<1>3. RowsSoFar => RowIsImage
  BY DEF RowsSoFar, RowInv, Filled, RowIsImage
<1>4. QED
  BY <1>1, <1>2, <1>3, KeptSoFarNext, TypeInvariant, PTL DEF Spec
=============================================================================
