-------------------------------- MODULE Sqlit --------------------------------
(***************************************************************************)
(* The database of simple, core/sqlit.c, statement by statement, and its   *)
(* callers in core/cser.cpp: save_blob, m_parsedata, m_checkmissing and    *)
(* m_start.  One action is one call of sqlit.c, or one of its statements   *)
(* where simple may be killed between two.                                 *)
(*                                                                         *)
(* SQLite is external: an explicit transaction stays open until a COMMIT   *)
(* succeeds, a statement outside one commits by itself, what is not        *)
(* committed is lost when the process ends, and sqlite3_close() refuses    *)
(* while a statement has not been finalized.                               *)
(*                                                                         *)
(* An image is a name; the lines of one pass of the parser are one line.   *)
(***************************************************************************)
EXTENDS Integers, Sequences

CONSTANTS
    Images,        \* images sensors are read with
    ZEROS,         \* the blob before it is written
    NONE,          \* no image in memory: simple has just started
    Faults,        \* statements that may fail, a subset of FaultKinds
    AsksGaps,      \* the server asks for numbers without a row, too
    MaxDownloads, MaxResends, MaxAttempts, MaxFaults, MaxCrashes   \* bounds

FaultKinds == {"exec", "commit", "blob", "insert"}

ASSUME ImagesAssumption == ZEROS \notin Images /\ NONE \notin Images /\ NONE # ZEROS
ASSUME SwitchAssumption == Faults \subseteq FaultKinds /\ AsksGaps \in BOOLEAN
ASSUME BoundsAssumption ==
    /\ MaxDownloads \in Nat /\ MaxResends \in Nat /\ MaxAttempts \in Nat
    /\ MaxFaults \in Nat /\ MaxCrashes \in Nat

VARIABLES
    pc,        \* where the main loop is
    disk,      \* what is committed: [last, rows, lines]
    view,      \* what the connection sees
    txn,       \* BEGIN without COMMIT
    handle,    \* db: "open" or "closed"
    leaked,    \* a statement that was not finalized
    syn,       \* _idSyn
    evtSyn,    \* _evt.idSyn
    mem,       \* the image in memory
    fts,       \* collected lines: their numbers
    isResend,  \* _isResend
    tries,     \* passes of m_parsedata
    server,    \* ghost: numbers and images the server has
    saved,     \* ghost: the image each number was given for
    downloads, resends, faults, crashes

db == <<disk, view, txn, handle, leaked>>
counts == <<downloads, resends, faults, crashes>>
vars == <<pc, db, syn, evtSyn, mem, fts, isResend, tries, server, saved, counts>>

L == INSTANCE Ledger WITH last <- disk.last, rows <- disk.rows, lines <- disk.lines

Numbers == 0 .. MaxDownloads
Rows == [syn : Numbers, blob : Images \union {ZEROS}, tok : BOOLEAN]
Contents == [last : Numbers, rows : Seq(Rows), lines : Seq(Numbers)]

Empty == [last |-> 0, rows |-> <<>>, lines |-> <<>>]

Init ==
    /\ pc = "off"
    /\ disk = Empty /\ view = Empty /\ txn = FALSE
    /\ handle = "closed" /\ leaked = FALSE
    /\ syn = -1 /\ evtSyn = 0 /\ mem = NONE
    /\ fts = <<>> /\ isResend = FALSE /\ tries = 0
    /\ server = {} /\ saved = {}
    /\ downloads = 0 /\ resends = 0 /\ faults = 0 /\ crashes = 0

-----------------------------------------------------------------------------
(* Statements.                                                             *)

Fault(f) == f \in Faults /\ faults < MaxFaults /\ faults' = faults + 1

(* sqlite3_close() of a failed do_sql().                                   *)
AfterClose == IF leaked THEN handle ELSE "closed"

(* do_sql() that turns the content into c: BEGIN, which fails unnoticed in *)
(* an open transaction, the statement, COMMIT, whose result is not read.   *)
(* A statement that fails leaves the transaction open, if SQLite does not  *)
(* roll it back itself.                                                    *)
DoSql(c) ==
    \/ /\ view' = c /\ disk' = c /\ txn' = FALSE
       /\ UNCHANGED <<handle, leaked, faults>>
    \/ /\ Fault("commit")
       /\ view' = c /\ txn' = TRUE
       /\ UNCHANGED <<disk, handle, leaked>>
    \/ /\ Fault("exec")
       /\ \/ view' = view /\ txn' = TRUE
          \/ view' = disk /\ txn' = FALSE
       /\ handle' = AfterClose
       /\ UNCHANGED <<disk, leaked>>

(* A statement without BEGIN.                                              *)
Execute(c) ==
    /\ view' = c
    /\ disk' = IF txn THEN disk ELSE c
    /\ UNCHANGED <<txn, handle, leaked>>

(* The process is gone.                                                    *)
Gone ==
    /\ pc' = "off"
    /\ view' = disk /\ txn' = FALSE /\ handle' = "closed" /\ leaked' = FALSE
    /\ mem' = NONE /\ fts' = <<>> /\ isResend' = FALSE /\ tries' = 0
    /\ syn' = -1 /\ evtSyn' = 0
    /\ UNCHANGED <<disk, server, saved>>

At(p) == pc = p /\ handle = "open"

LastRowOrNone == IF view.rows = <<>> THEN -1 ELSE view.rows[Len(view.rows)].syn
LastRow == IF view.rows = <<>> THEN 0 ELSE view.rows[Len(view.rows)].syn

-----------------------------------------------------------------------------
(* m_start: open_database() and untransfered_id(), which returns from      *)
(* within its loop, before any finalize.                                   *)
Finalized == FALSE
StatementLeft == TRUE
Open ==
    /\ pc = "off"
    /\ handle' = "open" /\ leaked' = StatementLeft
    /\ evtSyn' = LastRow
    /\ pc' = "wait"
    /\ UNCHANGED <<disk, view, txn, syn, mem, fts, isResend, tries, server, saved, counts>>

(* A sensor has been read and erased; m_saveblob clears fts, save_blob()   *)
(* begins.  new_file(): the number.                                        *)
NewFile ==
    /\ At("wait") /\ downloads < MaxDownloads
    /\ downloads' = downloads + 1
    /\ mem' \in Images
    /\ fts' = <<>> /\ tries' = 0
    /\ DoSql([view EXCEPT !.last = @ + 1])
    /\ pc' = "max"
    /\ UNCHANGED <<syn, evtSyn, isResend, server, saved, resends, crashes>>

(* get_max("id", "gensyn").                                                *)
MaxOfBefore == view.last - 1
MaxOf == view.last
GetMax ==
    /\ At("max")
    /\ syn' = MaxOf
    /\ saved' = saved \union {<<MaxOf, mem>>}
    /\ pc' = "insert"
    /\ UNCHANGED <<db, evtSyn, mem, fts, isResend, tries, server, counts>>

(* write_blob(): a row with a blob of zeros.                               *)
InsertRow ==
    /\ At("insert")
    /\ Execute([view EXCEPT !.rows = Append(@, L!Row(syn, ZEROS, FALSE))])
    /\ pc' = "fill"
    /\ UNCHANGED <<syn, evtSyn, mem, fts, isResend, tries, server, saved, counts>>

(* exit(1), of a failed insert or a blob that cannot be opened.            *)
WriteExits ==
    /\ At("insert") \/ At("fill")
    /\ Fault("insert")
    /\ Gone
    /\ UNCHANGED <<downloads, resends, crashes>>

(* write_blob(): the blob, in the row inserted last; a failure is logged.  *)
FirstRow == 1
BlobRow == Len(view.rows)
FillBlob ==
    /\ At("fill")
    /\ \/ /\ Execute([view EXCEPT !.rows[BlobRow].blob = mem])
          /\ UNCHANGED faults
       \/ Fault("blob") /\ UNCHANGED db
    /\ evtSyn' = syn
    /\ pc' = "parse"
    /\ UNCHANGED <<syn, mem, fts, isResend, tries, server, saved, downloads, resends, crashes>>

(* m_parsedata: the parser collects the lines and sends the document; the  *)
(* server may have it even if the answer is no.                            *)
Delivers ==
    /\ At("parse")
    /\ server' = server \union {<<syn, mem>>}
    /\ fts' = Append(fts, syn)
    /\ pc' = "mark"
    /\ UNCHANGED <<db, syn, evtSyn, mem, isResend, tries, saved, counts>>
TransferFails ==
    /\ At("parse")
    /\ server' \in {server, server \union {<<syn, mem>>}}
    /\ fts' = Append(fts, syn)
    /\ tries' = IF tries < MaxAttempts THEN tries + 1 ELSE tries
    /\ pc' = IF tries < MaxAttempts THEN "parse" ELSE "wait"
    /\ UNCHANGED <<db, syn, evtSyn, mem, isResend, saved, counts>>

(* "update rawbuf set tok=1 where idSyn=": every row of the number.        *)
MarkRow(n, r) == IF r.syn = n THEN [r EXCEPT !.tok = TRUE] ELSE r
MarkRows(n) == [i \in DOMAIN view.rows |-> MarkRow(n, view.rows[i])]
AfterMark == IF isResend THEN "wait" ELSE "lines"
MarkSent ==
    /\ At("mark")
    /\ DoSql([view EXCEPT !.rows = MarkRows(evtSyn)])
    /\ pc' = AfterMark
    /\ UNCHANGED <<syn, evtSyn, mem, fts, isResend, tries, server, saved, downloads, resends, crashes>>

(* One do_sql() for each line; fts is not emptied, the model takes from it *)
(* what it has entered, as nothing reads it before m_saveblob clears it.   *)
EnterLine ==
    /\ At("lines") /\ fts # <<>>
    /\ DoSql([view EXCEPT !.lines = Append(@, Head(fts))])
    /\ fts' = Tail(fts)
    /\ UNCHANGED <<pc, syn, evtSyn, mem, isResend, tries, server, saved, downloads, resends, crashes>>
LinesEntered ==
    /\ At("lines") /\ fts = <<>>
    /\ pc' = "wait"
    /\ UNCHANGED <<db, syn, evtSyn, mem, fts, isResend, tries, server, saved, counts>>

-----------------------------------------------------------------------------
(* m_checkmissing.                                                         *)

(* get_id(): the first row of the number.                                  *)
RowsOf(n) == {i \in DOMAIN view.rows : view.rows[i].syn = n}
FirstRows(n) == {i \in RowsOf(n) : \A k \in RowsOf(n) : i <= k}

NothingMissing ==
    /\ At("wait") /\ isResend
    /\ isResend' = FALSE
    /\ UNCHANGED <<pc, db, syn, evtSyn, mem, fts, tries, server, saved, counts>>

(* get_sensorid() and read_blob(), neither of which finalizes.  Without a  *)
(* row the image in memory stays as it is.                                 *)
MemoryKept(n) == {mem}
ImageFound(n) ==
    IF RowsOf(n) = {} THEN {mem} ELSE {view.rows[i].blob : i \in FirstRows(n)}
Asked == IF AsksGaps THEN 1 .. view.last ELSE {n \in 1 .. view.last : RowsOf(n) # {}}
Resend ==
    /\ At("wait") /\ resends < MaxResends
    /\ resends' = resends + 1
    /\ \E n \in Asked :
          /\ RowsOf(n) # {} \/ mem # NONE
          /\ syn' = n
          /\ mem' \in ImageFound(n)
    /\ isResend' = TRUE /\ tries' = 0
    /\ pc' = "parse"
    /\ UNCHANGED <<db, evtSyn, fts, server, saved, downloads, faults, crashes>>

(* No row, and no image in memory either: the parser reads from NULL.      *)
ResendCrashes ==
    /\ At("wait") /\ resends < MaxResends
    /\ resends' = resends + 1
    /\ mem = NONE /\ \E n \in Asked : RowsOf(n) = {}
    /\ Gone
    /\ UNCHANGED <<downloads, faults, crashes>>

-----------------------------------------------------------------------------
Killed ==
    /\ pc # "off" /\ crashes < MaxCrashes
    /\ crashes' = crashes + 1
    /\ Gone
    /\ UNCHANGED <<downloads, resends, faults>>

Next ==
    \/ Open \/ NewFile \/ GetMax \/ InsertRow \/ WriteExits \/ FillBlob
    \/ Delivers \/ TransferFails \/ MarkSent \/ EnterLine \/ LinesEntered
    \/ NothingMissing \/ Resend \/ ResendCrashes \/ Killed

Spec == Init /\ [][Next]_vars

-----------------------------------------------------------------------------
(* Properties.                                                             *)

Places == {"off", "wait", "max", "insert", "fill", "parse", "mark", "lines"}

TypeOK ==
    /\ pc \in Places
    /\ disk \in Contents /\ view \in Contents
    /\ txn \in BOOLEAN /\ leaked \in BOOLEAN /\ handle \in {"open", "closed"}
    /\ syn \in Numbers \union {-1} /\ evtSyn \in Numbers
    /\ mem \in Images \union {ZEROS, NONE}
    /\ fts \in Seq(Numbers) /\ isResend \in BOOLEAN
    /\ tries \in 0 .. MaxAttempts
    /\ downloads \in 0 .. MaxDownloads /\ resends \in 0 .. MaxResends
    /\ faults \in 0 .. MaxFaults /\ crashes \in 0 .. MaxCrashes

(* do_sql() closes the database when a statement fails and its callers go  *)
(* on: that they still have a database is owed to the statement m_start    *)
(* leaves behind.                                                          *)
StaysOpen == pc # "off" => handle = "open"

(* Each step of the program is a step of the ledger or none, crashes at    *)
(* any place included, as long as no statement has failed.                 *)
KeepsLedger ==
    /\ L!Init
    /\ [][faults' = 0 => L!Next]_(L!vars)

(* What the server has under a number is what the row of the number holds, *)
(* on disk, whenever simple was killed, as long as no statement has        *)
(* failed.  Only a number without a row, asked for, brings something else: *)
(* the image in memory.                                                    *)
SentIsRow ==
    faults = 0 => \A s \in server :
        \/ \E i \in DOMAIN disk.rows :
              disk.rows[i].syn = s[1] /\ disk.rows[i].blob = s[2]
        \/ AsksGaps /\ \A i \in DOMAIN disk.rows : disk.rows[i].syn # s[1]

(* A row holds the image its number was given for.  Zeros in its place are *)
(* what a kill between write_blob()'s insert and its blob leaves, and no   *)
(* more than that; a later download never writes into an older row.        *)
RowIsImage ==
    faults = 0 => \A i \in DOMAIN disk.rows :
        \/ <<disk.rows[i].syn, disk.rows[i].blob>> \in saved
        \/ disk.rows[i].blob = ZEROS /\ (crashes > 0 \/ pc = "fill")

(* "zjisti maximalni vlozeny id" of new_file(), "this is new download": a  *)
(* download has a number no other has.                                     *)
NumbersUnique ==
    \A i, k \in DOMAIN view.rows : view.rows[i].syn = view.rows[k].syn => i = k

(* "save the stream into database": a download that is being sent is on    *)
(* disk.                                                                   *)
SavedBeforeSent ==
    pc = "mark" /\ ~isResend => \E i \in DOMAIN disk.rows : disk.rows[i].syn = syn

(* "write blob to database": a row found after a restart holds the image   *)
(* its number was given for.                                               *)
RowFilled ==
    pc = "wait" => \A i \in DOMAIN disk.rows :
        <<disk.rows[i].syn, disk.rows[i].blob>> \in saved

(* "nechci ukladat sql ... ktere uz v litesql existuji" (I do not want to  *)
(* store sql that exists in litesql already): no line is entered twice.    *)
LinesOnce ==
    \A i, k \in DOMAIN disk.lines : disk.lines[i] = disk.lines[k] => i = k

(* "tady ukladam sql k sobe do databaze, nechci ukladat sql, ktere odesilam *)
(* jako remedy" (here I store the sql, not that of a resend): a download   *)
(* that has just been saved is not taken for a resend.                     *)
NewIsNoResend == pc = "fill" => ~isResend
=============================================================================
