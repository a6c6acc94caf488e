------------------------------ MODULE ParseDump ------------------------------
(***************************************************************************)
(* parsedump() of core/parser.c, which walks through the image of a P3     *)
(* sensor, and the call-backs of core/cser.cpp that turn what it finds     *)
(* into the JSON document and the SQL lines.  One action is one pass       *)
(* through a case of the switch over image[curcnt].                        *)
(*                                                                         *)
(* The format is the one parser.c reads.  A sensor writes, for each        *)
(* record, a byte for its kind, bytes for the parts of the date and the    *)
(* hour that changed, and the record itself; the comment at parser.c:191   *)
(* says that the first two come in either order.                           *)
(*                                                                         *)
(* Data kept: a document is the sequence of its events and which comma was *)
(* replaced at its end; texts and seconds since 1970 are left out.         *)
(***************************************************************************)
EXTENDS Integers, Sequences

CONSTANTS
    Recordings,   \* what sensors have recorded: sequences of records
    Losses,       \* bytes missing at the end of the image
    DbOpen,       \* _dbopen
    MaxPasses     \* bound: passes over one image

WordSize == 65536      \* curcnt is a WORD
BLANK == 255           \* image[] as read_p3() fills it
EndMark == 5           \* bytes the end mark stands for

(* What the bytes of a stamp can come out as.                              *)
Stamps == [year : 0 .. 2165, month : 0 .. 25, day : 0 .. 63,
           hour : 0 .. 23, minute : 0 .. 59, second : 0 .. 85]

(* What a sensor writes: the time of its clock, and the data of a kind.    *)
Clock == [year : 2000 .. 2099, month : 1 .. 12, day : 1 .. 31,
          hour : 0 .. 23, minute : 0 .. 59, second : 0 .. 59]
DataOf(kind) == CASE kind = "touch" -> [1 .. 3 -> 0 .. 255]
                  [] kind = "key"   -> [1 .. 1 -> 0 .. 15]
                  [] kind = "anti"  -> (0 .. 7) \X (0 .. 4095)
                  [] OTHER          -> {<<>>}
Kinds == {"touch", "key", "anti", "change", "sensor", "reserved"}
Records == {r \in [kind : Kinds, at : Clock, doubt : BOOLEAN, data : Seq(Nat)] :
              r.data \in DataOf(r.kind)}

ASSUME RecordingsAssumption == Recordings \subseteq Seq(Records)
ASSUME LossesAssumption == Losses \subseteq Nat
ASSUME SwitchAssumption == DbOpen \in BOOLEAN /\ MaxPasses \in Nat

VARIABLES
    recs,       \* ghost: what the sensor recorded
    image,      \* the bytes that were read
    firstfree,  \* the number of bytes there were to read
    pc,         \* "call", "case", "finalize", "returned"
    curcnt,     \* pointer into the image
    evt,        \* kind announced by F8, F9 or FE
    evs,        \* event stamp, global
    json,       \* events in the document
    closed,     \* the comma DoFinal() replaced: "none", "head", "list"
    rec,        \* _evt: the parts that outlive an event
    fts,        \* SQL lines
    base,       \* ghost: lines that were in fts before this pass
    result,     \* what parsedump() returned: "none", "error", "sent", "unsent"
    passes      \* passes begun

input == <<recs, image, firstfree>>
output == <<json, rec, fts>>
vars == <<input, pc, curcnt, evt, evs, output, closed, base, result, passes>>

-----------------------------------------------------------------------------
(* The sensor.                                                             *)

ToBcd(n) == (n \div 10) * 16 + (n % 10)
HourByte(t) == 240 + t.hour \div 4
TimeByte(t) == t.minute * 4 + (t.hour % 4)

KindBytes(r) == CASE r.kind = "anti"   -> <<248>>
                  [] r.kind = "key"    -> <<249>>
                  [] r.kind = "change" -> <<254>>
                  [] r.kind = "sensor" -> <<251>>
                  [] r.kind = "reserved" -> <<252>>
                  [] OTHER             -> <<>>

(* Date and hour, where they differ from the record before.                *)
Marks(s, t) ==
    (IF s.year # t.year \/ s.month # t.month
     THEN <<247, ToBcd(t.year - 2000), ToBcd(t.month)>> ELSE <<>>)
    \o (IF s.day # t.day THEN <<246, ToBcd(t.day)>> ELSE <<>>)
    \o (IF HourByte(s) # HourByte(t) THEN <<HourByte(t)>> ELSE <<>>)

Body(r) ==
    LET when == <<TimeByte(r.at), ToBcd(r.at.second) + (IF r.doubt THEN 128 ELSE 0)>>
    IN  CASE r.kind = "anti" -> when \o <<(r.data[2] \div 256) * 16 + r.data[1],
                                          r.data[2] % 256>>
          [] r.kind \in {"touch", "key"} -> when \o r.data
          [] r.kind = "change" -> when
          [] OTHER -> <<>>

NoTime == [year |-> 0, month |-> 0, day |-> 0, hour |-> 0, minute |-> 0, second |-> 0]

(* The time the sensor has noted before the n-th record of h, and the      *)
(* bytes of that record; "early" puts the kind before the marks.           *)
Before(h, n) == IF n = 1 THEN NoTime ELSE h[n - 1].at
RecordBytes(h, n, early) ==
    LET marks == Marks(Before(h, n), h[n].at)
    IN  (IF early THEN KindBytes(h[n]) \o marks ELSE marks \o KindBytes(h[n]))
        \o Body(h[n])

(* The memory of a sensor that recorded h, record by record.               *)
Memory(h, early) ==
    LET Bytes[n \in 0 .. Len(h)] ==
            IF n = 0 THEN <<>> ELSE Bytes[n - 1] \o RecordBytes(h, n, early)
    IN  Bytes

Dump(h, early) == Memory(h, early)[Len(h)]

(* A dump ends so far below 65536 that curcnt does not wrap.               *)
ASSUME DumpAssumption ==
    \A h \in Recordings, early \in BOOLEAN : Len(Dump(h, early)) < WordSize - EndMark

-----------------------------------------------------------------------------
(* Decoding, each operator preceded by the faulty variants of it that the  *)
(* README's table of mutants uses.                                         *)

(* image[curcnt + i]; behind what was read the image is blank.             *)
Byte(i) == IF curcnt + i < Len(image) THEN image[curcnt + i + 1] ELSE BLANK

(* bcdtobyte() has no return statement; built without optimisation, as the *)
(* Makefile does, it gives back the value it computed last.                *)
Bcd(b) == (b \div 16) * 10 + (b % 16)

(* update_hhmm() and update_sec(); "(b1 & 0x80)==1" never holds.           *)
WithRawSecond(s, b1, b2) ==
    [s EXCEPT !.minute = b1 \div 4,
              !.hour = (s.hour \div 4) * 4 + (b1 % 4),
              !.second = b2 % 128]
WithMinuteOnly(s, b1, b2) == [s EXCEPT !.minute = b1 \div 4, !.second = Bcd(b2 % 128)]
WithTime(s, b1, b2) ==
    [s EXCEPT !.minute = b1 \div 4,
              !.hour = (s.hour \div 4) * 4 + (b1 % 4),
              !.second = Bcd(b2 % 128)]

(* update_datetime() and the head of parse_antivandal(): "b1<0xEF".        *)
WithTimeBelowEF(s, b1, b2) == IF b1 < 239 THEN WithTime(s, b1, b2) ELSE s

(* Three F in a row among the six hexadecimal digits of the chip.          *)
Digits(c) == <<c[3] \div 16, c[3] % 16, c[2] \div 16, c[2] % 16, c[1] \div 16, c[1] % 16>>
NeverSuspect(c) == FALSE
Suspect(c) == \E i \in 1..4 : \A k \in 0..2 : Digits(c)[i + k] = 15

(* evt after the default case.                                             *)
KeptKind == evt
ClearedKind == "none"

(* How far the end mark takes the walk.                                    *)
EndMarkStays == 0
EndMarkSize == EndMark

(* _evt.orden++, a WORD.                                                   *)
SameOrden == rec.orden
NextOrden == (rec.orden + 1) % WordSize

-----------------------------------------------------------------------------
Init ==
    /\ recs \in Recordings
    /\ \E early \in BOOLEAN, n \in Losses :
          LET bytes == Dump(recs, early) IN
          /\ n <= Len(bytes)
          /\ image = SubSeq(bytes, 1, Len(bytes) - n)
          /\ firstfree = Len(bytes) % WordSize
    /\ pc = "call"
    /\ curcnt = 0 /\ evt = "none" /\ evs = NoTime
    /\ json = <<>> /\ closed = "none"
    /\ rec = [orden |-> 0, typ |-> 0, info |-> 0, chip |-> <<>>]
    /\ fts = <<>> /\ base = 0
    /\ result = "none" /\ passes = 0

(* parsedump() is called: by m_parsedata, again after a transfer that      *)
(* failed or for a resend.  The year is not cleared.                       *)
Call ==
    /\ pc \in {"call", "returned"}
    /\ passes < MaxPasses
    /\ passes' = passes + 1
    /\ evt' = "none"
    /\ evs' = [NoTime EXCEPT !.year = evs.year]
    /\ curcnt' = 0
    /\ json' = <<>> /\ closed' = "none"
    /\ rec' = [rec EXCEPT !.orden = 0]
    /\ base' = Len(fts)
    /\ result' = "none"
    /\ pc' = "case"
    /\ UNCHANGED <<input, fts>>

(* At a byte of set S in the switch; the case uses up n bytes, and the     *)
(* loop goes on while there are more.                                      *)
At(S) == pc = "case" /\ Byte(0) \in S
Passed(n) ==
    /\ curcnt' = (curcnt + n) % WordSize
    /\ pc' = IF curcnt' < firstfree THEN "case" ELSE "finalize"
    /\ UNCHANGED <<input, closed, base, result, passes>>

Day ==
    /\ At({246})
    /\ evs' = [evs EXCEPT !.day = Bcd(Byte(1)) % 64]
    /\ Passed(2)
    /\ UNCHANGED <<evt, output>>

YearMonth ==
    /\ At({247})
    /\ evs' = [evs EXCEPT !.year = 2000 + Bcd(Byte(1)), !.month = Bcd(Byte(2) % 32)]
    /\ Passed(3)
    /\ UNCHANGED <<evt, output>>

Kind ==
    /\ At({248, 249, 254})
    /\ evt' = CASE Byte(0) = 248 -> "anti" [] Byte(0) = 249 -> "key" [] OTHER -> "change"
    /\ Passed(1)
    /\ UNCHANGED <<evs, output>>

HiHour ==
    /\ At(240 .. 245)
    /\ evs' = [evs EXCEPT !.hour = (evs.hour % 4) + (Byte(0) % 8) * 4]
    /\ Passed(1)
    /\ UNCHANGED <<evt, output>>

Reserved ==
    /\ At({250, 252, 253})
    /\ Passed(1)
    /\ UNCHANGED <<evt, evs, output>>

EndOfData ==
    /\ At({255})
    /\ Passed(EndMarkSize)
    /\ UNCHANGED <<evt, evs, output>>

(* DoEvent(), DoKey() and DoAnti() write a line of the document, note the  *)
(* event in _evt and give that to DoRepx(), which needs the database.      *)
Report(kind, data, note) ==
    /\ json' = Append(json, [kind |-> kind, at |-> evs', data |-> data])
    /\ rec' = note
    /\ fts' = IF DbOpen THEN Append(fts, [at |-> evs', row |-> note]) ELSE fts

Antivandal ==
    /\ At(0 .. 239) /\ evt = "anti"
    /\ evs' = WithTimeBelowEF(evs, Byte(0), Byte(1))
    /\ LET typ == Byte(2) % 8
           info == (Byte(2) \div 16) * 256 + Byte(3)
       IN  Report("anti", <<typ, info>>,
                  [rec EXCEPT !.orden = NextOrden, !.typ = typ, !.info = info])
    /\ evt' = ClearedKind
    /\ Passed(4)

Keypad ==
    /\ At(0 .. 239) /\ evt = "key"
    /\ evs' = WithTimeBelowEF(evs, Byte(0), Byte(1))
    /\ LET key == Byte(2) % 16
       IN  Report("key", <<key>>,
                  [orden |-> NextOrden, typ |-> 8, info |-> 0, chip |-> <<key>>])
    /\ evt' = ClearedKind
    /\ Passed(3)

TimeChange ==
    /\ At(0 .. 239) /\ evt = "change"
    /\ evs' = WithTimeBelowEF(evs, Byte(0), Byte(1))
    /\ evt' = ClearedKind
    /\ Passed(2)
    /\ UNCHANGED output

Touch ==
    /\ At(0 .. 239) /\ evt = "none"
    /\ evs' = WithTime(evs, Byte(0), Byte(1))
    /\ LET chip == <<Byte(2), Byte(3), Byte(4)>>
       IN  IF Suspect(chip) THEN UNCHANGED output
           ELSE Report("touch", chip, [rec EXCEPT !.orden = NextOrden, !.chip = chip])
    /\ evt' = ClearedKind
    /\ Passed(5)

(* DoFinal(): the last comma of the document becomes the closing bracket.  *)
(* Every event ends with one; without events the last is that of the head. *)
LastComma == IF json = <<>> THEN "head" ELSE "list"

(* FB: the document is sent as it is, and -1 returned.                     *)
NotImplemented ==
    /\ At({251})
    /\ closed' = LastComma
    /\ result' = "error"
    /\ pc' = "returned"
    /\ UNCHANGED <<input, curcnt, evt, evs, output, base, passes>>

Finalize ==
    /\ pc = "finalize"
    /\ closed' = LastComma
    /\ result' \in {"sent", "unsent"}
    /\ pc' = "returned"
    /\ UNCHANGED <<input, curcnt, evt, evs, output, base, passes>>

Cases ==
    \/ Day \/ YearMonth \/ Kind \/ HiHour \/ Reserved \/ EndOfData
    \/ Antivandal \/ Keypad \/ TimeChange \/ Touch

Next == Call \/ Cases \/ NotImplemented \/ Finalize

Spec == Init /\ [][Next]_vars

(* The parser runs in the main thread of simple and waits for nothing.     *)
FairSpec == Spec /\ WF_vars(Cases \/ NotImplemented \/ Finalize)
-----------------------------------------------------------------------------
(* Properties.                                                             *)

Events == [kind : {"touch", "key", "anti"}, at : Stamps, data : Seq(Nat)]
Notes == [orden : 0 .. WordSize - 1, typ : Nat, info : Nat, chip : Seq(Nat)]

TypeOK ==
    /\ recs \in Recordings
    /\ image \in Seq(0 .. 255) /\ firstfree \in 0 .. WordSize - 1
    /\ pc \in {"call", "case", "finalize", "returned"}
    /\ curcnt \in 0 .. WordSize - 1
    /\ evt \in {"none", "anti", "key", "change"}
    /\ evs \in Stamps
    /\ json \in Seq(Events)
    /\ closed \in {"none", "head", "list"}
    /\ rec \in Notes
    /\ fts \in Seq([at : Stamps, row : Notes]) /\ base \in 0 .. Len(fts)
    /\ result \in {"none", "error", "sent", "unsent"}
    /\ passes \in 0 .. MaxPasses

(* What there is to report of a recording: nothing for a change of the     *)
(* clock, nor for a chip taken for suspect, nor behind a sensor record.    *)
Reported(r) ==
    r.kind \in {"key", "anti"} \/ (r.kind = "touch" /\ ~Suspect(r.data))
Reports(h) ==
    LET Upto[n \in 0 .. Len(h)] ==
            IF n = 0 THEN <<>>
            ELSE IF Reported(h[n]) /\ \A i \in 1 .. n - 1 : h[i].kind # "sensor"
                 THEN Append(Upto[n - 1], h[n]) ELSE Upto[n - 1]
    IN  Upto
Expected == Reports(recs)[Len(recs)]

Complete == Len(image) = firstfree
TimeUnderstood(r) == r.kind = "touch" \/ TimeByte(r.at) # 239
Tells(e, r) ==
    /\ e.kind = r.kind /\ e.data = r.data
    /\ TimeUnderstood(r) => e.at = r.at

(* A complete image is decoded to the events the sensor recorded, in their *)
(* order, none left out, none twice and none invented, each with its own   *)
(* time, wherever the bytes for day, month and hour stand; excepted is the *)
(* time of key and antivandal events in the last minute of every fourth    *)
(* hour, see AllMinutes.  The walk ends where the data end: it neither     *)
(* stops inside a record nor goes beyond the image, but for the image of a *)
(* sensor without records, whose first byte is looked at all the same.     *)
Decoded ==
    Complete =>
        /\ Len(json) <= Len(Expected)
        /\ result # "none" => Len(json) = Len(Expected)
        /\ \A i \in DOMAIN json : Tells(json[i], Expected[i])
        /\ recs # <<>> =>
              /\ curcnt <= firstfree
              /\ result \in {"sent", "unsent"} => curcnt = firstfree

(* p3_readtourwork() may leave out the last bytes (TourRead.ReadsAllData): *)
(* the blank in their place spoils at most the last event.                 *)
OnlyLastSpoiled ==
    \A i \in 1 .. Len(json) - 1 :
        i <= Len(Expected) /\ Tells(json[i], Expected[i])

(* The lines for the database are those of the document, event for event,  *)
(* counted from 1: get_sensorid() looks a download up by orden=1.          *)
RowsFollowDocument ==
    DbOpen =>
        /\ Len(fts) - base = Len(json)
        /\ \A i \in DOMAIN json :
              LET line == fts[base + i] IN
              /\ line.at = json[i].at /\ line.row.orden = i
              /\ json[i].kind # "anti" => line.row.chip = json[i].data
              /\ json[i].kind = "anti" =>
                    <<line.row.typ, line.row.info>> = json[i].data

(* Every call returns: each case uses up bytes, blank ones too.            *)
Returns == []<>(pc \in {"call", "returned"})

(* The comment above update_datetime(), "all minutes/hours + seconds".     *)
AllMinutes ==
    Complete => \A i \in DOMAIN json : json[i].at = Expected[i].at

(* "x is flag for correct time. 0 ... OK, 1...ERROR" and "signal, that     *)
(* time conversion was faulty": a doubtful time comes out as second 88.    *)
DoubtShown ==
    Complete => \A i \in DOMAIN json :
        Expected[i].kind = "key" /\ Expected[i].doubt /\ TimeUnderstood(Expected[i])
            => json[i].at.second = 88

(* "odeber posledni carku a vymen ji za ]": the comma DoFinal() replaces   *)
(* is the one that ends the list of events.                                *)
ListClosed == closed # "head"

(* "do blobu zapis, ze jsem odeslal data", done when parse_data() is true, *)
(* as any result but 0 is: all there was to report is in the document.     *)
SentMeansAll ==
    Complete /\ result \in {"sent", "error"} => Len(json) = Len(SelectSeq(recs, Reported))
=============================================================================
