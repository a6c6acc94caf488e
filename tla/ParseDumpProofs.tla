---------------------------- MODULE ParseDumpProofs ----------------------------
(***************************************************************************)
(* Proofs about ParseDump for every set of recordings, any loss at the end *)
(* of the image and any number of passes.                                  *)
(***************************************************************************)
EXTENDS FormatProofs

-----------------------------------------------------------------------------
(* Bytes and what is made of them.                                         *)

LEMMA WordRange == WordSize \in Nat /\ WordSize > 10 /\ EndMark = 5
BY DEF WordSize, EndMark

LEMMA ByteRange ==
    ASSUME TypeOK, NEW i \in Nat
    PROVE  Byte(i) \in Bytes8
<1>1. curcnt \in Nat /\ image \in Seq(Bytes8)
  BY WordRange DEF TypeOK, Bytes8
<1>2. CASE curcnt + i < Len(image)
  <2>1. curcnt + i + 1 \in 1 .. Len(image)
    BY <1>1, <1>2, LenProperties
  <2>2. QED
    BY <1>1, <1>2, <2>1, ElementOfSeq DEF Byte
<1>3. CASE ~(curcnt + i < Len(image))
  BY <1>3 DEF Byte, BLANK, Bytes8
<1>4. QED
  BY <1>2, <1>3

(* The ranges of a stamp by name, so that the provers need not look into   *)
(* them.                                                                   *)
Years == 0 .. 2165
Months == 0 .. 25
Days == 0 .. 63
Hours == 0 .. 23
Minutes == 0 .. 59
Seconds == 0 .. 85

LEMMA BcdRange ==
    ASSUME NEW b \in Bytes8
    PROVE  /\ 2000 + Bcd(b) \in Years
           /\ Bcd(b) % 64 \in Days
           /\ Bcd(b % 32) \in Months
           /\ Bcd(b % 128) \in Seconds
<1>1. b \in Int /\ 0 <= b /\ b <= 255
  BY DEF Bytes8
<1>2. Bcd(b) \in 0 .. 165
  BY <1>1 DEF Bcd
<1>3. Bcd(b) % 64 \in 0 .. 63
  BY <1>2
<1>4. Bcd(b % 32) \in 0 .. 25
  <2>1. b % 32 \in 0 .. 31
    BY <1>1
  <2>2. QED
    BY <2>1 DEF Bcd
<1>5. Bcd(b % 128) \in 0 .. 85
  <2>1. b % 128 \in 0 .. 127
    BY <1>1
  <2>2. QED
    BY <2>1 DEF Bcd
<1>6. 2000 + Bcd(b) \in 0 .. 2165
  BY <1>2
<1>7. QED
  BY <1>3, <1>4, <1>5, <1>6 DEF Years, Months, Days, Seconds

LEMMA PartRange ==
    ASSUME NEW b \in Bytes8, NEW c \in Bytes8
    PROVE  /\ b \in Nat /\ b % 8 \in Nat /\ b % 16 \in Nat
           /\ (b \div 16) * 256 + c \in Nat
BY DEF Bytes8

SixFields(a, b, c, d, e, f) ==
    [year : a, month : b, day : c, hour : d, minute : e, second : f]

LEMMA SixFieldsEdits ==
    ASSUME NEW a, NEW b, NEW c, NEW d, NEW e, NEW f,
           NEW s \in SixFields(a, b, c, d, e, f)
    PROVE  /\ s.year \in a /\ s.hour \in d
           /\ \A x \in c : [s EXCEPT !.day = x] \in SixFields(a, b, c, d, e, f)
           /\ \A x \in d : [s EXCEPT !.hour = x] \in SixFields(a, b, c, d, e, f)
           /\ \A x \in a : [s EXCEPT !.year = x] \in SixFields(a, b, c, d, e, f)
           /\ \A x \in a, y \in b :
                 [s EXCEPT !.year = x, !.month = y] \in SixFields(a, b, c, d, e, f)
           /\ \A x \in e, y \in d, z \in f :
                 [s EXCEPT !.minute = x, !.hour = y, !.second = z]
                     \in SixFields(a, b, c, d, e, f)
BY DEF SixFields

StampFields == SixFields(Years, Months, Days, Hours, Minutes, Seconds)

LEMMA StampsAre == \A t : t \in Stamps <=> t \in StampFields
BY DEF Stamps, StampFields, SixFields, Years, Months, Days, Hours, Minutes, Seconds

LEMMA StampEdits ==
    ASSUME NEW s \in Stamps
    PROVE  /\ s.year \in Years /\ s.hour \in Hours
           /\ \A x \in Days : [s EXCEPT !.day = x] \in Stamps
           /\ \A x \in Hours : [s EXCEPT !.hour = x] \in Stamps
           /\ \A x \in Years : [s EXCEPT !.year = x] \in Stamps
           /\ \A x \in Years, y \in Months :
                 [s EXCEPT !.year = x, !.month = y] \in Stamps
           /\ \A x \in Minutes, y \in Hours, z \in Seconds :
                 [s EXCEPT !.minute = x, !.hour = y, !.second = z] \in Stamps
<1>1. s \in StampFields
  BY StampsAre
<1>2. /\ s.year \in Years /\ s.hour \in Hours
      /\ \A x \in Days : [s EXCEPT !.day = x] \in StampFields
      /\ \A x \in Hours : [s EXCEPT !.hour = x] \in StampFields
      /\ \A x \in Years : [s EXCEPT !.year = x] \in StampFields
      /\ \A x \in Years, y \in Months :
            [s EXCEPT !.year = x, !.month = y] \in StampFields
      /\ \A x \in Minutes, y \in Hours, z \in Seconds :
            [s EXCEPT !.minute = x, !.hour = y, !.second = z] \in StampFields
  BY <1>1, SixFieldsEdits DEF StampFields
<1>3. QED
  BY <1>2, StampsAre, Zenon

LEMMA NoteEdits ==
    ASSUME NEW r \in Notes, NEW o \in 0 .. WordSize - 1
    PROVE  /\ [r EXCEPT !.orden = o] \in Notes
           /\ \A t \in Nat, i \in Nat :
                 [r EXCEPT !.orden = o, !.typ = t, !.info = i] \in Notes
           /\ \A c \in Seq(Nat) : [r EXCEPT !.orden = o, !.chip = c] \in Notes
           /\ \A c \in Seq(Nat) :
                 [orden |-> o, typ |-> 8, info |-> 0, chip |-> c] \in Notes
<1>1. [r EXCEPT !.orden = o] \in Notes
  BY DEF Notes
<1>2. ASSUME NEW t \in Nat, NEW i \in Nat
      PROVE  [r EXCEPT !.orden = o, !.typ = t, !.info = i] \in Notes
  BY DEF Notes
<1>3. ASSUME NEW c \in Seq(Nat)
      PROVE  /\ [r EXCEPT !.orden = o, !.chip = c] \in Notes
             /\ [orden |-> o, typ |-> 8, info |-> 0, chip |-> c] \in Notes
  BY DEF Notes
<1>4. QED
  BY <1>1, <1>2, <1>3

LEMMA TimeTyped ==
    ASSUME NEW s \in Stamps, NEW b1 \in 0 .. 239, NEW b2 \in Bytes8
    PROVE  WithTime(s, b1, b2) \in Stamps /\ WithTimeBelowEF(s, b1, b2) \in Stamps
<1>1. b1 \div 4 \in Minutes
  BY DEF Minutes
<1>2. (s.hour \div 4) * 4 + (b1 % 4) \in Hours
  <2>1. s.hour \in 0 .. 23
    BY StampEdits DEF Hours
  <2>2. QED
    BY <2>1 DEF Hours
<1>3. Bcd(b2 % 128) \in Seconds
  BY BcdRange
<1>4. WithTime(s, b1, b2) \in Stamps
  BY <1>1, <1>2, <1>3, StampEdits, Zenon DEF WithTime
<1>5. QED
  BY <1>4 DEF WithTimeBelowEF

LEMMA ModRange ==
    ASSUME NEW n \in Int, NEW w \in Nat, w > 0
    PROVE  n % w \in 0 .. w - 1
OBVIOUS

(* A case of the switch leaves a pointer and says where the walk goes on.  *)
LEMMA PassedTyped ==
    ASSUME TypeOK, NEW n \in Nat, Passed(n)
    PROVE  /\ curcnt' \in 0 .. WordSize - 1 /\ pc' \in {"case", "finalize"}
           /\ UNCHANGED <<recs, image, firstfree, closed, base, result, passes>>
<1>1. curcnt + n \in Int
  BY WordRange DEF TypeOK
<1>2. (curcnt + n) % WordSize \in 0 .. WordSize - 1
  BY <1>1, WordRange, ModRange
<1>3. QED
  BY <1>2 DEF Passed, input

LEMMA NextOrdenTyped == TypeOK => NextOrden \in 0 .. WordSize - 1
<1> SUFFICES ASSUME TypeOK PROVE NextOrden \in 0 .. WordSize - 1
  OBVIOUS
<1>1. rec.orden + 1 \in Int
  BY WordRange DEF TypeOK, Notes
<1>2. QED
  BY <1>1, WordRange, ModRange DEF NextOrden

LEMMA ReportTyped ==
    ASSUME TypeOK, NEW kind \in {"touch", "key", "anti"}, NEW data \in Seq(Nat),
           NEW note \in Notes, evs' \in Stamps, base' = base,
           Report(kind, data, note)
    PROVE  /\ json' \in Seq(Events) /\ rec' \in Notes
           /\ fts' \in Seq([at : Stamps, row : Notes])
           /\ base' \in 0 .. Len(fts')
<1> DEFINE e == [kind |-> kind, at |-> evs', data |-> data]
<1> DEFINE l == [at |-> evs', row |-> note]
<1> DEFINE Lines == [at : Stamps, row : Notes]
<1>1. e \in Events /\ l \in Lines
  BY DEF Events
<1>2. json' = Append(json, e) /\ rec' = note /\ fts' \in {fts, Append(fts, l)}
  BY DEF Report
<1>3. json \in Seq(Events) /\ fts \in Seq(Lines) /\ base \in 0 .. Len(fts)
  BY DEF TypeOK
<1> HIDE DEF e, l, Lines
<1>4. json' \in Seq(Events)
  BY <1>1, <1>2, <1>3, AppendProperties
<1>5. Append(fts, l) \in Seq(Lines) /\ Len(Append(fts, l)) = Len(fts) + 1
  BY <1>1, <1>3, AppendProperties
<1>6. fts' \in Seq(Lines) /\ base' \in 0 .. Len(fts')
  <2>1. Len(fts) \in Nat
    BY <1>3, LenProperties
  <2>2. CASE fts' = fts
    BY <1>3, <2>2
  <2>3. CASE fts' = Append(fts, l)
    <3>1. 0 .. Len(fts) \subseteq 0 .. Len(fts')
      BY <1>5, <2>1, <2>3
    <3>2. QED
      BY <1>3, <1>5, <2>3, <3>1
  <2>4. QED
    BY <1>2, <2>2, <2>3
<1>7. QED
  BY <1>2, <1>4, <1>6 DEF Lines

-----------------------------------------------------------------------------
LEMMA TypeInit == Init => TypeOK
<1> SUFFICES ASSUME Init PROVE TypeOK
  OBVIOUS
<1>1. recs \in Recordings
  BY DEF Init
<1>2. PICK early \in BOOLEAN, n \in Losses :
         /\ n <= Len(Dump(recs, early))
         /\ image = SubSeq(Dump(recs, early), 1, Len(Dump(recs, early)) - n)
         /\ firstfree = Len(Dump(recs, early)) % WordSize
  BY DEF Init
<1>3. /\ Dump(recs, early) \in Seq(0 .. 255)
      /\ Len(Dump(recs, early)) \in Nat /\ n \in Nat
  BY <1>1, RecordingsAssumption, DumpTyped, LossesAssumption DEF Bytes8
<1>4. image \in Seq(0 .. 255)
  <2>1. Len(Dump(recs, early)) - n \in 0 .. Len(Dump(recs, early))
    BY <1>2, <1>3
  <2>2. ASSUME NEW i \in 1 .. Len(Dump(recs, early)) - n
        PROVE  Dump(recs, early)[i] \in 0 .. 255
    <3>1. i \in 1 .. Len(Dump(recs, early))
      BY <1>3, <2>1
    <3>2. QED
      BY <1>3, <3>1, ElementOfSeq
  <2>3. QED
    BY <1>2, <1>3, <2>1, <2>2, SubSeqProperties
<1>5. firstfree \in 0 .. WordSize - 1
  BY <1>2, <1>3, WordRange, ModRange
<1>6. NoTime \in Stamps
  BY DEF NoTime, Stamps
<1>7. /\ json \in Seq(Events) /\ rec \in Notes
      /\ fts \in Seq([at : Stamps, row : Notes]) /\ base \in 0 .. Len(fts)
  BY WordRange DEF Init, Notes
<1>8. QED
  BY <1>1, <1>4, <1>5, <1>6, <1>7, WordRange, SwitchAssumption DEF Init, TypeOK

LEMMA TypeNext == TypeOK /\ [Next]_vars => TypeOK'
<1> SUFFICES ASSUME TypeOK, [Next]_vars PROVE TypeOK'
  OBVIOUS
<1>b. /\ Byte(0) \in Bytes8 /\ Byte(1) \in Bytes8 /\ Byte(2) \in Bytes8
      /\ Byte(3) \in Bytes8 /\ Byte(4) \in Bytes8
  BY ByteRange
<1>c. EndMarkSize \in Nat
  BY DEF EndMarkSize, EndMark
<1>o. NextOrden \in 0 .. WordSize - 1
  BY NextOrdenTyped
<1>s. ASSUME NEW n \in Nat, Passed(n), UNCHANGED output,
             evs' \in Stamps, evt' \in {"none", "anti", "key", "change"}
      PROVE  TypeOK'
  BY <1>s, PassedTyped DEF TypeOK, output
<1>r. ASSUME NEW n \in Nat, Passed(n), NEW kind \in {"touch", "key", "anti"},
             NEW data \in Seq(Nat), NEW note \in Notes,
             Report(kind, data, note), evs' \in Stamps, evt' = "none"
      PROVE  TypeOK'
  <2>1. base' = base
    BY <1>r, PassedTyped
  <2>2. /\ json' \in Seq(Events) /\ rec' \in Notes
        /\ fts' \in Seq([at : Stamps, row : Notes])
        /\ base' \in 0 .. Len(fts')
    BY <1>r, <2>1, ReportTyped
  <2>3. QED
    BY <1>r, <2>2, PassedTyped DEF TypeOK
<1>1. CASE Call
  <2>1. evs' \in Stamps
    <3>1. evs' = [NoTime EXCEPT !.year = evs.year] /\ evs \in Stamps
      BY <1>1 DEF Call, TypeOK
    <3>2. NoTime \in Stamps
      BY DEF NoTime, Stamps
    <3>3. QED
      BY <3>1, <3>2, StampEdits, Zenon
  <2>2. base' \in 0 .. Len(fts')
    <3>1. Len(fts) \in Nat
      BY LenProperties DEF TypeOK
    <3>2. QED
      BY <1>1, <3>1 DEF Call
  <2>3. rec' \in Notes
    <3>1. rec' = [rec EXCEPT !.orden = 0] /\ rec \in Notes
      BY <1>1 DEF Call, TypeOK
    <3>2. 0 \in 0 .. WordSize - 1
      BY WordRange
    <3>3. QED
      BY <3>1, <3>2, NoteEdits, Zenon
  <2>4. passes' \in 0 .. MaxPasses
    BY <1>1, SwitchAssumption DEF Call, TypeOK
  <2>5. json' \in Seq(Events)
    BY <1>1 DEF Call
  <2>6. QED
    BY <1>1, <2>1, <2>2, <2>3, <2>4, <2>5, WordRange DEF Call, TypeOK, input
<1>2. CASE Day
  <2> DEFINE d == Bcd(Byte(1)) % 64
  <2>1. /\ evs' = [evs EXCEPT !.day = d] /\ evs \in Stamps
        /\ Passed(2) /\ UNCHANGED <<evt, output>>
    BY <1>2 DEF Day, TypeOK
  <2>2. d \in Days
    BY <1>b, BcdRange
  <2> HIDE DEF d
  <2>3. evs' \in Stamps
    BY <2>1, <2>2, StampEdits, Zenon
  <2>4. QED
    BY <1>s, <2>1, <2>3 DEF TypeOK
<1>3. CASE YearMonth
  <2> DEFINE y == 2000 + Bcd(Byte(1))
  <2> DEFINE m == Bcd(Byte(2) % 32)
  <2>1. /\ evs' = [evs EXCEPT !.year = y, !.month = m] /\ evs \in Stamps
        /\ Passed(3) /\ UNCHANGED <<evt, output>>
    BY <1>3 DEF YearMonth, TypeOK
  <2>2. y \in Years /\ m \in Months
    BY <1>b, BcdRange
  <2> HIDE DEF y, m
  <2>3. evs' \in Stamps
    BY <2>1, <2>2, StampEdits, Zenon
  <2>4. QED
    BY <1>s, <2>1, <2>3 DEF TypeOK
<1>4. CASE Kind
  BY <1>4, <1>s DEF Kind, TypeOK
<1>5. CASE HiHour
  <2>1. Byte(0) \in 240 .. 245 /\ evs.hour \in 0 .. 23
    BY <1>5, StampEdits DEF HiHour, At, TypeOK, Hours
  <2>2. (evs.hour % 4) + (Byte(0) % 8) * 4 \in Hours
    BY <2>1 DEF Hours
  <2>3. evs' = [evs EXCEPT !.hour = (evs.hour % 4) + (Byte(0) % 8) * 4]
    BY <1>5 DEF HiHour
  <2>4. evs' \in Stamps
    BY <2>2, <2>3, StampEdits, Zenon DEF TypeOK
  <2>5. QED
    BY <1>5, <1>s, <2>4 DEF HiHour, TypeOK
<1>6. CASE Reserved
  BY <1>6, <1>s DEF Reserved, TypeOK
<1>7. CASE EndOfData
  BY <1>7, <1>c, <1>s DEF EndOfData, TypeOK
<1>8. CASE Antivandal
  <2> DEFINE typ == Byte(2) % 8
  <2> DEFINE info == (Byte(2) \div 16) * 256 + Byte(3)
  <2> DEFINE note == [rec EXCEPT !.orden = NextOrden, !.typ = typ, !.info = info]
  <2>1. typ \in Nat /\ info \in Nat
    BY <1>b, PartRange
  <2>2. note \in Notes /\ <<typ, info>> \in Seq(Nat)
    <3>1. <<typ, info>> \in Seq(Nat)
      BY <2>1
    <3>2. rec \in Notes
      BY DEF TypeOK
    <3> HIDE DEF typ, info
    <3>3. note \in Notes
      BY <2>1, <3>2, <1>o, NoteEdits, Zenon
    <3>4. QED
      BY <3>1, <3>3
  <2>3. Report("anti", <<typ, info>>, note) /\ Passed(4) /\ evt' = "none"
    BY <1>8 DEF Antivandal, ClearedKind
  <2>4. evs' \in Stamps
    BY <1>8, <1>b, TimeTyped DEF Antivandal, At, TypeOK
  <2> HIDE DEF typ, info, note
  <2>5. QED
    BY <1>r, <2>2, <2>3, <2>4
<1>9. CASE Keypad
  <2> DEFINE key == Byte(2) % 16
  <2> DEFINE note == [orden |-> NextOrden, typ |-> 8, info |-> 0, chip |-> <<key>>]
  <2>1. key \in Nat
    BY <1>b, PartRange
  <2>2. note \in Notes /\ <<key>> \in Seq(Nat)
    <3>1. <<key>> \in Seq(Nat)
      BY <2>1
    <3>2. rec \in Notes
      BY DEF TypeOK
    <3>3. note \in Notes
      BY <3>1, <3>2, <1>o, NoteEdits
    <3>4. QED
      BY <3>1, <3>3
  <2>3. Report("key", <<key>>, note) /\ Passed(3) /\ evt' = "none"
    BY <1>9 DEF Keypad, ClearedKind
  <2>4. evs' \in Stamps
    BY <1>9, <1>b, TimeTyped DEF Keypad, At, TypeOK
  <2> HIDE DEF key, note
  <2>5. QED
    BY <1>r, <2>2, <2>3, <2>4
<1>10. CASE TimeChange
  <2>1. evs' \in Stamps
    BY <1>10, <1>b, TimeTyped DEF TimeChange, At, TypeOK
  <2>2. QED
    BY <1>10, <1>s, <2>1 DEF TimeChange, ClearedKind
<1>11. CASE Touch
  <2> DEFINE chip == <<Byte(2), Byte(3), Byte(4)>>
  <2> DEFINE note == [rec EXCEPT !.orden = NextOrden, !.chip = chip]
  <2>1. chip \in Seq(Nat)
    BY <1>b, PartRange
  <2>2. note \in Notes
    BY <2>1, <1>o, NoteEdits DEF TypeOK
  <2>3. evs' \in Stamps
    BY <1>11, <1>b, TimeTyped DEF Touch, At, TypeOK
  <2>4. Passed(5) /\ evt' = "none"
    BY <1>11 DEF Touch, ClearedKind
  <2>5. UNCHANGED output \/ Report("touch", chip, note)
    BY <1>11 DEF Touch
  <2> HIDE DEF chip, note
  <2>6. QED
    BY <1>r, <1>s, <2>1, <2>2, <2>3, <2>4, <2>5
<1>12. CASE NotImplemented
  BY <1>12 DEF NotImplemented, TypeOK, input, output, LastComma
<1>13. CASE Finalize
  BY <1>13 DEF Finalize, TypeOK, input, output, LastComma
<1>14. CASE UNCHANGED vars
  BY <1>14 DEF vars, TypeOK, input, output
<1>15. QED
  BY <1>1, <1>2, <1>3, <1>4, <1>5, <1>6, <1>7, <1>8, <1>9, <1>10, <1>11,
     <1>12, <1>13, <1>14 DEF Next, Cases

(* Whatever bytes the image holds, each part of the event stamp stays in   *)
(* the range its fields can show, and the pointer stays a WORD.            *)
THEOREM TypeCorrect == Spec => []TypeOK
BY TypeInit, TypeNext, PTL DEF Spec

-----------------------------------------------------------------------------
(* The walk goes forward by at least three bytes for an event, from a      *)
(* pointer that has not passed the data, so neither the pointer nor the    *)
(* count of events wraps.                                                  *)
Stride ==
    /\ firstfree < WordSize - EndMark
    /\ pc = "case" => curcnt < firstfree \/ curcnt = 0
    /\ rec.orden = Len(json)
    /\ 3 * Len(json) <= curcnt

LEMMA PassedForward ==
    ASSUME TypeOK, Stride, NEW n \in 1 .. 5, pc = "case", Passed(n)
    PROVE  /\ curcnt' = curcnt + n
           /\ pc' = "case" => curcnt' < firstfree'
           /\ firstfree' = firstfree
<1>1. /\ curcnt \in Nat /\ firstfree \in Nat
      /\ firstfree < WordSize - 5
  BY WordRange DEF TypeOK, Stride
<1>2. curcnt + n < WordSize
  BY <1>1, WordRange DEF Stride
<1>3. (curcnt + n) % WordSize = curcnt + n
  BY <1>1, <1>2, WordRange
<1>4. QED
  BY <1>3 DEF Passed, input

(* The number of an event is the length of the document with it.           *)
LEMMA OrdenCounts ==
    ASSUME TypeOK, Stride, pc = "case"
    PROVE  NextOrden = Len(json) + 1 /\ Len(json) \in Nat
<1>1. Len(json) \in Nat /\ curcnt \in Nat /\ curcnt < WordSize
  BY LenProperties, WordRange DEF TypeOK
<1>2. curcnt < WordSize - 5
  BY <1>1, WordRange DEF TypeOK, Stride
<1>3. Len(json) + 1 < WordSize
  BY <1>1, <1>2, WordRange DEF Stride
<1>4. (Len(json) + 1) % WordSize = Len(json) + 1
  BY <1>1, <1>3, WordRange
<1>5. QED
  BY <1>1, <1>4 DEF NextOrden, Stride

LEMMA StrideInit == Init => Stride
<1> SUFFICES ASSUME Init PROVE Stride
  OBVIOUS
<1>1. PICK early \in BOOLEAN : firstfree = Len(Dump(recs, early)) % WordSize
  BY DEF Init
<1>2. /\ Len(Dump(recs, early)) \in Nat
      /\ Len(Dump(recs, early)) < WordSize - EndMark
  BY RecordingsAssumption, DumpTyped, DumpAssumption DEF Init
<1>3. firstfree < WordSize - EndMark
  BY <1>1, <1>2, WordRange
<1>4. /\ pc = "call" /\ curcnt = 0 /\ json = <<>> /\ rec.orden = 0
  BY DEF Init
<1>5. QED
  BY <1>3, <1>4 DEF Stride

(* A case that reports nothing; one that reports an event.                 *)
LEMMA StrideQuiet ==
    ASSUME TypeOK, Stride, NEW n \in 1 .. 5, pc = "case", Passed(n),
           UNCHANGED output
    PROVE  Stride'
<1>1. Len(json) \in Nat /\ curcnt \in Nat
  BY LenProperties, WordRange DEF TypeOK
<1>2. /\ json' = json /\ rec' = rec
      /\ curcnt' = curcnt + n
      /\ pc' = "case" => curcnt' < firstfree'
      /\ firstfree' = firstfree
  BY PassedForward DEF output
<1>3. 3 * Len(json) <= curcnt + n
  BY <1>1 DEF Stride
<1>4. QED
  BY <1>2, <1>3 DEF Stride

LEMMA StrideReport ==
    ASSUME TypeOK, Stride, NEW n \in 3 .. 5, pc = "case", Passed(n),
           NEW e \in Events, json' = Append(json, e), rec'.orden = NextOrden
    PROVE  Stride'
<1>1. Len(json) \in Nat /\ curcnt \in Nat
  BY LenProperties, WordRange DEF TypeOK
<1>2. Len(json') = Len(json) + 1
  BY AppendProperties DEF TypeOK
<1>3. /\ curcnt' = curcnt + n
      /\ pc' = "case" => curcnt' < firstfree'
      /\ firstfree' = firstfree
  BY PassedForward
<1>4. rec'.orden = Len(json')
  BY <1>2, OrdenCounts
<1>5. 3 * (Len(json) + 1) <= curcnt + n
  BY <1>1 DEF Stride
<1>6. QED
  BY <1>2, <1>3, <1>4, <1>5 DEF Stride

-----------------------------------------------------------------------------
(* What each case of the switch does to the document and the lines.        *)

LEMMA AntivandalReports ==
    ASSUME TypeOK, Antivandal
    PROVE  \E data \in Seq(Nat), note \in Notes :
              /\ Report("anti", data, note)
              /\ note.orden = NextOrden
              /\ <<note.typ, note.info>> = data
<1> DEFINE typ == Byte(2) % 8
<1> DEFINE info == (Byte(2) \div 16) * 256 + Byte(3)
<1> DEFINE note == [rec EXCEPT !.orden = NextOrden, !.typ = typ, !.info = info]
<1>1. Report("anti", <<typ, info>>, note)
  BY DEF Antivandal
<1>2. typ \in Nat /\ info \in Nat
  BY ByteRange, PartRange
<1> HIDE DEF typ, info
<1>3. rec \in Notes /\ NextOrden \in 0 .. WordSize - 1
  BY NextOrdenTyped DEF TypeOK
<1>4. note \in Notes
  BY <1>2, <1>3, NoteEdits, Zenon
<1>5. note.orden = NextOrden /\ note.typ = typ /\ note.info = info
  BY <1>3 DEF Notes
<1>6. <<typ, info>> \in Seq(Nat)
  BY <1>2
<1> HIDE DEF note
<1>7. QED
  BY <1>1, <1>4, <1>5, <1>6

LEMMA KeypadReports ==
    ASSUME TypeOK, Keypad
    PROVE  \E data \in Seq(Nat), note \in Notes :
              /\ Report("key", data, note)
              /\ note.orden = NextOrden
              /\ note.chip = data
<1> DEFINE key == Byte(2) % 16
<1> DEFINE note == [orden |-> NextOrden, typ |-> 8, info |-> 0, chip |-> <<key>>]
<1>1. Report("key", <<key>>, note)
  BY DEF Keypad
<1>2. key \in Nat
  BY ByteRange, PartRange
<1> HIDE DEF key
<1>3. <<key>> \in Seq(Nat)
  BY <1>2
<1>4. rec \in Notes /\ NextOrden \in 0 .. WordSize - 1
  BY NextOrdenTyped DEF TypeOK
<1>5. note \in Notes
  BY <1>3, <1>4, NoteEdits
<1>6. note.orden = NextOrden /\ note.chip = <<key>>
  OBVIOUS
<1> HIDE DEF note
<1>7. QED
  BY <1>1, <1>3, <1>5, <1>6

LEMMA TouchReports ==
    ASSUME TypeOK, Touch
    PROVE  \/ UNCHANGED output
           \/ \E data \in Seq(Nat), note \in Notes :
                 /\ Report("touch", data, note)
                 /\ note.orden = NextOrden
                 /\ note.chip = data
<1> DEFINE chip == <<Byte(2), Byte(3), Byte(4)>>
<1> DEFINE note == [rec EXCEPT !.orden = NextOrden, !.chip = chip]
<1>1. UNCHANGED output \/ Report("touch", chip, note)
  BY DEF Touch
<1>2. Byte(2) \in Nat /\ Byte(3) \in Nat /\ Byte(4) \in Nat
  BY ByteRange, PartRange
<1>3. chip \in Seq(Nat)
  BY <1>2
<1> HIDE DEF chip
<1>4. rec \in Notes /\ NextOrden \in 0 .. WordSize - 1
  BY NextOrdenTyped DEF TypeOK
<1>5. note \in Notes
  BY <1>3, <1>4, NoteEdits
<1>6. note.orden = NextOrden /\ note.chip = chip
  BY <1>4 DEF Notes
<1> HIDE DEF note
<1>7. QED
  BY <1>1, <1>3, <1>5, <1>6

(* A step is quiet, reports one event, begins a pass or ends one.          *)
Fits(e, line, k) ==
    /\ line.at = e.at /\ line.row.orden = k
    /\ e.kind # "anti" => line.row.chip = e.data
    /\ e.kind = "anti" => <<line.row.typ, line.row.info>> = e.data

QuietStep == pc = "case" /\ UNCHANGED output /\ \E n \in 1 .. 5 : Passed(n)

ReportStep ==
    /\ pc = "case" /\ \E n \in 3 .. 5 : Passed(n)
    /\ \E e \in Events, line \in [at : Stamps, row : Notes] :
          /\ Fits(e, line, NextOrden)
          /\ json' = Append(json, e)
          /\ rec' = line.row
          /\ fts' = IF DbOpen THEN Append(fts, line) ELSE fts

EndStep ==
    /\ pc' = "returned"
    /\ UNCHANGED <<firstfree, curcnt, json, rec, fts, base>>

LEMMA ReportedStep ==
    ASSUME TypeOK, TypeOK', pc = "case", NEW n \in 3 .. 5, Passed(n),
           NEW kind \in {"touch", "key", "anti"},
           NEW data \in Seq(Nat), NEW note \in Notes,
           Report(kind, data, note), note.orden = NextOrden,
           kind # "anti" => note.chip = data,
           kind = "anti" => <<note.typ, note.info>> = data
    PROVE  ReportStep
<1> DEFINE e == [kind |-> kind, at |-> evs', data |-> data]
<1> DEFINE line == [at |-> evs', row |-> note]
<1>1. evs' \in Stamps
  BY DEF TypeOK
<1>2. e \in Events /\ line \in [at : Stamps, row : Notes]
  BY <1>1 DEF Events
<1>3. Fits(e, line, NextOrden)
  BY DEF Fits
<1>4. /\ json' = Append(json, e) /\ rec' = note
      /\ fts' = IF DbOpen THEN Append(fts, line) ELSE fts
  BY DEF Report
<1>5. line.row = note
  OBVIOUS
<1> HIDE DEF e, line
<1>6. QED
  BY <1>2, <1>3, <1>4, <1>5 DEF ReportStep

LEMMA StepKinds ==
    ASSUME TypeOK, TypeOK', [Next]_vars
    PROVE  \/ Call \/ QuietStep \/ ReportStep \/ EndStep \/ UNCHANGED vars
<1>1. CASE Day \/ YearMonth \/ Kind \/ HiHour \/ Reserved \/ EndOfData \/ TimeChange
  BY <1>1 DEF Day, YearMonth, Kind, HiHour, Reserved, EndOfData, TimeChange,
              At, EndMarkSize, EndMark, QuietStep
<1>2. CASE Antivandal
  <2>1. pc = "case" /\ Passed(4)
    BY <1>2 DEF Antivandal, At
  <2>2. QED
    BY <1>2, <2>1, AntivandalReports, ReportedStep
<1>3. CASE Keypad
  <2>1. pc = "case" /\ Passed(3)
    BY <1>3 DEF Keypad, At
  <2>2. QED
    BY <1>3, <2>1, KeypadReports, ReportedStep
<1>4. CASE Touch
  <2>1. pc = "case" /\ Passed(5)
    BY <1>4 DEF Touch, At
  <2>2. CASE UNCHANGED output
    BY <2>1, <2>2 DEF QuietStep
  <2>3. CASE ~UNCHANGED output
    BY <1>4, <2>1, <2>3, TouchReports, ReportedStep
  <2>4. QED
    BY <2>2, <2>3
<1>5. CASE NotImplemented \/ Finalize
  BY <1>5 DEF NotImplemented, Finalize, EndStep, input, output
<1>6. QED
  BY <1>1, <1>2, <1>3, <1>4, <1>5 DEF Next, Cases

LEMMA StrideNext == TypeOK /\ TypeOK' /\ Stride /\ [Next]_vars => Stride'
<1> SUFFICES ASSUME TypeOK, TypeOK', Stride, [Next]_vars PROVE Stride'
  OBVIOUS
<1>1. CASE Call
  <2>1. /\ curcnt' = 0 /\ json' = <<>> /\ firstfree' = firstfree
        /\ rec' = [rec EXCEPT !.orden = 0]
    BY <1>1 DEF Call, input
  <2>2. rec'.orden = 0
    BY <2>1 DEF TypeOK, Notes
  <2>3. QED
    BY <2>1, <2>2 DEF Stride
<1>2. CASE QuietStep
  BY <1>2, StrideQuiet DEF QuietStep
<1>3. CASE ReportStep
  <2>1. PICK e \in Events, line \in [at : Stamps, row : Notes] :
           /\ Fits(e, line, NextOrden)
           /\ json' = Append(json, e) /\ rec' = line.row
    BY <1>3 DEF ReportStep
  <2>2. rec'.orden = NextOrden
    BY <2>1 DEF Fits
  <2>3. QED
    BY <1>3, <2>1, <2>2, StrideReport DEF ReportStep
<1>4. CASE EndStep
  BY <1>4 DEF EndStep, Stride
<1>5. CASE UNCHANGED vars
  BY <1>5 DEF vars, input, output, Stride
<1>6. QED
  BY <1>1, <1>2, <1>3, <1>4, <1>5, StepKinds

-----------------------------------------------------------------------------
(* The property with its parts named.                                      *)
LinesFit ==
    DbOpen =>
        /\ Len(fts) - base = Len(json)
        /\ \A i \in DOMAIN json : Fits(json[i], fts[base + i], i)

LEMMA LinesFitInit == Init => LinesFit
BY DEF Init, LinesFit

LEMMA LinesFitNext ==
    TypeOK /\ TypeOK' /\ Stride /\ LinesFit /\ [Next]_vars => LinesFit'
<1> SUFFICES ASSUME TypeOK, TypeOK', Stride, LinesFit, [Next]_vars, DbOpen
             PROVE  LinesFit'
  BY DEF LinesFit
<1> DEFINE Lines == [at : Stamps, row : Notes]
<1>t. /\ json \in Seq(Events) /\ fts \in Seq(Lines)
      /\ base \in Nat /\ Len(fts) \in Nat /\ Len(json) \in Nat
      /\ DOMAIN json = 1 .. Len(json)
  BY LenProperties DEF TypeOK
<1>l. /\ Len(fts) = base + Len(json)
      /\ \A i \in DOMAIN json : Fits(json[i], fts[base + i], i)
  BY <1>t DEF LinesFit
<1>1. CASE Call
  <2>1. json' = <<>> /\ fts' = fts /\ base' = Len(fts)
    BY <1>1 DEF Call
  <2>2. Len(fts') - base' = Len(json')
    BY <1>t, <2>1
  <2>3. DOMAIN json' = {}
    BY <2>1
  <2>4. QED
    BY <2>2, <2>3 DEF LinesFit
<1>2. CASE QuietStep
  <2>1. json' = json /\ fts' = fts /\ base' = base
    BY <1>2 DEF QuietStep, Passed, output
  <2>2. QED
    BY <2>1 DEF LinesFit
<1>3. CASE ReportStep
  <2>1. PICK e \in Events, line \in Lines :
           /\ Fits(e, line, NextOrden)
           /\ json' = Append(json, e)
           /\ fts' = Append(fts, line)
    BY <1>3 DEF ReportStep
  <2>2. pc = "case" /\ base' = base
    BY <1>3 DEF ReportStep, Passed
  <2>3. NextOrden = Len(json) + 1
    BY <2>2, OrdenCounts
  <2> HIDE DEF Lines
  <2>4. /\ json' \in Seq(Events)
        /\ Len(json') = Len(json) + 1
        /\ json'[Len(json) + 1] = e
        /\ \A i \in 1 .. Len(json) : json'[i] = json[i]
    BY <1>t, <2>1, AppendProperties
  <2>5. /\ Len(fts') = Len(fts) + 1
        /\ fts'[Len(fts) + 1] = line
        /\ \A i \in 1 .. Len(fts) : fts'[i] = fts[i]
    BY <1>t, <2>1, AppendProperties
  <2>6. Len(fts') - base' = Len(json')
    BY <1>t, <1>l, <2>2, <2>4, <2>5
  <2>7. ASSUME NEW i \in DOMAIN json' PROVE Fits(json'[i], fts'[base' + i], i)
    <3>1. i \in 1 .. Len(json) + 1
      BY <2>4, <2>7, LenProperties
    <3>2. CASE i \in 1 .. Len(json)
      <4>1. base + i \in 1 .. Len(fts)
        BY <1>t, <1>l, <3>2
      <4>2. json'[i] = json[i] /\ fts'[base + i] = fts[base + i]
        BY <2>4, <2>5, <3>2, <4>1
      <4>3. Fits(json[i], fts[base + i], i)
        BY <1>t, <1>l, <3>2
      <4>4. QED
        BY <2>2, <4>2, <4>3
    <3>3. CASE i = Len(json) + 1
      <4>1. base + i = Len(fts) + 1
        BY <1>t, <1>l, <3>3
      <4>2. QED
        BY <2>1, <2>2, <2>3, <2>4, <2>5, <3>3, <4>1
    <3>4. QED
      BY <1>t, <3>1, <3>2, <3>3
  <2>8. QED
    BY <2>6, <2>7 DEF LinesFit
<1>4. CASE EndStep
  BY <1>4 DEF EndStep, LinesFit
<1>5. CASE UNCHANGED vars
  BY <1>5 DEF vars, output, LinesFit
<1>6. QED
  BY <1>1, <1>2, <1>3, <1>4, <1>5, StepKinds

(* Whatever bytes the image holds, the lines for the database are those of *)
(* the document, event for event, numbered from 1 without a wrap.          *)
THEOREM LinesAreTheDocument == Spec => []RowsFollowDocument
<1>1. LinesFit => RowsFollowDocument
  BY DEF LinesFit, RowsFollowDocument, Fits
<1>2. TypeOK /\ TypeOK' /\ Stride /\ [Next]_vars => Stride'
  BY StrideNext
<1>3. TypeOK /\ TypeOK' /\ Stride /\ LinesFit /\ [Next]_vars => LinesFit'
  BY LinesFitNext
<1>4. QED
  BY <1>1, <1>2, <1>3, StrideInit, LinesFitInit, TypeCorrect, PTL DEF Spec

-----------------------------------------------------------------------------
(* The walk: as long as the bytes that were read last, it is at a part of  *)
(* a record and has told what the records before it report.                *)

ImageOf(early) ==
    /\ Len(image) <= Len(Dump(recs, early))
    /\ \A i \in 1 .. Len(image) : image[i] = Dump(recs, early)[i]
    /\ firstfree = Len(Dump(recs, early))

Nothing == recs = <<>> /\ json = <<>>
Beyond == Len(image) < firstfree /\ curcnt >= Len(image) /\ OnlyLastSpoiled

Walk(early) ==
    /\ ImageOf(early)
    /\ pc = "call" => json = <<>> /\ curcnt = 0
    /\ pc # "returned" => result = "none"
    /\ pc = "case" => \/ Nothing
                      \/ Beyond
                      \/ /\ curcnt < firstfree
                         /\ Onward(recs, early, curcnt, evs, evt, json)
    /\ pc = "finalize" => Nothing \/ Beyond \/ AtEnd(recs, early, curcnt, json)
    /\ pc = "returned" => Decoded /\ OnlyLastSpoiled

LEMMA RecsTyped == TypeOK => recs \in Seq(Records) /\ Len(recs) \in Nat
BY RecordingsAssumption, LenProperties DEF TypeOK

(* What is told so far is what is to be told, as far as it goes.           *)
LEMMA ToldSoFar ==
    ASSUME NEW h \in Seq(Records), NEW n \in 0 .. Len(h), NEW j, TellsAll(j, Reports(h)[n])
    PROVE  /\ Len(j) \in Nat /\ Len(Reports(h)[Len(h)]) \in Nat
           /\ Len(j) <= Len(Reports(h)[Len(h)])
           /\ \A i \in 1 .. Len(j) : Tells(j[i], Reports(h)[Len(h)][i])
<1>1. Len(h) \in 0 .. Len(h)
  BY LenProperties
<1>2. Begins(Reports(h)[n], Reports(h)[Len(h)])
  BY <1>1, ReportsGrow
<1> DEFINE a == Reports(h)[n]
           b == Reports(h)[Len(h)]
<1>3. a \in Seq(Records) /\ b \in Seq(Records)
  BY <1>1, ReportsAre
<1> HIDE DEF a, b
<1>4. Len(a) \in Nat /\ Len(b) \in Nat
  BY <1>3, LenProperties
<1>5. Len(j) = Len(a) /\ \A i \in 1 .. Len(j) : Tells(j[i], a[i])
  BY DEF TellsAll, a
<1>6. Len(a) <= Len(b) /\ \A i \in 1 .. Len(a) : b[i] = a[i]
  BY <1>2 DEF Begins, a, b
<1>7. \A i \in 1 .. Len(j) : Tells(j[i], b[i])
  BY <1>5, <1>6
<1>8. QED
  BY <1>4, <1>5, <1>6, <1>7 DEF b

(* From there the last event may yet be spoiled.                           *)
LEMMA SpoiledByOne ==
    ASSUME TypeOK, TypeOK', NEW n \in 0 .. Len(recs), TellsAll(json, Reports(recs)[n]),
           recs' = recs, json' = json \/ \E e \in Events : json' = Append(json, e)
    PROVE  OnlyLastSpoiled'
<1> DEFINE r == Reports(recs)[Len(recs)]
<1>1. /\ Len(json) \in Nat /\ Len(r) \in Nat /\ Len(json) <= Len(r)
      /\ \A i \in 1 .. Len(json) : Tells(json[i], r[i])
  BY RecsTyped, ToldSoFar
<1>2. Expected' = r
  BY DEF Expected
<1>3. ASSUME NEW i \in 1 .. Len(json') - 1
      PROVE  i \in 1 .. Len(json) /\ json'[i] = json[i]
  <2>1. CASE json' = json
    BY <1>1, <2>1
  <2>2. ASSUME NEW e \in Events, json' = Append(json, e)
        PROVE  i \in 1 .. Len(json) /\ json'[i] = json[i]
    <3>1. json \in Seq(Events)
      BY DEF TypeOK
    <3>2. Len(json') = Len(json) + 1 /\ \A k \in 1 .. Len(json) : json'[k] = json[k]
      BY <2>2, <3>1, AppendProperties
    <3>3. QED
      BY <1>1, <1>3, <3>2
  <2>3. QED
    BY <2>1, <2>2
<1> HIDE DEF r
<1>4. \A i \in 1 .. Len(json') - 1 : i <= Len(r) /\ Tells(json'[i], r[i])
  BY <1>1, <1>3
<1>5. QED
  BY <1>2, <1>4 DEF OnlyLastSpoiled

LEMMA ToldMeans ==
    ASSUME TypeOK, NEW n \in 0 .. Len(recs), TellsAll(json, Reports(recs)[n])
    PROVE  /\ OnlyLastSpoiled
           /\ Len(json) <= Len(Expected)
           /\ \A i \in DOMAIN json : Tells(json[i], Expected[i])
           /\ n = Len(recs) => Len(json) = Len(Expected)
<1> DEFINE r == Reports(recs)[Len(recs)]
<1>1. /\ Len(json) \in Nat /\ Len(r) \in Nat /\ Len(json) <= Len(r)
      /\ \A i \in 1 .. Len(json) : Tells(json[i], r[i])
  BY RecsTyped, ToldSoFar
<1>2. Expected = r
  BY DEF Expected
<1>3. DOMAIN json = 1 .. Len(json)
  BY LenProperties DEF TypeOK
<1>4. n = Len(recs) => Len(json) = Len(r)
  BY DEF TellsAll
<1> HIDE DEF r
<1>5. QED
  BY <1>1, <1>2, <1>3, <1>4 DEF OnlyLastSpoiled

LEMMA EmptyMeans ==
    ASSUME TypeOK, json = <<>>
    PROVE  /\ OnlyLastSpoiled
           /\ Len(json) <= Len(Expected)
           /\ \A i \in DOMAIN json : Tells(json[i], Expected[i])
           /\ recs = <<>> => Len(json) = Len(Expected)
<1>1. 0 \in 0 .. Len(recs)
  BY RecsTyped
<1>2. Reports(recs)[0] = <<>>
  BY RecsTyped, ReportsAre
<1>3. TellsAll(json, Reports(recs)[0])
  BY <1>2 DEF TellsAll
<1>4. recs = <<>> => Len(recs) = 0
  OBVIOUS
<1>5. QED
  BY <1>1, <1>3, <1>4, ToldMeans

(* Inside a record the walk has not come to the end.                       *)
LEMMA BodyLength ==
    ASSUME NEW r \in Records, r.kind \in {"touch", "key", "anti", "change"}
    PROVE  Len(Body(r)) \in 2 .. 5
<1>1. CASE r.kind = "touch"
  BY <1>1, BodyIs
<1>2. CASE r.kind = "key"
  BY <1>2, BodyIs
<1>3. CASE r.kind = "anti"
  BY <1>3, BodyIs
<1>4. CASE r.kind = "change"
  BY <1>4, BodyIs
<1>5. QED
  BY <1>1, <1>2, <1>3, <1>4

LEMMA PartNotEmpty ==
    ASSUME NEW V, NEW part \in Seq(V), NEW rest \in Seq(V), Len(part) \in 1 .. 5
    PROVE  Len(Cat(part, rest)) > 0
<1>1. Len(Cat(part, rest)) = Len(part) + Len(rest)
  BY ConcatProperties DEF Cat
<1>2. Len(rest) \in Nat
  BY LenProperties
<1>3. PICK a \in 1 .. 5, b \in Nat : a = Len(part) /\ b = Len(rest)
  BY <1>2
<1>4. Len(Cat(part, rest)) = a + b /\ a + b > 0
  BY <1>1, <1>3
<1>5. QED
  BY <1>4

LEMMA LeftNotEmpty ==
    ASSUME NEW r \in Records, NEW p \in Pending, NEW early \in BOOLEAN,
           r.kind = "touch" => ~p.kind,
           NonePending(p) => r.kind \in {"touch", "key", "anti", "change"}
    PROVE  Len(Left(r, p, early)) > 0
<1>1. ASSUME NEW q \in Pending PROVE Left(r, q, early) \in Seq(Bytes8)
  BY LeftTyped
<1>2. /\ [p EXCEPT !.kind = FALSE] \in Pending /\ [p EXCEPT !.month = FALSE] \in Pending
      /\ [p EXCEPT !.day = FALSE] \in Pending /\ [p EXCEPT !.hour = FALSE] \in Pending
  BY DEF Pending
<1>3. ASSUME NEW part \in Seq(Bytes8), Len(part) \in 1 .. 5,
             NEW q \in Pending, Left(r, p, early) = Cat(part, Left(r, q, early))
      PROVE  Len(Left(r, p, early)) > 0
  BY <1>1, <1>3, PartNotEmpty
<1>4. /\ YearMonthBytes(r.at) \in Seq(Bytes8) /\ Len(YearMonthBytes(r.at)) \in 1 .. 5
      /\ DayBytes(r.at) \in Seq(Bytes8) /\ Len(DayBytes(r.at)) \in 1 .. 5
      /\ HourBytes(r.at) \in Seq(Bytes8) /\ Len(HourBytes(r.at)) \in 1 .. 5
  BY RecordTyped, MarkBytesTyped
<1>5. p.kind => KindBytes(r) \in Seq(Bytes8) /\ Len(KindBytes(r)) \in 1 .. 5
  BY KindBytesAre
<1>6. NonePending(p) => Len(Body(r)) > 0
  BY BodyLength
<1>7. QED
  BY <1>2, <1>3, <1>4, <1>5, <1>6, NextPart

LEMMA InsideRecord ==
    ASSUME NEW h \in Seq(Records), NEW n \in 1 .. Len(h), NEW p \in Pending,
           NEW early \in BOOLEAN, NEW c, NEW s, NEW k, NEW j,
           InRecord(h, n, p, early, c, s, k, j)
    PROVE  c < Len(Dump(h, early))
<1>1. h[n] \in Records /\ c \in Nat /\ Len(Dump(h, early)) \in Nat
  BY InRecordTyped, DumpTyped
<1>2. c + Len(Left(h[n], p, early)) <= Len(Dump(h, early))
  BY DEF InRecord, Ahead
<1>3. h[n].kind \in Kinds
  BY <1>1, RecordTyped
<1>4. /\ h[n].kind = "touch" => ~p.kind
      /\ NonePending(p) => h[n].kind \in {"touch", "key", "anti", "change"}
  BY <1>3 DEF InRecord, Kinds, NonePending
<1>5. Len(Left(h[n], p, early)) > 0
  BY <1>1, <1>4, LeftNotEmpty
<1>6. Len(Left(h[n], p, early)) \in Nat
  BY <1>1, LeftTyped, LenProperties
<1>7. QED
  BY <1>1, <1>2, <1>5, <1>6

(* The first byte decides which case is taken.                             *)
LEMMA ByteDecides ==
    ASSUME TypeOK, Next, pc = "case"
    PROVE  /\ Byte(0) = 255 => EndOfData
           /\ Byte(0) = 246 => Day
           /\ Byte(0) = 247 => YearMonth
           /\ Byte(0) \in 240 .. 245 => HiHour
           /\ Byte(0) \in {248, 249, 254} => Kind
           /\ Byte(0) \in {250, 252, 253} => Reserved
           /\ Byte(0) = 251 => NotImplemented
           /\ Byte(0) \in 0 .. 239 => /\ evt = "none" => Touch
                                      /\ evt = "key" => Keypad
                                      /\ evt = "anti" => Antivandal
                                      /\ evt = "change" => TimeChange
<1>1. Cases \/ NotImplemented
  BY DEF Next, Call, Finalize
<1>2. Day => Byte(0) = 246
  BY DEF Day, At
<1>3. YearMonth => Byte(0) = 247
  BY DEF YearMonth, At
<1>4. HiHour => Byte(0) \in 240 .. 245
  BY DEF HiHour, At
<1>5. Kind => Byte(0) \in {248, 249, 254}
  BY DEF Kind, At
<1>6. Reserved => Byte(0) \in {250, 252, 253}
  BY DEF Reserved, At
<1>7. NotImplemented => Byte(0) = 251
  BY DEF NotImplemented, At
<1>8. EndOfData => Byte(0) = 255
  BY DEF EndOfData, At
<1>9. /\ Touch => Byte(0) \in 0 .. 239 /\ evt = "none"
      /\ Keypad => Byte(0) \in 0 .. 239 /\ evt = "key"
      /\ Antivandal => Byte(0) \in 0 .. 239 /\ evt = "anti"
      /\ TimeChange => Byte(0) \in 0 .. 239 /\ evt = "change"
  BY DEF Touch, Keypad, Antivandal, TimeChange, At
<1>10. Byte(0) \in Bytes8
  BY ByteRange
<1>11. PICK x \in Bytes8 : x = Byte(0)
  BY <1>10
<1>12. /\ Day => x = 246
       /\ YearMonth => x = 247
       /\ HiHour => x \in 240 .. 245
       /\ Kind => x \in {248, 249, 254}
       /\ Reserved => x \in {250, 252, 253}
       /\ NotImplemented => x = 251
       /\ EndOfData => x = 255
       /\ Touch => x \in 0 .. 239 /\ evt = "none"
       /\ Keypad => x \in 0 .. 239 /\ evt = "key"
       /\ Antivandal => x \in 0 .. 239 /\ evt = "anti"
       /\ TimeChange => x \in 0 .. 239 /\ evt = "change"
  BY <1>2, <1>3, <1>4, <1>5, <1>6, <1>7, <1>8, <1>9, <1>11
<1>13. Day \/ YearMonth \/ HiHour \/ Kind \/ Reserved \/ NotImplemented \/ EndOfData
       \/ Touch \/ Keypad \/ Antivandal \/ TimeChange
  BY <1>1 DEF Cases
<1>14. /\ x = 255 => EndOfData
       /\ x = 246 => Day
       /\ x = 247 => YearMonth
       /\ x \in 240 .. 245 => HiHour
       /\ x \in {248, 249, 254} => Kind
       /\ x \in {250, 252, 253} => Reserved
       /\ x = 251 => NotImplemented
       /\ x \in 0 .. 239 => /\ evt = "none" => Touch
                            /\ evt = "key" => Keypad
                            /\ evt = "anti" => Antivandal
                            /\ evt = "change" => TimeChange
  BY <1>11, <1>12, <1>13 DEF Bytes8
<1>15. QED
  BY <1>11, <1>14

(* What the walk reads at a part that is ahead.                            *)
LEMMA PartRead ==
    ASSUME TypeOK, NEW early \in BOOLEAN, ImageOf(early), NEW part \in Seq(Bytes8),
           Ahead(Dump(recs, early), curcnt, part)
    PROVE  /\ \A i \in 0 .. 4 : i < Len(part) /\ curcnt + i < Len(image)
                                    => Byte(i) = part[i + 1]
           /\ curcnt >= Len(image) => Byte(0) = 255
           /\ curcnt + Len(part) <= firstfree
<1> DEFINE d == Dump(recs, early)
           m == Len(part)
           l == Len(image)
<1>1. curcnt \in Nat /\ m \in Nat /\ l \in Nat
  BY WordRange, LenProperties DEF TypeOK
<1>2. /\ curcnt + m <= Len(d) /\ \A i \in 1 .. m : d[curcnt + i] = part[i]
      /\ \A i \in 1 .. l : image[i] = d[i]
      /\ Len(d) = firstfree
  BY DEF Ahead, ImageOf
<1> HIDE DEF d, m, l
<1>3. ASSUME NEW i \in 0 .. 4, i < m, curcnt + i < l
      PROVE  Byte(i) = part[i + 1]
  <2>1. Byte(i) = image[curcnt + i + 1]
    BY <1>3 DEF Byte, l
  <2>2. curcnt + i + 1 \in 1 .. l /\ i + 1 \in 1 .. m /\ curcnt + i + 1 = curcnt + (i + 1)
    BY <1>1, <1>3
  <2>3. image[curcnt + i + 1] = d[curcnt + (i + 1)]
    BY <1>2, <2>2
  <2>4. QED
    BY <1>2, <2>1, <2>2, <2>3
<1>4. curcnt >= l => Byte(0) = 255
  BY <1>1 DEF Byte, BLANK, l
<1>5. QED
  BY <1>2, <1>3, <1>4 DEF d, m, l

(* The next state of the walk: cut short, or at the next part.             *)
LEMMA CutShort ==
    ASSUME TypeOK, TypeOK', Stride, [Next]_vars, NEW early \in BOOLEAN, Walk(early),
           pc = "case",
           NEW n \in 0 .. Len(recs), TellsAll(json, Reports(recs)[n]),
           NEW m \in 1 .. 5, Passed(m), curcnt + m >= Len(image), Len(image) < firstfree
    PROVE  Walk(early)'
<1>1. /\ curcnt' = curcnt + m /\ firstfree' = firstfree /\ pc' \in {"case", "finalize"}
      /\ UNCHANGED <<recs, image, result>>
  BY PassedForward, PassedTyped
<1>2. json' = json \/ \E e \in Events : json' = Append(json, e)
  <2>1. ~Call /\ ~EndStep
    BY <1>1 DEF Call, EndStep
  <2>2. CASE QuietStep
    BY <2>2 DEF QuietStep, output
  <2>3. CASE ReportStep
    BY <2>3 DEF ReportStep
  <2>4. CASE UNCHANGED vars
    BY <2>4 DEF vars, output
  <2>5. QED
    BY <2>1, <2>2, <2>3, <2>4, StepKinds
<1>3. OnlyLastSpoiled'
  BY <1>1, <1>2, SpoiledByOne
<1>4. Beyond'
  BY <1>1, <1>3 DEF Beyond
<1>5. ImageOf(early)'
  BY <1>1 DEF Walk, ImageOf
<1>6. result' = "none"
  BY <1>1 DEF Walk
<1>7. QED
  BY <1>1, <1>4, <1>5, <1>6 DEF Walk

LEMMA GoesOn ==
    ASSUME TypeOK, TypeOK', Stride, NEW early \in BOOLEAN, Walk(early), pc = "case",
           NEW m \in 1 .. 5, Passed(m),
           Onward(recs, early, curcnt + m, evs', evt', json')
    PROVE  Walk(early)'
<1>1. /\ curcnt' = curcnt + m /\ firstfree' = firstfree /\ pc' \in {"case", "finalize"}
      /\ UNCHANGED <<recs, image, result>>
  BY PassedForward, PassedTyped
<1>2. ImageOf(early)' /\ firstfree = Len(Dump(recs, early))
  BY <1>1 DEF Walk, ImageOf
<1>3. result' = "none"
  BY <1>1 DEF Walk
<1>4. pc' = IF curcnt' < firstfree THEN "case" ELSE "finalize"
  BY DEF Passed
<1>5. Onward(recs, early, curcnt', evs', evt', json')
  BY <1>1
<1>6. CASE curcnt' < firstfree
  <2>1. pc' = "case" /\ curcnt' < firstfree'
    BY <1>1, <1>4, <1>6
  <2>2. QED
    BY <1>1, <1>2, <1>3, <1>4, <1>5, <1>6 DEF Walk
<1>7. CASE ~(curcnt' < firstfree)
  <2>1. AtEnd(recs, early, curcnt', json')
    BY <1>2, <1>5, <1>7, RecsTyped, InsideRecord DEF Onward
  <2>2. QED
    BY <1>1, <1>2, <1>3, <1>4, <1>7, <2>1 DEF Walk
<1>8. QED
  BY <1>6, <1>7

(* At a part that is ahead: the walk reads it and goes on behind it, or    *)
(* the image ends before it and what comes does not matter.                *)
LEMMA PartStep ==
    ASSUME TypeOK, TypeOK', Stride, Next, NEW early \in BOOLEAN, Walk(early),
           pc = "case",
           NEW n \in 0 .. Len(recs), TellsAll(json, Reports(recs)[n]),
           NEW part \in Seq(Bytes8), NEW m \in 1 .. 5, Len(part) = m,
           Ahead(Dump(recs, early), curcnt, part),
           Byte(0) = part[1] => Passed(m),
           (\A i \in 0 .. 4 : i < m => Byte(i) = part[i + 1])
               => Onward(recs, early, curcnt + m, evs', evt', json')
    PROVE  Walk(early)'
<1>1. ImageOf(early) /\ [Next]_vars
  BY DEF Walk
<1>2. /\ \A i \in 0 .. 4 : i < m /\ curcnt + i < Len(image) => Byte(i) = part[i + 1]
      /\ curcnt >= Len(image) => Byte(0) = 255
      /\ curcnt + m <= firstfree
  BY <1>1, PartRead
<1>3. curcnt \in Nat /\ Len(image) \in Nat /\ firstfree \in Nat
  BY WordRange, LenProperties DEF TypeOK
<1>4. CASE curcnt >= Len(image)
  <2>1. Passed(5)
    BY <1>2, <1>4, ByteDecides DEF EndOfData, EndMarkSize, EndMark
  <2>2. Len(image) < firstfree /\ curcnt + 5 >= Len(image)
    BY <1>2, <1>3, <1>4
  <2>3. QED
    BY <1>1, <2>1, <2>2, CutShort
<1>5. CASE curcnt < Len(image)
  <2>1. Byte(0) = part[1]
    BY <1>2, <1>3, <1>5
  <2>2. Passed(m)
    BY <2>1
  <2>3. CASE curcnt + m > Len(image)
    <3>1. Len(image) < firstfree /\ curcnt + m >= Len(image)
      BY <1>2, <1>3, <2>3
    <3>2. QED
      BY <1>1, <2>2, <3>1, CutShort
  <2>4. CASE curcnt + m <= Len(image)
    <3>1. \A i \in 0 .. 4 : i < m => Byte(i) = part[i + 1]
      BY <1>2, <1>3, <2>4
    <3>2. QED
      BY <2>2, <3>1, GoesOn
  <2>5. QED
    BY <1>3, <2>3, <2>4
<1>6. QED
  BY <1>3, <1>4, <1>5

(* What is known inside a record.                                          *)
LEMMA Inside ==
    ASSUME TypeOK, NEW early \in BOOLEAN, NEW n \in 1 .. Len(recs), NEW p \in Pending,
           InRecord(recs, n, p, early, curcnt, evs, evt, json)
    PROVE  /\ recs[n] \in Records /\ recs[n].at \in Clock /\ recs[n].kind \in Kinds
           /\ n - 1 \in 0 .. Len(recs) /\ TellsAll(json, Reports(recs)[n - 1])
           /\ Agrees(evs, recs[n].at, p) /\ evt = Announced(recs[n], p)
           /\ recs[n].kind = "touch" => ~p.kind
           /\ recs[n].kind = "sensor" => p.kind
<1>1. recs[n] \in Records
  BY RecsTyped, InRecordTyped
<1>2. n - 1 \in 0 .. Len(recs)
  BY RecsTyped
<1>3. QED
  BY <1>1, <1>2, RecordTyped DEF InRecord

(* The marks, as the walk takes them.                                      *)
LEMMA MarksRead ==
    ASSUME NEW t \in Clock
    PROVE  /\ 2000 + Bcd(ToBcd(t.year - 2000)) = t.year
           /\ Bcd(ToBcd(t.month) % 32) = t.month
           /\ Bcd(ToBcd(t.day)) % 64 = t.day
           /\ HourByte(t) % 8 = t.hour \div 4
<1>1. /\ t.year \in 2000 .. 2099 /\ t.month \in 1 .. 12 /\ t.day \in 1 .. 31
      /\ t.hour \in 0 .. 23
  BY ClockTyped
<1>2. 2000 + Bcd(ToBcd(t.year - 2000)) = t.year
  <2>1. t.year - 2000 \in 0 .. 99
    BY <1>1
  <2>2. PICK v \in 0 .. 99 : v = t.year - 2000
    BY <2>1
  <2>3. Bcd(ToBcd(v)) = v
    BY BcdCode
  <2>4. t.year = 2000 + v
    BY <1>1, <2>2
  <2>5. QED
    BY <2>2, <2>3, <2>4
<1>3. ASSUME NEW u \in 1 .. 12 PROVE Bcd(ToBcd(u) % 32) = u
  <2>1. ToBcd(u) \in 0 .. 31
    BY DEF ToBcd
  <2>2. Bcd(ToBcd(u)) = u
    <3>1. u \in 0 .. 99
      OBVIOUS
    <3>2. QED
      BY <3>1, BcdCode
  <2>3. ToBcd(u) % 32 = ToBcd(u)
    BY <2>1
  <2>4. QED
    BY <2>2, <2>3
<1>4. ASSUME NEW u \in 1 .. 31 PROVE Bcd(ToBcd(u)) % 64 = u
  <2>1. Bcd(ToBcd(u)) = u
    <3>1. u \in 0 .. 99
      OBVIOUS
    <3>2. QED
      BY <3>1, BcdCode
  <2>2. u % 64 = u
    OBVIOUS
  <2>3. QED
    BY <2>1, <2>2
<1>5. ASSUME NEW u \in 0 .. 23 PROVE (240 + u \div 4) % 8 = u \div 4
  OBVIOUS
<1>6. HourByte(t) % 8 = t.hour \div 4
  BY <1>1, <1>5 DEF HourByte
<1>7. QED
  BY <1>1, <1>2, <1>3, <1>4, <1>6

LEMMA WalkMonth ==
    ASSUME TypeOK, TypeOK', Stride, Next, NEW early \in BOOLEAN, Walk(early),
           pc = "case", NEW n \in 1 .. Len(recs), NEW p \in Pending,
           InRecord(recs, n, p, early, curcnt, evs, evt, json), p.month,
           Left(recs[n], p, early) =
               Cat(YearMonthBytes(recs[n].at), Left(recs[n], [p EXCEPT !.month = FALSE], early))
    PROVE  Walk(early)'
<1> DEFINE t == recs[n].at
           part == YearMonthBytes(t)
           q == [p EXCEPT !.month = FALSE]
<1>1. /\ recs[n] \in Records /\ t \in Clock
      /\ n - 1 \in 0 .. Len(recs) /\ TellsAll(json, Reports(recs)[n - 1])
      /\ Agrees(evs, t, p) /\ evt = Announced(recs[n], p)
      /\ recs[n].kind = "touch" => ~p.kind
      /\ recs[n].kind = "sensor" => p.kind
  BY Inside
<1>2. /\ q \in Pending /\ (q.kind <=> p.kind) /\ (q.day <=> p.day) /\ (q.hour <=> p.hour)
      /\ ~q.month
  BY DEF Pending
<1>3. part \in Seq(Bytes8) /\ Len(part) = 3
  BY <1>1, MarkBytesTyped
<1>4. part[1] = 247 /\ part[2] = ToBcd(t.year - 2000) /\ part[3] = ToBcd(t.month)
  BY DEF YearMonthBytes
<1>5. Announced(recs[n], q) = evt
  BY <1>1, <1>2 DEF Announced
<1> HIDE DEF part, q
<1>6. /\ Ahead(Dump(recs, early), curcnt, part)
      /\ \A s2 : Agrees(s2, t, q) => Onward(recs, early, curcnt + 3, s2, evt, json)
  <2>1. /\ Left(recs[n], p, early) = Cat(part, Left(recs[n], q, early))
        /\ recs[n].kind = "touch" => ~q.kind
        /\ recs[n].kind = "sensor" => q.kind
    BY <1>1, <1>2 DEF part, q
  <2>2. Ahead(Dump(recs, early), curcnt, part)
    BY <1>2, <1>3, <2>1, RecsTyped, PartAhead
  <2>3. ASSUME NEW s2, Agrees(s2, t, q)
        PROVE  Onward(recs, early, curcnt + 3, s2, evt, json)
    <3>1. Onward(recs, early, curcnt + Len(part), s2, Announced(recs[n], q), json)
      BY <1>2, <1>3, <2>1, <2>3, RecsTyped, PartPassed
    <3>2. QED
      BY <1>3, <1>5, <3>1
  <2>4. QED
    BY <2>2, <2>3
<1>7. Byte(0) = 247 => YearMonth
  BY ByteDecides
<1>8. Byte(0) = part[1] => Passed(3)
  BY <1>4, <1>7 DEF YearMonth
<1>9. ASSUME \A i \in 0 .. 4 : i < 3 => Byte(i) = part[i + 1]
      PROVE  Onward(recs, early, curcnt + 3, evs', evt', json')
  <2>1. Byte(0) = 247 /\ Byte(1) = ToBcd(t.year - 2000) /\ Byte(2) = ToBcd(t.month)
    BY <1>4, <1>9
  <2>2. /\ evs' = [evs EXCEPT !.year = 2000 + Bcd(Byte(1)), !.month = Bcd(Byte(2) % 32)]
        /\ evt' = evt /\ json' = json
    BY <1>7, <2>1 DEF YearMonth, output
  <2>3. 2000 + Bcd(Byte(1)) = t.year /\ Bcd(Byte(2) % 32) = t.month
    BY <1>1, <2>1, MarksRead
  <2>4. evs \in Stamps
    BY DEF TypeOK
  <2>5. /\ evs'.year = t.year /\ evs'.month = t.month /\ evs'.day = evs.day
        /\ evs'.hour = evs.hour
    BY <2>2, <2>3, <2>4 DEF Stamps
  <2>6. Agrees(evs', t, q)
    BY <1>1, <1>2, <2>5 DEF Agrees
  <2>7. QED
    BY <1>6, <2>2, <2>6
<1>10. QED
  BY <1>1, <1>3, <1>6, <1>8, <1>9, PartStep

LEMMA WalkDay ==
    ASSUME TypeOK, TypeOK', Stride, Next, NEW early \in BOOLEAN, Walk(early),
           pc = "case", NEW n \in 1 .. Len(recs), NEW p \in Pending,
           InRecord(recs, n, p, early, curcnt, evs, evt, json), p.day,
           Left(recs[n], p, early) =
               Cat(DayBytes(recs[n].at), Left(recs[n], [p EXCEPT !.day = FALSE], early))
    PROVE  Walk(early)'
<1> DEFINE t == recs[n].at
           part == DayBytes(t)
           q == [p EXCEPT !.day = FALSE]
<1>1. /\ recs[n] \in Records /\ t \in Clock
      /\ n - 1 \in 0 .. Len(recs) /\ TellsAll(json, Reports(recs)[n - 1])
      /\ Agrees(evs, t, p) /\ evt = Announced(recs[n], p)
      /\ recs[n].kind = "touch" => ~p.kind
      /\ recs[n].kind = "sensor" => p.kind
  BY Inside
<1>2. /\ q \in Pending /\ (q.kind <=> p.kind) /\ (q.month <=> p.month) /\ (q.hour <=> p.hour)
      /\ ~q.day
  BY DEF Pending
<1>3. part \in Seq(Bytes8) /\ Len(part) = 2
  BY <1>1, MarkBytesTyped
<1>4. part[1] = 246 /\ part[2] = ToBcd(t.day)
  BY DEF DayBytes
<1>5. Announced(recs[n], q) = evt
  BY <1>1, <1>2 DEF Announced
<1> HIDE DEF part, q
<1>6. /\ Ahead(Dump(recs, early), curcnt, part)
      /\ \A s2 : Agrees(s2, t, q) => Onward(recs, early, curcnt + 2, s2, evt, json)
  <2>1. /\ Left(recs[n], p, early) = Cat(part, Left(recs[n], q, early))
        /\ recs[n].kind = "touch" => ~q.kind
        /\ recs[n].kind = "sensor" => q.kind
    BY <1>1, <1>2 DEF part, q
  <2>2. Ahead(Dump(recs, early), curcnt, part)
    BY <1>2, <1>3, <2>1, RecsTyped, PartAhead
  <2>3. ASSUME NEW s2, Agrees(s2, t, q)
        PROVE  Onward(recs, early, curcnt + 2, s2, evt, json)
    <3>1. Onward(recs, early, curcnt + Len(part), s2, Announced(recs[n], q), json)
      BY <1>2, <1>3, <2>1, <2>3, RecsTyped, PartPassed
    <3>2. QED
      BY <1>3, <1>5, <3>1
  <2>4. QED
    BY <2>2, <2>3
<1>7. Byte(0) = 246 => Day
  BY ByteDecides
<1>8. Byte(0) = part[1] => Passed(2)
  BY <1>4, <1>7 DEF Day
<1>9. ASSUME \A i \in 0 .. 4 : i < 2 => Byte(i) = part[i + 1]
      PROVE  Onward(recs, early, curcnt + 2, evs', evt', json')
  <2>1. Byte(0) = 246 /\ Byte(1) = ToBcd(t.day)
    BY <1>4, <1>9
  <2>2. /\ evs' = [evs EXCEPT !.day = Bcd(Byte(1)) % 64]
        /\ evt' = evt /\ json' = json
    BY <1>7, <2>1 DEF Day, output
  <2>3. Bcd(Byte(1)) % 64 = t.day
    BY <1>1, <2>1, MarksRead
  <2>4. evs \in Stamps
    BY DEF TypeOK
  <2>5. /\ evs'.year = evs.year /\ evs'.month = evs.month /\ evs'.day = t.day
        /\ evs'.hour = evs.hour
    BY <2>2, <2>3, <2>4 DEF Stamps
  <2>6. Agrees(evs', t, q)
    BY <1>1, <1>2, <2>5 DEF Agrees
  <2>7. QED
    BY <1>6, <2>2, <2>6
<1>10. QED
  BY <1>1, <1>3, <1>6, <1>8, <1>9, PartStep

LEMMA HourTaken ==
    ASSUME NEW s \in Stamps, NEW t \in Clock
    PROVE  ((s.hour % 4) + (t.hour \div 4) * 4) \div 4 = t.hour \div 4
<1>1. s.hour \in 0 .. 23 /\ t.hour \in 0 .. 23
  BY ClockTyped DEF Stamps
<1>2. ASSUME NEW u \in 0 .. 23, NEW v \in 0 .. 23
      PROVE  ((u % 4) + (v \div 4) * 4) \div 4 = v \div 4
  OBVIOUS
<1>3. QED
  BY <1>1, <1>2

LEMMA WalkHour ==
    ASSUME TypeOK, TypeOK', Stride, Next, NEW early \in BOOLEAN, Walk(early),
           pc = "case", NEW n \in 1 .. Len(recs), NEW p \in Pending,
           InRecord(recs, n, p, early, curcnt, evs, evt, json), p.hour,
           Left(recs[n], p, early) =
               Cat(HourBytes(recs[n].at), Left(recs[n], [p EXCEPT !.hour = FALSE], early))
    PROVE  Walk(early)'
<1> DEFINE t == recs[n].at
           part == HourBytes(t)
           q == [p EXCEPT !.hour = FALSE]
<1>1. /\ recs[n] \in Records /\ t \in Clock
      /\ n - 1 \in 0 .. Len(recs) /\ TellsAll(json, Reports(recs)[n - 1])
      /\ Agrees(evs, t, p) /\ evt = Announced(recs[n], p)
      /\ recs[n].kind = "touch" => ~p.kind
      /\ recs[n].kind = "sensor" => p.kind
  BY Inside
<1>2. /\ q \in Pending /\ (q.kind <=> p.kind) /\ (q.month <=> p.month) /\ (q.day <=> p.day)
      /\ ~q.hour
  BY DEF Pending
<1>3. part \in Seq(Bytes8) /\ Len(part) = 1 /\ HourByte(t) \in 240 .. 245
  BY <1>1, MarkBytesTyped
<1>4. part[1] = HourByte(t)
  BY DEF HourBytes
<1>5. Announced(recs[n], q) = evt
  BY <1>1, <1>2 DEF Announced
<1> HIDE DEF part, q
<1>6. /\ Ahead(Dump(recs, early), curcnt, part)
      /\ \A s2 : Agrees(s2, t, q) => Onward(recs, early, curcnt + 1, s2, evt, json)
  <2>1. /\ Left(recs[n], p, early) = Cat(part, Left(recs[n], q, early))
        /\ recs[n].kind = "touch" => ~q.kind
        /\ recs[n].kind = "sensor" => q.kind
    BY <1>1, <1>2 DEF part, q
  <2>2. Ahead(Dump(recs, early), curcnt, part)
    BY <1>2, <1>3, <2>1, RecsTyped, PartAhead
  <2>3. ASSUME NEW s2, Agrees(s2, t, q)
        PROVE  Onward(recs, early, curcnt + 1, s2, evt, json)
    <3>1. Onward(recs, early, curcnt + Len(part), s2, Announced(recs[n], q), json)
      BY <1>2, <1>3, <2>1, <2>3, RecsTyped, PartPassed
    <3>2. QED
      BY <1>3, <1>5, <3>1
  <2>4. QED
    BY <2>2, <2>3
<1>7. Byte(0) \in 240 .. 245 => HiHour
  BY ByteDecides
<1>8. Byte(0) = part[1] => Passed(1)
  BY <1>3, <1>4, <1>7 DEF HiHour
<1>9. ASSUME \A i \in 0 .. 4 : i < 1 => Byte(i) = part[i + 1]
      PROVE  Onward(recs, early, curcnt + 1, evs', evt', json')
  <2>1. Byte(0) = HourByte(t)
    BY <1>4, <1>9
  <2>2. /\ evs' = [evs EXCEPT !.hour = (evs.hour % 4) + (Byte(0) % 8) * 4]
        /\ evt' = evt /\ json' = json
    BY <1>3, <1>7, <2>1 DEF HiHour, output
  <2>3. Byte(0) % 8 = t.hour \div 4
    BY <1>1, <2>1, MarksRead
  <2>4. evs \in Stamps
    BY DEF TypeOK
  <2>5. ((evs.hour % 4) + (t.hour \div 4) * 4) \div 4 = t.hour \div 4
    BY <1>1, <2>4, HourTaken
  <2>6. /\ evs'.year = evs.year /\ evs'.month = evs.month /\ evs'.day = evs.day
        /\ evs'.hour = (evs.hour % 4) + (t.hour \div 4) * 4
    BY <2>2, <2>3, <2>4 DEF Stamps
  <2>7. Agrees(evs', t, q)
    BY <1>1, <1>2, <2>5, <2>6 DEF Agrees
  <2>8. QED
    BY <1>6, <2>2, <2>7
<1>10. QED
  BY <1>1, <1>3, <1>6, <1>8, <1>9, PartStep

LEMMA WalkKind ==
    ASSUME TypeOK, TypeOK', Stride, Next, NEW early \in BOOLEAN, Walk(early),
           pc = "case", NEW n \in 1 .. Len(recs), NEW p \in Pending,
           InRecord(recs, n, p, early, curcnt, evs, evt, json), p.kind,
           recs[n].kind # "sensor",
           Left(recs[n], p, early) =
               Cat(KindBytes(recs[n]), Left(recs[n], [p EXCEPT !.kind = FALSE], early))
    PROVE  Walk(early)'
<1> DEFINE t == recs[n].at
           part == KindBytes(recs[n])
           q == [p EXCEPT !.kind = FALSE]
           a == Announced(recs[n], q)
<1>1. /\ recs[n] \in Records /\ recs[n].kind \in Kinds
      /\ n - 1 \in 0 .. Len(recs) /\ TellsAll(json, Reports(recs)[n - 1])
      /\ Agrees(evs, t, p) /\ evt = Announced(recs[n], p)
      /\ recs[n].kind = "touch" => ~p.kind
  BY Inside
<1>2. /\ q \in Pending /\ (q.month <=> p.month) /\ (q.day <=> p.day) /\ (q.hour <=> p.hour)
      /\ ~q.kind
  BY DEF Pending
<1>3. part \in Seq(Bytes8) /\ Len(part) = 1
  BY <1>1, KindBytesAre
<1>4. /\ recs[n].kind = "anti" => part[1] = 248 /\ a = "anti"
      /\ recs[n].kind = "key" => part[1] = 249 /\ a = "key"
      /\ recs[n].kind = "change" => part[1] = 254 /\ a = "change"
      /\ recs[n].kind = "reserved" => part[1] = 252 /\ a = "none"
  <2>1. /\ recs[n].kind = "anti" => part = <<248>>
        /\ recs[n].kind = "key" => part = <<249>>
        /\ recs[n].kind = "change" => part = <<254>>
        /\ recs[n].kind = "reserved" => part = <<252>>
    BY <1>1, KindBytesAre
  <2>2. /\ recs[n].kind \in {"anti", "key", "change"} => a = recs[n].kind
        /\ recs[n].kind = "reserved" => a = "none"
    BY <1>2 DEF Announced
  <2> HIDE DEF part, q, a
  <2>3. QED
    BY <2>1, <2>2
<1>5. evt = "none"
  BY <1>1 DEF Announced
<1>6. recs[n].kind \in {"anti", "key", "change", "reserved"}
  BY <1>1 DEF Kinds
<1> HIDE DEF part, q
<1>7. /\ Ahead(Dump(recs, early), curcnt, part)
      /\ Onward(recs, early, curcnt + 1, evs, a, json)
  <2>1. /\ Left(recs[n], p, early) = Cat(part, Left(recs[n], q, early))
        /\ recs[n].kind = "touch" => ~q.kind
        /\ recs[n].kind = "sensor" => q.kind
    BY <1>1, <1>2 DEF part, q
  <2>2. Ahead(Dump(recs, early), curcnt, part)
    BY <1>2, <1>3, <2>1, RecsTyped, PartAhead
  <2>3. Agrees(evs, t, q)
    BY <1>1, <1>2 DEF Agrees
  <2>4. Onward(recs, early, curcnt + Len(part), evs, Announced(recs[n], q), json)
    BY <1>2, <1>3, <2>1, <2>3, RecsTyped, PartPassed
  <2>5. QED
    BY <1>3, <2>2, <2>4
<1> HIDE DEF a
<1>8. ASSUME Byte(0) = part[1]
      PROVE  Passed(1) /\ UNCHANGED output /\ evs' = evs /\ evt' = a
  <2>1. CASE recs[n].kind = "reserved"
    <3>1. Reserved
      <4>1. Byte(0) = 252
        BY <1>4, <1>8, <2>1
      <4>2. QED
        BY <4>1, ByteDecides
    <3>2. QED
      BY <1>4, <1>5, <2>1, <3>1 DEF Reserved
  <2>2. CASE recs[n].kind \in {"anti", "key", "change"}
    <3>1. Kind
      <4>1. Byte(0) = 248 \/ Byte(0) = 249 \/ Byte(0) = 254
        BY <1>4, <1>8, <2>2
      <4>2. QED
        BY <4>1, ByteDecides
    <3>2. /\ recs[n].kind = "anti" => Byte(0) = 248
          /\ recs[n].kind = "key" => Byte(0) = 249
          /\ recs[n].kind = "change" => Byte(0) = 254
      BY <1>4, <1>8
    <3>3. /\ Byte(0) = 248 => evt' = "anti"
          /\ Byte(0) = 249 => evt' = "key"
          /\ Byte(0) = 254 => evt' = "change"
      BY <3>1 DEF Kind
    <3>4. QED
      BY <1>4, <2>2, <3>1, <3>2, <3>3 DEF Kind
  <2>3. QED
    BY <1>6, <2>1, <2>2
<1>9. ASSUME \A i \in 0 .. 4 : i < 1 => Byte(i) = part[i + 1]
      PROVE  Onward(recs, early, curcnt + 1, evs', evt', json')
  <2>1. Byte(0) = part[1]
    BY <1>9
  <2>2. evs' = evs /\ evt' = a /\ json' = json
    BY <1>8, <2>1 DEF output
  <2>3. QED
    BY <1>7, <2>2
<1>10. QED
  BY <1>1, <1>3, <1>7, <1>8, <1>9, PartStep

(* Behind the body of a record that is reported, and of one that is not.   *)
LEMMA BodyTold ==
    ASSUME TypeOK, NEW early \in BOOLEAN, NEW n \in 1 .. Len(recs), NEW m \in Nat,
           curcnt + m = Len(Memory(recs, early)[n]), NoSensor(recs, n),
           TellsAll(json, Reports(recs)[n - 1]),
           Reported(recs[n]), NEW e \in Events, json' = Append(json, e), Tells(e, recs[n]),
           evt' = "none", Agrees(evs', recs[n].at, Done)
    PROVE  Onward(recs, early, curcnt + m, evs', evt', json')
<1>1. recs \in Seq(Records) /\ json \in Seq(Events)
  BY RecsTyped DEF TypeOK
<1>2. Tell(recs, n)
  BY <1>1, LenProperties DEF Tell, NoSensor
<1>3. TellsAll(json', Reports(recs)[n])
  BY <1>1, <1>2, TellsMore
<1>4. QED
  BY <1>1, <1>3, RecordDone

LEMMA BodyQuiet ==
    ASSUME TypeOK, NEW early \in BOOLEAN, NEW n \in 1 .. Len(recs), NEW m \in Nat,
           curcnt + m = Len(Memory(recs, early)[n]), NoSensor(recs, n),
           TellsAll(json, Reports(recs)[n - 1]),
           ~Reported(recs[n]), json' = json,
           evt' = "none", Agrees(evs', recs[n].at, Done)
    PROVE  Onward(recs, early, curcnt + m, evs', evt', json')
<1>1. recs \in Seq(Records)
  BY RecsTyped
<1>2. ~Tell(recs, n)
  BY DEF Tell
<1>3. TellsAll(json', Reports(recs)[n])
  BY <1>1, <1>2, TellsSame
<1>4. QED
  BY <1>1, <1>3, RecordDone

LEMMA WalkTouch ==
    ASSUME TypeOK, TypeOK', Stride, Next, NEW early \in BOOLEAN, Walk(early),
           pc = "case", NEW n \in 1 .. Len(recs), NEW p \in Pending,
           InRecord(recs, n, p, early, curcnt, evs, evt, json), NonePending(p),
           Left(recs[n], p, early) = Body(recs[n]), recs[n].kind = "touch"
    PROVE  Walk(early)'
<1> DEFINE r == recs[n]
           part == Body(r)
<1>1. /\ r \in Records /\ n - 1 \in 0 .. Len(recs)
      /\ TellsAll(json, Reports(recs)[n - 1])
  BY Inside
<1>2. /\ evt = "none" /\ Ahead(Dump(recs, early), curcnt, part)
      /\ curcnt + Len(part) = Len(Memory(recs, early)[n])
      /\ Agrees(evs, r.at, Done) /\ NoSensor(recs, n)
  BY RecsTyped, BodyAhead
<1>3. /\ part \in Seq(Bytes8)
      /\ part = <<TimeByte(r.at), SecondByte(r), r.data[1], r.data[2], r.data[3]>>
      /\ TimeByte(r.at) \in 0 .. 239
  BY <1>1, BodyIs, TimeBytes
<1> HIDE DEF part
<1>4. /\ Len(part) = 5 /\ part[1] = TimeByte(r.at) /\ part[2] = SecondByte(r)
      /\ part[3] = r.data[1] /\ part[4] = r.data[2] /\ part[5] = r.data[3]
  BY <1>3
<1>5. Byte(0) \in 0 .. 239 => Touch
  BY <1>2, ByteDecides
<1>6. Byte(0) = part[1] => Passed(5)
  BY <1>3, <1>4, <1>5 DEF Touch
<1>7. ASSUME \A i \in 0 .. 4 : i < 5 => Byte(i) = part[i + 1]
      PROVE  Onward(recs, early, curcnt + 5, evs', evt', json')
  <2>1. /\ Byte(0) = TimeByte(r.at) /\ Byte(1) = SecondByte(r)
        /\ Byte(2) = r.data[1] /\ Byte(3) = r.data[2] /\ Byte(4) = r.data[3]
    BY <1>4, <1>7
  <2>2. Touch
    BY <1>3, <1>5, <2>1
  <2>3. evs' = WithTime(evs, TimeByte(r.at), SecondByte(r)) /\ evt' = "none"
    BY <2>1, <2>2 DEF Touch, ClearedKind
  <2>4. evs' = r.at /\ Agrees(evs', r.at, Done)
    BY <1>1, <1>2, <2>3, StampComplete DEF TypeOK
  <2>5. <<Byte(2), Byte(3), Byte(4)>> = r.data
    BY <1>1, <2>1, ChipData
  <2>6. curcnt + 5 = Len(Memory(recs, early)[n])
    BY <1>2, <1>4
  <2>7. CASE Suspect(r.data)
    <3>1. json' = json
      BY <2>2, <2>5, <2>7 DEF Touch, output
    <3>2. ~Reported(r)
      BY <2>7 DEF Reported
    <3>3. QED
      BY <1>1, <1>2, <2>3, <2>4, <2>6, <3>1, <3>2, BodyQuiet
  <2>8. CASE ~Suspect(r.data)
    <3> DEFINE e == [kind |-> "touch", at |-> evs', data |-> r.data]
    <3>1. json' = Append(json, e)
      BY <2>2, <2>5, <2>8 DEF Touch, Report
    <3>2. Reported(r)
      BY <2>8 DEF Reported
    <3>3. e \in Events
      BY <1>1, RecordTyped DEF TypeOK, Events
    <3>4. Tells(e, r)
      BY <2>4 DEF Tells
    <3> HIDE DEF e
    <3>5. QED
      BY <1>1, <1>2, <2>3, <2>4, <2>6, <3>1, <3>2, <3>3, <3>4, BodyTold
  <2>9. QED
    BY <2>7, <2>8
<1>8. /\ part \in Seq(Bytes8) /\ Len(part) = 5
      /\ Ahead(Dump(recs, early), curcnt, part)
  BY <1>2, <1>3, <1>4
<1>9. QED
  BY <1>1, <1>6, <1>7, <1>8, PartStep

LEMMA WalkKey ==
    ASSUME TypeOK, TypeOK', Stride, Next, NEW early \in BOOLEAN, Walk(early),
           pc = "case", NEW n \in 1 .. Len(recs), NEW p \in Pending,
           InRecord(recs, n, p, early, curcnt, evs, evt, json), NonePending(p),
           Left(recs[n], p, early) = Body(recs[n]), recs[n].kind = "key"
    PROVE  Walk(early)'
<1> DEFINE r == recs[n]
           part == Body(r)
<1>1. /\ r \in Records /\ n - 1 \in 0 .. Len(recs)
      /\ TellsAll(json, Reports(recs)[n - 1])
  BY Inside
<1>2. /\ evt = "key" /\ Ahead(Dump(recs, early), curcnt, part)
      /\ curcnt + Len(part) = Len(Memory(recs, early)[n])
      /\ Agrees(evs, r.at, Done) /\ NoSensor(recs, n)
  BY RecsTyped, BodyAhead
<1>3. /\ part \in Seq(Bytes8)
      /\ part = <<TimeByte(r.at), SecondByte(r), r.data[1]>>
      /\ TimeByte(r.at) \in 0 .. 239
  BY <1>1, BodyIs, TimeBytes
<1> HIDE DEF part
<1>4. /\ Len(part) = 3 /\ part[1] = TimeByte(r.at) /\ part[2] = SecondByte(r)
      /\ part[3] = r.data[1]
  BY <1>3
<1>5. Byte(0) \in 0 .. 239 => Keypad
  BY <1>2, ByteDecides
<1>6. Byte(0) = part[1] => Passed(3)
  BY <1>3, <1>4, <1>5 DEF Keypad
<1>7. ASSUME \A i \in 0 .. 4 : i < 3 => Byte(i) = part[i + 1]
      PROVE  Onward(recs, early, curcnt + 3, evs', evt', json')
  <2>1. Byte(0) = TimeByte(r.at) /\ Byte(1) = SecondByte(r) /\ Byte(2) = r.data[1]
    BY <1>4, <1>7
  <2>2. Keypad
    BY <1>3, <1>5, <2>1
  <2>3. evs' = WithTimeBelowEF(evs, TimeByte(r.at), SecondByte(r)) /\ evt' = "none"
    BY <2>1, <2>2 DEF Keypad, ClearedKind
  <2>4. Agrees(evs', r.at, Done) /\ (TimeByte(r.at) # 239 => evs' = r.at)
    BY <1>1, <1>2, <2>3, StampComplete DEF TypeOK
  <2>5. <<Byte(2) % 16>> = r.data
    BY <1>1, <2>1, KeyData
  <2>6. curcnt + 3 = Len(Memory(recs, early)[n])
    BY <1>2, <1>4
  <2> DEFINE e == [kind |-> "key", at |-> evs', data |-> r.data]
  <2>7. json' = Append(json, e)
    BY <2>2, <2>5 DEF Keypad, Report
  <2>8. Reported(r)
    BY DEF Reported
  <2>9. e \in Events
    BY <1>1, RecordTyped DEF TypeOK, Events
  <2>10. Tells(e, r)
    BY <2>4 DEF Tells, TimeUnderstood
  <2> HIDE DEF e
  <2>11. QED
    BY <1>1, <1>2, <2>3, <2>4, <2>6, <2>7, <2>8, <2>9, <2>10, BodyTold
<1>8. /\ part \in Seq(Bytes8) /\ Len(part) = 3
      /\ Ahead(Dump(recs, early), curcnt, part)
  BY <1>2, <1>3, <1>4
<1>9. QED
  BY <1>1, <1>6, <1>7, <1>8, PartStep

LEMMA WalkAnti ==
    ASSUME TypeOK, TypeOK', Stride, Next, NEW early \in BOOLEAN, Walk(early),
           pc = "case", NEW n \in 1 .. Len(recs), NEW p \in Pending,
           InRecord(recs, n, p, early, curcnt, evs, evt, json), NonePending(p),
           Left(recs[n], p, early) = Body(recs[n]), recs[n].kind = "anti"
    PROVE  Walk(early)'
<1> DEFINE r == recs[n]
           part == Body(r)
           x == (r.data[2] \div 256) * 16 + r.data[1]
           y == r.data[2] % 256
<1>1. /\ r \in Records /\ n - 1 \in 0 .. Len(recs)
      /\ TellsAll(json, Reports(recs)[n - 1])
  BY Inside
<1>2. /\ evt = "anti" /\ Ahead(Dump(recs, early), curcnt, part)
      /\ curcnt + Len(part) = Len(Memory(recs, early)[n])
      /\ Agrees(evs, r.at, Done) /\ NoSensor(recs, n)
  BY RecsTyped, BodyAhead
<1>3. /\ part \in Seq(Bytes8)
      /\ part = <<TimeByte(r.at), SecondByte(r), x, y>>
      /\ TimeByte(r.at) \in 0 .. 239
      /\ <<x % 8, (x \div 16) * 256 + y>> = r.data
  <2>1. /\ part \in Seq(Bytes8) /\ TimeByte(r.at) \in 0 .. 239
        /\ part = <<TimeByte(r.at), SecondByte(r), x, y>>
    BY <1>1, BodyIs, TimeBytes
  <2>2. <<x % 8, (x \div 16) * 256 + y>> = r.data
    BY <1>1, AntiData
  <2>3. QED
    BY <2>1, <2>2
<1> HIDE DEF part, x, y
<1>4. /\ Len(part) = 4 /\ part[1] = TimeByte(r.at) /\ part[2] = SecondByte(r)
      /\ part[3] = x /\ part[4] = y
  BY <1>3
<1>5. Byte(0) \in 0 .. 239 => Antivandal
  BY <1>2, ByteDecides
<1>6. Byte(0) = part[1] => Passed(4)
  BY <1>3, <1>4, <1>5 DEF Antivandal
<1>7. ASSUME \A i \in 0 .. 4 : i < 4 => Byte(i) = part[i + 1]
      PROVE  Onward(recs, early, curcnt + 4, evs', evt', json')
  <2>1. Byte(0) = TimeByte(r.at) /\ Byte(1) = SecondByte(r) /\ Byte(2) = x /\ Byte(3) = y
    BY <1>4, <1>7
  <2>2. Antivandal
    BY <1>3, <1>5, <2>1
  <2>3. evs' = WithTimeBelowEF(evs, TimeByte(r.at), SecondByte(r)) /\ evt' = "none"
    BY <2>1, <2>2 DEF Antivandal, ClearedKind
  <2>4. Agrees(evs', r.at, Done) /\ (TimeByte(r.at) # 239 => evs' = r.at)
    BY <1>1, <1>2, <2>3, StampComplete DEF TypeOK
  <2>5. <<Byte(2) % 8, (Byte(2) \div 16) * 256 + Byte(3)>> = r.data
    BY <1>3, <2>1
  <2>6. curcnt + 4 = Len(Memory(recs, early)[n])
    BY <1>2, <1>4
  <2> DEFINE e == [kind |-> "anti", at |-> evs', data |-> r.data]
  <2>7. json' = Append(json, e)
    BY <2>2, <2>5 DEF Antivandal, Report
  <2>8. Reported(r)
    BY DEF Reported
  <2>9. e \in Events
    BY <1>1, RecordTyped DEF TypeOK, Events
  <2>10. Tells(e, r)
    BY <2>4 DEF Tells, TimeUnderstood
  <2> HIDE DEF e
  <2>11. QED
    BY <1>1, <1>2, <2>3, <2>4, <2>6, <2>7, <2>8, <2>9, <2>10, BodyTold
<1>8. /\ part \in Seq(Bytes8) /\ Len(part) = 4
      /\ Ahead(Dump(recs, early), curcnt, part)
  BY <1>2, <1>3, <1>4
<1>9. QED
  BY <1>1, <1>6, <1>7, <1>8, PartStep

LEMMA WalkChange ==
    ASSUME TypeOK, TypeOK', Stride, Next, NEW early \in BOOLEAN, Walk(early),
           pc = "case", NEW n \in 1 .. Len(recs), NEW p \in Pending,
           InRecord(recs, n, p, early, curcnt, evs, evt, json), NonePending(p),
           Left(recs[n], p, early) = Body(recs[n]), recs[n].kind = "change"
    PROVE  Walk(early)'
<1> DEFINE r == recs[n]
           part == Body(r)
<1>1. /\ r \in Records /\ n - 1 \in 0 .. Len(recs)
      /\ TellsAll(json, Reports(recs)[n - 1])
  BY Inside
<1>2. /\ evt = "change" /\ Ahead(Dump(recs, early), curcnt, part)
      /\ curcnt + Len(part) = Len(Memory(recs, early)[n])
      /\ Agrees(evs, r.at, Done) /\ NoSensor(recs, n)
  BY RecsTyped, BodyAhead
<1>3. /\ part \in Seq(Bytes8)
      /\ part = <<TimeByte(r.at), SecondByte(r)>>
      /\ TimeByte(r.at) \in 0 .. 239
  BY <1>1, BodyIs, TimeBytes
<1> HIDE DEF part
<1>4. Len(part) = 2 /\ part[1] = TimeByte(r.at) /\ part[2] = SecondByte(r)
  BY <1>3
<1>5. Byte(0) \in 0 .. 239 => TimeChange
  BY <1>2, ByteDecides
<1>6. Byte(0) = part[1] => Passed(2)
  BY <1>3, <1>4, <1>5 DEF TimeChange
<1>7. ASSUME \A i \in 0 .. 4 : i < 2 => Byte(i) = part[i + 1]
      PROVE  Onward(recs, early, curcnt + 2, evs', evt', json')
  <2>1. Byte(0) = TimeByte(r.at) /\ Byte(1) = SecondByte(r)
    BY <1>4, <1>7
  <2>2. TimeChange
    BY <1>3, <1>5, <2>1
  <2>3. /\ evs' = WithTimeBelowEF(evs, TimeByte(r.at), SecondByte(r))
        /\ evt' = "none" /\ json' = json
    BY <2>1, <2>2 DEF TimeChange, ClearedKind, output
  <2>4. Agrees(evs', r.at, Done)
    BY <1>1, <1>2, <2>3, StampComplete DEF TypeOK
  <2>5. curcnt + 2 = Len(Memory(recs, early)[n])
    BY <1>2, <1>4
  <2>6. ~Reported(r)
    BY DEF Reported
  <2>7. QED
    BY <1>1, <1>2, <2>3, <2>4, <2>5, <2>6, BodyQuiet
<1>8. /\ part \in Seq(Bytes8) /\ Len(part) = 2
      /\ Ahead(Dump(recs, early), curcnt, part)
  BY <1>2, <1>3, <1>4
<1>9. QED
  BY <1>1, <1>6, <1>7, <1>8, PartStep

(* A sensor record ends the walk, with what is told so far.                *)
LEMMA WalkSensor ==
    ASSUME TypeOK, TypeOK', Stride, Next, NEW early \in BOOLEAN, Walk(early),
           pc = "case", NEW n \in 1 .. Len(recs), NEW p \in Pending,
           InRecord(recs, n, p, early, curcnt, evs, evt, json), p.kind,
           recs[n].kind = "sensor",
           Left(recs[n], p, early) =
               Cat(KindBytes(recs[n]), Left(recs[n], [p EXCEPT !.kind = FALSE], early))
    PROVE  Walk(early)'
<1> DEFINE part == KindBytes(recs[n])
           q == [p EXCEPT !.kind = FALSE]
<1>1. /\ recs[n] \in Records /\ n - 1 \in 0 .. Len(recs)
      /\ TellsAll(json, Reports(recs)[n - 1])
  BY Inside
<1>2. part \in Seq(Bytes8) /\ part = <<251>> /\ q \in Pending
  <2>1. part \in Seq(Bytes8) /\ part = <<251>>
    BY <1>1, KindBytesAre
  <2>2. q \in Pending
    BY DEF Pending
  <2>3. QED
    BY <2>1, <2>2
<1> HIDE DEF part, q
<1>3. Len(part) = 1 /\ part[1] = 251
  BY <1>2
<1>4. Ahead(Dump(recs, early), curcnt, part)
  <2>1. Left(recs[n], p, early) = Cat(part, Left(recs[n], q, early))
    BY DEF part, q
  <2>2. part \in Seq(Bytes8) /\ q \in Pending
    BY <1>2
  <2>3. QED
    BY <2>1, <2>2, RecsTyped, PartAhead
<1>5. ImageOf(early) /\ result = "none"
  BY DEF Walk
<1>6. /\ curcnt < Len(image) => Byte(0) = 251
      /\ curcnt >= Len(image) => Byte(0) = 255
      /\ curcnt + 1 <= firstfree
  <2>1. curcnt \in Nat
    BY WordRange DEF TypeOK
  <2>2. part \in Seq(Bytes8)
    BY <1>2
  <2>3. /\ \A i \in 0 .. 4 : i < Len(part) /\ curcnt + i < Len(image) => Byte(i) = part[i + 1]
        /\ curcnt >= Len(image) => Byte(0) = 255
        /\ curcnt + Len(part) <= firstfree
    BY <1>4, <1>5, <2>2, PartRead
  <2>4. curcnt < Len(image) => Byte(0) = part[0 + 1]
    <3>1. 0 \in 0 .. 4 /\ 0 < Len(part) /\ curcnt + 0 = curcnt
      BY <1>3, <2>1
    <3>2. QED
      BY <2>3, <3>1
  <2>5. QED
    BY <1>3, <2>3, <2>4
<1>7. curcnt \in Nat /\ Len(image) \in Nat /\ firstfree \in Nat
  BY WordRange, LenProperties DEF TypeOK
<1>8. CASE curcnt >= Len(image)
  <2>1. Passed(5)
    BY <1>6, <1>8, ByteDecides DEF EndOfData, EndMarkSize, EndMark
  <2>2. Len(image) < firstfree /\ curcnt + 5 >= Len(image)
    BY <1>6, <1>7, <1>8
  <2>3. QED
    BY <1>1, <2>1, <2>2, CutShort
<1>9. CASE curcnt < Len(image)
  <2>1. NotImplemented
    BY <1>6, <1>9, ByteDecides
  <2>2. /\ pc' = "returned" /\ result' = "error"
        /\ UNCHANGED <<recs, image, firstfree, curcnt, json>>
    BY <2>1 DEF NotImplemented, input, output
  <2>3. /\ OnlyLastSpoiled /\ Len(json) <= Len(Expected)
        /\ \A i \in DOMAIN json : Tells(json[i], Expected[i])
    BY <1>1, ToldMeans
  <2>4. Len(json) = Len(Expected)
    <3>1. Reports(recs)[Len(recs)] = Reports(recs)[n - 1]
      BY RecsTyped, ReportsStop
    <3>2. QED
      BY <1>1, <3>1 DEF Expected, TellsAll
  <2>5. curcnt <= firstfree
    BY <1>6, <1>7
  <2>6. Expected' = Expected
    BY <2>2 DEF Expected
  <2>7. OnlyLastSpoiled'
    BY <2>2, <2>3, <2>6 DEF OnlyLastSpoiled
  <2>8. Decoded'
    BY <2>2, <2>3, <2>4, <2>5, <2>6 DEF Decoded
  <2>9. ImageOf(early)'
    BY <1>5, <2>2 DEF ImageOf
  <2>10. QED
    BY <2>2, <2>7, <2>8, <2>9 DEF Walk
<1>10. QED
  BY <1>7, <1>8, <1>9

(* One pass of the walk inside a record.                                   *)
LEMMA WalkInside ==
    ASSUME TypeOK, TypeOK', Stride, Next, NEW early \in BOOLEAN, Walk(early),
           pc = "case", NEW n \in 1 .. Len(recs), NEW p \in Pending,
           InRecord(recs, n, p, early, curcnt, evs, evt, json)
    PROVE  Walk(early)'
<1> DEFINE r == recs[n]
<1>1. r \in Records
  BY Inside
<1>2. CASE /\ p.kind
           /\ Left(r, p, early) =
                 Cat(KindBytes(r), Left(r, [p EXCEPT !.kind = FALSE], early))
  BY <1>2, WalkKind, WalkSensor
<1>3. CASE /\ p.month
           /\ Left(r, p, early) =
                 Cat(YearMonthBytes(r.at), Left(r, [p EXCEPT !.month = FALSE], early))
  BY <1>3, WalkMonth
<1>4. CASE /\ p.day
           /\ Left(r, p, early) =
                 Cat(DayBytes(r.at), Left(r, [p EXCEPT !.day = FALSE], early))
  BY <1>4, WalkDay
<1>5. CASE /\ p.hour
           /\ Left(r, p, early) =
                 Cat(HourBytes(r.at), Left(r, [p EXCEPT !.hour = FALSE], early))
  BY <1>5, WalkHour
<1>6. CASE NonePending(p) /\ Left(r, p, early) = Body(r)
  <2>1. r.kind \in {"touch", "key", "anti", "change"}
    BY <1>6, RecsTyped, BodyAhead
  <2>2. QED
    BY <1>6, <2>1, WalkTouch, WalkKey, WalkAnti, WalkChange
<1>7. QED
  BY <1>1, <1>2, <1>3, <1>4, <1>5, <1>6, NextPart

(* The end mark, in blank memory.                                          *)
LEMMA BlankStep ==
    ASSUME TypeOK, TypeOK', Stride, Next, pc = "case", curcnt >= Len(image)
    PROVE  /\ curcnt' = curcnt + 5 /\ pc' \in {"case", "finalize"}
           /\ UNCHANGED <<recs, image, firstfree, json, result>>
<1>1. Byte(0) = 255
  <2>1. curcnt \in Nat /\ Len(image) \in Nat
    BY WordRange, LenProperties DEF TypeOK
  <2>2. ~(curcnt + 0 < Len(image))
    BY <2>1
  <2>3. QED
    BY <2>2 DEF Byte, BLANK
<1>2. EndOfData
  BY <1>1, ByteDecides
<1>3. Passed(5) /\ json' = json
  BY <1>2 DEF EndOfData, EndMarkSize, EndMark, output
<1>4. QED
  BY <1>3, PassedForward, PassedTyped

LEMMA EmptyDump ==
    ASSUME recs = <<>>, NEW early \in BOOLEAN
    PROVE  Len(Dump(recs, early)) = 0
<1>1. recs \in Seq(Records) /\ Len(recs) = 0
  OBVIOUS
<1>2. Dump(recs, early) = <<>>
  BY <1>1, MemoryIs DEF Dump
<1>3. QED
  BY <1>2

LEMMA WalkCase ==
    ASSUME TypeOK, TypeOK', Stride, Next, NEW early \in BOOLEAN, Walk(early),
           pc = "case"
    PROVE  Walk(early)'
<1>1. /\ ImageOf(early) /\ result = "none"
      /\ \/ Nothing
         \/ Beyond
         \/ curcnt < firstfree /\ Onward(recs, early, curcnt, evs, evt, json)
  BY DEF Walk
<1>2. curcnt \in Nat /\ Len(image) \in Nat /\ firstfree \in Nat
  BY WordRange, LenProperties DEF TypeOK
<1>3. CASE Nothing
  <2>1. Len(image) <= 0
    BY <1>1, <1>3, EmptyDump DEF Nothing, ImageOf
  <2>2. curcnt >= Len(image)
    BY <1>2, <2>1
  <2>3. /\ pc' \in {"case", "finalize"}
        /\ UNCHANGED <<recs, image, firstfree, json, result>>
    BY <2>2, BlankStep
  <2>4. ImageOf(early)' /\ Nothing' /\ result' = "none"
    BY <1>1, <1>3, <2>3 DEF ImageOf, Nothing
  <2>5. QED
    BY <2>3, <2>4 DEF Walk
<1>4. CASE Beyond
  <2>1. /\ pc' \in {"case", "finalize"} /\ curcnt' = curcnt + 5
        /\ UNCHANGED <<recs, image, firstfree, json, result>>
    BY <1>4, BlankStep DEF Beyond
  <2>2. OnlyLastSpoiled'
    BY <1>4, <2>1 DEF Beyond, OnlyLastSpoiled, Expected
  <2>3. curcnt' >= Len(image')
    BY <1>2, <1>4, <2>1 DEF Beyond
  <2>4. ImageOf(early)' /\ Beyond' /\ result' = "none"
    BY <1>1, <1>4, <2>1, <2>2, <2>3 DEF ImageOf, Beyond
  <2>5. QED
    BY <2>1, <2>4 DEF Walk
<1>5. CASE curcnt < firstfree /\ Onward(recs, early, curcnt, evs, evt, json)
  <2>1. ~AtEnd(recs, early, curcnt, json)
    BY <1>1, <1>2, <1>5 DEF AtEnd, ImageOf
  <2>2. \E n \in 1 .. Len(recs), p \in Pending :
           InRecord(recs, n, p, early, curcnt, evs, evt, json)
    BY <1>5, <2>1 DEF Onward
  <2>3. QED
    BY <2>2, WalkInside
<1>6. QED
  BY <1>1, <1>3, <1>4, <1>5

LEMMA WalkCall ==
    ASSUME TypeOK, TypeOK', Stride, Call, NEW early \in BOOLEAN, Walk(early)
    PROVE  Walk(early)'
<1>1. /\ pc' = "case" /\ curcnt' = 0 /\ json' = <<>> /\ evt' = "none" /\ result' = "none"
      /\ evs' = [NoTime EXCEPT !.year = evs.year]
      /\ UNCHANGED <<recs, image, firstfree>>
  BY DEF Call, input
<1>2. ImageOf(early) /\ ImageOf(early)'
  BY <1>1 DEF Walk, ImageOf
<1>3. CASE recs = <<>>
  <2>1. Nothing'
    BY <1>1, <1>3 DEF Nothing
  <2>2. QED
    BY <1>1, <1>2, <2>1 DEF Walk
<1>4. CASE recs # <<>>
  <2>1. recs \in Seq(Records) /\ 1 \in 1 .. Len(recs) /\ 1 - 1 = 0
    <3>1. recs \in Seq(Records) /\ Len(recs) \in Nat
      BY RecsTyped
    <3>2. Len(recs) # 0
      BY <1>4, <3>1, EmptySeq
    <3>3. QED
      BY <3>1, <3>2
  <2>2. evs'.hour = 0
    BY <1>1 DEF NoTime
  <2> DEFINE w == Whole(recs, 1)
  <2>3. Agrees(evs', recs[1].at, w)
    BY <2>1, <2>2, AgreesAtStart
  <2>4. NoSensor(recs, 0)
    BY DEF NoSensor
  <2>5. Memory(recs, early)[0] = <<>> /\ Reports(recs)[0] = <<>>
    BY <2>1, MemoryIs, ReportsAre
  <2>6. curcnt' = Len(Memory(recs, early)[0]) /\ TellsAll(json', Reports(recs)[0])
    BY <1>1, <2>5 DEF TellsAll
  <2> HIDE DEF w
  <2>7. /\ w \in Pending /\ InRecord(recs, 1, w, early, curcnt', evs', evt', json')
        /\ Onward(recs, early, curcnt', evs', evt', json')
    BY <1>1, <2>1, <2>3, <2>4, <2>6, AtRecord DEF w
  <2>8. curcnt' < Len(Dump(recs, early))
    BY <2>1, <2>7, InsideRecord
  <2>9. curcnt' < firstfree'
    BY <1>1, <1>2, <2>8 DEF ImageOf
  <2>10. QED
    BY <1>1, <1>2, <2>7, <2>9 DEF Walk
<1>5. QED
  BY <1>3, <1>4

LEMMA WalkFinalize ==
    ASSUME TypeOK, TypeOK', Finalize, NEW early \in BOOLEAN, Walk(early)
    PROVE  Walk(early)'
<1>1. /\ pc = "finalize" /\ pc' = "returned" /\ result' \in {"sent", "unsent"}
      /\ UNCHANGED <<recs, image, firstfree, curcnt, json>>
  BY DEF Finalize, input, output
<1>2. ImageOf(early) /\ (Nothing \/ Beyond \/ AtEnd(recs, early, curcnt, json))
  BY <1>1 DEF Walk
<1>3. Expected' = Expected /\ Complete' = Complete
  BY <1>1 DEF Expected, Complete
<1>4. OnlyLastSpoiled
      /\ (Complete => /\ Len(json) = Len(Expected)
                      /\ \A i \in DOMAIN json : Tells(json[i], Expected[i])
                      /\ recs # <<>> => curcnt = firstfree)
  <2>1. CASE Nothing
    BY <2>1, EmptyMeans DEF Nothing
  <2>2. CASE Beyond
    <3>1. ~Complete
      BY <2>2, WordRange, LenProperties DEF Beyond, Complete, TypeOK
    <3>2. QED
      BY <2>2, <3>1 DEF Beyond
  <2>3. CASE AtEnd(recs, early, curcnt, json)
    <3>1. Len(recs) \in 0 .. Len(recs) /\ TellsAll(json, Reports(recs)[Len(recs)])
      BY <2>3, RecsTyped DEF AtEnd
    <3>2. curcnt = firstfree
      BY <1>2, <2>3 DEF AtEnd, ImageOf
    <3>3. /\ OnlyLastSpoiled /\ Len(json) = Len(Expected)
          /\ \A i \in DOMAIN json : Tells(json[i], Expected[i])
      BY <3>1, ToldMeans
    <3>4. QED
      BY <3>2, <3>3
  <2>4. QED
    BY <1>2, <2>1, <2>2, <2>3
<1>5. OnlyLastSpoiled'
  BY <1>1, <1>3, <1>4 DEF OnlyLastSpoiled
<1>6. Decoded'
  <2>1. Len(json) \in Nat /\ firstfree \in Nat
    BY LenProperties, WordRange DEF TypeOK
  <2> SUFFICES ASSUME Complete'
               PROVE  /\ Len(json') <= Len(Expected')
                      /\ result' # "none" => Len(json') = Len(Expected')
                      /\ \A i \in DOMAIN json' : Tells(json'[i], Expected'[i])
                      /\ recs' # <<>> => /\ curcnt' <= firstfree'
                                         /\ result' \in {"sent", "unsent"} => curcnt' = firstfree'
    BY DEF Decoded
  <2>2. QED
    BY <1>1, <1>3, <1>4, <2>1
<1>7. ImageOf(early)'
  BY <1>1, <1>2 DEF ImageOf
<1>8. QED
  BY <1>1, <1>5, <1>6, <1>7 DEF Walk

(* Some sensor wrote the image, with the kinds early or late.              *)
WalkOn == \E early \in BOOLEAN : Walk(early)

LEMMA WalkInit == Init => WalkOn
<1> SUFFICES ASSUME Init PROVE WalkOn
  OBVIOUS
<1>1. PICK early \in BOOLEAN, n \in Losses :
         /\ n <= Len(Dump(recs, early))
         /\ image = SubSeq(Dump(recs, early), 1, Len(Dump(recs, early)) - n)
         /\ firstfree = Len(Dump(recs, early)) % WordSize
  BY DEF Init
<1> DEFINE d == Dump(recs, early)
<1>2. /\ d \in Seq(Bytes8) /\ Len(d) \in Nat /\ n \in Nat
      /\ Len(d) < WordSize - EndMark
  BY RecordingsAssumption, DumpTyped, DumpAssumption, LossesAssumption DEF Init
<1> HIDE DEF d
<1>3. n <= Len(d) /\ image = SubSeq(d, 1, Len(d) - n) /\ firstfree = Len(d) % WordSize
  BY <1>1 DEF d
<1>4. Len(d) - n \in 0 .. Len(d)
  BY <1>2, <1>3
<1>5. /\ Len(image) = Len(d) - n
      /\ \A i \in 1 .. Len(d) - n : image[i] = d[i]
  <2>1. \A i \in 1 .. Len(d) - n : d[i] \in Bytes8
    BY <1>2, <1>4, ElementOfSeq
  <2>2. QED
    BY <1>2, <1>3, <1>4, <2>1, SubSeqProperties
<1>6. firstfree = Len(d)
  <2>1. ASSUME NEW k \in Nat, k < WordSize - EndMark PROVE k % WordSize = k
    BY <2>1 DEF WordSize, EndMark
  <2>2. QED
    BY <1>2, <1>3, <2>1
<1>7. ImageOf(early)
  BY <1>2, <1>4, <1>5, <1>6 DEF ImageOf, d
<1>8. pc = "call" /\ json = <<>> /\ curcnt = 0 /\ result = "none"
  BY DEF Init
<1>9. QED
  BY <1>7, <1>8 DEF Walk, WalkOn

LEMMA WalkNext ==
    TypeOK /\ TypeOK' /\ Stride /\ WalkOn /\ [Next]_vars => WalkOn'
<1> SUFFICES ASSUME TypeOK, TypeOK', Stride, NEW early \in BOOLEAN, Walk(early), [Next]_vars
             PROVE  Walk(early)'
  BY DEF WalkOn
<1>1. CASE Call
  BY <1>1, WalkCall
<1>2. CASE Finalize
  BY <1>2, WalkFinalize
<1>3. CASE Next /\ ~Call /\ ~Finalize
  <2>1. pc = "case"
    BY <1>3 DEF Next, Cases, NotImplemented, Day, YearMonth, Kind, HiHour, Reserved,
                EndOfData, Antivandal, Keypad, TimeChange, Touch, At
  <2>2. QED
    BY <1>3, <2>1, WalkCase
<1>4. CASE UNCHANGED vars
  <2>1. UNCHANGED <<recs, image, firstfree, pc, curcnt, evs, evt, json, result>>
    BY <1>4 DEF vars, input, output
  <2>2. /\ ImageOf(early)' = ImageOf(early) /\ Nothing' = Nothing
        /\ OnlyLastSpoiled' = OnlyLastSpoiled /\ Decoded' = Decoded
    BY <2>1 DEF ImageOf, Nothing, OnlyLastSpoiled, Decoded, Expected, Complete
  <2>3. Beyond' = Beyond
    BY <2>1, <2>2 DEF Beyond
  <2>4. /\ Onward(recs, early, curcnt, evs, evt, json)'
              = Onward(recs, early, curcnt, evs, evt, json)
        /\ AtEnd(recs, early, curcnt, json)' = AtEnd(recs, early, curcnt, json)
    BY <2>1
  <2>5. QED
    BY <2>1, <2>2, <2>3, <2>4 DEF Walk
<1>5. QED
  BY <1>1, <1>2, <1>3, <1>4

(* What the walk means for the document, wherever it is.                   *)
LEMMA WalkMeans ==
    ASSUME TypeOK, NEW early \in BOOLEAN, Walk(early)
    PROVE  Decoded /\ OnlyLastSpoiled
<1>1. ImageOf(early) /\ (pc # "returned" => result = "none")
  BY DEF Walk
<1>2. curcnt \in Nat /\ Len(image) \in Nat /\ firstfree \in Nat
  BY WordRange, LenProperties DEF TypeOK
<1>3. CASE pc = "call"
  <2>1. json = <<>> /\ curcnt = 0 /\ result = "none"
    BY <1>1, <1>3 DEF Walk
  <2>2. QED
    BY <1>2, <2>1, EmptyMeans DEF Decoded
<1>4. ASSUME Nothing, result = "none" PROVE Decoded /\ OnlyLastSpoiled
  <2>1. recs = <<>> /\ json = <<>>
    BY <1>4 DEF Nothing
  <2>2. QED
    BY <1>4, <2>1, EmptyMeans DEF Decoded
<1>5. ASSUME Beyond PROVE Decoded /\ OnlyLastSpoiled
  BY <1>2, <1>5 DEF Beyond, Decoded, Complete
<1>6. ASSUME curcnt <= firstfree, result = "none",
             NEW n \in 0 .. Len(recs), TellsAll(json, Reports(recs)[n])
      PROVE  Decoded /\ OnlyLastSpoiled
  BY <1>6, ToldMeans DEF Decoded
<1>7. ASSUME AtEnd(recs, early, curcnt, json), result = "none"
      PROVE  Decoded /\ OnlyLastSpoiled
  <2>1. Len(recs) \in 0 .. Len(recs) /\ TellsAll(json, Reports(recs)[Len(recs)])
    BY <1>7, RecsTyped DEF AtEnd
  <2>2. curcnt <= firstfree
    BY <1>1, <1>2, <1>7 DEF AtEnd, ImageOf
  <2>3. QED
    BY <1>6, <1>7, <2>1, <2>2
<1>8. CASE pc = "case"
  <2>1. result = "none"
    BY <1>1, <1>8
  <2>2. ASSUME curcnt < firstfree, NEW n \in 1 .. Len(recs), NEW p \in Pending,
               InRecord(recs, n, p, early, curcnt, evs, evt, json)
        PROVE  Decoded /\ OnlyLastSpoiled
    <3>1. n - 1 \in 0 .. Len(recs) /\ TellsAll(json, Reports(recs)[n - 1])
      BY <2>2, Inside
    <3>2. QED
      BY <1>2, <1>6, <2>1, <2>2, <3>1
  <2>3. \/ Nothing \/ Beyond
        \/ curcnt < firstfree /\ Onward(recs, early, curcnt, evs, evt, json)
    BY <1>8 DEF Walk
  <2>4. QED
    BY <1>4, <1>5, <1>7, <2>1, <2>2, <2>3 DEF Onward
<1>9. CASE pc = "finalize"
  <2>1. /\ result = "none"
        /\ Nothing \/ Beyond \/ AtEnd(recs, early, curcnt, json)
    BY <1>1, <1>9 DEF Walk
  <2>2. QED
    BY <1>4, <1>5, <1>7, <2>1
<1>10. CASE pc = "returned"
  BY <1>10 DEF Walk
<1>11. QED
  BY <1>3, <1>8, <1>9, <1>10 DEF TypeOK

(* Where the walk can be, at any time.                                     *)
LEMMA WalkAlways == Spec => [](TypeOK /\ Stride /\ WalkOn)
<1>1. TypeOK /\ TypeOK' /\ Stride /\ [Next]_vars => Stride'
  BY StrideNext
<1>2. TypeOK /\ TypeOK' /\ Stride /\ WalkOn /\ [Next]_vars => WalkOn'
  BY WalkNext
<1>3. QED
  BY <1>1, <1>2, StrideInit, WalkInit, TypeCorrect, PTL DEF Spec

(* For every sequence of records, a complete image is decoded to the       *)
(* events the sensor recorded, in order, each once and with its own time,  *)
(* and the walk ends where the data end.                                   *)
THEOREM DecodesAll == Spec => []Decoded
<1>1. TypeOK /\ WalkOn => Decoded
  BY WalkMeans DEF WalkOn
<1>2. QED
  BY <1>1, WalkAlways, PTL

(* However many bytes are missing at the end, only the last event may be   *)
(* other than the sensor recorded it.                                      *)
THEOREM SpoilsOne == Spec => []OnlyLastSpoiled
<1>1. TypeOK /\ WalkOn => OnlyLastSpoiled
  BY WalkMeans DEF WalkOn
<1>2. QED
  BY <1>1, WalkAlways, PTL
=============================================================================
