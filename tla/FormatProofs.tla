------------------------------ MODULE FormatProofs ------------------------------
(***************************************************************************)
(* Facts about the memory of a sensor as ParseDump describes it, for any   *)
(* sequence of records: what its recursive functions return, which bytes   *)
(* lie where, and the places in them where the walk can be.                *)
(***************************************************************************)
EXTENDS ParseDump, SequenceTheorems, WellFoundedInduction, TLAPS

-----------------------------------------------------------------------------
(* Induction over the natural numbers, for a set in place of a predicate:  *)
(* that < is well founded gives a least number outside of it.              *)

LEMMA LeastNumber ==
    ASSUME NEW T, T \subseteq Nat, T # {}
    PROVE  \E x \in T : \A y \in T : x <= y
<1> DEFINE R == OpToRel(<, Nat)
<1>1. IsWellFoundedOn(R, Nat)
  BY NatLessThanWellFounded
<1>2. \A x, y \in Nat : <<x, y>> \in R <=> x < y
  BY DEF OpToRel
<1> HIDE DEF R
<1>3. PICK x \in T : \A y \in T : ~(<<y, x>> \in R)
  BY <1>1, WFMin, Zenon
<1>4. ASSUME NEW y \in T PROVE x <= y
  <2>1. x \in Nat /\ y \in Nat
    OBVIOUS
  <2>2. ~(y < x)
    BY <1>2, <1>3, <2>1
  <2>3. QED
    BY <2>1, <2>2
<1>5. QED
  BY <1>4

(* A set with 0 and with the successor of each member has all of Nat.      *)
LEMMA SetInduction ==
    ASSUME NEW S, 0 \in S, \A n \in Nat : n \in S => n + 1 \in S
    PROVE  Nat \subseteq S
<1> SUFFICES ASSUME Nat \ S # {} PROVE FALSE
  OBVIOUS
<1>1. PICK x \in Nat \ S : \A y \in Nat \ S : x <= y
  BY LeastNumber
<1>2. x # 0 /\ x - 1 \in Nat
  BY <1>1
<1>3. x - 1 \in S
  BY <1>1, <1>2
<1>4. (x - 1) + 1 \in S
  BY <1>2, <1>3
<1>5. QED
  BY <1>1, <1>4

(* A function by recursion over 0 .. N exists: F[n] makes its value at n   *)
(* from the one at n - 1.                                                  *)
Recursively(g, N, v0, F) ==
    g = [n \in 0 .. N |-> IF n = 0 THEN v0 ELSE F[n][g[n - 1]]]

LEMMA RecursionExists ==
    ASSUME NEW V, NEW v0 \in V, NEW N \in Nat, NEW F \in [1 .. N -> [V -> V]]
    PROVE  \E g : Recursively(g, N, v0, F)
<1> DEFINE S == {k \in Nat : k <= N =>
                    \E g \in [0 .. k -> V] : Recursively(g, k, v0, F)}
<1>1. 0 \in S
  <2> DEFINE g == [n \in 0 .. 0 |-> v0]
  <2>1. g \in [0 .. 0 -> V] /\ Recursively(g, 0, v0, F)
    BY DEF Recursively
  <2>2. QED
    BY <2>1
<1>2. ASSUME NEW k \in Nat, k \in S PROVE k + 1 \in S
  <2> SUFFICES ASSUME k + 1 <= N
               PROVE  \E g \in [0 .. k + 1 -> V] : Recursively(g, k + 1, v0, F)
    OBVIOUS
  <2>1. PICK g \in [0 .. k -> V] : Recursively(g, k, v0, F)
    BY <1>2
  <2> DEFINE e == [n \in 0 .. k + 1 |-> IF n <= k THEN g[n] ELSE F[k + 1][g[k]]]
  <2>2. F[k + 1] \in [V -> V] /\ g[k] \in V
    BY <1>2
  <2>3. F[k + 1][g[k]] \in V
    BY <2>2
  <2>4. e \in [0 .. k + 1 -> V]
    BY <2>1, <2>3
  <2>5. ASSUME NEW n \in 0 .. k + 1
        PROVE  e[n] = IF n = 0 THEN v0 ELSE F[n][e[n - 1]]
    <3>1. CASE n = 0
      BY <2>1, <3>1 DEF Recursively
    <3>2. CASE n \in 1 .. k
      <4>1. n - 1 \in 0 .. k /\ n \in 0 .. k /\ n # 0
        BY <3>2
      <4>2. e[n] = g[n] /\ e[n - 1] = g[n - 1]
        BY <3>2, <4>1
      <4>3. g[n] = F[n][g[n - 1]]
        BY <2>1, <4>1 DEF Recursively
      <4>4. QED
        BY <4>1, <4>2, <4>3
    <3>3. CASE n = k + 1
      <4>1. n # 0 /\ n - 1 = k /\ ~(n <= k) /\ k \in 0 .. k + 1
        BY <1>2, <3>3
      <4>2. e[n] = F[k + 1][g[k]] /\ e[n - 1] = g[k]
        BY <3>3, <4>1
      <4>3. QED
        BY <3>3, <4>1, <4>2
    <3>4. QED
      BY <3>1, <3>2, <3>3
  <2> HIDE DEF e
  <2>6. e = [n \in 0 .. k + 1 |-> IF n = 0 THEN v0 ELSE F[n][e[n - 1]]]
    BY <2>4, <2>5
  <2>7. QED
    BY <2>4, <2>6 DEF Recursively
<1> HIDE DEF S
<1>3. N \in S
  BY <1>1, <1>2, SetInduction
<1>4. QED
  BY <1>3 DEF S

(* Its values.                                                             *)
LEMMA RecursionTyped ==
    ASSUME NEW V, NEW v0 \in V, NEW N \in Nat, NEW F \in [1 .. N -> [V -> V]],
           NEW g, Recursively(g, N, v0, F)
    PROVE  /\ g \in [0 .. N -> V]
           /\ g[0] = v0
           /\ \A n \in 1 .. N : g[n] = F[n][g[n - 1]]
<1>1. /\ g[0] = v0
      /\ \A n \in 1 .. N : g[n] = F[n][g[n - 1]]
  BY DEF Recursively
<1> DEFINE S == {k \in Nat : k <= N => g[k] \in V}
<1>2. 0 \in S
  BY <1>1
<1>3. ASSUME NEW k \in Nat, k \in S PROVE k + 1 \in S
  <2> SUFFICES ASSUME k + 1 <= N PROVE g[k + 1] \in V
    OBVIOUS
  <2>1. g[k] \in V
    BY <1>3
  <2>2. k + 1 \in 1 .. N /\ (k + 1) - 1 = k
    OBVIOUS
  <2>3. F[k + 1] \in [V -> V]
    BY <2>2
  <2>4. QED
    BY <1>1, <2>1, <2>2, <2>3
<1> HIDE DEF S
<1>4. Nat \subseteq S
  BY <1>2, <1>3, SetInduction
<1>5. \A k \in 0 .. N : g[k] \in V
  BY <1>4 DEF S
<1>6. QED
  BY <1>1, <1>5 DEF Recursively

TypedRecursion(g, V, N, v0, F) ==
    /\ g \in [0 .. N -> V]
    /\ g[0] = v0
    /\ \A n \in 1 .. N : g[n] = F[n][g[n - 1]]

(* So there is a function with the values a recursive definition gives.    *)
LEMMA RecursiveFunction ==
    ASSUME NEW V, NEW v0 \in V, NEW N \in Nat, NEW F \in [1 .. N -> [V -> V]]
    PROVE  \E g : TypedRecursion(g, V, N, v0, F)
<1>1. PICK g : Recursively(g, N, v0, F)
  BY RecursionExists
<1>2. QED
  BY <1>1, RecursionTyped DEF TypedRecursion

-----------------------------------------------------------------------------
(* The bytes of a record.                                                  *)

Bytes8 == 0 .. 255

LEMMA RecordTyped ==
    ASSUME NEW r \in Records
    PROVE  /\ r.kind \in Kinds /\ r.at \in Clock /\ r.doubt \in BOOLEAN
           /\ r.data \in DataOf(r.kind) /\ r.data \in Seq(Nat)
BY DEF Records

LEMMA ClockTyped ==
    ASSUME NEW t \in Clock
    PROVE  /\ t.year \in 2000 .. 2099 /\ t.month \in 1 .. 12 /\ t.day \in 1 .. 31
           /\ t.hour \in 0 .. 23 /\ t.minute \in 0 .. 59 /\ t.second \in 0 .. 59
BY DEF Clock

LEMMA DataTyped ==
    ASSUME NEW r \in Records
    PROVE  /\ r.kind = "touch" => r.data \in [1 .. 3 -> 0 .. 255]
           /\ r.kind = "key" => r.data \in [1 .. 1 -> 0 .. 15]
           /\ r.kind = "anti" => r.data \in (0 .. 7) \X (0 .. 4095)
<1>1. /\ DataOf("touch") = [1 .. 3 -> 0 .. 255]
      /\ DataOf("key") = [1 .. 1 -> 0 .. 15]
      /\ DataOf("anti") = (0 .. 7) \X (0 .. 4095)
  BY DEF DataOf
<1>2. r.data \in DataOf(r.kind)
  BY RecordTyped
<1>3. CASE r.kind = "touch"
  BY <1>1, <1>2, <1>3
<1>4. CASE r.kind = "key"
  BY <1>1, <1>2, <1>4
<1>5. CASE r.kind = "anti"
  BY <1>1, <1>2, <1>5
<1>6. QED
  BY <1>3, <1>4, <1>5

(* A byte in decimal code.                                                 *)
LEMMA BcdCode ==
    ASSUME NEW n \in 0 .. 99
    PROVE  /\ ToBcd(n) \in 0 .. 153
           /\ ToBcd(n) \div 16 = n \div 10 /\ ToBcd(n) % 16 = n % 10
           /\ Bcd(ToBcd(n)) = n
<1>1. ToBcd(n) \in 0 .. 153
  BY DEF ToBcd
<1>2. ToBcd(n) \div 16 = n \div 10 /\ ToBcd(n) % 16 = n % 10
  BY DEF ToBcd
<1>3. Bcd(ToBcd(n)) = n
  BY <1>2 DEF Bcd
<1>4. QED
  BY <1>1, <1>2, <1>3

YearMonthBytes(t) == <<247, ToBcd(t.year - 2000), ToBcd(t.month)>>
DayBytes(t) == <<246, ToBcd(t.day)>>
HourBytes(t) == <<HourByte(t)>>

LEMMA MarkBytesTyped ==
    ASSUME NEW t \in Clock
    PROVE  /\ YearMonthBytes(t) \in Seq(Bytes8) /\ Len(YearMonthBytes(t)) = 3
           /\ DayBytes(t) \in Seq(Bytes8) /\ Len(DayBytes(t)) = 2
           /\ HourBytes(t) \in Seq(Bytes8) /\ Len(HourBytes(t)) = 1
           /\ HourByte(t) \in 240 .. 245
<1> DEFINE y == t.year - 2000
           m == t.month
           d == t.day
<1>1. y \in 0 .. 99 /\ m \in 0 .. 99 /\ d \in 0 .. 99
  BY ClockTyped
<1>2. /\ ToBcd(y) \in Bytes8 /\ ToBcd(m) \in Bytes8 /\ ToBcd(d) \in Bytes8
  <2> HIDE DEF y, m, d
  <2>1. ToBcd(y) \in 0 .. 153 /\ ToBcd(m) \in 0 .. 153 /\ ToBcd(d) \in 0 .. 153
    BY <1>1, BcdCode
  <2>2. QED
    BY <2>1 DEF Bytes8
<1>3. HourByte(t) \in 240 .. 245
  <2>1. t.hour \in 0 .. 23
    BY ClockTyped
  <2>2. QED
    BY <2>1 DEF HourByte
<1>4. 246 \in Bytes8 /\ 247 \in Bytes8 /\ HourByte(t) \in Bytes8
  BY <1>3 DEF Bytes8
<1>5. QED
  BY <1>2, <1>3, <1>4 DEF YearMonthBytes, DayBytes, HourBytes

LEMMA KindBytesAre ==
    ASSUME NEW r \in Records
    PROVE  /\ KindBytes(r) \in Seq(Bytes8)
           /\ r.kind = "touch" => KindBytes(r) = <<>>
           /\ r.kind # "touch" => Len(KindBytes(r)) = 1
           /\ r.kind = "anti" => KindBytes(r) = <<248>>
           /\ r.kind = "key" => KindBytes(r) = <<249>>
           /\ r.kind = "change" => KindBytes(r) = <<254>>
           /\ r.kind = "sensor" => KindBytes(r) = <<251>>
           /\ r.kind = "reserved" => KindBytes(r) = <<252>>
<1>1. r.kind \in Kinds
  BY RecordTyped
<1>2. /\ r.kind = "touch" => KindBytes(r) = <<>>
      /\ r.kind = "anti" => KindBytes(r) = <<248>>
      /\ r.kind = "key" => KindBytes(r) = <<249>>
      /\ r.kind = "change" => KindBytes(r) = <<254>>
      /\ r.kind = "sensor" => KindBytes(r) = <<251>>
      /\ r.kind = "reserved" => KindBytes(r) = <<252>>
  BY DEF KindBytes
<1>3. /\ <<>> \in Seq(Bytes8) /\ <<248>> \in Seq(Bytes8) /\ <<249>> \in Seq(Bytes8)
      /\ <<254>> \in Seq(Bytes8) /\ <<251>> \in Seq(Bytes8) /\ <<252>> \in Seq(Bytes8)
  BY DEF Bytes8
<1>4. /\ Len(<<248>>) = 1 /\ Len(<<249>>) = 1 /\ Len(<<254>>) = 1
      /\ Len(<<251>>) = 1 /\ Len(<<252>>) = 1
  OBVIOUS
<1>5. r.kind = "touch" \/ r.kind = "anti" \/ r.kind = "key"
      \/ r.kind = "change" \/ r.kind = "sensor" \/ r.kind = "reserved"
  BY <1>1 DEF Kinds
<1>6. KindBytes(r) \in Seq(Bytes8)
  <2>1. CASE r.kind = "touch"
    BY <1>2, <2>1 DEF Bytes8
  <2>2. CASE r.kind = "anti"
    BY <2>2 DEF KindBytes, Bytes8
  <2>3. CASE r.kind = "key"
    BY <2>3 DEF KindBytes, Bytes8
  <2>4. CASE r.kind = "change"
    BY <2>4 DEF KindBytes, Bytes8
  <2>5. CASE r.kind = "sensor"
    BY <2>5 DEF KindBytes, Bytes8
  <2>6. CASE r.kind = "reserved"
    BY <2>6 DEF KindBytes, Bytes8
  <2>7. QED
    BY <1>5, <2>1, <2>2, <2>3, <2>4, <2>5, <2>6
<1>7. r.kind # "touch" => Len(KindBytes(r)) = 1
  BY <1>2, <1>4, <1>5, Zenon
<1>8. QED
  BY <1>2, <1>6, <1>7, Zenon

SecondByte(r) == ToBcd(r.at.second) + (IF r.doubt THEN 128 ELSE 0)

LEMMA TimeBytes ==
    ASSUME NEW r \in Records
    PROVE  /\ TimeByte(r.at) \in 0 .. 239 /\ SecondByte(r) \in Bytes8
           /\ TimeByte(r.at) \div 4 = r.at.minute
           /\ TimeByte(r.at) % 4 = r.at.hour % 4
           /\ Bcd(SecondByte(r) % 128) = r.at.second
<1> DEFINE t == r.at
<1>1. t.hour \in 0 .. 23 /\ t.minute \in 0 .. 59 /\ t.second \in 0 .. 59
  BY RecordTyped, ClockTyped
<1>2. /\ TimeByte(t) \in 0 .. 239
      /\ TimeByte(t) \div 4 = t.minute
      /\ TimeByte(t) % 4 = t.hour % 4
  <2>1. t.hour % 4 \in 0 .. 3
    BY <1>1
  <2>2. QED
    BY <1>1, <2>1 DEF TimeByte
<1>3. ToBcd(t.second) \in 0 .. 89
  BY <1>1 DEF ToBcd
<1>4. SecondByte(r) % 128 = ToBcd(t.second) /\ SecondByte(r) \in 0 .. 255
  <2>1. SecondByte(r) = ToBcd(t.second) \/ SecondByte(r) = ToBcd(t.second) + 128
    BY <1>3 DEF SecondByte
  <2>2. QED
    BY <1>3, <2>1
<1>5. Bcd(ToBcd(t.second)) = t.second
  <2> DEFINE s == t.second
  <2>1. s \in 0 .. 99
    BY <1>1
  <2> HIDE DEF s
  <2>2. Bcd(ToBcd(s)) = s
    BY <2>1, BcdCode
  <2>3. QED
    BY <2>2 DEF s
<1>6. QED
  BY <1>2, <1>4, <1>5 DEF Bytes8

LEMMA GlueOne ==
    ASSUME NEW V, NEW a \in V, NEW b \in V, NEW c \in V
    PROVE  <<a, b>> \o <<c>> = <<a, b, c>>
<1>1. <<a, b>> \in Seq(V) /\ <<c>> \in Seq(V) /\ <<a, b, c>> \in Seq(V)
  OBVIOUS
<1>2. Len(<<a, b>>) = 2 /\ Len(<<c>>) = 1 /\ Len(<<a, b, c>>) = 3
  OBVIOUS
<1>3. \A i \in 1 .. 3 : (<<a, b>> \o <<c>>)[i] = <<a, b, c>>[i]
  BY <1>1, <1>2, ConcatProperties
<1>4. <<a, b>> \o <<c>> \in Seq(V) /\ Len(<<a, b>> \o <<c>>) = 3
  BY <1>1, <1>2, ConcatProperties
<1>5. QED
  BY <1>1, <1>2, <1>3, <1>4, SeqEqual

LEMMA GlueTwo ==
    ASSUME NEW V, NEW a \in V, NEW b \in V, NEW c \in V, NEW d \in V
    PROVE  <<a, b>> \o <<c, d>> = <<a, b, c, d>>
<1>1. <<a, b>> \in Seq(V) /\ <<c, d>> \in Seq(V) /\ <<a, b, c, d>> \in Seq(V)
  OBVIOUS
<1>2. Len(<<a, b>>) = 2 /\ Len(<<c, d>>) = 2 /\ Len(<<a, b, c, d>>) = 4
  OBVIOUS
<1>3. \A i \in 1 .. 4 : (<<a, b>> \o <<c, d>>)[i] = <<a, b, c, d>>[i]
  BY <1>1, <1>2, ConcatProperties
<1>4. <<a, b>> \o <<c, d>> \in Seq(V) /\ Len(<<a, b>> \o <<c, d>>) = 4
  BY <1>1, <1>2, ConcatProperties
<1>5. QED
  BY <1>1, <1>2, <1>3, <1>4, SeqEqual

LEMMA GlueThree ==
    ASSUME NEW V, NEW a \in V, NEW b \in V, NEW c \in V, NEW d \in V, NEW e \in V
    PROVE  <<a, b>> \o <<c, d, e>> = <<a, b, c, d, e>>
<1>1. <<a, b>> \in Seq(V) /\ <<c, d, e>> \in Seq(V) /\ <<a, b, c, d, e>> \in Seq(V)
  OBVIOUS
<1>2. Len(<<a, b>>) = 2 /\ Len(<<c, d, e>>) = 3 /\ Len(<<a, b, c, d, e>>) = 5
  OBVIOUS
<1>3. \A i \in 1 .. 5 : (<<a, b>> \o <<c, d, e>>)[i] = <<a, b, c, d, e>>[i]
  BY <1>1, <1>2, ConcatProperties
<1>4. <<a, b>> \o <<c, d, e>> \in Seq(V) /\ Len(<<a, b>> \o <<c, d, e>>) = 5
  BY <1>1, <1>2, ConcatProperties
<1>5. QED
  BY <1>1, <1>2, <1>3, <1>4, SeqEqual

(* The bytes of a record's body, by kind.                                  *)
LEMMA BodyIs ==
    ASSUME NEW r \in Records
    PROVE  /\ Body(r) \in Seq(Bytes8)
           /\ r.kind = "touch" =>
                Body(r) = <<TimeByte(r.at), SecondByte(r), r.data[1], r.data[2], r.data[3]>>
           /\ r.kind = "key" => Body(r) = <<TimeByte(r.at), SecondByte(r), r.data[1]>>
           /\ r.kind = "anti" =>
                Body(r) = <<TimeByte(r.at), SecondByte(r),
                            (r.data[2] \div 256) * 16 + r.data[1], r.data[2] % 256>>
           /\ r.kind = "change" => Body(r) = <<TimeByte(r.at), SecondByte(r)>>
           /\ r.kind \in {"sensor", "reserved"} => Body(r) = <<>>
<1> DEFINE a == TimeByte(r.at)
           b == SecondByte(r)
           d == r.data
<1>1. r.kind \in Kinds /\ a \in Bytes8 /\ b \in Bytes8
  BY RecordTyped, TimeBytes DEF Bytes8
<1>2. CASE r.kind = "touch"
  <2>1. d \in [1 .. 3 -> 0 .. 255]
    BY <1>2, DataTyped
  <2>2. d = <<d[1], d[2], d[3]>> /\ d[1] \in Bytes8 /\ d[2] \in Bytes8 /\ d[3] \in Bytes8
    BY <2>1 DEF Bytes8
  <2>3. Body(r) = <<a, b>> \o d
    BY <1>2 DEF Body, SecondByte
  <2>4. Body(r) = <<a, b>> \o <<d[1], d[2], d[3]>>
    BY <2>2, <2>3
  <2> HIDE DEF a, b, d
  <2>5. Body(r) = <<a, b, d[1], d[2], d[3]>>
    BY <1>1, <2>2, <2>4, GlueThree
  <2>6. <<a, b, d[1], d[2], d[3]>> \in Seq(Bytes8)
    BY <1>1, <2>2
  <2>7. QED
    BY <1>2, <2>5, <2>6 DEF a, b, d
<1>3. CASE r.kind = "key"
  <2>1. d \in [1 .. 1 -> 0 .. 15]
    BY <1>3, DataTyped
  <2>2. d = <<d[1]>> /\ d[1] \in Bytes8
    BY <2>1 DEF Bytes8
  <2>3. Body(r) = <<a, b>> \o d
    BY <1>3 DEF Body, SecondByte
  <2>4. Body(r) = <<a, b>> \o <<d[1]>>
    BY <2>2, <2>3
  <2> HIDE DEF a, b, d
  <2>5. Body(r) = <<a, b, d[1]>>
    BY <1>1, <2>2, <2>4, GlueOne
  <2>6. <<a, b, d[1]>> \in Seq(Bytes8)
    BY <1>1, <2>2
  <2>7. QED
    BY <1>3, <2>5, <2>6 DEF a, b, d
<1>4. CASE r.kind = "anti"
  <2> DEFINE x == (d[2] \div 256) * 16 + d[1]
             y == d[2] % 256
  <2>1. d[1] \in 0 .. 7 /\ d[2] \in 0 .. 4095
    <3>1. d \in (0 .. 7) \X (0 .. 4095)
      BY <1>4, DataTyped
    <3> HIDE DEF d
    <3>2. QED
      BY <3>1
  <2>2. x \in Bytes8 /\ y \in Bytes8
    <3> DEFINE u == d[1]
               v == d[2]
    <3>1. u \in 0 .. 7 /\ v \in 0 .. 4095
      BY <2>1
    <3> HIDE DEF u, v
    <3>2. (v \div 256) * 16 + u \in Bytes8 /\ v % 256 \in Bytes8
      BY <3>1 DEF Bytes8
    <3>3. QED
      BY <3>2 DEF u, v
  <2>3. Body(r) = <<a, b>> \o <<x, y>>
    BY <1>4 DEF Body, SecondByte
  <2> HIDE DEF a, b, x, y
  <2>4. <<a, b>> \o <<x, y>> = <<a, b, x, y>> /\ <<a, b, x, y>> \in Seq(Bytes8)
    BY <1>1, <2>2, GlueTwo
  <2>5. QED
    BY <1>4, <2>3, <2>4 DEF a, b, x, y
<1>5. CASE r.kind = "change"
  <2>1. Body(r) = <<a, b>>
    BY <1>5 DEF Body, SecondByte
  <2> HIDE DEF a, b
  <2>2. <<a, b>> \in Seq(Bytes8)
    BY <1>1
  <2>3. QED
    BY <1>5, <2>1, <2>2 DEF a, b
<1>6. CASE r.kind \in {"sensor", "reserved"}
  BY <1>6 DEF Body
<1>7. QED
  BY <1>1, <1>2, <1>3, <1>4, <1>5, <1>6 DEF Kinds

(* x \o y, by a name of its own.                                           *)
Cat(x, y) == x \o y

LEMMA CatLaws ==
    ASSUME NEW V
    PROVE  /\ \A x, y \in Seq(V) : Cat(x, y) \in Seq(V)
           /\ \A x, y, z \in Seq(V) : Cat(Cat(x, y), z) = Cat(x, Cat(y, z))
           /\ \A x \in Seq(V) : Cat(<<>>, x) = x
<1>1. \A x, y \in Seq(V) : x \o y \in Seq(V)
  BY ConcatProperties
<1>2. \A x, y, z \in Seq(V) : (x \o y) \o z = x \o (y \o z)
  BY ConcatAssociative
<1>3. \A x \in Seq(V) : <<>> \o x = x
  BY ConcatEmptySeq
<1>4. QED
  BY <1>1, <1>2, <1>3, Zenon DEF Cat

(* Four parts and the body, one behind the other.                          *)
Chain(a, b, c, d, w) == Cat(a, Cat(b, Cat(c, Cat(d, w))))

LEMMA ChainTyped ==
    ASSUME NEW V, NEW a \in Seq(V), NEW b \in Seq(V), NEW c \in Seq(V), NEW d \in Seq(V),
           NEW w \in Seq(V)
    PROVE  Chain(a, b, c, d, w) \in Seq(V)
<1> DEFINE S == Seq(V)
<1>1. \A x, y \in S : Cat(x, y) \in S
  BY CatLaws
<1> HIDE DEF S
<1>2. a \in S /\ b \in S /\ c \in S /\ d \in S /\ w \in S
  BY DEF S
<1>3. QED
  BY <1>1, <1>2 DEF Chain, S

(* An empty part is none.                                                  *)
LEMMA EmptyPart ==
    ASSUME NEW V, NEW b \in Seq(V), NEW c \in Seq(V), NEW d \in Seq(V), NEW w \in Seq(V)
    PROVE  /\ Chain(<<>>, b, c, d, w) = Cat(b, Cat(c, Cat(d, w)))
           /\ Chain(<<>>, <<>>, c, d, w) = Cat(c, Cat(d, w))
           /\ Chain(<<>>, <<>>, <<>>, d, w) = Cat(d, w)
           /\ Chain(<<>>, <<>>, <<>>, <<>>, w) = w
<1> DEFINE S == Seq(V)
<1>1. /\ \A x, y \in S : Cat(x, y) \in S
      /\ \A x \in S : Cat(<<>>, x) = x
  BY CatLaws
<1> HIDE DEF S
<1>2. b \in S /\ c \in S /\ d \in S /\ w \in S
  BY DEF S
<1>3. QED
  BY <1>1, <1>2 DEF Chain

(* The two orders in which a sensor puts the parts.                        *)
LEMMA Rechain ==
    ASSUME NEW V, NEW k \in Seq(V), NEW a \in Seq(V), NEW b \in Seq(V), NEW c \in Seq(V),
           NEW w \in Seq(V)
    PROVE  /\ Cat(Cat(k, Cat(Cat(a, b), c)), w) = Chain(k, a, b, c, w)
           /\ Cat(Cat(Cat(Cat(a, b), c), k), w) = Chain(a, b, c, k, w)
<1> DEFINE S == Seq(V)
<1>1. /\ \A x, y \in S : Cat(x, y) \in S
      /\ \A x, y, z \in S : Cat(Cat(x, y), z) = Cat(x, Cat(y, z))
  BY CatLaws
<1> HIDE DEF S
<1>2. k \in S /\ a \in S /\ b \in S /\ c \in S /\ w \in S
  BY DEF S
<1>3. Cat(Cat(a, b), c) \in S /\ Cat(Cat(Cat(a, b), c), w) = Cat(a, Cat(b, Cat(c, w)))
  BY <1>1, <1>2
<1>4. Cat(Cat(Cat(a, b), c), Cat(k, w)) = Cat(a, Cat(b, Cat(c, Cat(k, w))))
  BY <1>1, <1>2
<1>5. QED
  BY <1>1, <1>2, <1>3, <1>4 DEF Chain

-----------------------------------------------------------------------------
(* What is left of a record in the middle of the walk: the parts that the  *)
(* walk has still to meet, p says which.                                   *)

Pending == [kind : BOOLEAN, month : BOOLEAN, day : BOOLEAN, hour : BOOLEAN]

Given(b, s) == IF b THEN s ELSE <<>>

Left(r, p, early) ==
    LET k == Given(p.kind, KindBytes(r))
        m == Given(p.month, YearMonthBytes(r.at))
        d == Given(p.day, DayBytes(r.at))
        u == Given(p.hour, HourBytes(r.at))
    IN  IF early THEN Chain(k, m, d, u, Body(r)) ELSE Chain(m, d, u, k, Body(r))

(* At its beginning.                                                       *)
Whole(h, n) ==
    LET s == Before(h, n)
        t == h[n].at
    IN  [kind |-> h[n].kind # "touch",
         month |-> s.year # t.year \/ s.month # t.month,
         day |-> s.day # t.day,
         hour |-> HourByte(s) # HourByte(t)]

LEMMA GivenTyped ==
    ASSUME NEW V, NEW b \in BOOLEAN, NEW s \in Seq(V)
    PROVE  Given(b, s) \in Seq(V) /\ (b => Given(b, s) = s) /\ (~b => Given(b, s) = <<>>)
BY DEF Given

(* The parts that are written are the bytes of the record.                 *)
LEMMA WholeLeft ==
    ASSUME NEW h \in Seq(Records), NEW n \in 1 .. Len(h), NEW early \in BOOLEAN
    PROVE  /\ Whole(h, n) \in Pending
           /\ RecordBytes(h, n, early) = Left(h[n], Whole(h, n), early)
<1>1. h[n] \in Records
  BY ElementOfSeq
<1>2. Whole(h, n) \in Pending
  BY DEF Whole, Pending
<1> DEFINE s == Before(h, n)
           t == h[n].at
           p == Whole(h, n)
<1>3. Given(p.kind, KindBytes(h[n])) = KindBytes(h[n])
  BY <1>1, KindBytesAre DEF Given, Whole
<1> DEFINE k == KindBytes(h[n])
           a == Given(p.month, YearMonthBytes(t))
           b == Given(p.day, DayBytes(t))
           c == Given(p.hour, HourBytes(t))
           w == Body(h[n])
           S == Seq(Bytes8)
<1>4. Marks(s, t) = (a \o b) \o c
  <2>1. /\ p.month = (s.year # t.year \/ s.month # t.month)
        /\ p.day = (s.day # t.day)
        /\ p.hour = (HourByte(s) # HourByte(t))
    BY DEF Whole
  <2> DEFINE x == IF s.year # t.year \/ s.month # t.month
                  THEN <<247, ToBcd(t.year - 2000), ToBcd(t.month)>> ELSE <<>>
             y == IF s.day # t.day THEN <<246, ToBcd(t.day)>> ELSE <<>>
             z == IF HourByte(s) # HourByte(t) THEN <<HourByte(t)>> ELSE <<>>
  <2>2. x = a
    <3>1. CASE s.year # t.year \/ s.month # t.month
      <4>1. p.month
        BY <2>1, <3>1
      <4>2. QED
        BY <3>1, <4>1 DEF Given, YearMonthBytes
    <3>2. CASE ~(s.year # t.year \/ s.month # t.month)
      <4>1. ~p.month
        BY <2>1, <3>2
      <4>2. QED
        BY <3>2, <4>1 DEF Given
    <3>3. QED
      BY <3>1, <3>2
  <2>3. y = b
    BY <2>1, Zenon DEF Given, DayBytes
  <2>4. z = c
    BY <2>1, Zenon DEF Given, HourBytes
  <2>5. Marks(s, t) = (x \o y) \o z
    BY Zenon DEF Marks
  <2> HIDE DEF x, y, z, a, b, c, s, t
  <2>6. QED
    BY <2>2, <2>3, <2>4, <2>5, Zenon
<1>5. t \in Clock
  BY <1>1, RecordTyped
<1>6. k \in S /\ a \in S /\ b \in S /\ c \in S /\ w \in S
  <2>1. p.month \in BOOLEAN /\ p.day \in BOOLEAN /\ p.hour \in BOOLEAN
    BY <1>2 DEF Pending
  <2>2. YearMonthBytes(t) \in S /\ DayBytes(t) \in S /\ HourBytes(t) \in S
    BY <1>5, MarkBytesTyped
  <2>3. k \in S /\ w \in S
    BY <1>1, KindBytesAre, BodyIs
  <2> HIDE DEF p, t
  <2>4. QED
    BY <2>1, <2>2, <2>3, GivenTyped
<1>7. RecordBytes(h, n, early) = IF early THEN Cat(Cat(k, Cat(Cat(a, b), c)), w)
                                          ELSE Cat(Cat(Cat(Cat(a, b), c), k), w)
  BY <1>4, Zenon DEF RecordBytes, Cat
<1>8. Left(h[n], p, early) =
          IF early THEN Chain(k, a, b, c, w) ELSE Chain(a, b, c, k, w)
  BY <1>3, Zenon DEF Left
<1>9. /\ Cat(Cat(k, Cat(Cat(a, b), c)), w) = Chain(k, a, b, c, w)
      /\ Cat(Cat(Cat(Cat(a, b), c), k), w) = Chain(a, b, c, k, w)
  <2> HIDE DEF k, a, b, c, w
  <2>1. QED
    BY <1>6, Rechain
<1> HIDE DEF k, a, b, c, w
<1>10. QED
  BY <1>2, <1>7, <1>8, <1>9, Zenon DEF p

LEMMA LeftTyped ==
    ASSUME NEW r \in Records, NEW p \in Pending, NEW early \in BOOLEAN
    PROVE  Left(r, p, early) \in Seq(Bytes8)
<1> DEFINE S == Seq(Bytes8)
           k == Given(p.kind, KindBytes(r))
           a == Given(p.month, YearMonthBytes(r.at))
           b == Given(p.day, DayBytes(r.at))
           c == Given(p.hour, HourBytes(r.at))
           w == Body(r)
<1>1. p.kind \in BOOLEAN /\ p.month \in BOOLEAN /\ p.day \in BOOLEAN /\ p.hour \in BOOLEAN
  BY DEF Pending
<1>2. k \in S /\ a \in S /\ b \in S /\ c \in S /\ w \in S
  BY <1>1, RecordTyped, KindBytesAre, MarkBytesTyped, BodyIs, GivenTyped
<1>3. Left(r, p, early) = IF early THEN Chain(k, a, b, c, w) ELSE Chain(a, b, c, k, w)
  BY Zenon DEF Left
<1> HIDE DEF k, a, b, c, w
<1>4. QED
  BY <1>2, <1>3, ChainTyped

NonePending(p) == ~p.kind /\ ~p.month /\ ~p.day /\ ~p.hour

(* Which part comes next.                                                  *)
LEMMA NextPart ==
    ASSUME NEW r \in Records, NEW p \in Pending, NEW early \in BOOLEAN
    PROVE  \/ /\ p.kind
              /\ Left(r, p, early) =
                    Cat(KindBytes(r), Left(r, [p EXCEPT !.kind = FALSE], early))
           \/ /\ p.month
              /\ Left(r, p, early) =
                    Cat(YearMonthBytes(r.at), Left(r, [p EXCEPT !.month = FALSE], early))
           \/ /\ p.day
              /\ Left(r, p, early) =
                    Cat(DayBytes(r.at), Left(r, [p EXCEPT !.day = FALSE], early))
           \/ /\ p.hour
              /\ Left(r, p, early) =
                    Cat(HourBytes(r.at), Left(r, [p EXCEPT !.hour = FALSE], early))
           \/ NonePending(p) /\ Left(r, p, early) = Body(r)
<1> DEFINE S == Seq(Bytes8)
           K == KindBytes(r)
           A == YearMonthBytes(r.at)
           B == DayBytes(r.at)
           C == HourBytes(r.at)
           W == Body(r)
           k == Given(p.kind, K)
           a == Given(p.month, A)
           b == Given(p.day, B)
           c == Given(p.hour, C)
<1>1. K \in S /\ A \in S /\ B \in S /\ C \in S /\ W \in S
  BY RecordTyped, KindBytesAre, MarkBytesTyped, BodyIs
<1>2. p.kind \in BOOLEAN /\ p.month \in BOOLEAN /\ p.day \in BOOLEAN /\ p.hour \in BOOLEAN
  BY DEF Pending
<1>3. k \in S /\ a \in S /\ b \in S /\ c \in S
  BY <1>1, <1>2, GivenTyped
<1>4. Left(r, p, early) = IF early THEN Chain(k, a, b, c, W) ELSE Chain(a, b, c, k, W)
  BY Zenon DEF Left
<1>5. /\ Left(r, [p EXCEPT !.kind = FALSE], early)
            = IF early THEN Chain(<<>>, a, b, c, W) ELSE Chain(a, b, c, <<>>, W)
      /\ Left(r, [p EXCEPT !.month = FALSE], early)
            = IF early THEN Chain(k, <<>>, b, c, W) ELSE Chain(<<>>, b, c, k, W)
      /\ Left(r, [p EXCEPT !.day = FALSE], early)
            = IF early THEN Chain(k, a, <<>>, c, W) ELSE Chain(a, <<>>, c, k, W)
      /\ Left(r, [p EXCEPT !.hour = FALSE], early)
            = IF early THEN Chain(k, a, b, <<>>, W) ELSE Chain(a, b, <<>>, k, W)
  BY DEF Left, Given, Pending
<1>6. /\ p.kind => k = K
      /\ ~p.kind => k = <<>>
      /\ p.month => a = A
      /\ ~p.month => a = <<>>
      /\ p.day => b = B
      /\ ~p.day => b = <<>>
      /\ p.hour => c = C
      /\ ~p.hour => c = <<>>
  BY DEF Given
<1>7. <<>> \in S
  BY EmptySeq
<1> HIDE DEF K, A, B, C, W, k, a, b, c
<1>8. /\ Chain(<<>>, a, b, c, W) = Cat(a, Cat(b, Cat(c, W)))
      /\ Chain(<<>>, <<>>, b, c, W) = Cat(b, Cat(c, W))
      /\ Chain(<<>>, <<>>, <<>>, c, W) = Cat(c, W)
      /\ Chain(<<>>, <<>>, <<>>, <<>>, W) = W
  BY <1>1, <1>3, EmptyPart
<1>9. /\ Chain(<<>>, b, c, k, W) = Cat(b, Cat(c, Cat(k, W)))
      /\ Chain(<<>>, <<>>, c, k, W) = Cat(c, Cat(k, W))
      /\ Chain(<<>>, <<>>, <<>>, k, W) = Cat(k, W)
  BY <1>1, <1>3, EmptyPart
<1> HIDE DEF S
<1>10. CASE early /\ p.kind
  BY <1>4, <1>5, <1>6, <1>8, <1>10, Zenon DEF K, Chain
<1>11. CASE early /\ ~p.kind /\ p.month
  BY <1>4, <1>5, <1>6, <1>8, <1>11, Zenon DEF A
<1>12. CASE early /\ ~p.kind /\ ~p.month /\ p.day
  BY <1>4, <1>5, <1>6, <1>8, <1>12, Zenon DEF B
<1>13. CASE early /\ ~p.kind /\ ~p.month /\ ~p.day /\ p.hour
  BY <1>4, <1>5, <1>6, <1>8, <1>13, Zenon DEF C
<1>14. CASE ~early /\ p.month
  BY <1>4, <1>5, <1>6, <1>9, <1>14, Zenon DEF A, Chain
<1>15. CASE ~early /\ ~p.month /\ p.day
  BY <1>4, <1>5, <1>6, <1>9, <1>15, Zenon DEF B
<1>16. CASE ~early /\ ~p.month /\ ~p.day /\ p.hour
  BY <1>4, <1>5, <1>6, <1>9, <1>16, Zenon DEF C
<1>17. CASE ~early /\ ~p.month /\ ~p.day /\ ~p.hour /\ p.kind
  BY <1>4, <1>5, <1>6, <1>8, <1>9, <1>17, Zenon DEF K
<1>18. CASE NonePending(p)
  BY <1>4, <1>6, <1>8, <1>18 DEF NonePending, W
<1>19. QED
  BY <1>2, <1>10, <1>11, <1>12, <1>13, <1>14, <1>15, <1>16, <1>17, <1>18 DEF NonePending

-----------------------------------------------------------------------------
(* The memory of a sensor, record by record.                               *)

LEMMA RecordBytesTyped ==
    ASSUME NEW h \in Seq(Records), NEW n \in 1 .. Len(h), NEW early \in BOOLEAN
    PROVE  RecordBytes(h, n, early) \in Seq(Bytes8)
<1>1. h[n] \in Records
  BY ElementOfSeq
<1>2. RecordBytes(h, n, early) = Left(h[n], Whole(h, n), early) /\ Whole(h, n) \in Pending
  BY WholeLeft
<1>3. Left(h[n], Whole(h, n), early) \in Seq(Bytes8)
  BY <1>1, <1>2, LeftTyped
<1>4. QED
  BY <1>2, <1>3

(* The memory of n records is that of n - 1 with the bytes of the n-th.    *)
LEMMA MemoryIs ==
    ASSUME NEW h \in Seq(Records), NEW early \in BOOLEAN
    PROVE  /\ Memory(h, early) \in [0 .. Len(h) -> Seq(Bytes8)]
           /\ Memory(h, early)[0] = <<>>
           /\ \A n \in 1 .. Len(h) :
                 Memory(h, early)[n] = Memory(h, early)[n - 1] \o RecordBytes(h, n, early)
<1> DEFINE V == Seq(Bytes8)
           N == Len(h)
           F == [n \in 1 .. N |-> [v \in V |-> v \o RecordBytes(h, n, early)]]
           Is(g) == g = [n \in 0 .. N |-> IF n = 0 THEN <<>>
                                          ELSE g[n - 1] \o RecordBytes(h, n, early)]
<1>1. N \in Nat /\ <<>> \in V
  BY EmptySeq
<1>2. \A n \in 1 .. N : \A v \in V : v \o RecordBytes(h, n, early) \in V
  BY RecordBytesTyped, ConcatProperties
<1>3. F \in [1 .. N -> [V -> V]] /\ \A n \in 1 .. N, v \in V : F[n][v] = v \o RecordBytes(h, n, early)
  <2> HIDE DEF V, N
  <2>1. QED
    BY <1>2
<1> HIDE DEF F
<1>4. PICK g : TypedRecursion(g, V, N, <<>>, F)
  <2> HIDE DEF V, N
  <2>1. QED
    BY <1>1, <1>3, RecursiveFunction
<1>5. Is(g)
  <2> HIDE DEF V
  <2>1. \A n \in 1 .. N : n - 1 \in 0 .. N /\ n # 0
    BY <1>1
  <2>2. \A n \in 1 .. N : g[n] = g[n - 1] \o RecordBytes(h, n, early)
    BY <1>3, <1>4, <2>1 DEF TypedRecursion
  <2>3. \A n \in 0 .. N : n = 0 \/ n \in 1 .. N
    BY <1>1
  <2>4. g = [n \in 0 .. N |-> g[n]]
    BY <1>4 DEF TypedRecursion
  <2>5. \A n \in 0 .. N :
           g[n] = IF n = 0 THEN <<>> ELSE g[n - 1] \o RecordBytes(h, n, early)
    BY <1>4, <2>2, <2>3, Zenon DEF TypedRecursion
  <2>6. QED
    BY <2>4, <2>5, Zenon
<1>6. Memory(h, early) = CHOOSE f : Is(f)
  BY DEF Memory
<1>7. Is(Memory(h, early))
  <2> HIDE DEF Is
  <2>1. QED
    BY <1>5, <1>6, Zenon
<1> DEFINE f == Memory(h, early)
<1>8. /\ f = [n \in 0 .. N |-> f[n]]
      /\ f[0] = <<>>
      /\ \A n \in 1 .. N : f[n] = f[n - 1] \o RecordBytes(h, n, early)
  <2> HIDE DEF f
  <2>1. f = [n \in 0 .. N |-> IF n = 0 THEN <<>>
                              ELSE f[n - 1] \o RecordBytes(h, n, early)]
    BY <1>7 DEF f
  <2>2. \A n \in 0 .. N :
           f[n] = IF n = 0 THEN <<>> ELSE f[n - 1] \o RecordBytes(h, n, early)
    BY <2>1, Zenon
  <2>3. 0 \in 0 .. N /\ \A n \in 1 .. N : n \in 0 .. N /\ n # 0
    BY <1>1
  <2>4. f = [n \in 0 .. N |-> f[n]]
    BY <2>1, <2>2, Zenon
  <2>5. QED
    BY <2>2, <2>3, <2>4, Zenon
<1> HIDE DEF f
<1> DEFINE S == {k \in Nat : k <= N => f[k] \in V}
<1>9. 0 \in S
  BY <1>1, <1>8
<1>10. ASSUME NEW k \in Nat, k \in S PROVE k + 1 \in S
  <2> HIDE DEF V
  <2> SUFFICES ASSUME k + 1 <= N PROVE f[k + 1] \in V
    OBVIOUS
  <2>1. f[k] \in V
    BY <1>1, <1>10
  <2>2. k + 1 \in 1 .. N /\ (k + 1) - 1 = k
    BY <1>1
  <2>3. QED
    BY <1>2, <1>8, <2>1, <2>2
<1> HIDE DEF S
<1>11. Nat \subseteq S
  BY <1>9, <1>10, SetInduction
<1>12. \A k \in 0 .. N : f[k] \in V
  BY <1>1, <1>11 DEF S
<1>13. f \in [0 .. N -> V]
  <2> HIDE DEF V, N
  <2>1. QED
    BY <1>8, <1>12
<1>14. QED
  BY <1>8, <1>13 DEF f

NoSensor(h, n) == \A i \in 1 .. n : h[i].kind # "sensor"
Tell(h, n) == Reported(h[n]) /\ NoSensor(h, n - 1)

(* The reports of n records are those of n - 1 and, unless a sensor record *)
(* came before, that of the n-th.                                          *)
LEMMA ReportsAre ==
    ASSUME NEW h \in Seq(Records)
    PROVE  /\ Reports(h) \in [0 .. Len(h) -> Seq(Records)]
           /\ Reports(h)[0] = <<>>
           /\ \A n \in 1 .. Len(h) :
                 Reports(h)[n] = IF Tell(h, n) THEN Append(Reports(h)[n - 1], h[n])
                                               ELSE Reports(h)[n - 1]
<1> DEFINE V == Seq(Records)
           N == Len(h)
           After(n, v) == IF Tell(h, n) THEN Append(v, h[n]) ELSE v
           F == [n \in 1 .. N |-> [v \in V |-> After(n, v)]]
           Is(g) == g = [n \in 0 .. N |-> IF n = 0 THEN <<>>
                            ELSE IF Reported(h[n]) /\ \A i \in 1 .. n - 1 : h[i].kind # "sensor"
                                 THEN Append(g[n - 1], h[n]) ELSE g[n - 1]]
<1>1. N \in Nat /\ <<>> \in V
  BY EmptySeq
<1>2. \A n \in 1 .. N : \A v \in V : After(n, v) \in V
  <2> TAKE n \in 1 .. N
  <2> TAKE v \in V
  <2>1. h[n] \in Records
    BY ElementOfSeq
  <2>2. Append(v, h[n]) \in V
    BY <2>1, AppendProperties
  <2>3. QED
    BY <2>2
<1> HIDE DEF After
<1>3. F \in [1 .. N -> [V -> V]] /\ \A n \in 1 .. N, v \in V : F[n][v] = After(n, v)
  <2> HIDE DEF V, N
  <2>1. QED
    BY <1>2
<1> HIDE DEF F
<1>4. PICK g : TypedRecursion(g, V, N, <<>>, F)
  <2> HIDE DEF V, N
  <2>1. QED
    BY <1>1, <1>3, RecursiveFunction
<1>i. \A f : Is(f) <=> f = [n \in 0 .. N |-> IF n = 0 THEN <<>> ELSE After(n, f[n - 1])]
  BY Zenon DEF After, Tell, NoSensor
<1>6. Reports(h) = CHOOSE f : Is(f)
  BY DEF Reports
<1> HIDE DEF Is
<1>5. Is(g)
  <2> HIDE DEF V
  <2>1. \A n \in 1 .. N : n - 1 \in 0 .. N /\ n # 0
    BY <1>1
  <2>2. \A n \in 1 .. N : g[n] = After(n, g[n - 1])
    BY <1>3, <1>4, <2>1 DEF TypedRecursion
  <2>3. \A n \in 0 .. N : n = 0 \/ n \in 1 .. N
    BY <1>1
  <2>4. g = [n \in 0 .. N |-> g[n]]
    BY <1>4 DEF TypedRecursion
  <2>5. \A n \in 0 .. N : g[n] = IF n = 0 THEN <<>> ELSE After(n, g[n - 1])
    BY <1>4, <2>2, <2>3, Zenon DEF TypedRecursion
  <2>6. QED
    BY <1>i, <2>4, <2>5, Zenon
<1>7. Is(Reports(h))
  BY <1>5, <1>6, Zenon
<1> DEFINE f == Reports(h)
<1>8. /\ f = [n \in 0 .. N |-> f[n]]
      /\ f[0] = <<>>
      /\ \A n \in 1 .. N : f[n] = After(n, f[n - 1])
  <2> HIDE DEF f
  <2>1. f = [n \in 0 .. N |-> IF n = 0 THEN <<>> ELSE After(n, f[n - 1])]
    BY <1>7, <1>i, Zenon DEF f
  <2>2. \A n \in 0 .. N : f[n] = IF n = 0 THEN <<>> ELSE After(n, f[n - 1])
    BY <2>1, Zenon
  <2>3. 0 \in 0 .. N /\ \A n \in 1 .. N : n \in 0 .. N /\ n # 0
    BY <1>1
  <2>4. f = [n \in 0 .. N |-> f[n]]
    BY <2>1, <2>2, Zenon
  <2>5. QED
    BY <2>2, <2>3, <2>4, Zenon
<1> HIDE DEF f
<1> DEFINE S == {k \in Nat : k <= N => f[k] \in V}
<1>9. 0 \in S
  BY <1>1, <1>8
<1>10. ASSUME NEW k \in Nat, k \in S PROVE k + 1 \in S
  <2> HIDE DEF V
  <2> SUFFICES ASSUME k + 1 <= N PROVE f[k + 1] \in V
    OBVIOUS
  <2>1. f[k] \in V
    BY <1>1, <1>10
  <2>2. k + 1 \in 1 .. N /\ (k + 1) - 1 = k
    BY <1>1
  <2>3. QED
    BY <1>2, <1>8, <2>1, <2>2
<1> HIDE DEF S
<1>11. Nat \subseteq S
  BY <1>9, <1>10, SetInduction
<1>12. \A k \in 0 .. N : f[k] \in V
  BY <1>1, <1>11 DEF S
<1>13. f \in [0 .. N -> V]
  <2> HIDE DEF V, N
  <2>1. QED
    BY <1>8, <1>12
<1>14. QED
  BY <1>8, <1>13, Zenon DEF f, After

(* s is how t begins.                                                      *)
Begins(s, t) == Len(s) <= Len(t) /\ \A i \in 1 .. Len(s) : t[i] = s[i]

LEMMA BeginsFurther ==
    ASSUME NEW V, NEW s \in Seq(V), NEW t \in Seq(V), NEW u \in Seq(V),
           Begins(s, t), Begins(t, u)
    PROVE  Begins(s, u)
<1>1. Len(s) \in Nat /\ Len(t) \in Nat /\ Len(u) \in Nat
  BY LenProperties
<1>2. QED
  BY <1>1 DEF Begins

LEMMA BeginsLonger ==
    ASSUME NEW V, NEW s \in Seq(V), NEW t \in Seq(V)
    PROVE  Begins(s, s \o t) /\ Begins(s, s)
<1>1. Len(s) \in Nat /\ Len(t) \in Nat
  BY LenProperties
<1>2. Len(s \o t) = Len(s) + Len(t) /\ \A i \in 1 .. Len(s) : (s \o t)[i] = s[i]
  BY <1>1, ConcatProperties
<1>3. QED
  BY <1>1, <1>2 DEF Begins

LEMMA BeginsAppend ==
    ASSUME NEW V, NEW s \in Seq(V), NEW e \in V
    PROVE  Begins(s, Append(s, e))
<1>1. Len(s) \in Nat
  BY LenProperties
<1>2. Len(Append(s, e)) = Len(s) + 1 /\ \A i \in 1 .. Len(s) : Append(s, e)[i] = s[i]
  BY <1>1, AppendProperties
<1>3. QED
  BY <1>1, <1>2 DEF Begins

(* Sequences that grow step by step all begin the same.                    *)
LEMMA Growing ==
    ASSUME NEW V, NEW N \in Nat, NEW g \in [0 .. N -> Seq(V)],
           \A n \in 1 .. N : Begins(g[n - 1], g[n])
    PROVE  \A m \in 0 .. N : \A n \in 0 .. m : Begins(g[n], g[m])
<1> DEFINE S == {k \in Nat : k <= N => \A n \in 0 .. k : Begins(g[n], g[k])}
<1>0. ASSUME NEW k \in 0 .. N PROVE Begins(g[k], g[k])
  <2>1. g[k] \in Seq(V)
    OBVIOUS
  <2>2. Len(g[k]) \in Nat
    BY <2>1, LenProperties
  <2>3. QED
    BY <2>2 DEF Begins
<1>1. 0 \in S
  BY <1>0
<1>2. ASSUME NEW k \in Nat, k \in S PROVE k + 1 \in S
  <2> SUFFICES ASSUME k + 1 <= N, NEW n \in 0 .. k + 1 PROVE Begins(g[n], g[k + 1])
    OBVIOUS
  <2>1. k + 1 \in 1 .. N /\ (k + 1) - 1 = k /\ k \in 0 .. N /\ n \in 0 .. N
    OBVIOUS
  <2>2. CASE n = k + 1
    BY <1>0, <2>1, <2>2
  <2>3. CASE n \in 0 .. k
    <3>1. Begins(g[n], g[k])
      BY <1>2, <2>1, <2>3
    <3>2. Begins(g[k], g[k + 1])
      BY <2>1
    <3>3. g[n] \in Seq(V) /\ g[k] \in Seq(V) /\ g[k + 1] \in Seq(V)
      BY <2>1
    <3>4. QED
      BY <3>1, <3>2, <3>3, BeginsFurther
  <2>4. QED
    BY <2>2, <2>3
<1> HIDE DEF S
<1>3. Nat \subseteq S
  BY <1>1, <1>2, SetInduction
<1>4. QED
  BY <1>3 DEF S

(* The memory of a prefix of the records is a prefix of the memory.        *)
LEMMA MemoryGrows ==
    ASSUME NEW h \in Seq(Records), NEW early \in BOOLEAN
    PROVE  \A m \in 0 .. Len(h) : \A n \in 0 .. m :
              Begins(Memory(h, early)[n], Memory(h, early)[m])
<1> DEFINE g == Memory(h, early)
           N == Len(h)
<1>1. N \in Nat /\ g \in [0 .. N -> Seq(Bytes8)]
  BY MemoryIs, LenProperties
<1>2. ASSUME NEW n \in 1 .. N PROVE Begins(g[n - 1], g[n])
  <2>1. g[n] = g[n - 1] \o RecordBytes(h, n, early)
    BY MemoryIs
  <2>2. n - 1 \in 0 .. N
    BY <1>1
  <2>3. g[n - 1] \in Seq(Bytes8) /\ RecordBytes(h, n, early) \in Seq(Bytes8)
    BY <1>1, <2>2, RecordBytesTyped
  <2> HIDE DEF g
  <2>4. QED
    BY <2>1, <2>3, BeginsLonger
<1> HIDE DEF g, N
<1>3. \A m \in 0 .. N : \A n \in 0 .. m : Begins(g[n], g[m])
  BY <1>1, <1>2, Growing
<1>4. QED
  BY <1>3 DEF g, N

(* The image is a sequence of bytes.                                       *)
LEMMA DumpTyped ==
    ASSUME NEW h \in Seq(Records), NEW early \in BOOLEAN
    PROVE  Dump(h, early) \in Seq(Bytes8) /\ Len(Dump(h, early)) \in Nat
<1>1. Len(h) \in Nat
  BY LenProperties
<1>2. Dump(h, early) \in Seq(Bytes8)
  BY <1>1, MemoryIs DEF Dump
<1>3. QED
  BY <1>2, LenProperties

(* The bytes s stand in d behind the first c.                              *)
Ahead(d, c, s) ==
    /\ c \in Nat
    /\ c + Len(s) <= Len(d)
    /\ \A i \in 1 .. Len(s) : d[c + i] = s[i]

(* What stands ahead stands there part by part.                            *)
LEMMA AheadCat ==
    ASSUME NEW d, NEW c \in Nat, NEW s \in Seq(Bytes8), NEW t \in Seq(Bytes8),
           Len(d) \in Nat, Ahead(d, c, Cat(s, t))
    PROVE  /\ Ahead(d, c, s) /\ Ahead(d, c + Len(s), t)
           /\ Len(Cat(s, t)) = Len(s) + Len(t)
<1>1. Len(s) \in Nat /\ Len(t) \in Nat
  BY LenProperties
<1>2. /\ Len(Cat(s, t)) = Len(s) + Len(t)
      /\ \A i \in 1 .. Len(s) : Cat(s, t)[i] = s[i]
      /\ \A i \in 1 .. Len(t) : Cat(s, t)[Len(s) + i] = t[i]
  <2>1. Len(s \o t) = Len(s) + Len(t)
    BY ConcatProperties
  <2>2. \A i \in 1 .. Len(s) + Len(t) :
           (s \o t)[i] = IF i <= Len(s) THEN s[i] ELSE t[i - Len(s)]
    BY ConcatProperties
  <2>3. ASSUME NEW i \in 1 .. Len(t) PROVE (s \o t)[Len(s) + i] = t[i]
    <3> DEFINE k == Len(s) + i
    <3>1. k \in 1 .. Len(s) + Len(t) /\ ~(k <= Len(s)) /\ k - Len(s) = i
      BY <1>1
    <3> HIDE DEF k
    <3>2. (s \o t)[k] = t[k - Len(s)]
      BY <2>2, <3>1
    <3>3. QED
      BY <3>1, <3>2 DEF k
  <2>4. \A i \in 1 .. Len(s) : (s \o t)[i] = s[i]
    BY <1>1, <2>2
  <2>5. QED
    BY <2>1, <2>3, <2>4, Zenon DEF Cat
<1> DEFINE x == Cat(s, t)
<1>3. c + Len(x) <= Len(d) /\ \A i \in 1 .. Len(x) : d[c + i] = x[i]
  BY DEF Ahead
<1> HIDE DEF x
<1>4. Len(x) = Len(s) + Len(t)
  BY <1>2 DEF x
<1>5. Ahead(d, c, s)
  <2>1. c + Len(s) <= Len(d)
    BY <1>1, <1>3, <1>4
  <2>2. \A i \in 1 .. Len(s) : d[c + i] = s[i]
    <3> TAKE i \in 1 .. Len(s)
    <3>1. i \in 1 .. Len(x) /\ x[i] = s[i]
      BY <1>1, <1>2, <1>4 DEF x
    <3>2. QED
      BY <1>3, <3>1
  <2>3. QED
    BY <2>1, <2>2 DEF Ahead
<1>6. Ahead(d, c + Len(s), t)
  <2>1. (c + Len(s)) + Len(t) <= Len(d) /\ c + Len(s) \in Nat
    BY <1>1, <1>3, <1>4
  <2>2. ASSUME NEW i \in 1 .. Len(t) PROVE d[(c + Len(s)) + i] = t[i]
    <3>1. Len(s) + i \in 1 .. Len(x) /\ x[Len(s) + i] = t[i]
      BY <1>1, <1>2, <1>4 DEF x
    <3>2. d[c + (Len(s) + i)] = t[i]
      BY <1>3, <3>1
    <3>3. c + (Len(s) + i) = (c + Len(s)) + i
      BY <1>1
    <3>4. QED
      BY <3>2, <3>3
  <2>3. QED
    BY <2>1, <2>2 DEF Ahead
<1>7. QED
  BY <1>2, <1>5, <1>6

(* Each record stands in the dump behind those before it.                  *)
LEMMA RecordAhead ==
    ASSUME NEW h \in Seq(Records), NEW n \in 1 .. Len(h), NEW early \in BOOLEAN
    PROVE  /\ Len(Memory(h, early)[n - 1]) \in Nat /\ Len(Memory(h, early)[n]) \in Nat
           /\ Len(Memory(h, early)[n])
                 = Len(Memory(h, early)[n - 1]) + Len(RecordBytes(h, n, early))
           /\ Len(Memory(h, early)[n]) <= Len(Dump(h, early))
           /\ Ahead(Dump(h, early), Len(Memory(h, early)[n - 1]), RecordBytes(h, n, early))
<1> DEFINE g == Memory(h, early)
           b == RecordBytes(h, n, early)
           d == Dump(h, early)
           x == g[n - 1]
           y == g[n]
<1>1. n - 1 \in 0 .. Len(h) /\ n \in 0 .. Len(h) /\ Len(h) \in 0 .. Len(h)
  BY LenProperties
<1>2. x \in Seq(Bytes8) /\ y \in Seq(Bytes8) /\ b \in Seq(Bytes8) /\ y = Cat(x, b)
  BY <1>1, MemoryIs, RecordBytesTyped DEF Cat
<1>3. Begins(y, d)
  BY <1>1, MemoryGrows DEF Dump
<1>4. d \in Seq(Bytes8)
  BY DumpTyped
<1> HIDE DEF x, y, b, d
<1>5. Len(x) \in Nat /\ Len(y) \in Nat /\ Len(b) \in Nat /\ Len(d) \in Nat
  BY <1>2, <1>4, LenProperties
<1>6. Ahead(d, 0, y)
  BY <1>3, <1>5 DEF Begins, Ahead
<1>7. Len(y) = Len(x) + Len(b) /\ Ahead(d, 0 + Len(x), b)
  BY <1>2, <1>5, <1>6, AheadCat
<1>8. 0 + Len(x) = Len(x) /\ Len(y) <= Len(d)
  BY <1>3, <1>5 DEF Begins
<1>9. QED
  BY <1>5, <1>7, <1>8 DEF x, y, b, d

(* More records only add to the reports.                                   *)
LEMMA ReportsGrow ==
    ASSUME NEW h \in Seq(Records)
    PROVE  \A m \in 0 .. Len(h) : \A n \in 0 .. m : Begins(Reports(h)[n], Reports(h)[m])
<1> DEFINE g == Reports(h)
           N == Len(h)
<1>1. N \in Nat /\ g \in [0 .. N -> Seq(Records)]
  BY ReportsAre, LenProperties
<1>2. ASSUME NEW n \in 1 .. N PROVE Begins(g[n - 1], g[n])
  <2>1. g[n] = Append(g[n - 1], h[n]) \/ g[n] = g[n - 1]
    BY ReportsAre
  <2>2. n - 1 \in 0 .. N /\ h[n] \in Records
    BY <1>1, ElementOfSeq
  <2>3. g[n - 1] \in Seq(Records)
    BY <1>1, <2>2
  <2> HIDE DEF g
  <2>4. QED
    BY <2>1, <2>2, <2>3, BeginsLonger, BeginsAppend
<1> HIDE DEF g, N
<1>3. \A m \in 0 .. N : \A n \in 0 .. m : Begins(g[n], g[m])
  BY <1>1, <1>2, Growing
<1>4. QED
  BY <1>3 DEF g, N

(* Behind a sensor record nothing is reported.                             *)
LEMMA ReportsStop ==
    ASSUME NEW h \in Seq(Records), NEW n \in 1 .. Len(h), h[n].kind = "sensor"
    PROVE  Reports(h)[Len(h)] = Reports(h)[n - 1]
<1> DEFINE g == Reports(h)
           N == Len(h)
           S == {k \in Nat : n + k <= N => g[n + k] = g[n - 1]}
<1>1. N \in Nat
  BY LenProperties
<1>2. \A m \in 1 .. N : g[m] = g[m - 1] \/ Tell(h, m)
  BY ReportsAre
<1>3. ~Tell(h, n)
  BY DEF Tell, Reported
<1>4. \A m \in n + 1 .. N : ~Tell(h, m)
  BY <1>1 DEF Tell, NoSensor
<1> HIDE DEF g, N
<1>5. 0 \in S
  BY <1>1, <1>2, <1>3 DEF N
<1>6. ASSUME NEW k \in Nat, k \in S PROVE k + 1 \in S
  <2> SUFFICES ASSUME n + (k + 1) <= N PROVE g[n + (k + 1)] = g[n - 1]
    OBVIOUS
  <2> DEFINE m == n + (k + 1)
  <2>1. m \in n + 1 .. N /\ m \in 1 .. N /\ m - 1 = n + k /\ n + k <= N
    BY <1>1
  <2>2. g[n + k] = g[n - 1]
    BY <1>6, <2>1
  <2> HIDE DEF m
  <2>3. g[m] = g[m - 1]
    BY <1>2, <1>4, <2>1
  <2>4. QED
    BY <2>1, <2>2, <2>3 DEF m
<1> HIDE DEF S
<1>7. Nat \subseteq S
  BY <1>5, <1>6, SetInduction
<1>8. N - n \in S
  BY <1>1, <1>7 DEF N
<1>9. n + (N - n) = N
  BY <1>1 DEF N
<1>10. g[N] = g[n - 1]
  BY <1>1, <1>8, <1>9 DEF S
<1>11. QED
  BY <1>10 DEF g, N

-----------------------------------------------------------------------------
(* Where the walk through a complete dump can be: inside the n-th record,  *)
(* with the parts p of it still ahead, or behind the last one.             *)

Agrees(s, t, p) ==
    /\ ~p.month => s.year = t.year /\ s.month = t.month
    /\ ~p.day => s.day = t.day
    /\ ~p.hour => s.hour \div 4 = t.hour \div 4

TellsAll(j, r) == Len(j) = Len(r) /\ \A i \in 1 .. Len(j) : Tells(j[i], r[i])

Announced(r, p) == IF ~p.kind /\ r.kind \in {"anti", "key", "change"} THEN r.kind ELSE "none"

InRecord(h, n, p, early, c, s, k, j) ==
    /\ NoSensor(h, n - 1)
    /\ c + Len(Left(h[n], p, early)) = Len(Memory(h, early)[n])
    /\ Ahead(Dump(h, early), c, Left(h[n], p, early))
    /\ Agrees(s, h[n].at, p)
    /\ k = Announced(h[n], p)
    /\ h[n].kind = "touch" => ~p.kind
    /\ h[n].kind = "sensor" => p.kind
    /\ h[n].kind = "reserved" => ~NonePending(p)
    /\ TellsAll(j, Reports(h)[n - 1])

AtEnd(h, early, c, j) ==
    /\ NoSensor(h, Len(h))
    /\ c = Len(Dump(h, early))
    /\ TellsAll(j, Reports(h)[Len(h)])

Onward(h, early, c, s, k, j) ==
    \/ \E n \in 1 .. Len(h), p \in Pending : InRecord(h, n, p, early, c, s, k, j)
    \/ AtEnd(h, early, c, j)

LEMMA ClockRuns ==
    ASSUME NEW t \in Clock PROVE t.year # NoTime.year /\ t.day # NoTime.day
<1>1. t.year \in 2000 .. 2099 /\ t.day \in 1 .. 31
  BY ClockTyped
<1>2. NoTime.year = 0 /\ NoTime.day = 0
  BY DEF NoTime
<1>3. QED
  BY <1>1, <1>2

LEMMA SameHourByte ==
    ASSUME NEW x \in Clock \union {NoTime}, NEW y \in Clock, HourByte(x) = HourByte(y)
    PROVE  x.hour \div 4 = y.hour \div 4
<1> DEFINE u == x.hour
           v == y.hour
<1>1. u \in 0 .. 23 /\ v \in 0 .. 23
  BY ClockTyped DEF NoTime
<1>2. 240 + u \div 4 = 240 + v \div 4
  BY DEF HourByte
<1> HIDE DEF u, v
<1>3. u \div 4 \in Int /\ v \div 4 \in Int
  BY <1>1
<1>4. u \div 4 = v \div 4
  BY <1>2, <1>3
<1>5. QED
  BY <1>4 DEF u, v

(* At the beginning of a record the parts that are not written agree.      *)
LEMMA AgreesAtStart ==
    ASSUME NEW h \in Seq(Records), NEW n \in 1 .. Len(h), NEW s,
           n = 1 => s.hour = 0,
           n > 1 => Agrees(s, h[n - 1].at,
                           [kind |-> FALSE, month |-> FALSE, day |-> FALSE, hour |-> FALSE])
    PROVE  Agrees(s, h[n].at, Whole(h, n))
<1> DEFINE t == h[n].at
           b == Before(h, n)
           p == Whole(h, n)
<1>1. t \in Clock
  <2>1. h[n] \in Records
    BY ElementOfSeq
  <2>2. QED
    BY <2>1, RecordTyped
<1>2. /\ p.month <=> (b.year # t.year \/ b.month # t.month)
      /\ p.day <=> (b.day # t.day)
      /\ p.hour <=> (HourByte(b) # HourByte(t))
  BY DEF Whole
<1>3. CASE n = 1
  <2>1. b = NoTime
    BY <1>3 DEF Before
  <2>2. b.year = 0 /\ b.month = 0 /\ b.day = 0 /\ b.hour = 0
    BY <2>1 DEF NoTime
  <2> HIDE DEF b, p, t
  <2>3. p.month /\ p.day
    <3>1. t.year # b.year /\ t.day # b.day
      BY <1>1, <2>1, ClockRuns
    <3>2. QED
      BY <1>2, <3>1, Zenon
  <2>4. ~p.hour => s.hour \div 4 = t.hour \div 4
    <3>1. HourByte(b) = HourByte(t) => b.hour \div 4 = t.hour \div 4
      BY <1>1, <2>1, SameHourByte
    <3>2. QED
      BY <1>2, <1>3, <2>2, <3>1, Zenon
  <2>5. QED
    BY <2>3, <2>4 DEF Agrees, p, t
<1>4. CASE n > 1
  <2>1. n - 1 \in 1 .. Len(h) /\ n # 1
    BY <1>4, LenProperties
  <2>2. b = h[n - 1].at
    BY <2>1 DEF Before
  <2>3. h[n - 1] \in Records
    BY <2>1, ElementOfSeq
  <2>4. b \in Clock
    BY <2>2, <2>3, RecordTyped
  <2>5. s.year = b.year /\ s.month = b.month /\ s.day = b.day /\ s.hour \div 4 = b.hour \div 4
    BY <1>4, <2>2 DEF Agrees
  <2> HIDE DEF b, p, t
  <2>6. HourByte(b) = HourByte(t) => b.hour \div 4 = t.hour \div 4
    BY <1>1, <2>4, SameHourByte
  <2>7. QED
    BY <1>2, <2>5, <2>6 DEF Agrees, p, t
<1>5. n = 1 \/ n > 1
  BY LenProperties
<1>6. QED
  BY <1>3, <1>4, <1>5

(* The walk enters a record with all of its parts ahead.                   *)
LEMMA AtRecord ==
    ASSUME NEW h \in Seq(Records), NEW n \in 1 .. Len(h), NEW early \in BOOLEAN,
           NEW s, NEW j, NEW c, NEW k,
           NoSensor(h, n - 1), c = Len(Memory(h, early)[n - 1]), k = "none",
           Agrees(s, h[n].at, Whole(h, n)), TellsAll(j, Reports(h)[n - 1])
    PROVE  /\ Whole(h, n) \in Pending /\ InRecord(h, n, Whole(h, n), early, c, s, k, j)
           /\ Onward(h, early, c, s, k, j)
<1> DEFINE p == Whole(h, n)
           r == h[n]
<1>1. p \in Pending /\ RecordBytes(h, n, early) = Left(r, p, early)
  BY WholeLeft
<1>2. /\ c + Len(Left(r, p, early)) = Len(Memory(h, early)[n])
      /\ Ahead(Dump(h, early), c, Left(r, p, early))
  BY <1>1, RecordAhead
<1>3. p.kind = (r.kind # "touch")
  BY DEF Whole
<1> HIDE DEF p
<1>4. k = Announced(r, p)
  BY <1>3 DEF Announced
<1>5. /\ r.kind = "touch" => ~p.kind
      /\ r.kind = "sensor" => p.kind
      /\ r.kind = "reserved" => ~NonePending(p)
  BY <1>3 DEF NonePending
<1>6. InRecord(h, n, p, early, c, s, k, j)
  BY <1>2, <1>4, <1>5 DEF InRecord, p
<1>7. Onward(h, early, c, s, k, j)
  BY <1>1, <1>6 DEF Onward
<1>8. QED
  BY <1>1, <1>6, <1>7 DEF p

Done == [kind |-> FALSE, month |-> FALSE, day |-> FALSE, hour |-> FALSE]

(* Behind a record it is at the next, or at the end.                       *)
LEMMA RecordDone ==
    ASSUME NEW h \in Seq(Records), NEW n \in 1 .. Len(h), NEW early \in BOOLEAN,
           NEW s, NEW j, NEW c, NEW k,
           NoSensor(h, n), c = Len(Memory(h, early)[n]), k = "none",
           Agrees(s, h[n].at, Done), TellsAll(j, Reports(h)[n])
    PROVE  Onward(h, early, c, s, k, j)
<1>1. Len(h) \in Nat
  BY LenProperties
<1>2. CASE n = Len(h)
  BY <1>2 DEF Onward, AtEnd, Dump
<1>3. CASE n < Len(h)
  <2> DEFINE m == n + 1
  <2>1. m \in 1 .. Len(h) /\ m - 1 = n /\ m > 1 /\ m # 1
    BY <1>1, <1>3
  <2> HIDE DEF m
  <2>2. Agrees(s, h[m].at, Whole(h, m))
    BY <2>1, AgreesAtStart DEF Done
  <2>3. QED
    BY <2>1, <2>2, AtRecord
<1>4. QED
  BY <1>1, <1>2, <1>3

(* Inside a record some bytes are ahead.                                   *)
LEMMA PartAhead ==
    ASSUME NEW h \in Seq(Records), NEW n \in 1 .. Len(h), NEW p \in Pending,
           NEW early \in BOOLEAN, NEW c, NEW s, NEW k, NEW j,
           InRecord(h, n, p, early, c, s, k, j),
           NEW part \in Seq(Bytes8), NEW q \in Pending,
           Left(h[n], p, early) = Cat(part, Left(h[n], q, early))
    PROVE  /\ c \in Nat /\ Len(part) \in Nat
           /\ Ahead(Dump(h, early), c, part)
           /\ Ahead(Dump(h, early), c + Len(part), Left(h[n], q, early))
           /\ (c + Len(part)) + Len(Left(h[n], q, early)) = Len(Memory(h, early)[n])
<1> DEFINE rest == Left(h[n], q, early)
           d == Dump(h, early)
<1>1. rest \in Seq(Bytes8)
  <2>1. h[n] \in Records
    BY ElementOfSeq
  <2>2. QED
    BY <2>1, LeftTyped
<1>2. Len(d) \in Nat /\ c \in Nat /\ Ahead(d, c, Cat(part, rest))
  BY DumpTyped DEF InRecord, Ahead
<1>3. c + Len(Cat(part, rest)) = Len(Memory(h, early)[n])
  BY DEF InRecord
<1> HIDE DEF rest, d
<1>4. /\ Ahead(d, c, part) /\ Ahead(d, c + Len(part), rest)
      /\ Len(Cat(part, rest)) = Len(part) + Len(rest)
  BY <1>1, <1>2, AheadCat
<1>5. Len(part) \in Nat /\ Len(rest) \in Nat
  BY <1>1, LenProperties
<1>6. (c + Len(part)) + Len(rest) = Len(Memory(h, early)[n])
  BY <1>2, <1>3, <1>4, <1>5
<1>7. QED
  BY <1>2, <1>4, <1>5, <1>6 DEF rest, d

(* A part that is not the last of its record has been passed.              *)
LEMMA PartPassed ==
    ASSUME NEW h \in Seq(Records), NEW n \in 1 .. Len(h), NEW p \in Pending,
           NEW early \in BOOLEAN, NEW c, NEW s, NEW k, NEW j,
           InRecord(h, n, p, early, c, s, k, j),
           NEW part \in Seq(Bytes8), NEW q \in Pending,
           Left(h[n], p, early) = Cat(part, Left(h[n], q, early)),
           NEW s2, Agrees(s2, h[n].at, q),
           h[n].kind = "touch" => ~q.kind, h[n].kind = "sensor" => q.kind
    PROVE  Onward(h, early, c + Len(part), s2, Announced(h[n], q), j)
<1> DEFINE r == h[n]
           c2 == c + Len(part)
<1>1. /\ Ahead(Dump(h, early), c2, Left(r, q, early))
      /\ c2 + Len(Left(r, q, early)) = Len(Memory(h, early)[n])
      /\ c2 \in Nat
  BY PartAhead
<1>2. NoSensor(h, n - 1) /\ TellsAll(j, Reports(h)[n - 1])
  BY DEF InRecord
<1> HIDE DEF c2
<1>3. CASE ~(r.kind = "reserved" /\ NonePending(q))
  <2>1. InRecord(h, n, q, early, c2, s2, Announced(r, q), j)
    BY <1>1, <1>2, <1>3 DEF InRecord
  <2>2. QED
    BY <2>1 DEF Onward, c2
<1>4. CASE r.kind = "reserved" /\ NonePending(q)
  <2>1. r \in Records
    BY ElementOfSeq
  <2>2. q = Done
    BY <1>4 DEF Pending, Done, NonePending
  <2>3. Left(r, q, early) = <<>>
    <3>1. Left(r, q, early) = Body(r)
      BY <1>4, <2>1, NextPart, Zenon DEF NonePending
    <3>2. QED
      BY <1>4, <2>1, <3>1, BodyIs
  <2>4. c2 = Len(Memory(h, early)[n])
    BY <1>1, <2>3
  <2>5. NoSensor(h, n)
    <3>1. \A i \in 1 .. n : i \in 1 .. n - 1 \/ i = n
      BY LenProperties
    <3>2. QED
      BY <1>2, <1>4, <3>1 DEF NoSensor
  <2>6. Reports(h)[n] = Reports(h)[n - 1]
    BY <1>4, ReportsAre DEF Tell, Reported
  <2>7. Announced(r, q) = "none"
    BY <1>4 DEF Announced
  <2> HIDE DEF c2
  <2>8. Onward(h, early, c2, s2, "none", j)
    BY <1>2, <2>2, <2>4, <2>5, <2>6, RecordDone
  <2>9. QED
    BY <2>7, <2>8 DEF c2
<1>5. QED
  BY <1>3, <1>4

LEMMA InRecordTyped ==
    ASSUME NEW h \in Seq(Records), NEW n \in 1 .. Len(h), NEW p \in Pending,
           NEW early \in BOOLEAN, NEW c, NEW s, NEW k, NEW j,
           InRecord(h, n, p, early, c, s, k, j)
    PROVE  h[n] \in Records /\ c \in Nat /\ Len(h) \in Nat
<1>1. c \in Nat
  BY DEF InRecord, Ahead
<1>2. QED
  BY <1>1, ElementOfSeq, LenProperties

(* The record's last part is its body.                                     *)
LEMMA BodyAhead ==
    ASSUME NEW h \in Seq(Records), NEW n \in 1 .. Len(h), NEW p \in Pending,
           NEW early \in BOOLEAN, NEW c, NEW s, NEW k, NEW j,
           InRecord(h, n, p, early, c, s, k, j),
           NonePending(p), Left(h[n], p, early) = Body(h[n])
    PROVE  /\ h[n].kind \in {"touch", "key", "anti", "change"}
           /\ k = IF h[n].kind = "touch" THEN "none" ELSE h[n].kind
           /\ Ahead(Dump(h, early), c, Body(h[n]))
           /\ c + Len(Body(h[n])) = Len(Memory(h, early)[n])
           /\ Agrees(s, h[n].at, Done)
           /\ TellsAll(j, Reports(h)[n - 1])
           /\ NoSensor(h, n)
<1>1. h[n].kind \in Kinds
  BY InRecordTyped, RecordTyped
<1>2. ~p.kind /\ ~p.month /\ ~p.day /\ ~p.hour
  BY DEF NonePending
<1>3. h[n].kind # "sensor" /\ h[n].kind # "reserved"
  BY <1>2 DEF InRecord
<1>4. h[n].kind \in {"touch", "key", "anti", "change"}
  BY <1>1, <1>3 DEF Kinds
<1>5. k = IF h[n].kind = "touch" THEN "none" ELSE h[n].kind
  <2>1. k = Announced(h[n], p)
    BY DEF InRecord
  <2>2. QED
    BY <1>2, <1>4, <2>1 DEF Announced
<1>6. Agrees(s, h[n].at, Done)
  BY <1>2 DEF InRecord, Agrees, Done
<1>7. NoSensor(h, n)
  <2>1. \A i \in 1 .. n : i \in 1 .. n - 1 \/ i = n
    BY LenProperties
  <2>2. NoSensor(h, n - 1)
    BY DEF InRecord
  <2>3. QED
    BY <1>3, <2>1, <2>2 DEF NoSensor
<1>8. QED
  BY <1>4, <1>5, <1>6, <1>7 DEF InRecord

(* One event more, for one report more.                                    *)
LEMMA TellsMore ==
    ASSUME NEW h \in Seq(Records), NEW n \in 1 .. Len(h), NEW V, NEW j \in Seq(V),
           NEW e \in V, TellsAll(j, Reports(h)[n - 1]), Tell(h, n), Tells(e, h[n])
    PROVE  TellsAll(Append(j, e), Reports(h)[n])
<1> DEFINE r == Reports(h)[n - 1]
<1>1. n - 1 \in 0 .. Len(h) /\ h[n] \in Records
  BY ElementOfSeq, LenProperties
<1>2. r \in Seq(Records) /\ Reports(h)[n] = Append(r, h[n])
  BY <1>1, ReportsAre
<1> HIDE DEF r
<1>3. Len(j) \in Nat /\ Len(r) = Len(j) /\ \A i \in 1 .. Len(j) : Tells(j[i], r[i])
  BY LenProperties DEF TellsAll, r
<1> DEFINE j2 == Append(j, e)
           r2 == Append(r, h[n])
<1>4. Len(j2) = Len(j) + 1 /\ j2[Len(j) + 1] = e /\ \A i \in 1 .. Len(j) : j2[i] = j[i]
  BY AppendProperties
<1>5. Len(r2) = Len(j) + 1 /\ r2[Len(j) + 1] = h[n] /\ \A i \in 1 .. Len(j) : r2[i] = r[i]
  <2>1. Len(r2) = Len(r) + 1 /\ r2[Len(r) + 1] = h[n] /\ \A i \in 1 .. Len(r) : r2[i] = r[i]
    BY <1>1, <1>2, AppendProperties
  <2>2. QED
    BY <1>3, <2>1
<1> HIDE DEF j2, r2
<1>6. ASSUME NEW i \in 1 .. Len(j2) PROVE Tells(j2[i], r2[i])
  <2>1. i \in 1 .. Len(j) \/ i = Len(j) + 1
    BY <1>3, <1>4
  <2>2. CASE i \in 1 .. Len(j)
    BY <1>3, <1>4, <1>5, <2>2
  <2>3. CASE i = Len(j) + 1
    BY <1>4, <1>5, <2>3
  <2>4. QED
    BY <2>1, <2>2, <2>3
<1>7. TellsAll(j2, r2)
  BY <1>4, <1>5, <1>6 DEF TellsAll
<1>8. QED
  BY <1>2, <1>7 DEF j2, r2

LEMMA TellsSame ==
    ASSUME NEW h \in Seq(Records), NEW n \in 1 .. Len(h), NEW j,
           TellsAll(j, Reports(h)[n - 1]), ~Tell(h, n)
    PROVE  TellsAll(j, Reports(h)[n])
BY ReportsAre

(* The two bytes of a record's time complete the stamp.                    *)
LEMMA StampComplete ==
    ASSUME NEW s \in Stamps, NEW r \in Records, Agrees(s, r.at, Done)
    PROVE  /\ WithTime(s, TimeByte(r.at), SecondByte(r)) = r.at
           /\ TimeByte(r.at) # 239 =>
                 WithTimeBelowEF(s, TimeByte(r.at), SecondByte(r)) = r.at
           /\ Agrees(WithTimeBelowEF(s, TimeByte(r.at), SecondByte(r)), r.at, Done)
           /\ Agrees(r.at, r.at, Done)
<1> DEFINE t == r.at
           b1 == TimeByte(t)
           b2 == SecondByte(r)
<1>1. t \in Clock
  BY RecordTyped
<1>2. /\ s.year = t.year /\ s.month = t.month /\ s.day = t.day
      /\ s.hour \div 4 = t.hour \div 4
  BY DEF Agrees, Done
<1>3. b1 \in 0 .. 239 /\ b1 \div 4 = t.minute /\ b1 % 4 = t.hour % 4 /\ Bcd(b2 % 128) = t.second
  BY TimeBytes
<1>4. (s.hour \div 4) * 4 + (b1 % 4) = t.hour
  <2>1. (s.hour \div 4) * 4 + (b1 % 4) = (t.hour \div 4) * 4 + (t.hour % 4)
    BY <1>2, <1>3
  <2>2. t.hour \in 0 .. 23
    BY <1>1, ClockTyped
  <2>3. \A x \in 0 .. 23 : (x \div 4) * 4 + (x % 4) = x
    OBVIOUS
  <2>4. QED
    BY <2>1, <2>2, <2>3
<1>5. WithTime(s, b1, b2) =
        [s EXCEPT !.minute = t.minute, !.hour = t.hour, !.second = t.second]
  BY <1>3, <1>4 DEF WithTime
<1>6. [s EXCEPT !.minute = t.minute, !.hour = t.hour, !.second = t.second] = t
  <2> HIDE DEF t
  <2>1. t = [year |-> t.year, month |-> t.month, day |-> t.day,
             hour |-> t.hour, minute |-> t.minute, second |-> t.second]
    BY <1>1 DEF Clock
  <2>2. [s EXCEPT !.minute = t.minute, !.hour = t.hour, !.second = t.second]
            = [year |-> s.year, month |-> s.month, day |-> s.day,
               hour |-> t.hour, minute |-> t.minute, second |-> t.second]
    <3> DEFINE a == 0 .. 2165
               b == 0 .. 25
               c == 0 .. 63
               d == 0 .. 23
               e == 0 .. 59
               f == 0 .. 85
               g == [s EXCEPT !.minute = t.minute, !.hour = t.hour, !.second = t.second]
    <3>1. s \in [year : a, month : b, day : c, hour : d, minute : e, second : f]
      BY DEF Stamps
    <3> HIDE DEF a, b, c, d, e, f
    <3>2. g \in [year : a, month : b, day : c,
                 hour : {t.hour}, minute : {t.minute}, second : {t.second}]
      BY <3>1
    <3>3. /\ g.year = s.year /\ g.month = s.month /\ g.day = s.day
          /\ g.hour = t.hour /\ g.minute = t.minute /\ g.second = t.second
      BY <3>1
    <3> HIDE DEF g
    <3>4. g = [year |-> g.year, month |-> g.month, day |-> g.day,
               hour |-> g.hour, minute |-> g.minute, second |-> g.second]
      BY <3>2
    <3>5. QED
      BY <3>3, <3>4, Zenon DEF g
  <2>3. QED
    BY <1>2, <2>1, <2>2, Zenon
<1>7. WithTime(s, b1, b2) = t
  BY <1>5, <1>6
<1> HIDE DEF t, b1, b2
<1>8. b1 # 239 => WithTimeBelowEF(s, b1, b2) = t
  <2>1. b1 # 239 => b1 < 239
    BY <1>3
  <2>2. QED
    BY <1>7, <2>1 DEF WithTimeBelowEF
<1>9. Agrees(t, t, Done)
  BY DEF Agrees
<1>10. Agrees(WithTimeBelowEF(s, b1, b2), t, Done)
  <2>1. WithTimeBelowEF(s, b1, b2) = t \/ WithTimeBelowEF(s, b1, b2) = s
    BY <1>7 DEF WithTimeBelowEF
  <2>2. Agrees(s, t, Done)
    BY DEF t
  <2>3. QED
    BY <1>9, <2>1, <2>2
<1>11. QED
  BY <1>7, <1>8, <1>9, <1>10 DEF t, b1, b2

(* The data of a key and of an antivandal record, as the walk takes them.  *)
LEMMA KeyData ==
    ASSUME NEW r \in Records, r.kind = "key"
    PROVE  <<r.data[1] % 16>> = r.data
<1>1. r.data \in [1 .. 1 -> 0 .. 15]
  BY DataTyped
<1> DEFINE d == r.data
<1> HIDE DEF d
<1>2. d \in [1 .. 1 -> 0 .. 15]
  BY <1>1 DEF d
<1>3. d[1] \in 0 .. 15 /\ d = <<d[1]>>
  BY <1>2
<1>4. d[1] % 16 = d[1]
  BY <1>3
<1>5. QED
  BY <1>3, <1>4 DEF d

LEMMA ChipData ==
    ASSUME NEW r \in Records, r.kind = "touch"
    PROVE  <<r.data[1], r.data[2], r.data[3]>> = r.data
<1>1. r.data \in [1 .. 3 -> 0 .. 255]
  BY DataTyped
<1>2. QED
  BY <1>1

LEMMA AntiData ==
    ASSUME NEW r \in Records, r.kind = "anti"
    PROVE  LET x == (r.data[2] \div 256) * 16 + r.data[1]
               y == r.data[2] % 256
           IN  <<x % 8, (x \div 16) * 256 + y>> = r.data
<1> DEFINE d == r.data
           u == d[1]
           v == d[2]
           x == (v \div 256) * 16 + u
           y == v % 256
<1>1. d \in (0 .. 7) \X (0 .. 4095)
  BY DataTyped
<1>2. u \in 0 .. 7 /\ v \in 0 .. 4095 /\ d = <<u, v>>
  <2> HIDE DEF d
  <2>1. QED
    BY <1>1
<1> HIDE DEF d, u, v
<1>3. x % 8 = u /\ (x \div 16) * 256 + y = v
  <2>a. PICK q \in 0 .. 15 : q = v \div 256
    BY <1>2
  <2>b. PICK w \in 0 .. 255 : w = v % 256
    BY <1>2
  <2>1. v = q * 256 + w
    <3>1. w = v - 256 * q
      BY <1>2, <2>a, <2>b
    <3>2. QED
      BY <1>2, <3>1
  <2>2. x = q * 16 + u /\ y = w
    BY <2>a, <2>b
  <2>3. (q * 16 + u) % 8 = u /\ (q * 16 + u) \div 16 = q
    BY <1>2
  <2> HIDE DEF x, y
  <2>4. x % 8 = u /\ x \div 16 = q
    BY <2>2, <2>3
  <2>5. QED
    BY <2>1, <2>2, <2>4, Zenon
<1>4. <<x % 8, (x \div 16) * 256 + y>> = d
  BY <1>2, <1>3
<1>5. QED
  BY <1>4 DEF d, u, v
=============================================================================
