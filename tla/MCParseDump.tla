----------------------------- MODULE MCParseDump -----------------------------
(* Recordings for TLC: what sensors may have recorded, over a few moments   *)
(* and chips that meet every boundary of the format.                        *)
EXTENDS ParseDump

Moment(m, d, h, min, s) ==
    [year |-> 2024, month |-> m, day |-> d, hour |-> h, minute |-> min, second |-> s]

(* Four moments: TimeByte is 0, 239 and values between; the first differs   *)
(* from the others in month, day and hour, two differ in the time only.     *)
Moments == {Moment(12, 31, 23, 58, 9), Moment(1, 1, 0, 0, 0),
            Moment(1, 1, 3, 59, 59), Moment(1, 1, 4, 0, 30)}

Chip == <<172, 108, 45>>
Odd == <<18, 255, 31>>          \* 1FFF12

Make(kind, t, doubt, data) == [kind |-> kind, at |-> t, doubt |-> doubt, data |-> data]

Known ==
    {Make("touch", t, FALSE, Chip) : t \in Moments}
    \union {Make("key", t, FALSE, <<5>>) : t \in Moments}
    \union {Make("anti", t, FALSE, <<3, 700>>) : t \in Moments}
    \union {Make("change", t, FALSE, <<>>) : t \in Moments}
Strange ==
    {Make("touch", t, FALSE, Odd) : t \in {Moment(1, 1, 0, 0, 0)}}
    \union {Make("reserved", t, FALSE, <<>>) : t \in {Moment(1, 1, 3, 59, 59)}}
    \union {Make("sensor", t, FALSE, <<>>) : t \in {Moment(1, 1, 0, 0, 0)}}
    \union {Make("key", t, TRUE, <<5>>) : t \in {Moment(1, 1, 4, 0, 30)}}

UpTo(n, S) == UNION {[1 .. k -> S] : k \in 1 .. n}

Short == UpTo(2, Known \union Strange)
Triples == {<<>>} \union Short \union [1 .. 3 -> {r \in Known \union Strange :
                                   r.at # Moment(12, 31, 23, 58, 9)}]
Ordinary == UpTo(2, {r \in Known : r.kind # "change"})
Doubtful == UpTo(2, {r \in Known \union Strange : r.kind = "key"})

None == {0}
UpToASeven == 0 .. 7

(* Three records only in complete images: what bytes missing at the end can *)
(* spoil is behind the last but one record.                                 *)
MCInit == Init /\ (Len(recs) > 2 => Complete)
MCSpec ==
    MCInit /\ [][Next]_vars /\ WF_vars(Cases \/ NotImplemented \/ Finalize)
=============================================================================
