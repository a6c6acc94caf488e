-------------------------------- MODULE Ledger --------------------------------
(***************************************************************************)
(* What the local database promises the rest of simple: numbers are given  *)
(* out once and in order, a row is added under the number given out last,  *)
(* filled once and marked once, nothing is ever taken back, and the lines  *)
(* of a download follow its mark.  Stopping and starting simple changes    *)
(* nothing.                                                                *)
(***************************************************************************)
EXTENDS Integers, Sequences

CONSTANTS
    Images,   \* images of sensors
    ZEROS     \* the blob before it is written

VARIABLES
    last,   \* the number given out last
    rows,   \* rows: number, blob, mark
    lines   \* numbers whose lines are entered, in order

vars == <<last, rows, lines>>

Row(n, b, t) == [syn |-> n, blob |-> b, tok |-> t]

Init == last = 0 /\ rows = <<>> /\ lines = <<>>

Number ==
    /\ last' = last + 1
    /\ UNCHANGED <<rows, lines>>

(* Never two rows of one number.                                           *)
AddRow ==
    /\ last > 0
    /\ \A i \in DOMAIN rows : rows[i].syn < last
    /\ rows' = Append(rows, Row(last, ZEROS, FALSE))
    /\ UNCHANGED <<last, lines>>

Fill ==
    /\ \E i \in DOMAIN rows, b \in Images :
          /\ i = Len(rows) /\ rows[i].blob = ZEROS
          /\ rows' = [rows EXCEPT ![i].blob = b]
    /\ UNCHANGED <<last, lines>>

Mark ==
    /\ \E i \in DOMAIN rows : rows' = [rows EXCEPT ![i].tok = TRUE]
    /\ UNCHANGED <<last, lines>>

Marked(n) == \E i \in DOMAIN rows : rows[i].syn = n /\ rows[i].tok
AddLine ==
    /\ \E n \in 1 .. last : Marked(n) /\ lines' = Append(lines, n)
    /\ UNCHANGED <<last, rows>>

Next == Number \/ AddRow \/ Fill \/ Mark \/ AddLine

Spec == Init /\ [][Next]_vars
=============================================================================
