---------------------------- MODULE PageTransfer ----------------------------
(***************************************************************************)
(* What a download of a sensor's event memory amounts to, without the      *)
(* serial line: pages are copied to their places in order, a fresh start   *)
(* goes back to page 0, and the transfer reports success with the copy     *)
(* that makes up the planned number and never copies afterwards.           *)
(* p3_readtourwork() of core/engine.c implements it (TourRead.Transfers).  *)
(***************************************************************************)
EXTENDS Naturals

CONSTANTS
    Plans,   \* numbers of pages a transfer may be asked for
    Blank,   \* an image cell nothing was copied to
    Content(_)   \* what page p may come as

VARIABLES
    plan,    \* pages to copy
    image,   \* the cells of the image
    next,    \* the cell the next page goes to
    copies,  \* pages copied since the transfer began
    result   \* "none" while it runs, then "success" or "error"

vars == <<plan, image, next, copies, result>>

Init ==
    /\ plan \in Plans
    /\ 0 .. plan - 1 \subseteq DOMAIN image
    /\ image = [p \in DOMAIN image |-> Blank]
    /\ next = 0
    /\ copies = 0
    /\ result = "none"

(* The next page arrives: it is copied to its own cell and to no other.    *)
CopyPage ==
    /\ result = "none"
    /\ copies < plan
    /\ next \in DOMAIN image
    /\ \E c \in Content(next) : image' = [image EXCEPT ![next] = c]
    /\ next' = next + 1
    /\ copies' = copies + 1
    /\ result' = IF copies + 1 = plan THEN "success" ELSE "none"
    /\ UNCHANGED plan

(* The line is set up anew: what was copied stays, what is copied counts.  *)
Rewind ==
    /\ result = "none"
    /\ next' = 0
    /\ UNCHANGED <<plan, image, copies, result>>

Fail ==
    /\ result = "none"
    /\ result' = "error"
    /\ UNCHANGED <<plan, image, next, copies>>

Next == CopyPage \/ Rewind \/ Fail

Spec == Init /\ [][Next]_vars
=============================================================================
