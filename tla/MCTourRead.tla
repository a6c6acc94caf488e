----------------------------- MODULE MCTourRead -----------------------------
(* Instances of TourRead for TLC.                                          *)
EXTENDS TourRead

(* Images of 1 to 3 pages and the empty plan of firstfree = 1.             *)
SmallImages == {1, 40, 100, 130}

(* Countable images whose last byte is not alone on its page.              *)
PlainImages == {40, 100, 180}

(* The sensor's last used byte opens a new page.                           *)
BoundaryImage == {129}
=============================================================================
