----------------------------- MODULE MCPyGuard -----------------------------
(***************************************************************************)
(* Instances of PyGuard for TLC.  With LINES = 3 a document has a first    *)
(* line, one between and a last one.                                       *)
(***************************************************************************)
EXTENDS PyGuard

\* Both processes have been started and nothing is under way.
Settled ==
    /\ mq = <<>> /\ mw = <<>>
    /\ sm = "idle" /\ sdoc = NoDoc /\ sline = 0
    /\ pc = "loop" /\ hand = NoRequest /\ text = <<>>
    /\ adapterOK = TRUE /\ sokOld = FALSE /\ booting = FALSE
    /\ stops = 0
    /\ abandoned = 0 /\ mispaired = FALSE /\ parsed = {} /\ acked = {}

SettledSpec == Settled /\ [][Next]_vars
=============================================================================
