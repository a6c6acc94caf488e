------------------------------- MODULE MCSqlit -------------------------------
(* The statements that fail in each run.                                    *)
EXTENDS Sqlit

NoFault == {}
AnyFault == FaultKinds
ExecFails == {"exec"}
CommitFails == {"commit"}
=============================================================================
