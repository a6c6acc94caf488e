----------------------------- MODULE MCWatchdog -----------------------------
(* The kinds of faults for TLC.                                  *)
EXTENDS Watchdog

AnyFault == FaultKinds
(* Without what ends the watch for ever.                                    *)
WatchGoesOn == {"link", "slow", "reset", "stuck", "adapter"}
OnlySilent == {"silent"}
None == {}
=============================================================================
