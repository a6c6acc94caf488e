---------------------------- MODULE MCMainLoop ----------------------------
(* Instances of MainLoop for TLC.                                          *)
EXTENDS MainLoop, TLC

(* The sensors are interchangeable in every safety property.               *)
SensorSymmetry == Permutations(Sensors)

(* Restarts and late answers, while the user moves a sensor only when it   *)
(* is waited for.                                                          *)
Restarts == {"crash", "stale", "resend", "nothread"}

(* Faults of the adapter and the probe.                                    *)
Probe == {"crash", "stale", "adapterdown", "lostreply", "anytime"}

(* Everything that can keep the loop from getting on.                      *)
Obstacles == {"lift", "lostreply", "shortread", "unconfirmed", "stale",
              "adapterdown", "resend"}

(* One hazard each, for the runs that show what it does.                   *)
NoHazards == {}
AdapterDown == {"adapterdown"}
ServerResends == {"resend"}
=============================================================================
