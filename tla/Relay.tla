-------------------------------- MODULE Relay --------------------------------
(***************************************************************************)
(* What the reader promises the owner of the events: they are handed on    *)
(* from the sensor to the image in memory, from there to one row of the    *)
(* database and from the row to the server, whole.  A sensor is emptied    *)
(* only of what is in hand, nothing is stored twice, a row is never taken  *)
(* back, and what is in hand is lost only when the process is killed.      *)
(***************************************************************************)
EXTENDS Integers, Sequences

CONSTANTS
    Sensors,   \* the sensors
    Events     \* what they may record

VARIABLES
    held,      \* the events in each sensor
    hand,      \* the image that is on its way from a sensor to its row
    stored,    \* the rows, in the order they were written
    received,  \* what the server has, each image with the number of its row
    kills      \* how often the process was killed

vars == <<held, hand, stored, received, kills>>

OnSensors(evs) == \E s \in Sensors : evs \cap held[s] # {}
InRows(evs) == \E i \in DOMAIN stored : evs \cap stored[i] # {}

Init ==
    /\ held = [s \in Sensors |-> {}] /\ hand = {}
    /\ stored = <<>> /\ received = {} /\ kills = 0

(* An event nobody has yet.                                                *)
Record(s) ==
    /\ \E e \in Events :
          /\ held' = [held EXCEPT ![s] = @ \union {e}]
          /\ ~OnSensors({e}) /\ e \notin hand /\ ~InRows({e})
    /\ UNCHANGED <<hand, stored, received, kills>>

(* All a sensor has is taken in hand ...                                   *)
Take(s) ==
    /\ hand = {} /\ held[s] # {}
    /\ hand' = held[s]
    /\ UNCHANGED <<held, stored, received, kills>>

(* ... and given up as long as the sensor has it, ...                      *)
GiveUp(s) ==
    /\ hand # {} /\ hand = held[s]
    /\ hand' = {}
    /\ UNCHANGED <<held, stored, received, kills>>

(* ... or erased there and then stored, once.                              *)
Erase(s) ==
    /\ hand # {} /\ hand = held[s]
    /\ held' = [held EXCEPT ![s] = {}]
    /\ UNCHANGED <<hand, stored, received, kills>>

Store ==
    /\ hand # {} /\ ~OnSensors(hand) /\ ~InRows(hand)
    /\ stored' = Append(stored, hand)
    /\ hand' = {}
    /\ UNCHANGED <<held, received, kills>>

(* A row goes to the server as it is, as often as it is asked for.         *)
Deliver(i) ==
    /\ received' = received \union {<<i, stored[i]>>}
    /\ UNCHANGED <<held, hand, stored, kills>>

Killed ==
    /\ hand' = {}
    /\ kills' = kills + 1
    /\ UNCHANGED <<held, stored, received>>

Next ==
    \/ \E s \in Sensors : Record(s) \/ Take(s) \/ GiveUp(s) \/ Erase(s)
    \/ Store
    \/ \E i \in DOMAIN stored : Deliver(i)
    \/ Killed

Spec == Init /\ [][Next]_vars
=============================================================================
