---------------------------- MODULE MCWordEngine ----------------------------
(***************************************************************************)
(* Instances of WordEngine for TLC.  Typing, corrections, delays and       *)
(* timers are unlimited; what disturbs them (a key that is not followed, a *)
(* click, a shortcut, focus moving, another program's keys, an event in    *)
(* the middle of an operation) happens at most MaxDisturbances times in a  *)
(* behaviour, in every place and order.                                    *)
(***************************************************************************)
EXTENDS WordEngine

CONSTANT MaxDisturbances
VARIABLE disturbances

MCInit == Init /\ disturbances = 0
MCNext == \/ Engine /\ UNCHANGED disturbances
          \/ /\ disturbances < MaxDisturbances /\ disturbances' = disturbances + 1
             /\ Disturbance
MCSpec == MCInit /\ [][MCNext]_<<vars, disturbances>>
=============================================================================
