---------------------------- MODULE LifecycleEnds ----------------------------
(***************************************************************************)
(* AdditionOfRider with a history variable: the riders whose life ended    *)
(* (Terminated or Cancelled) before this journey.                          *)
(***************************************************************************)
EXTENDS MCAdditionOfRider

VARIABLE ended

InitEnds ==
  /\ Init
  /\ ended = {r \in Riders : status[r] \in {"Terminated", "Cancelled"}}

NextEnds == Next /\ UNCHANGED ended

SpecEnds == InitEnds /\ [][NextEnds]_<<vars, ended>>

\* ReAddRiderCommand: "Terminated / Cancelled are lifecycle ends that must not
\* be undone via this command".  MarkRiderStatus accepts a rider of any status,
\* so an ended rider marked NTU can be re-added.
EndedRidersStayEnded == \A r \in ended : status[r] # "Active"
=============================================================================
