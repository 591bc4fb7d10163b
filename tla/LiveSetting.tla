----------------------------- MODULE LiveSetting -----------------------------
(***************************************************************************)
(* What a live switch promises its user: there is one setting, on disk,    *)
(* and a reader whose view of it only ever changes to the setting of the   *)
(* moment, and does so whenever the setting stays different from the view. *)
(* While the disk is spoilt there is nothing to learn from it.             *)
(***************************************************************************)
CONSTANT Settings

VARIABLES
  disk, \* the setting, as the set that holds it: empty while it is spoilt
  view  \* what the reader works with

Disks == {{v} : v \in Settings} \union {{}}

TypeOK == disk \in Disks /\ view \in Settings

Init == TypeOK

Write == disk' \in Disks /\ view' = view

Learn == view' \in disk /\ disk' = disk

Next == Learn \/ Write

Spec == Init /\ [][Next]_<<disk, view>>

FairSpec == Spec /\ WF_<<disk, view>>(Learn)

==============================================================================
