----------------------------- MODULE DurableHome -----------------------------
(***************************************************************************)
(* What the user of a KDE Linux system may rely on while @system/home is    *)
(* migrated: every session's changes stay, and the layout goes from one     *)
(* subvolume (v2) to per-user subvolumes (v3) once and never back.          *)
(***************************************************************************)
EXTENDS Integers

VARIABLES
    data,    \* how many sessions the stored data carry; below 0: lost
    layout   \* "v2" or "v3"

Init == data = 0 /\ layout = "v2"

Write == data' = data + 1 /\ UNCHANGED layout

Migrate == layout = "v2" /\ layout' = "v3" /\ UNCHANGED data

Next == Write \/ Migrate

Spec == Init /\ [][Next]_<<data, layout>>
=============================================================================
