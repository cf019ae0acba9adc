---------------------------- MODULE UploadService ----------------------------
(***************************************************************************)
(* What the uploader promises the pipeline that calls it: each object it is *)
(* asked for is stored once, and success means that all of them are.        *)
(***************************************************************************)
CONSTANT Objects

VARIABLES asked, stored, outcome

Init == asked = {} /\ stored = {} /\ outcome = "running"

Ask(o) ==
    /\ outcome = "running"
    /\ o \notin asked
    /\ asked' = asked \cup {o}
    /\ UNCHANGED <<stored, outcome>>

Store(o) ==
    /\ outcome = "running"
    /\ o \in asked \ stored
    /\ stored' = stored \cup {o}
    /\ UNCHANGED <<asked, outcome>>

Succeed ==
    /\ outcome = "running"
    /\ stored = asked
    /\ outcome' = "ok"
    /\ UNCHANGED <<asked, stored>>

Fail ==
    /\ outcome = "running"
    /\ outcome' = "fatal"
    /\ UNCHANGED <<asked, stored>>

Next == (\E o \in Objects : Ask(o) \/ Store(o)) \/ Succeed \/ Fail

Spec == Init /\ [][Next]_<<asked, stored, outcome>>
=============================================================================
