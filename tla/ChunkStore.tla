----------------------------- MODULE ChunkStore -----------------------------
(***************************************************************************)
(* What the chunk store promises the indexes that refer to it: an index is  *)
(* added only when its chunks are there, and collecting garbage takes       *)
(* nothing an index refers to.                                              *)
(***************************************************************************)
CONSTANTS Versions, Released

VARIABLES chunks, referenced

Init == chunks = Released /\ referenced = Released

\* Chunks may be added ahead of any index.
Add(v) == chunks' = chunks \cup {v} /\ UNCHANGED referenced

Reference(v) ==
    /\ v \in chunks
    /\ referenced' = referenced \cup {v}
    /\ UNCHANGED chunks

Unreference == referenced' \subseteq referenced /\ UNCHANGED chunks

Collect ==
    /\ chunks' \subseteq chunks
    /\ referenced \subseteq chunks'
    /\ UNCHANGED referenced

Next == (\E v \in Versions : Add(v) \/ Reference(v)) \/ Unreference \/ Collect

Spec == Init /\ [][Next]_<<chunks, referenced>>
=============================================================================
