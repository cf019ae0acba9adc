--------------------------- MODULE FilesVacuumProofs ---------------------------
(***************************************************************************)
(* Proofs about FilesVacuum, for any releases, protected ones, number of    *)
(* releases kept, requests and faults.                                      *)
(***************************************************************************)
EXTENDS FilesVacuum, FiniteSetTheorems, SequenceTheorems, TLAPS

-----------------------------------------------------------------------------
(* The inductive invariant.                                                 *)

\* Every line has a name, so that LinesOf and NamedLines follow.
NamedLine == [sum : {"cut", "whole"}, name : Files]
ListsNamed == sums \in Seq(NamedLine) /\ lines \in Seq(NamedLine)

\* The cache never knows what it is asked for.
NeverHit == \A f \in Files : PathOf(f) \notin DOMAIN known

Sending == pc \in {"send", "sending"}

\* What each phase of a job has left behind.
Phases ==
    /\ job = NoJob <=> pc = "idle"
    /\ pc \in {"idle", "load", "delete"} => lines = <<>>
    /\ pc \in {"idle", "load", "send", "sending"} => toRead = {}
    /\ pc # "delete" => doomed = {}
    /\ pc = "sending" => toSend # <<>>
    /\ ~Sending => toSend = <<>>

\* Only what was cut when the job began, or scanned so, is or looks cut while it reads.
CutIsSuspect ==
    pc \in {"load", "delete", "read", "asked"} =>
      \A f \in Files : "cut" \in {site[f], scanned[f]} => f \in suspect

Stays(f) == site[f] # "absent" /\ <<"delete", f>> \notin doomed
\* What is deleted is outdated; what is read or listed stays, or is about to be uploaded.
Chosen ==
    /\ \A t \in doomed : t[1] = "delete" /\ Outdated(t[2][1])
    /\ \A t \in toRead : Stays(t[2])
    /\ \A i \in DOMAIN lines :
         Stays(lines[i].name) \/ (Sending /\ lines[i].name = <<job, "erofs">>)

\* What is there is outdated, listed, or about to be.
Covered ==
    pc \notin {"idle", "load"} =>
      \A f \in Files : site[f] # "absent" /\ ~Skipped(f) /\ f # <<job, "iso">> =>
        \/ Outdated(f[1])
        \/ \E t \in toRead : t[2] = f
        \/ Named(lines, f) # {}

\* The job sends the artifacts of its own release, and has listed it.
Sent ==
    /\ \A i \in DOMAIN toSend : toSend[i] \in {job} \X Kinds
    /\ Sending =>
         /\ Named(lines, <<job, "erofs">>) # {}
         /\ \A k \in Kinds : site[<<job, k>>] # "absent" \/ \E i \in DOMAIN toSend : toSend[i] = <<job, k>>

\* How often a file is on the list, once all tasks are done.
Left(f) == {t \in toRead : t[2] = f}
Times(f) == Cardinality(Named(lines, f)) + Cardinality(Left(f))

Counted ==
    \A f \in Files :
      /\ f[1] \notin {job} \cup (Protected \cap Newest(Found \ {job})) => Times(f) <= 1
      /\ f[1] # job => Times(f) <= 2
      /\ f[1] = job => Times(f) <= (IF job \in Protected THEN 2 ELSE 1) + (IF Sending THEN 1 ELSE 0)

FilesInv ==
    /\ TypeOK /\ ListsNamed /\ NeverHit /\ Phases
    /\ CutIsSuspect /\ WrongSumsHeal
    /\ Chosen /\ Covered /\ Sent /\ Counted

-----------------------------------------------------------------------------
(* Releases, lines and tasks.                                               *)

LEMMA VersionsFinite ==
    ASSUME NEW S \in SUBSET Versions
    PROVE  IsFiniteSet(S) /\ Cardinality(S) \in Nat
BY VacuumAssumption, FS_Subset, FS_CardinalityType DEF Versions

LEMMA VersionsAre ==
    /\ Versions \subseteq Nat \ {0} /\ NoJob \notin Versions
    /\ Pipelines \subseteq Versions /\ Released \subseteq Versions /\ Protected \subseteq Versions
BY VacuumAssumption DEF Versions, NoJob

LEMMA FoundType == Found \in SUBSET Versions
BY DEF Found

\* The bounds of the counters are numbers.
LEMMA BoundsAre == MaxTries \in Nat /\ MaxFaults \in Nat /\ Keep \in Nat /\ 0 \in 0 .. MaxTries - 1
                   /\ 0 \in 0 .. MaxFaults
BY VacuumAssumption

LEMMA NoNameIsNoFile == NoName \notin Files
BY VersionsAre DEF NoName, Files

\* The lines of one file in a list that has grown by a line.
LEMMA NamedAppend ==
    ASSUME NEW L \in Seq(NamedLine), NEW l \in NamedLine, NEW f
    PROVE  /\ Append(L, l) \in Seq(NamedLine)
           /\ Named(Append(L, l), f) = Named(L, f) \cup (IF l.name = f THEN {Len(L) + 1} ELSE {})
           /\ Len(L) + 1 \notin Named(L, f)
<1>1. /\ Append(L, l) \in Seq(NamedLine) /\ Len(Append(L, l)) = Len(L) + 1 /\ Len(L) \in Nat
      /\ \A i \in 1 .. Len(L) : Append(L, l)[i] = L[i]
      /\ Append(L, l)[Len(L) + 1] = l
  BY AppendProperties
<1>2. DOMAIN L = 1 .. Len(L) /\ DOMAIN Append(L, l) = 1 .. Len(L) + 1
  BY <1>1
<1>3. Len(L) + 1 \notin DOMAIN L /\ DOMAIN Append(L, l) = DOMAIN L \cup {Len(L) + 1}
  BY <1>1, <1>2
<1>4. QED  BY <1>1, <1>2, <1>3 DEF Named

LEMMA NamedFinite ==
    ASSUME NEW L \in Seq(NamedLine), NEW f
    PROVE  IsFiniteSet(Named(L, f)) /\ Cardinality(Named(L, f)) \in Nat
<1>1. Len(L) \in Nat /\ DOMAIN L = 1 .. Len(L)
  OBVIOUS
<1>2. IsFiniteSet(1 .. Len(L)) /\ Named(L, f) \in SUBSET (1 .. Len(L))
  BY <1>1, FS_Interval DEF Named
<1>3. QED  BY <1>2, FS_Subset, FS_CardinalityType

LEMMA NamedCount ==
    ASSUME NEW L \in Seq(NamedLine), NEW l \in NamedLine, NEW f
    PROVE  Cardinality(Named(Append(L, l), f)) = Cardinality(Named(L, f)) + (IF l.name = f THEN 1 ELSE 0)
<1>1. /\ Named(Append(L, l), f) = Named(L, f) \cup (IF l.name = f THEN {Len(L) + 1} ELSE {})
      /\ Len(L) + 1 \notin Named(L, f)
  BY NamedAppend
<1>2. IsFiniteSet(Named(L, f)) /\ Cardinality(Named(L, f)) \in Nat
  BY NamedFinite
<1>3. CASE l.name = f
  <2>1. Cardinality(Named(L, f) \cup {Len(L) + 1}) = Cardinality(Named(L, f)) + 1
    BY <1>1, <1>2, FS_AddElement
  <2>2. QED  BY <1>1, <1>3, <2>1
<1>4. CASE l.name # f
  BY <1>1, <1>2, <1>4
<1>5. QED  BY <1>3, <1>4

\* A list without lines names no file.
LEMMA NamedNone == \A f : Named(<<>>, f) = {}
BY DEF Named

\* The tasks of a pass over releases.
LEMMA ArtifactsAre ==
    ASSUME NEW R, NEW t \in Artifacts(R)
    PROVE  t \in Tasks /\ t[2] \in Files /\ t = <<t[1], t[2]>> /\ <<t[1], t[2][1]>> \in R /\ site[t[2]] # "absent"
BY DEF Artifacts, Tasks

LEMMA NamedLinesOf ==
    ASSUME NEW L \in Seq(NamedLine)
    PROVE  LinesOf(L)
<1>1. \A i \in DOMAIN L : L[i] \in NamedLine
  OBVIOUS
<1>2. QED  BY <1>1 DEF LinesOf, NamedLine, Names

LEMMA NamedNeverEmpty ==
    ASSUME NEW L \in Seq(NamedLine)
    PROVE  Named(L, NoName) = {}
<1>1. \A i \in DOMAIN L : L[i] \in NamedLine
  OBVIOUS
<1>2. QED  BY <1>1, NoNameIsNoFile DEF Named, NamedLine

\* No file is on an empty list, or about to be read by it.
LEMMA NothingTwice ==
    ASSUME lines' = <<>>, toRead' = {}, NEW f \in Files
    PROVE  Times(f)' = 0
<1>1. Named(lines', f) = {} /\ {t \in toRead' : t[2] = f} = {}
  BY NamedNone
<1>2. Cardinality(Named(lines', f)) = 0 /\ Cardinality({t \in toRead' : t[2] = f}) = 0
  BY <1>1, FS_EmptySet
<1>3. QED  BY <1>2 DEF Times, Left

\* The old list's keys are not paths.
LEMMA KeysAreNoPaths ==
    ASSUME NEW L, NEW f
    PROVE  PathOf(f) \notin DOMAIN KeysOf(L) /\ PathOf(f) \notin DOMAIN NoKeys
<1>1. \A l : KeyOf(l) # PathOf(f)
  BY DEF KeyOf, PathOf
<1>2. QED  BY <1>1 DEF KeysOf, NoKeys

-----------------------------------------------------------------------------
(* The invariant at the start.                                              *)

LEMMA SeqOfSet ==
    ASSUME NEW S, IsFiniteSet(S)
    PROVE  SetToSeq(S) \in Seq(S)
<1>1. Cardinality(S) \in Nat /\ \E f \in [1 .. Cardinality(S) -> S] : IsInjective(f)
  BY FS_CardinalityType DEF ExistsBijection, Bijection, Injection
<1>2. SetToSeq(S) \in [1 .. Cardinality(S) -> S]
  BY <1>1 DEF SetToSeq
<1>3. QED  BY <1>1, <1>2, IsASeq

LEMMA FilesFinite == IsFiniteSet(Files) /\ IsFiniteSet(Tasks)
<1>1. IsFiniteSet(Kinds) /\ IsFiniteSet(Passes)
  <2>1. IsFiniteSet({"iso"} \cup {"erofs"}) /\ IsFiniteSet({"delete"} \cup {"newest"})
    BY FS_Singleton, FS_Union
  <2>2. IsFiniteSet(({"iso"} \cup {"erofs"}) \cup {"index"})
        /\ IsFiniteSet(({"delete"} \cup {"newest"}) \cup {"protected"})
    BY <2>1, FS_Singleton, FS_Union
  <2>3. Kinds = ({"iso"} \cup {"erofs"}) \cup {"index"}
        /\ Passes = ({"delete"} \cup {"newest"}) \cup {"protected"}
    BY DEF Kinds, Passes
  <2>4. QED  BY <2>2, <2>3
<1>2. IsFiniteSet(Versions)
  BY VersionsFinite
<1>3. IsFiniteSet(Files)
  BY <1>1, <1>2, FS_Product DEF Files
<1>4. QED  BY <1>1, <1>3, FS_Product DEF Tasks

LEMMA StartsNamed == Init => sums \in Seq(NamedLine)
<1> SUFFICES ASSUME Init
             PROVE  sums \in Seq(NamedLine)
  OBVIOUS
<1> DEFINE S == {f \in Released \X Kinds : ~Skipped(f)}
           listed == SetToSeq(S)
<1>1. S \in SUBSET Files
  BY VersionsAre DEF Files
<1>2. listed \in Seq(S)
  BY <1>1, FilesFinite, FS_Subset, SeqOfSet
<1>3. listed \in Seq(Files)
  BY <1>1, <1>2, SeqMonotonic
<1>4. sums = [i \in DOMAIN listed |-> Line("whole", listed[i])]
  BY DEF Init
<1> HIDE DEF listed
<1>5. Len(listed) \in Nat /\ DOMAIN listed = 1 .. Len(listed)
      /\ \A i \in 1 .. Len(listed) : Line("whole", listed[i]) \in NamedLine
  BY <1>3 DEF Line, NamedLine
<1>6. sums \in [1 .. Len(listed) -> NamedLine]
  BY <1>4, <1>5
<1>7. QED  BY <1>5, <1>6, IsASeq

LEMMA FilesInit == Init => FilesInv
<1> SUFFICES ASSUME Init
             PROVE  FilesInv
  OBVIOUS
<1> USE DEF Init
<1>1. ListsNamed
  <2>1. <<>> \in Seq(NamedLine)
    BY EmptySeq
  <2>2. QED  BY <2>1, StartsNamed DEF ListsNamed
<1>2. TypeOK
  <2>1. LinesOf(sums) /\ LinesOf(lines)
    BY <1>1, NamedLinesOf DEF ListsNamed
  <2>2. <<>> \in Seq(Files)
    BY EmptySeq
  <2>3. QED  BY <2>1, <2>2, BoundsAre DEF TypeOK, Contents
<1>3. NeverHit
  BY KeysAreNoPaths DEF NeverHit
<1>4. Phases
  BY DEF Phases, Sending
<1>5. CutIsSuspect /\ WrongSumsHeal
  BY DEF CutIsSuspect, WrongSumsHeal
<1>6. Chosen /\ Covered /\ Sent
  BY DEF Chosen, Covered, Sent, Sending
<1>7. Counted
  <2>1. \A f \in Files : Named(lines, f) = {} /\ Left(f) = {}
    BY NamedNone DEF Left
  <2>2. \A f \in Files : Times(f) = 0 + 0
    BY <2>1, FS_EmptySet, Zenon DEF Times
  <2>3. QED  BY <2>2 DEF Counted, Sending
<1>8. QED  BY <1>1, <1>2, <1>3, <1>4, <1>5, <1>6, <1>7 DEF FilesInv

-----------------------------------------------------------------------------
(* The steps that begin or end a job.                                       *)

LEMMA EndKeeps ==
    ASSUME FilesInv, End, UNCHANGED <<site, scanned>>,
           sums' \in Seq(NamedLine), faults' \in 0 .. MaxFaults
    PROVE  FilesInv'
<1> USE DEF End
<1>1. ListsNamed'
  <2>1. <<>> \in Seq(NamedLine)
    BY EmptySeq
  <2>2. QED  BY <2>1 DEF ListsNamed
<1>2. TypeOK'
  <2>1. LinesOf(sums') /\ LinesOf(lines')
    BY <1>1, NamedLinesOf DEF ListsNamed
  <2>2. <<>> \in Seq(Files)
    BY EmptySeq
  <2>3. QED  BY <2>1, <2>2, BoundsAre DEF TypeOK, FilesInv
<1>3. NeverHit'
  BY KeysAreNoPaths DEF NeverHit
<1>4. Phases'
  BY DEF Phases, Sending
<1>5. CutIsSuspect' /\ WrongSumsHeal'
  BY DEF CutIsSuspect, WrongSumsHeal
<1>6. Chosen' /\ Covered' /\ Sent'
  BY DEF Chosen, Covered, Sent, Sending
<1>7. Counted'
  <2>1. \A f \in Files : Times(f)' = 0
    BY NothingTwice
  <2>2. QED  BY <2>1 DEF Counted, Sending
<1>8. QED  BY <1>1, <1>2, <1>3, <1>4, <1>5, <1>6, <1>7 DEF FilesInv

LEMMA DieStep ==
    ASSUME FilesInv, Die
    PROVE  FilesInv'
<1>1. End /\ UNCHANGED <<site, scanned>> /\ sums' = sums /\ faults' = faults + 1 /\ faults < MaxFaults
  BY DEF Die, server
<1>2. sums' \in Seq(NamedLine) /\ faults' \in 0 .. MaxFaults
  BY <1>1, BoundsAre DEF FilesInv, TypeOK, ListsNamed
<1>3. QED  BY <1>1, <1>2, EndKeeps

LEMMA UploadStep ==
    ASSUME FilesInv, UploadSums
    PROVE  FilesInv'
<1>1. End /\ UNCHANGED <<site, scanned, faults>> /\ sums' = lines
  BY DEF UploadSums
<1>2. sums' \in Seq(NamedLine) /\ faults' \in 0 .. MaxFaults
  BY <1>1 DEF FilesInv, TypeOK, ListsNamed
<1>3. QED  BY <1>1, <1>2, EndKeeps

LEMMA StartStep ==
    ASSUME FilesInv, NEW v \in Pipelines, Start(v)
    PROVE  FilesInv'
<1> USE DEF Start, server, work
<1>1. pc = "idle" /\ lines = <<>> /\ toRead = {} /\ doomed = {} /\ v # NoJob /\ toSend = <<>>
  BY VersionsAre DEF FilesInv, Phases, Sending
<1>2. TypeOK' /\ ListsNamed' /\ NeverHit'
  BY DEF FilesInv, TypeOK, ListsNamed, NeverHit
<1>3. Phases'
  BY <1>1 DEF FilesInv, Phases, Sending
<1>4. CutIsSuspect' /\ WrongSumsHeal'
  BY <1>1 DEF CutIsSuspect, WrongSumsHeal
<1>5. Chosen' /\ Covered'
  BY <1>1 DEF Chosen, Covered
<1>6. Sent'
  BY <1>1 DEF FilesInv, Sent, Sending
<1>7. Counted'
  <2>1. \A f \in Files : Times(f)' = 0
    BY <1>1, NothingTwice
  <2>2. QED  BY <2>1 DEF Counted, Sending
<1>8. QED  BY <1>2, <1>3, <1>4, <1>5, <1>6, <1>7 DEF FilesInv

-----------------------------------------------------------------------------
(* What is outdated stays so.                                               *)

LEMMA NewerFinite ==
    ASSUME NEW R \in SUBSET Versions, NEW S \in SUBSET R
    PROVE  Cardinality(S) \in Nat /\ Cardinality(R) \in Nat /\ Cardinality(S) <= Cardinality(R)
BY VersionsFinite, FS_Subset

LEMMA FoundTypeNext == Found' \in SUBSET Versions
BY DEF Found

\* The releases found may grow, or lose one that is outdated itself.
LEMMA OutdatedKept ==
    ASSUME NEW v \in Versions, Outdated(v), NEW w \in Versions,
           Outdated(w) \/ w \in Found', Found \ {w} \subseteq Found'
    PROVE  Outdated(v)'
<1> DEFINE newer(R, u) == {x \in R : x > u}
<1>1. newer(Found', v) \in SUBSET Versions /\ newer(Found, v) \in SUBSET Versions /\ newer(Found, w) \in SUBSET Versions
  BY FoundType, FoundTypeNext
<1>2. Versions \subseteq Nat /\ Keep \in Nat
  BY VersionsAre, BoundsAre
<1>3. v \notin Protected /\ Keep <= Cardinality(newer(Found, v))
  BY DEF Outdated
<1>4. CASE newer(Found, v) \subseteq newer(Found', v)
  <2>1. Cardinality(newer(Found, v)) <= Cardinality(newer(Found', v))
        /\ Cardinality(newer(Found, v)) \in Nat /\ Cardinality(newer(Found', v)) \in Nat
    BY <1>1, <1>4, NewerFinite
  <2> HIDE DEF newer
  <2>2. Keep <= Cardinality(newer(Found', v))
    BY <1>2, <1>3, <2>1
  <2>3. QED  BY <1>3, <2>2 DEF Outdated, newer
<1>5. CASE ~(newer(Found, v) \subseteq newer(Found', v))
  <2>1. w > v /\ Outdated(w)
    BY <1>5
  <2>2. newer(Found, w) \subseteq newer(Found', v)
    <3>1. \A x \in newer(Found, w) : x \in Found /\ x \in Nat /\ x > w
      BY <1>2, FoundType
    <3>2. v \in Nat /\ w \in Nat
      BY <1>2
    <3>3. \A x \in newer(Found, w) : x # w /\ x > v
      BY <2>1, <3>1, <3>2
    <3>4. QED  BY <3>1, <3>3
  <2>3. Cardinality(newer(Found, w)) <= Cardinality(newer(Found', v))
        /\ Cardinality(newer(Found, w)) \in Nat /\ Cardinality(newer(Found', v)) \in Nat
    BY <1>1, <2>2, NewerFinite
  <2>4. Keep <= Cardinality(newer(Found, w))
    BY <2>1 DEF Outdated
  <2> HIDE DEF newer
  <2>5. Keep <= Cardinality(newer(Found', v))
    BY <1>2, <2>3, <2>4
  <2>6. QED  BY <1>3, <2>5 DEF Outdated, newer
<1>6. QED  BY <1>4, <1>5

LEMMA OutdatedGrows ==
    ASSUME NEW v \in Versions, Outdated(v), Found \subseteq Found'
    PROVE  Outdated(v)'
<1>1. Found \ {v} \subseteq Found'
  OBVIOUS
<1>2. QED  BY <1>1, OutdatedKept

\* A release that is among the newest of some is among the newest of fewer.
LEMMA NewestOfFewer ==
    ASSUME NEW R \in SUBSET Versions, NEW S \in SUBSET R
    PROVE  Newest(R) \cap S \subseteq Newest(S)
<1> SUFFICES ASSUME NEW v \in Newest(R) \cap S
             PROVE  v \in Newest(S)
  OBVIOUS
<1> DEFINE newer(T) == {w \in T : w > v}
<1>1. newer(S) \subseteq newer(R) /\ newer(R) \in SUBSET Versions
  OBVIOUS
<1>2. Cardinality(newer(S)) <= Cardinality(newer(R)) /\ Cardinality(newer(R)) \in Nat /\ Cardinality(newer(S)) \in Nat
  BY <1>1, NewerFinite
<1>3. Cardinality(newer(R)) < Keep
  BY DEF Newest
<1> HIDE DEF newer
<1>4. Cardinality(newer(S)) < Keep
  BY <1>2, <1>3, BoundsAre
<1>5. QED  BY <1>4 DEF Newest, newer

\* What is found, and neither outdated nor protected, is among the newest.
LEMMA NewestOrOutdated ==
    ASSUME NEW v \in Found
    PROVE  /\ v \in Newest(Found) \/ v \in Protected \/ Outdated(v)
           /\ v \notin Newest(Found) \cup Protected => Outdated(v)
<1> DEFINE newer == {w \in Found : w > v}
<1>1. Cardinality(newer) \in Nat /\ Keep \in Nat
  BY FoundType, NewerFinite, BoundsAre
<1> HIDE DEF newer
<1>2. Cardinality(newer) < Keep \/ Keep <= Cardinality(newer)
  BY <1>1
<1>3. QED  BY <1>2 DEF Newest, Outdated, newer

LEMMA FoundFile ==
    ASSUME NEW f \in Files, site[f] # "absent"
    PROVE  f[1] \in Found /\ f[1] \in Versions /\ f = <<f[1], f[2]>> /\ f[2] \in Kinds
BY DEF Found, Files

LEMMA TimesAre ==
    ASSUME NEW L \in Seq(NamedLine), NEW R \in SUBSET Tasks, NEW f
    PROVE  /\ Cardinality(Named(L, f)) \in Nat
           /\ IsFiniteSet({t \in R : t[2] = f}) /\ Cardinality({t \in R : t[2] = f}) \in Nat
<1>1. {t \in R : t[2] = f} \in SUBSET Tasks
  OBVIOUS
<1>2. QED  BY <1>1, NamedFinite, FilesFinite, FS_Subset, FS_CardinalityType

\* Steps that touch neither the lists nor the tasks count the same.
LEMMA CountedKept ==
    ASSUME FilesInv, UNCHANGED <<lines, toRead, job>>, Sending => Sending',
           \A f \in Files : f[1] \in Protected /\ f[1] \in Newest(Found \ {job}) => f[1] \in Newest(Found' \ {job})
    PROVE  Counted'
<1>1. \A f \in Files : Times(f)' = Times(f) /\ Times(f) \in Nat
  <2> SUFFICES ASSUME NEW f \in Files
               PROVE  Times(f)' = Times(f) /\ Times(f) \in Nat
    OBVIOUS
  <2>1. lines \in Seq(NamedLine) /\ toRead \in SUBSET Tasks
    BY DEF FilesInv, ListsNamed, TypeOK
  <2>2. Cardinality(Named(lines, f)) \in Nat /\ Cardinality({t \in toRead : t[2] = f}) \in Nat
    BY <2>1, TimesAre
  <2>3. Times(f) \in Nat
    BY <2>2 DEF Times, Left
  <2>4. QED  BY <2>3 DEF Times, Left
<1>2. Newest(Found \ {job})' = Newest(Found' \ {job'})
  BY DEF Newest
<1> SUFFICES ASSUME NEW f \in Files
             PROVE  /\ f[1] \notin {job} \cup (Protected \cap Newest(Found' \ {job})) => Times(f) <= 1
                    /\ f[1] # job => Times(f) <= 2
                    /\ f[1] = job => Times(f) <= (IF job \in Protected THEN 2 ELSE 1) + (IF Sending' THEN 1 ELSE 0)
  BY <1>1, <1>2 DEF Counted
<1>3. /\ f[1] \notin {job} \cup (Protected \cap Newest(Found \ {job})) => Times(f) <= 1
      /\ f[1] # job => Times(f) <= 2
      /\ f[1] = job => Times(f) <= (IF job \in Protected THEN 2 ELSE 1) + (IF Sending THEN 1 ELSE 0)
  BY DEF FilesInv, Counted
<1>4. f[1] \notin {job} \cup (Protected \cap Newest(Found' \ {job})) => f[1] \notin {job} \cup (Protected \cap Newest(Found \ {job}))
  OBVIOUS
<1>5. f[1] = job => Times(f) <= (IF job \in Protected THEN 2 ELSE 1) + (IF Sending' THEN 1 ELSE 0)
  BY <1>1, <1>3
<1>6. QED  BY <1>3, <1>4, <1>5

-----------------------------------------------------------------------------
(* The steps of the vacuum.                                                 *)

LEMMA ScanStep ==
    ASSUME FilesInv, Scan
    PROVE  FilesInv'
<1> USE DEF Scan, work
<1>1. TypeOK' /\ ListsNamed' /\ NeverHit' /\ Phases'
  BY DEF FilesInv, TypeOK, ListsNamed, NeverHit, Phases, Sending
<1>2. CutIsSuspect' /\ WrongSumsHeal'
  BY DEF FilesInv, CutIsSuspect, WrongSumsHeal
<1>3. Found' = Found
  BY DEF Found
<1>4. Chosen' /\ Covered' /\ Sent'
  BY <1>3 DEF FilesInv, Chosen, Covered, Sent, Stays, Sending, Outdated
<1>5. Counted'
  BY <1>3, CountedKept DEF Sending
<1>6. QED  BY <1>1, <1>2, <1>4, <1>5 DEF FilesInv

LEMMA Stutters ==
    ASSUME FilesInv, UNCHANGED vars
    PROVE  FilesInv'
<1> USE DEF vars, server, work
<1>1. TypeOK' /\ ListsNamed' /\ NeverHit' /\ Phases' /\ CutIsSuspect' /\ WrongSumsHeal'
  BY DEF FilesInv, TypeOK, ListsNamed, NeverHit, Phases, Sending, CutIsSuspect, WrongSumsHeal
<1>2. Found' = Found
  BY DEF Found
<1>3. Chosen' /\ Covered' /\ Sent'
  BY <1>2 DEF FilesInv, Chosen, Covered, Sent, Stays, Sending, Outdated
<1>4. Counted'
  BY <1>2, CountedKept DEF Sending
<1>5. QED  BY <1>1, <1>3, <1>4 DEF FilesInv

\* The tasks a vacuum sets itself.
LEMMA TasksChosen ==
    /\ \A t \in Artifacts(ToDelete) :
         t \in Tasks /\ t[1] = "delete" /\ t[2] \in Files /\ t[2][1] \in Found \ (Newest(Found) \cup Protected)
    /\ \A t \in Listable(ToKeep) :
         /\ t \in Tasks /\ t[2] \in Files /\ t = <<t[1], t[2]>> /\ site[t[2]] # "absent"
         /\ \/ t[1] = "newest" /\ t[2][1] \in Newest(Found)
            \/ t[1] = "protected" /\ t[2][1] \in Protected
<1>1. \A t \in Artifacts(ToDelete) :
        t \in Tasks /\ t[2] \in Files /\ <<t[1], t[2][1]>> \in ToDelete
  BY ArtifactsAre
<1>2. \A t \in Listable(ToKeep) :
        t \in Tasks /\ t[2] \in Files /\ t = <<t[1], t[2]>> /\ <<t[1], t[2][1]>> \in ToKeep /\ site[t[2]] # "absent"
  BY ArtifactsAre DEF Listable
<1>3. \A a, b : <<a, b>> \in ToDelete => a = "delete" /\ b \in Found \ (Newest(Found) \cup Protected)
  BY DEF ToDelete
<1>4. \A a : \A b : <<a, b>> \in ToKeep => (a = "newest" /\ b \in Newest(Found)) \/ (a = "protected" /\ b \in Protected)
  <2> TAKE a
  <2> TAKE b
  <2> HAVE <<a, b>> \in ToKeep
  <2>1. CASE <<a, b>> \in {"newest"} \X Newest(Found)
    BY <2>1
  <2>2. CASE <<a, b>> \in {"protected"} \X Protected
    BY <2>2
  <2>3. QED  BY <2>1, <2>2 DEF ToKeep
<1>5. QED  BY <1>1, <1>2, <1>3, <1>4

LEMMA LoadStep ==
    ASSUME FilesInv, Load
    PROVE  FilesInv'
<1> USE DEF Load, server
<1>1. lines = <<>> /\ lines' = <<>> /\ ~Sending /\ ~Sending' /\ job # NoJob /\ toSend = <<>> /\ Found' = Found
  BY DEF FilesInv, Phases, Sending, Found
<1>2. TypeOK' /\ ListsNamed' /\ NeverHit'
  BY TasksChosen DEF FilesInv, TypeOK, ListsNamed, NeverHit
<1>3. Phases'
  BY <1>1 DEF FilesInv, Phases
<1>4. CutIsSuspect' /\ WrongSumsHeal'
  BY DEF FilesInv, CutIsSuspect, WrongSumsHeal
<1>5. Chosen'
  <2>1. \A t \in doomed' : t[1] = "delete" /\ Outdated(t[2][1])'
    BY <1>1, TasksChosen, NewestOrOutdated DEF Outdated
  <2>2. \A t \in toRead' : Stays(t[2])'
    BY TasksChosen DEF Stays
  <2>3. QED  BY <1>1, <2>1, <2>2 DEF Chosen
<1>6. Covered'
  <2> SUFFICES ASSUME NEW f \in Files, site[f] # "absent", ~Skipped(f), ~Outdated(f[1])
               PROVE  \E t \in toRead' : t[2] = f
    BY <1>1 DEF Covered, Outdated
  <2>1. f[1] \in Newest(Found) \/ f[1] \in Protected
    BY FoundFile, NewestOrOutdated
  <2>2. ASSUME NEW p \in {"newest", "protected"}, <<p, f[1]>> \in ToKeep
        PROVE  <<p, f>> \in Listable(ToKeep)
    BY <2>2 DEF Listable, Artifacts, Tasks, Passes
  <2>3. <<"newest", f[1]>> \in ToKeep \/ <<"protected", f[1]>> \in ToKeep
    BY <2>1 DEF ToKeep
  <2>4. <<"newest", f>> \in toRead' \/ <<"protected", f>> \in toRead'
    BY <2>2, <2>3
  <2>5. QED  BY <2>4
<1>7. Sent'
  BY <1>1 DEF FilesInv, Sent
<1>8. Counted'
  <2>a. Newest(Found \ {job})' = Newest(Found \ {job}) /\ job' = job
    BY <1>1 DEF Newest
  <2> SUFFICES ASSUME NEW f \in Files
               PROVE  /\ f[1] \notin {job} \cup (Protected \cap Newest(Found \ {job})) => Times(f)' <= 1
                      /\ f[1] # job => Times(f)' <= 2
                      /\ f[1] = job => Times(f)' <= (IF job \in Protected THEN 2 ELSE 1) + (IF Sending' THEN 1 ELSE 0)
    BY <1>1, <2>a DEF Counted
  <2> DEFINE left == {t \in Listable(ToKeep) : t[2] = f}
  <2>1. Times(f)' = Cardinality(left) /\ Cardinality(left) \in Nat
    <3>1. Cardinality(Named(lines', f)) = 0
      BY <1>1, NamedNone, FS_EmptySet
    <3>2. left \in SUBSET Tasks /\ Cardinality(left) \in Nat
      BY TasksChosen, FilesFinite, FS_Subset, FS_CardinalityType
    <3>3. QED  BY <3>1, <3>2 DEF Times, Left
  <2>2. left \subseteq {<<"newest", f>>} \cup {<<"protected", f>>}
    BY TasksChosen
  <2>3. <<"newest", f>> \in left => f[1] \in Newest(Found)
    BY TasksChosen
  <2>4. <<"protected", f>> \in left => f[1] \in Protected
    BY TasksChosen
  <2>5. Cardinality(left) <= 2
    <3>1. IsFiniteSet({<<"newest", f>>} \cup {<<"protected", f>>})
          /\ Cardinality({<<"newest", f>>} \cup {<<"protected", f>>}) <= 2
      <4>1. IsFiniteSet({<<"newest", f>>}) /\ Cardinality({<<"newest", f>>}) = 1
        BY FS_Singleton
      <4>2. \/ Cardinality({<<"newest", f>>} \cup {<<"protected", f>>}) = 1
            \/ Cardinality({<<"newest", f>>} \cup {<<"protected", f>>}) = 1 + 1
        <5> DEFINE one == {<<"newest", f>>}
        <5>1. IsFiniteSet(one) /\ Cardinality(one) = 1
          BY <4>1
        <5> HIDE DEF one
        <5>2. <<"protected", f>> \in one \/ <<"protected", f>> \notin one
          OBVIOUS
        <5>3. Cardinality(one \cup {<<"protected", f>>}) = 1 \/ Cardinality(one \cup {<<"protected", f>>}) = 1 + 1
          BY <5>1, <5>2, FS_AddElement
        <5>4. QED  BY <5>3 DEF one
      <4>3. IsFiniteSet({<<"newest", f>>} \cup {<<"protected", f>>})
        <5>1. IsFiniteSet({<<"protected", f>>})
          BY FS_Singleton
        <5>2. QED  BY <4>1, <5>1, FS_Union
      <4>4. QED  BY <4>2, <4>3
    <3>2. Cardinality(left) <= Cardinality({<<"newest", f>>} \cup {<<"protected", f>>})
      BY <2>2, <3>1, FS_Subset
    <3>3. QED  BY <2>1, <3>1, <3>2, FS_CardinalityType
  <2>6. f[1] \notin Protected \/ f[1] \notin Newest(Found) => Cardinality(left) <= 1
    <3> SUFFICES ASSUME NEW x, left \subseteq {x}
                 PROVE  Cardinality(left) <= 1
      <4>1. f[1] \notin Newest(Found) => left \subseteq {<<"protected", f>>}
        BY <2>2, <2>3
      <4>2. f[1] \notin Protected => left \subseteq {<<"newest", f>>}
        BY <2>2, <2>4
      <4>3. QED  BY <4>1, <4>2
    <3>1. IsFiniteSet({x}) /\ Cardinality({x}) = 1
      BY FS_Singleton
    <3>2. QED  BY <3>1, FS_Subset
  <2>7. f[1] # job /\ f[1] \in Newest(Found) => f[1] \in Newest(Found \ {job})
    <3>1. Newest(Found) \cap (Found \ {job}) \subseteq Newest(Found \ {job})
      BY FoundType, NewestOfFewer
    <3>2. QED  BY <3>1 DEF Newest
  <2>8. f[1] = job => Times(f)' <= (IF job \in Protected THEN 2 ELSE 1) + (IF Sending' THEN 1 ELSE 0)
    BY <1>1, <2>1, <2>5, <2>6
  <2>9. QED  BY <2>1, <2>5, <2>6, <2>7, <2>8
<1>9. QED  BY <1>2, <1>3, <1>4, <1>5, <1>6, <1>7, <1>8 DEF FilesInv

LEMMA DeleteStep ==
    ASSUME FilesInv, Delete
    PROVE  FilesInv'
<1>1. PICK t \in doomed :
        /\ doomed' = doomed \ {t}
        /\ \/ /\ site' = [site EXCEPT ![t[2]] = "absent"]
              /\ UNCHANGED faults
           \/ /\ faults < MaxFaults
              /\ faults' = faults + 1
              /\ UNCHANGED site
  BY DEF Delete, Due
<1>2. UNCHANGED <<scanned, sums, job, pc, toRead, known, tries, lines, toSend, suspect>> /\ pc = "delete"
  BY DEF Delete
<1> DEFINE g == t[2]
<1>3. t \in Tasks /\ t = <<"delete", g>> /\ g \in Files /\ g[1] \in Versions /\ Outdated(g[1]) /\ g[1] \notin Protected
  <2>1. t \in Tasks /\ t[1] = "delete" /\ Outdated(g[1])
    BY DEF FilesInv, TypeOK, Chosen
  <2>2. t = <<t[1], t[2]>> /\ g \in Files
    BY <2>1 DEF Tasks
  <2>3. g[1] \in Versions /\ g[1] \notin Protected
    BY <2>1, <2>2 DEF Files, Outdated
  <2>4. QED  BY <2>1, <2>2, <2>3
<1>4. \A f \in Files : site'[f] = site[f] \/ (f = g /\ site'[f] = "absent")
  <2>1. site \in [Files -> Contents]
    BY DEF FilesInv, TypeOK
  <2>2. QED  BY <1>1, <2>1
<1>5. Found' \subseteq Found /\ Found \ {g[1]} \subseteq Found'
  BY <1>4 DEF Found
<1>6. ~Sending /\ ~Sending' /\ toSend = <<>> /\ lines = <<>>
  BY <1>2 DEF FilesInv, Phases, Sending
<1>7. TypeOK' /\ ListsNamed' /\ NeverHit'
  <2>1. site' \in [Files -> Contents] /\ faults' \in 0 .. MaxFaults
    BY <1>1, BoundsAre DEF FilesInv, TypeOK, Contents
  <2>2. QED  BY <1>1, <1>2, <2>1 DEF FilesInv, TypeOK, ListsNamed, NeverHit
<1>8. Phases'
  BY <1>1, <1>2, <1>6 DEF FilesInv, Phases
<1>9. CutIsSuspect' /\ WrongSumsHeal'
  BY <1>2, <1>4 DEF FilesInv, CutIsSuspect, WrongSumsHeal
<1>10. ASSUME NEW v \in Versions, Outdated(v)
       PROVE  Outdated(v)'
  BY <1>3, <1>5, <1>10, OutdatedKept
<1>11. Chosen'
  <2>1. \A d \in doomed' : d[1] = "delete" /\ Outdated(d[2][1])'
    <3>1. \A d \in doomed : d[1] = "delete" /\ Outdated(d[2][1]) /\ d[2][1] \in Versions
      BY DEF FilesInv, TypeOK, Chosen, Tasks, Files
    <3>2. QED  BY <1>1, <1>10, <3>1
  <2>2. \A r \in toRead' : Stays(r[2])'
    <3>1. \A r \in toRead : Stays(r[2]) /\ r[2] \in Files /\ r[2] # g
      BY <1>3 DEF FilesInv, TypeOK, Chosen, Tasks, Stays
    <3>2. QED  BY <1>1, <1>2, <1>4, <3>1 DEF Stays
  <2>3. QED  BY <1>2, <1>6, <2>1, <2>2 DEF Chosen
<1>12. Covered'
  <2> SUFFICES ASSUME NEW f \in Files, site'[f] # "absent", ~Skipped(f), f # <<job, "iso">>
               PROVE  Outdated(f[1])' \/ \E r \in toRead : r[2] = f
    BY <1>2 DEF Covered
  <2>1. f[1] \in Versions /\ (Outdated(f[1]) \/ \E r \in toRead : r[2] = f)
    BY <1>2, <1>4, <1>6, NamedNone DEF FilesInv, Covered, Files
  <2>2. QED  BY <1>10, <2>1
<1>13. Sent'
  BY <1>2, <1>6 DEF FilesInv, Sent
<1>14. Counted'
  <2>1. ASSUME NEW v \in Protected, v \in Newest(Found \ {job})
        PROVE  v \in Newest(Found' \ {job})
    <3>1. v \in Found' \ {job}
      BY <1>3, <1>5, <2>1 DEF Newest
    <3>2. Found \ {job} \in SUBSET Versions /\ Found' \ {job} \in SUBSET (Found \ {job})
      BY <1>5, FoundType
    <3>3. QED  BY <2>1, <3>1, <3>2, NewestOfFewer
  <2>2. QED  BY <1>2, <1>6, <2>1, CountedKept
<1>15. QED  BY <1>7, <1>8, <1>9, <1>11, <1>12, <1>13, <1>14 DEF FilesInv

LEMMA OldSumsStep ==
    ASSUME FilesInv, ReadOldSums \/ NoOldSums
    PROVE  FilesInv'
<1>1. Named(sums, NoName) = {}
  BY NamedNeverEmpty DEF FilesInv, ListsNamed
<1>2. /\ pc = "delete" /\ pc' = "read" /\ doomed = {}
      /\ UNCHANGED <<server, job, doomed, toRead, tries, lines, toSend, suspect>>
      /\ known' = known \/ known' = KeysOf(sums)
      /\ faults' = faults \/ (faults < MaxFaults /\ faults' = faults + 1)
  BY <1>1 DEF ReadOldSums, NoOldSums, work
<1>3. ~Sending /\ ~Sending' /\ Found' = Found
  BY <1>2 DEF Sending, Found, server
<1>4. TypeOK' /\ ListsNamed'
  <2>1. faults' \in 0 .. MaxFaults
    BY <1>2, BoundsAre DEF FilesInv, TypeOK
  <2>2. QED  BY <1>2, <2>1 DEF FilesInv, TypeOK, ListsNamed, server
<1>5. NeverHit'
  BY <1>2, KeysAreNoPaths DEF FilesInv, NeverHit
<1>6. Phases'
  BY <1>2, <1>3 DEF FilesInv, Phases
<1>7. CutIsSuspect' /\ WrongSumsHeal'
  BY <1>2 DEF FilesInv, CutIsSuspect, WrongSumsHeal, server
<1>8. Chosen' /\ Covered' /\ Sent'
  BY <1>2, <1>3 DEF FilesInv, Chosen, Covered, Sent, Stays, Outdated, server
<1>9. Counted'
  BY <1>2, <1>3, CountedKept
<1>10. QED  BY <1>4, <1>5, <1>6, <1>7, <1>8, <1>9 DEF FilesInv

LEMMA NoAnswerStep ==
    ASSUME FilesInv, NoAnswer
    PROVE  FilesInv'
<1>1. CASE ~(tries + 1 < MaxTries)
  <2>1. End /\ UNCHANGED <<site, scanned, sums, faults>>
    BY <1>1 DEF NoAnswer, server
  <2>2. QED  BY <2>1, EndKeeps DEF FilesInv, TypeOK, ListsNamed
<1>2. CASE tries + 1 < MaxTries
  <2>1. /\ tries' = tries + 1 /\ pc = "asked" /\ pc' = "read"
        /\ UNCHANGED <<server, job, doomed, toRead, known, lines, toSend, suspect, faults>>
    BY <1>2 DEF NoAnswer, Asked
  <2>2. Found' = Found /\ ~Sending /\ ~Sending'
    BY <2>1 DEF Found, server, Sending
  <2>3. tries' \in 0 .. MaxTries - 1
    BY <1>2, <2>1, BoundsAre DEF FilesInv, TypeOK
  <2>4. TypeOK' /\ ListsNamed' /\ NeverHit' /\ Phases' /\ CutIsSuspect' /\ WrongSumsHeal'
    BY <2>1, <2>3 DEF FilesInv, TypeOK, ListsNamed, NeverHit, Phases, Sending, CutIsSuspect, WrongSumsHeal, server
  <2>5. Chosen' /\ Covered' /\ Sent'
    BY <2>1, <2>2 DEF FilesInv, Chosen, Covered, Sent, Stays, Sending, Outdated, server
  <2>6. Counted'
    BY <2>1, <2>2, CountedKept
  <2>7. QED  BY <2>4, <2>5, <2>6 DEF FilesInv
<1>3. QED  BY <1>1, <1>2

LEMMA AskStep ==
    ASSUME FilesInv, Ask
    PROVE  FilesInv'
<1>1. pc = "read" /\ pc' = "asked" /\ UNCHANGED <<server, job, work, suspect, faults>>
  BY DEF Ask
<1>2. Found' = Found /\ ~Sending /\ ~Sending'
  BY <1>1 DEF Found, server, Sending
<1>3. TypeOK' /\ ListsNamed' /\ NeverHit' /\ Phases' /\ CutIsSuspect' /\ WrongSumsHeal'
  BY <1>1 DEF FilesInv, TypeOK, ListsNamed, NeverHit, Phases, Sending, CutIsSuspect, WrongSumsHeal, server, work
<1>4. Chosen' /\ Covered' /\ Sent'
  BY <1>1, <1>2 DEF FilesInv, Chosen, Covered, Sent, Stays, Outdated, server, work
<1>5. Counted'
  BY <1>1, <1>2, CountedKept DEF server, work
<1>6. QED  BY <1>3, <1>4, <1>5 DEF FilesInv

LEMMA FindStep ==
    ASSUME FilesInv, FindSum
    PROVE  FilesInv'
<1>1. PICK t \in toRead :
        LET f == t[2]
        IN  /\ t \in Due(toRead)
            /\ IF Hit(t) THEN pc = "read" ELSE pc = "asked" /\ scanned[f] # "absent"
            /\ Write(t, IF Hit(t) THEN Bare(known[PathOf(f)]) ELSE Line(scanned[f], f))
  BY DEF FindSum
<1> DEFINE g == t[2]
           l == Line(scanned[g], g)
<1>2. g \in Files /\ ~Hit(t)
  BY DEF FilesInv, TypeOK, Tasks, NeverHit, Hit
<1>3. /\ pc = "asked" /\ scanned[g] # "absent" /\ pc' = "read"
      /\ lines' = Append(lines, l) /\ toRead' = toRead \ {t} /\ tries' = 0
      /\ UNCHANGED <<server, job, doomed, known, toSend, suspect, faults>>
  BY <1>1, <1>2 DEF Write
<1>4. l \in NamedLine /\ l.name = g /\ l.sum = scanned[g]
  <2>1. scanned[g] \in {"cut", "whole"}
    BY <1>2, <1>3 DEF FilesInv, TypeOK, Contents
  <2>2. QED  BY <1>2, <2>1 DEF NamedLine, Line
<1>5. lines \in Seq(NamedLine) /\ toRead \in SUBSET Tasks
  BY DEF FilesInv, TypeOK, ListsNamed
<1> HIDE DEF l
<1>6. ~Sending /\ ~Sending' /\ Found' = Found
  BY <1>3 DEF Sending, Found, server
<1>7. ListsNamed'
  BY <1>3, <1>4, <1>5, NamedAppend DEF FilesInv, ListsNamed, server
<1>8. TypeOK'
  <2>1. LinesOf(sums') /\ LinesOf(lines')
    BY <1>7, NamedLinesOf DEF ListsNamed
  <2>2. QED  BY <1>3, <1>5, <2>1, BoundsAre DEF FilesInv, TypeOK, server
<1>9. NeverHit' /\ Phases'
  BY <1>3, <1>6 DEF FilesInv, NeverHit, Phases
<1>10. CutIsSuspect'
  BY <1>3 DEF FilesInv, CutIsSuspect, server
<1>11. \A i \in DOMAIN lines' : (i \in DOMAIN lines /\ lines'[i] = lines[i]) \/ lines'[i] = l
  BY <1>3, <1>4, <1>5, AppendProperties
<1>12. WrongSumsHeal'
  <2>1. l.sum = "cut" => l.name \in suspect
    BY <1>2, <1>3, <1>4 DEF FilesInv, CutIsSuspect
  <2>2. QED  BY <1>3, <1>11, <2>1 DEF FilesInv, WrongSumsHeal
<1>13. Chosen'
  <2>1. Stays(g)
    BY DEF FilesInv, Chosen
  <2>2. \A i \in DOMAIN lines' : Stays(lines'[i].name)
    BY <1>4, <1>6, <1>11, <2>1 DEF FilesInv, Chosen
  <2>3. QED  BY <1>3, <1>6, <2>2 DEF FilesInv, Chosen, Stays, Outdated, server
<1>14. ASSUME NEW f
       PROVE  /\ Named(lines', f) = Named(lines, f) \cup (IF g = f THEN {Len(lines) + 1} ELSE {})
              /\ Cardinality(Named(lines', f)) = Cardinality(Named(lines, f)) + (IF g = f THEN 1 ELSE 0)
  BY <1>3, <1>4, <1>5, NamedAppend, NamedCount
<1>15. Covered'
  <2> SUFFICES ASSUME NEW f \in Files, site[f] # "absent", ~Skipped(f), f # <<job, "iso">>, ~Outdated(f[1])
               PROVE  (\E r \in toRead' : r[2] = f) \/ Named(lines', f) # {}
    BY <1>3, <1>6 DEF Covered, Outdated, server
  <2>1. (\E r \in toRead : r[2] = f) \/ Named(lines, f) # {}
    BY <1>3 DEF FilesInv, Covered
  <2>2. QED  BY <1>3, <1>14, <2>1
<1>16. Sent'
  BY <1>3, <1>6 DEF FilesInv, Sent
<1>17. Counted'
  <2>1. ASSUME NEW f \in Files
        PROVE  Times(f)' = Times(f)
    <3> DEFINE left(R) == {r \in R : r[2] = f}
    <3>1. IsFiniteSet(left(toRead)) /\ Cardinality(left(toRead)) \in Nat /\ Cardinality(Named(lines, f)) \in Nat
      BY <1>5, TimesAre
    <3>2. Cardinality(left(toRead')) = Cardinality(left(toRead)) - (IF g = f THEN 1 ELSE 0)
      <4>1. CASE g = f
        <5>1. left(toRead') = left(toRead) \ {t} /\ t \in left(toRead)
          BY <1>3, <4>1
        <5> HIDE DEF left
        <5>2. QED  BY <3>1, <4>1, <5>1, FS_RemoveElement
      <4>2. CASE g # f
        <5>1. left(toRead') = left(toRead)
          BY <1>3, <4>2
        <5> HIDE DEF left
        <5>2. QED  BY <3>1, <4>2, <5>1
      <4>3. QED  BY <4>1, <4>2
    <3>3. Cardinality(Named(lines', f)) = Cardinality(Named(lines, f)) + (IF g = f THEN 1 ELSE 0)
      BY <1>14
    <3>4. /\ Times(f) = Cardinality(Named(lines, f)) + Cardinality(left(toRead))
          /\ Times(f)' = Cardinality(Named(lines', f)) + Cardinality(left(toRead'))
      BY DEF Times, Left
    <3> HIDE DEF left
    <3>5. QED  BY <3>1, <3>2, <3>3, <3>4
  <2>2. Newest(Found \ {job})' = Newest(Found \ {job}) /\ job' = job
    BY <1>3, <1>6 DEF Newest
  <2>3. QED  BY <1>6, <2>1, <2>2 DEF FilesInv, Counted
<1>18. QED  BY <1>7, <1>8, <1>9, <1>10, <1>12, <1>13, <1>15, <1>16, <1>17 DEF FilesInv

-----------------------------------------------------------------------------
(* The steps of upload.sh.                                                  *)

LEMMA CompleteStep ==
    ASSUME FilesInv, Complete
    PROVE  FilesInv'
<1> DEFINE g == <<job, "erofs">>
           l == Line("whole", g)
<1>1. /\ pc = "read" /\ pc' = "send" /\ toRead = {} /\ lines' = Append(lines, l)
      /\ toSend' = <<<<job, "iso">>, <<job, "erofs">>, <<job, "index">>>> /\ known' = NoKeys
      /\ UNCHANGED <<server, job, doomed, toRead, tries, suspect, faults>>
  BY DEF Complete
<1>2. job \in Versions /\ \A k \in Kinds : <<job, k>> \in Files
  BY <1>1, VersionsAre DEF FilesInv, Phases, TypeOK, Files
<1>3. l \in NamedLine /\ l.name = g /\ l.sum = "whole"
  BY <1>2 DEF NamedLine, Line, Kinds
<1>4. lines \in Seq(NamedLine) /\ doomed = {}
  BY <1>1 DEF FilesInv, ListsNamed, Phases
<1>g. g = <<job, "erofs">>
  OBVIOUS
<1> HIDE DEF l, g
<1>5. ~Sending /\ Sending' /\ Found' = Found
  BY <1>1 DEF Sending, Found, server
<1>6. ListsNamed'
  BY <1>1, <1>3, <1>4, NamedAppend DEF FilesInv, ListsNamed, server
<1>7. TypeOK'
  <2>1. LinesOf(sums') /\ LinesOf(lines')
    BY <1>6, NamedLinesOf DEF ListsNamed
  <2>2. toSend' \in Seq(Files)
    BY <1>1, <1>2 DEF Kinds
  <2>3. QED  BY <1>1, <2>1, <2>2, BoundsAre DEF FilesInv, TypeOK, server
<1>8. NeverHit'
  BY <1>1, KeysAreNoPaths DEF NeverHit
<1>9. Phases'
  BY <1>1, <1>4, <1>5 DEF FilesInv, Phases
<1>10. \A i \in DOMAIN lines' : (i \in DOMAIN lines /\ lines'[i] = lines[i]) \/ lines'[i] = l
  BY <1>1, <1>3, <1>4, AppendProperties
<1>11. CutIsSuspect' /\ WrongSumsHeal'
  BY <1>1, <1>3, <1>10 DEF FilesInv, CutIsSuspect, WrongSumsHeal
<1>12. Chosen'
  <2>1. \A i \in DOMAIN lines : Stays(lines[i].name)
    BY <1>5 DEF FilesInv, Chosen
  <2>2. \A i \in DOMAIN lines' : site[lines'[i].name] # "absent" \/ lines'[i].name = g
    BY <1>3, <1>10, <2>1 DEF Stays
  <2>3. job' = job /\ toRead' = {} /\ doomed' = {} /\ site' = site
    BY <1>1, <1>4 DEF server
  <2>4. QED  BY <1>5, <1>g, <2>2, <2>3 DEF Chosen, Stays
<1>13. ASSUME NEW f
       PROVE  /\ Named(lines', f) = Named(lines, f) \cup (IF g = f THEN {Len(lines) + 1} ELSE {})
              /\ Cardinality(Named(lines', f)) = Cardinality(Named(lines, f)) + (IF g = f THEN 1 ELSE 0)
              /\ Cardinality(Named(lines, f)) \in Nat
  BY <1>1, <1>3, <1>4, NamedAppend, NamedCount, NamedFinite
<1>14. Covered'
  <2> SUFFICES ASSUME NEW f \in Files, site[f] # "absent", ~Skipped(f), f # <<job, "iso">>, ~Outdated(f[1])
               PROVE  Named(lines', f) # {}
    BY <1>1, <1>5 DEF Covered, Outdated, server
  <2>1. Named(lines, f) # {}
    BY <1>1 DEF FilesInv, Covered
  <2>2. QED  BY <1>13, <2>1
<1>15. Sent'
  <2>1. \A i \in DOMAIN toSend' : toSend'[i] \in {job} \X Kinds
    BY <1>1 DEF Kinds
  <2>2. Named(lines', <<job, "erofs">>) # {}
    BY <1>13, <1>g
  <2>3. \A k \in Kinds : \E i \in DOMAIN toSend' : toSend'[i] = <<job, k>>
    <3>1. DOMAIN toSend' = 1 .. 3 /\ toSend'[1] = <<job, "iso">> /\ toSend'[2] = <<job, "erofs">> /\ toSend'[3] = <<job, "index">>
      BY <1>1
    <3>2. 1 \in 1 .. 3 /\ 2 \in 1 .. 3 /\ 3 \in 1 .. 3
      OBVIOUS
    <3>3. QED  BY <3>1, <3>2 DEF Kinds
  <2>4. QED  BY <1>1, <2>1, <2>2, <2>3 DEF Sent
<1>16. Counted'
  <2>1. ASSUME NEW f \in Files
        PROVE  Times(f) \in Nat /\ Times(f)' = Times(f) + (IF g = f THEN 1 ELSE 0)
    <3>1. Left(f) = {} /\ Left(f)' = {} /\ Cardinality({}) = 0
      BY <1>1, FS_EmptySet DEF Left
    <3>2. Times(f) = Cardinality(Named(lines, f)) + 0 /\ Times(f)' = Cardinality(Named(lines', f)) + 0
      BY <3>1 DEF Times
    <3>3. QED  BY <1>13, <3>2
  <2>2. Newest(Found \ {job})' = Newest(Found \ {job}) /\ job' = job
    BY <1>1, <1>5 DEF Newest
  <2> SUFFICES ASSUME NEW f \in Files
               PROVE  /\ f[1] \notin {job} \cup (Protected \cap Newest(Found \ {job})) => Times(f)' <= 1
                      /\ f[1] # job => Times(f)' <= 2
                      /\ f[1] = job => Times(f)' <= (IF job \in Protected THEN 2 ELSE 1) + (IF Sending' THEN 1 ELSE 0)
    BY <2>2 DEF Counted
  <2>3. /\ f[1] \notin {job} \cup (Protected \cap Newest(Found \ {job})) => Times(f) <= 1
        /\ f[1] # job => Times(f) <= 2
        /\ f[1] = job => Times(f) <= (IF job \in Protected THEN 2 ELSE 1) + 0
    BY <1>5 DEF FilesInv, Counted
  <2>4. CASE f[1] = job
    BY <1>5, <2>1, <2>3, <2>4
  <2>5. CASE f[1] # job
    <3>1. Times(f)' = Times(f) + 0
      BY <1>g, <2>1, <2>5
    <3>2. QED  BY <2>1, <2>3, <2>5, <3>1
  <2>6. QED  BY <2>4, <2>5
<1>17. QED  BY <1>6, <1>7, <1>8, <1>9, <1>11, <1>12, <1>14, <1>15, <1>16 DEF FilesInv

\* The uploads touch only the release of the job.
LEMMA SendKeeps ==
    ASSUME FilesInv, Sending, Sending', NEW h \in {job} \X Kinds, NEW c \in {"cut", "whole"},
           site' = [site EXCEPT ![h] = c], toSend' \in Seq(Files), pc' = "sending" => toSend' # <<>>,
           \A i \in DOMAIN toSend' : \E j \in DOMAIN toSend : toSend'[i] = toSend[j],
           \A i \in DOMAIN toSend : toSend[i] = h \/ \E j \in DOMAIN toSend' : toSend'[j] = toSend[i],
           UNCHANGED <<scanned, sums, job, doomed, toRead, known, tries, lines, suspect, faults>>
    PROVE  FilesInv'
<1>1. pc # "idle" /\ pc' # "idle" /\ pc # "load" /\ pc' # "load" /\ pc' # "delete" /\ pc' # "read"
      /\ pc' \in {"send", "sending"} /\ toRead = {} /\ doomed = {}
  BY DEF FilesInv, Phases, Sending
<1>2. job \in Versions /\ \A k \in Kinds : <<job, k>> \in Files
  BY <1>1, VersionsAre DEF FilesInv, Phases, TypeOK, Files
<1>3. h \in Files /\ h[1] = job /\ h = <<job, h[2]>> /\ h[2] \in Kinds
  BY <1>2
<1>4. site \in [Files -> Contents] /\ site' \in [Files -> Contents]
  BY <1>3 DEF FilesInv, TypeOK, Contents
<1>5. \A f \in Files : (f # h => site'[f] = site[f]) /\ (site[f] # "absent" => site'[f] # "absent") /\ site'[h] # "absent"
  BY <1>3, <1>4
<1>6. TypeOK' /\ ListsNamed' /\ NeverHit'
  BY <1>1, <1>4 DEF FilesInv, TypeOK, ListsNamed, NeverHit
<1>7. Phases'
  BY <1>1 DEF FilesInv, Phases
<1>8. CutIsSuspect' /\ WrongSumsHeal'
  BY <1>1 DEF FilesInv, CutIsSuspect, WrongSumsHeal
<1>9. Chosen'
  <2>1. \A i \in DOMAIN lines : lines[i] \in NamedLine
    BY DEF FilesInv, ListsNamed
  <2>2. \A i \in DOMAIN lines : lines[i].name \in Files
    BY <2>1 DEF NamedLine
  <2>3. \A f \in Files : Stays(f) => Stays(f)'
    BY <1>5 DEF Stays
  <2>4. \A i \in DOMAIN lines : Stays(lines[i].name)' \/ lines[i].name = <<job, "erofs">>
    BY <2>2, <2>3 DEF FilesInv, Chosen
  <2>5. QED  BY <1>1, <2>4 DEF Chosen
<1>10. Found \subseteq Found' /\ Found' \ {job} = Found \ {job}
  BY <1>3, <1>5 DEF Found, Files
<1>11. Covered'
  <2> SUFFICES ASSUME NEW f \in Files, site'[f] # "absent", ~Skipped(f), f # <<job, "iso">>
               PROVE  Outdated(f[1])' \/ Named(lines, f) # {}
    BY DEF Covered
  <2>1. CASE f = h
    <3>1. f = <<job, "erofs">>
      BY <1>3, <2>1 DEF Skipped, Kinds
    <3>2. QED  BY <3>1 DEF FilesInv, Sent
  <2>2. CASE f # h
    <3>1. f[1] \in Versions /\ (Outdated(f[1]) \/ Named(lines, f) # {})
      BY <1>1, <1>5, <2>2 DEF FilesInv, Covered, Files
    <3>2. QED  BY <1>10, <3>1, OutdatedGrows
  <2>3. QED  BY <2>1, <2>2
<1>12. Sent'
  <2>1. \A i \in DOMAIN toSend' : toSend'[i] \in {job} \X Kinds
    BY DEF FilesInv, Sent
  <2>2. Named(lines, <<job, "erofs">>) # {}
    BY DEF FilesInv, Sent
  <2>3. ASSUME NEW k \in Kinds
        PROVE  site'[<<job, k>>] # "absent" \/ \E i \in DOMAIN toSend' : toSend'[i] = <<job, k>>
    <3>1. CASE site[<<job, k>>] # "absent"
      BY <1>2, <1>5, <3>1
    <3>2. CASE \E i \in DOMAIN toSend : toSend[i] = <<job, k>>
      <4>1. h = <<job, k>> \/ \E j \in DOMAIN toSend' : toSend'[j] = <<job, k>>
        BY <3>2
      <4>2. QED  BY <1>3, <1>5, <4>1
    <3>3. QED  BY <3>1, <3>2 DEF FilesInv, Sent
  <2>4. QED  BY <2>1, <2>2, <2>3 DEF Sent
<1>13. Counted'
  <2>1. ASSUME NEW v
        PROVE  v \in Newest(Found \ {job}) => v \in Newest(Found' \ {job})
    BY <1>10
  <2>2. QED  BY <2>1, CountedKept
<1>14. QED  BY <1>6, <1>7, <1>8, <1>9, <1>11, <1>12, <1>13 DEF FilesInv

LEMMA BeginStep ==
    ASSUME FilesInv, BeginFile
    PROVE  FilesInv'
<1>1. /\ toSend # <<>> /\ pc = "send" /\ pc' = "sending" /\ toSend' = toSend
      /\ site' = [site EXCEPT ![Head(toSend)] = "cut"]
      /\ UNCHANGED <<scanned, sums, job, doomed, toRead, known, tries, lines, suspect, faults>>
  BY DEF BeginFile, work
<1>2. toSend \in Seq(Files) /\ Head(toSend) \in {job} \X Kinds
  <2>1. toSend \in Seq(Files)
    BY DEF FilesInv, TypeOK
  <2>2. 1 \in DOMAIN toSend /\ Head(toSend) = toSend[1]
    BY <1>1, <2>1
  <2>3. QED  BY <2>1, <2>2 DEF FilesInv, Sent
<1>3. QED  BY <1>1, <1>2, SendKeeps DEF Sending

LEMMA EndFileStep ==
    ASSUME FilesInv, EndFile
    PROVE  FilesInv'
<1>1. /\ toSend # <<>> /\ pc = "sending" /\ pc' = "send" /\ toSend' = Tail(toSend)
      /\ site' = [site EXCEPT ![Head(toSend)] = "whole"]
      /\ UNCHANGED <<scanned, sums, job, doomed, toRead, known, tries, lines, suspect, faults>>
  BY DEF FilesInv, Phases, EndFile
<1>2. toSend \in Seq(Files)
  BY DEF FilesInv, TypeOK
<1>3. /\ toSend' \in Seq(Files) /\ Len(toSend') = Len(toSend) - 1 /\ Len(toSend) \in Nat
      /\ \A i \in 1 .. Len(toSend') : toSend'[i] = toSend[i + 1]
      /\ DOMAIN toSend = 1 .. Len(toSend) /\ DOMAIN toSend' = 1 .. Len(toSend')
      /\ 1 \in DOMAIN toSend /\ Head(toSend) = toSend[1]
  BY <1>1, <1>2, HeadTailProperties
<1>4. Head(toSend) \in {job} \X Kinds
  BY <1>3 DEF FilesInv, Sent
<1>5. \A i \in DOMAIN toSend' : \E j \in DOMAIN toSend : toSend'[i] = toSend[j]
  <2>1. \A i \in DOMAIN toSend' : i + 1 \in DOMAIN toSend
    BY <1>3
  <2>2. QED  BY <1>3, <2>1
<1>6. \A i \in DOMAIN toSend : toSend[i] = Head(toSend) \/ \E j \in DOMAIN toSend' : toSend'[j] = toSend[i]
  <2> SUFFICES ASSUME NEW i \in DOMAIN toSend, i # 1
               PROVE  \E j \in DOMAIN toSend' : toSend'[j] = toSend[i]
    BY <1>3
  <2>1. i - 1 \in 1 .. Len(toSend') /\ (i - 1) + 1 = i
    BY <1>3
  <2>2. QED  BY <1>3, <2>1
<1>7. QED  BY <1>1, <1>3, <1>4, <1>5, <1>6, SendKeeps DEF Sending

-----------------------------------------------------------------------------
(* The theorems.                                                            *)

LEMMA FilesStep ==
    ASSUME FilesInv, [Next]_vars
    PROVE  FilesInv'
<1>1. ASSUME NEW v \in Pipelines, Start(v)
      PROVE  FilesInv'
  BY <1>1, StartStep
<1>2. CASE Load \/ Delete \/ ReadOldSums \/ NoOldSums \/ Ask \/ FindSum \/ NoAnswer
  BY <1>2, LoadStep, DeleteStep, OldSumsStep, AskStep, FindStep, NoAnswerStep
<1>3. CASE Complete \/ BeginFile \/ EndFile \/ UploadSums
  BY <1>3, CompleteStep, BeginStep, EndFileStep, UploadStep
<1>4. CASE Die \/ Scan \/ UNCHANGED vars
  BY <1>4, DieStep, ScanStep, Stutters
<1>5. QED  BY <1>1, <1>2, <1>3, <1>4 DEF Next, Step

LEMMA FilesAlways == Spec => []FilesInv
<1>1. QED  BY FilesInit, FilesStep, PTL DEF Spec

\* The variables keep their types, and a checksum is never asked for more than
\* MaxTries times, whatever the releases and whichever jobs die.
THEOREM TypeCorrect == Spec => []TypeOK
<1>1. FilesInv => TypeOK
  BY DEF FilesInv
<1>2. QED  BY <1>1, FilesAlways, PTL

\* No list ever holds a line without a name, at which the next vacuum would stop:
\* a key of the old list is never the path that is looked up, so that no line of
\* it is copied (upload-vacuum/main.go:105-119, 205-207).
THEOREM AllNamed == Spec => []NamedLines
<1>1. FilesInv => NamedLines
  BY NamedNeverEmpty DEF FilesInv, ListsNamed, NamedLines
<1>2. QED  BY <1>1, FilesAlways, PTL

\* A wrong checksum on the list of a job is that of a file that was cut, or that
\* the web server had last seen cut, when the job began: no list hands it on.
THEOREM SumsHeal == Spec => []WrongSumsHeal
<1>1. FilesInv => WrongSumsHeal
  BY DEF FilesInv
<1>2. QED  BY <1>1, FilesAlways, PTL

\* The list on the server changes only when a job uploads the one it made.
LEMMA OnlyUploads ==
    ASSUME FilesInv, [Next]_vars, sums' # sums
    PROVE  pc = "send" /\ toSend = <<>> /\ sums' = lines /\ Sending /\ toRead = {} /\ doomed = {}
<1>1. ~UNCHANGED sums
  OBVIOUS
<1>2. UploadSums
  BY <1>1 DEF Next, Step, vars, server, work, Start, Die, Scan, Load, Delete, ReadOldSums, NoOldSums,
              Ask, FindSum, NoAnswer, Write, Complete, BeginFile, EndFile
<1>3. QED  BY <1>2 DEF UploadSums, Sending, FilesInv, Phases

\* A list that goes to the server names only files that are there, and each that
\* ought to be listed, although between the choice and the upload files went, the
\* job's own release came, and jobs before it may have died at any point.
THEOREM ListIsOfSite == Spec => ListMatchesSite
<1>1. ASSUME FilesInv, [Next]_vars, sums' # sums
      PROVE  /\ \A i \in DOMAIN sums' : site[sums'[i].name] # "absent"
             /\ \A f \in Files :
                  site[f] # "absent" /\ ~Skipped(f) /\ f # <<job, "iso">> /\ ~Outdated(f[1])
                    => Named(sums', f) # {}
  <2>1. pc = "send" /\ toSend = <<>> /\ sums' = lines /\ Sending /\ toRead = {}
    BY <1>1, OnlyUploads
  <2>2. site[<<job, "erofs">>] # "absent"
    BY <1>1, <2>1 DEF FilesInv, Sent, Kinds
  <2>3. \A i \in DOMAIN lines : site[lines[i].name] # "absent"
    BY <1>1, <2>2 DEF FilesInv, Chosen, Stays
  <2>4. \A f \in Files : site[f] # "absent" /\ ~Skipped(f) /\ f # <<job, "iso">> /\ ~Outdated(f[1])
          => Named(lines, f) # {}
    BY <1>1, <2>1 DEF FilesInv, Covered
  <2>5. QED  BY <2>1, <2>3, <2>4
<1>2. QED  BY <1>1, FilesAlways, PTL DEF Spec, ListMatchesSite

\* A file is on the list twice only if vacuum.yaml protects a release that is among
\* the newest anyway, or if the job publishes again what is there already; three
\* times only if both hold of the job's own release.
THEOREM TwiceOnly == Spec => TwiceOnlyProtected
<1>1. ASSUME FilesInv, [Next]_vars, sums' # sums, NEW f \in Files
      PROVE  LET n == Cardinality(Named(sums', f))
             IN  /\ n > 2 => f[1] \in {job} \cap Protected
                 /\ n > 1 => f[1] \in {job} \cup (Protected \cap Newest(Found \ {job}))
  <2>1. sums' = lines /\ Sending /\ toRead = {}
    BY <1>1, OnlyUploads
  <2>2. lines \in Seq(NamedLine)
    BY <1>1 DEF FilesInv, ListsNamed
  <2>3. Cardinality(Named(lines, f)) \in Nat /\ Times(f) = Cardinality(Named(lines, f))
    <3>1. Left(f) = {} /\ Cardinality({}) = 0
      BY <2>1, FS_EmptySet DEF Left
    <3>2. Times(f) = Cardinality(Named(lines, f)) + 0
      BY <3>1 DEF Times
    <3>3. QED  BY <2>2, <3>2, NamedFinite
  <2>4. /\ f[1] \notin {job} \cup (Protected \cap Newest(Found \ {job})) => Times(f) <= 1
        /\ f[1] # job => Times(f) <= 2
        /\ f[1] = job => Times(f) <= (IF job \in Protected THEN 2 ELSE 1) + (IF Sending THEN 1 ELSE 0)
    BY <1>1 DEF FilesInv, Counted
  <2>5. f[1] = job /\ job \notin Protected => Times(f) <= 2
    BY <2>1, <2>3, <2>4
  <2>6. QED  BY <2>1, <2>3, <2>4, <2>5
<1>2. ASSUME FilesInv, [Next]_vars, sums' # sums
      PROVE  \A f \in Files :
               LET n == Cardinality(Named(sums', f))
               IN  /\ n > 2 => f[1] \in {job} \cap Protected
                   /\ n > 1 => f[1] \in {job} \cup (Protected \cap Newest(Found \ {job}))
  BY <1>1, <1>2
<1>3. QED  BY <1>2, FilesAlways, PTL DEF Spec, TwiceOnlyProtected

===============================================================================
