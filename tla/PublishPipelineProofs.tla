------------------------ MODULE PublishPipelineProofs ------------------------
(***************************************************************************)
(* PublishPipeline for any pipelines, any history of releases, any number   *)
(* of releases kept and any number of failures.                             *)
(***************************************************************************)
EXTENDS PublishPipeline, FiniteSetTheorems, WellFoundedInduction, TLAPS

Trees == [Versions -> SUBSET Kinds]
LocalLists == [Lists -> SUBSET Entries]

\* A list names artifacts of releases.
LEMMA ListingType ==
    ASSUME NEW tree \in Trees, NEW R \in SUBSET Versions, NEW D
    PROVE  Listing(tree, R, D) \in SUBSET Entries
BY DEF Listing, Entries

\* What is found, deleted and kept are releases.
LEMMA FoundType ==
    ASSUME NEW tree, NEW D
    PROVE  /\ Found(tree, D) \in SUBSET Versions
           /\ Remaining(tree, D) \in SUBSET Versions
           /\ ToDelete(Found(tree, D)) \in SUBSET Versions
BY DEF Found, Remaining, ToDelete

\* Deleting leaves a tree.
LEMMA PurgeType ==
    ASSUME NEW tree \in Trees, NEW doomed, NEW D, NEW stuck
    PROVE  Purge(tree, doomed, D, stuck) \in Trees
BY DEF Purge, Trees

\* The failing deletions are finitely many, so that they can be counted.
LEMMA DoomedFinite ==
    ASSUME NEW tree \in Trees, NEW D, NEW stuck \in SUBSET Doomed(tree, D)
    PROVE  Cardinality(stuck) \in Nat
<1>1. IsFiniteSet(Versions)
  BY PublishAssumption, FS_Union DEF Versions
<1>2. IsFiniteSet(Kinds)
  <2>1. /\ IsFiniteSet({"iso"}) /\ IsFiniteSet({"efi"}) /\ IsFiniteSet({"caibx"})
        /\ IsFiniteSet({"erofs"}) /\ IsFiniteSet({"index"})
    BY FS_Singleton
  <2>2. Kinds = {"iso"} \cup ({"efi"} \cup ({"caibx"} \cup ({"erofs"} \cup {"index"})))
    BY DEF Kinds
  <2>3. QED  BY <2>1, <2>2, FS_Union
<1>3. IsFiniteSet(Versions \X Kinds)
  BY <1>1, <1>2, FS_Product
<1>4. Doomed(tree, D) \subseteq Versions \X Kinds
  BY DEF Doomed, ToDelete, Found
<1>5. IsFiniteSet(stuck)
  BY <1>3, <1>4, FS_Subset
<1>6. QED  BY <1>5, FS_CardinalityType

-----------------------------------------------------------------------------
(* Type correctness.                                                        *)

LEMMA TypeInit == Init => TypeOK
BY PublishAssumption
   DEF Init, TypeOK, Kinds, Versions, Entries, Lists, Listing, NoLists, JobSteps, ChannelFiles

\* A job that ends leaves well-typed variables.
LEMMA EndType ==
    ASSUME TypeOK, NEW v \in Versions, NEW result \in {"failed", "ok"}, End(v, result)
    PROVE  /\ job' \in [Versions -> JobSteps]
           /\ outcome' \in [Versions -> {"unbuilt", "staged", "failed", "ok"}]
           /\ art' \in [Versions -> SUBSET Kinds]
           /\ lists' \in [Versions -> LocalLists]
           /\ pending' \in [Versions -> SUBSET ChannelFiles]
BY DEF TypeOK, End, NoLists, LocalLists, JobSteps

\* So does an upload.
LEMMA UploadType ==
    ASSUME TypeOK, NEW v \in Versions, NEW l \in Lists, UploadSums(v, l) \/ UploadSig(v, l)
    PROVE  sums' \in [Lists -> SUBSET Entries] /\ sig' \in [Lists -> SUBSET Entries]
<1>1. lists[v][l] \in SUBSET Entries
  BY DEF TypeOK
<1>2. CASE UploadSums(v, l)
  BY <1>1, <1>2 DEF TypeOK, UploadSums
<1>3. CASE UploadSig(v, l)
  BY <1>1, <1>3 DEF TypeOK, UploadSig
<1>4. QED  BY <1>2, <1>3

LEMMA TypeStep == TypeOK /\ [Next]_vars => TypeOK'
<1> USE PublishAssumption DEF Goto, LocalLists, JobSteps
<1> SUFFICES ASSUME TypeOK, Next PROVE TypeOK'
  BY DEF vars, sites, published, local, TypeOK
<1> PICK v \in Versions : Stage(v) \/ Start(v) \/ Step(v) \/ Die(v)
  BY DEF Next
<1>1. CASE Stage(v)
  BY <1>1 DEF Stage, TypeOK, sites, published, local
<1>2. CASE Start(v)
  <2>1. CASE staging[v] = {}
    BY <1>2, <2>1, EndType DEF Start, TypeOK, sites, published
  <2>2. CASE staging[v] # {}
    BY <1>2, <2>2 DEF Start, TypeOK, sites, published
  <2>3. QED  BY <2>1, <2>2
<1>3. CASE Die(v)
  BY <1>3, EndType DEF Die, TypeOK, sites, published
<1>4. CASE FilesVacuum(v)
  <2>1. PICK stuck \in SUBSET Doomed(files, Dirs) :
          /\ files' = Purge(files, ToDelete(Found(files, Dirs)), Dirs, stuck)
          /\ MayStick(stuck)
    BY <1>4 DEF FilesVacuum
  <2>2. files' \in [Versions -> SUBSET Kinds]
    BY <2>1, PurgeType DEF TypeOK, Trees
  <2>3. faults' \in 0 .. MaxFaults
    <3>1. Cardinality(stuck) \in Nat
      <4>1. files \in Trees  BY DEF TypeOK, Trees
      <4>2. QED  BY <4>1, DoomedFinite
    <3>2. QED  BY <2>1, <3>1 DEF TypeOK, MayStick
  <2>4. lists' \in [Versions -> LocalLists]
    <3>1. Listing(files, Remaining(files, Dirs), Dirs) \in SUBSET Entries
      BY ListingType, FoundType DEF TypeOK, Trees
    <3>2. QED  BY <1>4, <3>1 DEF FilesVacuum, TypeOK, Lists
  <2>5. QED  BY <1>4, <2>2, <2>3, <2>4 DEF FilesVacuum, TypeOK, published
<1>5. ASSUME NEW D, NEW list, NEW next \in {"vacuumImages", "prune"},
             S3Vacuum(v, D, list, next)
      PROVE  TypeOK'
  <2>1. PICK stuck \in SUBSET Doomed(live, D) :
          /\ live' = Purge(live, ToDelete(Found(live, D)), D, stuck)
          /\ MayStick(stuck)
    BY <1>5 DEF S3Vacuum
  <2>2. live' \in [Versions -> SUBSET Kinds]
    BY <2>1, PurgeType DEF TypeOK, Trees
  <2>3. faults' \in 0 .. MaxFaults
    <3>1. Cardinality(stuck) \in Nat
      <4>1. live \in Trees  BY DEF TypeOK, Trees
      <4>2. QED  BY <4>1, DoomedFinite
    <3>2. QED  BY <2>1, <3>1 DEF TypeOK, MayStick
  <2>4. lists' \in [Versions -> LocalLists]
    <3>1. Listing(live, Remaining(live, D), D) \in SUBSET Entries
      BY ListingType, FoundType DEF TypeOK, Trees
    <3>2. QED  BY <1>5, <3>1 DEF S3Vacuum, TypeOK
  <2>5. QED  BY <1>5, <2>2, <2>3, <2>4 DEF S3Vacuum, TypeOK, published
<1>6. CASE VacuumSysupdate(v)
  BY <1>5, <1>6 DEF VacuumSysupdate
<1>7. CASE VacuumImages(v)
  BY <1>5, <1>7 DEF VacuumImages
<1>8. CASE Prune(v)
  <2>1. CASE Cardinality(Indexed) > 1
    BY <1>8, <2>1 DEF Prune, TypeOK, published, local
  <2>2. CASE ~(Cardinality(Indexed) > 1)
    BY <1>8, <2>2, EndType DEF Prune, TypeOK, published, local
  <2>3. QED  BY <2>1, <2>2
<1>9. CASE FilesAppend(v)
  <2>1. lists' \in [Versions -> LocalLists]
    <3>1. lists[v]["filesSysupdate"] \cup ({v} \X {"efi", "erofs", "caibx"}) \in SUBSET Entries
      BY DEF TypeOK, Lists, Entries, Kinds
    <3>2. QED  BY <1>9, <3>1 DEF FilesAppend, TypeOK, Lists
  <2>2. QED  BY <1>9, <2>1 DEF FilesAppend, TypeOK, sites, published
<1>10. CASE FilesIncomplete(v)
  BY <1>10, EndType DEF FilesIncomplete, TypeOK, sites, published
<1>11. CASE FilesUpload(v)
  <2>1. files' \in [Versions -> SUBSET Kinds]
    <3>1. CASE UNCHANGED files
      BY <3>1 DEF TypeOK
    <3>2. ASSUME NEW k \in Kinds, files' = [files EXCEPT ![v] = @ \cup {k}]
          PROVE  files' \in [Versions -> SUBSET Kinds]
      BY <3>2 DEF TypeOK
    <3>3. QED  BY <1>11, <3>1, <3>2 DEF FilesUpload
  <2>2. job' \in [Versions -> JobSteps]
    <3>1. job' = job \/ job' = [job EXCEPT ![v] = "chop"]
      BY <1>11 DEF FilesUpload
    <3>2. job \in [Versions -> JobSteps] /\ "chop" \in JobSteps
      BY DEF TypeOK
    <3> HIDE DEF JobSteps
    <3>3. QED  BY <3>1, <3>2
  <2>3. QED  BY <1>11, <2>1, <2>2 DEF FilesUpload, TypeOK, published, local
<1>12. CASE Chop(v)
  BY <1>12 DEF Chop, TypeOK, published, local
<1>13. CASE Copy(v)
  BY <1>13 DEF Copy, TypeOK, published, local
<1>14. CASE Remove(v)
  BY <1>14 DEF Remove, TypeOK, sites, published, local
<1>15. CASE Moved(v)
  BY <1>15 DEF Moved, TypeOK, sites, published, local
<1>16. CASE FilesSums(v)
  <2>1. sums' \in [Lists -> SUBSET Entries] /\ sig' \in [Lists -> SUBSET Entries]
    BY <1>16, UploadType DEF FilesSums, Lists
  <2>2. QED  BY <1>16, <2>1 DEF FilesSums, TypeOK, sites, local
<1>17. CASE RootSums(v)
  <2>1. sums' \in [Lists -> SUBSET Entries] /\ sig' \in [Lists -> SUBSET Entries]
    BY <1>17, UploadType DEF RootSums, Lists
  <2>2. QED  BY <1>17, <2>1 DEF RootSums, TypeOK, sites
<1>18. CASE UploadChannel(v)
  <2>1. PICK f \in pending[v] :
          /\ IF f[1] = "sums" THEN UploadSums(v, f[2]) ELSE UploadSig(v, f[2])
          /\ pending' = [pending EXCEPT ![v] = @ \ {f}]
    BY <1>18 DEF UploadChannel
  <2>2. f[2] \in Lists
    BY <2>1 DEF TypeOK, ChannelFiles, Lists
  <2>3. sums' \in [Lists -> SUBSET Entries] /\ sig' \in [Lists -> SUBSET Entries]
    BY <2>1, <2>2, UploadType
  <2>4. QED  BY <1>18, <2>1, <2>3 DEF UploadChannel, TypeOK, sites
<1>19. CASE Succeed(v)
  BY <1>19, EndType DEF Succeed, TypeOK, sites, published
<1>20. QED
  BY <1>1, <1>2, <1>3, <1>4, <1>6, <1>7, <1>8, <1>9, <1>10, <1>11, <1>12, <1>13, <1>14,
     <1>15, <1>16, <1>17, <1>18, <1>19 DEF Step

\* The variables keep their types, whatever is published, fails or is retried.
THEOREM TypeCorrect == Spec => []TypeOK
BY TypeInit, TypeStep, PTL DEF Spec

-----------------------------------------------------------------------------
(* The chunk store.                                                         *)

\* One job at a time, of a release that is built; from the end of the chopping to the last move its chunks
\* are stored, since only a job prunes; an artifact is copied before its source
\* is removed; and the indexes in the channel have their chunks.
OneJob == \A v, w \in Versions : job[v] # "idle" /\ job[w] # "idle" => v = w

Chopped ==
    \A v \in Versions : job[v] \in {"filesSums", "filesSig", "copy", "remove"} => v \in store

Copied ==
    \A v \in Versions : job[v] = "remove" =>
      \A k \in Kinds : First(k, MoveRank, staging[v]) => k \in live[v]

Built == \A v \in Versions : job[v] # "idle" => outcome[v] # "unbuilt"

StoreInv == OneJob /\ Built /\ Chopped /\ Copied /\ Indexed \subseteq store

LEMMA StoreInit == Init => StoreInv
BY DEF Init, StoreInv, OneJob, Built, Chopped, Copied, Indexed, Kinds

\* Two artifacts do not come first.
LEMMA FirstUnique ==
    ASSUME NEW S \in SUBSET Kinds, NEW j \in Kinds, NEW k \in Kinds,
           First(j, MoveRank, S), First(k, MoveRank, S)
    PROVE  j = k
<1>1. /\ MoveRank["iso"] = 1 /\ MoveRank["efi"] = 2 /\ MoveRank["caibx"] = 3
      /\ MoveRank["erofs"] = 4 /\ MoveRank["index"] = 5
  BY DEF MoveRank
<1>2. MoveRank[j] <= MoveRank[k] /\ MoveRank[k] <= MoveRank[j]
  BY DEF First
<1>3. QED  BY <1>1, <1>2 DEF Kinds

\* A vacuum adds nothing to a tree.
LEMMA PurgeShrinks ==
    ASSUME NEW tree \in Trees, NEW doomed, NEW D, NEW stuck, NEW v \in Versions
    PROVE  Purge(tree, doomed, D, stuck)[v] \subseteq tree[v]
BY DEF Purge, Trees

\* While a job takes a step, the others are idle and stay so: what the invariant
\* says of jobs is to be shown for this one.
LEMMA OwnStep ==
    ASSUME TypeOK, StoreInv, NEW v \in Versions, job[v] # "idle",
           \A w \in Versions \ {v} : job'[w] = job[w],
           outcome'[v] # "unbuilt",
           job'[v] \in {"filesSums", "filesSig", "copy", "remove"} => v \in store',
           job'[v] = "remove" =>
             \A k \in Kinds : First(k, MoveRank, staging'[v]) => k \in live'[v]
    PROVE  OneJob' /\ Built' /\ Chopped' /\ Copied'
<1>1. \A w \in Versions \ {v} : job'[w] = "idle"
  BY DEF StoreInv, OneJob
<1>2. QED  BY <1>1 DEF OneJob, Built, Chopped, Copied

LEMMA StoreStep == TypeOK /\ StoreInv /\ [Next]_vars => StoreInv'
<1> USE DEF Goto
<1> SUFFICES ASSUME TypeOK, StoreInv, Next PROVE StoreInv'
  BY DEF vars, sites, published, local, StoreInv, OneJob, Built, Chopped, Copied, Indexed, First
<1> PICK v \in Versions : Stage(v) \/ Start(v) \/ Step(v) \/ Die(v)
  BY DEF Next
<1>1. CASE Stage(v)
  BY <1>1 DEF Stage, StoreInv, sites, local, OneJob, Built, Chopped, Copied, Indexed, TypeOK
<1>2. CASE Start(v)
  <2>1. /\ OneJob' /\ Chopped' /\ Copied'
    BY <1>2 DEF Start, End, sites, OneJob, Chopped, Copied, StoreInv, TypeOK
  <2>2. Built'
    BY <1>2 DEF Start, End, Built, StoreInv, TypeOK
  <2>3. QED  BY <1>2, <2>1, <2>2 DEF Start, sites, StoreInv, Indexed
<1>3. ASSUME NEW result \in {"failed", "ok"}, job[v] # "idle", End(v, result),
             UNCHANGED <<staging, sites>>
      PROVE  StoreInv'
  BY <1>3, OwnStep DEF End, sites, StoreInv, Indexed, TypeOK
<1>4. CASE Die(v)
  BY <1>3, <1>4 DEF Die
<1>5. ASSUME job[v] # "idle", NEW next \in JobSteps, Goto(v, next),
             UNCHANGED <<staging, sites, outcome>>,
             next \in {"filesSums", "filesSig", "copy", "remove"} => v \in store,
             next # "remove"
      PROVE  StoreInv'
  BY <1>5, OwnStep DEF sites, StoreInv, Built, Indexed, TypeOK
<1>6. CASE FilesVacuum(v)
  BY <1>6, OwnStep DEF FilesVacuum, StoreInv, Built, Indexed, TypeOK
<1>7. CASE FilesAppend(v)
  BY <1>5, <1>7 DEF FilesAppend, JobSteps
<1>8. CASE FilesIncomplete(v)
  BY <1>3, <1>8 DEF FilesIncomplete
<1>9. CASE FilesUpload(v)
  BY <1>9, OwnStep DEF FilesUpload, StoreInv, Built, Indexed, TypeOK
<1>10. CASE Chop(v)
  BY <1>10, OwnStep DEF Chop, StoreInv, Built, Indexed, TypeOK
<1>11. CASE FilesSums(v)
  BY <1>5, <1>11 DEF FilesSums, JobSteps, StoreInv, Chopped
<1>12. CASE Copy(v)
  <2>1. PICK k \in Kinds : First(k, MoveRank, staging[v]) /\ live' = [live EXCEPT ![v] = @ \cup {k}]
    BY <1>12 DEF Copy
  <2>2. v \in store
    BY <1>12 DEF Copy, StoreInv, Chopped
  <2>3. \A j \in Kinds : First(j, MoveRank, staging[v]) => j \in live'[v]
    BY <2>1, FirstUnique DEF TypeOK
  <2>4. OneJob' /\ Built' /\ Chopped' /\ Copied'
    BY <1>12, <2>2, <2>3, OwnStep DEF Copy, StoreInv, Built, TypeOK
  <2>5. Indexed' \subseteq store'
    BY <1>12, <2>1, <2>2 DEF Copy, StoreInv, Indexed, TypeOK
  <2>6. QED  BY <2>4, <2>5 DEF StoreInv
<1>13. CASE Remove(v)
  <2>1. v \in store
    BY <1>13 DEF Remove, StoreInv, Chopped
  <2>2. QED  BY <1>13, <2>1, OwnStep DEF Remove, sites, StoreInv, Built, Indexed, TypeOK
<1>14. CASE Moved(v)
  BY <1>5, <1>14 DEF Moved, JobSteps
<1>15. ASSUME NEW D, NEW list, NEW next \in {"vacuumImages", "prune"}, job[v] # "idle",
              S3Vacuum(v, D, list, next)
       PROVE  StoreInv'
  <2>1. \A w \in Versions : live'[w] \subseteq live[w]
    BY <1>15, PurgeShrinks DEF S3Vacuum, TypeOK, Trees
  <2>2. Indexed' \subseteq Indexed
    BY <2>1 DEF Indexed
  <2>3. OneJob' /\ Built' /\ Chopped' /\ Copied'
    BY <1>15, OwnStep DEF S3Vacuum, StoreInv, Built, TypeOK
  <2>4. QED  BY <1>15, <2>2, <2>3 DEF S3Vacuum, StoreInv
<1>16. CASE VacuumSysupdate(v)
  BY <1>15, <1>16 DEF VacuumSysupdate
<1>17. CASE VacuumImages(v)
  BY <1>15, <1>17 DEF VacuumImages
<1>18. CASE Prune(v)
  <2>1. CASE Cardinality(Indexed) > 1
    <3>1. OneJob' /\ Built' /\ Chopped' /\ Copied'
      BY <1>18, <2>1, OwnStep DEF Prune, StoreInv, Built, TypeOK
    <3>2. Indexed' \subseteq store'
      BY <1>18, <2>1 DEF Prune, StoreInv, Indexed
    <3>3. QED  BY <3>1, <3>2 DEF StoreInv
  <2>2. CASE ~(Cardinality(Indexed) > 1)
    BY <1>3, <1>18, <2>2 DEF Prune, sites
  <2>3. QED  BY <2>1, <2>2
<1>19. CASE RootSums(v)
  BY <1>5, <1>19 DEF RootSums, JobSteps
<1>20. CASE UploadChannel(v)
  BY <1>20, OwnStep DEF UploadChannel, sites, StoreInv, Built, Indexed, TypeOK
<1>21. CASE Succeed(v)
  BY <1>3, <1>21 DEF Succeed
<1>22. QED
  BY <1>1, <1>2, <1>4, <1>6, <1>7, <1>8, <1>9, <1>10, <1>11, <1>12, <1>13, <1>14, <1>16,
     <1>17, <1>18, <1>19, <1>20, <1>21 DEF Step

-----------------------------------------------------------------------------
(* What is proved of the store and of the artifacts.                        *)

Inv == TypeOK /\ StoreInv

LEMMA Invariance == Spec => []Inv
<1>1. Init => Inv
  BY TypeInit, StoreInit DEF Inv
<1>2. Inv /\ [Next]_vars => Inv'
  BY TypeStep, StoreStep DEF Inv
<1>3. QED  BY <1>1, <1>2, PTL DEF Spec

\* Each step is a step of the store, or leaves it alone.
LEMMA StoreMapsTo == Inv /\ [Next]_vars => [AbstractStore!Next]_<<store, Indexed>>
<1> USE DEF Inv, Goto
<1> SUFFICES ASSUME Inv, Next PROVE [AbstractStore!Next]_<<store, Indexed>>
  BY DEF vars, sites, Indexed
<1> PICK v \in Versions : Stage(v) \/ Start(v) \/ Step(v) \/ Die(v)
  BY DEF Next
<1>1. ASSUME UNCHANGED sites PROVE UNCHANGED <<store, Indexed>>
  BY <1>1 DEF sites, Indexed
<1>2. CASE Chop(v)
  <2>1. AbstractStore!Add(v)
    BY <1>2 DEF Chop, AbstractStore!Add, Indexed
  <2>2. QED  BY <2>1 DEF AbstractStore!Next
<1>3. CASE Copy(v)
  <2>1. PICK k \in Kinds : live' = [live EXCEPT ![v] = @ \cup {k}]
    BY <1>3 DEF Copy
  <2>2. v \in store /\ store' = store
    BY <1>3 DEF Copy, StoreInv, Chopped
  <2>3. CASE k = "index"
    <3>1. Indexed' = Indexed \cup {v}
      BY <2>1, <2>3 DEF Indexed, TypeOK
    <3>2. AbstractStore!Reference(v)
      BY <2>2, <3>1 DEF AbstractStore!Reference
    <3>3. QED  BY <3>2 DEF AbstractStore!Next
  <2>4. CASE k # "index"
    BY <2>1, <2>2, <2>4 DEF Indexed, TypeOK
  <2>5. QED  BY <2>3, <2>4
<1>4. ASSUME NEW D, NEW list, NEW next, S3Vacuum(v, D, list, next)
      PROVE  AbstractStore!Next
  <2>1. \A w \in Versions : live'[w] \subseteq live[w]
    BY <1>4, PurgeShrinks DEF S3Vacuum, TypeOK, Trees
  <2>2. Indexed' \subseteq Indexed /\ store' = store
    BY <1>4, <2>1 DEF Indexed, S3Vacuum
  <2>3. AbstractStore!Unreference
    BY <2>2 DEF AbstractStore!Unreference
  <2>4. QED  BY <2>3 DEF AbstractStore!Next
<1>5. CASE Prune(v)
  <2>1. UNCHANGED live
    BY <1>5 DEF Prune
  <2>2. Indexed' = Indexed
    BY <2>1 DEF Indexed
  <2>3. CASE Cardinality(Indexed) > 1
    <3>1. AbstractStore!Collect
      BY <1>5, <2>2, <2>3 DEF Prune, StoreInv, AbstractStore!Collect
    <3>2. QED  BY <3>1 DEF AbstractStore!Next
  <2>4. CASE ~(Cardinality(Indexed) > 1)
    BY <1>5, <2>2, <2>4 DEF Prune
  <2>5. QED  BY <2>3, <2>4
<1>6. CASE VacuumSysupdate(v) \/ VacuumImages(v)
  BY <1>4, <1>6 DEF VacuumSysupdate, VacuumImages
<1>7. CASE FilesVacuum(v) \/ FilesUpload(v)
  BY <1>7 DEF FilesVacuum, FilesUpload, Indexed
<1>8. CASE \/ Stage(v) \/ Start(v) \/ Die(v) \/ FilesAppend(v) \/ FilesIncomplete(v)
           \/ FilesSums(v) \/ Remove(v) \/ Moved(v) \/ RootSums(v) \/ UploadChannel(v)
           \/ Succeed(v)
  BY <1>1, <1>8 DEF Stage, Start, Die, FilesAppend, FilesIncomplete, FilesSums, Remove, Moved,
                    RootSums, UploadChannel, Succeed
<1>9. QED  BY <1>2, <1>3, <1>5, <1>6, <1>7, <1>8 DEF Step

\* Publishing keeps the promise of the chunk store, for any pipelines, histories
\* and failures: no index without its chunks, no chunk pruned under an index.
THEOREM StoreRefinement == Spec => ImplementsChunkStore
<1>1. Init => AbstractStore!Init
  BY DEF Init, AbstractStore!Init, Indexed, Kinds, Versions
<1>2. QED
  BY <1>1, Invariance, StoreMapsTo, PTL DEF Spec, ImplementsChunkStore, AbstractStore!Spec

-----------------------------------------------------------------------------

\* What a vacuum removes is outdated.
LEMMA PurgedIsOutdated ==
    ASSUME NEW tree \in Trees, NEW D, NEW stuck, NEW v \in Versions, NEW k \in tree[v],
           k \notin Purge(tree, ToDelete(Found(tree, D)), D, stuck)[v]
    PROVE  DirOf(k) \in D /\ Outdated(v, tree, D)
<1>1. v \in ToDelete(Found(tree, D)) /\ DirOf(k) \in D
  BY DEF Purge, Trees
<1> DEFINE Newer == {w \in Found(tree, D) : w > v}
<1>2. ~(Cardinality(Newer) < Keep) /\ v \notin Protected
  BY <1>1 DEF ToDelete, Newest
<1>3. Cardinality(Newer) \in Nat
  <2>1. IsFiniteSet(Versions)
    BY PublishAssumption, FS_Union DEF Versions
  <2>2. Newer \subseteq Versions
    BY DEF Found
  <2>3. QED  BY <2>1, <2>2, FS_Subset, FS_CardinalityType
<1>4. Keep <= Cardinality(Newer)
  BY <1>2, <1>3, PublishAssumption
<1>5. QED  BY <1>1, <1>2, <1>4 DEF Outdated

OutdatedOnly ==
    \A v \in Versions : \A k \in Kinds :
      /\ k \in (staging[v] \cup live[v]) \ (staging'[v] \cup live'[v])
           => Outdated(v, live, {DirOf(k)})
      /\ k \in files[v] \ files'[v] => Outdated(v, files, Dirs)

LEMMA OutdatedStep == Inv /\ Next => OutdatedOnly
<1> USE DEF Inv
<1> SUFFICES ASSUME Inv, Next PROVE OutdatedOnly
  OBVIOUS
<1> PICK v \in Versions : Stage(v) \/ Start(v) \/ Step(v) \/ Die(v)
  BY DEF Next
<1>1. ASSUME UNCHANGED files, \A w \in Versions : staging[w] \cup live[w] \subseteq staging'[w] \cup live'[w]
      PROVE  OutdatedOnly
  BY <1>1 DEF OutdatedOnly
<1>2. CASE Stage(v)
  BY <1>1, <1>2 DEF Stage, sites, TypeOK
<1>3. CASE Copy(v)
  BY <1>1, <1>3 DEF Copy, TypeOK
<1>4. CASE Remove(v)
  <2>1. PICK k \in Kinds : First(k, MoveRank, staging[v]) /\ staging' = [staging EXCEPT ![v] = @ \ {k}]
    BY <1>4 DEF Remove
  <2>2. k \in live[v]
    BY <1>4, <2>1 DEF Remove, StoreInv, Copied
  <2>3. QED  BY <1>1, <1>4, <2>1, <2>2 DEF Remove, sites, TypeOK
<1>5. CASE FilesVacuum(v)
  <2>1. PICK stuck : files' = Purge(files, ToDelete(Found(files, Dirs)), Dirs, stuck)
    BY <1>5 DEF FilesVacuum
  <2>2. files \in Trees
    BY DEF TypeOK, Trees
  <2>3. ASSUME NEW w \in Versions, NEW k \in files[w] \ files'[w]
        PROVE  Outdated(w, files, Dirs)
    BY <2>1, <2>2, <2>3, PurgedIsOutdated
  <2>4. QED  BY <1>5, <2>3 DEF FilesVacuum, OutdatedOnly
<1>6. ASSUME NEW d \in Dirs, NEW list, NEW next, S3Vacuum(v, {d}, list, next)
      PROVE  OutdatedOnly
  <2>1. PICK stuck : live' = Purge(live, ToDelete(Found(live, {d})), {d}, stuck)
    BY <1>6 DEF S3Vacuum
  <2>2. live \in Trees
    BY DEF TypeOK, Trees
  <2>3. ASSUME NEW w \in Versions, NEW k \in live[w] \ live'[w]
        PROVE  Outdated(w, live, {DirOf(k)})
    <3>1. DirOf(k) \in {d} /\ Outdated(w, live, {d})
      BY <2>1, <2>2, <2>3, PurgedIsOutdated
    <3>2. QED  BY <3>1
  <2>4. QED  BY <1>6, <2>3 DEF S3Vacuum, OutdatedOnly
<1>7. CASE VacuumSysupdate(v) \/ VacuumImages(v)
  BY <1>6, <1>7 DEF VacuumSysupdate, VacuumImages, Dirs
<1>8. CASE FilesUpload(v)
  BY <1>8 DEF FilesUpload, OutdatedOnly, TypeOK
<1>9. CASE \/ Start(v) \/ Die(v) \/ FilesAppend(v) \/ FilesIncomplete(v) \/ FilesSums(v)
           \/ Moved(v) \/ RootSums(v) \/ UploadChannel(v) \/ Succeed(v) \/ Chop(v) \/ Prune(v)
  BY <1>1, <1>9 DEF Start, Die, FilesAppend, FilesIncomplete, FilesSums, Moved, RootSums,
                    UploadChannel, Succeed, Chop, Prune, sites
<1>10. QED  BY <1>2, <1>3, <1>4, <1>5, <1>7, <1>8, <1>9 DEF Step

\* No artifact is lost on its way to the channel, and none leaves a site before
\* its release is outdated, whatever the order in which pipelines publish.
THEOREM OnlyOutdated == Spec => OnlyOutdatedGoes
<1>1. Inv /\ [Next]_vars => [OutdatedOnly]_vars
  BY OutdatedStep
<1>2. QED
  BY <1>1, Invariance, PTL DEF Spec, OnlyOutdatedGoes, OutdatedOnly

-----------------------------------------------------------------------------
(* What a finished job has advertised.                                      *)

Superseded(v, D) == Keep <= Cardinality({w \in Found(live, D) : w > v})

\* An artifact that was built is staged or in the channel, or was too old for it.
Accounted ==
    \A v \in Versions : outcome[v] # "unbuilt" =>
      \A k \in Kinds : k \in staging[v] \cup live[v] \/ Superseded(v, {DirOf(k)})

\* A list of a job names what is there, and its own release if it is not too old.
Names(v, l, D) ==
    /\ \A e \in lists[v][l] : e[2] \in live[e[1]] /\ DirOf(e[2]) \in D
    /\ \A k \in Kinds \ {"index"} :
         DirOf(k) \in D => <<v, k>> \in lists[v][l] \/ Superseded(v, D)

AfterImages == {"prune", "rootSums", "rootSig", "channel"}

Ready(v) ==
    /\ job[v] \in {"vacuum", "vacuumImages"} => staging[v] = {}
    /\ job[v] \in {"vacuumImages"} \cup AfterImages => Names(v, "s3Sysupdate", {"sysupdate"})
    /\ job[v] \in AfterImages => Names(v, "s3Images", {"images"})
    /\ job[v] = "channel" => \A l \in {"s3Sysupdate", "s3Images"} :
         /\ <<"sums", l>> \in pending[v] \/ sums[l] = lists[v][l]
         /\ <<"sig", l>> \in pending[v] \/ sig[l] = lists[v][l]

ListsReady == \A v \in Versions : Ready(v)

LEMMA VersionsFinite ==
    ASSUME NEW S \in SUBSET Versions
    PROVE  IsFiniteSet(S) /\ Cardinality(S) \in Nat
<1>1. IsFiniteSet(Versions)
  BY PublishAssumption, FS_Union DEF Versions
<1>2. QED  BY <1>1, FS_Subset, FS_CardinalityType

\* The newest suffice: of the releases above v, as many as are kept stay.
LEMMA KeptAreEnough ==
    ASSUME NEW R \in SUBSET Versions, NEW v \in Versions,
           Keep <= Cardinality({w \in R : w > v})
    PROVE  Keep <= Cardinality({w \in Newest(R) : w > v})
<1> DEFINE Above(x) == {w \in R : w > x}
           Kept == {w \in Newest(R) : w > v}
           Others == Above(v) \ Kept
           Counts == {Cardinality(Above(x)) : x \in Others}
<1>1. /\ \A x \in Versions : x \in Nat
      /\ Keep \in Nat
  BY PublishAssumption DEF Versions
<1>2. /\ \A x : Above(x) \in SUBSET Versions /\ IsFiniteSet(Above(x)) /\ Cardinality(Above(x)) \in Nat
      /\ Kept \in SUBSET Above(v) /\ IsFiniteSet(Kept) /\ Cardinality(Kept) \in Nat
  <2>1. \A x : Above(x) \in SUBSET Versions
    OBVIOUS
  <2>2. Kept \in SUBSET Above(v)
    BY DEF Newest
  <2>3. QED  BY <2>1, <2>2, VersionsFinite
<1>3. SUFFICES ASSUME ~(Keep <= Cardinality(Kept)) PROVE FALSE
  OBVIOUS
<1>4. Others # {}
  BY <1>2, <1>3
<1>5. PICK m \in Others : \A x \in Others : ~(Cardinality(Above(x)) < Cardinality(Above(m)))
  <2>1. Counts \subseteq Nat /\ Counts # {}
    BY <1>2, <1>4
  <2> HIDE DEF Counts
  <2>2. PICK c \in Counts : \A y \in Counts : ~(<<y, c>> \in OpToRel(<, Nat))
    BY <2>1, WFMin, NatLessThanWellFounded
  <2>3. \A y \in Counts : ~(y < c)
    BY <2>1, <2>2 DEF OpToRel
  <2>4. QED  BY <2>3 DEF Counts
<1>6. Above(m) \subseteq Kept
  <2> SUFFICES ASSUME NEW x \in Above(m), x \notin Kept PROVE FALSE
    OBVIOUS
  <2>1. x \in Nat /\ m \in Nat /\ v \in Nat /\ m > v /\ x > m
    BY <1>1, <1>2
  <2>2. x \in Others
    BY <2>1
  <2>3. Above(x) \in SUBSET Above(m)
    <3>1. ASSUME NEW u \in R, u > x PROVE u > m
      BY <1>1, <2>1, <3>1
    <3>2. QED  BY <3>1
  <2>4. x \notin Above(x)
    BY <2>1
  <2>5. Cardinality(Above(x)) <= Cardinality(Above(m)) /\ Cardinality(Above(x)) # Cardinality(Above(m))
    <3> HIDE DEF Above
    <3>1. QED  BY <1>2, <2>3, <2>4, FS_Subset
  <2>6. QED
    <3> HIDE DEF Above, Others
    <3>1. QED  BY <1>2, <1>5, <2>2, <2>5
<1>7. Cardinality(Above(m)) <= Cardinality(Kept)
  <2> HIDE DEF Above, Kept
  <2>1. QED  BY <1>2, <1>6, FS_Subset
<1>8. Cardinality(Above(m)) < Keep
  <2> HIDE DEF Above, Kept
  <2>1. QED  BY <1>1, <1>2, <1>3, <1>7
<1>9. m \in Newest(R)
  BY <1>8 DEF Newest
<1>10. QED  BY <1>9

\* More releases supersede no less.
LEMMA SupersededMore ==
    ASSUME NEW v \in Versions, NEW D, Superseded(v, D),
           \A w \in Found(live, D) : w > v => w \in Found(live', D)
    PROVE  Superseded(v, D)'
<1> DEFINE Before == {w \in Found(live, D) : w > v}
           After == {w \in Found(live', D) : w > v}
<1>1. Before \in SUBSET After /\ Before \in SUBSET Versions /\ After \in SUBSET Versions
  BY DEF Found
<1>2. Cardinality(Before) <= Cardinality(After) /\ Cardinality(Before) \in Nat /\ Cardinality(After) \in Nat
  <2> HIDE DEF Before, After
  <2>1. QED  BY <1>1, VersionsFinite, FS_Subset
<1>3. Keep <= Cardinality(Before)
  BY DEF Superseded
<1>4. Keep <= Cardinality(After)
  <2> HIDE DEF Before, After
  <2>1. QED  BY <1>2, <1>3, PublishAssumption
<1>5. QED  BY <1>4 DEF Superseded

\* What a vacuum of one directory leaves.
LEMMA VacuumLeaves ==
    ASSUME NEW tree \in Trees, NEW d \in Dirs, NEW stuck, NEW w \in Versions, NEW k \in tree[w],
           w \notin ToDelete(Found(tree, {d})) \/ DirOf(k) # d
    PROVE  k \in Purge(tree, ToDelete(Found(tree, {d})), {d}, stuck)[w]
BY DEF Purge, Trees

\* A vacuum leaves enough newer releases of what it has superseded.
LEMMA SupersededStays ==
    ASSUME TypeOK, NEW d \in Dirs, NEW stuck,
           live' = Purge(live, ToDelete(Found(live, {d})), {d}, stuck),
           NEW v \in Versions, NEW e \in Dirs, Superseded(v, {e})
    PROVE  Superseded(v, {e})'
<1>1. live \in Trees
  BY DEF TypeOK, Trees
<1>2. CASE e # d
  <2>1. ASSUME NEW w \in Found(live, {e}) PROVE w \in Found(live', {e})
    <3>1. PICK k \in live[w] : DirOf(k) = e
      BY DEF Found
    <3>2. w \in Versions
      BY DEF Found
    <3>3. k \in live'[w]
      BY <1>1, <1>2, <3>1, <3>2, VacuumLeaves
    <3>4. QED  BY <3>1, <3>2, <3>3 DEF Found
  <2>2. QED  BY <2>1, SupersededMore
<1>3. CASE e = d
  <2> DEFINE R == Found(live, {d})
             Before == {w \in Newest(R) : w > v}
             After == {w \in Found(live', {d}) : w > v}
  <2>1. ASSUME NEW w \in Newest(R) PROVE w \in Found(live', {d})
    <3>1. w \in R /\ w \in Versions /\ w \notin ToDelete(R)
      BY DEF Newest, ToDelete, Found
    <3>2. PICK k \in live[w] : DirOf(k) = d
      BY <3>1 DEF Found
    <3>3. k \in live'[w]
      BY <1>1, <3>1, <3>2, VacuumLeaves
    <3>4. QED  BY <3>1, <3>2, <3>3 DEF Found
  <2>2. Before \in SUBSET After /\ Before \in SUBSET Versions /\ After \in SUBSET Versions
    BY <2>1 DEF Found
  <2>3. R \in SUBSET Versions /\ Keep <= Cardinality({w \in R : w > v})
    BY <1>3 DEF Found, Superseded
  <2>4. Keep <= Cardinality(Before)
    <3> HIDE DEF R
    <3>1. QED  BY <2>3, KeptAreEnough
  <2>5. Keep <= Cardinality(After)
    <3> HIDE DEF Before, After
    <3>1. Cardinality(Before) <= Cardinality(After) /\ Cardinality(Before) \in Nat
          /\ Cardinality(After) \in Nat
      BY <2>2, VersionsFinite, FS_Subset
    <3>2. QED  BY <2>4, <3>1, PublishAssumption
  <2>6. QED  BY <1>3, <2>5 DEF Superseded
<1>4. QED  BY <1>2, <1>3

\* What is too old for a vacuum is superseded.
LEMMA DeletedIsSuperseded ==
    ASSUME TypeOK, NEW v \in Versions, NEW d \in Dirs, v \in ToDelete(Found(live, {d}))
    PROVE  Superseded(v, {d})
<1> DEFINE Newer == {w \in Found(live, {d}) : w > v}
<1>1. ~(Cardinality(Newer) < Keep)
  BY DEF ToDelete, Newest
<1>2. Newer \in SUBSET Versions
  BY DEF Found
<1>3. Cardinality(Newer) \in Nat
  <2> HIDE DEF Newer
  <2>1. QED  BY <1>2, VersionsFinite
<1>4. Keep <= Cardinality(Newer)
  <2> HIDE DEF Newer
  <2>1. QED  BY <1>1, <1>3, PublishAssumption
<1>5. QED  BY <1>4 DEF Superseded

LEMMA AccountedInit == Init => Accounted
BY DEF Init, Accounted

LEMMA AccountedStep == Inv /\ Accounted /\ [Next]_vars => Accounted'
<1> USE DEF Inv
<1> SUFFICES ASSUME Inv, Accounted, Next PROVE Accounted'
  BY DEF vars, sites, Accounted, Superseded, Found
<1> PICK v \in Versions : Stage(v) \/ Start(v) \/ Step(v) \/ Die(v)
  BY DEF Next
<1>1. ASSUME \A w \in Versions : live[w] \subseteq live'[w],
             \A w \in Versions : staging[w] \cup live[w] \subseteq staging'[w] \cup live'[w],
             \A w \in Versions : outcome'[w] # "unbuilt" =>
               outcome[w] # "unbuilt" \/ staging'[w] = Kinds
      PROVE  Accounted'
  <2> SUFFICES ASSUME NEW w \in Versions, outcome'[w] # "unbuilt", NEW k \in Kinds,
                      k \notin staging'[w] \cup live'[w]
               PROVE  Superseded(w, {DirOf(k)})'
    BY DEF Accounted
  <2>1. outcome[w] # "unbuilt" /\ k \notin staging[w] \cup live[w]
    BY <1>1
  <2>2. Superseded(w, {DirOf(k)})
    BY <2>1 DEF Accounted
  <2>3. \A u \in Found(live, {DirOf(k)}) : u \in Found(live', {DirOf(k)})
    BY <1>1 DEF Found
  <2>4. QED  BY <2>2, <2>3, SupersededMore
<1>2. CASE Stage(v)
  BY <1>1, <1>2 DEF Stage, sites, TypeOK
<1>3. CASE Copy(v)
  BY <1>1, <1>3 DEF Copy, TypeOK
<1>4. CASE Remove(v)
  <2>1. PICK k \in Kinds : First(k, MoveRank, staging[v]) /\ staging' = [staging EXCEPT ![v] = @ \ {k}]
    BY <1>4 DEF Remove
  <2>2. k \in live[v]
    BY <1>4, <2>1 DEF Remove, StoreInv, Copied
  <2>3. QED  BY <1>1, <1>4, <2>1, <2>2 DEF Remove, sites, TypeOK
<1>5. ASSUME NEW d \in Dirs, NEW list, NEW next, S3Vacuum(v, {d}, list, next)
      PROVE  Accounted'
  <2>1. PICK stuck : live' = Purge(live, ToDelete(Found(live, {d})), {d}, stuck)
    BY <1>5 DEF S3Vacuum
  <2>2. live \in Trees /\ UNCHANGED <<staging, outcome>>
    BY <1>5 DEF TypeOK, Trees, S3Vacuum
  <2> SUFFICES ASSUME NEW w \in Versions, outcome[w] # "unbuilt", NEW k \in Kinds,
                      k \notin staging[w] \cup live'[w]
               PROVE  Superseded(w, {DirOf(k)})'
    BY <2>2 DEF Accounted
  <2>3. DirOf(k) \in Dirs
    BY DEF DirOf, Dirs
  <2>4. CASE k \in live[w]
    <3>1. w \in ToDelete(Found(live, {d})) /\ DirOf(k) = d
      BY <2>1, <2>2, <2>4, VacuumLeaves
    <3>2. Superseded(w, {DirOf(k)})
      BY <3>1, DeletedIsSuperseded
    <3>3. QED  BY <2>1, <2>3, <3>2, SupersededStays
  <2>5. CASE k \notin live[w]
    <3>1. Superseded(w, {DirOf(k)})
      BY <2>5 DEF Accounted
    <3>2. QED  BY <2>1, <2>3, <3>1, SupersededStays
  <2>6. QED  BY <2>4, <2>5
<1>6. CASE VacuumSysupdate(v) \/ VacuumImages(v)
  BY <1>5, <1>6 DEF VacuumSysupdate, VacuumImages, Dirs
<1>7. ASSUME UNCHANGED <<staging, live>>, NEW result, End(v, result), outcome[v] # "unbuilt"
      PROVE  Accounted'
  BY <1>1, <1>7 DEF End, TypeOK
<1>8. CASE Start(v)
  BY <1>1, <1>7, <1>8 DEF Start, sites
<1>9. CASE Die(v) \/ FilesIncomplete(v) \/ Succeed(v)
  BY <1>7, <1>9 DEF Die, FilesIncomplete, Succeed, sites, StoreInv, Built
<1>10. CASE Prune(v)
  BY <1>1, <1>7, <1>10 DEF Prune, StoreInv, Built
<1>11. CASE \/ FilesVacuum(v) \/ FilesUpload(v) \/ FilesAppend(v) \/ FilesSums(v)
            \/ Moved(v) \/ RootSums(v) \/ UploadChannel(v) \/ Chop(v)
  BY <1>1, <1>11 DEF FilesVacuum, FilesUpload, FilesAppend, FilesSums, Moved, RootSums,
                     UploadChannel, Chop, sites
<1>12. QED  BY <1>2, <1>3, <1>4, <1>6, <1>8, <1>9, <1>10, <1>11 DEF Step

\* The list a vacuum makes is one of what it leaves, with the release of its job.
LEMMA VacuumNames ==
    ASSUME Inv, Accounted, NEW v \in Versions, staging[v] = {}, outcome[v] # "unbuilt",
           NEW d \in Dirs, NEW list \in SUBSET Lists, NEW next, NEW l \in list,
           S3Vacuum(v, {d}, list, next)
    PROVE  Names(v, l, {d})'
<1> DEFINE D == {d}
<1>1. PICK stuck : live' = Purge(live, ToDelete(Found(live, {d})), {d}, stuck)
  BY DEF S3Vacuum
<1>2. TypeOK /\ live \in Trees
  BY DEF Inv, TypeOK, Trees
<1>3. lists'[v][l] = Listing(live, Remaining(live, {d}), {d})
  BY <1>2 DEF S3Vacuum, TypeOK
<1>4. ASSUME NEW e \in lists'[v][l] PROVE e[2] \in live'[e[1]] /\ DirOf(e[2]) \in {d}
  <2>1. e[1] \in Remaining(live, {d}) /\ e[2] \in live[e[1]] /\ DirOf(e[2]) \in {d}
    BY <1>3, <1>4 DEF Listing
  <2>2. e[1] \in Versions /\ e[1] \notin ToDelete(Found(live, {d}))
    BY <2>1 DEF Remaining, Found
  <2>3. e[2] \in live'[e[1]]
    BY <1>1, <1>2, <2>1, <2>2, VacuumLeaves
  <2>4. QED  BY <2>1, <2>3
<1>5. ASSUME NEW k \in Kinds \ {"index"}, DirOf(k) = d
      PROVE  <<v, k>> \in lists'[v][l] \/ Superseded(v, {d})'
  <2>1. CASE Superseded(v, {d})
    BY <1>1, <1>2, <2>1, SupersededStays
  <2>2. CASE ~Superseded(v, {d})
    <3>1. k \in live[v]
      BY <1>5, <2>2 DEF Accounted
    <3>2. v \in Found(live, {d})
      BY <1>5, <3>1 DEF Found
    <3>3. v \in Remaining(live, {d})
      BY <1>2, <2>2, <3>2, DeletedIsSuperseded DEF Remaining
    <3>4. QED  BY <1>3, <1>5, <3>1, <3>3 DEF Listing
  <2>3. QED  BY <2>1, <2>2
<1>6. QED  BY <1>4, <1>5 DEF Names

\* The vacuum of the other directory does not touch what a list names.
LEMMA OtherVacuumKeeps ==
    ASSUME TypeOK, NEW v \in Versions, NEW d \in Dirs, NEW e \in Dirs, e # d,
           NEW list, NEW next, NEW l \in Lists \ list, S3Vacuum(v, {d}, list, next),
           Names(v, l, {e})
    PROVE  Names(v, l, {e})'
<1>1. PICK stuck : live' = Purge(live, ToDelete(Found(live, {d})), {d}, stuck)
  BY DEF S3Vacuum
<1>2. live \in Trees /\ lists'[v][l] = lists[v][l] /\ lists[v][l] \in SUBSET Entries
  BY DEF S3Vacuum, TypeOK, Trees
<1>3. ASSUME NEW x \in lists[v][l] PROVE x[2] \in live'[x[1]] /\ DirOf(x[2]) \in {e}
  <2>1. x[2] \in live[x[1]] /\ DirOf(x[2]) \in {e} /\ x[1] \in Versions
    BY <1>2, <1>3 DEF Names, Entries
  <2>2. QED  BY <1>1, <1>2, <2>1, VacuumLeaves
<1>4. Superseded(v, {e}) => Superseded(v, {e})'
  BY <1>1, SupersededStays
<1>5. QED  BY <1>2, <1>3, <1>4 DEF Names

\* A list stays as it is while the channel does.
LEMMA NamesKept ==
    ASSUME NEW v \in Versions, NEW l, NEW D, Names(v, l, D), UNCHANGED live,
           lists'[v][l] = lists[v][l]
    PROVE  Names(v, l, D)'
BY DEF Names, Superseded, Found

\* While a job takes a step, the others are idle, and have no lists to keep.
LEMMA OwnReady ==
    ASSUME TypeOK, StoreInv, NEW v \in Versions, job[v] # "idle",
           \A w \in Versions \ {v} : job'[w] = job[w], Ready(v)'
    PROVE  ListsReady'
<1>1. \A w \in Versions \ {v} : job'[w] = "idle"
  BY DEF StoreInv, OneJob
<1>2. \A w \in Versions \ {v} : Ready(w)'
  BY <1>1 DEF Ready, AfterImages
<1>3. QED  BY <1>2 DEF ListsReady

LEMMA ReadyInit == Init => ListsReady
BY DEF Init, ListsReady, Ready, AfterImages

LEMMA ReadyStep == Inv /\ Accounted /\ ListsReady /\ [Next]_vars => ListsReady'
<1> USE DEF Inv, Goto
<1> SUFFICES ASSUME Inv, Accounted, ListsReady, Next PROVE ListsReady'
  BY DEF vars, sites, published, local, ListsReady, Ready, Names, Superseded, Found
<1> PICK v \in Versions : Stage(v) \/ Start(v) \/ Step(v) \/ Die(v)
  BY DEF Next
<1>1. Ready(v) /\ (job[v] # "idle" => outcome[v] # "unbuilt")
  BY DEF ListsReady, StoreInv, Built
<1>2. CASE Stage(v)
  <2>1. job[v] = "idle"
    BY <1>2 DEF Stage, StoreInv, Built
  <2>2. \A w \in Versions \ {v} : staging'[w] = staging[w]
    BY <1>2 DEF Stage, TypeOK
  <2>3. UNCHANGED <<live, lists, job, pending, sums, sig>>
    BY <1>2 DEF Stage, sites, published, local
  <2>4. Ready(v)'
    BY <2>1, <2>3 DEF Ready, AfterImages
  <2>5. ASSUME NEW w \in Versions \ {v} PROVE Ready(w)'
    <3>1. Ready(w)
      BY DEF ListsReady
    <3>2. QED  BY <2>2, <2>3, <3>1, NamesKept DEF Ready
  <2>6. QED  BY <2>4, <2>5 DEF ListsReady
<1>3. CASE Start(v)
  <2>1. \A w \in Versions : job'[w] \in {"idle", "filesVacuum"}
    BY <1>3 DEF Start, End, TypeOK
  <2>2. QED  BY <2>1 DEF ListsReady, Ready, AfterImages
<1>4. ASSUME job[v] # "idle", \A w \in Versions \ {v} : job'[w] = job[w],
             job'[v] \in {"idle", "filesAppend", "filesUpload", "chop", "filesSums", "filesSig",
                          "copy", "remove"}
      PROVE  ListsReady'
  <2>1. Ready(v)'
    BY <1>4 DEF Ready, AfterImages
  <2>2. QED  BY <1>4, <2>1, OwnReady
<1>5. CASE \/ Die(v) \/ FilesIncomplete(v) \/ Succeed(v)
  BY <1>4, <1>5 DEF Die, FilesIncomplete, Succeed, End, TypeOK
<1>6. CASE FilesVacuum(v) \/ FilesAppend(v) \/ Chop(v) \/ FilesSums(v) \/ Copy(v) \/ Remove(v)
  BY <1>4, <1>6 DEF FilesVacuum, FilesAppend, Chop, FilesSums, Copy, Remove, TypeOK
<1>7. CASE FilesUpload(v)
  BY <1>4, <1>7 DEF FilesUpload, TypeOK
<1>8. CASE Moved(v)
  <2>1. Ready(v)'
    BY <1>8 DEF Moved, Ready, AfterImages, TypeOK
  <2>2. QED  BY <1>8, <2>1, OwnReady DEF Moved, TypeOK
<1>9. CASE VacuumSysupdate(v)
  <2>1. S3Vacuum(v, {"sysupdate"}, {"s3Sysupdate"}, "vacuumImages") /\ job[v] = "vacuum"
    BY <1>9 DEF VacuumSysupdate
  <2>2. staging[v] = {} /\ staging' = staging
    BY <1>1, <2>1 DEF Ready, S3Vacuum
  <2>3. Names(v, "s3Sysupdate", {"sysupdate"})'
    BY <1>1, <2>1, <2>2, VacuumNames DEF Dirs, Lists
  <2>4. job'[v] = "vacuumImages" /\ \A w \in Versions \ {v} : job'[w] = job[w]
    BY <2>1 DEF S3Vacuum, TypeOK
  <2>5. Ready(v)'
    BY <2>2, <2>3, <2>4 DEF Ready, AfterImages
  <2>6. QED  BY <2>1, <2>4, <2>5, OwnReady
<1>10. CASE VacuumImages(v)
  <2>1. S3Vacuum(v, {"images"}, {"s3Images", "filesImages"}, "prune") /\ job[v] = "vacuumImages"
    BY <1>10 DEF VacuumImages
  <2>2. staging[v] = {} /\ Names(v, "s3Sysupdate", {"sysupdate"})
    BY <1>1, <2>1 DEF Ready
  <2>3. Names(v, "s3Images", {"images"})'
    BY <1>1, <2>1, <2>2, VacuumNames DEF Dirs, Lists
  <2>4. Names(v, "s3Sysupdate", {"sysupdate"})'
    BY <2>1, <2>2, OtherVacuumKeeps DEF Dirs, Lists
  <2>5. job'[v] = "prune" /\ \A w \in Versions \ {v} : job'[w] = job[w]
    BY <2>1 DEF S3Vacuum, TypeOK
  <2>6. Ready(v)'
    BY <2>3, <2>4, <2>5 DEF Ready, AfterImages
  <2>7. QED  BY <2>1, <2>5, <2>6, OwnReady
<1>11. ASSUME job[v] \in AfterImages, UNCHANGED <<live, lists>>, job'[v] \in AfterImages,
              \A w \in Versions \ {v} : job'[w] = job[w],
              job'[v] = "channel" => \A l \in {"s3Sysupdate", "s3Images"} :
                /\ <<"sums", l>> \in pending'[v] \/ sums'[l] = lists[v][l]
                /\ <<"sig", l>> \in pending'[v] \/ sig'[l] = lists[v][l]
       PROVE  ListsReady'
  <2>1. Names(v, "s3Sysupdate", {"sysupdate"})' /\ Names(v, "s3Images", {"images"})'
    BY <1>1, <1>11, NamesKept DEF Ready
  <2>2. Ready(v)'
    BY <1>11, <2>1 DEF Ready, AfterImages
  <2>3. QED  BY <1>11, <2>2, OwnReady DEF AfterImages
<1>12. CASE Prune(v)
  <2>1. CASE Cardinality(Indexed) > 1
    BY <1>11, <1>12, <2>1 DEF Prune, local, AfterImages, TypeOK
  <2>2. CASE ~(Cardinality(Indexed) > 1)
    BY <1>4, <1>12, <2>2 DEF Prune, End, TypeOK
  <2>3. QED  BY <2>1, <2>2
<1>13. CASE RootSums(v)
  <2>1. UNCHANGED <<live, lists>> /\ \A w \in Versions \ {v} : job'[w] = job[w]
    BY <1>13 DEF RootSums, sites, TypeOK
  <2>2. CASE job[v] = "rootSums"
    BY <1>11, <1>13, <2>1, <2>2 DEF RootSums, AfterImages, TypeOK
  <2>3. CASE job[v] = "rootSig"
    <3>1. job'[v] = "channel" /\ pending'[v] = ChannelFiles
      BY <1>13, <2>3 DEF RootSums, TypeOK
    <3>2. QED  BY <1>11, <2>1, <2>3, <3>1 DEF AfterImages, ChannelFiles
  <2>4. QED  BY <1>13, <2>2, <2>3 DEF RootSums
<1>14. CASE UploadChannel(v)
  <2>1. PICK f \in pending[v] :
          /\ IF f[1] = "sums" THEN UploadSums(v, f[2]) ELSE UploadSig(v, f[2])
          /\ pending' = [pending EXCEPT ![v] = @ \ {f}]
    BY <1>14 DEF UploadChannel
  <2>2. UNCHANGED <<live, lists, job>> /\ job[v] = "channel"
    BY <1>14 DEF UploadChannel, sites
  <2>3. f \in ChannelFiles
    BY DEF TypeOK
  <2>4. ASSUME NEW l \in {"s3Sysupdate", "s3Images"}
        PROVE  /\ <<"sums", l>> \in pending'[v] \/ sums'[l] = lists[v][l]
               /\ <<"sig", l>> \in pending'[v] \/ sig'[l] = lists[v][l]
    <3>1. /\ <<"sums", l>> \in pending[v] \/ sums[l] = lists[v][l]
          /\ <<"sig", l>> \in pending[v] \/ sig[l] = lists[v][l]
      BY <1>1, <2>2 DEF Ready
    <3>2. pending'[v] = pending[v] \ {f}
      BY <2>1 DEF TypeOK
    <3>3. CASE f = <<"sums", l>>
      BY <2>1, <3>1, <3>2, <3>3 DEF UploadSums, TypeOK, Lists
    <3>4. CASE f = <<"sig", l>>
      BY <2>1, <3>1, <3>2, <3>4 DEF UploadSig, TypeOK, Lists
    <3>5. CASE f # <<"sums", l>> /\ f # <<"sig", l>>
      BY <2>1, <2>3, <3>1, <3>2, <3>5 DEF UploadSums, UploadSig, TypeOK, Lists, ChannelFiles
    <3>6. QED  BY <3>3, <3>4, <3>5
  <2>5. QED  BY <1>11, <2>2, <2>4 DEF AfterImages
<1>15. QED  BY <1>2, <1>3, <1>5, <1>6, <1>7, <1>8, <1>9, <1>10, <1>12, <1>13, <1>14 DEF Step

CurrentOnly ==
    \A v \in Versions :
      job[v] = "channel" /\ outcome'[v] = "ok" /\ job'[v] = "idle" => Advertised(v)'

\* Only the end of the job ends it well.
LEMMA CurrentStep == Inv /\ ListsReady /\ Next => CurrentOnly
<1> USE DEF Inv
<1> SUFFICES ASSUME Inv, ListsReady, Next, NEW v \in Versions, job[v] = "channel",
                    outcome'[v] = "ok", job'[v] = "idle"
             PROVE  Advertised(v)'
  BY DEF CurrentOnly
<1> PICK w \in Versions : Stage(w) \/ Start(w) \/ Step(w) \/ Die(w)
  BY DEF Next
<1>1. ~Start(w) /\ ~Die(w) /\ ~Stage(w)
  BY DEF Start, Die, End, Stage, TypeOK
<1>2. job[w] # "idle"
  BY <1>1 DEF Step, FilesVacuum, FilesAppend, FilesIncomplete, FilesUpload, Chop, FilesSums, Copy,
              Remove, Moved, VacuumSysupdate, VacuumImages, Prune, RootSums, UploadChannel, Succeed
<1>3. w = v
  BY <1>2 DEF StoreInv, OneJob
<1>4. Succeed(v)
  BY <1>1, <1>3 DEF Step, FilesVacuum, FilesAppend, FilesIncomplete, FilesUpload, Chop, FilesSums,
                    Copy, Remove, Moved, VacuumSysupdate, VacuumImages, Prune, RootSums, UploadChannel
<1>5. pending[v] = {} /\ UNCHANGED <<live, sums, sig>>
  BY <1>4 DEF Succeed, sites, published
<1>6. Ready(v)
  BY DEF ListsReady
<1>7. /\ sums["s3Sysupdate"] = lists[v]["s3Sysupdate"] /\ sig["s3Sysupdate"] = lists[v]["s3Sysupdate"]
      /\ sums["s3Images"] = lists[v]["s3Images"] /\ sig["s3Images"] = lists[v]["s3Images"]
  BY <1>5, <1>6 DEF Ready
<1>8. Names(v, "s3Sysupdate", {"sysupdate"}) /\ Names(v, "s3Images", {"images"})
  BY <1>6 DEF Ready, AfterImages
<1>9. \A l \in {"s3Sysupdate", "s3Images"} :
        sums[l] = sig[l] /\ \A e \in sums[l] : e[2] \in live[e[1]]
  BY <1>7, <1>8 DEF Names
<1>10. ASSUME NEW k \in Kinds \ {"index"}
       PROVE  \/ <<v, k>> \in sums[IF k = "iso" THEN "s3Images" ELSE "s3Sysupdate"]
              \/ Superseded(v, {DirOf(k)})
  BY <1>7, <1>8 DEF Names, DirOf
<1>11. Advertised(v)
  BY <1>9, <1>10 DEF Advertised, Superseded
<1>12. QED  BY <1>5, <1>11 DEF Advertised, Found

\* A job that comes to the end of upload.sh has its release advertised with valid
\* signatures, unless it is too old, and the channel's lists name nothing that is
\* gone: for any number of releases kept (upload.sh:198-217).
THEOREM FinishedCurrent == Spec => FinishedIsCurrent
<1>1. Init => Accounted /\ ListsReady
  BY AccountedInit, ReadyInit
<1>2. Inv /\ Accounted /\ ListsReady /\ [Next]_vars => (Accounted /\ ListsReady)'
  BY AccountedStep, ReadyStep
<1>3. Inv /\ ListsReady /\ [Next]_vars => [CurrentOnly]_vars
  BY CurrentStep
<1>4. QED
  BY <1>1, <1>2, <1>3, Invariance, PTL DEF Spec, FinishedIsCurrent, CurrentOnly

-----------------------------------------------------------------------------
(* An update at any moment: what is too old, and what a step does to a site. *)

Shipped == {"efi", "caibx", "erofs"}
Own(w) == {w} \X Shipped
AfterMove == {"vacuum", "vacuumImages"} \cup AfterImages
Late == {"filesSig", "copy", "remove"} \cup AfterMove

InChannel == Found(live, {"sysupdate"})
OnFiles == Found(files, Dirs)
TooOld(R, v) == Keep <= Cardinality({w \in R : w > v})

LEMMA TooOldMore ==
    ASSUME NEW R \in SUBSET Versions, NEW S \in SUBSET Versions, NEW u \in Versions, NEW v \in Versions,
           TooOld(R, u), \A w \in R : w > u => w \in S /\ w > v
    PROVE  TooOld(S, v)
<1> DEFINE A == {w \in R : w > u}
           B == {w \in S : w > v}
<1>1. A \in SUBSET B /\ A \in SUBSET Versions /\ B \in SUBSET Versions
  OBVIOUS
<1>2. Keep <= Cardinality(A)
  BY DEF TooOld
<1> HIDE DEF A, B
<1>3. Cardinality(A) <= Cardinality(B) /\ Cardinality(A) \in Nat /\ Cardinality(B) \in Nat
  BY <1>1, VersionsFinite, FS_Subset
<1>4. Keep <= Cardinality(B)
  BY <1>2, <1>3, PublishAssumption
<1>5. QED  BY <1>4 DEF TooOld, B

\* What is too old stays so while the newest stay.
LEMMA TooOldStays ==
    ASSUME NEW R \in SUBSET Versions, NEW S \in SUBSET Versions, NEW v \in Versions,
           TooOld(R, v), Newest(R) \subseteq S
    PROVE  TooOld(S, v)
<1>1. TooOld(Newest(R), v)
  BY KeptAreEnough DEF TooOld
<1>2. Newest(R) \in SUBSET Versions
  BY DEF Newest
<1>3. QED  BY <1>1, <1>2, TooOldMore

LEMMA NewestOrTooOld ==
    ASSUME NEW R \in SUBSET Versions, NEW v \in R
    PROVE  v \in Newest(R) <=> ~TooOld(R, v)
<1> DEFINE A == {w \in R : w > v}
<1>1. Cardinality(A) \in Nat /\ Keep \in Nat
  BY VersionsFinite, PublishAssumption
<1>2. v \in Newest(R) <=> Cardinality(A) < Keep
  BY DEF Newest
<1> HIDE DEF A
<1>3. Cardinality(A) < Keep <=> ~(Keep <= Cardinality(A))
  BY <1>1
<1>4. QED  BY <1>2, <1>3 DEF TooOld, A

\* A vacuum takes away only what is too old, and no release altogether that is not.
LEMMA PurgeTrims ==
    ASSUME NEW tree \in Trees, NEW D, NEW stuck, NEW new \in Trees,
           new = Purge(tree, ToDelete(Found(tree, D)), D, stuck)
    PROVE  /\ Newest(Found(tree, D)) \subseteq Found(new, D)
           /\ \A E : Found(new, E) \subseteq Found(tree, E)
           /\ \A w \in Versions : \A k \in tree[w] : k \notin new[w] => DirOf(k) \in D /\ TooOld(Found(tree, D), w)
           /\ \A w \in Versions : new[w] \subseteq tree[w]
           /\ \A w \in Versions : w \notin ToDelete(Found(tree, D)) => new[w] = tree[w]
<1>1. \A w \in Versions : w \notin ToDelete(Found(tree, D)) => new[w] = tree[w]
  BY DEF Purge, Trees
<1>2. \A w \in Versions : new[w] \subseteq tree[w]
  BY PurgeShrinks
<1>3. ASSUME NEW w \in Versions, NEW k \in tree[w], k \notin new[w]
      PROVE  DirOf(k) \in D /\ TooOld(Found(tree, D), w)
  BY <1>3, PurgedIsOutdated DEF Outdated, TooOld
<1>4. Newest(Found(tree, D)) \subseteq Found(new, D)
  <2> SUFFICES ASSUME NEW w \in Newest(Found(tree, D))
               PROVE  w \in Found(new, D)
    OBVIOUS
  <2>1. w \in Found(tree, D) /\ w \in Versions /\ w \notin ToDelete(Found(tree, D))
    BY DEF Newest, ToDelete, Found
  <2>2. QED  BY <1>1, <2>1 DEF Found
<1>5. \A E : Found(new, E) \subseteq Found(tree, E)
  BY <1>2 DEF Found
<1>6. QED  BY <1>1, <1>2, <1>3, <1>4, <1>5

\* What a step of v does to the channel ...
ChannelTrimmed(v) ==
    /\ Newest(InChannel) \subseteq InChannel'
    /\ InChannel' \subseteq InChannel \cup {v}
    /\ job[v] # "copy" => InChannel' \subseteq InChannel
    /\ \A w \in Versions : \A k \in Shipped \cup {"index"} :
         k \in live[w] /\ k \notin live'[w] => TooOld(InChannel, w)

\* ... and to files.kde.org.
FilesTrimmed(v) ==
    /\ Newest(OnFiles) \subseteq OnFiles'
    /\ OnFiles' \subseteq OnFiles \cup {v}
    /\ job[v] # "filesUpload" => OnFiles' \subseteq OnFiles
    /\ \A w \in Versions : \A k \in files[w] : k \notin files'[w] => TooOld(OnFiles, w)

LEMMA SameSites ==
    ASSUME NEW v \in Versions
    PROVE  /\ UNCHANGED live => ChannelTrimmed(v)
           /\ UNCHANGED files => FilesTrimmed(v)
BY DEF ChannelTrimmed, FilesTrimmed, InChannel, OnFiles, Found, Newest

LEMMA StepTrims ==
    ASSUME TypeOK, NEW v \in Versions, Stage(v) \/ Start(v) \/ Step(v) \/ Die(v)
    PROVE  ChannelTrimmed(v) /\ FilesTrimmed(v)
<1>1. live \in Trees /\ files \in Trees /\ live' \in Trees /\ files' \in Trees
  <2>1. TypeOK'
    BY TypeStep DEF Next
  <2>2. QED  BY <2>1 DEF TypeOK, Trees
<1>2. CASE Copy(v)
  <2>1. PICK k \in Kinds : live' = [live EXCEPT ![v] = @ \cup {k}]
    BY <1>2 DEF Copy
  <2>2. job[v] = "copy" /\ UNCHANGED files
    BY <1>2 DEF Copy
  <2>3. \A w \in Versions : live[w] \subseteq live'[w] /\ (w # v => live'[w] = live[w])
    BY <1>1, <2>1 DEF Trees
  <2>4. InChannel \subseteq InChannel' /\ InChannel' \subseteq InChannel \cup {v}
    BY <2>3 DEF InChannel, Found
  <2>5. ChannelTrimmed(v)
    BY <2>2, <2>3, <2>4 DEF ChannelTrimmed, Newest
  <2>6. QED  BY <2>2, <2>5, SameSites
<1>3. CASE FilesUpload(v)
  <2>1. job[v] = "filesUpload" /\ UNCHANGED live
    BY <1>3 DEF FilesUpload
  <2>2. \A w \in Versions : files[w] \subseteq files'[w] /\ (w # v => files'[w] = files[w])
    BY <1>1, <1>3 DEF FilesUpload, Trees
  <2>3. OnFiles \subseteq OnFiles' /\ OnFiles' \subseteq OnFiles \cup {v}
    BY <2>2 DEF OnFiles, Found
  <2>4. FilesTrimmed(v)
    BY <2>1, <2>2, <2>3 DEF FilesTrimmed, Newest
  <2>5. QED  BY <2>1, <2>4, SameSites
<1>4. CASE FilesVacuum(v)
  <2>1. PICK stuck : files' = Purge(files, ToDelete(Found(files, Dirs)), Dirs, stuck)
    BY <1>4 DEF FilesVacuum
  <2>2. /\ Newest(OnFiles) \subseteq OnFiles' /\ OnFiles' \subseteq OnFiles
        /\ \A w \in Versions : \A k \in files[w] : k \notin files'[w] => TooOld(OnFiles, w)
    BY <1>1, <2>1, PurgeTrims DEF OnFiles
  <2>3. FilesTrimmed(v)
    BY <2>2 DEF FilesTrimmed
  <2>4. QED  BY <1>4, <2>3, SameSites DEF FilesVacuum
<1>5. ASSUME NEW d \in Dirs, NEW list, NEW next, S3Vacuum(v, {d}, list, next)
      PROVE  ChannelTrimmed(v) /\ FilesTrimmed(v)
  <2>1. PICK stuck : live' = Purge(live, ToDelete(Found(live, {d})), {d}, stuck)
    BY <1>5 DEF S3Vacuum
  <2> DEFINE D == {d}
  <2>2. /\ Newest(Found(live, D)) \subseteq Found(live', D)
        /\ Found(live', {"sysupdate"}) \subseteq Found(live, {"sysupdate"})
        /\ \A w \in Versions : \A k \in live[w] : k \notin live'[w] => DirOf(k) \in D /\ TooOld(Found(live, D), w)
    <3> HIDE DEF D
    <3>1. live' = Purge(live, ToDelete(Found(live, D)), D, stuck)
      BY <2>1 DEF D
    <3>2. QED  BY <1>1, <3>1, PurgeTrims
  <2>3. InChannel' \subseteq InChannel
    BY <2>2 DEF InChannel
  <2>4. \A k \in Shipped \cup {"index"} : DirOf(k) = "sysupdate"
    BY DEF Shipped, DirOf
  <2>5. ASSUME d = "sysupdate" PROVE ChannelTrimmed(v)
    BY <2>2, <2>3, <2>5 DEF ChannelTrimmed, InChannel
  <2>6. ASSUME d # "sysupdate" PROVE ChannelTrimmed(v)
    <3>1. \A w \in Versions : \A k \in live[w] : DirOf(k) = "sysupdate" => k \in live'[w]
      BY <2>2, <2>6
    <3>2. InChannel \subseteq InChannel'
      BY <3>1 DEF InChannel, Found
    <3>3. QED  BY <2>3, <2>4, <3>1, <3>2 DEF ChannelTrimmed, Newest
  <2>7. QED  BY <1>5, <2>5, <2>6, SameSites DEF S3Vacuum
<1>6. CASE VacuumSysupdate(v) \/ VacuumImages(v)
  BY <1>5, <1>6 DEF VacuumSysupdate, VacuumImages, Dirs
<1>7. CASE \/ Stage(v) \/ Start(v) \/ Die(v) \/ FilesAppend(v) \/ FilesIncomplete(v) \/ FilesSums(v)
           \/ Moved(v) \/ Remove(v) \/ RootSums(v) \/ UploadChannel(v) \/ Succeed(v) \/ Chop(v) \/ Prune(v)
  BY <1>7, SameSites DEF Stage, Start, Die, FilesAppend, FilesIncomplete, FilesSums, Moved, Remove, RootSums,
                    UploadChannel, Succeed, Chop, Prune, sites
<1>8. QED  BY <1>2, <1>3, <1>4, <1>6, <1>7 DEF Step

-----------------------------------------------------------------------------
(* How far a job has got.                                                   *)

GotTo(v) ==
    /\ job[v] \in {"filesVacuum", "filesAppend"} => art[v] = staging[v]
    /\ job[v] = "filesUpload" => Needed \subseteq art[v]
    /\ job[v] \in {"filesUpload", "chop", "filesSums"} => Own(v) \subseteq lists[v]["filesSysupdate"]
    /\ job[v] \in {"chop", "filesSums"} \cup Late => Shipped \subseteq files[v]
    /\ job[v] \in Late => Own(v) \subseteq sums["filesSysupdate"]
    /\ job[v] \in AfterMove => staging[v] = {}

Progress == \A v \in Versions : GotTo(v)

\* What is in the channel is on files.kde.org, or too old for it.
ChannelOnFiles == \A u \in InChannel : u \in OnFiles \/ TooOld(OnFiles, u)

LEMMA ProgressInit == Init => Progress
BY DEF Init, Progress, GotTo, Late, AfterMove, AfterImages

\* A job that runs is the only one.
LEMMA OwnProgress ==
    ASSUME TypeOK, StoreInv, NEW v \in Versions, job[v] # "idle",
           \A w \in Versions \ {v} : job'[w] = job[w], GotTo(v)'
    PROVE  Progress'
<1>1. \A w \in Versions \ {v} : job'[w] = "idle"
  BY DEF StoreInv, OneJob
<1>2. \A w \in Versions \ {v} : GotTo(w)'
  BY <1>1 DEF GotTo, Late, AfterMove, AfterImages
<1>3. QED  BY <1>2 DEF Progress

LEMMA IdleProgress ==
    ASSUME NEW v \in Versions, job'[v] = "idle"
    PROVE  GotTo(v)'
BY DEF GotTo, Late, AfterMove, AfterImages

LEMMA ProgressStep == Inv /\ Progress /\ [Next]_vars => Progress'
<1> USE DEF Inv, Goto
<1> SUFFICES ASSUME Inv, Progress, Next PROVE Progress'
  BY DEF vars, sites, published, local, Progress, GotTo
<1> PICK v \in Versions : Stage(v) \/ Start(v) \/ Step(v) \/ Die(v)
  BY DEF Next
<1>a. GotTo(v)
  BY DEF Progress
<1>1. CASE Stage(v)
  <2>1. job[v] = "idle" /\ UNCHANGED <<job, art, lists, files, sums>>
    BY <1>1 DEF Stage, StoreInv, Built, sites, published, local
  <2>2. GotTo(v)'
    BY <2>1, IdleProgress
  <2>3. ASSUME NEW w \in Versions \ {v} PROVE GotTo(w)'
    <3>1. staging'[w] = staging[w]
      BY <1>1 DEF Stage, TypeOK
    <3>2. QED  BY <2>1, <3>1 DEF Progress, GotTo
  <2>4. QED  BY <2>2, <2>3 DEF Progress
<1>2. CASE Start(v)
  <2>1. ASSUME NEW w \in Versions \ {v} PROVE GotTo(w)'
    BY <1>2, IdleProgress DEF Start, End, TypeOK
  <2>2. GotTo(v)'
    <3>1. CASE staging[v] = {}
      BY <1>2, <3>1, IdleProgress DEF Start, End, TypeOK
    <3>2. CASE staging[v] # {}
      <4>1. job'[v] = "filesVacuum" /\ art'[v] = staging'[v]
        BY <1>2, <3>2 DEF Start, TypeOK
      <4>2. QED  BY <4>1 DEF GotTo, Late, AfterMove, AfterImages
    <3>3. QED  BY <3>1, <3>2
  <2>3. QED  BY <2>1, <2>2 DEF Progress
<1>3. ASSUME NEW result, job[v] # "idle", End(v, result)
      PROVE  Progress'
  <2>1. job'[v] = "idle" /\ \A w \in Versions \ {v} : job'[w] = job[w]
    BY <1>3 DEF End, TypeOK
  <2>2. QED  BY <1>3, <2>1, IdleProgress, OwnProgress
<1>4. CASE Die(v) \/ FilesIncomplete(v) \/ Succeed(v)
  BY <1>3, <1>4 DEF Die, FilesIncomplete, Succeed
<1>5. SUFFICES ASSUME Step(v), ~FilesIncomplete(v), ~Succeed(v), ~(\E result : End(v, result)) PROVE Progress'
  BY <1>1, <1>2, <1>3, <1>4 DEF Step, FilesVacuum, FilesAppend, FilesUpload, Chop, FilesSums, Copy,
              Remove, Moved, VacuumSysupdate, VacuumImages, Prune, RootSums, UploadChannel
<1>6. job[v] # "idle"
  BY <1>5 DEF Step, FilesVacuum, FilesAppend, FilesUpload, Chop, FilesSums, Copy,
              Remove, Moved, VacuumSysupdate, VacuumImages, Prune, RootSums, UploadChannel
<1>7. SUFFICES GotTo(v)' /\ \A w \in Versions \ {v} : job'[w] = job[w]
  BY <1>6, OwnProgress
<1> USE DEF TypeOK
<1>8. CASE FilesVacuum(v)
  <2>1. job'[v] = "filesAppend" /\ art' = art /\ staging' = staging /\ job[v] = "filesVacuum"
    BY <1>8 DEF FilesVacuum
  <2>2. QED  BY <1>8, <1>a, <2>1 DEF FilesVacuum, GotTo, Late, AfterMove, AfterImages
<1>9. CASE FilesAppend(v)
  <2>1. job'[v] = "filesUpload" /\ art' = art /\ Needed \subseteq art[v]
    BY <1>9 DEF FilesAppend
  <2>2. Own(v) \subseteq lists'[v]["filesSysupdate"]
    BY <1>9 DEF FilesAppend, Own, Shipped, Lists
  <2>3. QED  BY <1>9, <2>1, <2>2 DEF FilesAppend, GotTo, Late, AfterMove, AfterImages
<1>10. CASE FilesUpload(v)
  <2>1. job[v] = "filesUpload" /\ UNCHANGED <<staging, art, lists>>
    BY <1>10 DEF FilesUpload, local
  <2>2. Needed \subseteq art[v] /\ Own(v) \subseteq lists[v]["filesSysupdate"]
    BY <1>a, <2>1 DEF GotTo
  <2>3. CASE art[v] \subseteq files[v]
    <3>1. job'[v] = "chop" /\ UNCHANGED files
      BY <1>10, <2>3 DEF FilesUpload
    <3>2. Shipped \subseteq files'[v]
      BY <2>2, <2>3, <3>1 DEF Shipped, Needed
    <3>3. QED  BY <1>10, <2>1, <2>2, <3>1, <3>2 DEF FilesUpload, GotTo, Late, AfterMove, AfterImages
  <2>4. CASE ~(art[v] \subseteq files[v])
    <3>1. UNCHANGED job
      BY <1>10, <2>4 DEF FilesUpload
    <3>2. QED  BY <2>1, <2>2, <3>1 DEF GotTo, Late, AfterMove, AfterImages
  <2>5. QED  BY <2>3, <2>4
<1>11. CASE Chop(v)
  <2>1. job[v] = "chop" /\ job'[v] = "filesSums" /\ UNCHANGED <<staging, files, lists, art>>
    BY <1>11 DEF Chop, local
  <2>2. QED  BY <1>11, <1>a, <2>1 DEF Chop, GotTo, Late, AfterMove, AfterImages
<1>12. CASE FilesSums(v)
  <2>1. UNCHANGED files /\ Shipped \subseteq files[v]
    BY <1>12, <1>a DEF FilesSums, sites, GotTo, Late
  <2>2. CASE job[v] = "filesSums"
    <3>1. sums' = [sums EXCEPT !["filesSysupdate"] = lists[v]["filesSysupdate"]] /\ job'[v] = "filesSig"
      BY <1>12, <2>2 DEF FilesSums, UploadSums
    <3>2. Own(v) \subseteq sums'["filesSysupdate"]
      BY <1>a, <2>2, <3>1 DEF GotTo, Lists
    <3>3. QED  BY <1>12, <2>1, <3>1, <3>2 DEF FilesSums, GotTo, AfterMove, AfterImages
  <2>3. CASE job[v] = "filesSig"
    <3>1. sums' = sums /\ job'[v] = "copy"
      BY <1>12, <2>3 DEF FilesSums, UploadSig
    <3>2. QED  BY <1>12, <1>a, <2>1, <2>3, <3>1 DEF FilesSums, GotTo, Late, AfterMove, AfterImages
  <2>4. QED  BY <1>12, <2>2, <2>3 DEF FilesSums
<1>13. ASSUME UNCHANGED files, UNCHANGED sums, job[v] \in Late, job'[v] \in Late,
              job'[v] \in AfterMove => staging'[v] = {}
       PROVE  GotTo(v)'
  BY <1>13, <1>a DEF GotTo, Late, AfterMove, AfterImages
<1>14. CASE Copy(v) \/ Remove(v) \/ Moved(v)
  BY <1>13, <1>14 DEF Copy, Remove, Moved, sites, published, Late, AfterMove, AfterImages
<1>15. CASE VacuumSysupdate(v) \/ VacuumImages(v)
  BY <1>a, <1>13, <1>15 DEF VacuumSysupdate, VacuumImages, S3Vacuum, published, GotTo, Late, AfterMove, AfterImages
<1>16. CASE Prune(v)
  BY <1>a, <1>5, <1>13, <1>16 DEF Prune, published, GotTo, Late, AfterMove, AfterImages
<1>17. ASSUME UNCHANGED <<files, staging>>, job[v] \in AfterImages, job'[v] \in AfterImages,
              sums'["filesSysupdate"] = sums["filesSysupdate"]
       PROVE  GotTo(v)'
  BY <1>17, <1>a DEF GotTo, Late, AfterMove, AfterImages
<1>18. CASE RootSums(v)
  BY <1>17, <1>18 DEF RootSums, UploadSums, UploadSig, sites, AfterImages, Lists
<1>19. CASE UploadChannel(v)
  <2>1. PICK f \in pending[v] : IF f[1] = "sums" THEN UploadSums(v, f[2]) ELSE UploadSig(v, f[2])
    BY <1>19 DEF UploadChannel
  <2>2. f[2] # "filesSysupdate"
    BY <2>1 DEF ChannelFiles
  <2>3. sums'["filesSysupdate"] = sums["filesSysupdate"]
    BY <2>1, <2>2 DEF UploadSums, UploadSig, Lists
  <2>4. UNCHANGED <<files, staging, job>> /\ job[v] = "channel"
    BY <1>19 DEF UploadChannel, sites
  <2>5. QED  BY <1>17, <2>3, <2>4 DEF AfterImages
<1>20. QED
  BY <1>5, <1>8, <1>9, <1>10, <1>11, <1>12, <1>14, <1>15, <1>16, <1>18, <1>19 DEF Step

LEMMA CrossInit == Init => ChannelOnFiles
BY DEF Init, ChannelOnFiles, InChannel, OnFiles, Found, Dirs

LEMMA SitesType == InChannel \in SUBSET Versions /\ OnFiles \in SUBSET Versions
                   /\ InChannel' \in SUBSET Versions /\ OnFiles' \in SUBSET Versions
BY DEF InChannel, OnFiles, Found

\* What is too old for a site stays so.
LEMMA TooOldKept ==
    ASSUME NEW v \in Versions, NEW w \in Versions, ChannelTrimmed(v), FilesTrimmed(v)
    PROVE  /\ TooOld(InChannel, w) => TooOld(InChannel', w)
           /\ TooOld(OnFiles, w) => TooOld(OnFiles', w)
BY SitesType, TooOldStays DEF ChannelTrimmed, FilesTrimmed

LEMMA CrossStep ==
    ASSUME TypeOK, Progress, ChannelOnFiles,
           NEW v \in Versions, Stage(v) \/ Start(v) \/ Step(v) \/ Die(v)
    PROVE  ChannelOnFiles'
<1>1. ChannelTrimmed(v) /\ FilesTrimmed(v)
  BY StepTrims
<1> SUFFICES ASSUME NEW u \in InChannel'
             PROVE  u \in OnFiles' \/ TooOld(OnFiles', u)
  BY DEF ChannelOnFiles, TooOld
<1>2. u \in Versions
  BY SitesType
<1>3. u \in OnFiles \/ TooOld(OnFiles, u)
  <2>1. CASE u \in InChannel
    BY <2>1 DEF ChannelOnFiles
  <2>2. CASE u = v /\ job[v] = "copy"
    <3>1. "efi" \in files[v]
      BY <2>2 DEF Progress, GotTo, Late, Shipped
    <3>2. QED  BY <2>2, <3>1 DEF OnFiles, Found, DirOf, Dirs
  <2>3. QED  BY <1>1, <2>1, <2>2 DEF ChannelTrimmed
<1>4. CASE TooOld(OnFiles, u)
  BY <1>1, <1>2, <1>4, TooOldKept
<1>5. CASE ~TooOld(OnFiles, u)
  BY <1>1, <1>3, <1>5, SitesType, NewestOrTooOld DEF FilesTrimmed
<1>6. QED  BY <1>4, <1>5

\* What is too old for the channel is too old for files.kde.org.
LEMMA TooOldForBoth ==
    ASSUME ChannelOnFiles, NEW w \in Versions, TooOld(InChannel, w)
    PROVE  TooOld(OnFiles, w)
<1>1. CASE \A u \in InChannel : u > w => u \in OnFiles
  BY <1>1, SitesType, TooOldMore
<1>2. ASSUME NEW u \in InChannel, u > w, u \notin OnFiles
      PROVE  TooOld(OnFiles, w)
  <2>1. TooOld(OnFiles, u) /\ u \in Versions
    BY <1>2, SitesType DEF ChannelOnFiles
  <2>2. \A x \in Versions : x > u => x > w
    BY <1>2, <2>1, PublishAssumption DEF Versions
  <2>3. QED  BY <2>1, <2>2, SitesType, TooOldMore
<1>3. QED  BY <1>1, <1>2

-----------------------------------------------------------------------------
(* Which releases can be updated to, and which faults the others cost.       *)

\* A release that a site offers, and that the lists on their way there name too.
GoodLive(w) ==
    /\ Shipped \cup {"index"} \subseteq live[w]
    /\ Own(w) \subseteq sums["s3Sysupdate"]
    /\ \A c \in Versions : job[c] \in {"vacuumImages"} \cup AfterImages => Own(w) \subseteq lists[c]["s3Sysupdate"]

\* On files.kde.org its chunks are safe while its index is in the channel.
GoodFiles(w) ==
    /\ Shipped \subseteq files[w] /\ "index" \in live[w]
    /\ Own(w) \subseteq sums["filesSysupdate"]
    /\ \A c \in Versions : job[c] \in {"filesAppend", "filesUpload", "chop", "filesSums"} =>
         Own(w) \subseteq lists[c]["filesSysupdate"]

\* No job is about to make anything of it: what is left of it cannot be moved again.
Stuck(w) == job[w] = "idle" \/ (staging[w] # Kinds /\ job[w] \in {"filesVacuum", "filesAppend"})

ChargedLive == {w \in Newest(InChannel) : ~GoodLive(w) /\ Stuck(w)}
ChargedFiles == {w \in Newest(OnFiles) : ~GoodFiles(w) /\ Stuck(w)}

\* Each release that is among the newest, but of no use, has cost a fault.
Budget ==
    faults + 1 < Keep => Cardinality(ChargedLive) <= faults /\ Cardinality(ChargedFiles) <= faults

\* The releases of the past go only because they are too old.
Past ==
    \A w \in Released :
      /\ GoodLive(w) \/ TooOld(InChannel, w)
      /\ GoodFiles(w) \/ TooOld(OnFiles, w)

UpdateInv == Progress /\ ChannelOnFiles /\ Budget /\ Past

\* The list made of a tree names each release that stays in it.
LEMMA ListedOrTooOld ==
    ASSUME NEW tree \in Trees, NEW D \in SUBSET Dirs, "sysupdate" \in D, NEW w \in Versions, Shipped \subseteq tree[w]
    PROVE  Own(w) \subseteq Listing(tree, Remaining(tree, D), D) \/ TooOld(Found(tree, D), w)
<1>1. \A k \in Shipped : k \in Kinds \ {"index"} /\ DirOf(k) = "sysupdate"
  BY DEF Shipped, Kinds, DirOf
<1>2. w \in Found(tree, D)
  BY <1>1 DEF Found, Shipped
<1>3. CASE w \in Remaining(tree, D)
  BY <1>1, <1>3 DEF Own, Listing
<1>4. CASE w \notin Remaining(tree, D)
  <2>1. w \notin Newest(Found(tree, D))
    BY <1>2, <1>4 DEF Remaining, ToDelete
  <2>2. Found(tree, D) \in SUBSET Versions
    BY FoundType
  <2>3. QED  BY <1>2, <2>1, <2>2, NewestOrTooOld
<1>5. QED  BY <1>3, <1>4

LEMMA Uploaded ==
    ASSUME TypeOK, NEW v, NEW l \in Lists, NEW list, UploadSums(v, list) \/ UploadSig(v, list)
    PROVE  sums'[l] = sums[l] \/ (l = list /\ sums'[l] = lists[v][l])
BY DEF TypeOK, UploadSums, UploadSig

\* The steps that upload a list.
LEMMA SumsBy ==
    ASSUME NEW v \in Versions, Stage(v) \/ Start(v) \/ Step(v) \/ Die(v)
    PROVE  UploadChannel(v) \/ FilesSums(v) \/ RootSums(v) \/ UNCHANGED sums
<1>1. CASE Stage(v) \/ Start(v) \/ Die(v) \/ FilesVacuum(v) \/ FilesUpload(v) \/ FilesAppend(v) \/ FilesIncomplete(v)
  BY <1>1 DEF Stage, Start, Die, FilesVacuum, FilesUpload, FilesAppend, FilesIncomplete, published
<1>2. CASE Copy(v) \/ Moved(v) \/ Remove(v) \/ Succeed(v) \/ Chop(v) \/ Prune(v) \/ VacuumSysupdate(v) \/ VacuumImages(v)
  BY <1>2 DEF Copy, Moved, Remove, Succeed, Chop, Prune, VacuumSysupdate, VacuumImages, S3Vacuum, published
<1>3. QED  BY <1>1, <1>2 DEF Step

LEMMA GoodLiveStays ==
    ASSUME Inv, ChannelOnFiles, NEW v \in Versions, Stage(v) \/ Start(v) \/ Step(v) \/ Die(v),
           NEW w \in Versions, GoodLive(w)
    PROVE  GoodLive(w)' \/ TooOld(InChannel, w)
<1> USE DEF Inv, TypeOK, Goto
<1>1. ChannelTrimmed(v)
  BY StepTrims
<1> SUFFICES ASSUME ~TooOld(InChannel, w)
             PROVE  GoodLive(w)'
  OBVIOUS
<1>2. Shipped \cup {"index"} \subseteq live'[w]
  BY <1>1 DEF ChannelTrimmed, GoodLive
<1>3. Own(w) \subseteq sums'["s3Sysupdate"]
  <2>1. CASE UploadChannel(v)
    <3>1. PICK f \in pending[v] : IF f[1] = "sums" THEN UploadSums(v, f[2]) ELSE UploadSig(v, f[2])
      BY <2>1 DEF UploadChannel
    <3>2. Own(w) \subseteq sums["s3Sysupdate"] /\ Own(w) \subseteq lists[v]["s3Sysupdate"]
      BY <2>1 DEF UploadChannel, GoodLive, AfterImages
    <3>3. sums'["s3Sysupdate"] = sums["s3Sysupdate"] \/ sums'["s3Sysupdate"] = lists[v]["s3Sysupdate"]
      BY <3>1, Uploaded DEF Lists
    <3>4. QED  BY <3>2, <3>3
  <2>2. CASE FilesSums(v) \/ RootSums(v)
    <3>1. UploadSums(v, "filesSysupdate") \/ UploadSums(v, "filesImages") \/ UploadSig(v, "filesSysupdate") \/ UploadSig(v, "filesImages")
      BY <2>2 DEF FilesSums, RootSums
    <3>2. sums'["s3Sysupdate"] = sums["s3Sysupdate"]
      BY <3>1, Uploaded DEF Lists
    <3>3. QED  BY <3>2 DEF GoodLive
  <2>3. CASE UNCHANGED sums
    BY <2>3 DEF GoodLive
  <2>4. QED  BY <2>1, <2>2, <2>3, SumsBy
<1>4. ASSUME NEW c \in Versions, job'[c] \in {"vacuumImages"} \cup AfterImages
      PROVE  Own(w) \subseteq lists'[c]["s3Sysupdate"]
  <2>1. CASE VacuumSysupdate(v)
    <3>1. CASE c = v
      <4>1. lists'[v]["s3Sysupdate"] = Listing(live, Remaining(live, {"sysupdate"}), {"sysupdate"})
        BY <2>1 DEF VacuumSysupdate, S3Vacuum, Lists
      <4>2. Shipped \subseteq live[w] /\ live \in Trees
        BY DEF GoodLive, Trees
      <4> DEFINE D == {"sysupdate"}
      <4>3. D \in SUBSET Dirs /\ "sysupdate" \in D
        BY DEF Dirs
      <4> HIDE DEF D
      <4>4. Own(w) \subseteq Listing(live, Remaining(live, D), D) \/ TooOld(Found(live, D), w)
        BY <4>2, <4>3, ListedOrTooOld
      <4>5. QED  BY <3>1, <4>1, <4>4 DEF D, InChannel
    <3>2. CASE c # v
      <4>1. job'[c] = job[c] /\ job[v] # "idle"
        BY <2>1, <3>2 DEF VacuumSysupdate, S3Vacuum
      <4>2. QED  BY <1>4, <3>2, <4>1 DEF StoreInv, OneJob, AfterImages
    <3>3. QED  BY <3>1, <3>2
  <2>2. ASSUME ~VacuumSysupdate(v)
        PROVE  job[c] \in {"vacuumImages"} \cup AfterImages /\ lists'[c]["s3Sysupdate"] = lists[c]["s3Sysupdate"]
    <3>1. CASE Stage(v)
      BY <1>4, <3>1 DEF Stage, local
    <3>2. CASE Start(v)
      <4>1. job'[c] \in {"idle", "filesVacuum"}
        BY <3>2 DEF Start, End
      <4>2. QED  BY <1>4, <4>1 DEF AfterImages
    <3>3. ASSUME NEW result, job[v] # "idle", End(v, result)
          PROVE  FALSE
      <4>1. job'[c] = "idle"
        BY <3>3 DEF End, StoreInv, OneJob
      <4>2. QED  BY <1>4, <4>1 DEF AfterImages
    <3>4. CASE Die(v) \/ FilesIncomplete(v) \/ Succeed(v)
      BY <3>3, <3>4 DEF Die, FilesIncomplete, Succeed
    <3>5. ASSUME job[v] # "idle", \A u \in Versions \ {v} : job'[u] = job[u],
                 \/ job'[v] \notin {"vacuumImages"} \cup AfterImages
                 \/ /\ job[v] \in {"vacuumImages"} \cup AfterImages
                    /\ lists'[v]["s3Sysupdate"] = lists[v]["s3Sysupdate"]
          PROVE  job[c] \in {"vacuumImages"} \cup AfterImages /\ lists'[c]["s3Sysupdate"] = lists[c]["s3Sysupdate"]
      BY <1>4, <3>5 DEF StoreInv, OneJob, AfterImages
    <3>6. CASE FilesVacuum(v) \/ FilesAppend(v) \/ FilesUpload(v) \/ Chop(v) \/ FilesSums(v) \/ Copy(v) \/ Remove(v) \/ Moved(v)
      BY <3>5, <3>6 DEF FilesVacuum, FilesAppend, FilesUpload, Chop, FilesSums, Copy, Remove, Moved, AfterImages
    <3>7. CASE VacuumImages(v)
      BY <3>5, <3>7 DEF VacuumImages, S3Vacuum, Lists
    <3>8. CASE Prune(v)
      BY <3>3, <3>5, <3>8 DEF Prune, local, AfterImages
    <3>9. CASE RootSums(v) \/ UploadChannel(v)
      BY <3>5, <3>9 DEF RootSums, UploadChannel, AfterImages
    <3>10. QED  BY <2>2, <3>1, <3>2, <3>4, <3>6, <3>7, <3>8, <3>9 DEF Step
  <2>3. QED  BY <2>1, <2>2 DEF GoodLive
<1>5. QED  BY <1>2, <1>3, <1>4 DEF GoodLive

LEMMA GoodFilesStays ==
    ASSUME Inv, ChannelOnFiles, NEW v \in Versions, Stage(v) \/ Start(v) \/ Step(v) \/ Die(v),
           NEW w \in Versions, GoodFiles(w)
    PROVE  GoodFiles(w)' \/ TooOld(OnFiles, w)
<1> USE DEF Inv, TypeOK, Goto
<1> DEFINE filing == {"filesAppend", "filesUpload", "chop", "filesSums"}
<1>1. ChannelTrimmed(v) /\ FilesTrimmed(v)
  BY StepTrims
<1> SUFFICES ASSUME ~TooOld(OnFiles, w)
             PROVE  GoodFiles(w)'
  OBVIOUS
<1>2. Shipped \subseteq files'[w]
  BY <1>1 DEF FilesTrimmed, GoodFiles
<1>3. "index" \in live'[w]
  BY <1>1, TooOldForBoth DEF ChannelTrimmed, GoodFiles
<1>4. Own(w) \subseteq sums'["filesSysupdate"]
  <2>1. CASE UploadChannel(v)
    <3>1. PICK f \in pending[v] : IF f[1] = "sums" THEN UploadSums(v, f[2]) ELSE UploadSig(v, f[2])
      BY <2>1 DEF UploadChannel
    <3>2. f[2] # "filesSysupdate" /\ Own(w) \subseteq sums["filesSysupdate"]
      BY <3>1 DEF ChannelFiles, GoodFiles
    <3>3. sums'["filesSysupdate"] = sums["filesSysupdate"]
      BY <3>1, <3>2, Uploaded DEF Lists
    <3>4. QED  BY <3>2, <3>3
  <2>2. CASE FilesSums(v) \/ RootSums(v)
    <3>1. Own(w) \subseteq sums["filesSysupdate"] /\ (job[v] = "filesSums" => Own(w) \subseteq lists[v]["filesSysupdate"])
      BY DEF GoodFiles
    <3>2. CASE job[v] = "filesSums"
      <4>1. UploadSums(v, "filesSysupdate")
        BY <2>2, <3>2 DEF FilesSums, RootSums
      <4>2. QED  BY <3>1, <3>2, <4>1, Uploaded DEF Lists
    <3>3. CASE job[v] # "filesSums"
      <4>1. UploadSums(v, "filesImages") \/ UNCHANGED sums
        BY <2>2, <3>3 DEF FilesSums, RootSums, UploadSig
      <4>2. sums'["filesSysupdate"] = sums["filesSysupdate"]
        BY <4>1, Uploaded DEF Lists
      <4>3. QED  BY <3>1, <4>2
    <3>4. QED  BY <3>2, <3>3
  <2>3. CASE UNCHANGED sums
    BY <2>3 DEF GoodFiles
  <2>4. QED  BY <2>1, <2>2, <2>3, SumsBy
<1>5. ASSUME NEW c \in Versions, job'[c] \in filing
      PROVE  Own(w) \subseteq lists'[c]["filesSysupdate"]
  <2>1. CASE FilesVacuum(v)
    <3>1. CASE c = v
      <4>1. lists'[v]["filesSysupdate"] = Listing(files, Remaining(files, Dirs), Dirs)
        BY <2>1 DEF FilesVacuum, Lists
      <4>2. Shipped \subseteq files[w] /\ files \in Trees /\ "sysupdate" \in Dirs
        BY DEF GoodFiles, Trees, Dirs
      <4>3. Own(w) \subseteq Listing(files, Remaining(files, Dirs), Dirs) \/ TooOld(Found(files, Dirs), w)
        BY <4>2, ListedOrTooOld
      <4>4. QED  BY <3>1, <4>1, <4>3 DEF OnFiles
    <3>2. CASE c # v
      <4>1. job'[c] = job[c] /\ job[v] # "idle"
        BY <2>1, <3>2 DEF FilesVacuum
      <4>2. QED  BY <1>5, <3>2, <4>1 DEF StoreInv, OneJob
    <3>3. QED  BY <3>1, <3>2
  <2>2. ASSUME ~FilesVacuum(v)
        PROVE  job[c] \in filing /\ lists[c]["filesSysupdate"] \subseteq lists'[c]["filesSysupdate"]
    <3>1. CASE Stage(v)
      BY <1>5, <3>1 DEF Stage, local
    <3>2. CASE Start(v)
      <4>1. job'[c] \in {"idle", "filesVacuum"}
        BY <3>2 DEF Start, End
      <4>2. QED  BY <1>5, <4>1
    <3>3. ASSUME NEW result, job[v] # "idle", End(v, result)
          PROVE  FALSE
      <4>1. job'[c] = "idle"
        BY <3>3 DEF End, StoreInv, OneJob
      <4>2. QED  BY <1>5, <4>1
    <3>4. CASE Die(v) \/ FilesIncomplete(v) \/ Succeed(v)
      BY <3>3, <3>4 DEF Die, FilesIncomplete, Succeed
    <3>5. ASSUME job[v] # "idle", \A u \in Versions \ {v} : job'[u] = job[u],
                 \/ job'[v] \notin filing
                 \/ job[v] \in filing /\ lists[v]["filesSysupdate"] \subseteq lists'[v]["filesSysupdate"]
          PROVE  job[c] \in filing /\ lists[c]["filesSysupdate"] \subseteq lists'[c]["filesSysupdate"]
      BY <1>5, <3>5 DEF StoreInv, OneJob
    <3>6. CASE FilesAppend(v)
      BY <3>5, <3>6 DEF FilesAppend, Lists
    <3>7. CASE FilesUpload(v) \/ Chop(v)
      BY <3>5, <3>7 DEF FilesUpload, Chop, local
    <3>8. CASE FilesSums(v) \/ Copy(v) \/ Remove(v) \/ Moved(v) \/ RootSums(v) \/ UploadChannel(v)
      BY <3>5, <3>8 DEF FilesSums, Copy, Remove, Moved, RootSums, UploadChannel
    <3>9. CASE VacuumSysupdate(v) \/ VacuumImages(v)
      BY <3>5, <3>9 DEF VacuumSysupdate, VacuumImages, S3Vacuum
    <3>10. CASE Prune(v)
      BY <3>3, <3>5, <3>10 DEF Prune, local
    <3>11. QED  BY <2>2, <3>1, <3>2, <3>4, <3>6, <3>7, <3>8, <3>9, <3>10 DEF Step
  <2>3. CASE FilesVacuum(v)
    BY <2>1, <2>3
  <2>4. CASE ~FilesVacuum(v)
    <3>1. job[c] \in filing /\ lists[c]["filesSysupdate"] \subseteq lists'[c]["filesSysupdate"]
      BY <2>2, <2>4
    <3>2. QED  BY <3>1 DEF GoodFiles
  <2>5. QED  BY <2>3, <2>4
<1>6. QED  BY <1>2, <1>3, <1>4, <1>5 DEF GoodFiles

\* What a job has moved is in the channel, and what it has listed on
\* files.kde.org is there, unless it is too old.
LEMMA MovedIsThere ==
    ASSUME Inv, Accounted, Progress, ChannelOnFiles, NEW v \in Versions, job[v] \in AfterMove
    PROVE  /\ Shipped \cup {"index"} \subseteq live[v] \/ TooOld(InChannel, v)
           /\ GoodFiles(v) \/ TooOld(OnFiles, v)
<1>1. staging[v] = {} /\ Shipped \subseteq files[v] /\ Own(v) \subseteq sums["filesSysupdate"]
  BY DEF Progress, GotTo, Late
<1>2. outcome[v] # "unbuilt"
  BY DEF Inv, StoreInv, Built, AfterMove, AfterImages
<1>3. ASSUME NEW k \in Shipped \cup {"index"} PROVE k \in live[v] \/ TooOld(InChannel, v)
  <2>1. k \in Kinds /\ DirOf(k) = "sysupdate"
    BY <1>3 DEF Shipped, Kinds, DirOf
  <2>2. QED  BY <1>1, <1>2, <2>1 DEF Accounted, Superseded, TooOld, InChannel
<1>4. \A c \in Versions : job[c] \notin {"filesAppend", "filesUpload", "chop", "filesSums"}
  BY DEF Inv, StoreInv, OneJob, AfterMove, AfterImages
<1>5. GoodFiles(v) \/ TooOld(OnFiles, v)
  BY <1>1, <1>3, <1>4, TooOldForBoth DEF GoodFiles
<1>6. QED  BY <1>3, <1>5

\* A job at its end has made its release good, unless it is too old.
LEMMA FinishedIsGood ==
    ASSUME Inv, Accounted, ListsReady, Progress, ChannelOnFiles, NEW v \in Versions,
           job[v] = "channel", pending[v] = {}
    PROVE  GoodLive(v) \/ TooOld(InChannel, v)
<1>1. SUFFICES ASSUME ~TooOld(InChannel, v) PROVE GoodLive(v)
  OBVIOUS
<1>2. Shipped \cup {"index"} \subseteq live[v]
  BY <1>1, MovedIsThere DEF AfterMove, AfterImages
<1>3. Ready(v)
  BY DEF ListsReady
<1>4. sums["s3Sysupdate"] = lists[v]["s3Sysupdate"] /\ Names(v, "s3Sysupdate", {"sysupdate"})
  BY <1>3 DEF Ready, AfterImages
<1>5. ASSUME NEW k \in Shipped PROVE <<v, k>> \in lists[v]["s3Sysupdate"]
  <2>1. k \in Kinds \ {"index"} /\ DirOf(k) \in {"sysupdate"}
    BY <1>5 DEF Shipped, Kinds, DirOf
  <2>2. ~Superseded(v, {"sysupdate"})
    BY <1>1 DEF Superseded, TooOld, InChannel
  <2>3. QED  BY <1>4, <2>1, <2>2 DEF Names
<1>6. Own(v) \subseteq lists[v]["s3Sysupdate"]
  BY <1>5 DEF Own
<1>7. \A c \in Versions : job[c] \in {"vacuumImages"} \cup AfterImages => c = v
  BY DEF Inv, StoreInv, OneJob, AfterImages
<1>8. QED  BY <1>2, <1>4, <1>6, <1>7 DEF GoodLive

\* Of the newest releases, as many as are kept, one is good if fewer are charged,
\* one apart that its job works at.
LEMMA SomeIsGood ==
    ASSUME NEW R \in SUBSET Versions, NEW good, NEW charged \in SUBSET Versions, NEW busy \in Versions,
           NEW r \in Versions, (r \in R /\ r \in good) \/ TooOld(R, r),
           NEW n \in Nat, n + 1 < Keep, Cardinality(charged) <= n,
           Newest(R) \subseteq good \cup charged \cup {busy}
    PROVE  \E g \in Newest(R) : g \in good
<1>1. SUFFICES ASSUME \A g \in Newest(R) : g \notin good PROVE FALSE
  OBVIOUS
<1>2. Newest(R) \in SUBSET (charged \cup {busy}) /\ Newest(R) \in SUBSET Versions
  BY <1>1 DEF Newest
<1>3. Cardinality(Newest(R)) <= n + 1 /\ Cardinality(Newest(R)) \in Nat
  <2>1. IsFiniteSet(charged) /\ Cardinality(charged) \in Nat
    BY VersionsFinite
  <2>2. IsFiniteSet(charged \cup {busy}) /\ Cardinality(charged \cup {busy}) <= Cardinality(charged) + 1
        /\ Cardinality(charged \cup {busy}) \in Nat
    <3>1. charged \cup {busy} \in SUBSET Versions
      OBVIOUS
    <3>2. Cardinality(charged \cup {busy}) = Cardinality(charged) \/ Cardinality(charged \cup {busy}) = Cardinality(charged) + 1
      BY <2>1, FS_AddElement
    <3>3. QED  BY <2>1, <3>1, <3>2, VersionsFinite
  <2>3. Cardinality(Newest(R)) <= Cardinality(charged \cup {busy}) /\ Cardinality(Newest(R)) \in Nat
    BY <1>2, <2>2, FS_Subset, VersionsFinite
  <2>4. QED  BY <2>1, <2>2, <2>3
<1>4. TooOld(R, r)
  BY <1>1, NewestOrTooOld
<1> DEFINE Kept == {w \in Newest(R) : w > r}
<1>5. Keep <= Cardinality(Kept)
  BY <1>4, KeptAreEnough DEF TooOld
<1>6. Cardinality(Kept) <= Cardinality(Newest(R)) /\ Cardinality(Kept) \in Nat
  <2>1. Kept \in SUBSET Newest(R)
    OBVIOUS
  <2>2. Kept \in SUBSET Versions
    BY <1>2
  <2> HIDE DEF Kept
  <2>3. QED  BY <1>2, <2>1, <2>2, VersionsFinite, FS_Subset
<1>7. QED
  <2> HIDE DEF Kept
  <2>1. QED  BY <1>3, <1>5, <1>6, PublishAssumption

\* While the budget lasts, each site has a good release among its newest.
LEMMA GoodOnes ==
    ASSUME Inv, Budget, Past, Released # {}, faults + 1 < Keep
    PROVE  /\ \E g \in Newest(InChannel) : GoodLive(g)
           /\ \E g \in Newest(OnFiles) : GoodFiles(g)
<1>1. PICK r \in Released : TRUE
  OBVIOUS
<1>2. r \in Versions /\ faults \in Nat
  BY <1>1 DEF Versions, Inv, TypeOK
<1>3. PICK busy \in Versions : \A w \in Versions : job[w] # "idle" => w = busy
  BY <1>2 DEF Inv, StoreInv, OneJob
<1> DEFINE live_ok == {w \in Versions : GoodLive(w)}
           files_ok == {w \in Versions : GoodFiles(w)}
<1>4. \A w \in Versions : ~Stuck(w) => w = busy
  BY <1>3 DEF Stuck
<1>5. /\ Newest(InChannel) \subseteq live_ok \cup ChargedLive \cup {busy} /\ ChargedLive \in SUBSET Versions
      /\ Newest(OnFiles) \subseteq files_ok \cup ChargedFiles \cup {busy} /\ ChargedFiles \in SUBSET Versions
  BY <1>4, SitesType DEF ChargedLive, ChargedFiles, Newest
<1>6. /\ Cardinality(ChargedLive) <= faults
      /\ Cardinality(ChargedFiles) <= faults
  BY DEF Budget
<1>7. (r \in InChannel /\ r \in live_ok) \/ TooOld(InChannel, r)
  BY <1>1, <1>2 DEF Past, GoodLive, InChannel, Found, Shipped, DirOf
<1>8. (r \in OnFiles /\ r \in files_ok) \/ TooOld(OnFiles, r)
  BY <1>1, <1>2 DEF Past, GoodFiles, OnFiles, Found, Shipped, DirOf, Dirs
<1>9. \E g \in Newest(InChannel) : g \in live_ok
  <2> HIDE DEF live_ok
  <2>1. QED  BY <1>2, <1>3, <1>5, <1>6, <1>7, SitesType, SomeIsGood
<1>10. \E g \in Newest(OnFiles) : g \in files_ok
  <2> HIDE DEF files_ok
  <2>1. QED  BY <1>2, <1>3, <1>5, <1>6, <1>8, SitesType, SomeIsGood
<1>11. QED  BY <1>9, <1>10

LEMMA UpdateInit == Init => UpdateInv
<1> SUFFICES ASSUME Init PROVE UpdateInv
  OBVIOUS
<1>1. ASSUME NEW w \in Released PROVE GoodLive(w) /\ GoodFiles(w)
  <2>1. live[w] = Kinds /\ files[w] = Kinds /\ w \in Versions
    BY DEF Init, Versions
  <2>2. \A c \in Versions : job[c] = "idle"
    BY DEF Init
  <2>3. \A l \in {"s3Sysupdate", "filesSysupdate"} : sums[l] = Listing(live, Released, {"sysupdate"})
    BY DEF Init, Lists
  <2>4. Own(w) \subseteq Listing(live, Released, {"sysupdate"})
    BY <2>1 DEF Own, Shipped, Kinds, Listing, DirOf
  <2>5. QED  BY <2>1, <2>2, <2>3, <2>4 DEF GoodLive, GoodFiles, Shipped, Kinds, AfterImages
<1>2. InChannel \subseteq Released /\ OnFiles \subseteq Released
  BY DEF Init, InChannel, OnFiles, Found
<1>3. ChargedLive = {} /\ ChargedFiles = {}
  BY <1>1, <1>2 DEF ChargedLive, ChargedFiles, Newest
<1>4. faults = 0 /\ Cardinality({}) = 0
  BY FS_EmptySet DEF Init
<1>5. Budget /\ Past
  BY <1>1, <1>3, <1>4 DEF Budget, Past
<1>6. QED  BY <1>5, ProgressInit, CrossInit DEF UpdateInv

\* Faults are never forgotten.
LEMMA FaultsStep ==
    ASSUME TypeOK, NEW v \in Versions, Stage(v) \/ Start(v) \/ Step(v) \/ Die(v)
    PROVE  /\ faults \in Nat /\ faults' \in Nat /\ faults <= faults'
           /\ Die(v) => faults' = faults + 1
<1>1. faults \in Nat /\ live \in Trees /\ files \in Trees
  BY DEF TypeOK, Trees
<1>2. ASSUME NEW tree \in Trees, NEW D, NEW stuck \in SUBSET Doomed(tree, D), MayStick(stuck)
      PROVE  faults' \in Nat /\ faults <= faults'
  BY <1>1, <1>2, DoomedFinite DEF MayStick
<1>3. CASE FilesVacuum(v)
  BY <1>1, <1>2, <1>3 DEF FilesVacuum, Die
<1>4. CASE VacuumSysupdate(v) \/ VacuumImages(v)
  BY <1>1, <1>2, <1>4 DEF VacuumSysupdate, VacuumImages, S3Vacuum, Die
<1>5. CASE Die(v)
  BY <1>1, <1>5 DEF Die
<1>6. CASE \/ Stage(v) \/ Start(v) \/ FilesUpload(v) \/ FilesAppend(v) \/ FilesIncomplete(v)
           \/ FilesSums(v) \/ Copy(v) \/ Remove(v) \/ Moved(v) \/ RootSums(v) \/ UploadChannel(v)
           \/ Succeed(v) \/ Chop(v) \/ Prune(v)
  BY <1>1, <1>6 DEF Stage, Start, FilesUpload, FilesAppend, FilesIncomplete, FilesSums, Copy,
              Remove, Moved, RootSums, UploadChannel, Succeed, Chop, Prune, Die
<1>7. QED  BY <1>1, <1>3, <1>4, <1>5, <1>6 DEF Step

\* A job leaves its release stuck only when it dies, or at its end, or in the pruning.
LEMMA StuckStep ==
    ASSUME Inv, Progress, NEW v \in Versions, Stage(v) \/ Start(v) \/ Step(v) \/ Die(v), Stuck(v)'
    PROVE  \/ Stuck(v) /\ job[v] # "copy"
           \/ Die(v) \/ Succeed(v)
           \/ Prune(v) /\ ~(Cardinality(Indexed) > 1)
<1> USE DEF Inv, TypeOK, Goto
<1>1. CASE Stage(v) \/ Start(v)
  BY <1>1 DEF Stage, Start, Stuck, StoreInv, Built
<1>2. CASE FilesVacuum(v)
  BY <1>2 DEF FilesVacuum, Stuck
<1>3. CASE FilesIncomplete(v)
  <2>1. job[v] = "filesAppend" /\ art[v] = staging[v] /\ ~(Needed \subseteq art[v])
    BY <1>3 DEF FilesIncomplete, Progress, GotTo
  <2>2. QED  BY <2>1 DEF Stuck, Needed, Kinds
<1>4. ASSUME job'[v] \notin {"idle", "filesVacuum", "filesAppend"}
      PROVE  FALSE
  BY <1>4 DEF Stuck
<1>5. CASE FilesUpload(v)
  BY <1>4, <1>5 DEF FilesUpload
<1>6. CASE FilesAppend(v) \/ FilesSums(v) \/ Copy(v) \/ Remove(v) \/ Moved(v) \/ RootSums(v) \/ Chop(v)
           \/ VacuumSysupdate(v) \/ VacuumImages(v)
  BY <1>4, <1>6 DEF FilesAppend, FilesSums, Copy, Remove, Moved, RootSums, Chop, VacuumSysupdate, VacuumImages, S3Vacuum
<1>7. CASE UploadChannel(v)
  BY <1>4, <1>7 DEF UploadChannel
<1>8. CASE Prune(v)
  BY <1>4, <1>8 DEF Prune
<1>9. QED  BY <1>1, <1>2, <1>3, <1>5, <1>6, <1>7, <1>8 DEF Step

\* A step is of one job, and the other releases stay as they are staged.
LEMMA OthersStay ==
    ASSUME TypeOK, NEW v \in Versions, Stage(v) \/ Start(v) \/ Step(v) \/ Die(v), NEW w \in Versions \ {v}
    PROVE  job'[w] = job[w] /\ staging'[w] = staging[w]
<1> USE DEF TypeOK, Goto
<1>1. CASE Stage(v) \/ Start(v) \/ Die(v) \/ FilesIncomplete(v) \/ Succeed(v) \/ Prune(v)
  BY <1>1 DEF Stage, Start, Die, FilesIncomplete, Succeed, Prune, End, local
<1>2. CASE FilesVacuum(v) \/ FilesUpload(v) \/ FilesAppend(v) \/ Chop(v) \/ FilesSums(v)
  BY <1>2 DEF FilesVacuum, FilesUpload, FilesAppend, Chop, FilesSums
<1>3. CASE Copy(v) \/ Moved(v) \/ RootSums(v) \/ UploadChannel(v) \/ VacuumSysupdate(v) \/ VacuumImages(v)
  BY <1>3 DEF Copy, Moved, RootSums, UploadChannel, VacuumSysupdate, VacuumImages, S3Vacuum
<1>4. CASE Remove(v)
  BY <1>4 DEF Remove
<1>5. QED  BY <1>1, <1>2, <1>3, <1>4 DEF Step

\* When the pruning finds fewer than two indexes, one is that of the job's
\* release, and no other release is good.
LEMMA PruneAlone ==
    ASSUME Inv, NEW v \in Versions, "index" \in live[v], ~(Cardinality(Indexed) > 1),
           \E g \in Newest(InChannel) : GoodLive(g)
    PROVE  GoodLive(v)
<1>1. PICK g \in Newest(InChannel) : GoodLive(g)
  OBVIOUS
<1>2. g \in Indexed /\ v \in Indexed /\ Indexed \in SUBSET Versions
  BY <1>1, SitesType DEF Indexed, GoodLive, Newest
<1>3. SUFFICES ASSUME g # v PROVE FALSE
  BY <1>1
<1>4. Cardinality({g}) = 1 /\ Cardinality({g} \cup {v}) = 2 /\ IsFiniteSet(Indexed)
  <2>1. IsFiniteSet({g}) /\ Cardinality({g}) = 1
    BY FS_Singleton
  <2>2. Cardinality({g} \cup {v}) = Cardinality({g}) + 1
    BY <1>3, <2>1, FS_AddElement
  <2>3. QED  BY <1>2, <2>1, <2>2, VersionsFinite
<1>5. {g} \cup {v} \in SUBSET Indexed
  BY <1>2
<1>6. Cardinality({g} \cup {v}) <= Cardinality(Indexed) /\ Cardinality(Indexed) \in Nat
  BY <1>2, <1>4, <1>5, FS_Subset, VersionsFinite
<1>7. QED  BY <1>4, <1>6

\* Only a job that dies makes a release cost a fault, and only its own.
LEMMA ChargedStep ==
    ASSUME Inv, Accounted, ListsReady, UpdateInv, Released # {}, faults + 1 < Keep,
           NEW v \in Versions, Stage(v) \/ Start(v) \/ Step(v) \/ Die(v)
    PROVE  /\ ChargedLive' \subseteq ChargedLive \cup {v} /\ ChargedFiles' \subseteq ChargedFiles \cup {v}
           /\ ~Die(v) => ChargedLive' \subseteq ChargedLive /\ ChargedFiles' \subseteq ChargedFiles
<1> USE DEF UpdateInv
<1>1. ChargedLive' \subseteq Newest(InChannel') /\ ChargedFiles' \subseteq Newest(OnFiles')
  BY DEF ChargedLive, ChargedFiles
<1>2. ChannelTrimmed(v) /\ FilesTrimmed(v)
  BY StepTrims DEF Inv
<1>3. ASSUME NEW w \in Versions \ {v}, Stuck(w)' PROVE Stuck(w)
  <2>1. job'[w] = job[w] /\ staging'[w] = staging[w]
    BY OthersStay DEF Inv
  <2>2. QED  BY <1>3, <2>1 DEF Stuck
<1>4. ASSUME NEW w \in ChargedLive'
      PROVE  /\ w \in Versions /\ ~TooOld(InChannel, w) /\ ~GoodLive(w) /\ Stuck(w)'
             /\ w \in InChannel => w \in Newest(InChannel)
             /\ w \in InChannel \/ (w = v /\ job[v] = "copy")
  <2>1. w \in Newest(InChannel') /\ w \in InChannel' /\ w \in Versions /\ ~GoodLive(w)' /\ Stuck(w)'
    BY <1>4, SitesType DEF ChargedLive, Newest
  <2>2. ~TooOld(InChannel', w)
    BY <2>1, SitesType, NewestOrTooOld
  <2>3. ~TooOld(InChannel, w)
    BY <1>2, <2>1, <2>2, TooOldKept
  <2>4. ~GoodLive(w)
    BY <2>1, <2>3, GoodLiveStays
  <2>5. w \in InChannel \/ (w = v /\ job[v] = "copy")
    BY <1>2, <2>1 DEF ChannelTrimmed
  <2>6. QED  BY <2>1, <2>3, <2>4, <2>5, SitesType, NewestOrTooOld
<1>5. ASSUME NEW w \in ChargedFiles'
      PROVE  /\ w \in Versions /\ ~TooOld(OnFiles, w) /\ ~GoodFiles(w) /\ Stuck(w)'
             /\ w \in OnFiles => w \in Newest(OnFiles)
             /\ w \in OnFiles \/ (w = v /\ job[v] = "filesUpload")
  <2>1. w \in Newest(OnFiles') /\ w \in OnFiles' /\ w \in Versions /\ ~GoodFiles(w)' /\ Stuck(w)'
    BY <1>5, SitesType DEF ChargedFiles, Newest
  <2>2. ~TooOld(OnFiles', w)
    BY <2>1, SitesType, NewestOrTooOld
  <2>3. ~TooOld(OnFiles, w)
    BY <1>2, <2>1, <2>2, TooOldKept
  <2>4. ~GoodFiles(w)
    BY <2>1, <2>3, GoodFilesStays
  <2>5. w \in OnFiles \/ (w = v /\ job[v] = "filesUpload")
    BY <1>2, <2>1 DEF FilesTrimmed
  <2>6. QED  BY <2>1, <2>3, <2>4, <2>5, SitesType, NewestOrTooOld
<1>6. ChargedLive' \subseteq ChargedLive \cup {v} /\ ChargedFiles' \subseteq ChargedFiles \cup {v}
  BY <1>3, <1>4, <1>5 DEF ChargedLive, ChargedFiles
<1>7. ASSUME ~Die(v), Stuck(v)'
      PROVE  \/ Stuck(v) /\ job[v] \notin {"copy", "filesUpload"}
             \/ /\ GoodLive(v) \/ TooOld(InChannel, v)
                /\ GoodFiles(v) \/ TooOld(OnFiles, v)
  <2>1. CASE Stuck(v) /\ job[v] # "copy"
    BY <2>1 DEF Stuck
  <2>2. CASE Succeed(v)
    <3>1. job[v] = "channel" /\ pending[v] = {}
      BY <2>2 DEF Succeed
    <3>2. QED  BY <3>1, FinishedIsGood, MovedIsThere DEF AfterMove, AfterImages
  <2>3. CASE Prune(v) /\ ~(Cardinality(Indexed) > 1)
    <3>1. job[v] \in AfterMove
      BY <2>3 DEF Prune, AfterMove, AfterImages
    <3>2. "index" \in live[v] \/ TooOld(InChannel, v)
      BY <3>1, MovedIsThere
    <3>3. GoodLive(v) \/ TooOld(InChannel, v)
      BY <2>3, <3>2, GoodOnes, PruneAlone
    <3>4. QED  BY <3>1, <3>3, MovedIsThere
  <2>4. QED  BY <1>7, <2>1, <2>2, <2>3, StuckStep
<1>8. ASSUME ~Die(v) PROVE ChargedLive' \subseteq ChargedLive
  BY <1>3, <1>4, <1>7, <1>8 DEF ChargedLive
<1>9. ASSUME ~Die(v) PROVE ChargedFiles' \subseteq ChargedFiles
  BY <1>3, <1>5, <1>7, <1>9 DEF ChargedFiles
<1>10. QED  BY <1>6, <1>8, <1>9

LEMMA BudgetStep ==
    ASSUME Inv, Accounted, ListsReady, UpdateInv, Released # {},
           NEW v \in Versions, Stage(v) \/ Start(v) \/ Step(v) \/ Die(v)
    PROVE  Budget'
<1>1. SUFFICES ASSUME faults' + 1 < Keep
               PROVE  Cardinality(ChargedLive') <= faults' /\ Cardinality(ChargedFiles') <= faults'
  BY DEF Budget
<1>2. /\ faults \in Nat /\ faults' \in Nat /\ faults <= faults'
      /\ Die(v) => faults' = faults + 1
  BY FaultsStep DEF Inv
<1>3. faults + 1 < Keep
  <2>1. Keep \in Nat /\ faults \in Nat /\ faults' \in Nat /\ faults <= faults'
    BY <1>2, PublishAssumption
  <2>2. \A m, n \in Nat : m <= n /\ n + 1 < Keep => m + 1 < Keep
    BY <2>1
  <2>3. QED  BY <1>1, <2>1, <2>2
<1>4. Cardinality(ChargedLive) <= faults /\ Cardinality(ChargedFiles) <= faults
  BY <1>3 DEF UpdateInv, Budget
<1>5. /\ ChargedLive \in SUBSET Versions /\ ChargedLive' \in SUBSET Versions
      /\ ChargedFiles \in SUBSET Versions /\ ChargedFiles' \in SUBSET Versions
  BY SitesType DEF ChargedLive, ChargedFiles, Newest
<1>6. ASSUME NEW S \in SUBSET Versions, NEW T \in SUBSET Versions, Cardinality(S) <= faults,
             T \subseteq S \cup {v}, ~Die(v) => T \subseteq S
      PROVE  Cardinality(T) <= faults'
  <2>1. IsFiniteSet(S) /\ Cardinality(S) \in Nat /\ Cardinality(T) \in Nat
    BY VersionsFinite
  <2>2. CASE ~Die(v)
    <3>1. Cardinality(T) <= Cardinality(S)
      BY <1>6, <2>1, <2>2, FS_Subset
    <3>2. QED  BY <1>2, <1>6, <2>1, <3>1
  <2>3. CASE Die(v)
    <3>1. S \cup {v} \in SUBSET Versions
      OBVIOUS
    <3>2. IsFiniteSet(S \cup {v}) /\ Cardinality(S \cup {v}) \in Nat
      BY <3>1, VersionsFinite
    <3>3. Cardinality(S \cup {v}) = Cardinality(S) \/ Cardinality(S \cup {v}) = Cardinality(S) + 1
      BY <2>1, FS_AddElement
    <3>4. Cardinality(T) <= Cardinality(S \cup {v})
      BY <1>6, <3>2, FS_Subset
    <3>5. QED  BY <1>2, <1>6, <2>1, <2>3, <3>2, <3>3, <3>4
  <2>4. QED  BY <2>2, <2>3
<1>7. QED  BY <1>3, <1>4, <1>5, <1>6, ChargedStep

LEMMA UpdateStep ==
    ASSUME Released # {}
    PROVE  Inv /\ Accounted /\ ListsReady /\ UpdateInv /\ [Next]_vars => UpdateInv'
<1> SUFFICES ASSUME Inv, Accounted, ListsReady, UpdateInv, [Next]_vars PROVE UpdateInv'
  OBVIOUS
<1>1. Progress'
  BY ProgressStep DEF UpdateInv
<1>2. CASE UNCHANGED vars
  <2>1. UNCHANGED <<live, files, sums, lists, job, staging, faults>>
    BY <1>2 DEF vars, sites, published, local
  <2>2. Budget' /\ Past' /\ ChannelOnFiles'
    BY <2>1 DEF UpdateInv, Budget, Past, ChannelOnFiles, InChannel, OnFiles, ChargedLive, ChargedFiles,
                GoodLive, GoodFiles, Stuck
  <2>3. QED  BY <1>1, <2>2 DEF UpdateInv
<1>3. CASE Next
  <2> PICK v \in Versions : Stage(v) \/ Start(v) \/ Step(v) \/ Die(v)
    BY <1>3 DEF Next
  <2>1. ChannelOnFiles'
    BY CrossStep DEF Inv, UpdateInv
  <2>2. Budget'
    BY BudgetStep
  <2>3. ASSUME NEW w \in Released
        PROVE  (GoodLive(w)' \/ TooOld(InChannel', w)) /\ (GoodFiles(w)' \/ TooOld(OnFiles', w))
    <3>1. w \in Versions /\ ChannelTrimmed(v) /\ FilesTrimmed(v)
      BY StepTrims DEF Inv, Versions
    <3>2. (GoodLive(w) \/ TooOld(InChannel, w)) /\ (GoodFiles(w) \/ TooOld(OnFiles, w))
      BY DEF UpdateInv, Past
    <3>3. (GoodLive(w)' \/ TooOld(InChannel, w)) /\ (GoodFiles(w)' \/ TooOld(OnFiles, w))
      BY <3>1, <3>2, GoodLiveStays, GoodFilesStays DEF UpdateInv
    <3>4. QED  BY <3>1, <3>3, TooOldKept
  <2>4. Past'
    BY <2>3 DEF Past
  <2>5. QED  BY <1>1, <2>1, <2>2, <2>4 DEF UpdateInv
<1>4. QED  BY <1>2, <1>3

-----------------------------------------------------------------------------
(* When the lists that updates read are signed.                             *)

\* Between its two uploads to files.kde.org a job has uploaded its own list; and as
\* long as nothing has failed, a list without its signature is being uploaded.
SigInv ==
    /\ \A v \in Versions : job[v] = "filesSig" => sums["filesSysupdate"] = lists[v]["filesSysupdate"]
    /\ faults = 0 =>
         \A l \in {"s3Sysupdate", "filesSysupdate"} : Signed(l) \/ Uploading(l)

LEMMA SigInit == Init => SigInv
BY DEF Init, SigInv, Signed

\* The steps that upload a signature, too, are the uploads.
LEMMA SigBy ==
    ASSUME NEW v \in Versions, Stage(v) \/ Start(v) \/ Step(v) \/ Die(v)
    PROVE  UploadChannel(v) \/ FilesSums(v) \/ RootSums(v) \/ UNCHANGED <<sums, sig>>
<1>1. CASE Stage(v) \/ Start(v) \/ Die(v) \/ FilesVacuum(v) \/ FilesUpload(v) \/ FilesAppend(v) \/ FilesIncomplete(v)
  BY <1>1 DEF Stage, Start, Die, FilesVacuum, FilesUpload, FilesAppend, FilesIncomplete, published
<1>2. CASE Copy(v) \/ Moved(v) \/ Remove(v) \/ Succeed(v) \/ Chop(v) \/ Prune(v) \/ VacuumSysupdate(v) \/ VacuumImages(v)
  BY <1>2 DEF Copy, Moved, Remove, Succeed, Chop, Prune, VacuumSysupdate, VacuumImages, S3Vacuum, published
<1>3. QED  BY <1>1, <1>2 DEF Step

\* No job but the one that takes the step is between two uploads.
LEMMA OwnUploads ==
    ASSUME Inv, NEW v \in Versions, Stage(v) \/ Start(v) \/ Step(v) \/ Die(v), job[v] # "idle"
    PROVE  /\ \A w \in Versions \ {v} : job[w] = "idle" /\ job'[w] = "idle"
           /\ \A l : Uploading(l) <=> \/ l = "filesSysupdate" /\ job[v] = "filesSig"
                                      \/ /\ job[v] = "channel"
                                         /\ ~(<<"sums", l>> \in pending[v] <=> <<"sig", l>> \in pending[v])
<1>1. \A w \in Versions \ {v} : job[w] = "idle" /\ job'[w] = "idle"
  BY OthersStay DEF Inv, StoreInv, OneJob
<1>2. QED  BY <1>1 DEF Uploading

LEMMA SigStep == Inv /\ Accounted /\ ListsReady /\ SigInv /\ [Next]_vars => SigInv'
<1> USE DEF Goto, TypeOK
<1> SUFFICES ASSUME Inv, Accounted, ListsReady, SigInv, [Next]_vars PROVE SigInv'
  OBVIOUS
<1>1. CASE UNCHANGED vars
  BY <1>1 DEF vars, sites, published, local, SigInv, Signed, Uploading
<1>2. CASE Next
  <2> PICK v \in Versions : Stage(v) \/ Start(v) \/ Step(v) \/ Die(v)
    BY <1>2 DEF Next
  <2>0. TypeOK
    BY DEF Inv
  <2>1. faults \in Nat /\ faults' \in Nat /\ faults <= faults' /\ (Die(v) => faults' = faults + 1)
    BY <2>0, FaultsStep
  <2>2. ASSUME faults' = 0 PROVE faults = 0 /\ ~Die(v)
    BY <2>0, <2>1, <2>2
  <2>3. CASE Stage(v)
    <3>1. UNCHANGED <<sums, sig, job, lists, pending, faults>>
      BY <2>0, <2>3 DEF Stage, published, local
    <3>2. QED  BY <3>1 DEF SigInv, Signed, Uploading
  <2>4. CASE Start(v)
    <3>1. \A w \in Versions : job[w] = "idle" /\ job'[w] \notin {"filesSig", "channel"}
      BY <2>0, <2>4 DEF Start, End
    <3>2. UNCHANGED <<sums, sig, faults>>
      BY <2>0, <2>4 DEF Start, published
    <3>3. QED  BY <3>1, <3>2 DEF SigInv, Signed, Uploading
  <2>5. CASE Step(v) \/ Die(v)
    <3>1. job[v] # "idle"
      BY <2>0, <2>5 DEF Die, Step, FilesVacuum, FilesAppend, FilesIncomplete, FilesUpload, Chop, FilesSums, Copy,
         Remove, Moved, VacuumSysupdate, VacuumImages, Prune, RootSums, UploadChannel, Succeed
    <3>2. /\ \A w \in Versions \ {v} : job[w] = "idle" /\ job'[w] = "idle"
          /\ \A l : Uploading(l) <=> \/ l = "filesSysupdate" /\ job[v] = "filesSig"
                                     \/ /\ job[v] = "channel"
                                        /\ ~(<<"sums", l>> \in pending[v] <=> <<"sig", l>> \in pending[v])
      BY <2>0, <3>1, OwnUploads
    <3>3. ASSUME NEW l, \/ l = "filesSysupdate" /\ job'[v] = "filesSig"
                        \/ /\ job'[v] = "channel"
                           /\ ~(<<"sums", l>> \in pending'[v] <=> <<"sig", l>> \in pending'[v])
          PROVE  Uploading(l)'
      BY <2>0, <3>3 DEF Uploading
    <3>4. CASE FilesSums(v)
      <4>1. CASE job[v] = "filesSums"
        <5>1. job'[v] = "filesSig" /\ UNCHANGED <<lists, faults, sig>> /\ UploadSums(v, "filesSysupdate")
          BY <2>0, <3>4, <4>1 DEF FilesSums, UploadSums, UploadSig, local
        <5>2. sums'["filesSysupdate"] = lists[v]["filesSysupdate"] /\ sums'["s3Sysupdate"] = sums["s3Sysupdate"]
          BY <2>0, <5>1 DEF UploadSums, Lists
        <5>3. Uploading("filesSysupdate")'
          BY <2>0, <3>3, <5>1
        <5>4. ~Uploading("s3Sysupdate")
          BY <2>0, <3>2, <4>1
        <5>5. QED  BY <3>2, <5>1, <5>2, <5>3, <5>4 DEF SigInv, Signed
      <4>2. CASE job[v] = "filesSig"
        <5>1. job'[v] = "copy" /\ UNCHANGED <<lists, faults, sums>> /\ UploadSig(v, "filesSysupdate")
          BY <2>0, <3>4, <4>2 DEF FilesSums, UploadSums, UploadSig, local
        <5>2. sig'["filesSysupdate"] = lists[v]["filesSysupdate"] /\ sig'["s3Sysupdate"] = sig["s3Sysupdate"]
          BY <2>0, <5>1 DEF UploadSig, Lists
        <5>3. Signed("filesSysupdate")'
          BY <2>0, <4>2, <5>1, <5>2 DEF SigInv, Signed
        <5>4. ~Uploading("s3Sysupdate")
          BY <2>0, <3>2, <4>2
        <5>5. QED  BY <3>2, <5>1, <5>2, <5>3, <5>4 DEF SigInv, Signed
      <4>3. QED  BY <3>4, <4>1, <4>2 DEF FilesSums
    <3>5. CASE RootSums(v)
      <4>1. job[v] \in {"rootSums", "rootSig"} /\ job'[v] # "filesSig" /\ UNCHANGED <<faults, lists>>
        BY <2>0, <3>5 DEF RootSums
      <4>2. \A l \in {"s3Sysupdate", "filesSysupdate"} : sums'[l] = sums[l] /\ sig'[l] = sig[l] /\ ~Uploading(l)
        <5>1. \A l \in {"s3Sysupdate", "filesSysupdate"} : sums'[l] = sums[l] /\ sig'[l] = sig[l]
          BY <2>0, <3>5 DEF RootSums, UploadSums, UploadSig, Lists
        <5>2. QED  BY <3>2, <4>1, <5>1
      <4>3. QED  BY <3>2, <4>1, <4>2 DEF SigInv, Signed
    <3>6. CASE UploadChannel(v)
      <4>1. PICK f \in pending[v] :
              /\ IF f[1] = "sums" THEN UploadSums(v, f[2]) ELSE UploadSig(v, f[2])
              /\ pending' = [pending EXCEPT ![v] = @ \ {f}]
        BY <2>0, <3>6 DEF UploadChannel
      <4>2. UNCHANGED <<job, lists, faults>> /\ job[v] = "channel"
        BY <2>0, <3>6 DEF UploadChannel
      <4>3. f \in ChannelFiles /\ pending'[v] = pending[v] \ {f}
        BY <2>0, <4>1
      <4>4. CASE f[2] # "s3Sysupdate"
        <5>1. \A l \in {"s3Sysupdate", "filesSysupdate"} : sums'[l] = sums[l] /\ sig'[l] = sig[l]
          BY <2>0, <4>1, <4>3, <4>4 DEF UploadSums, UploadSig, Lists, ChannelFiles
        <5>2. \A l \in {"s3Sysupdate", "filesSysupdate"} :
                /\ <<"sums", l>> \in pending'[v] <=> <<"sums", l>> \in pending[v]
                /\ <<"sig", l>> \in pending'[v] <=> <<"sig", l>> \in pending[v]
          BY <2>0, <4>3, <4>4 DEF ChannelFiles
        <5>3. \A l \in {"s3Sysupdate", "filesSysupdate"} : Uploading(l) => Uploading(l)'
          BY <2>0, <3>2, <3>3, <4>2, <5>2
        <5>4. QED  BY <3>2, <4>2, <5>1, <5>3 DEF SigInv, Signed
      <4>5. CASE f[2] = "s3Sysupdate"
        <5>1. sums'["filesSysupdate"] = sums["filesSysupdate"] /\ sig'["filesSysupdate"] = sig["filesSysupdate"]
          BY <2>0, <4>1, <4>5 DEF UploadSums, UploadSig, Lists
        <5>2. ~Uploading("filesSysupdate")
          <6>1. \A a : <<a, "filesSysupdate">> \notin ChannelFiles
            BY DEF ChannelFiles
          <6>2. pending[v] \subseteq ChannelFiles
            BY <2>0
          <6>3. <<"sums", "filesSysupdate">> \notin pending[v] /\ <<"sig", "filesSysupdate">> \notin pending[v]
            BY <6>1, <6>2
          <6>4. job[v] # "filesSig"
            BY <4>2
          <6>5. QED  BY <3>2, <6>3, <6>4
        <5>3. Signed("s3Sysupdate")' \/ Uploading("s3Sysupdate")'
          <6>1. CASE ~(<<"sums", "s3Sysupdate">> \in pending'[v] <=> <<"sig", "s3Sysupdate">> \in pending'[v])
            BY <2>0, <3>3, <4>2, <6>1
          <6>2. CASE <<"sums", "s3Sysupdate">> \notin pending'[v] /\ <<"sig", "s3Sysupdate">> \notin pending'[v]
            <7>1. Ready(v)'
              BY <2>0, <1>2, ReadyStep DEF ListsReady
            <7>2. QED  BY <4>2, <6>2, <7>1 DEF Ready, Signed
          <6>3. CASE <<"sums", "s3Sysupdate">> \in pending'[v] /\ <<"sig", "s3Sysupdate">> \in pending'[v]
            BY <2>0, <4>3, <4>5, <6>3 DEF ChannelFiles
          <6>4. QED  BY <6>1, <6>2, <6>3
        <5>4. QED  BY <3>2, <4>2, <5>1, <5>2, <5>3 DEF SigInv, Signed
      <4>6. QED  BY <4>4, <4>5
    <3>7. CASE ~(FilesSums(v) \/ RootSums(v) \/ UploadChannel(v))
      <4>1. UNCHANGED <<sums, sig>>
        BY <2>0, <3>7, SigBy
      <4>2. job'[v] # "filesSig"
        BY <2>0, <2>5, <3>7 DEF Die, End, Step, FilesVacuum, FilesAppend, FilesIncomplete, FilesUpload, Chop, Copy,
           Remove, Moved, VacuumSysupdate, VacuumImages, S3Vacuum, Prune, Succeed, local
      <4>3. ASSUME faults' = 0 PROVE \A l : ~Uploading(l)
        <5>1. ~Die(v)
          BY <2>0, <2>2, <4>3
        <5>2. job[v] \in {"filesSig", "channel"} => job[v] = "channel" /\ pending[v] = {}
          BY <2>0, <2>5, <3>7, <5>1 DEF Step, FilesVacuum, FilesAppend, FilesIncomplete, FilesUpload, Chop, Copy,
             Remove, Moved, VacuumSysupdate, VacuumImages, Prune, Succeed
        <5>3. QED  BY <3>2, <5>2
      <4>4. QED  BY <2>2, <3>2, <4>1, <4>2, <4>3 DEF SigInv, Signed
    <3>8. QED  BY <3>4, <3>5, <3>6, <3>7
  <2>6. QED  BY <2>3, <2>4, <2>5
<1>3. QED  BY <1>1, <1>2

LEMMA GoodIsOffered ==
    ASSUME Released # {}
    PROVE  Inv /\ UpdateInv /\ SigInv => Updatable
<1> SUFFICES ASSUME Inv, UpdateInv, SigInv, faults + 1 < Keep
             PROVE  /\ \/ \E v \in Newest(Found(live, {"sysupdate"})) : Offers(live, "s3Sysupdate", v)
                       \/ ~Signed("s3Sysupdate") /\ (Uploading("s3Sysupdate") \/ faults > 0)
                    /\ \/ \E v \in Newest(Found(files, Dirs)) : Offers(files, "filesSysupdate", v)
                       \/ ~Signed("filesSysupdate") /\ (Uploading("filesSysupdate") \/ faults > 0)
  BY DEF Updatable
<1>1. ASSUME NEW g \in Newest(InChannel), GoodLive(g), Signed("s3Sysupdate")
      PROVE  Offers(live, "s3Sysupdate", g)
  <2>1. g \in store
    BY <1>1, SitesType DEF Newest, GoodLive, Inv, StoreInv, Indexed
  <2>2. QED  BY <1>1, <2>1 DEF GoodLive, Offers, Own, Shipped
<1>2. ASSUME NEW g \in Newest(OnFiles), GoodFiles(g), Signed("filesSysupdate")
      PROVE  Offers(files, "filesSysupdate", g)
  <2>1. g \in store
    BY <1>2, SitesType DEF Newest, GoodFiles, Inv, StoreInv, Indexed
  <2>2. QED  BY <1>2, <2>1 DEF GoodFiles, Offers, Own, Shipped
<1>3. (\E g \in Newest(InChannel) : GoodLive(g)) /\ (\E g \in Newest(OnFiles) : GoodFiles(g))
  BY GoodOnes DEF UpdateInv
<1>4. \A l \in {"s3Sysupdate", "filesSysupdate"} : Signed(l) \/ Uploading(l) \/ faults > 0
  <2>1. faults \in Nat
    BY DEF Inv, TypeOK
  <2>2. faults = 0 \/ faults > 0
    BY <2>1
  <2>3. QED  BY <2>2 DEF SigInv
<1>5. QED  BY <1>1, <1>2, <1>3, <1>4 DEF InChannel, OnFiles

\* Once a release is published, and as long as fewer jobs have died than the vacuums
\* keep releases, less one, each site whose list is validly signed has a release to
\* update to among its newest; and before the first failure a list is without a valid
\* signature only while a job is between its two uploads: for any number of releases
\* and whatever they protect (upload.sh:157-217, upload-vacuum-v3, upload-vacuum).
THEOREM AlwaysUpdatable == ASSUME Released # {} PROVE Spec => []Updatable
<1>1. Init => Accounted /\ ListsReady /\ UpdateInv /\ SigInv
  BY AccountedInit, ReadyInit, UpdateInit, SigInit
<1>2. Inv /\ Accounted /\ ListsReady /\ UpdateInv /\ SigInv /\ [Next]_vars
        => (Accounted /\ ListsReady /\ UpdateInv /\ SigInv)'
  BY AccountedStep, ReadyStep, UpdateStep, SigStep
<1>3. Inv /\ UpdateInv /\ SigInv => Updatable
  BY GoodIsOffered
<1>4. QED  BY <1>1, <1>2, <1>3, Invariance, PTL DEF Spec

-----------------------------------------------------------------------------
(* What stays of a release whose job succeeded.                             *)

Gone(R, w) == TooOld(R, w) /\ w \notin Protected

\* What was built is staged or in the channel, and once the move has begun it is on
\* files.kde.org, or the vacuums were free to take it; a success leaves nothing staged.
Delivered ==
    \A w \in Versions : outcome[w] # "unbuilt" =>
      /\ \A k \in Shipped \cup {"index"} : k \in staging[w] \cup live[w] \/ Gone(InChannel, w)
      /\ staging[w] # Kinds => Shipped \subseteq files[w] \/ Gone(OnFiles, w)
      /\ outcome[w] = "ok" => staging[w] = {}

LEMMA DeliveredInit == Init => Delivered
BY DEF Init, Delivered, Shipped, Kinds

\* What a step does to the staging prefixes and the outcomes.
LEMMA StagingStep ==
    ASSUME Inv, Progress, NEW v \in Versions, Stage(v) \/ Start(v) \/ Step(v) \/ Die(v)
    PROVE  /\ \A w \in Versions \ {v} : staging'[w] = staging[w] /\ outcome'[w] = outcome[w]
           /\ staging'[v] # staging[v] =>
                \/ staging'[v] = Kinds /\ outcome'[v] = "staged"
                \/ /\ staging'[v] \subseteq staging[v] /\ outcome'[v] = outcome[v]
                   /\ Shipped \subseteq files[v] /\ UNCHANGED files
           /\ outcome'[v] # outcome[v] =>
                /\ outcome'[v] = "ok" => staging'[v] = {}
                /\ outcome[v] = "unbuilt" => staging'[v] = Kinds
<1> USE DEF Inv, TypeOK, End
<1>1. CASE Stage(v)
  BY <1>1 DEF Stage
<1>2. CASE Start(v)
  BY <1>2 DEF Start
<1>3. CASE Remove(v)
  <2>1. job[v] = "remove" /\ UNCHANGED <<files, outcome>>
    BY <1>3 DEF Remove, sites
  <2>2. Shipped \subseteq files[v]
    BY <2>1 DEF Progress, GotTo, Late
  <2>3. /\ \A w \in Versions \ {v} : staging'[w] = staging[w]
        /\ staging'[v] \subseteq staging[v]
    BY <1>3 DEF Remove
  <2>4. QED  BY <2>1, <2>2, <2>3
<1>4. CASE Succeed(v)
  <2>1. staging[v] = {}
    BY <1>4 DEF Succeed, Progress, GotTo, AfterMove, AfterImages
  <2>2. outcome[v] # "unbuilt"
    BY <1>4 DEF Succeed, StoreInv, Built
  <2>3. QED  BY <1>4, <2>1, <2>2 DEF Succeed
<1>5. CASE Die(v) \/ FilesIncomplete(v) \/ Prune(v)
  <2>1. UNCHANGED staging /\ job[v] # "idle"
    BY <1>5 DEF Die, FilesIncomplete, Prune
  <2>2. outcome' = outcome \/ outcome' = [outcome EXCEPT ![v] = "failed"]
    BY <1>5 DEF Die, FilesIncomplete, Prune
  <2>3. outcome[v] # "unbuilt"
    BY <2>1 DEF StoreInv, Built
  <2>4. QED  BY <2>1, <2>2, <2>3
<1>6. CASE UNCHANGED <<staging, outcome>>
  BY <1>6
<1>7. CASE FilesVacuum(v) \/ FilesAppend(v) \/ FilesUpload(v) \/ Chop(v) \/ FilesSums(v) \/ Copy(v) \/ Moved(v)
  BY <1>6, <1>7 DEF FilesVacuum, FilesAppend, FilesUpload, Chop, FilesSums, Copy, Moved
<1>8. CASE VacuumSysupdate(v) \/ VacuumImages(v) \/ RootSums(v) \/ UploadChannel(v)
  BY <1>6, <1>8 DEF VacuumSysupdate, VacuumImages, S3Vacuum, RootSums, UploadChannel
<1>9. QED  BY <1>1, <1>2, <1>3, <1>4, <1>5, <1>7, <1>8 DEF Step

LEMMA DeliveredStep ==
    ASSUME Inv, Progress, Delivered, NEW v \in Versions, Stage(v) \/ Start(v) \/ Step(v) \/ Die(v)
    PROVE  Delivered'
<1> SUFFICES ASSUME NEW w \in Versions, outcome'[w] # "unbuilt"
             PROVE  /\ \A k \in Shipped \cup {"index"} :
                         k \in staging'[w] \cup live'[w] \/ Gone(InChannel', w)
                    /\ staging'[w] # Kinds => Shipped \subseteq files'[w] \/ Gone(OnFiles', w)
                    /\ outcome'[w] = "ok" => staging'[w] = {}
  BY DEF Delivered, Gone, TooOld
<1>1. OutdatedOnly
  BY OutdatedStep DEF Next
<1>2. /\ Gone(InChannel, w) => Gone(InChannel', w)
      /\ Gone(OnFiles, w) => Gone(OnFiles', w)
  BY StepTrims, TooOldKept DEF Inv, Gone
<1>3. CASE outcome[w] = "unbuilt"
  <2>1. staging'[w] = Kinds /\ outcome'[w] # "ok"
    <3>1. staging'[w] = Kinds
      BY <1>3, StagingStep
    <3>2. outcome'[w] = "ok" => staging'[w] = {}
      BY <1>3, StagingStep
    <3>3. QED  BY <3>1, <3>2 DEF Kinds
  <2>2. QED  BY <2>1 DEF Shipped, Kinds
<1>4. CASE outcome[w] # "unbuilt"
  <2>1. ASSUME NEW k \in Shipped \cup {"index"}
        PROVE  k \in staging'[w] \cup live'[w] \/ Gone(InChannel', w)
    <3>1. k \in Kinds /\ DirOf(k) = "sysupdate"
      BY <2>1 DEF Shipped, Kinds, DirOf
    <3>2. k \in staging[w] \cup live[w] \/ Gone(InChannel, w)
      BY <1>4, <2>1 DEF Delivered
    <3>3. CASE k \in (staging[w] \cup live[w]) \ (staging'[w] \cup live'[w])
      <4>1. Outdated(w, live, {"sysupdate"})
        BY <1>1, <3>1, <3>3 DEF OutdatedOnly
      <4>2. QED  BY <1>2, <4>1 DEF Outdated, Gone, TooOld, InChannel
    <3>4. QED  BY <1>2, <3>2, <3>3
  <2>2. ASSUME staging'[w] # Kinds
        PROVE  Shipped \subseteq files'[w] \/ Gone(OnFiles', w)
    <3>1. Shipped \subseteq files[w] \/ Gone(OnFiles, w)
      BY <1>4, <2>2, StagingStep DEF Delivered
    <3>2. CASE Gone(OnFiles, w)
      BY <1>2, <3>2
    <3>3. ASSUME NEW k \in Shipped, k \in files[w] \ files'[w]
          PROVE  Gone(OnFiles', w)
      <4>1. Outdated(w, files, Dirs)
        BY <1>1, <3>3 DEF OutdatedOnly, Shipped, Kinds
      <4>2. QED  BY <1>2, <4>1 DEF Outdated, Gone, TooOld, OnFiles
    <3>4. QED  BY <3>1, <3>2, <3>3
  <2>3. ASSUME outcome'[w] = "ok" PROVE staging'[w] = {}
    <3>1. CASE outcome'[w] # outcome[w]
      BY <2>3, <3>1, StagingStep
    <3>2. CASE outcome'[w] = outcome[w]
      <4>1. staging[w] = {} /\ outcome'[w] # "staged"
        BY <1>4, <2>3, <3>2 DEF Delivered
      <4>2. QED  BY <4>1, StagingStep
    <3>3. QED  BY <3>1, <3>2
  <2>4. QED  BY <2>1, <2>2, <2>3
<1>5. QED  BY <1>3, <1>4

LEMMA DeliveredIsWhole == Inv /\ ChannelOnFiles /\ Delivered => FinishedIsInstallable
<1> SUFFICES ASSUME Inv, ChannelOnFiles, Delivered, NEW v \in Versions, outcome[v] = "ok"
             PROVE  /\ /\ v \in Newest(Found(live, {"sysupdate"})) \cup Protected
                       /\ Signed("s3Sysupdate") /\ Advertises("s3Sysupdate", v)
                       => Offers(live, "s3Sysupdate", v)
                    /\ /\ v \in Newest(Found(files, Dirs)) \cup Protected
                       /\ Signed("filesSysupdate") /\ Advertises("filesSysupdate", v)
                       => Offers(files, "filesSysupdate", v)
  BY DEF FinishedIsInstallable
<1>1. staging[v] = {}
  BY DEF Delivered
<1>2. Shipped \cup {"index"} \subseteq live[v] \/ Gone(InChannel, v)
  BY <1>1 DEF Delivered
<1>3. Shipped \subseteq files[v] \/ Gone(OnFiles, v)
  BY <1>1 DEF Delivered, Kinds
<1>4. "index" \in live[v] => v \in store
  BY DEF Inv, StoreInv, Indexed
<1>5. Gone(InChannel, v) => Gone(OnFiles, v)
  BY TooOldForBoth DEF Gone
<1>6. \A R \in SUBSET Versions : v \in Newest(R) \cup Protected => ~Gone(R, v)
  <2> SUFFICES ASSUME NEW R \in SUBSET Versions, v \in Newest(R) \cup Protected
               PROVE  ~Gone(R, v)
    OBVIOUS
  <2>1. CASE v \in Protected
    BY <2>1 DEF Gone
  <2>2. CASE v \in Newest(R)
    <3>1. v \in R
      BY <2>2 DEF Newest
    <3>2. QED  BY <2>2, <3>1, NewestOrTooOld DEF Gone
  <2>3. QED  BY <2>1, <2>2
<1>7. ASSUME v \in Newest(InChannel) \cup Protected, Signed("s3Sysupdate"), Advertises("s3Sysupdate", v)
      PROVE  Offers(live, "s3Sysupdate", v)
  <2>1. Shipped \cup {"index"} \subseteq live[v]
    BY <1>2, <1>6, <1>7, SitesType
  <2>2. QED  BY <1>4, <1>7, <2>1 DEF Offers, Advertises, Shipped
<1>8. ASSUME v \in Newest(OnFiles) \cup Protected, Signed("filesSysupdate"), Advertises("filesSysupdate", v)
      PROVE  Offers(files, "filesSysupdate", v)
  <2>1. Shipped \subseteq files[v] /\ "index" \in live[v]
    BY <1>2, <1>3, <1>5, <1>6, <1>8, SitesType
  <2>2. QED  BY <1>4, <1>8, <2>1 DEF Offers, Advertises, Shipped
<1>9. QED  BY <1>7, <1>8 DEF InChannel, OnFiles

\* A release whose publish job succeeded can be installed from each site whose signed
\* list advertises it, while it is protected or among the newest there, whatever jobs
\* have left half done since (publisher/main.go:79-109, upload-vacuum-v3/main.go:344-368).
THEOREM FinishedInstallable == Spec => []FinishedIsInstallable
<1>1. Init => Progress /\ ChannelOnFiles /\ Delivered
  BY ProgressInit, CrossInit, DeliveredInit
<1>2. Inv /\ Progress /\ ChannelOnFiles /\ Delivered /\ [Next]_vars
        => (Progress /\ ChannelOnFiles /\ Delivered)'
  <2> SUFFICES ASSUME Inv, Progress, ChannelOnFiles, Delivered, [Next]_vars
               PROVE  (Progress /\ ChannelOnFiles /\ Delivered)'
    OBVIOUS
  <2>1. Progress'
    BY ProgressStep
  <2>2. CASE UNCHANGED vars
    <3>1. UNCHANGED <<live, files, staging, outcome>>
      BY <2>2 DEF vars, sites
    <3>2. ChannelOnFiles' /\ Delivered'
      BY <3>1 DEF ChannelOnFiles, Delivered, Gone, TooOld, InChannel, OnFiles
    <3>3. QED  BY <2>1, <3>2
  <2>3. CASE Next
    <3> PICK v \in Versions : Stage(v) \/ Start(v) \/ Step(v) \/ Die(v)
      BY <2>3 DEF Next
    <3>1. ChannelOnFiles' /\ Delivered'
      BY CrossStep, DeliveredStep DEF Inv
    <3>2. QED  BY <2>1, <3>1
  <2>4. QED  BY <2>2, <2>3
<1>3. Inv /\ ChannelOnFiles /\ Delivered => FinishedIsInstallable
  BY DeliveredIsWhole
<1>4. QED  BY <1>1, <1>2, <1>3, Invariance, PTL DEF Spec
=============================================================================
