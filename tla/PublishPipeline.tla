--------------------------- MODULE PublishPipeline ---------------------------
(***************************************************************************)
(* Publishing a release of the default branch (upload.sh, publisher,        *)
(* upload-vacuum, upload-vacuum-v3).  The imaging job of a pipeline stages   *)
(* its artifacts under a prefix of its own; its publish job copies them to   *)
(* files.kde.org, adds their chunks to the chunk store, moves them into the  *)
(* channel on storage.kde.org, removes old releases, prunes the store and    *)
(* uploads new signed lists.  The job can die anywhere and be retried, and   *)
(* other pipelines publish in between; GitLab's resource group lets one job  *)
(* run at a time.                                                            *)
(*                                                                          *)
(* A release is its version, the time of its build.  "iso" stands for the    *)
(* .iso and the .torrent, "efi" for the .efi and the .tar.zst, "index" for   *)
(* the .erofs.caibx, which no list names and the pruning goes by.            *)
(***************************************************************************)
EXTENDS Integers, FiniteSets

CONSTANTS
    Pipelines,   \* the versions built while the model runs
    Released,    \* the versions published before
    Protected,   \* tombstone_images and golden_images of vacuum.yaml
    Keep,        \* the releases a vacuum keeps (4 in the code)
    MaxFaults    \* bound on jobs that die and deletions that fail

ASSUME PublishAssumption ==
    /\ Pipelines \subseteq Nat /\ Released \subseteq Nat
    /\ IsFiniteSet(Pipelines) /\ IsFiniteSet(Released)
    /\ Pipelines \cap Released = {}
    /\ Keep \in Nat \ {0} /\ MaxFaults \in Nat

Versions == Pipelines \cup Released
Kinds == {"iso", "efi", "caibx", "erofs", "index"}
Entries == Versions \X Kinds
Lists == {"filesSysupdate", "filesImages", "s3Sysupdate", "s3Images"}

VARIABLES
    staging,  \* per version: its artifacts in the staging prefix
    live,     \* per version: its artifacts in the channel on storage.kde.org
    files,    \* per version: its artifacts on files.kde.org
    store,    \* the versions all of whose chunks are in the chunk store
    sums,     \* the entries of each SHA256SUMS
    sig,      \* the entries each SHA256SUMS.gpg signs
    job,      \* per version: "idle", or what its publish job does next
    outcome,  \* per version: "unbuilt", "staged", or how its last job ended
    art,      \* per version: publish-artifacts, what its job has downloaded
    lists,    \* per version: the lists its job has written locally
    pending,  \* per version: the lists and signatures still to be uploaded
    faults

sites == <<live, files, store>>
published == <<sums, sig>>
local == <<art, lists, pending>>
vars == <<staging, sites, published, job, outcome, local, faults>>

NoLists == [l \in Lists |-> {}]
DirOf(k) == IF k = "iso" THEN "images" ELSE "sysupdate"
Dirs == {"images", "sysupdate"}

\* What a list made of the releases R of a tree names.
Listing(tree, R, D) ==
    {e \in R \X (Kinds \ {"index"}) : e[2] \in tree[e[1]] /\ DirOf(e[2]) \in D}

Init ==
    /\ staging = [v \in Versions |-> {}]
    /\ live = [v \in Versions |-> IF v \in Released THEN Kinds ELSE {}]
    /\ files = live
    /\ store = Released
    /\ sums = [l \in Lists |->
                 Listing(live, Released,
                         {IF l \in {"filesImages", "s3Images"} THEN "images" ELSE "sysupdate"})]
    /\ sig = sums
    /\ job = [v \in Versions |-> "idle"]
    /\ outcome = [v \in Versions |-> IF v \in Released THEN "ok" ELSE "unbuilt"]
    /\ art = [v \in Versions |-> {}]
    /\ lists = [v \in Versions |-> NoLists]
    /\ pending = [v \in Versions |-> {}]
    /\ faults = 0

-----------------------------------------------------------------------------
(* Jobs begin and end.                                                      *)

Goto(v, step) == job' = [job EXCEPT ![v] = step]

\* The machine of a job goes with it, and so does everything local.
End(v, result) ==
    /\ job' = [job EXCEPT ![v] = "idle"]
    /\ outcome' = [outcome EXCEPT ![v] = result]
    /\ art' = [art EXCEPT ![v] = {}]
    /\ lists' = [lists EXCEPT ![v] = NoLists]
    /\ pending' = [pending EXCEPT ![v] = {}]

\* The imaging job: publish jobs exist only when all is staged.
Stage(v) ==
    /\ outcome[v] = "unbuilt"
    /\ staging' = [staging EXCEPT ![v] = Kinds]
    /\ outcome' = [outcome EXCEPT ![v] = "staged"]
    /\ UNCHANGED <<sites, published, job, local, faults>>

\* The publish job, the manual one, or a retry of either.
Start(v) ==
    /\ v \in Pipelines /\ outcome[v] # "unbuilt"
    /\ \A w \in Versions : job[w] = "idle"
    /\ IF staging[v] = {}
         THEN End(v, "ok")
         ELSE /\ art' = [art EXCEPT ![v] = staging[v]]
              /\ Goto(v, "filesVacuum")
              /\ UNCHANGED <<outcome, lists, pending>>
    /\ UNCHANGED <<staging, sites, published, faults>>

\* A timeout, a lost runner or any call that fails: set -e, log.Fatal.
Die(v) ==
    /\ job[v] # "idle"
    /\ faults < MaxFaults
    /\ faults' = faults + 1
    /\ End(v, "failed")
    /\ UNCHANGED <<staging, sites, published>>

-----------------------------------------------------------------------------
(* The vacuums.                                                             *)

\* Mutant: for len(toKeep) >= 4.
NewestButOne(R) == {v \in R : Cardinality({w \in R : w > v}) < Keep - 1}

Newest(R) == {v \in R : Cardinality({w \in R : w > v}) < Keep}

\* Mutant: protected releases are not exempt.
ToDeleteUnprotected(R) == R \ Newest(R)

\* buildDeletionSlice: all but the newest and the protected.
ToDelete(R) == R \ (Newest(R) \cup Protected)

Found(tree, D) == {v \in Versions : \E k \in tree[v] : DirOf(k) \in D}

\* The tree without the doomed releases' artifacts, those apart that stay
\* because their deletion fails, which is only logged.
Purge(tree, doomed, D, stuck) ==
    [v \in Versions |->
       IF v \in doomed THEN {k \in tree[v] : DirOf(k) \notin D \/ <<v, k>> \in stuck}
       ELSE tree[v]]

Doomed(tree, D) ==
    {e \in ToDelete(Found(tree, D)) \X Kinds : e[2] \in tree[e[1]] /\ DirOf(e[2]) \in D}

MayStick(stuck) ==
    /\ faults + Cardinality(stuck) <= MaxFaults
    /\ faults' = faults + Cardinality(stuck)

Remaining(tree, D) == Found(tree, D) \ ToDelete(Found(tree, D))

FilesVacuum(v) ==
    /\ job[v] = "filesVacuum"
    /\ \E stuck \in SUBSET Doomed(files, Dirs) :
         /\ files' = Purge(files, ToDelete(Found(files, Dirs)), Dirs, stuck)
         /\ MayStick(stuck)
    /\ lists' = [lists EXCEPT ![v].filesSysupdate =
                   Listing(files, Remaining(files, Dirs), Dirs)]
    /\ Goto(v, "filesAppend")
    /\ UNCHANGED <<staging, live, store, published, outcome, art, pending>>

\* Mutant: the list also names what was just deleted.
S3VacuumListsAll(v, D, list, next) ==
    /\ \E stuck \in SUBSET Doomed(live, D) :
         /\ live' = Purge(live, ToDelete(Found(live, D)), D, stuck)
         /\ MayStick(stuck)
    /\ lists' = [lists EXCEPT ![v] = [l \in Lists |->
                   IF l \in list THEN Listing(live, Found(live, D), D) ELSE @[l]]]
    /\ Goto(v, next)
    /\ UNCHANGED <<staging, files, store, published, outcome, art, pending>>

\* One directory of the channel.  The list is made from what was there before.
\* The deletions are one step: no other job runs, and a job that dies among them
\* leaves what failing deletions leave.
S3Vacuum(v, D, list, next) ==
    /\ \E stuck \in SUBSET Doomed(live, D) :
         /\ live' = Purge(live, ToDelete(Found(live, D)), D, stuck)
         /\ MayStick(stuck)
    /\ lists' = [lists EXCEPT ![v] = [l \in Lists |->
                   IF l \in list THEN Listing(live, Remaining(live, D), D) ELSE @[l]]]
    /\ Goto(v, next)
    /\ UNCHANGED <<staging, files, store, published, outcome, art, pending>>

VacuumSysupdate(v) ==
    /\ job[v] = "vacuum"
    /\ S3Vacuum(v, {"sysupdate"}, {"s3Sysupdate"}, "vacuumImages")

\* The list of the images goes to both sites.
VacuumImages(v) ==
    /\ job[v] = "vacuumImages"
    /\ S3Vacuum(v, {"images"}, {"s3Images", "filesImages"}, "prune")

\* The releases whose .erofs.caibx is in the channel.
Indexed == {v \in Versions : "index" \in live[v]}

\* Mutant: goes by the newest indexes, and forgets the protected releases.
PruneNewest(v) ==
    /\ job[v] = "prune"
    /\ store' = store \cap Newest(Indexed)
    /\ Goto(v, "rootSums")
    /\ UNCHANGED <<outcome, local>>
    /\ UNCHANGED <<staging, live, files, published, faults>>

\* Fewer than two indexes are a reason to stop.
Prune(v) ==
    /\ job[v] = "prune"
    /\ IF Cardinality(Indexed) > 1
         THEN /\ store' = store \cap Indexed
              /\ Goto(v, "rootSums")
              /\ UNCHANGED <<outcome, local>>
         ELSE End(v, "failed") /\ UNCHANGED store
    /\ UNCHANGED <<staging, live, files, published, faults>>

-----------------------------------------------------------------------------
(* From the staging prefix to files.kde.org, the store and the channel.     *)

\* The globs of sha256sum, chmod and scp each want a match.
Needed == {"iso", "efi", "erofs", "caibx"}

FilesAppend(v) ==
    /\ job[v] = "filesAppend"
    /\ Needed \subseteq art[v]
    /\ lists' = [lists EXCEPT ![v].filesSysupdate =
                   @ \cup ({v} \X {"efi", "erofs", "caibx"})]
    /\ Goto(v, "filesUpload")
    /\ UNCHANGED <<staging, sites, published, outcome, art, pending, faults>>

FilesIncomplete(v) ==
    /\ job[v] = "filesAppend"
    /\ ~(Needed \subseteq art[v])
    /\ End(v, "failed")
    /\ UNCHANGED <<staging, sites, published, faults>>

ScpRank == [iso |-> 1, efi |-> 2, erofs |-> 3, caibx |-> 4, index |-> 5]
MoveRank == [iso |-> 1, efi |-> 2, caibx |-> 3, erofs |-> 4, index |-> 5]
First(k, rank, S) == k \in S /\ \A j \in S : rank[k] <= rank[j]

FilesUpload(v) ==
    /\ job[v] = "filesUpload"
    /\ IF art[v] \subseteq files[v]
         THEN Goto(v, "chop") /\ UNCHANGED files
         ELSE /\ \E k \in Kinds :
                   /\ First(k, ScpRank, art[v] \ files[v])
                   /\ files' = [files EXCEPT ![v] = @ \cup {k}]
              /\ UNCHANGED job
    /\ UNCHANGED <<staging, live, store, published, outcome, local, faults>>

\* desync chop, here as the moment the last chunk is stored.
Chop(v) ==
    /\ job[v] = "chop"
    /\ store' = store \cup {v}
    /\ Goto(v, "filesSums")
    /\ UNCHANGED <<staging, live, files, published, outcome, local, faults>>

\* publisher: ComposeObject, then RemoveObject, in the order of the keys.
Copy(v) ==
    /\ job[v] = "copy"
    /\ \E k \in Kinds :
         /\ First(k, MoveRank, staging[v])
         /\ live' = [live EXCEPT ![v] = @ \cup {k}]
    /\ Goto(v, "remove")
    /\ UNCHANGED <<staging, files, store, published, outcome, local, faults>>

Remove(v) ==
    /\ job[v] = "remove"
    /\ \E k \in Kinds :
         /\ First(k, MoveRank, staging[v])
         /\ staging' = [staging EXCEPT ![v] = @ \ {k}]
    /\ Goto(v, "copy")
    /\ UNCHANGED <<sites, published, outcome, local, faults>>

Moved(v) ==
    /\ job[v] = "copy"
    /\ staging[v] = {}
    /\ Goto(v, "vacuum")
    /\ UNCHANGED <<staging, sites, published, outcome, local, faults>>

-----------------------------------------------------------------------------
(* The lists and their signatures.                                          *)

UploadSums(v, l) == sums' = [sums EXCEPT ![l] = lists[v][l]] /\ UNCHANGED sig
UploadSig(v, l) == sig' = [sig EXCEPT ![l] = lists[v][l]] /\ UNCHANGED sums

\* scp SHA256SUMS SHA256SUMS.gpg, one after the other.
FilesSums(v) ==
    /\ \/ job[v] = "filesSums" /\ UploadSums(v, "filesSysupdate") /\ Goto(v, "filesSig")
       \/ job[v] = "filesSig" /\ UploadSig(v, "filesSysupdate") /\ Goto(v, "copy")
    /\ UNCHANGED <<staging, sites, outcome, local, faults>>

ChannelFiles == {"sums", "sig"} \X {"s3Sysupdate", "s3Images"}

\* Mutant: the list of the images for files.kde.org goes to the channel as well.
RootSumsToo(v) ==
    /\ \/ job[v] = "rootSums" /\ UploadSums(v, "filesImages") /\ Goto(v, "rootSig")
          /\ UNCHANGED pending
       \/ job[v] = "rootSig" /\ UploadSig(v, "filesImages") /\ Goto(v, "channel")
          /\ pending' = [pending EXCEPT ![v] = {"sums", "sig"} \X Lists]
    /\ UNCHANGED <<staging, sites, outcome, art, lists, faults>>

RootSums(v) ==
    /\ \/ job[v] = "rootSums" /\ UploadSums(v, "filesImages") /\ Goto(v, "rootSig")
          /\ UNCHANGED pending
       \/ job[v] = "rootSig" /\ UploadSig(v, "filesImages") /\ Goto(v, "channel")
          /\ pending' = [pending EXCEPT ![v] = ChannelFiles]
    /\ UNCHANGED <<staging, sites, outcome, art, lists, faults>>

\* The uploader stores the four files in any order.
UploadChannel(v) ==
    /\ job[v] = "channel"
    /\ \E f \in pending[v] :
         /\ IF f[1] = "sums" THEN UploadSums(v, f[2]) ELSE UploadSig(v, f[2])
         /\ pending' = [pending EXCEPT ![v] = @ \ {f}]
    /\ UNCHANGED <<staging, sites, job, outcome, art, lists, faults>>

Succeed(v) ==
    /\ job[v] = "channel"
    /\ pending[v] = {}
    /\ End(v, "ok")
    /\ UNCHANGED <<staging, sites, published, faults>>

Step(v) ==
    \/ FilesVacuum(v) \/ FilesAppend(v) \/ FilesIncomplete(v) \/ FilesUpload(v)
    \/ Chop(v) \/ FilesSums(v)
    \/ Copy(v) \/ Remove(v) \/ Moved(v)
    \/ VacuumSysupdate(v) \/ VacuumImages(v) \/ Prune(v)
    \/ RootSums(v) \/ UploadChannel(v) \/ Succeed(v)

Next == \E v \in Versions : Stage(v) \/ Start(v) \/ Step(v) \/ Die(v)

Spec == Init /\ [][Next]_vars

-----------------------------------------------------------------------------
(* Properties.                                                              *)

JobSteps == {"idle", "filesVacuum", "filesAppend", "filesUpload", "chop", "filesSums",
             "filesSig", "copy", "remove", "vacuum", "vacuumImages", "prune", "rootSums",
             "rootSig", "channel"}

\* The types of the variables.
TypeOK ==
    /\ staging \in [Versions -> SUBSET Kinds]
    /\ live \in [Versions -> SUBSET Kinds]
    /\ files \in [Versions -> SUBSET Kinds]
    /\ store \subseteq Versions
    /\ sums \in [Lists -> SUBSET Entries]
    /\ sig \in [Lists -> SUBSET Entries]
    /\ job \in [Versions -> JobSteps]
    /\ outcome \in [Versions -> {"unbuilt", "staged", "failed", "ok"}]
    /\ art \in [Versions -> SUBSET Kinds]
    /\ lists \in [Versions -> [Lists -> SUBSET Entries]]
    /\ pending \in [Versions -> SUBSET ChannelFiles]
    /\ faults \in 0 .. MaxFaults

\* An index reaches the channel only with its chunks in the store, and the
\* pruning takes no chunk of an index in the channel, whatever other pipelines
\* have chopped, moved or abandoned in between.
AbstractStore == INSTANCE ChunkStore WITH chunks <- store, referenced <- Indexed
ImplementsChunkStore == AbstractStore!Spec

\* systemd-sysupdate reads a list only when its signature is of this list.
Signed(l) == sums[l] = sig[l]

\* What an update to v needs from a site: the files its transfers match, listed
\* and there, and the chunks.
Offers(tree, l, v) ==
    /\ Signed(l)
    /\ v \in store
    /\ \A k \in {"efi", "caibx", "erofs"} : k \in tree[v] /\ <<v, k>> \in sums[l]

\* A job is between the upload of the list and that of its signature.
Uploading(l) ==
    \E v \in Versions :
        \/ l = "filesSysupdate" /\ job[v] = "filesSig"
        \/ job[v] = "channel" /\ ~(<<"sums", l>> \in pending[v] <=> <<"sig", l>> \in pending[v])

\* While fewer jobs die than the vacuum keeps releases, less one, a site whose list
\* is validly signed has a release to update to, and it is one of its newest, not
\* just one that is protected: although old releases go before the lists without
\* them are there, although abandoned releases count among those kept, and although
\* files.kde.org relies on chunks that the channel's indexes protect.  The list is
\* without a valid signature only between the two uploads of a job (upload.sh:191
\* and 217), or after a failure: then there is no update to anything.
Updatable ==
    faults + 1 < Keep =>
        /\ \/ \E v \in Newest(Found(live, {"sysupdate"})) : Offers(live, "s3Sysupdate", v)
           \/ ~Signed("s3Sysupdate") /\ (Uploading("s3Sysupdate") \/ faults > 0)
        /\ \/ \E v \in Newest(Found(files, Dirs)) : Offers(files, "filesSysupdate", v)
           \/ ~Signed("filesSysupdate") /\ (Uploading("filesSysupdate") \/ faults > 0)

\* A list names the three files of v.
Advertises(l, v) == {v} \X {"efi", "caibx", "erofs"} \subseteq sums[l]

\* A release whose publish job succeeded is whole, with its chunks, wherever a
\* signed list advertises it and while it is protected or one of the newest, however
\* many jobs have died: what they left half done takes nothing from it.
FinishedIsInstallable ==
    \A v \in Versions : outcome[v] = "ok" =>
        /\ /\ v \in Newest(Found(live, {"sysupdate"})) \cup Protected
           /\ Signed("s3Sysupdate") /\ Advertises("s3Sysupdate", v)
           => Offers(live, "s3Sysupdate", v)
        /\ /\ v \in Newest(Found(files, Dirs)) \cup Protected
           /\ Signed("filesSysupdate") /\ Advertises("filesSysupdate", v)
           => Offers(files, "filesSysupdate", v)

Outdated(v, tree, D) ==
    /\ v \notin Protected
    /\ Keep <= Cardinality({w \in Found(tree, D) : w > v})

\* An artifact is never lost on its way from the staging prefix to the channel,
\* and leaves a site only when enough newer releases are there: not when they
\* are published out of order, nor when a deletion is repeated.
OnlyOutdatedGoes ==
    [][\A v \in Versions : \A k \in Kinds :
         /\ k \in (staging[v] \cup live[v]) \ (staging'[v] \cup live'[v])
              => Outdated(v, live, {DirOf(k)})
         /\ k \in files[v] \ files'[v] => Outdated(v, files, Dirs)]_vars

\* The channel advertises v, validly signed, or v is already too old for it; and
\* it names nothing that is gone.
Advertised(v) ==
    /\ \A l \in {"s3Sysupdate", "s3Images"} :
         /\ sums[l] = sig[l]
         /\ \A e \in sums[l] : e[2] \in live[e[1]]
    /\ \A k \in Kinds \ {"index"} :
         \/ <<v, k>> \in sums[IF k = "iso" THEN "s3Images" ELSE "s3Sysupdate"]
         \/ Keep <= Cardinality({w \in Found(live, {DirOf(k)}) : w > v})

\* A job that came to the end of upload.sh has its release advertised.
FinishedIsCurrent ==
    [][\A v \in Versions :
         job[v] = "channel" /\ outcome'[v] = "ok" /\ job'[v] = "idle" => Advertised(v)']_vars

\* "No staged artifacts found ...; assuming this staging prefix was already
\* published" (upload.sh:153): a job that succeeds has its release advertised.
OkIsAdvertised ==
    [][\A v \in Versions :
         outcome[v] # "ok" /\ outcome'[v] = "ok" => Advertised(v)']_vars

\* "Upload sums to files.kde.org only after the chunk store is ready"
\* (upload.sh:190): a release is first listed there when its chunks are stored.
ListedAfterChop ==
    [][\A v \in Versions :
         <<v, "caibx">> \in sums["filesSysupdate"]' \ sums["filesSysupdate"] => v \in store]_vars
=============================================================================
