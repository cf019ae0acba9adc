---------------------------- MODULE ImagingRetry ----------------------------
(***************************************************************************)
(* One pipeline whose imaging job is retried.  stage() of upload.sh uploads *)
(* the build, object by object, to a prefix of the bucket that is named     *)
(* after the pipeline: what an attempt that died has left there stays, and  *)
(* the next attempt adds a build with another version.  publish() takes all *)
(* it finds under the prefix.                                               *)
(*                                                                          *)
(* PublishPipeline has one build per pipeline and other pipelines around    *)
(* it; here the channel starts empty and nothing is vacuumed.  Kinds stand  *)
(* for files as they do there.                                              *)
(***************************************************************************)
EXTENDS Integers, FiniteSets

CONSTANTS
    MaxBuilds,  \* bound: attempts of the imaging job
    MaxFaults   \* bound: attempts of either job that die

ASSUME RetryAssumption == MaxBuilds \in Nat \ {0} /\ MaxFaults \in Nat

Versions == 1 .. MaxBuilds   \* a build's version is its time
Kinds == {"iso", "efi", "caibx", "erofs", "index"}
Objects == Versions \X Kinds

VARIABLES
    built,    \* the version of the latest build; 0: none yet
    imaging,  \* the imaging job: "off", "uploading" or "done"
    staged,   \* the objects under the staging prefix
    job,      \* the publish job: "idle", or what it does next
    outcome,  \* how it ended: "none", "failed" or "ok"
    art,      \* publish-artifacts, what it has downloaded
    files,    \* the objects on files.kde.org
    live,     \* the objects in the channel on storage.kde.org
    store,    \* the versions whose chunks are in the chunk store
    offered,  \* per site: the objects its SHA256SUMS of sysupdate names
    faults

imagingVars == <<built, imaging>>
sites == <<files, live, store, offered>>
vars == <<imagingVars, staged, job, outcome, art, sites, faults>>

Init ==
    /\ built = 0 /\ imaging = "off"
    /\ staged = {}
    /\ job = "idle" /\ outcome = "none" /\ art = {}
    /\ files = {} /\ live = {} /\ store = {}
    /\ offered = [s \in {"files", "channel"} |-> {}]
    /\ faults = 0

Fault == faults < MaxFaults /\ faults' = faults + 1

-----------------------------------------------------------------------------
(* The imaging job.  One that failed can be retried.                        *)

Build ==
    /\ imaging = "off" /\ built < MaxBuilds
    /\ built' = built + 1
    /\ imaging' = "uploading"
    /\ UNCHANGED <<staged, job, outcome, art, sites, faults>>

\* The uploader stores the objects in any order.
UploadObject(k) ==
    /\ imaging = "uploading" /\ <<built, k>> \notin staged
    /\ staged' = staged \cup {<<built, k>>}
    /\ UNCHANGED <<imagingVars, job, outcome, art, sites, faults>>

\* Mutant: the job succeeds although its uploader has not come to the end.
ImagingEndsAnyhow ==
    /\ imaging = "uploading" /\ <<built, "efi">> \in staged
    /\ imaging' = "done"
    /\ UNCHANGED <<built, staged, job, outcome, art, sites, faults>>

ImagingEnds ==
    /\ imaging = "uploading" /\ {built} \X Kinds \subseteq staged
    /\ imaging' = "done"
    /\ UNCHANGED <<built, staged, job, outcome, art, sites, faults>>

ImagingDies ==
    /\ imaging = "uploading" /\ Fault
    /\ imaging' = "off"
    /\ UNCHANGED <<built, staged, job, outcome, art, sites>>

-----------------------------------------------------------------------------
(* The publish job: it needs the imaging job.                               *)

End(result) == job' = "idle" /\ outcome' = result /\ art' = {}
Goto(from, to) == job = from /\ job' = to

\* Mutants: does not wait for the imaging job; or does not download the image.
StartUnneeding ==
    /\ imaging # "off" /\ job = "idle" /\ staged # {}
    /\ art' = staged /\ job' = "append"
    /\ UNCHANGED <<imagingVars, staged, outcome, sites, faults>>
StartWithoutImage ==
    /\ imaging = "done" /\ job = "idle" /\ staged # {}
    /\ art' = {e \in staged : e[2] # "erofs"} /\ job' = "append"
    /\ UNCHANGED <<imagingVars, staged, outcome, sites, faults>>

Start ==
    /\ imaging = "done" /\ job = "idle"
    /\ IF staged = {}
         THEN End("ok")
         ELSE art' = staged /\ job' = "append" /\ UNCHANGED outcome
    /\ UNCHANGED <<imagingVars, staged, sites, faults>>

Die ==
    /\ job # "idle" /\ Fault
    /\ End("failed")
    /\ UNCHANGED <<imagingVars, staged, sites>>

Having(k) == {e \in art : e[2] = k}

\* A glob without a match fails sha256sum, chmod or scp.
Append ==
    /\ job = "append"
    /\ IF \A k \in {"iso", "efi", "caibx", "erofs"} : Having(k) # {}
         THEN job' = "files" /\ UNCHANGED <<outcome, art>>
         ELSE End("failed")
    /\ UNCHANGED <<imagingVars, staged, sites, faults>>

KindRank == [iso |-> 1, efi |-> 2, caibx |-> 3, erofs |-> 4, index |-> 5]
ScpRank == [iso |-> 1, efi |-> 2, erofs |-> 3, caibx |-> 4, index |-> 5]

\* scp goes by the kinds, then by the versions; the publisher by the keys: images
\* first, then the versions, then the kinds.
ScpKey(e) == ScpRank[e[2]] * (MaxBuilds + 1) + e[1]
MoveKey(e) == IF e[2] = "iso" THEN e[1] ELSE 5 * e[1] + KindRank[e[2]] + MaxBuilds
FirstBy(Key(_), S) == {e \in S : \A f \in S : Key(e) <= Key(f)}

FilesUpload ==
    /\ job = "files"
    /\ IF art \subseteq files
         THEN job' = "chop" /\ UNCHANGED files
         ELSE files' = files \cup FirstBy(ScpKey, art \ files) /\ UNCHANGED job
    /\ UNCHANGED <<imagingVars, staged, outcome, art, live, store, offered, faults>>

\* Mutant: takes the newest of several indexes and images.
ChopNewest ==
    /\ Goto("chop", "filesSums")
    /\ store' = store \cup {built}
    /\ UNCHANGED <<imagingVars, staged, outcome, art, files, live, offered, faults>>

\* `desync chop` wants one index and one image; the globs give it all there are.
Chop ==
    /\ job = "chop"
    /\ IF Cardinality(Having("caibx")) = 1 /\ Cardinality(Having("erofs")) = 1
         THEN /\ job' = "filesSums"
              /\ store' = store \cup {e[1] : e \in Having("erofs")}
              /\ UNCHANGED <<outcome, art>>
         ELSE End("failed") /\ UNCHANGED store
    /\ UNCHANGED <<imagingVars, staged, files, live, offered, faults>>

FilesSums ==
    /\ Goto("filesSums", "copy")
    /\ offered' = [offered EXCEPT !.files =
                     @ \cup {e \in art : e[2] \in {"efi", "caibx", "erofs"}}]
    /\ UNCHANGED <<imagingVars, staged, outcome, art, files, live, store, faults>>

Copy ==
    /\ Goto("copy", "remove") /\ staged # {}
    /\ live' = live \cup FirstBy(MoveKey, staged)
    /\ UNCHANGED <<imagingVars, staged, outcome, art, files, store, offered, faults>>

Remove ==
    /\ Goto("remove", "copy")
    /\ staged' = staged \ FirstBy(MoveKey, staged)
    /\ UNCHANGED <<imagingVars, outcome, art, sites, faults>>

Moved ==
    /\ Goto("copy", "channelSums") /\ staged = {}
    /\ UNCHANGED <<imagingVars, staged, outcome, art, sites, faults>>

ChannelSums ==
    /\ job = "channelSums"
    /\ offered' = [offered EXCEPT !.channel = {e \in live : e[2] \in {"efi", "caibx", "erofs"}}]
    /\ End("ok")
    /\ UNCHANGED <<imagingVars, staged, files, live, store, faults>>

Next ==
    \/ Build \/ (\E k \in Kinds : UploadObject(k)) \/ ImagingEnds \/ ImagingDies
    \/ Start \/ Append \/ FilesUpload \/ Chop \/ FilesSums
    \/ Copy \/ Remove \/ Moved \/ ChannelSums \/ Die

Spec == Init /\ [][Next]_vars

-----------------------------------------------------------------------------
(* Properties.                                                              *)

\* The types of the variables; the publish job runs only beside a finished
\* imaging job, so that nothing is added under the prefix while it moves.
TypeOK ==
    /\ built \in 0 .. MaxBuilds /\ imaging \in {"off", "uploading", "done"}
    /\ staged \subseteq Objects /\ art \subseteq Objects
    /\ files \subseteq Objects /\ live \subseteq Objects
    /\ job \in {"idle", "append", "files", "chop", "filesSums", "copy", "remove", "channelSums"}
    /\ outcome \in {"none", "failed", "ok"}
    /\ store \subseteq Versions
    /\ offered \in [{"files", "channel"} -> SUBSET Objects]
    /\ faults \in 0 .. MaxFaults
    /\ job # "idle" => imaging = "done"

Site(s) == IF s = "files" THEN files ELSE live

\* Whatever builds are mixed under the prefix, a version whose index a site offers
\* can be installed: its chunks are stored (upload.sh:183-191) and its boot entry
\* and image are offered and there.
OfferedIsWhole ==
    \A s \in DOMAIN offered : \A v \in Versions :
      <<v, "caibx">> \in offered[s] =>
        /\ v \in store
        /\ {v} \X {"efi", "caibx", "erofs"} \subseteq offered[s] \cap Site(s)

\* A job that ends well has the build that was tested in the channel, all of it:
\* leftovers of another build do not stand in for what an earlier attempt has
\* moved already (upload.sh:148-155).
OkIsInChannel == outcome = "ok" => {built} \X Kinds \subseteq live

\* A publish job no one interrupts fails only over what an earlier attempt, of the
\* imaging job or of its own, has left (upload.sh:164-187).
FailsOverLeftovers ==
    [][job # "idle" /\ job' = "idle" /\ outcome' = "failed" /\ faults' = faults =>
         \/ live # {}
         \/ \E e \in art : e[1] # built]_vars

\* "signed and staged to storage for publishing, gated on OpenQA tests"
\* (.gitlab-ci.yml:23), "Upload to the per-job staging prefix" (upload.sh:117):
\* only the build that was tested gets into the channel.
OnlyTestedGoes == [][\A e \in live' \ live : e[1] = built]_vars
=============================================================================
