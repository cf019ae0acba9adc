------------------------- MODULE ImagingRetryProofs -------------------------
(***************************************************************************)
(* What holds of ImagingRetry for any number of attempts and faults: what   *)
(* is offered can be installed, a success has the tested build in the       *)
(* channel, and only leftovers make a job fail that no one interrupts.      *)
(***************************************************************************)
EXTENDS ImagingRetry, FiniteSetTheorems, TLAPS

USE RetryAssumption

\* Nothing is published beside an unfinished imaging job, and nothing of the
\* build that was tested gets lost between the prefix and the channel.
Staging ==
    /\ imaging = "done" => {built} \X Kinds \subseteq staged \cup live
    /\ imaging # "done" => live = {} /\ job = "idle" /\ outcome = "none"
    /\ imaging # "off" => built \in Versions
    /\ \A e \in staged : e[1] <= built

\* The publisher moves in the order of the keys, over all attempts.
OrderKept == \A e \in live : \A f \in staged : MoveKey(e) <= MoveKey(f)

\* No index and no image but that of the build: nothing else gets past the chop.
Alone ==
    /\ built \in store
    /\ \A e \in staged \cup live : e[2] \in {"caibx", "erofs"} => e[1] = built

\* What the publish job knows when it gets to a step.
JobFacts ==
    /\ job \in {"append", "files", "chop", "filesSums"} => art = staged
    /\ job \in {"files", "chop"} =>
         \A k \in {"efi", "caibx", "erofs"} : Having(k) # {}
    /\ job \in {"chop", "filesSums"} => art \subseteq files
    /\ job = "filesSums" => {built} \X {"efi", "caibx", "erofs"} \subseteq art
    /\ job = "remove" => FirstBy(MoveKey, staged) \subseteq live
    /\ job = "channelSums" => staged = {}
    /\ job \in {"filesSums", "copy", "remove", "channelSums"} => Alone

RetryInv ==
    /\ TypeOK /\ Staging /\ OrderKept /\ (live # {} => Alone) /\ JobFacts
    /\ OkIsInChannel /\ OfferedIsWhole

-----------------------------------------------------------------------------
(* Helpers.                                                                 *)

LEMMA ObjectParts ==
    ASSUME NEW e \in Objects
    PROVE  e = <<e[1], e[2]>> /\ e[1] \in Versions /\ e[2] \in Kinds /\ e[1] \in Nat
  BY DEF Objects, Versions

LEMMA OldestFirst ==
    ASSUME NEW v \in Versions, NEW w \in Versions,
           MoveKey(<<w, "efi">>) <= MoveKey(<<v, "efi">>)
    PROVE  w <= v
<1>1. v \in Nat /\ w \in Nat /\ MaxBuilds \in Nat
  BY DEF Versions
<1>2. /\ MoveKey(<<w, "efi">>) = 5 * w + 2 + MaxBuilds
      /\ MoveKey(<<v, "efi">>) = 5 * v + 2 + MaxBuilds
  BY DEF MoveKey, KindRank
<1> QED
  BY <1>1, <1>2

LEMMA FaultsBounded ==
    ASSUME TypeOK, Fault
    PROVE  faults' \in 0 .. MaxFaults
  BY DEF TypeOK, Fault

LEMMA FirstAreStaged == FirstBy(MoveKey, staged) \subseteq staged
  BY DEF FirstBy

\* `desync chop` gets one file of a kind.
LEMMA OnlyOne ==
    ASSUME TypeOK, NEW k \in Kinds, Cardinality(Having(k)) = 1
    PROVE  \E e \in art : Having(k) = {e}
<1>1. IsFiniteSet(Versions)
  BY FS_Interval DEF Versions
<1>2. IsFiniteSet(Kinds)
  <2>1. IsFiniteSet({"iso"})
    BY FS_Singleton
  <2>2. IsFiniteSet({"iso"} \cup {"efi"})
    BY <2>1, FS_AddElement
  <2>3. IsFiniteSet({"iso"} \cup {"efi"} \cup {"caibx"})
    BY <2>2, FS_AddElement
  <2>4. IsFiniteSet({"iso"} \cup {"efi"} \cup {"caibx"} \cup {"erofs"})
    BY <2>3, FS_AddElement
  <2>5. IsFiniteSet({"iso"} \cup {"efi"} \cup {"caibx"} \cup {"erofs"} \cup {"index"})
    BY <2>4, FS_AddElement
  <2>6. Kinds = {"iso"} \cup {"efi"} \cup {"caibx"} \cup {"erofs"} \cup {"index"}
    BY DEF Kinds
  <2> QED
    BY <2>5, <2>6
<1>3. IsFiniteSet(Objects)
  BY <1>1, <1>2, FS_Product DEF Objects
<1>4. Having(k) \in SUBSET Objects
  BY DEF Having, TypeOK
<1>5. IsFiniteSet(Having(k))
  BY <1>3, <1>4, FS_Subset
<1>6. \E e : Having(k) = {e}
  BY <1>5, FS_Singleton
<1> QED
  BY <1>6 DEF Having

\* Offers stay whole while nothing offered changes but what backs it grows.
LEMMA OffersKept ==
    ASSUME OfferedIsWhole, UNCHANGED offered,
           files \subseteq files', live \subseteq live', store \subseteq store'
    PROVE  OfferedIsWhole'
<1>1. \A s \in DOMAIN offered : Site(s) \subseteq Site(s)'
  BY DEF Site
<1> QED
  BY <1>1 DEF OfferedIsWhole

-----------------------------------------------------------------------------
(* The invariant: the imaging job.                                          *)

LEMMA InitRetry == Init => RetryInv
<1> SUFFICES ASSUME Init PROVE RetryInv
  OBVIOUS
<1>1. TypeOK
  BY DEF Init, TypeOK
<1>2. Staging /\ OrderKept /\ JobFacts /\ OkIsInChannel /\ live = {}
  BY DEF Init, Staging, OrderKept, JobFacts, OkIsInChannel
<1>3. OfferedIsWhole
  BY DEF Init, OfferedIsWhole
<1> QED
  BY <1>1, <1>2, <1>3 DEF RetryInv

LEMMA ImagingKeeps ==
    ASSUME RetryInv,
           Build \/ (\E k \in Kinds : UploadObject(k)) \/ ImagingEnds \/ ImagingDies
    PROVE  RetryInv'
<1> USE DEF RetryInv, sites
<1>1. imaging # "done" /\ live = {} /\ job = "idle" /\ outcome = "none"
  BY DEF Build, UploadObject, ImagingEnds, ImagingDies, Staging
<1>2. UNCHANGED <<job, outcome, art, sites>>
  BY DEF Build, UploadObject, ImagingEnds, ImagingDies
<1>3. TypeOK'
  <2>1. CASE Build
    BY <1>1, <1>2, <2>1 DEF Build, TypeOK
  <2>2. ASSUME NEW k \in Kinds, UploadObject(k) PROVE TypeOK'
    <3>1. built \in Versions
      BY <2>2 DEF UploadObject, Staging
    <3> QED
      BY <1>1, <1>2, <2>2, <3>1 DEF UploadObject, imagingVars, TypeOK, Objects
  <2>3. CASE ImagingEnds
    BY <1>1, <1>2, <2>3 DEF ImagingEnds, TypeOK
  <2>4. CASE ImagingDies
    BY <1>1, <1>2, <2>4, FaultsBounded DEF ImagingDies, TypeOK
  <2> QED
    BY <2>1, <2>2, <2>3, <2>4
<1>4. Staging'
  <2>1. built \in Nat /\ \A e \in staged : e[1] \in Nat
    BY ObjectParts DEF TypeOK
  <2>2. CASE Build
    BY <1>1, <1>2, <2>1, <2>2 DEF Build, Staging, Versions, TypeOK
  <2>3. ASSUME NEW k \in Kinds, UploadObject(k) PROVE Staging'
    BY <1>1, <1>2, <2>1, <2>3 DEF UploadObject, imagingVars, Staging
  <2>4. CASE ImagingEnds
    BY <1>1, <1>2, <2>4 DEF ImagingEnds, Staging
  <2>5. CASE ImagingDies
    BY <1>1, <1>2, <2>5 DEF ImagingDies, Staging
  <2> QED
    BY <2>2, <2>3, <2>4, <2>5
<1>5. OrderKept' /\ (live # {} => Alone)' /\ JobFacts' /\ OkIsInChannel'
  BY <1>1, <1>2 DEF OrderKept, JobFacts, OkIsInChannel
<1>6. OfferedIsWhole'
  BY <1>2, OffersKept
<1> QED
  BY <1>3, <1>4, <1>5, <1>6

-----------------------------------------------------------------------------
(* The invariant: the publish job.                                          *)

\* An imaging job that is done stays done, and adds nothing to the prefix.
LEMMA PublishKeepsStaging ==
    ASSUME RetryInv, imaging = "done", UNCHANGED imagingVars,
           staged' \subseteq staged, staged \cup live \subseteq staged' \cup live'
    PROVE  Staging'
  BY DEF RetryInv, Staging, imagingVars

LEMMA AloneKept ==
    ASSUME Alone, UNCHANGED built, store \subseteq store',
           staged' \cup live' \subseteq staged \cup live
    PROVE  Alone'
  BY DEF Alone

LEMMA StartKeeps ==
    ASSUME RetryInv, Start
    PROVE  RetryInv'
<1> USE DEF RetryInv, Start, sites, imagingVars, End
<1>1. imaging = "done" /\ UNCHANGED <<built, imaging, staged, sites, faults>>
  OBVIOUS
<1>2. TypeOK'
  BY DEF TypeOK
<1>3. Staging'
  BY PublishKeepsStaging
<1>4. OrderKept' /\ (live # {} => Alone)' /\ OfferedIsWhole'
  BY OffersKept DEF OrderKept, Alone
<1>5. JobFacts'
  BY DEF JobFacts
<1>6. OkIsInChannel'
  <2>1. CASE staged = {}
    BY <2>1 DEF OkIsInChannel, Staging
  <2>2. CASE staged # {}
    BY <2>2 DEF OkIsInChannel
  <2> QED
    BY <2>1, <2>2
<1> QED
  BY <1>2, <1>3, <1>4, <1>5, <1>6

\* What a job does to itself: the sites and the prefix stay.
LEMMA DieKeeps ==
    ASSUME RetryInv, Die
    PROVE  RetryInv'
<1> USE DEF RetryInv, Die, sites, imagingVars, End
<1>1. imaging = "done"
  BY DEF TypeOK
<1>2. TypeOK'
  BY FaultsBounded DEF TypeOK
<1>3. Staging'
  BY <1>1, PublishKeepsStaging
<1>4. OrderKept' /\ (live # {} => Alone)' /\ OfferedIsWhole'
  BY OffersKept DEF OrderKept, Alone
<1>5. JobFacts' /\ OkIsInChannel'
  BY DEF JobFacts, OkIsInChannel
<1> QED
  BY <1>2, <1>3, <1>4, <1>5

LEMMA AppendKeeps ==
    ASSUME RetryInv, Append
    PROVE  RetryInv'
<1> USE DEF RetryInv, Append, sites, imagingVars, End
<1>1. imaging = "done"
  BY DEF TypeOK
<1>2. TypeOK'
  BY DEF TypeOK
<1>3. Staging'
  BY <1>1, PublishKeepsStaging
<1>4. OrderKept' /\ (live # {} => Alone)' /\ OfferedIsWhole'
  BY OffersKept DEF OrderKept, Alone
<1>5. JobFacts' /\ OkIsInChannel'
  BY DEF JobFacts, OkIsInChannel, Having
<1> QED
  BY <1>2, <1>3, <1>4, <1>5

LEMMA FilesUploadKeeps ==
    ASSUME RetryInv, FilesUpload
    PROVE  RetryInv'
<1> USE DEF RetryInv, FilesUpload, sites, imagingVars
<1>1. imaging = "done"
  BY DEF TypeOK
<1>2. files \subseteq files' /\ files' \subseteq files \cup art
  BY DEF FirstBy
<1>3. TypeOK'
  BY <1>2 DEF TypeOK
<1>4. Staging'
  BY <1>1, PublishKeepsStaging
<1>5. OrderKept' /\ (live # {} => Alone)' /\ OfferedIsWhole'
  BY <1>2, OffersKept DEF OrderKept, Alone
<1>6. JobFacts' /\ OkIsInChannel'
  BY <1>2 DEF JobFacts, OkIsInChannel, Having
<1> QED
  BY <1>3, <1>4, <1>5, <1>6

\* One index and one image under the prefix are those of the build, and its boot
\* entry is there: moved before them, it would have been the last one.
LEMMA ChopsTheBuild ==
    ASSUME RetryInv, job = "chop",
           Cardinality(Having("caibx")) = 1, Cardinality(Having("erofs")) = 1
    PROVE  /\ Having("caibx") = {<<built, "caibx">>}
           /\ Having("erofs") = {<<built, "erofs">>}
           /\ <<built, "efi">> \in art
<1> USE DEF RetryInv
<1>1. imaging = "done" /\ art = staged /\ staged \subseteq Objects /\ built \in Versions
  BY DEF TypeOK, JobFacts, Staging
<1>2. ASSUME NEW k \in {"caibx", "erofs"}, Cardinality(Having(k)) = 1
      PROVE  Having(k) = {<<built, k>>}
  <2>1. PICK e \in art : Having(k) = {e}
    BY <1>2, OnlyOne DEF Kinds
  <2>2. e \in Objects /\ e[2] = k
    BY <1>1, <2>1 DEF Having
  <2>3. e = <<e[1], k>>
    BY <2>2, ObjectParts
  <2>4. CASE live = {}
    <3>1. <<built, k>> \in art
      BY <1>1, <2>4 DEF Staging, Kinds
    <3>2. <<built, k>> \in Having(k)
      BY <3>1 DEF Having
    <3> QED
      BY <2>1, <3>2
  <2>5. CASE live # {}
    <3>1. e[1] = built
      BY <1>1, <2>2, <2>5 DEF Alone
    <3> QED
      BY <2>1, <2>3, <3>1
  <2> QED
    BY <2>4, <2>5
<1>3. <<built, "efi">> \in art
  <2>1. PICK e \in art : e[2] = "efi"
    BY DEF JobFacts, Having
  <2>2. e = <<e[1], "efi">> /\ e[1] \in Versions /\ e[1] \in Nat /\ e[1] <= built
    BY <1>1, <2>1, ObjectParts DEF Staging
  <2>3. ASSUME <<built, "efi">> \notin staged PROVE FALSE
    <3>1. <<built, "efi">> \in live
      BY <1>1, <2>3 DEF Staging, Kinds
    <3>2. MoveKey(<<built, "efi">>) <= MoveKey(<<e[1], "efi">>)
      BY <1>1, <2>1, <2>2, <3>1 DEF OrderKept
    <3>3. built <= e[1]
      BY <1>1, <2>2, <3>2, OldestFirst
    <3>4. built = e[1]
      BY <1>1, <2>2, <3>3 DEF Versions
    <3> QED
      BY <1>1, <2>1, <2>2, <2>3, <3>4
  <2> QED
    BY <1>1, <2>3
<1> QED
  BY <1>2, <1>3

LEMMA ChopKeeps ==
    ASSUME RetryInv, Chop
    PROVE  RetryInv'
<1> USE DEF RetryInv, Chop, sites, imagingVars, End
<1>1. imaging = "done"
  BY DEF TypeOK
<1>2. store \subseteq store' /\ store' \subseteq store \cup {e[1] : e \in art}
  BY DEF Having
<1>3. TypeOK'
  <2>1. {e[1] : e \in art} \subseteq Versions
    BY ObjectParts DEF TypeOK
  <2> QED
    BY <1>2, <2>1 DEF TypeOK
<1>4. Staging'
  BY <1>1, PublishKeepsStaging
<1>5. OrderKept' /\ (live # {} => Alone)' /\ OfferedIsWhole'
  BY <1>2, OffersKept DEF OrderKept, Alone
<1>6. JobFacts'
  <2>1. CASE Cardinality(Having("caibx")) = 1 /\ Cardinality(Having("erofs")) = 1
    <3>1. /\ Having("caibx") = {<<built, "caibx">>}
          /\ Having("erofs") = {<<built, "erofs">>}
          /\ <<built, "efi">> \in art
      BY <2>1, ChopsTheBuild
    <3>2. art = staged /\ art \subseteq files
      BY DEF JobFacts
    <3>3. \A e \in staged : e[2] \in {"caibx", "erofs"} => e[1] = built
      BY <3>1, <3>2 DEF Having
    <3>4. built \in store'
      <4>1. store' = store \cup {e[1] : e \in Having("erofs")}
        BY <2>1
      <4>2. <<built, "erofs">> \in Having("erofs")
        BY <3>1
      <4> QED
        BY <4>1, <4>2
    <3>5. Alone'
      BY <3>3, <3>4 DEF Alone
    <3>6. {built} \X {"efi", "caibx", "erofs"} \subseteq art
      BY <3>1 DEF Having
    <3> QED
      BY <2>1, <3>2, <3>5, <3>6 DEF JobFacts
  <2>2. CASE ~(Cardinality(Having("caibx")) = 1 /\ Cardinality(Having("erofs")) = 1)
    BY <2>2 DEF JobFacts
  <2> QED
    BY <2>1, <2>2
<1>7. OkIsInChannel'
  BY DEF OkIsInChannel
<1> QED
  BY <1>3, <1>4, <1>5, <1>6, <1>7

LEMMA FilesSumsKeeps ==
    ASSUME RetryInv, FilesSums
    PROVE  RetryInv'
<1> USE DEF RetryInv, FilesSums, sites, imagingVars, Goto
<1>1. imaging = "done" /\ art \subseteq files /\ Alone
      /\ {built} \X {"efi", "caibx", "erofs"} \subseteq art /\ art = staged
  BY DEF TypeOK, JobFacts
<1> DEFINE Listed == {e \in art : e[2] \in {"efi", "caibx", "erofs"}}
<1>2. /\ offered'["files"] = offered["files"] \cup Listed
      /\ offered'["channel"] = offered["channel"]
      /\ DOMAIN offered = {"files", "channel"} /\ DOMAIN offered' = {"files", "channel"}
  BY DEF TypeOK
<1>3. TypeOK'
  BY DEF TypeOK
<1>4. Staging'
  BY <1>1, PublishKeepsStaging
<1>5. OrderKept' /\ (live # {} => Alone)' /\ OkIsInChannel'
  BY DEF OrderKept, Alone, OkIsInChannel
<1>6. JobFacts'
  BY <1>1 DEF JobFacts, Alone
<1>7. OfferedIsWhole'
  <2>1. {built} \X {"efi", "caibx", "erofs"} \subseteq Listed
    BY <1>1
  <2>2. ASSUME NEW v \in Versions, <<v, "caibx">> \in offered'["files"]
        PROVE  v \in store /\ {v} \X {"efi", "caibx", "erofs"} \subseteq offered'["files"] \cap files
    <3>1. CASE <<v, "caibx">> \in offered["files"]
      BY <1>2, <3>1 DEF OfferedIsWhole, Site
    <3>2. CASE <<v, "caibx">> \in Listed
      <4>1. v = built
        BY <1>1, <3>2 DEF Alone
      <4> QED
        BY <1>1, <1>2, <2>1, <4>1 DEF Alone
    <3> QED
      BY <1>2, <2>2, <3>1, <3>2
  <2>3. ASSUME NEW v \in Versions, <<v, "caibx">> \in offered'["channel"]
        PROVE  v \in store /\ {v} \X {"efi", "caibx", "erofs"} \subseteq offered'["channel"] \cap live
    BY <1>2, <2>3 DEF OfferedIsWhole, Site
  <2> HIDE DEF Listed
  <2> QED
    BY <1>2, <2>2, <2>3 DEF OfferedIsWhole, Site
<1> QED
  BY <1>3, <1>4, <1>5, <1>6, <1>7

LEMMA CopyKeeps ==
    ASSUME RetryInv, Copy
    PROVE  RetryInv'
<1> USE DEF RetryInv, Copy, sites, imagingVars, Goto
<1>1. imaging = "done" /\ Alone
  BY DEF TypeOK, JobFacts
<1>2. live' = live \cup FirstBy(MoveKey, staged) /\ FirstBy(MoveKey, staged) \subseteq staged
  BY FirstAreStaged
<1>3. TypeOK'
  BY <1>2 DEF TypeOK
<1>4. Staging'
  BY <1>1, <1>2, PublishKeepsStaging
<1>5. OrderKept'
  BY DEF OrderKept, FirstBy
<1>6. Alone'
  BY <1>1, <1>2, AloneKept
<1>7. JobFacts'
  <2>1. FirstBy(MoveKey, staged)' = FirstBy(MoveKey, staged)
    BY DEF FirstBy
  <2> QED
    BY <1>2, <1>6, <2>1 DEF JobFacts
<1>8. OkIsInChannel' /\ OfferedIsWhole'
  BY <1>2, OffersKept DEF OkIsInChannel
<1> QED
  BY <1>3, <1>4, <1>5, <1>6, <1>7, <1>8

LEMMA RemoveKeeps ==
    ASSUME RetryInv, Remove
    PROVE  RetryInv'
<1> USE DEF RetryInv, Remove, sites, imagingVars, Goto
<1>1. imaging = "done" /\ Alone /\ FirstBy(MoveKey, staged) \subseteq live
  BY DEF TypeOK, JobFacts
<1>2. staged' \subseteq staged /\ staged \cup live \subseteq staged' \cup live'
  BY <1>1
<1>3. TypeOK'
  BY <1>2 DEF TypeOK
<1>4. Staging'
  BY <1>1, <1>2, PublishKeepsStaging
<1>5. OrderKept' /\ OkIsInChannel' /\ OfferedIsWhole'
  BY <1>2, OffersKept DEF OrderKept, OkIsInChannel
<1>6. Alone'
  BY <1>1, <1>2, AloneKept
<1>7. JobFacts'
  BY <1>6 DEF JobFacts
<1> QED
  BY <1>3, <1>4, <1>5, <1>6, <1>7

LEMMA MovedKeeps ==
    ASSUME RetryInv, Moved
    PROVE  RetryInv'
<1> USE DEF RetryInv, Moved, sites, imagingVars, Goto
<1>1. imaging = "done" /\ Alone
  BY DEF TypeOK, JobFacts
<1>2. TypeOK'
  BY DEF TypeOK
<1>3. Staging'
  BY <1>1, PublishKeepsStaging
<1>4. OrderKept' /\ Alone' /\ OkIsInChannel' /\ OfferedIsWhole'
  BY <1>1, AloneKept, OffersKept DEF OrderKept, OkIsInChannel
<1>5. JobFacts'
  BY <1>4 DEF JobFacts
<1> QED
  BY <1>2, <1>3, <1>4, <1>5

LEMMA ChannelSumsKeeps ==
    ASSUME RetryInv, ChannelSums
    PROVE  RetryInv'
<1> USE DEF RetryInv, ChannelSums, sites, imagingVars, End
<1> DEFINE Listed == {e \in live : e[2] \in {"efi", "caibx", "erofs"}}
<1>1. imaging = "done" /\ Alone /\ staged = {} /\ {built} \X Kinds \subseteq live
  BY DEF TypeOK, JobFacts, Staging
<1>2. /\ offered'["files"] = offered["files"] /\ offered'["channel"] = Listed
      /\ DOMAIN offered = {"files", "channel"} /\ DOMAIN offered' = {"files", "channel"}
  BY DEF TypeOK
<1>3. TypeOK'
  BY DEF TypeOK
<1>4. Staging'
  BY <1>1, PublishKeepsStaging
<1>5. OrderKept' /\ Alone' /\ OkIsInChannel'
  BY <1>1, AloneKept DEF OrderKept, OkIsInChannel
<1>6. JobFacts'
  BY DEF JobFacts
<1>7. OfferedIsWhole'
  <2>1. {built} \X {"efi", "caibx", "erofs"} \subseteq Listed
    BY <1>1 DEF Kinds
  <2>2. ASSUME NEW v \in Versions, <<v, "caibx">> \in Listed
        PROVE  v = built
    BY <1>1, <2>2 DEF Alone
  <2>3. Listed \subseteq live /\ built \in store
    BY <1>1 DEF Alone
  <2> HIDE DEF Listed
  <2>4. ASSUME NEW v \in Versions, <<v, "caibx">> \in offered'["channel"]
        PROVE  v \in store /\ {v} \X {"efi", "caibx", "erofs"} \subseteq offered'["channel"] \cap live
    BY <1>2, <2>1, <2>2, <2>3, <2>4
  <2>5. ASSUME NEW v \in Versions, <<v, "caibx">> \in offered'["files"]
        PROVE  v \in store /\ {v} \X {"efi", "caibx", "erofs"} \subseteq offered'["files"] \cap files
    BY <1>2, <2>5 DEF OfferedIsWhole, Site
  <2> QED
    BY <1>2, <2>4, <2>5 DEF OfferedIsWhole, Site
<1> QED
  BY <1>3, <1>4, <1>5, <1>6, <1>7

-----------------------------------------------------------------------------
(* The theorems.                                                            *)

LEMMA NextKeeps == RetryInv /\ [Next]_vars => RetryInv'
<1> SUFFICES ASSUME RetryInv, [Next]_vars PROVE RetryInv'
  OBVIOUS
<1>1. CASE UNCHANGED vars
  <2>1. UNCHANGED <<built, imaging, staged, job, outcome, art, faults>>
        /\ UNCHANGED <<files, live, store, offered>>
    BY <1>1 DEF vars, imagingVars, sites
  <2>2. TypeOK' /\ Staging' /\ OrderKept' /\ (live # {} => Alone)'
    BY <2>1 DEF RetryInv, TypeOK, Staging, OrderKept, Alone
  <2>3. JobFacts' /\ OkIsInChannel'
    BY <2>1 DEF RetryInv, JobFacts, OkIsInChannel, Alone, Having, FirstBy
  <2>4. OfferedIsWhole'
    BY <2>1, OffersKept DEF RetryInv
  <2> QED
    BY <2>2, <2>3, <2>4 DEF RetryInv
<1>2. CASE Build \/ (\E k \in Kinds : UploadObject(k)) \/ ImagingEnds \/ ImagingDies
  BY <1>2, ImagingKeeps
<1>3. CASE Start
  BY <1>3, StartKeeps
<1>4. CASE Append
  BY <1>4, AppendKeeps
<1>5. CASE FilesUpload
  BY <1>5, FilesUploadKeeps
<1>6. CASE Chop
  BY <1>6, ChopKeeps
<1>7. CASE FilesSums
  BY <1>7, FilesSumsKeeps
<1>8. CASE Copy
  BY <1>8, CopyKeeps
<1>9. CASE Remove
  BY <1>9, RemoveKeeps
<1>10. CASE Moved
  BY <1>10, MovedKeeps
<1>11. CASE ChannelSums
  BY <1>11, ChannelSumsKeeps
<1>12. CASE Die
  BY <1>12, DieKeeps
<1> QED
  BY <1>1, <1>2, <1>3, <1>4, <1>5, <1>6, <1>7, <1>8, <1>9, <1>10, <1>11, <1>12 DEF Next

LEMMA Invariance == Spec => []RetryInv
  BY InitRetry, NextKeeps, PTL DEF Spec

\* The types, for any numbers of attempts and faults.
THEOREM TypeCorrect == Spec => []TypeOK
<1>1. RetryInv => TypeOK
  BY DEF RetryInv
<1> QED
  BY <1>1, Invariance, PTL

\* Whatever builds are mixed under the prefix, what is offered can be installed
\* (upload.sh:183-217).
THEOREM OfferedWhole == Spec => []OfferedIsWhole
<1>1. RetryInv => OfferedIsWhole
  BY DEF RetryInv
<1> QED
  BY <1>1, Invariance, PTL

\* A job that ends well has the tested build in the channel (upload.sh:148-155).
THEOREM OkMeansInChannel == Spec => []OkIsInChannel
<1>1. RetryInv => OkIsInChannel
  BY DEF RetryInv
<1> QED
  BY <1>1, Invariance, PTL

\* A job that no one interrupts fails only over leftovers (upload.sh:164-187).
THEOREM LeftoversFail == Spec => FailsOverLeftovers
<1> DEFINE Fails == job # "idle" /\ job' = "idle" /\ outcome' = "failed" /\ faults' = faults
           Leftovers == live # {} \/ \E e \in art : e[1] # built
<1>1. RetryInv /\ Next => (Fails => Leftovers)
  <2> SUFFICES ASSUME RetryInv, Next, Fails, ~Leftovers PROVE FALSE
    OBVIOUS
  <2>1. faults \in Nat /\ imaging = "done"
    BY DEF RetryInv, TypeOK
  <2>2. ~Die
    BY <2>1 DEF Die, Fault
  <2>3. Append \/ Chop
    BY <2>1, <2>2 DEF Next, Build, UploadObject, ImagingEnds, ImagingDies, Start, FilesUpload,
                      FilesSums, Copy, Remove, Moved, ChannelSums, Goto, End
  <2>4. art = staged /\ {built} \X Kinds \subseteq art /\ art \subseteq Objects
    BY <2>1, <2>3 DEF RetryInv, TypeOK, Staging, JobFacts, Append, Chop
  <2>5. ASSUME NEW k \in Kinds PROVE Having(k) = {<<built, k>>}
    <3>1. <<built, k>> \in Having(k)
      BY <2>4 DEF Having
    <3>2. ASSUME NEW e \in Having(k) PROVE e = <<built, k>>
      BY <2>4, <3>2, ObjectParts DEF Having
    <3> QED
      BY <3>1, <3>2
  <2>6. \A k \in Kinds : Having(k) # {} /\ Cardinality(Having(k)) = 1
    BY <2>5, FS_Singleton
  <2>7. Append => job' = "files"
    BY <2>6 DEF Append, Kinds
  <2>8. Chop => job' = "filesSums"
    BY <2>6 DEF Chop, Kinds
  <2> QED
    BY <2>3, <2>7, <2>8
<1>2. RetryInv /\ [Next]_vars =>
        [job # "idle" /\ job' = "idle" /\ outcome' = "failed" /\ faults' = faults =>
           \/ live # {}
           \/ \E e \in art : e[1] # built]_vars
  BY <1>1
<1> QED
  BY <1>2, Invariance, PTL DEF Spec, FailsOverLeftovers
=============================================================================
