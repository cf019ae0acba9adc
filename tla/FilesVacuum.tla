----------------------------- MODULE FilesVacuum -----------------------------
(***************************************************************************)
(* The list of checksums of files.kde.org: how upload-vacuum starts it, how  *)
(* upload.sh completes and uploads it, and what stays on the server when a   *)
(* job dies in between (upload-vacuum/main.go, upload.sh:157-192).           *)
(*                                                                          *)
(* A release has an .iso in the root directory, and an .erofs and an         *)
(* .erofs.caibx in sysupdate/v2.  Releases are named by the time of their    *)
(* build, in twelve digits: the order of the strings is that of the numbers. *)
(* A checksum tells a whole file from one whose upload was cut.  The web     *)
(* server makes the checksums it serves (<file>.sha256) when it scans its    *)
(* tree, so what it answers can be older than the file.                      *)
(***************************************************************************)
EXTENDS Integers, FiniteSets, SequencesExt

CONSTANTS
    Pipelines,   \* the releases built while the model runs
    Released,    \* the releases published before
    Protected,   \* tombstone_images and golden_images of vacuum.yaml
    Legacy,      \* those of Released named kdeos_
    Keep,        \* the newest releases that stay (4 in the code)
    MaxTries,    \* requests for one checksum (10 in the code)
    MaxFaults    \* bound on jobs that die, deletions and openings that fail

ASSUME VacuumAssumption ==
    /\ Pipelines \subseteq Nat \ {0} /\ Released \subseteq Nat \ {0}
    /\ Protected \subseteq Nat \ {0} /\ Legacy \subseteq Released
    /\ IsFiniteSet(Pipelines \cup Released \cup Protected)
    /\ Pipelines \cap Released = {} /\ Released # {}
    /\ Keep \in Nat \ {0} /\ MaxTries \in Nat \ {0} /\ MaxFaults \in Nat

Versions == Pipelines \cup Released \cup Protected
Kinds == {"iso", "erofs", "index"}
Place == [iso |-> 1, erofs |-> 2, index |-> 3]   \* the order of their paths
Files == Versions \X Kinds
Passes == {"delete", "newest", "protected"}
Tasks == Passes \X Files
Contents == {"absent", "cut", "whole"}
NoJob == 0

VARIABLES
    site,     \* per file: what is on the server
    scanned,  \* per file: what the server last saw of it
    sums,     \* the lines of SHA256SUMS on the server
    job,      \* the release whose job runs, or NoJob
    pc,       \* what the job does next
    doomed,   \* the tasks of deleting a file that are left
    toRead,   \* the tasks of finding a file's checksum that are left
    known,    \* the old list: checksums by key
    tries,    \* requests made for the checksum looked for
    lines,    \* the local SHA256SUMS
    toSend,   \* the files still to be uploaded
    suspect,  \* history: the files that were cut, or scanned so, when the job began
    faults

server == <<site, scanned, sums>>
work == <<doomed, toRead, known, tries, lines, toSend>>
vars == <<server, job, pc, work, suspect, faults>>

-----------------------------------------------------------------------------
(* Which releases stay.                                                     *)

Found == {v \in Versions : \E f \in Files : f[1] = v /\ site[f] # "absent"}
Newest(R) == {v \in R : Cardinality({w \in R : w > v}) < Keep}

\* Mutant: a protected release is not cut off when it is not deleted.
ToKeepAll ==
    ({"newest"} \X (Newest(Found) \cup (Found \cap Protected))) \cup ({"protected"} \X Protected)

\* The newest, and then the protected ones, whether among the newest or not.
ToKeep == ({"newest"} \X Newest(Found)) \cup ({"protected"} \X Protected)

\* Mutant: a release is marked while it may still be among those kept.
ToDeleteOneMore ==
    {"delete"} \X ({v \in Found : Cardinality({w \in Found : w > v}) >= Keep - 1} \ Protected)

ToDelete == {"delete"} \X (Found \ (Newest(Found) \cup Protected))

\* A pass over releases handles their artifacts.
Artifacts(R) == {t \in Tasks : <<t[1], t[2][1]>> \in R /\ site[t[2]] # "absent"}

\* readSHA256s leaves out the indexes and what is named kdeos_ in the root.
Skipped(f) == f[2] = "index" \/ (f[1] \in Legacy /\ f[2] = "iso")

Listable(R) == {t \in Artifacts(R) : ~Skipped(t[2])}

\* The newest releases are read newest first, the others are handled oldest first.
Before(s, t) ==
    LET f == s[2]
        g == t[2]
    IN  IF s[1] # t[1] THEN s[1] = "newest"
        ELSE IF f[1] # g[1] THEN f[1] > g[1] <=> s[1] = "newest"
        ELSE Place[f[2]] < Place[g[2]]

Due(S) == {t \in S : \A s \in S : ~Before(s, t)}

-----------------------------------------------------------------------------
(* The lines of a list: a checksum and a file name, or a bare checksum.     *)

NoName == <<NoJob, "">>
Line(content, f) == [sum |-> content, name |-> f]
Bare(content) == Line(content, NoName)
Named(L, f) == {i \in DOMAIN L : L[i].name = f}

\* Mutant: the old list is keyed by what it is looked up by.
KeyOfPath(l) == <<"path", l.name>>

\* What follows the first of the two spaces of a line ...
KeyOf(l) == <<"space", l.name>>

\* ... and the path that the checksum is looked up by.
PathOf(f) == <<"path", f>>

\* Of two lines with one key the later counts.
KeysOf(L) ==
    [key \in {KeyOf(L[i]) : i \in DOMAIN L} |->
       L[Max({i \in DOMAIN L : KeyOf(L[i]) = key})].sum]

NoKeys == [key \in {} |-> "whole"]

Init ==
    /\ site = [f \in Files |-> IF f[1] \in Released THEN "whole" ELSE "absent"]
    /\ scanned = site
    /\ sums = LET listed == SetToSeq({f \in Released \X Kinds : ~Skipped(f)})
              IN  [i \in DOMAIN listed |-> Line("whole", listed[i])]
    /\ job = NoJob /\ pc = "idle"
    /\ doomed = {} /\ toRead = {} /\ known = NoKeys /\ tries = 0
    /\ lines = <<>> /\ toSend = <<>> /\ suspect = {}
    /\ faults = 0

-----------------------------------------------------------------------------
(* Jobs begin and end.                                                      *)

\* A publish job or its retry: GitLab runs one at a time.
Start(v) ==
    /\ job = NoJob
    /\ job' = v /\ pc' = "load"
    /\ suspect' = {f \in Files : "cut" \in {site[f], scanned[f]}}
    /\ UNCHANGED <<server, work, faults>>

\* The machine of the job goes with it.
End ==
    /\ job' = NoJob /\ pc' = "idle"
    /\ doomed' = {} /\ toRead' = {} /\ known' = NoKeys /\ tries' = 0
    /\ lines' = <<>> /\ toSend' = <<>> /\ suspect' = {}

\* vacuum.yaml or the tree cannot be read; a call, the connection or the machine fails.
Die ==
    /\ job # NoJob
    /\ faults < MaxFaults
    /\ faults' = faults + 1
    /\ UNCHANGED server
    /\ End

\* The web server scans its tree now and then.
Scan ==
    /\ scanned' = site
    /\ UNCHANGED <<site, sums, job, pc, work, suspect, faults>>

-----------------------------------------------------------------------------
(* The vacuum: deletes what is outdated, and starts the list.               *)

Load ==
    /\ pc = "load"
    /\ doomed' = Artifacts(ToDelete)
    /\ toRead' = Listable(ToKeep)
    /\ pc' = "delete"
    /\ UNCHANGED <<server, job, known, tries, lines, toSend, suspect, faults>>

\* A deletion that fails is only logged.
Delete ==
    /\ pc = "delete"
    /\ \E t \in Due(doomed) :
         /\ doomed' = doomed \ {t}
         /\ \/ /\ site' = [site EXCEPT ![t[2]] = "absent"]
               /\ UNCHANGED faults
            \/ /\ faults < MaxFaults
               /\ faults' = faults + 1
               /\ UNCHANGED site
    /\ UNCHANGED <<scanned, sums, job, pc, toRead, known, tries, lines, toSend, suspect>>

\* A line without a name is fatal; a list that cannot be opened is not.
ReadOldSums ==
    /\ pc = "delete" /\ doomed = {}
    /\ IF Named(sums, NoName) # {}
         THEN End
         ELSE /\ known' = KeysOf(sums)
              /\ pc' = "read"
              /\ UNCHANGED <<job, doomed, toRead, tries, lines, toSend, suspect>>
    /\ UNCHANGED <<server, faults>>

NoOldSums ==
    /\ pc = "delete" /\ doomed = {}
    /\ faults < MaxFaults
    /\ faults' = faults + 1
    /\ pc' = "read"
    /\ UNCHANGED <<server, job, work, suspect>>

Hit(t) == PathOf(t[2]) \in DOMAIN known
Asked == pc = "asked" /\ \E t \in Due(toRead) : ~Hit(t)

Write(t, new) ==
    /\ lines' = Append(lines, new)
    /\ toRead' = toRead \ {t}
    /\ tries' = 0
    /\ pc' = "read"
    /\ UNCHANGED <<server, job, doomed, known, toSend, suspect, faults>>

\* The request, by a client without a timeout, for what the old list does not have.
Ask ==
    /\ pc = "read" /\ \E t \in Due(toRead) : ~Hit(t)
    /\ pc' = "asked"
    /\ UNCHANGED <<server, job, work, suspect, faults>>

\* Mutant: the old list is trusted, and looked up by the name.
FindSumRemembered ==
    \E t \in toRead :
      LET f == t[2]
          old == Named(sums, f)
      IN  /\ t \in Due(toRead)
          /\ \/ pc = "read" /\ \E i \in old : Write(t, sums[i])
             \/ pc = "asked" /\ old = {} /\ scanned[f] # "absent" /\ Write(t, Line(scanned[f], f))

\* The checksum as the web server has it; one from the old list would lack its name.
FindSum ==
    \E t \in toRead :
      LET f == t[2]
      IN  /\ t \in Due(toRead)
          /\ IF Hit(t) THEN pc = "read" ELSE pc = "asked" /\ scanned[f] # "absent"
          /\ Write(t, IF Hit(t) THEN Bare(known[PathOf(f)]) ELSE Line(scanned[f], f))

\* Mutant: one request too many.
NoAnswerOneMore ==
    /\ Asked
    /\ IF tries < MaxTries
         THEN /\ tries' = tries + 1
              /\ pc' = "read"
              /\ UNCHANGED <<job, doomed, toRead, known, lines, toSend, suspect>>
         ELSE End
    /\ UNCHANGED <<server, faults>>

\* Mutant: a request that fails is not counted.
NoAnswerUncounted ==
    /\ Asked
    /\ pc' = "read"
    /\ UNCHANGED <<server, job, work, suspect, faults>>

\* The request fails or is answered with another status than 200: after the last, exit 1.
NoAnswer ==
    /\ Asked
    /\ IF tries + 1 < MaxTries
         THEN /\ tries' = tries + 1
              /\ pc' = "read"
              /\ UNCHANGED <<job, doomed, toRead, known, lines, toSend, suspect>>
         ELSE End
    /\ UNCHANGED <<server, faults>>

-----------------------------------------------------------------------------
(* upload.sh completes the list and uploads the release, then the list.     *)

Complete ==
    /\ pc = "read" /\ toRead = {}
    /\ lines' = Append(lines, Line("whole", <<job, "erofs">>))
    /\ toSend' = <<<<job, "iso">>, <<job, "erofs">>, <<job, "index">>>>
    /\ known' = NoKeys                \* the vacuum is done
    /\ pc' = "send"
    /\ UNCHANGED <<server, job, doomed, toRead, tries, suspect, faults>>

\* scp truncates a file before it writes it.
BeginFile ==
    /\ pc = "send" /\ toSend # <<>>
    /\ site' = [site EXCEPT ![Head(toSend)] = "cut"]
    /\ pc' = "sending"
    /\ UNCHANGED <<scanned, sums, job, work, suspect, faults>>

EndFile ==
    /\ pc = "sending"
    /\ site' = [site EXCEPT ![Head(toSend)] = "whole"]
    /\ toSend' = Tail(toSend)
    /\ pc' = "send"
    /\ UNCHANGED <<scanned, sums, job, doomed, toRead, known, tries, lines, suspect, faults>>

\* What the job does to the channel afterwards, PublishPipeline models.
UploadSums ==
    /\ pc = "send" /\ toSend = <<>>
    /\ sums' = lines
    /\ End
    /\ UNCHANGED <<site, scanned, faults>>

Step ==
    \/ Load \/ Delete \/ ReadOldSums \/ NoOldSums \/ Ask \/ FindSum \/ NoAnswer
    \/ Complete \/ BeginFile \/ EndFile \/ UploadSums

Next == (\E v \in Pipelines : Start(v)) \/ Step \/ Die \/ Scan

\* A job that runs goes on (ssh and scp return or fail), but nothing is assumed of the
\* web server: it need not even answer a request it has accepted.
Spec == Init /\ [][Next]_vars /\ WF_vars(pc # "asked" /\ Step)

-----------------------------------------------------------------------------
(* Properties.                                                              *)

Names == Files \cup {NoName}
LinesOf(L) == \A i \in DOMAIN L : L[i].sum \in {"cut", "whole"} /\ L[i].name \in Names

\* The types of the variables; no more than MaxTries requests for one checksum.
TypeOK ==
    /\ site \in [Files -> Contents]
    /\ scanned \in [Files -> Contents]
    /\ LinesOf(sums) /\ LinesOf(lines)
    /\ job \in Pipelines \cup {NoJob}
    /\ pc \in {"idle", "load", "delete", "read", "asked", "send", "sending"}
    /\ doomed \subseteq Tasks /\ toRead \subseteq Tasks
    /\ toSend \in Seq(Files) /\ suspect \subseteq Files
    /\ tries \in 0 .. MaxTries - 1
    /\ faults \in 0 .. MaxFaults

\* No list ever has a line without a name, which would stop the next vacuum too
\* (main.go:113-115): what is kept of the old list never reaches the new one.
NamedLines == Named(sums, NoName) \cup Named(lines, NoName) = {}

\* A release appears on the server's list twice only when vacuum.yaml protects it
\* and it was among the newest anyway, or when its own job was retried: not when
\* it is merely too old to go.  Three times it appears only when a build that is
\* protected already is published again.
TwiceOnlyProtected ==
    [][sums' # sums =>
         \A f \in Files :
           LET n == Cardinality(Named(sums', f))
           IN  /\ n > 2 => f[1] \in {job} \cap Protected
               /\ n > 1 => f[1] \in {job} \cup (Protected \cap Newest(Found \ {job}))]_vars

\* A checksum that is not the build's is on a list in the making only if, when
\* that job began, the file was cut or the web server had last seen it cut: once
\* the file is uploaded again and scanned, the next list puts it right.
WrongSumsHeal ==
    \A i \in DOMAIN lines : lines[i].sum = "cut" => lines[i].name \in suspect

Outdated(v) == v \notin Protected /\ Keep <= Cardinality({w \in Found : w > v})

\* A list that goes to the server names no file that is gone, and each file that
\* is there but the indexes, the legacy images and outdated releases: although it
\* is read from a third place, after deletions, and completed by a script.
ListMatchesSite ==
    [][sums' # sums =>
         /\ \A i \in DOMAIN sums' : site[sums'[i].name] # "absent"
         /\ \A f \in Files :
              site[f] # "absent" /\ ~Skipped(f) /\ f # <<job, "iso">> /\ ~Outdated(f[1])
                => Named(sums', f) # {}]_vars

\* Every job comes to an end, whatever the web server answers, or one waits for ever
\* for an answer that does not come (upload-vacuum/main.go:72-73): nothing else holds
\* it up, and no list or server makes it ask again and again.
EndsOrWaits == []<>(job = NoJob) \/ <>[](pc = "asked")

\* It does not hold that every job ends: no timeout ends the wait.
EventuallyEnds == []<>(job = NoJob)
=============================================================================
