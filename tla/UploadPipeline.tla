--------------------------- MODULE UploadPipeline ---------------------------
(***************************************************************************)
(* The uploader (uploader/main.go, upload()): one goroutine walks the       *)
(* upload tree, several hash what it finds, one closes the second channel   *)
(* when the hashing is over, and the main goroutine uploads.  Two bounded   *)
(* channels connect them:                                                   *)
(*                                                                          *)
(*    walker --calcs--> workers --results--> main loop --> bucket           *)
(*                                                                          *)
(* log.Fatalln in any goroutine ends the process at once; so does the       *)
(* return of the main goroutine, whatever the others are doing.             *)
(***************************************************************************)
EXTENDS Naturals, Sequences, Functions

CONSTANTS
    Objects,      \* the files of the upload tree
    Workers,      \* the hashing goroutines (4 in the code)
    Capacity,     \* of each channel (32 in the code)
    WalkMayFail,  \* may WalkDir return an error?
    IOMayFail     \* may hashing or uploading a file fail?

ASSUME PipelineAssumption ==
    /\ Workers # {}
    /\ Capacity \in Nat \ {0}
    /\ WalkMayFail \in BOOLEAN /\ IOMayFail \in BOOLEAN

VARIABLES
    unwalked,       \* the files WalkDir has not come to
    walker,         \* "walking", "closing" after WalkDir, "reporting" its error, "done"
    walkErr,        \* the error WalkDir returned, if any
    calcs, calcsClosed,
    results, resultsClosed,
    worker,         \* per worker: "receiving", "hashing", "sending", "done"
    hashing,        \* per worker: the set holding the object it works on, or {}
    uploading,      \* the set holding the object the main loop uploads, or {}
    bucket,         \* the objects stored
    exit            \* "running", or how the process ended: "ok", "fatal"

walkerVars == <<unwalked, walker, walkErr>>
workerVars == <<worker, hashing>>
channels == <<calcs, calcsClosed, results, resultsClosed>>
mainVars == <<uploading, bucket>>
vars == <<walkerVars, workerVars, channels, mainVars, exit>>

Init ==
    /\ unwalked = Objects
    /\ walker = "walking" /\ walkErr = FALSE
    /\ calcs = <<>> /\ calcsClosed = FALSE
    /\ results = <<>> /\ resultsClosed = FALSE
    /\ worker = [w \in Workers |-> "receiving"]
    /\ hashing = [w \in Workers |-> {}]
    /\ uploading = {} /\ bucket = {}
    /\ exit = "running"

Running == exit = "running"

-----------------------------------------------------------------------------
(* The walker.                                                              *)

Walk(o) ==
    /\ Running /\ walker = "walking"
    /\ o \in unwalked
    /\ Len(calcs) < Capacity
    /\ unwalked' = unwalked \ {o}
    /\ calcs' = Append(calcs, o)
    /\ UNCHANGED <<walker, walkErr, calcsClosed, results, resultsClosed, workerVars,
                   mainVars, exit>>

WalkEnds ==
    /\ Running /\ walker = "walking"
    /\ \/ unwalked = {} /\ UNCHANGED walkErr
       \/ WalkMayFail /\ walkErr' = TRUE
    /\ walker' = "closing"
    /\ UNCHANGED <<unwalked, channels, workerVars, mainVars, exit>>

\* Mutant: a walk that failed leaves the channel open.
CloseCalcsOnSuccess ==
    /\ Running /\ walker = "closing"
    /\ calcsClosed' = ~walkErr
    /\ walker' = "done"
    /\ UNCHANGED <<unwalked, walkErr, calcs, results, resultsClosed, workerVars,
                   mainVars, exit>>

\* The channel is closed whether the walk failed or not, ...
CloseCalcs ==
    /\ Running /\ walker = "closing"
    /\ calcsClosed' = TRUE
    /\ walker' = IF walkErr THEN "reporting" ELSE "done"
    /\ UNCHANGED <<unwalked, walkErr, calcs, results, resultsClosed, workerVars,
                   mainVars, exit>>

\* ... and only then the error is fatal.
ReportWalkError ==
    /\ Running /\ walker = "reporting"
    /\ exit' = "fatal"
    /\ UNCHANGED <<walkerVars, channels, workerVars, mainVars>>

-----------------------------------------------------------------------------
(* A sha256 worker: for obj := range calcs { ... results <- obj }           *)

Receive(w) ==
    /\ Running /\ worker[w] = "receiving"
    /\ calcs # <<>>
    /\ hashing' = [hashing EXCEPT ![w] = {Head(calcs)}]
    /\ calcs' = Tail(calcs)
    /\ worker' = [worker EXCEPT ![w] = "hashing"]
    /\ UNCHANGED <<walkerVars, calcsClosed, results, resultsClosed, mainVars, exit>>

Hash(w) ==
    /\ Running /\ worker[w] = "hashing"
    /\ worker' = [worker EXCEPT ![w] = "sending"]
    /\ UNCHANGED <<walkerVars, channels, hashing, mainVars, exit>>

HashFails(w) ==
    /\ IOMayFail
    /\ Running /\ worker[w] = "hashing"
    /\ exit' = "fatal"
    /\ UNCHANGED <<walkerVars, channels, workerVars, mainVars>>

SendResult(w) ==
    /\ Running /\ worker[w] = "sending"
    /\ Len(results) < Capacity
    /\ \E o \in hashing[w] : results' = Append(results, o)
    /\ hashing' = [hashing EXCEPT ![w] = {}]
    /\ worker' = [worker EXCEPT ![w] = "receiving"]
    /\ UNCHANGED <<walkerVars, calcs, calcsClosed, resultsClosed, mainVars, exit>>

\* Mutant: a worker leaves when it finds the channel empty.
WorkerDoneEarly(w) ==
    /\ Running /\ worker[w] = "receiving"
    /\ calcs = <<>>
    /\ worker' = [worker EXCEPT ![w] = "done"]
    /\ UNCHANGED <<walkerVars, channels, hashing, mainVars, exit>>

\* The loop ends when calcs is closed and drained; then calcsWg.Done().
WorkerDone(w) ==
    /\ Running /\ worker[w] = "receiving"
    /\ calcs = <<>> /\ calcsClosed
    /\ worker' = [worker EXCEPT ![w] = "done"]
    /\ UNCHANGED <<walkerVars, channels, hashing, mainVars, exit>>

-----------------------------------------------------------------------------
(* The goroutine that waits for the workers.                                *)

\* Mutant: results is closed once one worker is done.
CloseResultsFirstDone ==
    /\ Running /\ ~resultsClosed
    /\ \E w \in Workers : worker[w] = "done"
    /\ resultsClosed' = TRUE
    /\ UNCHANGED <<walkerVars, calcs, calcsClosed, results, workerVars, mainVars, exit>>

CloseResults ==
    /\ Running /\ ~resultsClosed
    /\ \A w \in Workers : worker[w] = "done"
    /\ resultsClosed' = TRUE
    /\ UNCHANGED <<walkerVars, calcs, calcsClosed, results, workerVars, mainVars, exit>>

-----------------------------------------------------------------------------
(* The main goroutine: for res := range results { FPutObject }              *)

\* Mutant: a plain receive, which returns a zero object when the channel is closed.
TakeResultOrZero ==
    /\ Running /\ uploading = {}
    /\ \/ results # <<>> /\ uploading' = {Head(results)} /\ results' = Tail(results)
       \/ results = <<>> /\ resultsClosed /\ uploading' = {"zero"} /\ UNCHANGED results
    /\ UNCHANGED <<walkerVars, calcs, calcsClosed, resultsClosed, workerVars, bucket, exit>>

TakeResult ==
    /\ Running /\ uploading = {}
    /\ results # <<>>
    /\ uploading' = {Head(results)}
    /\ results' = Tail(results)
    /\ UNCHANGED <<walkerVars, calcs, calcsClosed, resultsClosed, workerVars, bucket, exit>>

Put ==
    /\ Running /\ uploading # {}
    /\ bucket' = bucket \cup uploading
    /\ uploading' = {}
    /\ UNCHANGED <<walkerVars, channels, workerVars, exit>>

PutFails ==
    /\ IOMayFail
    /\ Running /\ uploading # {}
    /\ exit' = "fatal"
    /\ UNCHANGED <<walkerVars, channels, workerVars, mainVars>>

\* Mutant: the main loop ends when the channel is closed, drained or not.
ReturnUndrained ==
    /\ Running /\ uploading = {}
    /\ resultsClosed
    /\ exit' = "ok"
    /\ UNCHANGED <<walkerVars, channels, workerVars, mainVars>>

Return ==
    /\ Running /\ uploading = {}
    /\ results = <<>> /\ resultsClosed
    /\ exit' = "ok"
    /\ UNCHANGED <<walkerVars, channels, workerVars, mainVars>>

-----------------------------------------------------------------------------
Walker == (\E o \in Objects : Walk(o)) \/ WalkEnds \/ CloseCalcs \/ ReportWalkError
Worker(w) == Receive(w) \/ Hash(w) \/ HashFails(w) \/ SendResult(w) \/ WorkerDone(w)
Main == TakeResult \/ Put \/ PutFails \/ Return

\* The process is over; there is nothing left to do.
Ended == ~Running /\ UNCHANGED vars

Next == Walker \/ (\E w \in Workers : Worker(w)) \/ CloseResults \/ Main \/ Ended

Spec == Init /\ [][Next]_vars

\* The Go scheduler runs every goroutine that can run.
Fairness ==
    /\ WF_vars(Walker) /\ WF_vars(CloseResults) /\ WF_vars(Main)
    /\ \A w \in Workers : WF_vars(Worker(w))

FairSpec == Spec /\ Fairness

-----------------------------------------------------------------------------
(* Properties.                                                              *)

\* Type invariant.
TypeOK ==
    /\ unwalked \subseteq Objects
    /\ walker \in {"walking", "closing", "reporting", "done"}
    /\ walkErr \in BOOLEAN
    /\ calcs \in Seq(Objects) /\ Len(calcs) <= Capacity
    /\ results \in Seq(Objects) /\ Len(results) <= Capacity
    /\ calcsClosed \in BOOLEAN /\ resultsClosed \in BOOLEAN
    /\ worker \in [Workers -> {"receiving", "hashing", "sending", "done"}]
    /\ hashing \in [Workers -> SUBSET Objects]
    /\ uploading \subseteq Objects
    /\ bucket \subseteq Objects
    /\ exit \in {"running", "ok", "fatal"}

\* No goroutine sends on a closed channel, which would be a panic: calcs is
\* closed after the last send of the walker (main.go:123), results after the
\* last of any worker, with calcs drained (main.go:90-94).
NoSendOnClosed ==
    /\ calcsClosed => walker # "walking"
    /\ resultsClosed => calcs = <<>> /\ \A w \in Workers : worker[w] = "done"

\* The inductive invariant behind the two properties below: each file the walk
\* has come to is stored or still in the pipeline, and the stages end in order.
Held == UNION {hashing[w] : w \in Workers}
InPipeline == Range(calcs) \cup Held \cup Range(results) \cup uploading

NoneDropped == Objects \ unwalked = bucket \cup InPipeline

StageInv ==
    /\ calcsClosed <=> walker \in {"reporting", "done"}
    /\ \A w \in Workers :
          /\ worker[w] = "done" => calcs = <<>> /\ calcsClosed
          /\ worker[w] \in {"receiving", "done"} => hashing[w] = {}
          /\ worker[w] \in {"hashing", "sending"} => \E o \in Objects : hashing[w] = {o}
    /\ resultsClosed => \A w \in Workers : worker[w] = "done"
    /\ uploading = {} \/ \E o \in Objects : uploading = {o}
    /\ exit = "ok" => results = <<>> /\ resultsClosed /\ uploading = {}

\* When the process says that all went well, every file the walk has come to is
\* stored: nothing is left in a channel or in the hands of a worker that exits.
OkMeansStored == exit = "ok" => bucket = Objects \ unwalked

\* What is stored is what the walk has come to, and success comes after all of it.
Service == INSTANCE UploadService WITH
    asked <- Objects \ unwalked, stored <- bucket, outcome <- exit
ImplementsUploadService == Service!Spec

\* The process ends, however small the channels are: the walker, the workers and
\* the main loop never wait for each other in a circle (main.go:72).
EventuallyExits == <>(exit # "running")

\* `if err != nil { log.Fatalln(err) }` (main.go:124-126): a walk that failed is
\* fatal, so that an incomplete tree is never taken for an upload.
FailedWalkIsFatal == walkErr => exit # "ok"
=============================================================================
