------------------------ MODULE UploadPipelineProofs ------------------------
(***************************************************************************)
(* Proofs about UploadPipeline, for any number of files and workers and any *)
(* capacity of the channels.                                                *)
(***************************************************************************)
EXTENDS UploadPipeline, TLAPS

-----------------------------------------------------------------------------
(* Channels as sequences.                                                   *)

LEMMA RangeAppend ==
    ASSUME NEW S, NEW s \in Seq(S), NEW e \in S
    PROVE  Range(Append(s, e)) = Range(s) \cup {e}
<1>1. /\ DOMAIN Append(s, e) = 1..(Len(s) + 1)
      /\ DOMAIN s = 1..Len(s)
      /\ Len(s) \in Nat
  OBVIOUS
<1>2. /\ \A i \in 1..Len(s) : Append(s, e)[i] = s[i]
      /\ Append(s, e)[Len(s) + 1] = e
  OBVIOUS
<1> QED
  BY <1>1, <1>2 DEF Range

LEMMA RangeHeadTail ==
    ASSUME NEW S, NEW s \in Seq(S), s # <<>>
    PROVE  Range(s) = {Head(s)} \cup Range(Tail(s))
<1>1. /\ DOMAIN s = 1..Len(s)
      /\ DOMAIN Tail(s) = 1..(Len(s) - 1)
      /\ Len(s) \in Nat \ {0}
  OBVIOUS
<1>2. /\ \A i \in 1..(Len(s) - 1) : Tail(s)[i] = s[i + 1]
      /\ Head(s) = s[1]
  OBVIOUS
<1>3. ASSUME NEW x \in Range(s) PROVE x \in {Head(s)} \cup Range(Tail(s))
  <2>1. PICK i \in 1..Len(s) : x = s[i]
    BY <1>1 DEF Range
  <2>2. CASE i = 1
    BY <1>2, <2>1, <2>2
  <2>3. CASE i # 1
    <3>1. i - 1 \in 1..(Len(s) - 1) /\ (i - 1) + 1 = i
      BY <1>1, <2>1, <2>3
    <3>2. x = Tail(s)[i - 1]
      BY <1>2, <2>1, <3>1
    <3> QED
      BY <1>1, <3>1, <3>2 DEF Range
  <2> QED
    BY <2>2, <2>3
<1>4. ASSUME NEW x \in Range(Tail(s)) PROVE x \in Range(s)
  <2>1. PICK i \in 1..(Len(s) - 1) : x = s[i + 1]
    BY <1>1, <1>2 DEF Range
  <2> QED
    BY <1>1, <2>1 DEF Range
<1>5. Head(s) \in Range(s)
  BY <1>1, <1>2 DEF Range
<1> QED
  BY <1>3, <1>4, <1>5

LEMMA RangeEmpty == Range(<<>>) = {}
BY DEF Range

\* What the workers hold after one of them has taken up or handed on an object.
LEMMA HeldExcept ==
    ASSUME TypeOK, NEW w \in Workers, NEW S \in SUBSET Objects,
           hashing' = [hashing EXCEPT ![w] = S]
    PROVE  /\ hashing[w] = {} => Held' = Held \cup S
           /\ S = {} => Held = Held' \cup hashing[w]
BY DEF TypeOK, Held

-----------------------------------------------------------------------------
(* Type correctness.                                                        *)

LEMMA TypeInit == Init => TypeOK
<1> SUFFICES ASSUME Init PROVE TypeOK
  OBVIOUS
<1>1. <<>> \in Seq(Objects) /\ Len(<<>>) <= Capacity
  BY PipelineAssumption
<1>2. /\ worker \in [Workers -> {"receiving", "hashing", "sending", "done"}]
      /\ hashing \in [Workers -> SUBSET Objects]
  BY DEF Init
<1> QED
  BY <1>1, <1>2 DEF Init, TypeOK

LEMMA TypeStep == TypeOK /\ [Next]_vars => TypeOK'
<1> SUFFICES ASSUME TypeOK, [Next]_vars PROVE TypeOK'
  OBVIOUS
<1> USE DEF TypeOK, walkerVars, workerVars, channels, mainVars
<1>1. ASSUME NEW o \in Objects, Walk(o) PROVE TypeOK'
  BY <1>1, PipelineAssumption DEF Walk
<1>2. CASE WalkEnds
  BY <1>2 DEF WalkEnds
<1>3. CASE CloseCalcs \/ ReportWalkError
  BY <1>3 DEF CloseCalcs, ReportWalkError
<1>4. ASSUME NEW w \in Workers, Worker(w) PROVE TypeOK'
  <2>1. CASE Receive(w)
    <3>1. Head(calcs) \in Objects /\ Tail(calcs) \in Seq(Objects)
          /\ Len(Tail(calcs)) <= Capacity
      BY <2>1, PipelineAssumption DEF Receive
    <3> QED
      BY <2>1, <3>1 DEF Receive
  <2>2. CASE SendResult(w)
    <3>1. PICK o \in hashing[w] : results' = Append(results, o)
      BY <2>2 DEF SendResult
    <3>2. results' \in Seq(Objects) /\ Len(results') <= Capacity
      BY <2>2, <3>1, PipelineAssumption DEF SendResult
    <3> QED
      BY <2>2, <3>2 DEF SendResult
  <2>3. CASE Hash(w) \/ HashFails(w) \/ WorkerDone(w)
    BY <2>3 DEF Hash, HashFails, WorkerDone
  <2> QED
    BY <1>4, <2>1, <2>2, <2>3 DEF Worker
<1>5. CASE CloseResults
  BY <1>5 DEF CloseResults
<1>6. CASE TakeResult
  <2>1. Head(results) \in Objects /\ Tail(results) \in Seq(Objects)
        /\ Len(Tail(results)) <= Capacity
    BY <1>6, PipelineAssumption DEF TakeResult
  <2> QED
    BY <1>6, <2>1 DEF TakeResult
<1>7. CASE Put \/ PutFails \/ Return
  BY <1>7 DEF Put, PutFails, Return
<1>8. CASE UNCHANGED vars
  BY <1>8 DEF vars
<1> QED
  BY <1>1, <1>2, <1>3, <1>4, <1>5, <1>6, <1>7, <1>8 DEF Next, Walker, Main, Ended

\* Type correctness, whatever the capacity of the channels.
THEOREM TypeCorrect == Spec => []TypeOK
BY TypeInit, TypeStep, PTL DEF Spec

-----------------------------------------------------------------------------
(* The stages end in order: the walk, the workers, the main loop.           *)

LEMMA StageInit == Init => StageInv
BY DEF Init, StageInv

LEMMA StageStep == TypeOK /\ StageInv /\ [Next]_vars => StageInv'
<1> SUFFICES ASSUME TypeOK, StageInv, [Next]_vars PROVE StageInv'
  OBVIOUS
<1> USE DEF StageInv, walkerVars, workerVars, channels, mainVars, Running
<1>1. ASSUME NEW o \in Objects, Walk(o) PROVE StageInv'
  <2>1. ~calcsClosed /\ \A w \in Workers : worker[w] # "done"
    BY <1>1 DEF Walk
  <2> QED
    BY <1>1, <2>1 DEF Walk
<1>2. CASE WalkEnds
  BY <1>2 DEF WalkEnds
<1>3. CASE CloseCalcs \/ ReportWalkError
  BY <1>3 DEF CloseCalcs, ReportWalkError, TypeOK
<1>4. ASSUME NEW w \in Workers, Worker(w) PROVE StageInv'
  <2>1. CASE Receive(w)
    <3>1. Head(calcs) \in Objects
      BY <2>1 DEF Receive, TypeOK
    <3>2. \A v \in Workers : worker[v] # "done"
      BY <2>1 DEF Receive
    <3> QED
      BY <2>1, <3>1, <3>2 DEF Receive, TypeOK
  <2>2. CASE SendResult(w)
    BY <2>2 DEF SendResult, TypeOK
  <2>3. CASE Hash(w) \/ HashFails(w) \/ WorkerDone(w)
    BY <2>3 DEF Hash, HashFails, WorkerDone, TypeOK
  <2> QED
    BY <1>4, <2>1, <2>2, <2>3 DEF Worker
<1>5. CASE CloseResults
  BY <1>5 DEF CloseResults
<1>6. CASE TakeResult
  <2>1. Head(results) \in Objects
    BY <1>6 DEF TakeResult, TypeOK
  <2> QED
    BY <1>6, <2>1 DEF TakeResult
<1>7. CASE Put \/ PutFails \/ Return
  BY <1>7 DEF Put, PutFails, Return
<1>8. CASE UNCHANGED vars
  BY <1>8 DEF vars
<1> QED
  BY <1>1, <1>2, <1>3, <1>4, <1>5, <1>6, <1>7, <1>8 DEF Next, Walker, Main, Ended

-----------------------------------------------------------------------------
(* Nothing the walk has come to is dropped on the way.                      *)

LEMMA DroppedInit == Init => NoneDropped
BY RangeEmpty DEF Init, NoneDropped, InPipeline, Held

LEMMA DroppedStep == TypeOK /\ StageInv /\ NoneDropped /\ [Next]_vars => NoneDropped'
<1> SUFFICES ASSUME TypeOK, StageInv, NoneDropped, [Next]_vars PROVE NoneDropped'
  OBVIOUS
<1> USE DEF NoneDropped, InPipeline, walkerVars, workerVars, channels, mainVars
<1>1. ASSUME NEW o \in Objects, Walk(o) PROVE NoneDropped'
  <2>1. Range(calcs') = Range(calcs) \cup {o}
    BY <1>1, RangeAppend DEF Walk, TypeOK
  <2>2. Objects \ unwalked' = (Objects \ unwalked) \cup {o}
    BY <1>1 DEF Walk, TypeOK
  <2> QED
    BY <1>1, <2>1, <2>2 DEF Walk, Held
<1>2. CASE WalkEnds \/ CloseCalcs \/ ReportWalkError \/ CloseResults \/ PutFails \/ Return
  BY <1>2 DEF WalkEnds, CloseCalcs, ReportWalkError, CloseResults, PutFails, Return, Held
<1>3. ASSUME NEW w \in Workers, Worker(w) PROVE NoneDropped'
  <2>1. CASE Receive(w)
    <3>1. Range(calcs) = {Head(calcs)} \cup Range(calcs')
      BY <2>1, RangeHeadTail DEF Receive, TypeOK
    <3>2. Held' = Held \cup {Head(calcs)}
      <4>1. {Head(calcs)} \in SUBSET Objects /\ hashing[w] = {}
        BY <2>1 DEF Receive, TypeOK, StageInv
      <4> QED
        BY <2>1, <4>1, HeldExcept DEF Receive
    <3> QED
      BY <2>1, <3>1, <3>2 DEF Receive
  <2>2. CASE SendResult(w)
    <3>1. PICK o \in Objects : hashing[w] = {o}
      BY <2>2 DEF SendResult, StageInv
    <3>2. Range(results') = Range(results) \cup {o}
      BY <2>2, <3>1, RangeAppend DEF SendResult, TypeOK
    <3>3. Held = Held' \cup {o}
      BY <2>2, <3>1, HeldExcept DEF SendResult
    <3> QED
      BY <2>2, <3>2, <3>3 DEF SendResult
  <2>3. CASE Hash(w) \/ HashFails(w) \/ WorkerDone(w)
    BY <2>3 DEF Hash, HashFails, WorkerDone, Held
  <2> QED
    BY <1>3, <2>1, <2>2, <2>3 DEF Worker
<1>4. CASE TakeResult
  <2>1. Range(results) = {Head(results)} \cup Range(results')
    BY <1>4, RangeHeadTail DEF TakeResult, TypeOK
  <2> QED
    BY <1>4, <2>1 DEF TakeResult, Held
<1>5. CASE Put
  BY <1>5 DEF Put, Held
<1>6. CASE UNCHANGED vars
  BY <1>6 DEF vars, Held
<1> QED
  BY <1>1, <1>2, <1>3, <1>4, <1>5, <1>6 DEF Next, Walker, Main, Ended

-----------------------------------------------------------------------------
PipelineInv == TypeOK /\ StageInv /\ NoneDropped

LEMMA PipelineInvariant == Spec => []PipelineInv
<1>1. Init => PipelineInv
  BY TypeInit, StageInit, DroppedInit DEF PipelineInv
<1>2. PipelineInv /\ [Next]_vars => PipelineInv'
  BY TypeStep, StageStep, DroppedStep DEF PipelineInv
<1> QED
  BY <1>1, <1>2, PTL DEF Spec

\* No goroutine ever sends on a channel that has been closed (main.go:90-94, 123).
THEOREM ClosedIsFinal == Spec => []NoSendOnClosed
<1>1. PipelineInv => NoSendOnClosed
  BY PipelineAssumption DEF PipelineInv, StageInv, NoSendOnClosed
<1> QED
  BY <1>1, PipelineInvariant, PTL

\* A drained and closed results channel leaves nothing in the pipeline.
LEMMA DrainedIsStored ==
    ASSUME PipelineInv, results = <<>>, resultsClosed, uploading = {}
    PROVE  bucket = Objects \ unwalked
<1> USE DEF PipelineInv, StageInv
<1>1. \A w \in Workers : worker[w] = "done" /\ hashing[w] = {}
  OBVIOUS
<1>2. calcs = <<>>
  BY PipelineAssumption
<1>3. InPipeline = {}
  BY <1>1, <1>2, RangeEmpty DEF InPipeline, Held
<1> QED
  BY <1>3 DEF NoneDropped

\* When upload() returns, all the walk has come to is stored (main.go:129-140).
THEOREM SuccessIsComplete == Spec => []OkMeansStored
<1>1. PipelineInv => OkMeansStored
  BY DrainedIsStored DEF PipelineInv, StageInv, OkMeansStored
<1> QED
  BY <1>1, PipelineInvariant, PTL

-----------------------------------------------------------------------------
(* upload() implements UploadService.                                       *)

\* What is stored is what the walk has come to, and success comes after all of it.
THEOREM Refinement == Spec => ImplementsUploadService
<1> DEFINE Asked == Objects \ unwalked
<1>1. Init => Service!Init
  BY DEF Init, Service!Init
<1>2. ASSUME PipelineInv, PipelineInv', [Next]_vars
      PROVE  [Service!Next]_<<Asked, bucket, exit>>
  <2> USE DEF walkerVars, workerVars, channels, mainVars, Running
  <2>1. ASSUME NEW o \in Objects, Walk(o) PROVE Service!Ask(o)
    BY <1>2, <2>1 DEF Walk, Service!Ask, PipelineInv, TypeOK
  <2>2. CASE Put
    <3>1. PICK o \in Objects : uploading = {o}
      BY <1>2, <2>2 DEF Put, PipelineInv, StageInv
    <3>2. o \in Asked
      BY <1>2, <3>1 DEF PipelineInv, NoneDropped, InPipeline
    <3>3. CASE o \in bucket
      BY <2>2, <3>1, <3>3 DEF Put
    <3>4. CASE o \notin bucket
      <4>1. Service!Store(o)
        BY <2>2, <3>1, <3>2, <3>4 DEF Put, Service!Store
      <4> QED
        BY <4>1 DEF Service!Next
    <3> QED
      BY <3>3, <3>4
  <2>3. CASE Return
    <3>1. bucket = Asked
      BY <1>2, <2>3, DrainedIsStored DEF Return
    <3> QED
      BY <2>3, <3>1 DEF Return, Service!Next, Service!Succeed
  <2>4. CASE ReportWalkError \/ PutFails \/ \E w \in Workers : HashFails(w)
    BY <2>4 DEF ReportWalkError, PutFails, HashFails, Service!Next, Service!Fail
  <2>5. CASE \E w \in Workers : Receive(w) \/ Hash(w) \/ SendResult(w) \/ WorkerDone(w)
    BY <2>5 DEF Receive, Hash, SendResult, WorkerDone
  <2>6. CASE WalkEnds \/ CloseCalcs \/ CloseResults \/ TakeResult \/ UNCHANGED vars
    BY <2>6 DEF WalkEnds, CloseCalcs, CloseResults, TakeResult, vars
  <2> QED
    BY <1>2, <2>1, <2>2, <2>3, <2>4, <2>5, <2>6
       DEF Next, Walker, Worker, Main, Ended, Service!Next
<1> QED
  BY <1>1, <1>2, PipelineInvariant, PTL DEF Spec, ImplementsUploadService, Service!Spec
=============================================================================
