-------------------------- MODULE FlatpakSeedsProofs --------------------------
(***************************************************************************)
(* What holds of FlatpakSeeds for any apps, addons, hard-coded list and     *)
(* number of faults: the types, that the list names nothing that was never  *)
(* there, and that the system gives each app once.                          *)
(***************************************************************************)
EXTENDS FlatpakSeeds, TLAPS

USE AppsAssumption

\* What the boot knows when it gets to a step.
StepFacts ==
    /\ step \in {"up", "loop", "record", "done"} => setup
    /\ ~listed => ever = {}
    /\ step \in {"seed", "seedAddons"} => listed
    /\ step = "seed" => ever = {}
    /\ step = "seedAddons" /\ ~setup => factory \ Addons \subseteq ever
    /\ ~setup => factory \subseteq had
    /\ step = "record" => \A a \in Apps : Turn(a) => a \in had
    /\ step \in {"loop", "record"} => ever \cap todo \subseteq skip

\* What the system gave an app for without a fault: it is on the list, or the
\* boot is about to put it there.
Charged(a) ==
    \/ a \in ever
    \/ step = "record" /\ Turn(a)
    \/ /\ ~setup /\ a \in factory
       /\ (step = "early" /\ ~listed) \/ step \in {"seed", "seedAddons"}

Accounted == \A a \in Apps : given[a] <= (IF Charged(a) THEN 1 ELSE 0) + faults

SeedInv == TypeOK /\ StepFacts /\ ListedWasThere /\ Accounted

-----------------------------------------------------------------------------
(* Helpers.                                                                 *)

LEMMA OneTurn ==
    ASSUME TypeOK, NEW a \in Apps, NEW b \in Apps, Turn(a), Turn(b)
    PROVE  a = b
  BY DEF Turn, TypeOK, Apps

LEMMA FaultsBounded ==
    ASSUME TypeOK, Fault
    PROVE  faults' = faults + 1 /\ faults \in Nat /\ faults' \in 0..MaxFaults
<1>1. faults \in 0..MaxFaults
  BY DEF TypeOK
<1> QED
  BY <1>1 DEF Fault

\* A fault pays for whatever was not accounted for otherwise.
LEMMA FaultPays ==
    ASSUME SeedInv, Fault, UNCHANGED given
    PROVE  Accounted'
<1>1. faults' = faults + 1 /\ faults \in Nat
  BY FaultsBounded DEF SeedInv
<1>2. \A a \in Apps : given[a] \in Nat /\ given[a] <= 1 + faults
  BY <1>1 DEF SeedInv, TypeOK, Accounted
<1> QED
  BY <1>1, <1>2 DEF Accounted

\* An app that keeps its charge and its count stays accounted for.
LEMMA ChargesKept ==
    ASSUME SeedInv, UNCHANGED <<given, faults>>,
           \A a \in Apps : Charged(a) => Charged(a)'
    PROVE  Accounted'
<1>1. faults \in Nat /\ \A a \in Apps : given[a] \in Nat
  BY DEF SeedInv, TypeOK
<1> QED
  BY <1>1 DEF SeedInv, Accounted

-----------------------------------------------------------------------------
(* The invariant.                                                           *)

LEMMA InitSeed == Init => SeedInv
<1> SUFFICES ASSUME Init PROVE SeedInv
  OBVIOUS
<1>1. TypeOK
  <2>1. installed \in SUBSET Apps /\ setup \in BOOLEAN
    BY DEF Init, NewSystem, OldSystem
  <2>2. given \in [Apps -> Nat]
    BY DEF Init, NewSystem, OldSystem
  <2>3. factory \in SUBSET Apps /\ todo \subseteq factory /\ skip \in SUBSET Apps /\ step = "early"
    BY DEF Init
  <2>4. listed = FALSE /\ ever = {} /\ had = installed /\ faults \in 0..MaxFaults
    BY DEF Init
  <2> QED
    BY <2>1, <2>2, <2>3, <2>4 DEF TypeOK
<1>2. StepFacts
  BY DEF Init, StepFacts, NewSystem, OldSystem
<1>3. ListedWasThere
  BY DEF Init, ListedWasThere
<1>4. Accounted
  <2>1. CASE NewSystem(factory)
    BY <2>1 DEF Init, NewSystem, Accounted, Charged
  <2>2. CASE OldSystem
    BY <2>2 DEF Init, OldSystem, Accounted
  <2> QED
    BY <2>1, <2>2 DEF Init
<1> QED
  BY <1>1, <1>2, <1>3, <1>4 DEF SeedInv

LEMMA SeedKeeps ==
    ASSUME SeedInv, Seed
    PROVE  SeedInv'
<1> USE DEF SeedInv, Goto, ghosts, loop, disk
<1>1. CASE SeedCreate
  <2>1. TypeOK'
    BY <1>1 DEF SeedCreate, TypeOK
  <2>2. StepFacts' /\ ListedWasThere'
    BY <1>1 DEF SeedCreate, StepFacts, ListedWasThere
  <2>3. \A a \in Apps : Charged(a) => Charged(a)'
    BY <1>1 DEF SeedCreate, Charged
  <2> QED
    BY <1>1, <2>1, <2>2, <2>3, ChargesKept DEF SeedCreate
<1>2. CASE SeedApps
  <2>1. TypeOK'
    BY <1>2 DEF SeedApps, TypeOK
  <2>2. StepFacts' /\ ListedWasThere'
    BY <1>2 DEF SeedApps, StepFacts, ListedWasThere
  <2>3. \A a \in Apps : Charged(a) => Charged(a)'
    BY <1>2 DEF SeedApps, Charged, StepFacts
  <2> QED
    BY <1>2, <2>1, <2>2, <2>3, ChargesKept DEF SeedApps
<1>3. CASE SeedAddons
  <2>1. TypeOK'
    BY <1>3 DEF SeedAddons, TypeOK
  <2>2. StepFacts' /\ ListedWasThere'
    BY <1>3 DEF SeedAddons, StepFacts, ListedWasThere, TypeOK
  <2>3. \A a \in Apps : Charged(a) => Charged(a)'
    BY <1>3 DEF SeedAddons, Charged, StepFacts
  <2> QED
    BY <1>3, <2>1, <2>2, <2>3, ChargesKept DEF SeedAddons
<1>4. CASE AlreadySeeded
  <2>1. TypeOK' /\ StepFacts' /\ ListedWasThere'
    BY <1>4 DEF AlreadySeeded, TypeOK, StepFacts, ListedWasThere
  <2>2. \A a \in Apps : Charged(a) => Charged(a)'
    BY <1>4 DEF AlreadySeeded, Charged
  <2> QED
    BY <1>4, <2>1, <2>2, ChargesKept DEF AlreadySeeded
<1>5. CASE PlasmaSetup
  <2>1. TypeOK' /\ StepFacts' /\ ListedWasThere'
    BY <1>5 DEF PlasmaSetup, TypeOK, StepFacts, ListedWasThere
  <2>2. \A a \in Apps : Charged(a) => Charged(a)'
    BY <1>5 DEF PlasmaSetup, Charged
  <2> QED
    BY <1>5, <2>1, <2>2, ChargesKept DEF PlasmaSetup
<1> QED
  BY <1>1, <1>2, <1>3, <1>4, <1>5 DEF Seed

LEMMA ScriptKeeps ==
    ASSUME SeedInv, Script
    PROVE  SeedInv'
<1> USE DEF SeedInv, Goto, ghosts, loop, disk
<1>1. CASE Scan \/ ScanBlind
  <2>1. TypeOK' /\ StepFacts' /\ ListedWasThere'
    BY <1>1 DEF Scan, ScanBlind, TypeOK, StepFacts, ListedWasThere
  <2>2. \A a \in Apps : Charged(a) => Charged(a)'
    BY <1>1 DEF Scan, ScanBlind, Charged
  <2> QED
    BY <1>1, <2>1, <2>2, ChargesKept DEF Scan, ScanBlind
<1>2. ASSUME NEW a \in Apps, Skipped(a) \/ InstallFails(a) PROVE SeedInv'
  <2>1. /\ step = "loop" /\ todo' = todo \ {a}
        /\ UNCHANGED <<factory, disk, step, skip, ghosts, faults>>
    BY <1>2 DEF Skipped, InstallFails
  <2>2. TypeOK' /\ StepFacts' /\ ListedWasThere'
    BY <2>1 DEF TypeOK, StepFacts, ListedWasThere
  <2>3. \A b \in Apps : Charged(b) => Charged(b)'
    BY <2>1 DEF Charged
  <2> QED
    BY <2>1, <2>2, <2>3, ChargesKept
<1>3. ASSUME NEW a \in Apps, Install(a) PROVE SeedInv'
  <2>1. /\ step = "loop" /\ step' = "record" /\ Turn(a) /\ a \notin ever
        /\ installed' = installed \cup {a} /\ had' = had \cup {a}
        /\ UNCHANGED <<factory, listed, ever, setup, loop, faults>>
    BY <1>3 DEF Install, StepFacts, Turn
  <2>2. \A b \in Apps : Turn(b)' => b = a
    BY <2>1, OneTurn DEF Turn
  <2>3. /\ given' \in [Apps -> Nat] /\ given'[a] <= given[a] + 1
        /\ \A b \in Apps \ {a} : given'[b] = given[b]
    BY <1>3 DEF Install, TypeOK
  <2>4. TypeOK'
    BY <2>1, <2>3 DEF TypeOK
  <2>5. StepFacts' /\ ListedWasThere'
    BY <2>1, <2>2 DEF StepFacts, ListedWasThere
  <2>6. ~Charged(a) /\ Charged(a)' /\ \A b \in Apps : Charged(b) => Charged(b)'
    BY <2>1 DEF Charged, Turn, StepFacts
  <2>7. faults \in Nat /\ \A b \in Apps : given[b] \in Nat /\ given'[b] \in Nat
    BY <2>3 DEF TypeOK
  <2>8. Accounted'
    BY <2>1, <2>3, <2>6, <2>7 DEF Accounted
  <2> QED
    BY <2>4, <2>5, <2>8
<1>4. ASSUME NEW a \in Apps, Record(a) PROVE SeedInv'
  <2>1. /\ step = "record" /\ step' = "loop" /\ Turn(a)
        /\ ever' = ever \cup {a} /\ todo' = todo \ {a}
        /\ UNCHANGED <<factory, installed, listed, setup, skip, ghosts, faults>>
    BY <1>4 DEF Record
  <2>2. TypeOK'
    BY <2>1 DEF TypeOK
  <2>3. StepFacts' /\ ListedWasThere'
    BY <2>1 DEF StepFacts, ListedWasThere, TypeOK
  <2>4. \A b \in Apps : Charged(b) => Charged(b)'
    BY <2>1, OneTurn DEF Charged
  <2> QED
    BY <2>1, <2>2, <2>3, <2>4, ChargesKept
<1>5. CASE LoopEnds \/ \E a \in Apps : RemoteFails(a)
  <2>1. /\ step = "loop" /\ step' = "done"
        /\ UNCHANGED <<factory, disk, loop, ghosts, faults>>
    BY <1>5 DEF LoopEnds, RemoteFails
  <2>2. TypeOK' /\ StepFacts' /\ ListedWasThere'
    BY <2>1 DEF TypeOK, StepFacts, ListedWasThere
  <2>3. \A b \in Apps : Charged(b) => Charged(b)'
    BY <2>1 DEF Charged
  <2> QED
    BY <2>1, <2>2, <2>3, ChargesKept
<1> QED
  BY <1>1, <1>2, <1>3, <1>4, <1>5 DEF Script, Try

LEMMA UserKeeps ==
    ASSUME SeedInv, User
    PROVE  SeedInv'
<1> USE DEF SeedInv
<1>1. /\ UNCHANGED <<factory, listed, ever, setup, step, loop, given, faults>>
      /\ installed' \in SUBSET Apps /\ had \subseteq had' /\ had' \in SUBSET Apps
  BY DEF User, UserInstalls, UserRemoves, TypeOK, ghosts
<1>2. TypeOK' /\ StepFacts' /\ ListedWasThere'
  BY <1>1 DEF TypeOK, StepFacts, ListedWasThere, loop, Turn
<1>3. \A b \in Apps : Charged(b) => Charged(b)'
  BY <1>1 DEF Charged, loop, Turn
<1> QED
  BY <1>1, <1>2, <1>3, ChargesKept

LEMMA BootKeeps ==
    ASSUME SeedInv, Restart \/ Faulty
    PROVE  SeedInv'
<1> USE DEF SeedInv, disk, ghosts, loop
<1>1. CASE Restart \/ Crash
  <2>1. /\ step' = "early" /\ factory' \in SUBSET Apps /\ todo' = {} /\ skip' = {}
        /\ UNCHANGED <<disk, ghosts>> /\ (setup \/ factory' = factory)
    BY <1>1 DEF Restart, Crash, PowerOn, SameImage
  <2>2. faults' \in 0..MaxFaults
    BY <1>1, FaultsBounded DEF Restart, Crash, TypeOK
  <2>3. TypeOK' /\ StepFacts' /\ ListedWasThere'
    BY <2>1, <2>2 DEF TypeOK, StepFacts, ListedWasThere
  <2>4. CASE Crash
    BY <2>1, <2>3, <2>4, FaultPays DEF Crash
  <2>5. CASE Restart
    <3>1. step = "done" /\ setup /\ UNCHANGED faults
      BY <2>5 DEF Restart, StepFacts
    <3>2. \A b \in Apps : Charged(b) => Charged(b)'
      BY <2>1, <3>1 DEF Charged
    <3> QED
      BY <2>1, <2>3, <3>1, <3>2, ChargesKept
  <2> QED
    BY <1>1, <2>4, <2>5
<1>2. CASE SeedFails \/ RecordFails
  <2>1. /\ UNCHANGED <<factory, disk, loop, ghosts>> /\ Fault
        /\ \/ step' = "setUp"
           \/ step = "record" /\ step' = "done"
    BY <1>2 DEF SeedFails, RecordFails, Goto
  <2>2. faults' \in 0..MaxFaults
    BY <2>1, FaultsBounded
  <2>3. TypeOK' /\ StepFacts' /\ ListedWasThere'
    BY <2>1, <2>2 DEF TypeOK, StepFacts, ListedWasThere
  <2> QED
    BY <2>1, <2>3, FaultPays
<1> QED
  BY <1>1, <1>2 DEF Faulty

LEMMA StepSeed == SeedInv /\ [Next]_vars => SeedInv'
<1> SUFFICES ASSUME SeedInv, [Next]_vars PROVE SeedInv'
  OBVIOUS
<1>1. CASE UNCHANGED vars
  BY <1>1 DEF SeedInv, TypeOK, StepFacts, ListedWasThere, Accounted, Charged, Turn,
     vars, disk, loop, ghosts
<1>2. CASE Next
  BY <1>2, SeedKeeps, ScriptKeeps, UserKeeps, BootKeeps DEF Next
<1> QED
  BY <1>1, <1>2

-----------------------------------------------------------------------------
(* The theorems.                                                            *)

\* Every variable keeps its type, and the loop runs with a list only
\* (install-new-flatpaks:13).
THEOREM TypeCorrect == Spec => []TypeOK
<1>1. SeedInv => TypeOK
  BY DEF SeedInv
<1> QED
  BY <1>1, InitSeed, StepSeed, PTL DEF Spec

\* The list names nothing that was never on the machine, but what it is
\* hard-coded to (seed-preinstalled-flatpak-list:17-33, install-new-flatpaks:57-58).
THEOREM ListIsTrue == Spec => []ListedWasThere
<1>1. SeedInv => ListedWasThere
  BY DEF SeedInv
<1> QED
  BY <1>1, InitSeed, StepSeed, PTL DEF Spec

\* The system gives an app once, and once more for each fault at most, whatever
\* images are booted and whatever the user removes (install-new-flatpaks:25-58).
THEOREM GivenOnceOnly == Spec => []GivenOnce
<1>1. SeedInv => GivenOnce
  BY DEF SeedInv, TypeOK, Accounted, GivenOnce
<1> QED
  BY <1>1, InitSeed, StepSeed, PTL DEF Spec
=============================================================================
