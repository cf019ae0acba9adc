--------------------------- MODULE MigrationProofs ---------------------------
(***************************************************************************)
(* Proofs about the migrator, for any v1 versions, homes and nested          *)
(* subvolumes and any number of crashes, failures and sessions: first about *)
(* HomeMigration, then about RootMigration.  Once there is a @system the    *)
(* machine is that of HomeMigration, and the lemmas on its steps are cited   *)
(* for it: TypeStep, DataStep, LayoutStep, LatestStep.                      *)
(***************************************************************************)
EXTENDS RootMigration, TLAPS

-----------------------------------------------------------------------------
(* Type correctness.  Renames move whole trees, so what is needed is that   *)
(* every tree made from nothing or changed in place is a tree.              *)

LEMMA NewTrees ==
    /\ Absent \in Trees /\ EmptySubvol \in Trees
    /\ \A g \in 0..MaxSessions : [Absent EXCEPT !.kind = "dir", !.gen = g] \in Trees
<1>1. NoEntries \in [Entries -> Shapes]
  BY DEF NoEntries, Shapes
<1>2. 0 \in 0..MaxSessions
  BY BoundsAssumption
<1>3. Absent \in Trees
  BY <1>1, <1>2 DEF Trees, Kinds, Absent
<1>4. EmptySubvol \in Trees
  BY <1>1, <1>2 DEF Trees, Kinds, EmptySubvol
<1>5. ASSUME NEW g \in 0..MaxSessions
      PROVE  [Absent EXCEPT !.kind = "dir", !.gen = g] \in Trees
  BY <1>1 DEF Trees, Kinds, Absent
<1> QED
  BY <1>3, <1>4, <1>5

LEMMA SetEntry ==
    ASSUME NEW t \in Trees, NEW e \in Entries, NEW s \in Shapes
    PROVE  /\ Set(t, e, s) \in Trees
           /\ Set(t, e, s).kind = t.kind
           /\ Set(t, e, s).gen = t.gen
           /\ Set(t, e, s).ents = [t.ents EXCEPT ![e] = s]
<1>1. t.ents \in [Entries -> Shapes]
  BY DEF Trees
<1>2. [t.ents EXCEPT ![e] = s] \in [Entries -> Shapes]
  BY <1>1
<1>3. Set(t, e, s) = [t EXCEPT !.ents = [t.ents EXCEPT ![e] = s]]
  BY DEF Set
<1> QED
  BY <1>2, <1>3 DEF Trees

LEMMA NextGen ==
    ASSUME NEW t \in Trees, t.gen < MaxSessions
    PROVE  /\ [t EXCEPT !.gen = @ + 1] \in Trees
           /\ [t EXCEPT !.gen = @ + 1].kind = t.kind
           /\ [t EXCEPT !.gen = @ + 1].gen = t.gen + 1
           /\ [t EXCEPT !.gen = @ + 1].ents = t.ents
BY BoundsAssumption DEF Trees

\* TypeOK alone is not inductive: the rename home -> home.v3old needs home to be
\* a subvolume, which the code has checked two steps earlier.
TypeInv == TypeOK /\ (step \in {"stage", "copy"} => IsSubvol(home))

LEMMA TypeInit == Init => TypeInv
<1> SUFFICES ASSUME Init PROVE TypeInv
  OBVIOUS
<1>1. home \in Trees
  <2>1. [e \in Entries |-> "whole"] \in [Entries -> Shapes]
    BY DEF Shapes
  <2> QED
    BY <2>1, BoundsAssumption DEF Init, Trees, Kinds
<1>2. step \in Steps /\ step \notin {"stage", "copy"}
  BY DEF Init, Steps
<1>3. latest \in 0..MaxSessions /\ faults \in 0..MaxFaults
  BY BoundsAssumption DEF Init
<1> QED
  BY <1>1, <1>2, <1>3, NewTrees DEF Init, TypeInv, TypeOK, Absent

LEMMA FaultType == TypeOK /\ Fault => faults' \in 0..MaxFaults
BY BoundsAssumption DEF TypeOK, Fault

\* Most steps leave the disk alone and move the pc.
LEMMA TypeControl ==
    ASSUME TypeInv, DiskUnchanged, UNCHANGED latest, faults' \in 0..MaxFaults,
           step' \in Steps, step' \in {"stage", "copy"} => IsSubvol(home)
    PROVE  TypeInv'
BY DEF TypeInv, TypeOK, DiskUnchanged, IsSubvol

LEMMA TypeStep == TypeInv /\ [Next]_vars => TypeInv'
<1> SUFFICES ASSUME TypeInv, [Next]_vars PROVE TypeInv'
  OBVIOUS
<1> USE DEF TypeInv
<1> DEFINE Quiet == Steps \ {"stage", "copy"}
<1>1. CASE Boot
  <2>1. step' \in Quiet
    BY <1>1 DEF Boot, PowerOn, StartMigrator, NothingToMigrate, Goto, Steps, Running,
                Migrating, UserSpace
  <2>2. DiskUnchanged /\ UNCHANGED <<latest, faults>>
    BY <1>1 DEF Boot, PowerOn, StartMigrator, NothingToMigrate
  <2> QED
    BY <2>1, <2>2, TypeControl DEF TypeOK
<1>2. CASE Recover
  <2>1. CASE NoLeftover \/ InterruptedSwap \/ Refuse \/ LeftoverOld \/ CheckTmp
    <3>1. step' \in Quiet
      BY <2>1 DEF NoLeftover, InterruptedSwap, Refuse, LeftoverOld, CheckTmp, Goto, Steps,
                  Running, Migrating
    <3>2. DiskUnchanged /\ UNCHANGED <<latest, faults>>
      BY <2>1 DEF NoLeftover, InterruptedSwap, Refuse, LeftoverOld, CheckTmp
    <3> QED
      BY <3>1, <3>2, TypeControl DEF TypeOK
  <2>2. CASE CheckHome
    <3>1. step' \in Steps /\ (step' \in {"stage", "copy"} => IsSubvol(home))
      BY <2>2 DEF CheckHome, Goto, Steps, Running, Migrating, UserSpace
    <3> QED
      BY <2>2, <3>1, TypeControl DEF CheckHome, TypeOK
  <2>3. ASSUME NEW e \in Entries, ClearEntry(e) PROVE TypeInv'
    <3>1. "missing" \in Shapes
      BY DEF Shapes
    <3> QED
      BY <2>3, <3>1, SetEntry DEF ClearEntry, TypeOK, IsSubvol
  <2>4. CASE ClearDone
    BY <2>4, NewTrees
       DEF ClearDone, TypeOK, Absent, Steps, Running, Migrating
  <2>5. CASE Restore
    BY <2>5, NewTrees DEF Restore, Goto, TypeOK, Absent, Steps, Running, Migrating
  <2> QED
    BY <1>2, <2>1, <2>2, <2>3, <2>4, <2>5 DEF Recover
<1>3. CASE Migrate
  <2>1. CASE MakeStaging
    <3>1. home.gen \in 0..MaxSessions
      BY DEF TypeOK, Trees
    <3>2. tmp' \in Trees /\ tmp'.kind = "dir"
      BY <2>1, <3>1, NewTrees DEF MakeStaging, Absent
    <3>3. IsSubvol(home)'
      BY <2>1 DEF MakeStaging, Goto, IsSubvol
    <3> QED
      BY <2>1, <3>2, <3>3 DEF MakeStaging, Goto, TypeOK, Steps, Running, Migrating
  <2>2. ASSUME NEW e \in Entries,
               BeginEntry(e) \/ FillEntry(e) \/ CutNested(e) \/ SnapshotNested(e)
        PROVE  TypeInv'
    <3>1. PICK s \in Shapes : tmp' = Set(tmp, e, s)
      BY <2>2 DEF BeginEntry, FillEntry, CutNested, SnapshotNested, Shapes
    <3>2. UNCHANGED <<home, old, step, latest, faults>>
      BY <2>2 DEF BeginEntry, FillEntry, CutNested, SnapshotNested
    <3> QED
      BY <3>1, <3>2, SetEntry DEF TypeOK, IsSubvol
  <2>3. CASE SwapOut
    BY <2>3, NewTrees
       DEF SwapOut, Goto, TypeOK, IsSubvol, Absent, Steps, Running, Migrating
  <2>4. CASE SwapIn
    BY <2>4, NewTrees DEF SwapIn, Goto, TypeOK, Absent, Steps, Running, Migrating
  <2>5. CASE Undo
    BY <2>5, NewTrees DEF Undo, Goto, TypeOK, Absent, Steps
  <2>6. ASSUME NEW e \in Entries, DeleteOldNested(e) PROVE TypeInv'
    <3>1. "cut" \in Shapes
      BY DEF Shapes
    <3> QED
      BY <2>6, <3>1, SetEntry DEF DeleteOldNested, TypeOK, IsSubvol
  <2>7. CASE DeleteOld
    BY <2>7, NewTrees
       DEF DeleteOld, TypeOK, Absent, Steps, Running, Migrating, UserSpace
  <2> QED
    BY <1>3, <2>1, <2>2, <2>3, <2>4, <2>5, <2>6, <2>7 DEF Migrate
<1>4. CASE Faulty
  <2>1. step' \in Quiet
    BY <1>4 DEF Faulty, Crash, Abort, ShowFails, MisreadLeftover, SwapInFails, ReapFails,
                Goto, Steps, Running, Migrating, UserSpace
  <2>2. DiskUnchanged /\ UNCHANGED latest /\ Fault
    BY <1>4 DEF Faulty, Crash, Abort, ShowFails, MisreadLeftover, SwapInFails, ReapFails
  <2> QED
    BY <2>1, <2>2, FaultType, TypeControl
<1>5. CASE Session
  <2>1. latest + 1 \in 0..MaxSessions
    BY <1>5, BoundsAssumption DEF Session, TypeOK
  <2>2. home.gen < MaxSessions
    BY <1>5 DEF Session, Intact
  <2> QED
    BY <1>5, <2>1, <2>2, NextGen DEF Session, TypeOK, UserSpace
<1>6. CASE Reset
  BY <1>6, TypeControl DEF Reset, TypeOK, Steps
<1>7. CASE Detour
  <2>1. step' = "detour" /\ UNCHANGED <<old, tmp, latest, faults>>
    BY <1>7 DEF Detour, Goto
  <2>2. home' \in Trees
    BY <1>7, NewTrees DEF Detour, TypeOK
  <2> QED
    BY <2>1, <2>2 DEF TypeOK, Steps, UserSpace
<1>8. CASE UNCHANGED vars
  BY <1>8 DEF vars, TypeOK, IsSubvol
<1> QED
  BY <1>1, <1>2, <1>3, <1>4, <1>5, <1>6, <1>7, <1>8 DEF Next

LEMMA TypeInvariant == Spec => []TypeInv
BY TypeInit, TypeStep, PTL DEF Spec

\* Type correctness, for any machine: the staging directory is a directory and
\* home.v3old a subvolume whatever fails when, so that each recovery deletes
\* its leftover with the call that can (main.rs:310-351).
THEOREM TypeCorrect == Spec => []TypeOK
<1>1. TypeInv => TypeOK
  BY DEF TypeInv
<1> QED
  BY <1>1, TypeInvariant, PTL

-----------------------------------------------------------------------------
(* The users' data.  DataSafe says only that some copy is intact; that it   *)
(* stays so needs to know which one each destructive step may touch: that   *)
(* is DataInv.  TypeInv supplies the kinds of the trees.                    *)

LEMMA DataInit == Init => DataInv
BY DEF Init, DataInv, DataSafe, Survivor, Intact, Complete, Kept, Entries, Exists, IsSubvol,
       Absent, StepFacts, BootedIntact

\* The steps that leave the disk alone: what has to be shown is what they say of
\* the pc they go to.
LEMMA DataControl ==
    ASSUME DataInv, DiskUnchanged, UNCHANGED latest, StepFacts', BootedIntact'
    PROVE  DataInv'
BY DEF DataInv, DiskUnchanged, DataSafe, Survivor, Intact, Complete, Exists, IsSubvol

LEMMA DataBoot == ASSUME TypeInv, DataInv, Boot PROVE DataInv'
<1>1. DiskUnchanged /\ UNCHANGED latest
  BY DEF Boot, PowerOn, StartMigrator, NothingToMigrate
<1>2. StepFacts'
  BY DEF Boot, PowerOn, StartMigrator, NothingToMigrate, Goto, StepFacts
<1>3. BootedIntact'
  <2>1. CASE NothingToMigrate
    <3>1. Survivor = home
      BY <2>1 DEF NothingToMigrate, NeedsMigration, Survivor
    <3> QED
      BY <2>1, <3>1 DEF NothingToMigrate, DiskUnchanged, DataInv, DataSafe, BootedIntact,
                        Intact, Complete, Exists
  <2> QED
    BY <2>1 DEF Boot, PowerOn, StartMigrator, Goto, BootedIntact
<1> QED
  BY <1>1, <1>2, <1>3, DataControl

LEMMA DataRecover == ASSUME TypeInv, DataInv, Recover PROVE DataInv'
<1>1. CASE NoLeftover \/ InterruptedSwap \/ Refuse \/ LeftoverOld \/ CheckTmp \/ CheckHome
  <2>1. DiskUnchanged /\ UNCHANGED latest
    BY <1>1 DEF NoLeftover, InterruptedSwap, Refuse, LeftoverOld, CheckTmp, CheckHome
  <2>2. home.kind \in Kinds
    BY DEF TypeInv, TypeOK, Trees
  <2>3. StepFacts'
    BY <1>1, <2>1, <2>2
       DEF NoLeftover, InterruptedSwap, Refuse, LeftoverOld, CheckTmp, CheckHome, Goto,
           DiskUnchanged, DataInv, StepFacts, Exists, IsSubvol, Kinds
  <2>4. BootedIntact'
    <3>1. CASE CheckHome
      <4>1. Survivor = home
        BY <3>1 DEF CheckHome, Goto, DataInv, StepFacts, Survivor
      <4> QED
        BY <2>1, <4>1
           DEF DiskUnchanged, DataInv, DataSafe, BootedIntact, Intact, Complete, Exists
    <3> QED
      BY <1>1, <3>1 DEF NoLeftover, InterruptedSwap, Refuse, LeftoverOld, CheckTmp, Goto,
                        BootedIntact
  <2> QED
    BY <2>1, <2>3, <2>4, DataControl
<1>2. CASE ClearDone \/ \E e \in Entries : ClearEntry(e)
  <2>1. UNCHANGED <<home, old, latest>>
    BY <1>2 DEF ClearDone, ClearEntry
  <2>2. StepFacts' /\ BootedIntact'
    BY <1>2, <2>1
       DEF ClearDone, ClearEntry, Clearing, DataInv, StepFacts, BootedIntact, Exists
  <2> QED
    BY <2>1, <2>2
       DEF DataInv, DataSafe, Survivor, Intact, Complete, Exists, IsSubvol
<1>3. CASE Restore
  <2>1. Survivor = old /\ home' = old /\ old' = Absent /\ UNCHANGED latest
    BY <1>3 DEF Restore, Goto, DataInv, DataSafe, StepFacts, Survivor, Intact, Complete,
                Exists
  <2>2. Intact(home)'
    BY <2>1 DEF DataInv, DataSafe, Intact, Complete, Exists
  <2> QED
    BY <1>3, <2>1, <2>2
       DEF Restore, Goto, DataInv, DataSafe, StepFacts, BootedIntact, Survivor, Exists, Absent
<1> QED
  BY <1>1, <1>2, <1>3 DEF Recover

LEMMA DataCopy ==
    ASSUME TypeInv, DataInv, NEW e \in Entries,
           BeginEntry(e) \/ FillEntry(e) \/ CutNested(e) \/ SnapshotNested(e)
    PROVE  DataInv'
<1>1. step = "copy" /\ UNCHANGED <<home, old, step, latest>>
  BY DEF BeginEntry, FillEntry, CutNested, SnapshotNested
<1>2. PICK s \in Shapes : tmp' = Set(tmp, e, s)
  BY DEF BeginEntry, FillEntry, CutNested, SnapshotNested, Shapes
<1>3. tmp'.kind = tmp.kind /\ tmp'.gen = tmp.gen
  BY <1>2, SetEntry DEF TypeInv, TypeOK
<1> QED
  BY <1>1, <1>3 DEF DataInv, DataSafe, Survivor, StepFacts, BootedIntact, Intact, Complete,
                    Exists, IsSubvol

\* The swap.  When home goes away the staging directory is as good as home was.
LEMMA StagedIsIntact ==
    ASSUME TypeInv, DataInv, step = "copy", Staged
    PROVE  Intact(home) /\ Intact(tmp)
<1>1. Survivor = home
  BY DEF DataInv, StepFacts, Survivor
<1>2. Intact(home)
  BY <1>1 DEF DataInv, DataSafe
<1>3. Listed = Kept
  BY <1>2 DEF Listed, Intact, Complete
<1> QED
  BY <1>2, <1>3 DEF Staged, DataInv, StepFacts, Intact, Complete, Exists

LEMMA DataMigrate == ASSUME TypeInv, DataInv, Migrate PROVE DataInv'
<1>1. CASE MakeStaging
  <2>1. tmp'.kind = "dir" /\ tmp'.gen = home.gen
    BY <1>1 DEF MakeStaging, Absent
  <2> QED
    BY <1>1, <2>1
       DEF MakeStaging, Goto, DataInv, DataSafe, Survivor, StepFacts, BootedIntact, Intact,
           Complete, Exists, IsSubvol
<1>2. CASE SwapOut
  <2>1. Intact(home) /\ Intact(tmp) /\ tmp.kind = "dir"
    BY <1>2, StagedIsIntact DEF SwapOut, Goto, DataInv, StepFacts
  <2>2. Survivor' = home
    BY <1>2, <2>1 DEF SwapOut, Survivor, Intact, Complete, Exists, Absent
  <2> QED
    BY <1>2, <2>1, <2>2
       DEF SwapOut, Goto, DataInv, DataSafe, StepFacts, BootedIntact, Intact, Complete,
           Exists, IsSubvol, Absent
<1>3. CASE SwapIn
  <2>1. home'.kind = "dir" /\ Intact(home)'
    BY <1>3 DEF SwapIn, Goto, DataInv, StepFacts, Intact, Complete, Exists
  <2> QED
    BY <1>3, <2>1
       DEF SwapIn, Goto, DataInv, DataSafe, Survivor, StepFacts, BootedIntact, IsSubvol
<1>4. CASE Undo
  <2>1. Survivor = old
    BY <1>4 DEF Undo, Goto, DataInv, DataSafe, StepFacts, Survivor, Intact, Complete, Exists
  <2>2. Intact(home)'
    BY <1>4, <2>1 DEF Undo, DataInv, DataSafe, Intact, Complete, Exists
  <2> QED
    BY <1>4, <2>2
       DEF Undo, Goto, DataInv, DataSafe, StepFacts, BootedIntact, Survivor, Exists, Absent
<1>5. CASE DeleteOld \/ \E e \in Entries : DeleteOldNested(e)
  <2>1. home.kind = "dir" /\ UNCHANGED <<home, tmp, latest>>
    BY <1>5 DEF DeleteOld, DeleteOldNested, Deleting, DataInv, StepFacts
  <2>2. Survivor = home /\ Survivor' = home
    BY <2>1 DEF Survivor
  <2>3. Intact(home)'
    BY <2>1, <2>2 DEF DataInv, DataSafe, Intact, Complete, Exists
  <2>4. StepFacts' /\ BootedIntact'
    BY <1>5, <2>1, <2>3
       DEF DeleteOld, DeleteOldNested, Deleting, DataInv, StepFacts, BootedIntact, Exists,
           Absent
  <2> QED
    BY <2>1, <2>2, <2>3, <2>4 DEF DataInv, DataSafe, IsSubvol
<1> QED
  BY <1>1, <1>2, <1>3, <1>4, <1>5, DataCopy DEF Migrate

\* The one step that needs a sound world is the misread stat.
LEMMA DataFaulty == ASSUME TypeInv, DataInv, SoundWorld, Faulty PROVE DataInv'
<1>1. DiskUnchanged /\ UNCHANGED latest
  BY DEF Faulty, Crash, Abort, ShowFails, MisreadLeftover, SwapInFails, ReapFails
<1>2. ~MisreadLeftover
  BY DEF MisreadLeftover, DataInv, SoundWorld
<1>3. StepFacts'
  BY <1>1, <1>2
     DEF Faulty, Crash, Abort, ShowFails, SwapInFails, ReapFails, Goto, DiskUnchanged,
         DataInv, StepFacts, Exists
<1>4. BootedIntact'
  <2>1. CASE ShowFails \/ ReapFails
    <3>1. Survivor = home
      BY <2>1 DEF ShowFails, ReapFails, Goto, DataInv, StepFacts, Survivor
    <3> QED
      BY <1>1, <3>1
         DEF DiskUnchanged, DataInv, DataSafe, BootedIntact, Intact, Complete, Exists
  <2> QED
    BY <1>2, <2>1 DEF Faulty, Crash, Abort, SwapInFails, Goto, BootedIntact
<1> QED
  BY <1>1, <1>3, <1>4, DataControl

LEMMA DataSession == ASSUME TypeInv, DataInv, Session PROVE DataInv'
<1>1. latest' = latest + 1 /\ UNCHANGED <<old, tmp, step>> /\ step \in UserSpace /\ Intact(home)
  BY DEF Session
<1>2. /\ home'.kind = home.kind /\ home'.ents = home.ents /\ home'.gen = home.gen + 1
  <2>1. home.gen < MaxSessions
    BY <1>1 DEF Session, Intact
  <2> QED
    BY <2>1, NextGen DEF Session, TypeInv, TypeOK
<1>3. Intact(home)'
  BY <1>1, <1>2 DEF Intact, Complete, Exists
<1>4. Survivor' = home'
  BY <1>1, <1>2 DEF Survivor, DataInv, Intact, Complete, TypeInv, TypeOK, Trees, Kinds,
                    Exists, IsSubvol
<1>5. StepFacts' /\ BootedIntact'
  BY <1>1, <1>3 DEF UserSpace, StepFacts, BootedIntact
<1> QED
  BY <1>1, <1>2, <1>3, <1>4, <1>5
     DEF DataInv, DataSafe, IsSubvol, Exists, Intact, Complete

\* A detour can put an empty home beside home.v3old, never over a home.
LEMMA DataDetour == ASSUME TypeInv, DataInv, Detour PROVE DataInv'
<1>1. step' = "detour" /\ UNCHANGED <<old, tmp, latest>> /\ Detours # {}
  BY DEF Detour, Goto
<1>2. StepFacts' /\ BootedIntact'
  BY <1>1 DEF StepFacts, BootedIntact
<1>3. CASE Exists(home)
  BY <1>1, <1>2, <1>3
     DEF Detour, DataInv, DataSafe, Survivor, Intact, Complete, Exists, IsSubvol
<1>4. CASE ~Exists(home)
  <2>1. home' = EmptySubvol /\ Exists(old)
    BY <1>4 DEF Detour, DataInv, DataSafe, Survivor, Intact, Complete
  <2>2. Intact(old)'
    BY <1>1, <1>4, <2>1 DEF DataInv, DataSafe, Survivor, Intact, Complete, Exists
  <2>3. Survivor' = old'
    BY <1>1, <2>1 DEF Survivor, EmptySubvol, Exists
  <2>4. ~Complete(home)'
    BY <2>1, HomesAssumption DEF Complete, EmptySubvol, NoEntries, Kept, Entries
  <2> QED
    BY <1>1, <1>2, <2>2, <2>3, <2>4 DEF DataInv, DataSafe
<1> QED
  BY <1>3, <1>4

LEMMA DataStep == SoundWorld /\ TypeInv /\ DataInv /\ [Next]_vars => DataInv'
<1> SUFFICES ASSUME SoundWorld, TypeInv, DataInv, [Next]_vars PROVE DataInv'
  OBVIOUS
<1>1. CASE Reset
  <2>1. DiskUnchanged /\ UNCHANGED latest /\ StepFacts' /\ BootedIntact'
    BY <1>1 DEF Reset, StepFacts, BootedIntact
  <2> QED
    BY <2>1, DataControl
<1>2. CASE UNCHANGED vars
  <2>1. DiskUnchanged /\ UNCHANGED <<latest, step>>
    BY <1>2 DEF vars, DiskUnchanged
  <2>2. StepFacts' /\ BootedIntact'
    BY <2>1 DEF DiskUnchanged, DataInv, StepFacts, BootedIntact, Exists, Intact, Complete
  <2> QED
    BY <2>1, <2>2, DataControl
<1> QED
  BY <1>1, <1>2, DataBoot, DataRecover, DataMigrate, DataFaulty, DataSession, DataDetour
     DEF Next

LEMMA DataInvariant == ASSUME SoundWorld PROVE Spec => [](TypeInv /\ DataInv)
<1>1. Init => TypeInv /\ DataInv
  BY TypeInit, DataInit
<1>2. TypeInv /\ DataInv /\ [Next]_vars => (TypeInv /\ DataInv)'
  BY TypeStep, DataStep, SoundWorld
<1> QED
  BY <1>1, <1>2, PTL DEF Spec

\* The users' data survive every sequence of crashes, failures, restarts and
\* recoveries of run_v3, and boots of older images too, as long as is_subvolume
\* answers (main.rs:329) or no boot goes around the migrator.
THEOREM DataIsSafe == ASSUME SoundWorld PROVE Spec => []DataSafe
<1>1. DataInv => DataSafe
  BY DEF DataInv
<1> QED
  BY <1>1, DataInvariant, PTL

\* A boot that the migrator lets through finds all homes, up to date.
THEOREM BootIsIntact == ASSUME SoundWorld PROVE Spec => []BootedIntact
<1>1. DataInv => BootedIntact
  BY DEF DataInv
<1> QED
  BY <1>1, DataInvariant, PTL

\* What the comment at main.rs:330 says of the two trees is true where every
\* boot goes through the migrator.
THEOREM CoexistHolds == ASSUME Detours = {} PROVE Spec => []Coexist
<1>1. SoundWorld
  BY DEF SoundWorld
<1>2. TypeInv /\ DataInv => Coexist
  BY DEF TypeInv, TypeOK, Trees, Kinds, DataInv, Coexist, Exists, IsSubvol
<1> QED
  BY <1>1, <1>2, DataInvariant, PTL

-----------------------------------------------------------------------------
(* In any world, a stat may be misread where an image without the migrator   *)
(* has put an empty home beside home.v3old, and the data are lost.  What is  *)
(* known of the trees then no longer says that the data are safe, but still *)
(* that no other step loses them.                                           *)

TreeFacts ==
    /\ step = "dropOld" => Exists(home)
    /\ step = "reap" => home.kind = "dir"
    /\ step \in {"clearForRestore", "restore", "undo", "swapIn"} => ~Exists(home)
    /\ step \in {"checkTmp", "clearStale", "checkHome", "stage", "copy"} => ~Exists(old)
    /\ step = "copy" => tmp.kind = "dir" /\ tmp.gen = home.gen
    /\ step = "swapIn" => tmp.kind = "dir" /\ (Intact(old) => Intact(tmp))
    /\ Exists(old) /\ IsSubvol(home) => ~Complete(home)

LossByMisreadOnly == DataSafe /\ ~DataSafe' => step = "dropOld" /\ IsSubvol(home)

LEMMA TreeFactsInit == Init => TreeFacts
BY DEF Init, TreeFacts, Exists, Absent

\* Where the trees of the users' data are left alone, only the pc matters.
LEMMA TreesAlone ==
    ASSUME TreeFacts, UNCHANGED <<home, old, latest>>,
           step' = "dropOld" => Exists(home),
           step' = "reap" => home.kind = "dir",
           step' \in {"clearForRestore", "restore", "undo", "swapIn"} => ~Exists(home),
           step' \in {"checkTmp", "clearStale", "checkHome", "stage", "copy"} => ~Exists(old),
           step' = "copy" => tmp'.kind = "dir" /\ tmp'.gen = home.gen,
           step' = "swapIn" => UNCHANGED tmp /\ step = "swapIn"
    PROVE  TreeFacts' /\ LossByMisreadOnly
<1>1. Exists(old)' = Exists(old) /\ Exists(home)' = Exists(home) /\ IsSubvol(home)' = IsSubvol(home)
  BY DEF Exists, IsSubvol
<1>2. Complete(home)' = Complete(home) /\ Intact(home)' = Intact(home) /\ Intact(old)' = Intact(old)
  BY DEF Complete, Intact, Exists
<1>3. UNCHANGED tmp => Intact(tmp)' = Intact(tmp)
  BY DEF Intact, Complete, Exists
<1>4. DataSafe' = DataSafe
  BY <1>1, <1>2 DEF DataSafe, Survivor
<1>5. TreeFacts'
  BY <1>1, <1>2, <1>3 DEF TreeFacts
<1>6. QED  BY <1>4, <1>5 DEF LossByMisreadOnly

LEMMA LossBoot == ASSUME TreeFacts, Boot \/ Reset PROVE TreeFacts' /\ LossByMisreadOnly
BY TreesAlone DEF Boot, PowerOn, StartMigrator, NothingToMigrate, Goto, DiskUnchanged, Reset

LEMMA LossRecover == ASSUME TypeInv, TreeFacts, Recover PROVE TreeFacts' /\ LossByMisreadOnly
<1>1. CASE NoLeftover \/ InterruptedSwap \/ Refuse \/ LeftoverOld \/ CheckTmp \/ CheckHome
  <2>1. DiskUnchanged /\ UNCHANGED latest
    BY <1>1 DEF NoLeftover, InterruptedSwap, Refuse, LeftoverOld, CheckTmp, CheckHome
  <2>2. /\ step' \in {"dropOld", "clearForRestore", "restore", "checkTmp", "clearStale", "checkHome", "stage", "booted", "failed"}
        /\ step' = "dropOld" => Exists(home)
        /\ step' \in {"clearForRestore", "restore"} => ~Exists(home)
        /\ step' \in {"checkTmp", "clearStale", "checkHome", "stage"} => ~Exists(old)
    BY <1>1 DEF NoLeftover, InterruptedSwap, Refuse, LeftoverOld, CheckTmp, CheckHome, Goto, TreeFacts
  <2>3. QED  BY <2>1, <2>2, TreesAlone DEF DiskUnchanged
<1>2. CASE ClearDone \/ \E e \in Entries : ClearEntry(e)
  <2>1. UNCHANGED <<home, old, latest>>
    BY <1>2 DEF ClearDone, ClearEntry
  <2>2. /\ step' \in {"clearForRestore", "restore", "clearStale", "checkHome"}
        /\ step' \in {"clearForRestore", "restore"} => ~Exists(home)
        /\ step' \in {"clearStale", "checkHome"} => ~Exists(old)
    BY <1>2 DEF ClearDone, ClearEntry, Clearing, TreeFacts
  <2>3. QED  BY <2>1, <2>2, TreesAlone
<1>3. CASE Restore
  <2>1. home' = old /\ old' = Absent /\ UNCHANGED latest /\ step' = "checkTmp" /\ ~Exists(home)
    BY <1>3 DEF Restore, Goto, TreeFacts
  <2>2. ASSUME DataSafe PROVE DataSafe'
    <3>1. Intact(old)
      BY <2>1, <2>2 DEF DataSafe, Survivor, Intact, Complete
    <3>2. Intact(home)' /\ Survivor' = home'
      BY <2>1, <3>1 DEF Intact, Complete, Exists, Survivor, Absent
    <3>3. QED  BY <3>2 DEF DataSafe, Intact, Complete, Exists
  <2>3. TreeFacts'
    BY <2>1 DEF TreeFacts, Exists, Absent
  <2>4. QED  BY <2>2, <2>3 DEF LossByMisreadOnly
<1>4. QED  BY <1>1, <1>2, <1>3 DEF Recover

LEMMA LossMigrate == ASSUME TypeInv, TreeFacts, Migrate PROVE TreeFacts' /\ LossByMisreadOnly
<1>1. CASE MakeStaging
  <2>1. tmp'.kind = "dir" /\ tmp'.gen = home.gen
    BY <1>1 DEF MakeStaging, Absent
  <2>2. step' = "copy" /\ UNCHANGED <<home, old, latest>> /\ ~Exists(old)
    BY <1>1 DEF MakeStaging, Goto, TreeFacts
  <2>3. QED  BY <2>1, <2>2, TreesAlone
<1>2. ASSUME NEW e \in Entries, BeginEntry(e) \/ FillEntry(e) \/ CutNested(e) \/ SnapshotNested(e)
      PROVE  TreeFacts' /\ LossByMisreadOnly
  <2>1. step = "copy" /\ UNCHANGED <<home, old, step, latest>>
    BY <1>2 DEF BeginEntry, FillEntry, CutNested, SnapshotNested
  <2>2. PICK s \in Shapes : tmp' = Set(tmp, e, s)
    BY <1>2 DEF BeginEntry, FillEntry, CutNested, SnapshotNested, Shapes
  <2>3. tmp'.kind = tmp.kind /\ tmp'.gen = tmp.gen
    BY <2>2, SetEntry DEF TypeInv, TypeOK
  <2>4. ~Exists(old) /\ tmp.kind = "dir" /\ tmp.gen = home.gen
    BY <2>1 DEF TreeFacts
  <2>5. QED  BY <2>1, <2>3, <2>4, TreesAlone
<1>3. CASE SwapOut
  <2>1. old' = home /\ home' = Absent /\ UNCHANGED <<tmp, latest>> /\ step = "copy" /\ step' = "swapIn" /\ Staged
    BY <1>3 DEF SwapOut, Goto
  <2>2. ~Exists(old) /\ tmp.kind = "dir" /\ tmp.gen = home.gen
    BY <2>1 DEF TreeFacts
  <2>3. ASSUME Intact(home) PROVE Intact(tmp)
    <3>1. Listed = Kept
      BY <2>3 DEF Listed, Intact, Complete
    <3>2. QED  BY <2>1, <2>2, <2>3, <3>1 DEF Staged, Intact, Complete, Exists
  <2>4. Intact(old)' = Intact(home) /\ Intact(tmp)' = Intact(tmp) /\ ~Exists(home') /\ ~IsSubvol(home')
    BY <2>1 DEF Intact, Complete, Exists, Absent, IsSubvol
  <2>5. TreeFacts'
    BY <2>1, <2>2, <2>3, <2>4 DEF TreeFacts
  <2>6. ASSUME DataSafe PROVE DataSafe'
    <3>1. Intact(home)
      BY <2>2, <2>6 DEF DataSafe, Survivor
    <3>2. Survivor' = home
      BY <2>1, <3>1 DEF Survivor, Intact, Complete, Exists, Absent
    <3>3. QED  BY <2>1, <3>1, <3>2 DEF DataSafe, Intact, Complete, Exists
  <2>7. QED  BY <2>5, <2>6 DEF LossByMisreadOnly
<1>4. CASE SwapIn
  <2>1. home' = tmp /\ tmp' = Absent /\ UNCHANGED <<old, latest>> /\ step = "swapIn" /\ step' = "reap"
    BY <1>4 DEF SwapIn, Goto
  <2>2. ~Exists(home) /\ tmp.kind = "dir" /\ (Intact(old) => Intact(tmp))
    BY <2>1 DEF TreeFacts
  <2>3. TreeFacts'
    BY <2>1, <2>2 DEF TreeFacts, Exists, IsSubvol
  <2>4. ASSUME DataSafe PROVE DataSafe'
    <3>1. Intact(tmp)
      BY <2>2, <2>4 DEF DataSafe, Survivor, Intact, Complete
    <3>2. Survivor' = tmp
      BY <2>1, <2>2 DEF Survivor
    <3>3. QED  BY <2>1, <3>1, <3>2 DEF DataSafe, Intact, Complete, Exists
  <2>5. QED  BY <2>3, <2>4 DEF LossByMisreadOnly
<1>5. CASE Undo
  <2>1. home' = old /\ old' = Absent /\ UNCHANGED latest /\ step' = "failed" /\ ~Exists(home)
    BY <1>5 DEF Undo, Goto, TreeFacts
  <2>2. ASSUME DataSafe PROVE DataSafe'
    <3>1. Intact(old)
      BY <2>1, <2>2 DEF DataSafe, Survivor, Intact, Complete
    <3>2. Intact(home)' /\ Survivor' = home'
      BY <2>1, <3>1 DEF Intact, Complete, Exists, Survivor, Absent
    <3>3. QED  BY <3>2 DEF DataSafe, Intact, Complete, Exists
  <2>3. TreeFacts'
    BY <2>1 DEF TreeFacts, Exists, Absent
  <2>4. QED  BY <2>2, <2>3 DEF LossByMisreadOnly
<1>6. CASE DeleteOld \/ \E e \in Entries : DeleteOldNested(e)
  <2>1. UNCHANGED <<home, tmp, latest>> /\ step \in {"reap", "dropOld"}
    BY <1>6 DEF DeleteOld, DeleteOldNested, Deleting
  <2>2. Exists(home) /\ home.kind \in Kinds /\ old.kind \in Kinds
    BY <2>1 DEF TreeFacts, Exists, TypeInv, TypeOK, Trees
  <2>3. Exists(old)' => Exists(old)
    <3>1. CASE DeleteOld
      BY <3>1 DEF DeleteOld, Exists, Absent
    <3>2. ASSUME NEW e \in Entries, DeleteOldNested(e) PROVE Exists(old)' => Exists(old)
      <4>1. "cut" \in Shapes
        BY DEF Shapes
      <4>2. QED  BY <3>2, <4>1, SetEntry DEF DeleteOldNested, TypeInv, TypeOK, Exists
    <3>3. QED  BY <1>6, <3>1, <3>2
  <2>4. /\ step' = "reap" => step = "reap"
        /\ step' \in {"reap", "dropOld", "booted", "checkTmp"}
        /\ step' = "checkTmp" => ~Exists(old')
    BY <1>6, <2>1 DEF DeleteOld, DeleteOldNested, Exists, Absent
  <2>5. Complete(home)' = Complete(home) /\ Intact(home)' = Intact(home)
    BY <2>1 DEF Complete, Intact, Exists
  <2>6. TreeFacts'
    BY <2>1, <2>2, <2>3, <2>4, <2>5 DEF TreeFacts, Exists, IsSubvol
  <2>7. CASE IsSubvol(home)
    <3>1. step = "dropOld"
      BY <2>1, <2>7 DEF TreeFacts, IsSubvol
    <3>2. QED  BY <2>6, <2>7, <3>1 DEF LossByMisreadOnly
  <2>8. CASE ~IsSubvol(home)
    <3>1. home.kind = "dir"
      BY <2>2, <2>8 DEF Exists, IsSubvol, Kinds
    <3>2. Survivor = home /\ Survivor' = home'
      BY <2>1, <3>1 DEF Survivor
    <3>3. DataSafe => DataSafe'
      BY <2>1, <3>2 DEF DataSafe, Intact, Complete, Exists
    <3>4. QED  BY <2>6, <3>3 DEF LossByMisreadOnly
  <2>9. QED  BY <2>7, <2>8
<1>7. QED  BY <1>1, <1>2, <1>3, <1>4, <1>5, <1>6 DEF Migrate

LEMMA LossFaulty == ASSUME TreeFacts, Faulty PROVE TreeFacts' /\ LossByMisreadOnly
<1>1. DiskUnchanged /\ UNCHANGED latest
  BY DEF Faulty, Crash, Abort, ShowFails, MisreadLeftover, SwapInFails, ReapFails
<1>2. /\ step' \in {"off", "failed", "booted", "dropOld", "undo"}
      /\ step' = "dropOld" => Exists(home)
      /\ step' = "undo" => ~Exists(home)
  BY DEF Faulty, Crash, Abort, ShowFails, MisreadLeftover, SwapInFails, ReapFails, Goto, TreeFacts, Exists, IsSubvol
<1>3. QED  BY <1>1, <1>2, TreesAlone DEF DiskUnchanged

LEMMA LossSession == ASSUME TypeInv, TreeFacts, Session PROVE TreeFacts' /\ LossByMisreadOnly
<1>1. latest' = latest + 1 /\ UNCHANGED <<old, tmp, step>> /\ step \in UserSpace /\ Intact(home)
  BY DEF Session
<1>2. home'.kind = home.kind /\ home'.ents = home.ents /\ home'.gen = home.gen + 1
  <2>1. home.gen < MaxSessions
    BY <1>1 DEF Session, Intact
  <2>2. QED  BY <2>1, NextGen DEF Session, TypeInv, TypeOK
<1>3. Intact(home)' /\ Complete(home)
  BY <1>1, <1>2 DEF Intact, Complete, Exists
<1>4. ~(Exists(old) /\ IsSubvol(home)) /\ Exists(home) /\ home.kind \in Kinds
  BY <1>3 DEF TreeFacts, Complete, TypeInv, TypeOK, Trees
<1>5. Survivor' = home'
  BY <1>1, <1>2, <1>4 DEF Survivor, Exists, IsSubvol, Kinds
<1>6. DataSafe'
  BY <1>3, <1>5 DEF DataSafe, Intact, Complete, Exists
<1>7. TreeFacts'
  BY <1>1, <1>2, <1>4 DEF TreeFacts, UserSpace, Exists, IsSubvol
<1>8. QED  BY <1>6, <1>7 DEF LossByMisreadOnly

\* The home that tmpfiles makes is empty: it is never taken for the users' data.
LEMMA LossDetour == ASSUME TreeFacts, Detour PROVE TreeFacts' /\ LossByMisreadOnly
<1>1. step' = "detour" /\ UNCHANGED <<old, tmp, latest>>
  BY DEF Detour, Goto
<1>2. CASE Exists(home)
  <2>1. UNCHANGED home
    BY <1>2 DEF Detour
  <2>2. QED  BY <1>1, <2>1, TreesAlone
<1>3. CASE ~Exists(home)
  <2>1. home' = EmptySubvol
    BY <1>3 DEF Detour
  <2>2. ~Complete(home)'
    BY <2>1, HomesAssumption DEF Complete, EmptySubvol, NoEntries, Kept, Entries
  <2>3. TreeFacts'
    BY <1>1, <2>2 DEF TreeFacts
  <2>4. ASSUME DataSafe PROVE DataSafe'
    <3>1. Intact(old) /\ Exists(old)
      BY <1>3, <2>4 DEF DataSafe, Survivor, Intact, Complete
    <3>2. Survivor' = old'
      BY <1>1, <2>1, <3>1 DEF Survivor, EmptySubvol, Exists
    <3>3. QED  BY <1>1, <3>1, <3>2 DEF DataSafe, Intact, Complete, Exists
  <2>5. QED  BY <2>3, <2>4 DEF LossByMisreadOnly
<1>4. QED  BY <1>2, <1>3

LEMMA LossStep == TypeInv /\ TreeFacts /\ [Next]_vars => TreeFacts' /\ LossByMisreadOnly
<1> SUFFICES ASSUME TypeInv, TreeFacts, [Next]_vars PROVE TreeFacts' /\ LossByMisreadOnly
  OBVIOUS
<1>1. CASE UNCHANGED vars
  <2>1. UNCHANGED <<home, old, tmp, step, latest>>
    BY <1>1 DEF vars
  <2>2. QED  BY <2>1, TreesAlone DEF TreeFacts
<1>2. QED
  BY <1>1, LossBoot, LossRecover, LossMigrate, LossFaulty, LossSession, LossDetour DEF Next

\* Whatever fails and whichever images boot, one step alone destroys the last copy
\* of the users' data: the deletion of home.v3old beside a home that is a subvolume,
\* after is_subvolume() could not answer (main.rs:329-341).
THEOREM LossOnly == Spec => LossOnlyByMisread
<1>1. Init => TypeInv /\ TreeFacts
  BY TypeInit, TreeFactsInit
<1>2. TypeInv /\ TreeFacts /\ [Next]_vars => (TypeInv /\ TreeFacts)' /\ [LossByMisreadOnly]_vars
  BY TypeStep, LossStep
<1>3. QED  BY <1>1, <1>2, PTL DEF Spec, LossOnlyByMisread, LossByMisreadOnly

-----------------------------------------------------------------------------
(* run_v3 implements DurableHome.  With DataInv the stored data are just    *)
(* `latest`; what is left is that the layout changes once and that no step  *)
(* changes both.                                                            *)

\* The home directory, once it is one, is there to stay.
LEMMA LayoutStep ==
    ASSUME TypeInv, DataInv, [Next]_vars, home.kind = "dir"
    PROVE  home'.kind = "dir"
<1>1. CASE Recover
  BY <1>1 DEF Recover, NoLeftover, InterruptedSwap, Refuse, LeftoverOld, CheckTmp, CheckHome,
              ClearEntry, ClearDone, Restore, Goto, DiskUnchanged, DataInv, StepFacts, Exists
<1>2. CASE Migrate
  BY <1>2 DEF Migrate, MakeStaging, BeginEntry, FillEntry, CutNested, SnapshotNested, SwapOut,
              SwapIn, Undo, DeleteOldNested, DeleteOld, Goto, TypeInv, DataInv, StepFacts,
              Exists, IsSubvol
<1>3. CASE Session
  <2>1. home.gen < MaxSessions
    BY <1>3 DEF Session, Intact
  <2> QED
    BY <1>3, <2>1, NextGen DEF Session, TypeInv, TypeOK
<1>4. CASE Detour
  BY <1>4 DEF Detour, Exists
<1> QED
  BY <1>1, <1>2, <1>3, <1>4
     DEF Next, Boot, PowerOn, StartMigrator, NothingToMigrate, Faulty, Crash, Abort, ShowFails,
         MisreadLeftover, SwapInFails, ReapFails, Reset, DiskUnchanged, vars

\* Only a session counts, and it does not touch the layout.
LEMMA LatestStep ==
    ASSUME TypeInv, [Next]_vars
    PROVE  \/ UNCHANGED latest
           \/ latest' = latest + 1 /\ home'.kind = home.kind
<1>1. CASE Session
  <2>1. home.gen < MaxSessions
    BY <1>1 DEF Session, Intact
  <2> QED
    BY <1>1, <2>1, NextGen DEF Session, TypeInv, TypeOK
<1>2. CASE Recover \/ Migrate
  BY <1>2 DEF Recover, NoLeftover, InterruptedSwap, Refuse, LeftoverOld, CheckTmp, CheckHome,
              ClearEntry, ClearDone, Restore, Migrate, MakeStaging, BeginEntry, FillEntry,
              CutNested, SnapshotNested, SwapOut, SwapIn, Undo, DeleteOldNested, DeleteOld
<1> QED
  BY <1>1, <1>2
     DEF Next, Boot, PowerOn, StartMigrator, NothingToMigrate, Faulty, Crash, Abort, ShowFails,
         MisreadLeftover, SwapInFails, ReapFails, Reset, Detour, vars

\* The refinement mapping of ImplementsDurableHome, by name.
Stored == IF Complete(Survivor) THEN Survivor.gen ELSE -1
Layout == IF home.kind = "dir" THEN "v3" ELSE "v2"

LEMMA StoredIsLatest == ASSUME DataInv PROVE Stored = latest
BY DEF Stored, DataInv, DataSafe, Intact

\* Every session's changes stay, and the layout goes from v2 to v3 once and never
\* back, whatever fails when: run_v3 implements what DurableHome promises.
THEOREM Refinement == ASSUME SoundWorld PROVE Spec => ImplementsDurableHome
<1>1. Init => Durable!Init
  <2> SUFFICES ASSUME Init PROVE Stored = 0 /\ Layout = "v2"
    BY DEF Durable!Init, Stored, Layout
  <2>1. Stored = 0
    BY DataInit, StoredIsLatest DEF Init
  <2> QED
    BY <2>1 DEF Init, Layout
<1>2. ASSUME TypeInv, DataInv, TypeInv', DataInv', [Next]_vars
      PROVE  [Durable!Next]_<<Stored, Layout>>
  <2>1. Stored = latest /\ Stored' = latest'
    BY <1>2, StoredIsLatest DEF Stored, DataInv, DataSafe, Intact
  <2>2. home.kind = "dir" => home'.kind = "dir"
    BY <1>2, LayoutStep
  <2>3. \/ UNCHANGED latest
        \/ latest' = latest + 1 /\ home'.kind = home.kind
    BY <1>2, LatestStep
  <2> QED
    BY <2>1, <2>2, <2>3
       DEF Durable!Next, Durable!Write, Durable!Migrate, Stored, Layout
<1> QED
  BY <1>1, <1>2, DataInvariant, PTL
     DEF Spec, ImplementsDurableHome, Durable!Spec, Stored, Layout

-----------------------------------------------------------------------------
(* The root migration.                                                      *)

\* What the steps of run() know of @system.import.
ImportInv ==
    /\ step \in RootMigrating => ~system
    /\ step = "deleteImport" => tree # NoTree
    /\ step = "fstab" => tree = EmptyTree
    /\ step = "import" =>
         /\ tree # NoTree
         /\ \A p \in Parts : tree[p].shape # "missing" => tree[p].gen = latest
         /\ (\E p \in {"etc", "var"} : tree[p].shape # "missing") => from = NewestRoot

\* The v3 machine is at rest while there is no @system.
Waiting == RootMigrating \cup {"off", "transition", "failed"}
AtRest == home = Absent /\ old = Absent /\ tmp = Absent /\ step \in Waiting

\* The inductive invariant: TypeInv takes over when @system appears, and so does
\* DataInv, which is kept apart because only it needs a sound world.
RootInv ==
    /\ RootTypeOK
    /\ ImportInv
    /\ ~system => AtRest
    /\ system => TypeInv /\ SystemIsWhole

RootData == system => DataInv

-----------------------------------------------------------------------------
(* The data of the migration.                                               *)

LEMMA PartsAre == Parts = {"etc", "var", "home", "root", "containers", "docker"}
BY DEF Parts, Order, Composed, Subvols

\* find_rootfs_v1 returns the newest version there is.
LEMMA NewestIs == NewestRoot \in Roots /\ \A w \in Roots : w <= NewestRoot
BY RootsAssumption DEF NewestRoot

TreeShapes == {"missing", "fresh", "plain", "cut", "whole"}
PartTypes == [shape : TreeShapes, gen : 0..MaxSessions]

\* A part of this kind may be in that place.
Fits(p, part) ==
    /\ part \in PartTypes
    /\ part.shape = "fresh" => p \in {"etc", "var"}
    /\ part.shape = "plain" => p \in Predating

TreeOK(t) == t \in [Parts -> PartTypes] /\ \A p \in Parts : Fits(p, t[p])

LEMMA NoPartFits == \A p \in Parts : Fits(p, NoPart)
BY BoundsAssumption DEF Fits, NoPart, PartTypes, TreeShapes

LEMMA EmptyTreeOK == TreeOK(EmptyTree)
BY NoPartFits DEF TreeOK, EmptyTree, Fits

LEMMA TypedIsTree == ASSUME NEW t, TreeOK(t) PROVE t # NoTree
<1>1. "etc" \in DOMAIN t
  BY PartsAre DEF TreeOK
<1>2. "etc" \notin DOMAIN NoTree
  BY DEF NoTree
<1> QED
  BY <1>1, <1>2

LEMMA ReplacePart ==
    ASSUME NEW t, TreeOK(t), NEW p \in Parts, NEW part, Fits(p, part)
    PROVE  TreeOK([t EXCEPT ![p] = part])
BY DEF TreeOK, Fits

-----------------------------------------------------------------------------
(* RootInv holds, step by step.                                             *)

LEMMA RootInitInv == RootInit => RootInv
<1> SUFFICES ASSUME RootInit PROVE RootInv
  OBVIOUS
<1>1. home \in Trees /\ old \in Trees /\ tmp \in Trees
  BY NewTrees DEF RootInit
<1>2. latest \in 0..MaxSessions /\ faults \in 0..MaxFaults
  BY BoundsAssumption DEF RootInit
<1>3. step \in Steps \cup RootMigrating
  BY DEF RootInit, Steps
<1>4. RootTypeOK
  BY <1>1, <1>2, <1>3 DEF RootInit, RootTypeOK
<1> QED
  BY <1>4 DEF RootInit, RootInv, ImportInv, AtRest, Waiting, RootMigrating

\* The steps that leave the disk alone, while there is no @system.
LEMMA RootControl ==
    ASSUME RootInv, ~system, DiskUnchanged, UNCHANGED rootVars,
           latest' \in 0..MaxSessions, faults' \in 0..MaxFaults,
           step' \in Waiting, ImportInv'
    PROVE  RootInv'
<1>1. Waiting \subseteq Steps \cup RootMigrating
  BY DEF Waiting, Steps, Running
<1>2. RootTypeOK'
  BY <1>1 DEF RootInv, RootTypeOK, DiskUnchanged, rootVars
<1> QED
  BY <1>2 DEF RootInv, AtRest, DiskUnchanged, rootVars

\* The steps that change @system.import.
LEMMA RootTree ==
    ASSUME RootInv, ~system, DiskUnchanged, UNCHANGED <<latest, faults, system>>,
           step' \in Waiting, ImportInv',
           tree' = NoTree \/ TreeOK(tree'), from' \in Roots \cup {from}
    PROVE  RootInv'
<1>1. Waiting \subseteq Steps \cup RootMigrating
  BY DEF Waiting, Steps, Running
<1>2. RootTypeOK'
  BY <1>1 DEF RootInv, RootTypeOK, DiskUnchanged, TreeOK, Fits, PartTypes, TreeShapes
<1> QED
  BY <1>2 DEF RootInv, AtRest, DiskUnchanged

LEMMA RootSimple ==
    ASSUME RootInv, OlderSession \/ StartRootMigrator \/ RootFaulty \/ Fstab
    PROVE  RootInv'
<1>1. ~system /\ DiskUnchanged /\ UNCHANGED rootVars
  BY DEF RootInv, ImportInv, OlderSession, StartRootMigrator, RootFaulty, Fstab, NoImage, RootCrash,
         RootAbort, DeleteImportFails, Decline, Goto, RootMigrating
<1>2. latest' \in 0..MaxSessions /\ faults' \in 0..MaxFaults
  BY BoundsAssumption
     DEF RootInv, RootTypeOK, OlderSession, StartRootMigrator, RootFaulty, Fstab, NoImage,
         RootCrash, RootAbort, DeleteImportFails, Decline, Fault
<1>3. step' \in Waiting
  BY <1>1 DEF OlderSession, StartRootMigrator, RootFaulty, Fstab, NoImage, RootCrash,
         RootAbort, DeleteImportFails, Decline, Goto, Waiting, RootMigrating
<1>4. ImportInv'
  <2>1. CASE OlderSession
    BY <2>1 DEF OlderSession, ImportInv, RootMigrating
  <2>2. CASE StartRootMigrator
    BY <1>1, <2>2 DEF StartRootMigrator, Goto, Import, rootVars, ImportInv, RootMigrating
  <2>3. CASE Fstab
    <3>1. tree' = EmptyTree /\ step' = "import" /\ ~system'
      BY <1>1, <2>3 DEF Fstab, Goto, RootInv, ImportInv, rootVars
    <3>2. \A p \in Parts : EmptyTree[p].shape = "missing"
      BY DEF EmptyTree, NoPart
    <3>3. tree' # NoTree
      BY <3>1, PartsAre DEF EmptyTree, NoTree
    <3> QED
      BY <3>1, <3>2, <3>3, PartsAre DEF ImportInv
  <2>4. CASE RootFaulty
    BY <1>1, <2>4
       DEF RootFaulty, NoImage, RootCrash, RootAbort, DeleteImportFails, Decline, Goto, ImportInv,
           RootMigrating, rootVars
  <2> QED
    BY <2>1, <2>2, <2>3, <2>4
<1> QED
  BY <1>1, <1>2, <1>3, <1>4, RootControl

\* In a run of run(), the tree is typed as soon as there is one.
LEMMA TreeIsOK == ASSUME RootInv, tree # NoTree PROVE TreeOK(tree)
BY DEF RootInv, RootTypeOK, TreeOK, Fits, PartTypes, TreeShapes

LEMMA RootDelete ==
    ASSUME RootInv, DeleteImport \/ CreateImport \/ \E p \in Parts : DeleteImportPart(p)
    PROVE  RootInv'
<1>1. /\ ~system /\ DiskUnchanged /\ UNCHANGED <<latest, faults, system, from>>
  BY DEF RootInv, ImportInv, RootMigrating, DeleteImport, CreateImport, DeleteImportPart, Goto
<1>2. CASE DeleteImport
  BY <1>1, <1>2, RootTree DEF DeleteImport, Goto, ImportInv, RootMigrating, Waiting
<1>3. CASE CreateImport
  <2>1. CASE Import
    <3>1. TreeOK(tree)
      BY <2>1, TreeIsOK DEF Import
    <3> QED
      BY <1>1, <1>3, <2>1, <3>1, RootTree
         DEF CreateImport, Goto, ImportInv, RootMigrating, Waiting
  <2>2. CASE ~Import
    BY <1>1, <1>3, <2>2, EmptyTreeOK, RootTree
       DEF CreateImport, Goto, ImportInv, RootMigrating, Waiting
  <2> QED
    BY <2>1, <2>2
<1>4. ASSUME NEW p \in Parts, DeleteImportPart(p) PROVE RootInv'
  <2>1. TreeOK(tree) /\ step' = "deleteImport" /\ tree' = [tree EXCEPT ![p] = NoPart]
    BY <1>4, TreeIsOK DEF DeleteImportPart, RootInv, ImportInv
  <2>2. TreeOK(tree')
    BY <2>1, NoPartFits, ReplacePart
  <2>3. ImportInv' /\ step' \in Waiting
    BY <1>1, <2>1, <2>2, TypedIsTree DEF ImportInv, Waiting, RootMigrating
  <2> QED
    BY <1>1, <2>2, <2>3, RootTree
<1> QED
  BY <1>2, <1>3, <1>4

\* The steps that put something into the tree: it is of the latest session.
LEMMA RootPut ==
    ASSUME RootInv, NEW p \in Parts, NEW part, Fits(p, part),
           part.shape # "missing" => part.gen = latest,
           step = "import", step' \in {"import", "failed"},
           tree' = [tree EXCEPT ![p] = part], DiskUnchanged,
           UNCHANGED <<latest, faults, system>>,
           from' \in {from, NewestRoot},
           p \in {"etc", "var"} /\ tree[p].shape = "missing" => from' = NewestRoot
    PROVE  RootInv'
<1>1. ~system /\ TreeOK(tree)
  BY TreeIsOK DEF RootInv, ImportInv, RootMigrating
<1>2. TreeOK(tree')
  BY <1>1, ReplacePart
<1>3. \A q \in Parts : tree'[q] = IF q = p THEN part ELSE tree[q]
  BY <1>1 DEF TreeOK
<1>4. \A q \in Parts : tree'[q].shape # "missing" => tree'[q].gen = latest
  BY <1>3 DEF RootInv, ImportInv
<1>5. (\E q \in {"etc", "var"} : tree'[q].shape # "missing") => from' = NewestRoot
  BY <1>3, PartsAre DEF RootInv, ImportInv
<1>6. from' \in Roots \cup {from}
  BY NewestIs
<1>7. ImportInv' /\ step' \in Waiting
  BY <1>1, <1>2, <1>4, <1>5, TypedIsTree DEF ImportInv, Waiting, RootMigrating
<1> QED
  BY <1>1, <1>2, <1>6, <1>7, RootTree

LEMMA RootCopied == ASSUME RootInv, NEW p \in Parts, Copied(p) PROVE RootInv'
<1>1. ~system /\ TreeOK(tree) /\ p \in {"etc", "var"} /\ latest \in 0..MaxSessions
  BY TreeIsOK DEF RootInv, ImportInv, RootMigrating, RootTypeOK, Copied, TreeOK, Fits
<1>2. /\ step = "import" /\ step' = "import" /\ tree[p].shape = "fresh"
      /\ DiskUnchanged /\ UNCHANGED <<latest, faults, system, from>>
  BY DEF Copied
<1>3. tree' = [q \in Parts |->
                 IF q = p THEN [tree[q] EXCEPT !.shape = "whole"]
                 ELSE IF p = "var" /\ q \in Predating THEN [shape |-> "plain", gen |-> latest]
                 ELSE tree[q]]
  BY DEF Copied
<1>4. ASSUME NEW q \in Parts
      PROVE  /\ Fits(q, tree'[q])
             /\ tree'[q].shape # "missing" => tree'[q].gen = latest
  <2>1. tree[q] \in PartTypes /\ Fits(q, tree[q])
    BY <1>1 DEF TreeOK
  <2>2. tree[q].shape # "missing" => tree[q].gen = latest
    BY <1>2 DEF RootInv, ImportInv
  <2>3. CASE q = p
    <3>1. tree'[q] = [shape |-> "whole", gen |-> tree[q].gen]
      BY <1>3, <2>1, <2>3 DEF PartTypes
    <3> QED
      BY <1>2, <2>1, <2>2, <2>3, <3>1 DEF Fits, PartTypes, TreeShapes
  <2>4. CASE q # p /\ p = "var" /\ q \in Predating
    <3>1. tree'[q] = [shape |-> "plain", gen |-> latest]
      BY <1>3, <2>4
    <3> QED
      BY <1>1, <2>4, <3>1 DEF Fits, PartTypes, TreeShapes
  <2>5. CASE q # p /\ ~(p = "var" /\ q \in Predating)
    BY <1>3, <2>1, <2>2, <2>5
  <2> QED
    BY <2>3, <2>4, <2>5
<1>5. TreeOK(tree')
  BY <1>3, <1>4 DEF TreeOK, Fits
<1>6. from = NewestRoot
  BY <1>1, <1>2 DEF RootInv, ImportInv
<1>7. ImportInv' /\ step' \in Waiting
  BY <1>1, <1>2, <1>4, <1>5, <1>6, TypedIsTree DEF ImportInv, Waiting, RootMigrating
<1> QED
  BY <1>1, <1>2, <1>5, <1>7, RootTree

LEMMA RootImport ==
    ASSUME RootInv, NEW p \in Parts,
           Compose(p) \/ RemovePlain(p) \/ Snapshot(p) \/ SnapshotRest(p)
    PROVE  RootInv'
<1>1. /\ step = "import" /\ DiskUnchanged /\ UNCHANGED <<latest, faults, system>>
  BY DEF Compose, RemovePlain, Snapshot, SnapshotRest
<1>2. latest \in 0..MaxSessions /\ TreeOK(tree)
  BY <1>1, TreeIsOK DEF RootInv, RootTypeOK, ImportInv
<1>3. CASE Compose(p)
  <2>1. /\ tree' = [tree EXCEPT ![p] = [shape |-> "fresh", gen |-> latest]]
        /\ step' = "import" /\ from' = NewestRoot /\ p \in {"etc", "var"}
    BY <1>3, NewestIs DEF Compose, Put
  <2> DEFINE part == [shape |-> "fresh", gen |-> latest]
  <2>2. Fits(p, part) /\ part.gen = latest
    BY <1>2, <2>1 DEF Fits, PartTypes, TreeShapes
  <2>3. tree' = [tree EXCEPT ![p] = part] /\ step' \in {"import", "failed"}
    BY <2>1
  <2> HIDE DEF part
  <2> QED
    BY <1>1, <2>1, <2>2, <2>3, RootPut
<1>4. CASE RemovePlain(p)
  <2>1. /\ tree' = [tree EXCEPT ![p] = NoPart] /\ step' = "import" /\ from' = from
        /\ tree[p].shape # "missing"
    BY <1>1, <1>4 DEF RemovePlain
  <2>2. Fits(p, NoPart) /\ NoPart.shape = "missing"
    BY NoPartFits DEF NoPart
  <2> QED
    BY <1>1, <2>1, <2>2, RootPut
<1>5. CASE Snapshot(p) \/ SnapshotRest(p)
  <2>1. PICK s \in {"cut", "whole"} :
          /\ tree' = [tree EXCEPT ![p] = [shape |-> s, gen |-> latest]]
          /\ step' = "import" /\ from' = from
          /\ p \in {"etc", "var"} => tree[p].shape # "missing"
    BY <1>1, <1>5 DEF Snapshot, SnapshotRest, Put
  <2>2. Fits(p, [shape |-> s, gen |-> latest])
    BY <1>2 DEF Fits, PartTypes, TreeShapes
  <2> QED
    BY <1>1, <2>1, <2>2, RootPut
<1> QED
  BY <1>3, <1>4, <1>5

\* The tree that is renamed is whole: that is where SystemIsWhole comes from, and
\* where the data become those of HomeMigration's home.
LEMMA RootWhole ==
    ASSUME RootInv, Rename
    PROVE  /\ TreeOK(tree) /\ ~system /\ AtRest
           /\ \A p \in Parts : tree[p] = [shape |-> "whole", gen |-> latest]
           /\ from = NewestRoot
<1>1. step = "import" /\ \A p \in Parts : tree[p].shape = "whole"
  BY DEF Rename, Goto, PartDone
<1>2. TreeOK(tree) /\ ~system /\ AtRest
  BY <1>1, TreeIsOK DEF RootInv, ImportInv, RootMigrating
<1>3. ASSUME NEW p \in Parts PROVE tree[p] = [shape |-> "whole", gen |-> latest]
  <2>1. tree[p] \in PartTypes /\ tree[p].shape = "whole" /\ tree[p].gen = latest
    BY <1>1, <1>2 DEF RootInv, ImportInv, TreeOK
  <2> QED
    BY <2>1 DEF PartTypes
<1>4. from = NewestRoot
  BY <1>1, PartsAre DEF RootInv, ImportInv
<1> QED
  BY <1>2, <1>3, <1>4

LEMMA HomeOfWhole ==
    ASSUME RootInv, Rename
    PROVE  /\ home' = [kind |-> "subvol", gen |-> latest, ents |-> [e \in Entries |-> "whole"]]
           /\ home' \in Trees
<1>1. tree["home"] = [shape |-> "whole", gen |-> latest] /\ latest \in 0..MaxSessions
  BY RootWhole, PartsAre DEF RootInv, RootTypeOK
<1>2. home' = [kind |-> "subvol", gen |-> latest, ents |-> [e \in Entries |-> "whole"]]
  BY <1>1 DEF Rename, HomeOf
<1> QED
  BY <1>1, <1>2 DEF Trees, Kinds, Shapes

LEMMA RootRename == ASSUME RootInv, Rename PROVE RootInv'
<1>1. /\ system' = TRUE /\ step' = "booted"
      /\ UNCHANGED <<old, tmp, latest, faults, tree, from>>
  BY DEF Rename, Goto
<1>2. home' \in Trees
  BY HomeOfWhole
<1>3. RootTypeOK'
  BY <1>1, <1>2 DEF RootInv, RootTypeOK, Steps, UserSpace
<1>4. old = Absent /\ tmp = Absent
  BY RootWhole DEF AtRest
<1>5. TypeInv'
  BY <1>1, <1>2, <1>3, <1>4 DEF TypeInv, TypeOK, RootTypeOK, Absent, Steps, UserSpace
<1>6. SystemIsWhole'
  BY <1>1, RootWhole, NewestIs, PartsAre DEF SystemIsWhole
<1>7. ImportInv'
  BY <1>1 DEF ImportInv, RootMigrating
<1> QED
  BY <1>1, <1>3, <1>5, <1>6, <1>7 DEF RootInv

-----------------------------------------------------------------------------
(* The steps of HomeMigration.                                              *)

ThenV3 == (V3Boot \/ V3Step \/ Faulty \/ Session \/ Reset) /\ UNCHANGED rootVars

\* Before there is a @system, only a few of them can be taken, and they do nothing
\* but boot and shut down.
LEMMA V3Early ==
    ASSUME RootInv, ThenV3, ~system
    PROVE  /\ DiskUnchanged /\ UNCHANGED latest /\ faults' \in 0..MaxFaults
           /\ step' \in {"off", "transition", "failed"}
<1>1. step \in Waiting /\ home = Absent /\ old = Absent
  BY DEF RootInv, AtRest
<1>2. faults \in 0..MaxFaults
  BY DEF RootInv, RootTypeOK
<1>3. ~V3Step
  BY <1>1 DEF V3Step, Recover, Migrate, NoLeftover, InterruptedSwap, Refuse, LeftoverOld,
              ClearEntry, ClearDone, Restore, CheckTmp, CheckHome, MakeStaging, BeginEntry,
              FillEntry, CutNested, SnapshotNested, SwapOut, SwapIn, Undo, DeleteOldNested,
              DeleteOld, Goto, Clearing, Deleting, Waiting, RootMigrating
<1>4. ~Session
  BY <1>1 DEF Session, UserSpace, Waiting, RootMigrating
<1>5. CASE V3Boot \/ Reset
  BY <1>2, <1>5 DEF V3Boot, PowerOn, Reset, Goto
<1>6. CASE Faulty
  BY <1>1, <1>2, <1>6, BoundsAssumption
     DEF Faulty, Crash, Abort, ShowFails, MisreadLeftover, SwapInFails, ReapFails, Fault, Goto,
         Waiting, RootMigrating, IsSubvol, Exists, Absent, Running, Migrating
<1> QED
  BY <1>3, <1>4, <1>5, <1>6 DEF ThenV3

LEMMA ThenNext == ASSUME ThenV3, system PROVE Next /\ UNCHANGED rootVars
BY DEF ThenV3, V3Boot, V3Step, Next, Boot

LEMMA RootThenV3 == ASSUME RootInv, ThenV3 PROVE RootInv'
<1>1. CASE ~system
  <2>1. UNCHANGED rootVars /\ latest' \in 0..MaxSessions /\ step' \in Waiting
    BY <1>1, V3Early DEF ThenV3, RootInv, RootTypeOK, Waiting
  <2>2. ImportInv'
    BY <1>1, V3Early DEF ImportInv, RootMigrating
  <2> QED
    BY <1>1, <2>1, <2>2, V3Early, RootControl
<1>2. CASE system
  <2>1. TypeInv' /\ UNCHANGED rootVars
    BY <1>2, ThenNext, TypeStep DEF RootInv
  <2>2. ImportInv'
    BY <2>1 DEF TypeInv, TypeOK, ImportInv, RootMigrating, Steps, Running, Migrating, UserSpace
  <2>3. RootTypeOK'
    BY <2>1 DEF TypeInv, TypeOK, RootInv, RootTypeOK, rootVars
  <2>4. SystemIsWhole'
    BY <2>1 DEF RootInv, SystemIsWhole, rootVars
  <2> QED
    BY <1>2, <2>1, <2>2, <2>3, <2>4 DEF RootInv, rootVars
<1> QED
  BY <1>1, <1>2

LEMMA RootStep == RootInv /\ [RootNext]_allVars => RootInv'
<1> SUFFICES ASSUME RootInv, [RootNext]_allVars PROVE RootInv'
  OBVIOUS
<1>1. CASE UNCHANGED allVars
  BY <1>1 DEF allVars, vars, rootVars, RootInv, RootTypeOK, ImportInv, AtRest, TypeInv, TypeOK,
              IsSubvol, SystemIsWhole
<1>2. CASE OlderSession \/ StartRootMigrator \/ RootFaulty
  BY <1>2, RootSimple
<1>3. CASE RunStep
  BY <1>3, RootSimple, RootDelete, RootImport, RootCopied, RootRename DEF RunStep
<1>4. CASE ThenV3
  BY <1>4, RootThenV3
<1> QED
  BY <1>1, <1>2, <1>3, <1>4 DEF RootNext, ThenV3

LEMMA RootInvariant == RootSpec => []RootInv
BY RootInitInv, RootStep, PTL DEF RootSpec

\* Type correctness over both migrations: what is put together in @system.import
\* has copies only where v1 has overlays, so that v3 finds subvolumes.
THEOREM RootTypesCorrect == RootSpec => []RootTypeOK
<1>1. RootInv => RootTypeOK
  BY DEF RootInv
<1> QED
  BY <1>1, RootInvariant, PTL

\* @system appears only with all its parts, complete, of the same day and of the
\* newest v1 system, whatever crashed or failed before (main.rs:103-223).
THEOREM WholeSystem == RootSpec => []SystemIsWhole
<1>1. RootInv => SystemIsWhole
  BY DEF RootInv, SystemIsWhole
<1> QED
  BY <1>1, RootInvariant, PTL

-----------------------------------------------------------------------------
(* Both migrations together implement DurableHome.                          *)

\* The rename that makes @system hands over a home that is intact.
LEMMA DataRename == ASSUME RootInv, Rename PROVE DataInv' /\ home'.kind = "subvol"
<1>1. /\ home' = [kind |-> "subvol", gen |-> latest, ents |-> [e \in Entries |-> "whole"]]
      /\ old' = Absent /\ tmp' = Absent /\ latest' = latest /\ step' = "booted"
  BY HomeOfWhole, RootWhole DEF Rename, Goto, AtRest
<1>2. Intact(home)' /\ Survivor' = home' /\ ~Exists(old)'
  BY <1>1 DEF Intact, Complete, Kept, Entries, Survivor, Exists, Absent
<1> QED
  BY <1>1, <1>2 DEF DataInv, DataSafe, StepFacts, BootedIntact, Intact, Complete, Exists, Absent

\* The steps of run() other than the rename, and v1's sessions.
LEMMA BeforeSystem ==
    ASSUME RootInv, OlderSession \/ StartRootMigrator \/ RootFaulty \/ RunStep, ~Rename
    PROVE  /\ ~system /\ UNCHANGED <<home, system>>
           /\ UNCHANGED latest \/ latest' = latest + 1
<1>1. CASE OlderSession \/ StartRootMigrator \/ NoImage
  BY <1>1 DEF OlderSession, StartRootMigrator, NoImage, DiskUnchanged, rootVars
<1>2. CASE RootCrash \/ RootAbort \/ DeleteImportFails \/ Decline
  BY <1>2 DEF RootCrash, RootAbort, DeleteImportFails, Decline, Goto, RootInv, ImportInv,
              RootMigrating, DiskUnchanged, rootVars
<1>3. CASE RunStep
  BY <1>3 DEF RunStep, DeleteImportPart, DeleteImport, CreateImport, Fstab, Compose, Copied,
              RemovePlain, Snapshot, SnapshotRest, Goto, RootInv, ImportInv, RootMigrating,
              DiskUnchanged, rootVars
<1> QED
  BY <1>1, <1>2, <1>3 DEF RootFaulty

LEMMA RootDataStep ==
    ASSUME SoundWorld
    PROVE  RootInv /\ RootData /\ [RootNext]_allVars => RootData'
<1> SUFFICES ASSUME RootInv, RootData, [RootNext]_allVars PROVE RootData'
  OBVIOUS
<1>1. CASE Rename
  BY <1>1, DataRename DEF RootData
<1>2. CASE (OlderSession \/ StartRootMigrator \/ RootFaulty \/ RunStep) /\ ~Rename
  BY <1>2, BeforeSystem DEF RootData
<1>3. CASE ThenV3
  BY <1>3, ThenNext, DataStep DEF RootData, RootInv, ThenV3, rootVars
<1>4. CASE UNCHANGED allVars
  <2>1. UNCHANGED vars /\ UNCHANGED system
    BY <1>4 DEF allVars, rootVars
  <2> QED
    BY <2>1, DataStep DEF RootData, RootInv
<1> QED
  BY <1>1, <1>2, <1>3, <1>4 DEF RootNext, ThenV3

LEMMA RootDataInvariant == ASSUME SoundWorld PROVE RootSpec => [](RootInv /\ RootData)
<1>1. RootInit => RootInv /\ RootData
  BY RootInitInv DEF RootInit, RootData
<1>2. RootInv /\ RootData /\ [RootNext]_allVars => (RootInv /\ RootData)'
  BY RootStep, RootDataStep, SoundWorld
<1> QED
  BY <1>1, <1>2, PTL DEF RootSpec

\* The refinement mapping of ImplementsDurableAcross, by name.
StoredAcross == IF ~system THEN latest ELSE Stored

\* From v1 to v3, no session's changes are lost and the layout changes once:
\* both migrations together implement what DurableHome promises.
THEOREM AcrossRefinement == ASSUME SoundWorld PROVE RootSpec => ImplementsDurableAcross
<1>1. RootInit => DurableAcross!Init
  BY DEF RootInit, DurableAcross!Init, Absent
<1>2. ASSUME RootInv, RootData, RootInv', RootData', [RootNext]_allVars
      PROVE  [DurableAcross!Next]_<<StoredAcross, Layout>>
  <2>1. StoredAcross = latest /\ StoredAcross' = latest'
    <3>1. system => Stored = latest
      BY <1>2, StoredIsLatest DEF RootData
    <3>2. system' => Stored' = latest'
      BY <1>2 DEF RootData, Stored, DataInv, DataSafe, Intact
    <3> QED
      BY <3>1, <3>2 DEF StoredAcross
  <2>2. ~system => home.kind = "absent"
    BY <1>2 DEF RootInv, AtRest, Absent
  <2>3. CASE Rename
    BY <1>2, <2>1, <2>2, <2>3, DataRename, RootWhole DEF Rename, Layout
  <2>4. CASE (OlderSession \/ StartRootMigrator \/ RootFaulty \/ RunStep) /\ ~Rename
    BY <1>2, <2>1, <2>4, BeforeSystem DEF Layout, DurableAcross!Next, DurableAcross!Write, StoredAcross
  <2>5. CASE ThenV3 /\ ~system
    BY <1>2, <2>1, <2>5, V3Early DEF Layout, DiskUnchanged
  <2>6. CASE (ThenV3 \/ UNCHANGED allVars) /\ system
    <3>1. TypeInv /\ DataInv /\ [Next]_vars /\ system'
      BY <1>2, <2>6, ThenNext DEF RootInv, RootData, allVars, rootVars
    <3>2. home.kind = "dir" => home'.kind = "dir"
      BY <3>1, LayoutStep
    <3>3. UNCHANGED latest \/ (latest' = latest + 1 /\ home'.kind = home.kind)
      BY <3>1, LatestStep
    <3> QED
      BY <2>1, <2>6, <3>1, <3>2, <3>3
         DEF DurableAcross!Next, DurableAcross!Write, DurableAcross!Migrate, Layout, StoredAcross,
             Stored
  <2>7. CASE UNCHANGED allVars /\ ~system
    BY <2>1, <2>7 DEF allVars, vars, Layout
  <2> QED
    BY <1>2, <2>3, <2>4, <2>5, <2>6, <2>7 DEF RootNext, ThenV3
<1> QED
  BY <1>1, <1>2, RootDataInvariant, PTL
     DEF RootSpec, ImplementsDurableAcross, DurableAcross!Spec, StoredAcross, Stored, Layout
=============================================================================
