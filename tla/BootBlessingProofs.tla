-------------------------- MODULE BootBlessingProofs --------------------------
(***************************************************************************)
(* What holds of BootBlessing for any number of versions, tries and faults, *)
(* and for updates that stop at any stage.                                  *)
(***************************************************************************)
EXTENDS BootBlessing, FiniteSetTheorems, TLAPS

USE NumbersAssumption, ReachesAssumption

-----------------------------------------------------------------------------
(* Types.                                                                   *)

\* The images on a machine can be counted.
LEMMA InstalledFinite ==
    ASSUME NEW S \in SUBSET Versions
    PROVE  IsFiniteSet(S) /\ Cardinality(S) \in Nat
<1>1. IsFiniteSet(1..Newest)
  BY FS_Interval DEF Versions
<1> QED
  BY <1>1, FS_Subset, FS_CardinalityType DEF Versions

\* An update within the limit of 60-esp.transfer:27 stays within it.
LEMMA AcquireInLimit ==
    ASSUME TypeOK, Acquire
    PROVE  Cardinality(installed') <= InstancesMax
<1>1. PICK v \in Newer : installed' = installed \cup {v}
  BY DEF Acquire
<1>2. IsFiniteSet(installed) /\ Cardinality(installed) \in Nat
  BY InstalledFinite DEF TypeOK
<1>3. Cardinality(installed') \in {Cardinality(installed), Cardinality(installed) + 1}
  BY <1>1, <1>2, FS_AddElement
<1> QED
  BY <1>2, <1>3 DEF Acquire, Room

\* Making room for an update only shrinks the set of images.
LEMMA MakeRoomInLimit ==
    ASSUME TypeOK, MakeRoom
    PROVE  Cardinality(installed') <= InstancesMax
<1>1. PICK v \in Removable : installed' = installed \ {v}
  BY DEF MakeRoom
<1>2. IsFiniteSet(installed) /\ Cardinality(installed) \in Nat
  BY InstalledFinite DEF TypeOK
<1>3. Cardinality(installed') \in {Cardinality(installed), Cardinality(installed) - 1}
  BY <1>1, <1>2, FS_RemoveElement
<1> QED
  BY <1>2, <1>3 DEF TypeOK

LEMMA InitTypes == Init => TypeOK
<1> SUFFICES ASSUME Init PROVE TypeOK
  OBVIOUS
<1>1. Cardinality(installed) <= InstancesMax
  BY FS_Singleton DEF Init
<1>2. reach \in [Versions -> Stages]
  BY DEF Init, Stages
<1>5. left \in [Versions -> 0..FirstTries \cup 0..UpdateTries]
  BY DEF Init
<1>3. installed \in SUBSET Versions /\ installed # {} /\ running \in Versions
  BY DEF Init, Versions
<1>4. hidden \in BOOLEAN /\ checked \in BOOLEAN /\ lastGood \in BOOLEAN
  BY DEF Init
<1> QED
  BY <1>1, <1>2, <1>3, <1>4, <1>5 DEF Init, TypeOK

\* Each step keeps the types, for a running image that is installed.
LEMMA StepTypes == TypeOK /\ running \in installed /\ [Next]_vars => TypeOK'
<1> SUFFICES ASSUME TypeOK, running \in installed, [Next]_vars PROVE TypeOK'
  OBVIOUS
<1> USE DEF TypeOK, entries, boot, ghosts, On, Fault, Reach
<1>1. CASE BootDefault \/ BootChosen
  <2>1. PICK v \in installed : Load(v)
    BY <1>1 DEF BootDefault, BootChosen, Default
  <2>2. QED
    <3>1. stage' = "initrd" /\ bless' = "none" /\ marks' = {} /\ checked' = FALSE
      BY <2>1 DEF Load, ForgetMarkers
    <3>2. running' \in Versions /\ left' \in [Versions -> 0..FirstTries \cup 0..UpdateTries]
      BY <2>1 DEF Load, CountDown
    <3>3. UNCHANGED <<reach, installed, good, hidden, ghosts, faults>>
      BY <2>1 DEF Load
    <3> QED
      BY <3>1, <3>2, <3>3 DEF Stages
<1>2. CASE ReachSysinit
  BY <1>2 DEF ReachSysinit, Stages
<1>3. CASE ReachUserspace
  BY <1>3 DEF ReachUserspace, Stages
<1>4. CASE BlessSession
  BY <1>4 DEF BlessSession, Stages
<1>5. CASE BlessUserspace
  BY <1>5 DEF BlessUserspace, Check
<1>6. CASE UserspaceUnblessed
  BY <1>6 DEF UserspaceUnblessed, Check
<1>7. CASE Bless \/ BlessFails \/ BlessUncounted
  <2>1. bless' \in {"good", "failed"} /\ good' \subseteq installed /\ faults' \in 0..MaxFaults
    BY <1>7 DEF Bless, BlessFails, BlessUncounted
  <2>2. UNCHANGED <<reach, installed, left, hidden, running, stage, marks, checked, ghosts>>
    BY <1>7 DEF Bless, BlessFails, BlessUncounted
  <2> QED
    BY <2>1, <2>2
<1>8. CASE Logout
  BY <1>8 DEF Logout, Leave, Stages
<1>9. CASE ShutDown
  <2>1. stage' = "off" /\ faults' \in 0..MaxFaults
    BY <1>9 DEF ShutDown, Leave
  <2>2. hidden' \in BOOLEAN /\ lastGood' \in BOOLEAN
    BY <1>9 DEF ShutDown
  <2>3. UNCHANGED <<reach, entries, running, marks, checked, bless, earned, sessions>>
    BY <1>9 DEF ShutDown
  <2> QED
    BY <2>1, <2>2, <2>3
<1>10. CASE MakeRoom
  <2>1. installed' # {} /\ installed' \subseteq installed
    BY <1>10 DEF MakeRoom, Removable
  <2> QED
    BY <1>10, <2>1, MakeRoomInLimit DEF MakeRoom
<1>11. CASE Acquire
  <2>1. installed' \in SUBSET Versions /\ installed' # {} /\ installed \subseteq installed'
    BY <1>11 DEF Acquire, Newer
  <2>2. left' \in [Versions -> 0..FirstTries \cup 0..UpdateTries]
    BY <1>11 DEF Acquire, Newer
  <2> QED
    BY <1>11, <2>1, <2>2, AcquireInLimit DEF Acquire
<1>12. CASE Reset \/ Crash
  <2>1. stage' = "off" /\ faults' \in 0..MaxFaults
    BY <1>12 DEF Reset, Crash
  <2>2. UNCHANGED <<reach, entries, hidden, running, marks, checked, bless, ghosts>>
    BY <1>12 DEF Reset, Crash
  <2> QED
    BY <2>1, <2>2
<1>13. CASE UNCHANGED vars
  BY <1>13 DEF vars
<1> QED
  BY <1>1, <1>2, <1>3, <1>4, <1>5, <1>6, <1>7, <1>8, <1>9, <1>10, <1>11, <1>12, <1>13
     DEF Next, Boot, Blessing, User

-----------------------------------------------------------------------------
(* An image that works stays.                                               *)

\* The running image is never removed, and is the witness that an image that
\* had a session is still there: updates are made from a session only.
FallbackInv ==
    /\ running \in installed
    /\ stage = "session" => running \in sessions
    /\ Fallback

LEMMA InitFallback == Init => FallbackInv
  BY DEF Init, FallbackInv, Fallback

LEMMA StepFallback == FallbackInv /\ [Next]_vars => FallbackInv'
<1> SUFFICES ASSUME FallbackInv, [Next]_vars PROVE FallbackInv'
  OBVIOUS
<1> USE DEF FallbackInv, Fallback, entries, boot, ghosts, Reach
<1>1. CASE BootDefault \/ BootChosen
  <2>1. PICK v \in installed : Load(v)
    BY <1>1 DEF BootDefault, BootChosen, Default
  <2> QED
    BY <2>1 DEF Load
<1>2. CASE ReachSysinit \/ ReachUserspace
  BY <1>2 DEF ReachSysinit, ReachUserspace
<1>3. CASE BlessSession
  BY <1>3 DEF BlessSession
<1>4. CASE BlessUserspace \/ UserspaceUnblessed
  BY <1>4 DEF BlessUserspace, UserspaceUnblessed, Check
<1>5. CASE Blessing
  BY <1>5 DEF Blessing, Bless, BlessFails, BlessUncounted
<1>6. CASE Logout \/ ShutDown
  BY <1>6 DEF Logout, ShutDown
<1>7. CASE MakeRoom
  <2>1. running' \in installed' /\ running' \in sessions'
    BY <1>7 DEF MakeRoom, Removable
  <2> QED
    BY <1>7, <2>1 DEF MakeRoom
<1>8. CASE Acquire
  <2>1. running' \in installed' /\ running' \in sessions'
    BY <1>8 DEF Acquire
  <2> QED
    BY <1>8, <2>1 DEF Acquire
<1>9. CASE Reset \/ Crash
  BY <1>9 DEF Reset, Crash
<1>10. CASE UNCHANGED vars
  BY <1>10 DEF vars
<1> QED
  BY <1>1, <1>2, <1>3, <1>4, <1>5, <1>6, <1>7, <1>8, <1>9, <1>10 DEF Next, Boot, User

\* Type correctness for any numbers of versions, tries and faults: in
\* particular, no more images than 60-esp.transfer:27 allows.
THEOREM TypeCorrect == Spec => []TypeOK
<1>1. Init => TypeOK /\ FallbackInv
  BY InitTypes, InitFallback
<1>2. TypeOK /\ FallbackInv /\ [Next]_vars => (TypeOK /\ FallbackInv)'
  BY StepTypes, StepFallback DEF FallbackInv
<1> QED
  BY <1>1, <1>2, PTL DEF Spec

\* An image that has had a session stays on the machine, whatever updates come
\* without a restart (60-esp.transfer:5,27).
THEOREM FallbackStays == Spec => []Fallback
<1>1. FallbackInv => Fallback
  BY DEF FallbackInv
<1> QED
  BY <1>1, InitFallback, StepFallback, PTL DEF Spec

-----------------------------------------------------------------------------
(* What marks and the menu say.                                             *)

\* Markers of a boot are those of its own image.
EarnedInv == GoodIsEarned /\ (marks # {} => running \in earned)

LEMMA StepEarned == EarnedInv /\ [Next]_vars => EarnedInv'
<1> SUFFICES ASSUME EarnedInv, [Next]_vars PROVE EarnedInv'
  OBVIOUS
<1> USE DEF EarnedInv, GoodIsEarned, entries, boot, ghosts
<1>1. CASE BootDefault \/ BootChosen
  BY <1>1 DEF BootDefault, BootChosen, Load, ForgetMarkers
<1>2. CASE Boot
  BY <1>2 DEF Boot, ReachSysinit, ReachUserspace, BlessSession, BlessUserspace, UserspaceUnblessed
<1>3. CASE Blessing
  BY <1>3 DEF Blessing, Bless, BlessFails, BlessUncounted, Triggered, SomeMarker
<1>4. CASE Logout \/ ShutDown \/ MakeRoom \/ Acquire
  BY <1>4 DEF Logout, ShutDown, MakeRoom, Acquire
<1>5. CASE Reset \/ Crash \/ UNCHANGED vars
  BY <1>5 DEF Reset, Crash, vars
<1> QED
  BY <1>1, <1>2, <1>3, <1>4, <1>5 DEF Next, User

\* A marker blesses the boot it was made in and no other
\* (bless-userspace:18, bless-session:10).
THEOREM EarnedOnly == Spec => []GoodIsEarned
<1>1. Init => EarnedInv
  BY DEF Init, EarnedInv, GoodIsEarned
<1>2. EarnedInv => GoodIsEarned
  BY DEF EarnedInv
<1> QED
  BY <1>1, <1>2, StepEarned, PTL DEF Spec

\* The stages a boot passes before the menu is shown again.
LEMMA EarlyStages == \A s \in {"off", "initrd"} : ~(Rank[s] >= Rank["sysinit"])
BY DEF Rank

LEMMA StepHidden == TypeOK /\ HiddenAfterGood /\ [Next]_vars => HiddenAfterGood'
<1> SUFFICES ASSUME TypeOK, HiddenAfterGood, [Next]_vars PROVE HiddenAfterGood'
  OBVIOUS
<1>0. hidden \in BOOLEAN /\ lastGood \in BOOLEAN /\ stage \in Stages \cup {"off"}
  BY DEF TypeOK
<1> USE DEF HiddenAfterGood, AtLeast, Rank, Stages, entries, boot, ghosts
<1>1. CASE BootDefault \/ BootChosen
  <2>1. stage' = "initrd" /\ hidden' = hidden /\ lastGood' = lastGood
    BY <1>1 DEF BootDefault, BootChosen, Load
  <2> QED
    BY <1>0, <2>1, EarlyStages
<1>2. CASE ReachSysinit
  BY <1>0, <1>2 DEF ReachSysinit
<1>3. CASE ReachUserspace
  BY <1>0, <1>3 DEF ReachUserspace, Reach, On
<1>4. CASE BlessSession
  BY <1>0, <1>4 DEF BlessSession, Reach, On
<1>5. CASE BlessUserspace \/ UserspaceUnblessed \/ Blessing
  BY <1>0, <1>5 DEF BlessUserspace, UserspaceUnblessed, Check, Blessing, Bless, BlessFails, BlessUncounted
<1>6. CASE Logout
  BY <1>0, <1>6 DEF Logout
<1>7. CASE ShutDown
  <2>1. stage' = "off" /\ (hidden' => hidden \/ bless = "good") /\ lastGood' = (bless = "good")
    BY <1>0, <1>7 DEF ShutDown, MayHide
  <2>2. ~hidden
    BY <1>0, <1>7 DEF ShutDown
  <2> QED
    BY <2>1, <2>2, EarlyStages
<1>8. CASE MakeRoom \/ Acquire
  BY <1>0, <1>8 DEF MakeRoom, Acquire
<1>9. CASE Reset \/ Crash
  <2>1. stage' = "off" /\ hidden' = hidden /\ lastGood' = lastGood
    BY <1>9 DEF Reset, Crash
  <2> QED
    BY <1>0, <2>1, EarlyStages
<1>10. CASE UNCHANGED vars
  BY <1>0, <1>10 DEF vars
<1> QED
  BY <1>1, <1>2, <1>3, <1>4, <1>5, <1>6, <1>7, <1>8, <1>9, <1>10 DEF Next, Boot, User

\* The menu is hidden only when the last boot past local-fs.target was blessed
\* and shut down (kde-linux-bootloader-visibility.service:13-14).
THEOREM HiddenOnlyAfterGood == Spec => []HiddenAfterGood
<1>1. Init => HiddenAfterGood
  BY DEF Init, HiddenAfterGood
<1> QED
  BY <1>1, StepHidden, TypeCorrect, PTL DEF Spec
=============================================================================
