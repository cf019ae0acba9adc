---------------------------- MODULE HomeMigration ----------------------------
(***************************************************************************)
(* The v3 migration of a KDE Linux system: @system/home stops being one     *)
(* btrfs subvolume and becomes a plain directory with one subvolume per     *)
(* user.  The code is run_v3() of btrfs-migrator/src/main.rs, started in    *)
(* the initrd by mkosi.extra/usr/lib/rootfs-transition before the root      *)
(* file system is mounted.                                                  *)
(*                                                                          *)
(* The machine may lose power between any two of its steps, any fallible    *)
(* call may fail, and the next boot starts over from what is on the disk.   *)
(* Control is the pc `step`; the disk is the three trees the code renames   *)
(* into each other:                                                         *)
(*    home   @system/home                                                   *)
(*    old    @system/home.v3old                                             *)
(*    tmp    @system/home.v3tmp, the staging directory                      *)
(***************************************************************************)
EXTENDS Integers

CONSTANTS
    Homes,        \* directories of @system/home: the users' homes
    Nesting,      \* the homes that contain a nested btrfs subvolume
    Files,        \* regular files and symlinks directly in @system/home
    Oddities,     \* sockets, fifos, devices there: skipped with a warning
    MaxFaults,    \* bound: crashes and failing calls in a behaviour
    MaxSessions,  \* bound: user sessions that change a home
    StatFaults,   \* may the question "is this a subvolume?" fail?
    Detours       \* ways to reach user space without the migrator

ASSUME HomesAssumption ==
    /\ Homes # {}
    /\ Nesting \subseteq Homes
    /\ Homes \cap Files = {} /\ Homes \cap Oddities = {} /\ Files \cap Oddities = {}
ASSUME BoundsAssumption == MaxFaults \in Nat /\ MaxSessions \in Nat
ASSUME WorldAssumption ==
    /\ StatFaults \in BOOLEAN
    /\ Detours \subseteq {"olderImage", "continue"}

Entries == Homes \cup Files \cup Oddities
Kept == Homes \cup Files

VARIABLES
    home, old, tmp,  \* the three trees on the disk
    step,            \* what the machine is doing
    latest,          \* ghost: how many sessions have changed the users' data
    faults           \* ghost: faults so far, for the bound

vars == <<home, old, tmp, step, latest, faults>>

-----------------------------------------------------------------------------
(* Trees.  An entry of a tree is                                            *)
(*    missing   not there                                                   *)
(*    fresh     created, its content not copied yet                         *)
(*    flat      copied by cp, a nested subvolume being a plain directory    *)
(*    cut       without its nested subvolume                                *)
(*    whole     complete                                                    *)
(* and gen is the number of sessions whose changes the tree's data carry.   *)

Shapes == {"missing", "fresh", "flat", "cut", "whole"}
Kinds == {"absent", "subvol", "dir"}
Trees == [kind : Kinds, gen : 0..MaxSessions, ents : [Entries -> Shapes]]

NoEntries == [e \in Entries |-> "missing"]
Absent == [kind |-> "absent", gen |-> 0, ents |-> NoEntries]
EmptySubvol == [kind |-> "subvol", gen |-> 0, ents |-> NoEntries]

Exists(t) == t.kind # "absent"
IsSubvol(t) == t.kind = "subvol"
Set(t, e, shape) == [t EXCEPT !.ents[e] = shape]

\* All that has to make it across is in t, none of it cut short.
Complete(t) == Exists(t) /\ \A e \in Kept : t.ents[e] = "whole"
\* t is complete and up to date: losing every other tree loses nothing.
Intact(t) == Complete(t) /\ t.gen = latest

-----------------------------------------------------------------------------
Migrating == {"checkOld", "clearForRestore", "restore", "dropOld", "checkTmp",
              "clearStale", "checkHome", "stage", "copy", "swapIn", "undo", "reap"}
Running == Migrating \cup {"transition"}
UserSpace == {"booted", "detour"}
Steps == Running \cup UserSpace \cup {"off", "failed"}

Init ==
    /\ home = [kind |-> "subvol", gen |-> 0, ents |-> [e \in Entries |-> "whole"]]
    /\ old = Absent
    /\ tmp = Absent
    /\ step = "off"
    /\ latest = 0
    /\ faults = 0

Fault == faults < MaxFaults /\ faults' = faults + 1
Goto(from, to) == step = from /\ step' = to
DiskUnchanged == UNCHANGED <<home, old, tmp>>

-----------------------------------------------------------------------------
(* The boot, outside the migrator.                                          *)

\* sysroot.mount requires the transition service: no boot goes around it.
PowerOn ==
    /\ Goto("off", "transition")
    /\ DiskUnchanged /\ UNCHANGED <<latest, faults>>

\* Mutant: the transition looks at @system/home alone.
NeedsMigrationHomeOnly == IsSubvol(home)

\* What rootfs-transition looks at to start the migrator.
NeedsMigration == IsSubvol(home) \/ Exists(old) \/ Exists(tmp)

StartMigrator ==
    /\ NeedsMigration
    /\ Goto("transition", "checkOld")
    /\ DiskUnchanged /\ UNCHANGED <<latest, faults>>

NothingToMigrate ==
    /\ ~NeedsMigration
    /\ Goto("transition", "booted")
    /\ DiskUnchanged /\ UNCHANGED <<latest, faults>>

\* `btrfs subvolume show` exits non-zero for any reason: read as "not a subvolume".
ShowFails ==
    /\ StatFaults /\ Fault
    /\ IsSubvol(home) /\ ~Exists(old) /\ ~Exists(tmp)
    /\ Goto("transition", "booted")
    /\ DiskUnchanged /\ UNCHANGED latest

\* The user logs in and changes the data of some home.
Session ==
    /\ step \in UserSpace
    /\ Intact(home)   \* what is written to a second, empty home is not followed
    /\ latest < MaxSessions
    /\ home' = [home EXCEPT !.gen = @ + 1]
    /\ latest' = latest + 1
    /\ UNCHANGED <<old, tmp, step, faults>>

\* Shutdown, or the user resets a machine that did not boot.
Reset ==
    /\ step \in UserSpace \cup {"failed"}
    /\ step' = "off"
    /\ DiskUnchanged /\ UNCHANGED <<latest, faults>>

\* User space is reached without the migrator: "olderImage" boots an image of
\* before v3 from the boot menu; "continue" leaves the emergency shell, systemd
\* starts the service again and rootfs-transition exits 0 because its mount
\* point is already there.  tmpfiles then creates a /home that is missing, as
\* an empty subvolume.
Detour ==
    /\ \/ "olderImage" \in Detours /\ Goto("off", "detour")
       \/ "continue" \in Detours /\ Goto("failed", "detour")
    /\ home' = IF Exists(home) THEN home ELSE EmptySubvol
    /\ UNCHANGED <<old, tmp, latest, faults>>

Crash ==
    /\ step \in Running
    /\ Fault
    /\ step' = "off"
    /\ DiskUnchanged /\ UNCHANGED latest

\* Any call followed by `?` fails and run_v3 returns the error; the steps
\* "reap" and "swapIn" deal with the failure of their call themselves.
Abort ==
    /\ step \in Running \ {"reap", "swapIn"}
    /\ Fault
    /\ step' = "failed"
    /\ DiskUnchanged /\ UNCHANGED latest

-----------------------------------------------------------------------------
(* run_v3: what an earlier attempt has left behind.                         *)

NoLeftover ==
    /\ ~Exists(old)
    /\ Goto("checkOld", "checkTmp")
    /\ DiskUnchanged /\ UNCHANGED <<latest, faults>>

\* Mutants: home.v3old is always a leftover; or a missing home is an error.
InterruptedSwapDrops ==
    /\ Exists(old) /\ ~Exists(home)
    /\ Goto("checkOld", "dropOld")
    /\ DiskUnchanged /\ UNCHANGED <<latest, faults>>
InterruptedSwapFails ==
    /\ Exists(old) /\ ~Exists(home)
    /\ Goto("checkOld", "failed")
    /\ DiskUnchanged /\ UNCHANGED <<latest, faults>>

\* home is missing: the earlier attempt stopped between its two renames.
InterruptedSwap ==
    /\ Exists(old) /\ ~Exists(home)
    /\ Goto("checkOld", IF Exists(tmp) THEN "clearForRestore" ELSE "restore")
    /\ DiskUnchanged /\ UNCHANGED <<latest, faults>>

Refuse ==
    /\ Exists(old) /\ IsSubvol(home)
    /\ Goto("checkOld", "failed")
    /\ DiskUnchanged /\ UNCHANGED <<latest, faults>>

LeftoverOld ==
    /\ Exists(old) /\ Exists(home) /\ ~IsSubvol(home)
    /\ Goto("checkOld", "dropOld")
    /\ DiskUnchanged /\ UNCHANGED <<latest, faults>>

\* is_subvolume(..).unwrap_or(false): a question without an answer means "no".
MisreadLeftover ==
    /\ StatFaults /\ Fault
    /\ Exists(old) /\ IsSubvol(home)
    /\ Goto("checkOld", "dropOld")
    /\ DiskUnchanged /\ UNCHANGED latest

\* remove_staging_dir: the homes, which are subvolumes, one by one; then
\* remove_dir_all for the files and the directory itself.
Clearing == step \in {"clearForRestore", "clearStale"}

ClearEntry(e) ==
    /\ Clearing
    /\ tmp.ents[e] # "missing"
    /\ e \in Homes \/ \A h \in Homes : tmp.ents[h] = "missing"
    /\ tmp' = Set(tmp, e, "missing")
    /\ UNCHANGED <<home, old, step, latest, faults>>

ClearDone ==
    /\ Clearing
    /\ \A e \in Entries : tmp.ents[e] = "missing"
    /\ tmp' = Absent
    /\ step' = IF step = "clearForRestore" THEN "restore" ELSE "checkHome"
    /\ UNCHANGED <<home, old, latest, faults>>

Restore ==
    /\ Goto("restore", "checkTmp")
    /\ home' = old /\ old' = Absent
    /\ UNCHANGED <<tmp, latest, faults>>

CheckTmp ==
    /\ Goto("checkTmp", IF Exists(tmp) THEN "clearStale" ELSE "checkHome")
    /\ DiskUnchanged /\ UNCHANGED <<latest, faults>>

CheckHome ==
    /\ Goto("checkHome", IF IsSubvol(home) THEN "stage" ELSE "booted")
    /\ DiskUnchanged /\ UNCHANGED <<latest, faults>>

-----------------------------------------------------------------------------
(* run_v3: stage every entry of home, swap the staging directory in.        *)

\* Mutant: the staging directory is made a subvolume, like the homes in it.
MakeStagingSubvol ==
    /\ Goto("stage", "copy")
    /\ tmp' = [Absent EXCEPT !.kind = "subvol", !.gen = home.gen]
    /\ UNCHANGED <<home, old, latest, faults>>

MakeStaging ==
    /\ Goto("stage", "copy")
    /\ tmp' = [Absent EXCEPT !.kind = "dir", !.gen = home.gen]
    /\ UNCHANGED <<home, old, latest, faults>>

\* The entries of home the loop copies; the others it skips with a warning.
Listed == {e \in Kept : home.ents[e] # "missing"}
\* The loop is between two entries.
EntryDone == \A e \in Listed : tmp.ents[e] \in {"missing", "whole"}

BeginEntry(e) ==
    /\ step = "copy"
    /\ EntryDone
    /\ e \in Listed /\ tmp.ents[e] = "missing"
    /\ tmp' = Set(tmp, e, "fresh")
    /\ UNCHANGED <<home, old, step, latest, faults>>

FillEntry(e) ==
    /\ step = "copy"
    /\ tmp.ents[e] = "fresh"
    /\ tmp' = Set(tmp, e, IF e \in Nesting THEN "flat" ELSE "whole")
    /\ UNCHANGED <<home, old, step, latest, faults>>

\* snapshot_nested_subvolumes: remove the plain copy, ...
CutNested(e) ==
    /\ step = "copy"
    /\ tmp.ents[e] = "flat"
    /\ tmp' = Set(tmp, e, "cut")
    /\ UNCHANGED <<home, old, step, latest, faults>>

\* ... then snapshot the original in its place.
SnapshotNested(e) ==
    /\ step = "copy"
    /\ tmp.ents[e] = "cut"
    /\ tmp' = Set(tmp, e, "whole")
    /\ UNCHANGED <<home, old, step, latest, faults>>

\* Mutant: the loop may end between any two entries.
StagedSome == EntryDone
Staged == \A e \in Listed : tmp.ents[e] = "whole"

\* Mutant: home.v3old is a snapshot of home, which stays in place.
SwapOutSnapshot ==
    /\ Staged
    /\ Goto("copy", "swapIn")
    /\ old' = home
    /\ UNCHANGED <<home, tmp, latest, faults>>

SwapOut ==
    /\ Staged
    /\ Goto("copy", "swapIn")
    /\ old' = home /\ home' = Absent
    /\ UNCHANGED <<tmp, latest, faults>>

SwapIn ==
    /\ Goto("swapIn", "reap")
    /\ home' = tmp /\ tmp' = Absent
    /\ UNCHANGED <<old, latest, faults>>

\* Mutant: the failure is a warning, as it is for the deletion after it.
SwapInFailsWarns ==
    /\ Goto("swapIn", "reap")
    /\ Fault
    /\ DiskUnchanged /\ UNCHANGED latest

SwapInFails ==
    /\ Goto("swapIn", "undo")
    /\ Fault
    /\ DiskUnchanged /\ UNCHANGED latest

Undo ==
    /\ Goto("undo", "failed")
    /\ home' = old /\ old' = Absent
    /\ UNCHANGED <<tmp, latest, faults>>

\* The recursive deletion of home.v3old, at the end of a migration ("reap") or
\* at the start of the next ("dropOld"): nested subvolumes first.
Deleting == step \in {"reap", "dropOld"}

DeleteOldNested(e) ==
    /\ Deleting
    /\ e \in Nesting /\ old.ents[e] = "whole"
    /\ old' = Set(old, e, "cut")
    /\ UNCHANGED <<home, tmp, step, latest, faults>>

DeleteOld ==
    /\ Deleting
    /\ \A e \in Nesting : old.ents[e] # "whole"
    /\ old' = Absent
    /\ step' = IF step = "reap" THEN "booted" ELSE "checkTmp"
    /\ UNCHANGED <<home, tmp, latest, faults>>

\* Only a warning: "home.v3old can be manually deleted".
ReapFails ==
    /\ Goto("reap", "booted")
    /\ Fault
    /\ DiskUnchanged /\ UNCHANGED latest

-----------------------------------------------------------------------------
Recover ==
    \/ NoLeftover \/ InterruptedSwap \/ Refuse \/ LeftoverOld
    \/ (\E e \in Entries : ClearEntry(e)) \/ ClearDone
    \/ Restore \/ CheckTmp \/ CheckHome

Migrate ==
    \/ MakeStaging
    \/ \E e \in Entries : BeginEntry(e) \/ FillEntry(e) \/ CutNested(e) \/ SnapshotNested(e)
    \/ SwapOut \/ SwapIn \/ Undo
    \/ (\E e \in Entries : DeleteOldNested(e)) \/ DeleteOld

Boot == PowerOn \/ StartMigrator \/ NothingToMigrate

Faulty == Crash \/ Abort \/ ShowFails \/ MisreadLeftover \/ SwapInFails \/ ReapFails

Next == Boot \/ Recover \/ Migrate \/ Faulty \/ Session \/ Reset \/ Detour

Spec == Init /\ [][Next]_vars

(* The machine runs while it is on, and its user turns it on again: a boot  *)
(* that failed leaves no other choice, and an update needs a restart.       *)
Fairness == WF_vars(Boot) /\ WF_vars(Recover) /\ WF_vars(Migrate) /\ WF_vars(Reset)

FairSpec == Spec /\ Fairness

-----------------------------------------------------------------------------
(* Properties.                                                              *)

\* Type invariant; a staging directory is never a subvolume, home.v3old always
\* is one: the recovery at main.rs:310-351 deletes each with the call that fits.
TypeOK ==
    /\ home \in Trees /\ old \in Trees /\ tmp \in Trees
    /\ old.kind \in {"absent", "subvol"} /\ tmp.kind \in {"absent", "dir"}
    /\ step \in Steps
    /\ latest \in 0..MaxSessions
    /\ faults \in 0..MaxFaults

\* No crash, no failing call and no order of recoveries loses the users' data:
\* at every moment home or home.v3old is complete and up to date, and it is the
\* one the next run of run_v3 (main.rs:310-345) keeps.
Survivor == IF Exists(old) /\ home.kind # "dir" THEN old ELSE home
DataSafe == Intact(Survivor)

\* Only one step ever destroys the last copy of the users' data: the deletion of
\* home.v3old at main.rs:341 while home is a subvolume, which is_subvolume() at
\* main.rs:329 could not tell.  Boots around the migrator add no other.
LossOnlyByMisread ==
    [][DataSafe /\ ~DataSafe' => step = "dropOld" /\ IsSubvol(home)]_vars

\* User space that the migrator let through finds every home complete and up to
\* date, whichever of the leftovers of earlier attempts it met on the way.
BootedIntact == step = "booted" => Intact(home)

\* "rename(home -> old) is what creates home.v3old, so the two only coexist once
\* home has been replaced by the new regular directory" (main.rs:330-331).
Coexist == Exists(old) /\ Exists(home) => home.kind = "dir"

\* Once crashes and failures stop, the migration completes, and nothing of the
\* attempts before is left over (the next boot cleans up what a failed deletion
\* left, main.rs:338-351).
EventuallyMigrated ==
    <>[](home.kind = "dir" /\ ~Exists(old) /\ ~Exists(tmp))

\* What run_v3 promises in one step: the data of a session are durable and the
\* layout changes once, for good.
Durable == INSTANCE DurableHome WITH
    data <- IF Complete(Survivor) THEN Survivor.gen ELSE -1,
    layout <- IF home.kind = "dir" THEN "v3" ELSE "v2"
ImplementsDurableHome == Durable!Spec

\* The inductive invariant behind DataSafe and BootedIntact, in a world where no
\* boot goes around the migrator or no stat fails.  The steps that delete a tree
\* know that the other one holds the data; the steps after the recovery know
\* that home.v3old is gone; a subvolume home beside home.v3old is the empty one
\* of a detour.
SoundWorld == Detours = {} \/ ~StatFaults

StepFacts ==
    /\ step \in {"dropOld", "reap"} => home.kind = "dir"
    /\ step \in {"clearForRestore", "restore", "undo", "swapIn"} => ~Exists(home)
    /\ step \in {"checkTmp", "clearStale", "checkHome", "stage", "copy"} => ~Exists(old)
    /\ step = "copy" => tmp.kind = "dir" /\ tmp.gen = home.gen
    /\ step = "swapIn" => tmp.kind = "dir" /\ Intact(tmp)

DataInv ==
    /\ DataSafe
    /\ StepFacts
    /\ BootedIntact
    /\ Exists(old) /\ IsSubvol(home) => Detours # {} /\ ~Complete(home)

\* "The migration succeeded but deleting the old subvolume failed. home.v3old
\* can be manually deleted" (main.rs:438): a leftover the user need not care for
\* would never keep a machine from booting.
LeftoverIsHarmless == [][step = "dropOld" => step' # "failed"]_vars

\* "In the worst case @system/home no longer exists and home.v3old holds the only
\* copy of the user data, so the migrator has to run to put it back"
\* (rootfs-transition:28-30): user space is not reached while home is missing.
HomeBeforeUserSpace == step' \in UserSpace /\ step \notin UserSpace => Exists(home)
NeverWithoutHome == [][HomeBeforeUserSpace]_vars
=============================================================================
