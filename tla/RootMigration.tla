---------------------------- MODULE RootMigration ----------------------------
(***************************************************************************)
(* The v2 migration of a KDE Linux system, and the v3 migration that follows *)
(* it: the subvolumes of a v1 system (@kde-linux_<version>, @etc-overlay,    *)
(* @var-overlay, @home, ...) become one tree, @system.  The code is run() of *)
(* btrfs-migrator/src/main.rs, started by rootfs-transition while there is   *)
(* no @system; once there is one, the machine is that of HomeMigration.      *)
(*                                                                          *)
(* The migration only reads the v1 subvolumes: their data are always those   *)
(* of the latest session.  @system.import, where the new tree is put         *)
(* together, survives a crash.                                               *)
(***************************************************************************)
EXTENDS HomeMigration, Sequences

CONSTANTS
    Roots,      \* the versions with a @kde-linux_<version>/etc
    Husks,      \* the versions with a @kde-linux_<version> that has no etc
    Predating,  \* plain directories of var that are subvolumes by now
    Concerned   \* does the fstab have entries other than swap?

Subvols == <<"home", "root", "containers", "docker">>
Composed == <<"etc", "var">>
Order == Composed \o Subvols
Parts == {Order[i] : i \in DOMAIN Order}

ASSUME RootsAssumption ==
    /\ \E v \in Roots : \A w \in Roots : w <= v
    /\ Roots \subseteq Nat /\ Husks \subseteq Nat /\ Roots \cap Husks = {}
    /\ Predating \subseteq {"containers", "docker"}
    /\ Concerned \in BOOLEAN

VARIABLES
    system,  \* is there a @system?
    tree,    \* @system.import, and @system once it has been renamed
    from     \* the version whose etc and var the tree is composed of

rootVars == <<system, tree, from>>
allVars == <<vars, rootVars>>

-----------------------------------------------------------------------------
(* A tree that is there has for each part what HomeMigration says of an     *)
(* entry, and the number of sessions whose changes it carries; "plain" is a *)
(* directory that came along with var where a subvolume belongs.            *)

NoTree == [p \in {} |-> 0]
NoPart == [shape |-> "missing", gen |-> 0]
EmptyTree == [p \in Parts |-> NoPart]
Import == ~system /\ tree # NoTree

Put(p, shape) == tree' = [tree EXCEPT ![p] = [shape |-> shape, gen |-> latest]]

\* Mutant: a snapshot counts before the subvolumes nested in it have theirs.
PartDoneEarly(p) == tree[p].shape \in {"cut", "whole"}

PartDone(p) == tree[p].shape = "whole"

\* The loops go through the parts in this order.
Current(p) ==
    \E i \in DOMAIN Order :
      /\ Order[i] = p /\ ~PartDone(p)
      /\ \A j \in 1 .. i - 1 : PartDone(Order[j])

HasNested(p) == p = "home" /\ Nesting # {}

RootInit ==
    /\ home = Absent /\ old = Absent /\ tmp = Absent
    /\ step = "off" /\ latest = 0 /\ faults = 0
    /\ system = FALSE /\ tree = NoTree /\ from = 0

-----------------------------------------------------------------------------
(* Boots while there is no @system.                                         *)

\* An image of v1 is booted and used, and the machine turned off again.
OlderSession ==
    /\ ~system /\ step = "off"
    /\ latest < MaxSessions
    /\ latest' = latest + 1
    /\ DiskUnchanged /\ UNCHANGED <<step, faults, rootVars>>

StartRootMigrator ==
    /\ ~system
    /\ Goto("transition", IF Import THEN "deleteImport" ELSE "createImport")
    /\ DiskUnchanged /\ UNCHANGED <<latest, faults, rootVars>>

\* The .erofs of the image that boots is not on the disk: reboot.
NoImage ==
    /\ ~system
    /\ Goto("transition", "off")
    /\ Fault
    /\ DiskUnchanged /\ UNCHANGED <<latest, rootVars>>

RootMigrating == {"deleteImport", "createImport", "fstab", "import"}

RootCrash ==
    /\ step \in RootMigrating
    /\ Fault
    /\ step' = "off"
    /\ DiskUnchanged /\ UNCHANGED <<latest, rootVars>>

\* A call followed by `?`, a mount or a copy fails, or an entry cannot be read.
RootAbort ==
    /\ step \in RootMigrating \ {"deleteImport"}
    /\ Fault
    /\ step' = "failed"
    /\ DiskUnchanged /\ UNCHANGED <<latest, rootVars>>

-----------------------------------------------------------------------------
(* run(): what an earlier attempt has left behind, and the question.        *)

\* The recursive deletion: the subvolumes in it first.
DeleteImportPart(p) ==
    /\ step = "deleteImport"
    /\ tree[p].shape \in {"cut", "whole"} /\ p \notin {"etc", "var"}
    /\ tree' = [tree EXCEPT ![p] = NoPart]
    /\ DiskUnchanged /\ UNCHANGED <<step, latest, faults, system, from>>

DeleteImport ==
    /\ Goto("deleteImport", "createImport")
    /\ \A i \in DOMAIN Subvols : tree[Subvols[i]].shape \in {"missing", "plain"}
    /\ tree' = NoTree
    /\ DiskUnchanged /\ UNCHANGED <<latest, faults, system, from>>

\* Only printed.
DeleteImportFails ==
    /\ Goto("deleteImport", "createImport")
    /\ Fault
    /\ DiskUnchanged /\ UNCHANGED <<latest, rootVars>>

\* Mutant: what could not be deleted is taken for the new subvolume.
CreateImportOver ==
    /\ Goto("createImport", "fstab")
    /\ tree' = IF Import THEN tree ELSE EmptyTree
    /\ DiskUnchanged /\ UNCHANGED <<latest, faults, system, from>>

\* It cannot be created where one has been left.
CreateImport ==
    /\ Goto("createImport", IF Import THEN "failed" ELSE "fstab")
    /\ tree' = IF Import THEN tree ELSE EmptyTree
    /\ DiskUnchanged /\ UNCHANGED <<latest, faults, system, from>>

Fstab ==
    /\ Goto("fstab", "import")
    /\ DiskUnchanged /\ UNCHANGED <<latest, faults, rootVars>>

\* "Do you want to continue with auto-migration?" -- No: reboot.
Decline ==
    /\ Concerned /\ Fault
    /\ Goto("fstab", "off")
    /\ DiskUnchanged /\ UNCHANGED <<latest, rootVars>>

-----------------------------------------------------------------------------
(* run(): the new tree.                                                     *)

\* Mutant: a subvolume without etc will do.
NewestAny == CHOOSE v \in Roots \cup Husks : \A w \in Roots \cup Husks : w <= v

\* find_rootfs_v1.
NewestRoot == CHOOSE v \in Roots : \A w \in Roots : w <= v

\* Mount the overlay and begin to copy it: without the directory below, there is
\* nothing to mount.
Compose(p) ==
    /\ step = "import"
    /\ p \in {"etc", "var"} /\ Current(p) /\ tree[p].shape = "missing"
    /\ from' = NewestRoot
    /\ IF NewestRoot \in Roots
         THEN Put(p, "fresh") /\ UNCHANGED step
         ELSE step' = "failed" /\ UNCHANGED tree
    /\ DiskUnchanged /\ UNCHANGED <<latest, faults, system>>

\* The copy of var has the plain directories that predate the subvolumes.
Copied(p) ==
    /\ step = "import"
    /\ Current(p) /\ tree[p].shape = "fresh"
    /\ tree' = [q \in Parts |->
                  IF q = p THEN [tree[q] EXCEPT !.shape = "whole"]
                  ELSE IF p = "var" /\ q \in Predating THEN [shape |-> "plain", gen |-> latest]
                  ELSE tree[q]]
    /\ DiskUnchanged /\ UNCHANGED <<step, latest, faults, system, from>>

RemovePlain(p) ==
    /\ step = "import"
    /\ Current(p) /\ tree[p].shape = "plain"
    /\ tree' = [tree EXCEPT ![p] = NoPart]
    /\ DiskUnchanged /\ UNCHANGED <<step, latest, faults, system, from>>

Snapshot(p) ==
    /\ step = "import"
    /\ p \notin {"etc", "var"} /\ Current(p) /\ tree[p].shape = "missing"
    /\ Put(p, IF HasNested(p) THEN "cut" ELSE "whole")
    /\ DiskUnchanged /\ UNCHANGED <<step, latest, faults, system, from>>

\* recursive(true): the nested subvolumes, one by one after their parent.
SnapshotRest(p) ==
    /\ step = "import"
    /\ Current(p) /\ tree[p].shape = "cut"
    /\ Put(p, "whole")
    /\ DiskUnchanged /\ UNCHANGED <<step, latest, faults, system, from>>

\* @system/home, as the v3 migration will find it.
HomeOf(t) ==
    [kind |-> "subvol",
     gen |-> t["home"].gen,
     ents |-> [e \in Entries |->
                 IF e \in Nesting THEN t["home"].shape ELSE "whole"]]

\* The rest of this boot has a v2 system.
Rename ==
    /\ Goto("import", "booted")
    /\ \A p \in Parts : PartDone(p)
    /\ system' = TRUE
    /\ home' = HomeOf(tree)
    /\ UNCHANGED <<old, tmp, latest, faults, tree, from>>

-----------------------------------------------------------------------------
RunStep ==
    \/ (\E p \in Parts : DeleteImportPart(p)) \/ DeleteImport \/ CreateImport \/ Fstab
    \/ \E p \in Parts :
         Compose(p) \/ Copied(p) \/ RemovePlain(p) \/ Snapshot(p) \/ SnapshotRest(p)
    \/ Rename

RootFaulty == NoImage \/ RootCrash \/ RootAbort \/ DeleteImportFails \/ Decline

\* HomeMigration's actions, on the v2 system.
V3Boot == PowerOn \/ (system /\ (StartMigrator \/ NothingToMigrate))
V3Step == Recover \/ Migrate

RootNext ==
    \/ OlderSession \/ StartRootMigrator \/ RunStep \/ RootFaulty
    \/ (V3Boot \/ V3Step \/ Faulty \/ Session \/ Reset) /\ UNCHANGED rootVars

(* As in HomeMigration: the machine runs while it is on, the question is    *)
(* answered, and the user turns on again what was turned off.               *)
RootSpec ==
    /\ RootInit /\ [][RootNext]_allVars
    /\ WF_allVars(V3Boot /\ UNCHANGED rootVars) /\ WF_allVars(V3Step /\ UNCHANGED rootVars)
    /\ WF_allVars(Reset /\ UNCHANGED rootVars)
    /\ WF_allVars(StartRootMigrator) /\ WF_allVars(RunStep)

-----------------------------------------------------------------------------
(* Properties.                                                              *)

\* The types of the variables.  A tree in the making has copies of etc and var
\* only, and nothing but snapshots where v1 has subvolumes: what is a copy could
\* not be migrated to v3.
RootTypeOK ==
    /\ home \in Trees /\ old \in Trees /\ tmp \in Trees
    /\ step \in Steps \cup RootMigrating
    /\ latest \in 0..MaxSessions /\ faults \in 0..MaxFaults
    /\ system \in BOOLEAN
    /\ from \in Roots \cup Husks \cup {0}
    /\ tree # NoTree =>
         /\ tree \in [Parts -> [shape : {"missing", "fresh", "plain", "cut", "whole"},
                                gen : 0..MaxSessions]]
         /\ \A p \in Parts :
              /\ tree[p].shape = "fresh" => p \in {"etc", "var"}
              /\ tree[p].shape = "plain" => p \in Predating

\* @system appears only with all its parts, each of them complete, all of the
\* same day, and composed of the newest v1 system there is: whatever an attempt
\* that crashed left in @system.import, and whatever v1 was used for since.
SystemIsWhole ==
    system =>
      /\ \A p \in Parts : tree[p] = [shape |-> "whole", gen |-> tree["home"].gen]
      /\ from \in Roots /\ \A v \in Roots : v <= from

\* From v1 to v3, over both migrations: every session's changes stay, those of
\* sessions between two attempts included, and the layout changes once.
DurableAcross == INSTANCE DurableHome WITH
    data <- IF ~system THEN latest
            ELSE IF Complete(Survivor) THEN Survivor.gen ELSE -1,
    layout <- IF home.kind = "dir" THEN "v3" ELSE "v2"
ImplementsDurableAcross == DurableAcross!Spec

\* Once crashes and failures stop, a v1 system becomes a v3 system: also after a
\* deletion of @system.import that failed, which the creation after it does not
\* survive (main.rs:103-108), and beside a newer subvolume that is not a root.
EventuallyOnV3 == <>[](system /\ home.kind = "dir" /\ ~Exists(old) /\ ~Exists(tmp))
=============================================================================
