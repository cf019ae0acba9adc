---------------------------- MODULE BootBlessing ----------------------------
(***************************************************************************)
(* Which image a KDE Linux machine boots, and how an image earns its place. *)
(*                                                                          *)
(* Images are installed beside each other by systemd-sysupdate with a       *)
(* number of tries (sysupdate.d/60-esp.transfer).  The boot loader counts   *)
(* a try down at each boot of an image that is not marked good yet, and     *)
(* prefers the newest image that is good or has tries left.  Two checks     *)
(* leave a marker when they pass: bless-userspace, run by the system when   *)
(* the boot is counted, and bless-session, run by the user's session.  The  *)
(* path unit kde-linux-bless-boot.path starts the service that marks the    *)
(* image good; when that service stops in a clean shutdown,                 *)
(* auto-hide-bootloader hides the menu, and the next boot shows it again.   *)
(***************************************************************************)
EXTENDS Integers, FiniteSets

CONSTANTS
    Newest,        \* bound: versions 1..Newest are published
    InstancesMax,  \* images kept by an update
    FirstTries,    \* tries of the image the installer put there
    UpdateTries,   \* tries of an image that came as an update
    Reaches,       \* how far a boot of an update may get
    MaxFaults      \* bound: crashes, failing calls, hasty users

\* How far a boot has got.
Rank == [off |-> 0, initrd |-> 1, sysinit |-> 2, basic |-> 3, desktop |-> 4, session |-> 5]
Stages == {"initrd", "sysinit", "basic", "desktop", "session"}
Versions == 1..Newest

ASSUME NumbersAssumption ==
    /\ Newest \in Nat \ {0}
    /\ InstancesMax \in Nat \ {0, 1}
    /\ FirstTries \in Nat /\ UpdateTries \in Nat
    /\ MaxFaults \in Nat
ASSUME ReachesAssumption == Reaches \subseteq Stages

VARIABLES
    reach,      \* the stage a boot of each image gets to
    installed,  \* images on the machine
    left,       \* tries left in the name of an image's boot entry
    good,       \* images whose entry has lost its counter
    hidden,     \* is the menu's timeout set to 0?
    running,    \* the image of this boot, or of the last one
    stage,      \* how far this boot has got, or "off"
    marks,      \* markers in /run of this boot
    checked,    \* has bless-userspace run?
    bless,      \* kde-linux-bless-boot.service in this boot
    earned,     \* ghost: images one of whose boots passed a check
    sessions,   \* ghost: images that have had a session
    lastGood,   \* ghost: the last boot past sysinit was blessed, and shut down
    faults      \* ghost: faults so far, for the bound

boot == <<running, stage, marks, checked, bless>>
ghosts == <<earned, sessions, lastGood>>
entries == <<installed, left, good>>
vars == <<reach, entries, hidden, boot, ghosts, faults>>

On == stage # "off"
AtLeast(s) == Rank[stage] >= Rank[s]
Fault == faults < MaxFaults /\ faults' = faults + 1

Init ==
    /\ reach \in [Versions -> Reaches \cup {"session"}] /\ reach[1] = "session"
    /\ installed = {1} /\ left = [v \in Versions |-> IF v = 1 THEN FirstTries ELSE 0]
    /\ good = {} /\ hidden = FALSE
    /\ running = 1 /\ stage = "off" /\ marks = {} /\ checked = FALSE /\ bless = "none"
    /\ earned = {} /\ sessions = {} /\ lastGood = FALSE
    /\ faults = 0

-----------------------------------------------------------------------------
(* The boot loader.                                                         *)

\* Exhausted entries are sorted behind all the others, the newest comes first.
Usable(v) == v \in good \/ left[v] > 0
Before(v, w) == IF Usable(v) = Usable(w) THEN v >= w ELSE Usable(v)
Default == {v \in installed : \A w \in installed : Before(v, w)}

\* Mutant: the markers are kept on /var.
ForgetMarkersNever == UNCHANGED marks

\* /run is new with every boot.
ForgetMarkers == marks' = {}

\* Mutant: updates have no counter in their names.
CountDownFirst(v) ==
    left' = [left EXCEPT ![v] = IF v # 1 \/ v \in good \/ @ = 0 THEN @ ELSE @ - 1]

\* The loader takes a try off an entry that has a counter.
CountDown(v) ==
    left' = [left EXCEPT ![v] = IF v \in good \/ @ = 0 THEN @ ELSE @ - 1]

Load(v) ==
    /\ stage = "off" /\ stage' = "initrd"
    /\ running' = v
    /\ CountDown(v)
    /\ ForgetMarkers /\ checked' = FALSE /\ bless' = "none"
    /\ UNCHANGED <<reach, installed, good, hidden, ghosts, faults>>

BootDefault == \E v \in Default : Load(v)
\* From the menu, or by a key held down when it is hidden.
BootChosen == \E v \in installed : Load(v)

-----------------------------------------------------------------------------
(* The boot.                                                                *)

Reach(s) ==
    /\ On /\ stage # reach[running] /\ Rank[s] = Rank[stage] + 1
    /\ stage' = s

\* kde-linux-bootloader-visibility.service, before sysinit.target.
ReachSysinit ==
    /\ Reach("sysinit")
    /\ hidden' = FALSE
    /\ lastGood' = FALSE
    /\ UNCHANGED <<reach, entries, running, marks, checked, bless, earned, sessions, faults>>

\* basic.target, which starts the path unit, then the display manager.
ReachUserspace ==
    /\ \E s \in {"basic", "desktop"} : Reach(s)
    /\ UNCHANGED <<reach, entries, hidden, running, marks, checked, bless, ghosts, faults>>

\* A complete session touches its marker.
BlessSession ==
    /\ Reach("session")
    /\ marks' = marks \cup {"session"}
    /\ earned' = earned \cup {running}
    /\ sessions' = sessions \cup {running}
    /\ UNCHANGED <<reach, entries, hidden, running, checked, bless, lastGood, faults>>

\* systemd-bless-boot.service, which asks for the check, is part of counted
\* boots only.  The unit requires the display manager and is not ordered
\* after it: it may run before, and run although the display manager fails.
Check == AtLeast("basic") /\ running \notin good /\ ~checked /\ checked' = TRUE

BlessUserspace ==
    /\ Check
    /\ marks' = marks \cup {"userspace"}
    /\ earned' = earned \cup {running}
    /\ UNCHANGED <<reach, entries, hidden, running, stage, bless, sessions, lastGood, faults>>

\* The display manager has failed first, or a call of the script fails.
UserspaceUnblessed ==
    /\ Check
    /\ IF reach[running] = "basic" THEN UNCHANGED faults ELSE Fault
    /\ UNCHANGED <<reach, entries, hidden, running, stage, marks, bless, ghosts>>

\* Each PathExistsGlob of the path unit is a condition of its own.
SomeMarker == marks # {}

Triggered == AtLeast("basic") /\ bless = "none" /\ SomeMarker

Bless ==
    /\ Triggered /\ running \notin good
    /\ bless' = "good"
    /\ good' = good \cup {running}
    /\ UNCHANGED <<reach, installed, left, hidden, running, stage, marks, checked, ghosts, faults>>

\* systemd-bless-boot fails until the start limit is reached.
BlessFails ==
    /\ Triggered /\ running \notin good
    /\ Fault
    /\ bless' = "failed"
    /\ UNCHANGED <<reach, entries, hidden, running, stage, marks, checked, ghosts>>

\* Without a counter there is nothing to bless, which systemd-bless-boot may
\* take for an error.
BlessUncounted ==
    /\ Triggered /\ running \in good
    /\ bless' \in {"good", "failed"}
    /\ UNCHANGED <<reach, entries, hidden, running, stage, marks, checked, ghosts, faults>>

-----------------------------------------------------------------------------
(* The user.                                                                *)

\* Leaving before a healthy image could be blessed costs it a try.
Leave ==
    IF bless = "none" /\ running \notin good /\ reach[running] = "session"
    THEN Fault ELSE UNCHANGED faults

\* The runtime directory of the user goes with the last session.
Logout ==
    /\ stage = "session" /\ stage' = "desktop"
    /\ Leave
    /\ marks' = marks \ {"session"}
    /\ UNCHANGED <<reach, entries, hidden, running, checked, bless, ghosts>>

\* Mutant: the menu is hidden after every clean shutdown.
MayHideAlways == TRUE

\* ExecStopPost of the service: run when it stops, and only if it had success.
MayHide == bless = "good"

\* With another system in the menu it is not hidden.
ShutDown ==
    /\ AtLeast("basic") /\ stage' = "off"
    /\ Leave
    /\ lastGood' = (bless = "good")
    /\ hidden' \in IF MayHide THEN {hidden, TRUE} ELSE {hidden}
    /\ UNCHANGED <<reach, entries, running, marks, checked, bless, earned, sessions>>

\* The power button, when the image gets no further.
Reset ==
    /\ On /\ stage = reach[running] /\ stage # "session"
    /\ stage' = "off"
    /\ UNCHANGED <<reach, entries, hidden, running, marks, checked, bless, ghosts, faults>>

Crash ==
    /\ On /\ stage' = "off"
    /\ Fault
    /\ UNCHANGED <<reach, entries, hidden, running, marks, checked, bless, ghosts>>

\* InstancesMax=4, the new image included.
Room == Cardinality(installed) < InstancesMax

\* Mutant: the transfers do not protect the running version.
RemovableAny == installed

\* ProtectVersion=%A.
Removable == installed \ {running}

\* What may be the newest version on the server.
Newer == {v \in Versions : \A w \in installed : w < v}

\* systemd-sysupdate, from a session: the oldest images make room first, and a
\* crash after that leaves the machine without them and without the new one.
MakeRoom ==
    /\ stage = "session"
    /\ ~Room /\ Newer # {}
    /\ \E v \in Removable :
          /\ \A w \in Removable : v <= w
          /\ installed' = installed \ {v}
          /\ good' = good \ {v}
    /\ UNCHANGED <<reach, left, hidden, boot, ghosts, faults>>

Acquire ==
    /\ stage = "session"
    /\ Room
    /\ \E v \in Newer :
          /\ installed' = installed \cup {v}
          /\ left' = [left EXCEPT ![v] = UpdateTries]
    /\ UNCHANGED <<reach, good, hidden, boot, ghosts, faults>>

-----------------------------------------------------------------------------
Boot == ReachSysinit \/ ReachUserspace \/ BlessSession \/ BlessUserspace \/ UserspaceUnblessed
Blessing == Bless \/ BlessFails \/ BlessUncounted
User == BootChosen \/ Logout \/ ShutDown \/ MakeRoom \/ Acquire

Next == BootDefault \/ Boot \/ Blessing \/ User \/ Reset \/ Crash

Spec == Init /\ [][Next]_vars

(* A machine that is on makes progress, and its user restarts it when it     *)
(* hangs; a machine that is off is turned on, now and then without a choice  *)
(* from the menu.  Nothing is assumed of updates, log-outs and shutdowns.    *)
Fairness ==
    /\ WF_vars(Boot) /\ WF_vars(Blessing) /\ WF_vars(Reset)
    /\ SF_vars(BootDefault)

FairSpec == Spec /\ Fairness

-----------------------------------------------------------------------------
(* Properties.                                                              *)

\* Type invariant; the images stay within the limit of 60-esp.transfer:27.
TypeOK ==
    /\ reach \in [Versions -> Stages]
    /\ installed \in SUBSET Versions /\ installed # {}
    /\ Cardinality(installed) <= InstancesMax
    /\ left \in [Versions -> 0..FirstTries \cup 0..UpdateTries]
    /\ good \subseteq installed
    /\ hidden \in BOOLEAN
    /\ running \in Versions /\ stage \in Stages \cup {"off"}
    /\ marks \subseteq {"userspace", "session"} /\ checked \in BOOLEAN
    /\ bless \in {"none", "good", "failed"}
    /\ earned \subseteq Versions /\ sessions \subseteq Versions
    /\ lastGood \in BOOLEAN
    /\ faults \in 0..MaxFaults

\* An image is marked good only if one of its own boots passed a check: markers
\* of an earlier boot bless nothing (bless-userspace:18, bless-session:10).
GoodIsEarned == good \subseteq earned

\* "If the system either is not blessed or is forcibly shut down for some reason
\* ... the menu is shown" (kde-linux-bootloader-visibility.service:13-14): while
\* the menu is hidden, the last boot that got past local-fs.target was blessed and
\* shut down cleanly.
HiddenAfterGood == hidden => lastGood /\ ~AtLeast("sysinit")

\* However many updates are installed without a restart, and whatever they are
\* worth, an image that has had a session stays on the machine: the limit of four
\* (60-esp.transfer:5,27) never removes the last one that works.
Fallback == sessions # {} => sessions \cap installed # {}

\* With fewer faults than an update has tries, the machine always comes up
\* again, as far as basic.target, with no choice made at the menu: broken
\* updates run out of tries, and an image that had a session is blessed before.
AlwaysComesUp == []<>AtLeast("basic")

\* "Blessing of a boot on KDE Linux is a three step process ... 3) when all
\* requirements are met the boot gets actually blessed" (bless-userspace:6-9),
\* the second being a complete session: a good image has had one, or is at least
\* one whose boots get that far.
GoodMeansSession == \A v \in good : v \in sessions \/ reach[v] = "session"
=============================================================================
