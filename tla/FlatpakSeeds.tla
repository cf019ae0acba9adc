---------------------------- MODULE FlatpakSeeds ----------------------------
(***************************************************************************)
(* Preinstalled Flatpaks.  A new system gets those of its image when /var   *)
(* is set up (tmpfiles.d/var.conf).  Apps that a later image adds are       *)
(* installed by install-new-flatpaks at each boot, once each: what was      *)
(* preinstalled is kept in the list ever-preinstalled-flatpak-apps, so that *)
(* an app the user removes stays away.  The first list is written by        *)
(* seed-preinstalled-flatpak-list.  Every boot may be of another image,     *)
(* older or newer; the user installs and removes apps while the script      *)
(* runs; the machine may stop at any time.                                  *)
(***************************************************************************)
EXTENDS Integers

CONSTANTS
    LastApp,     \* apps and addons are 1..LastApp, in the order of the loop
    FirstAddon,  \* those from here on are addons
    HardCoded,   \* the apps an old system is taken to have had
    Special,     \* those that need a remote of their own
    MaxFaults    \* bound: crashes and failing writes

Apps == 1..LastApp
Addons == {a \in Apps : a >= FirstAddon}

ASSUME AppsAssumption ==
    /\ LastApp \in Nat /\ FirstAddon \in Nat
    /\ HardCoded \subseteq Apps /\ Special \subseteq Apps
    /\ MaxFaults \in Nat

VARIABLES
    factory,    \* what the image of this boot preinstalls
    installed,  \* the user's apps
    listed,     \* does ever-preinstalled-flatpak-apps exist?
    ever,       \* what is in it
    setup,      \* does /etc/plasma-setup-done exist?
    step,       \* what this boot is doing
    todo,       \* the apps the loop has still to look at
    skip,       \* what was installed or listed when the script started
    had,        \* ghost: apps that were on the machine at some time
    given,      \* ghost: how often the system put an app there
    faults      \* ghost: faults so far, for the bound

disk == <<installed, listed, ever, setup>>
loop == <<todo, skip>>
ghosts == <<had, given>>
vars == <<factory, disk, step, loop, ghosts, faults>>

Fault == faults < MaxFaults /\ faults' = faults + 1
Goto(from, to) == step = from /\ step' = to

NewSystem(f) ==
    /\ installed = f /\ setup = FALSE
    /\ given = [a \in Apps |-> IF a \in f THEN 1 ELSE 0]
OldSystem ==
    /\ installed \in SUBSET Apps /\ setup = TRUE
    /\ given = [a \in Apps |-> 0]

Init ==
    /\ factory \in SUBSET Apps
    /\ NewSystem(factory) \/ OldSystem
    /\ listed = FALSE /\ ever = {}
    /\ step = "early"
    /\ todo = {} /\ skip = {}
    /\ had = installed
    /\ faults = 0

-----------------------------------------------------------------------------
(* Seeding, before plasma-setup and before the installation of new apps.    *)

\* The redirection creates the file before anything is written to it.
SeedCreate ==
    /\ ~listed
    /\ Goto("early", "seed")
    /\ listed' = TRUE
    /\ UNCHANGED <<factory, installed, ever, setup, loop, ghosts, faults>>

\* Mutant: every system is taken for a new one.
SeedAppsOfImage ==
    /\ Goto("seed", "seedAddons")
    /\ ever' = factory \ Addons
    /\ UNCHANGED <<factory, installed, listed, setup, loop, ghosts, faults>>

\* The list of November 2025, or what is in the image's app directory.
SeedApps ==
    /\ Goto("seed", "seedAddons")
    /\ ever' = IF setup THEN HardCoded ELSE factory \ Addons
    /\ UNCHANGED <<factory, installed, listed, setup, loop, ghosts, faults>>

\* Mutant: only apps are looked for.
SeedAddonsForgotten ==
    /\ Goto("seedAddons", "setUp")
    /\ UNCHANGED <<factory, disk, loop, ghosts, faults>>

\* Addons are among the runtimes, and appended.
SeedAddons ==
    /\ Goto("seedAddons", "setUp")
    /\ ever' = IF setup THEN ever ELSE ever \cup (factory \cap Addons)
    /\ UNCHANGED <<factory, installed, listed, setup, loop, ghosts, faults>>

AlreadySeeded ==
    /\ listed
    /\ Goto("early", "setUp")
    /\ UNCHANGED <<factory, disk, loop, ghosts, faults>>

\* A failing call ends the script; what is in the file stays, and the boot
\* goes on, since nothing requires the service.
SeedFails ==
    /\ step \in {"early", "seed", "seedAddons"}
    /\ step = "early" => ~listed
    /\ step' = "setUp"
    /\ Fault
    /\ UNCHANGED <<factory, disk, loop, ghosts>>

\* The assistant of the first boot leaves its mark.
PlasmaSetup ==
    /\ Goto("setUp", "up")
    /\ setup' = TRUE
    /\ UNCHANGED <<factory, installed, listed, ever, loop, ghosts, faults>>

-----------------------------------------------------------------------------
(* install-new-flatpaks.                                                    *)

\* Both lists are read once; without the file the script ends here.
Scan ==
    /\ Goto("up", IF listed THEN "loop" ELSE "done")
    /\ todo' = factory
    /\ skip' = installed \cup ever
    /\ UNCHANGED <<factory, disk, ghosts, faults>>

\* What is installed is read in a here-string, so that a failing "flatpak list" is
\* not noticed: nothing seems to be installed.
ScanBlind ==
    /\ Goto("up", IF listed THEN "loop" ELSE "done")
    /\ todo' = factory
    /\ skip' = ever
    /\ UNCHANGED <<factory, disk, ghosts, faults>>

Turn(a) == a \in todo /\ \A b \in todo : a <= b

Skipped(a) ==
    /\ step = "loop" /\ Turn(a) /\ a \in skip
    /\ todo' = todo \ {a}
    /\ UNCHANGED <<factory, disk, step, skip, ghosts, faults>>

\* Adding the special remote of an app is not guarded: the script ends there.
RemoteFails(a) ==
    /\ step = "loop" /\ Turn(a) /\ a \notin skip /\ a \in Special
    /\ step' = "done"
    /\ UNCHANGED <<factory, disk, loop, ghosts, faults>>

\* Installing what the user has installed meanwhile succeeds as well.
Install(a) ==
    /\ step = "loop" /\ Turn(a) /\ a \notin skip
    /\ step' = "record"
    /\ installed' = installed \cup {a}
    /\ had' = had \cup {a}
    /\ given' = IF a \in installed \/ given[a] > MaxFaults + 1 THEN given
                ELSE [given EXCEPT ![a] = @ + 1]
    /\ UNCHANGED <<factory, listed, ever, setup, loop, faults>>

\* Mutant: the app is recorded whether or not it could be installed.
InstallFailsRecorded(a) ==
    /\ step = "loop" /\ Turn(a) /\ a \notin skip
    /\ step' = "record"
    /\ UNCHANGED <<factory, disk, loop, ghosts, faults>>

\* The left side of && may fail: the loop goes on.
InstallFails(a) ==
    /\ step = "loop" /\ Turn(a) /\ a \notin skip
    /\ todo' = todo \ {a}
    /\ UNCHANGED <<factory, disk, step, skip, ghosts, faults>>

Record(a) ==
    /\ Turn(a)
    /\ Goto("record", "loop")
    /\ ever' = ever \cup {a}
    /\ todo' = todo \ {a}
    /\ UNCHANGED <<factory, installed, listed, setup, skip, ghosts, faults>>

RecordFails ==
    /\ Goto("record", "done")
    /\ Fault
    /\ UNCHANGED <<factory, disk, loop, ghosts>>

LoopEnds ==
    /\ todo = {}
    /\ Goto("loop", "done")
    /\ UNCHANGED <<factory, disk, loop, ghosts, faults>>

-----------------------------------------------------------------------------
(* The user, once the first boot is set up.                                 *)

UserSpace == step \in {"up", "loop", "record", "done"}

UserInstalls(a) ==
    /\ UserSpace /\ a \notin installed
    /\ installed' = installed \cup {a}
    /\ had' = had \cup {a}
    /\ UNCHANGED <<factory, listed, ever, setup, step, loop, given, faults>>

UserRemoves(a) ==
    /\ UserSpace /\ a \in installed
    /\ installed' = installed \ {a}
    /\ UNCHANGED <<factory, listed, ever, setup, step, loop, ghosts, faults>>

\* The next boot, of any image; what the script had in mind is gone.
PowerOn ==
    /\ step' = "early"
    /\ factory' \in SUBSET Apps
    /\ todo' = {} /\ skip' = {}
    /\ UNCHANGED <<disk, ghosts>>
\* Before the first boot is over there is only the image that was installed.
SameImage == setup \/ factory' = factory
Restart == step = "done" /\ PowerOn /\ SameImage /\ UNCHANGED faults
Crash == step # "early" /\ PowerOn /\ SameImage /\ Fault

-----------------------------------------------------------------------------
Seed == SeedCreate \/ SeedApps \/ SeedAddons \/ AlreadySeeded \/ PlasmaSetup
Try == \E a \in Apps : Skipped(a) \/ Install(a) \/ InstallFails(a) \/ Record(a)
Script == Scan \/ ScanBlind \/ Try \/ LoopEnds \/ \E a \in Apps : RemoteFails(a)
User == \E a \in Apps : UserInstalls(a) \/ UserRemoves(a)
Faulty == SeedFails \/ RecordFails \/ Crash

Next == Seed \/ Script \/ User \/ Restart \/ Faulty

Spec == Init /\ [][Next]_vars

(* Each boot runs its services, and is followed by another one; the network *)
(* does not fail the same app each time.  Nothing is assumed of the remotes *)
(* of special apps, which may be gone for good.                             *)
Fairness ==
    /\ WF_vars(Seed) /\ WF_vars(Script) /\ WF_vars(Restart)
    /\ \A a \in Apps \ Special : SF_vars(Install(a))

FairSpec == Spec /\ Fairness

-----------------------------------------------------------------------------
(* Properties.                                                              *)

\* Type invariant; the loop runs with a list only, and what it has before it is
\* of this image.
TypeOK ==
    /\ factory \in SUBSET Apps /\ installed \in SUBSET Apps
    /\ listed \in BOOLEAN /\ ever \in SUBSET Apps /\ setup \in BOOLEAN
    /\ step \in {"early", "seed", "seedAddons", "setUp", "up", "loop", "record", "done"}
    /\ todo \subseteq factory /\ skip \in SUBSET Apps
    /\ step \in {"loop", "record"} => listed
    /\ had \in SUBSET Apps /\ given \in [Apps -> Nat]
    /\ faults \in 0..MaxFaults

\* "So that we know not to reverse a future uninstall by the user"
\* (install-new-flatpaks:55-56): the system gives an app to the user once, and
\* once more for each fault at most, whatever the user removes and whichever
\* images are booted in between.
GivenOnce == \A a \in Apps : given[a] <= 1 + faults

\* An app is on the list only if it was on the machine: one that could not be
\* installed is tried again (install-new-flatpaks:55-58).  The hard-coded list of
\* old systems is the exception (seed-preinstalled-flatpak-list:10-15).
ListedWasThere == ever \subseteq had \cup HardCoded

\* The boot is over, and app b was the next one to look at.
EndedAt(b) == step = "done" /\ Turn(b)

\* An app that stays in the images gets to every user, however often the network
\* or the machine failed before, unless from some time on each boot ends at a
\* special app earlier in the loop, whose remote cannot be added
\* (install-new-flatpaks:49).  Apps of the hard-coded list, and the special ones
\* themselves, need not get there.
EventuallyGiven ==
    \A a \in Apps \ (HardCoded \cup Special) :
        <>[](a \in factory) =>
            \/ <>(a \in had)
            \/ <>[](step = "done" => \E b \in Special : b < a /\ EndedAt(b))

\* "Skip it if it was ever preinstalled. (If so, then the user must have chosen to
\* uninstall it, so we don't want to reinstall it.)" (install-new-flatpaks:31-32): what
\* the user has removed before the script begins is skipped.  It does not hold: an app
\* that was there already when an image began to preinstall it is skipped at line 26
\* without being recorded, until it is removed.
RemovedStaysAway ==
    [][step = "up" /\ step' = "loop" => (had \ installed) \cap factory \subseteq skip']_vars
=============================================================================
