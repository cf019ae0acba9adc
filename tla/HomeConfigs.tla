----------------------------- MODULE HomeConfigs -----------------------------
(***************************************************************************)
(* The snapper config of each user's home.  At each login of a uid          *)
(* snapper-home-config creates the config home_<uid> unless there is one.   *)
(* snapper-home-gc runs when passwd is written and with the cleanup timer:  *)
(* a config whose uid has no account is deleted, and its home subvolume     *)
(* with it.  Both look at passwd, at /etc/snapper/configs and at the homes, *)
(* and act later on what they saw; the administrator adds, deletes and      *)
(* renumbers accounts meanwhile, and a shutdown may stop either anywhere.   *)
(***************************************************************************)
EXTENDS Integers

CONSTANTS
    Names,      \* account names; the home of n is /home/n
    Uids,       \* uids in the range of both scripts
    Nobody,     \* no account, no name
    MaxFaults   \* bound: failing calls and kills

ASSUME NamesAssumption == Nobody \notin Names \cup Uids
ASSUME BoundsAssumption == MaxFaults \in Nat

VARIABLES
    uid,        \* passwd: the uid of each account
    homes,      \* the homes that are subvolumes; to both scripts, others are gone
    conf,       \* /etc/snapper/configs/home_<uid>: its home and ALLOW_USERS
    listed,     \* SNAPPER_CONFIGS
    login,      \* snapper-home-config of each uid: its step, what it has read
    gc,         \* snapper-home-gc: its step and local variables
    torn,       \* ghost: names left without a file when a script is cut off
    faults      \* ghost: faults so far, for the bound

vars == <<uid, homes, conf, listed, login, gc, torn, faults>>
system == <<uid, homes, conf, listed>>

NoConf == [home |-> Nobody, allow |-> Nobody]
Idle == [step |-> "idle", name |-> Nobody]
NotRunning ==
    [step |-> "idle", todo |-> {}, uid |-> Nobody, home |-> Nobody, local |-> TRUE, names |-> {}]
Configs == {u \in Uids : conf[u] # NoConf}
Exists(u) == \E n \in Names : uid[n] = u
Fault == faults < MaxFaults /\ faults' = faults + 1

Init ==
    /\ uid = [n \in Names |-> Nobody]
    /\ homes = {}
    /\ conf = [u \in Uids |-> NoConf]
    /\ listed = {}
    /\ login = [u \in Uids |-> Idle]
    /\ gc = NotRunning
    /\ torn = {}
    /\ faults = 0

-----------------------------------------------------------------------------
(* snapper-home-config, one instance per uid.                               *)

LoginAt(u, from, to) == login[u].step = from /\ login' = [login EXCEPT ![u].step = to]
LoginEnds(u) == login' = [login EXCEPT ![u] = Idle]

\* The reads come in a row: getpwuid, the config, the home.  Without a reason
\* to create a config, nothing changes.
ReadUser(u) ==
    /\ login[u].step = "idle" /\ conf[u] = NoConf
    /\ \E n \in homes :
          /\ uid[n] = u
          /\ login' = [login EXCEPT ![u] = [step |-> "create", name |-> n]]
    /\ UNCHANGED <<system, gc, torn, faults>>

\* snapper puts .snapshots into the home, and fails if it is there.
Creatable(n) == n \in homes /\ \A u \in Uids : conf[u].home # n

\* create-config puts the name into SNAPPER_CONFIGS and then writes the file; that
\* it reads and writes SNAPPER_CONFIGS in one step is assumed of snapper.
CreateName(u) ==
    /\ LoginAt(u, "create", "file")
    /\ u \notin listed /\ Creatable(login[u].name)
    /\ listed' = listed \cup {u}
    /\ UNCHANGED <<uid, homes, conf, gc, torn, faults>>

CreateFile(u) ==
    LET n == login[u].name IN
    /\ LoginAt(u, "file", "allow")
    /\ Creatable(n)
    /\ conf' = [conf EXCEPT ![u] = [home |-> n, allow |-> Nobody]]
    /\ UNCHANGED <<uid, homes, listed, gc, torn, faults>>

\* It fails with a name that is there, and takes the name back without the home.
CannotCreate(u) ==
    /\ \/ /\ login[u].step = "create"
          /\ u \in listed \/ ~Creatable(login[u].name)
          /\ UNCHANGED listed
       \/ /\ login[u].step = "file"
          /\ ~Creatable(login[u].name)
          /\ listed' = listed \ {u}
    /\ LoginEnds(u)
    /\ UNCHANGED <<uid, homes, conf, gc, torn, faults>>

SetAllowUsers(u) ==
    /\ login[u].step = "allow"
    /\ LoginEnds(u)
    /\ conf' = IF conf[u] = NoConf THEN conf ELSE [conf EXCEPT ![u].allow = login[u].name]
    /\ UNCHANGED <<uid, homes, listed, gc, torn, faults>>

\* snapper fails, or a shutdown ends the script, anywhere in create-config too.
LoginDies(u) ==
    /\ login[u].step # "idle"
    /\ LoginEnds(u)
    /\ torn' = IF login[u].step = "file" THEN torn \cup {u} ELSE torn
    /\ Fault
    /\ UNCHANGED <<system, gc>>

-----------------------------------------------------------------------------
(* snapper-home-gc, one instance.                                           *)

GcAt(from, to) == gc.step = from /\ gc' = [gc EXCEPT !.step = to]
\* The next round of the loop.
GcNext(from) ==
    /\ gc.step = from
    /\ gc' = [gc EXCEPT !.step = "next", !.uid = Nobody, !.home = Nobody, !.names = {}]

\* What the loop goes through is listed once.
Glob(local) ==
    /\ gc.step = "idle"
    /\ gc' = [gc EXCEPT !.step = "next", !.todo = Configs, !.local = local]
    /\ UNCHANGED <<system, login, torn>>
GcStart == Glob(TRUE) /\ UNCHANGED faults
\* nsswitch.conf that cannot be read counts as remote.
GcStartBlind == Glob(FALSE) /\ Fault

GcRead(u) ==
    /\ gc.step = "next" /\ u \in gc.todo
    /\ gc' = [gc EXCEPT !.todo = @ \ {u}, !.uid = u, !.home = conf[u].home, !.step = "look"]
    /\ UNCHANGED <<system, login, torn, faults>>

\* Mutant: the user is looked up by the name in ALLOW_USERS.
ResolvesName ==
    conf[gc.uid].allow # Nobody /\ uid[conf[gc.uid].allow] # Nobody

Resolves == Exists(gc.uid)

\* is_subvolume first, and after it what passwd says.
GcHomeGone ==
    /\ GcAt("look", "prune")
    /\ gc.home \notin homes
    /\ UNCHANGED <<system, login, torn, faults>>

GcInUse ==
    /\ GcNext("look")
    /\ gc.home \in homes /\ (~gc.local \/ Resolves)
    /\ UNCHANGED <<system, login, torn, faults>>

GcOrphan ==
    /\ GcAt("look", "clear")
    /\ gc.home \in homes /\ gc.local /\ ~Resolves
    /\ UNCHANGED <<system, login, torn, faults>>

\* The home is gone: bookkeeping without snapper, the name before the file.
GcReadNames ==
    /\ gc.step = "prune"
    /\ gc' = [gc EXCEPT !.step = "write", !.names = listed]
    /\ UNCHANGED <<system, login, torn, faults>>

\* Mutant: the file goes before its name.
GcUnlinkFirst ==
    /\ GcAt("write", "unlink")
    /\ conf' = [conf EXCEPT ![gc.uid] = NoConf]
    /\ UNCHANGED <<uid, homes, listed, login, torn, faults>>

\* What was read, less the name, replaces what is there by now; a list without the
\* name is not written.
GcPrune ==
    /\ GcAt("write", "unlink")
    /\ listed' = IF gc.uid \in gc.names THEN gc.names \ {gc.uid} ELSE listed
    /\ torn' = torn \cup (listed' \ listed)
    /\ UNCHANGED <<uid, homes, conf, login, faults>>

GcUnlink ==
    /\ GcNext("unlink")
    /\ conf' = [conf EXCEPT ![gc.uid] = NoConf]
    /\ UNCHANGED <<uid, homes, listed, login, torn, faults>>

\* Mutant: ALLOW_USERS stays.
GcClearNothing ==
    /\ GcAt("clear", "delConf")
    /\ UNCHANGED <<system, login, torn, faults>>

GcClear ==
    /\ GcAt("clear", "delConf")
    /\ conf' = [conf EXCEPT ![gc.uid].allow = Nobody]
    /\ UNCHANGED <<uid, homes, listed, login, torn, faults>>

\* "snapper ... refuses to do anything with one naming a user that is gone".
Loadable(u) ==
    /\ conf[u] # NoConf /\ conf[u].home \in homes
    /\ conf[u].allow # Nobody => uid[conf[u].allow] # Nobody

\* delete-config: the snapshots and the file, then the name.
GcDeleteConfig ==
    /\ GcAt("delConf", "delName")
    /\ Loadable(gc.uid)
    /\ conf' = [conf EXCEPT ![gc.uid] = NoConf]
    /\ UNCHANGED <<uid, homes, listed, login, torn, faults>>

GcDeleteName ==
    /\ GcAt("delName", "delHome")
    /\ listed' = listed \ {gc.uid}
    /\ UNCHANGED <<uid, homes, conf, login, torn, faults>>

\* "Failed to delete snapper config, leaving it behind."
GcLeaveConfig ==
    /\ GcNext("delConf")
    /\ IF Loadable(gc.uid) THEN Fault ELSE UNCHANGED faults
    /\ UNCHANGED <<system, login, torn>>

\* The path read before; btrfs refuses while a snapper config has .snapshots there.
Deletable == gc.home \in homes /\ \A u \in Uids : conf[u].home # gc.home

GcDeleteHome ==
    /\ GcNext("delHome")
    /\ Deletable
    /\ homes' = homes \ {gc.home}
    /\ UNCHANGED <<uid, conf, listed, login, torn, faults>>

GcLeaveHome ==
    /\ GcNext("delHome")
    /\ IF Deletable THEN Fault ELSE UNCHANGED faults
    /\ UNCHANGED <<system, login, torn>>

GcEnds ==
    /\ gc.step = "next" /\ gc.todo = {}
    /\ gc' = NotRunning
    /\ UNCHANGED <<system, login, torn, faults>>

\* Conflicts=shutdown.target: the service is stopped wherever it is.
GcKilled ==
    /\ gc.step # "idle"
    /\ gc' = NotRunning
    /\ torn' = IF gc.step = "delName" THEN torn \cup {gc.uid} ELSE torn
    /\ Fault
    /\ UNCHANGED <<system, login>>

-----------------------------------------------------------------------------
(* The administrator.                                                       *)

\* A home that is there is taken over.
AddUser(n, u) ==
    /\ uid[n] = Nobody /\ ~Exists(u)
    /\ uid' = [uid EXCEPT ![n] = u]
    /\ homes' \in {homes, homes \cup {n}}
    /\ UNCHANGED <<conf, listed, login, gc, torn, faults>>

\* With or without the home; userdel cannot remove one that has snapshots.
DeleteUser(n) ==
    /\ uid[n] # Nobody
    /\ uid' = [uid EXCEPT ![n] = Nobody]
    /\ homes' \in {homes, homes \ {n}}
    /\ homes' # homes => \A u \in Uids : conf[u].home # n
    /\ UNCHANGED <<conf, listed, login, gc, torn, faults>>

\* btrfs subvolume delete by hand, snapshots first.
RemoveHome(n) ==
    /\ uid[n] = Nobody /\ n \in homes
    /\ homes' = homes \ {n}
    /\ UNCHANGED <<uid, conf, listed, login, gc, torn, faults>>

\* usermod -u, while the user is logged out.
Renumber(n, u) ==
    /\ uid[n] # Nobody /\ ~Exists(u)
    /\ uid' = [uid EXCEPT ![n] = u]
    /\ UNCHANGED <<homes, conf, listed, login, gc, torn, faults>>

-----------------------------------------------------------------------------
Login(u) ==
    ReadUser(u) \/ CreateName(u) \/ CreateFile(u) \/ CannotCreate(u) \/ SetAllowUsers(u)
Gc ==
    \/ GcStart \/ (\E u \in Uids : GcRead(u)) \/ GcEnds
    \/ GcHomeGone \/ GcInUse \/ GcOrphan \/ GcReadNames \/ GcPrune \/ GcUnlink
    \/ GcClear \/ GcDeleteConfig \/ GcLeaveConfig \/ GcDeleteName
    \/ GcDeleteHome \/ GcLeaveHome
Admin ==
    \E n \in Names : DeleteUser(n) \/ RemoveHome(n) \/ \E u \in Uids : AddUser(n, u) \/ Renumber(n, u)
Faulty == GcStartBlind \/ GcKilled \/ \E u \in Uids : LoginDies(u)

Next == (\E u \in Uids : Login(u)) \/ Gc \/ Admin \/ Faulty

Spec == Init /\ [][Next]_vars

(* Services that have started run on; the cleanup timer starts the collector *)
(* again and again.  Nobody has to log in, and nothing is assumed of the     *)
(* administrator.                                                           *)
Fairness ==
    WF_vars(Gc) /\ \A u \in Uids : WF_vars(login[u].step # "idle" /\ Login(u))

FairSpec == Spec /\ Fairness

-----------------------------------------------------------------------------
(* Properties.                                                              *)

\* Type invariant; a config has a home, and no two configs have the same one.
TypeOK ==
    /\ uid \in [Names -> Uids \cup {Nobody}]
    /\ homes \in SUBSET Names
    /\ conf \in [Uids -> [home : Names, allow : Names \cup {Nobody}] \cup {NoConf}]
    /\ \A u \in Configs, w \in Configs : conf[u].home = conf[w].home => u = w
    /\ listed \in SUBSET Uids
    /\ login \in [Uids -> [step : {"create", "file", "allow"}, name : Names] \cup {Idle}]
    /\ gc.step \in {"idle", "next", "look", "prune", "write", "unlink", "clear", "delConf",
                   "delName", "delHome"}
    /\ gc.todo \in SUBSET Uids /\ gc.local \in BOOLEAN /\ gc.names \in SUBSET Uids
    /\ gc.step \notin {"idle", "next"} => gc.uid \in Uids /\ gc.home \in Names
    /\ torn \in SUBSET Uids
    /\ faults \in 0..MaxFaults

Destroys(n) == gc.step = "delHome" /\ n \in homes \ homes' /\ uid'[n] = uid[n]

\* snapperd loads each config SNAPPER_CONFIGS names.  A name is without its file only
\* while create-config or delete-config has done one half of its work, or because one
\* was cut off there, or wrote while the collector rewrote the list: never because the
\* collector was stopped in its own bookkeeping (snapper-home-gc:145-146), nor because
\* another config was created or removed meanwhile.
ListedHasFile ==
    \A u \in listed \ Configs :
        u \in torn \/ login[u].step = "file" \/ (gc.step = "delName" /\ gc.uid = u)

\* Once the administrator is done, every config left has its user, although
\* snapper refuses one that names a user who is gone (snapper-home-gc:153-156), and
\* although a login may still have been writing it.
EventuallyCollected ==
    <>[][~Admin]_vars => <>[](\A u \in Configs : Exists(u))

\* "Deletes home configs that have no user left, along with their snapshots and
\* the home subvolume" (snapper-home-gc:5-6): a home whose user is there stays.
\* It does not hold: the account may come to the home or to the uid after line 149.
LiveHomesAreSpared == [][\A n \in Names : Destroys(n) => uid[n] = Nobody]_vars

\* Every config is in SNAPPER_CONFIGS, or a login or the collector is still at it.  It
\* does not hold: a name that a login adds between the collector's reading and its
\* writing of the list (snapper-home-gc:82, 95) is lost.
FilesAreListed ==
    \A u \in Configs \ listed : gc.uid = u /\ gc.step \in {"unlink", "delConf"}
=============================================================================
