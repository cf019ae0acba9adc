-------------------------- MODULE HomeConfigsProofs --------------------------
(***************************************************************************)
(* What holds of HomeConfigs for any accounts, uids and faults: the types,  *)
(* and that SNAPPER_CONFIGS names no config without a file, but for those   *)
(* snapper is at work on or was cut off at.                                 *)
(***************************************************************************)
EXTENDS HomeConfigs, TLAPS

USE NamesAssumption, BoundsAssumption

GcSteps == {"idle", "next", "look", "prune", "write", "unlink", "clear", "delConf", "delName",
            "delHome"}
GcStates ==
    [step : GcSteps, todo : SUBSET Uids, uid : Uids \cup {Nobody},
     home : Names \cup {Nobody}, local : BOOLEAN, names : SUBSET Uids]
RealConf == [home : Names, allow : Names \cup {Nobody}]
Logins == [step : {"create", "file", "allow"}, name : Names]

\* What a script has seen of a config still holds when it acts: only the login
\* of a uid creates its config, only the collector removes one.
Seen ==
    /\ \A u \in Uids : login[u].step \in {"create", "file"} => conf[u] = NoConf
    /\ gc.todo \subseteq Configs
    /\ gc.step \in {"idle", "next"} => gc.uid = Nobody
    /\ gc.step \notin {"idle", "next", "delName", "delHome"} => gc.uid \in Configs
    /\ gc.uid \notin gc.todo
    /\ gc.step = "write" /\ gc.uid \notin gc.names => gc.uid \notin listed
    /\ gc.step = "unlink" => gc.uid \notin listed
    /\ ListedHasFile

ConfInv == TypeOK /\ gc \in GcStates /\ Seen

-----------------------------------------------------------------------------
(* Configs.                                                                 *)

LEMMA ConfTypes ==
    ASSUME TypeOK, NEW u \in Uids
    PROVE  /\ u \in Configs => conf[u] \in RealConf
           /\ u \notin Configs => conf[u] = NoConf
  BY DEF TypeOK, Configs, RealConf

LEMMA RealIsSome ==
    ASSUME NEW c \in RealConf
    PROVE  c # NoConf
  BY DEF RealConf, NoConf

LEMMA InitConf == Init => ConfInv
<1> SUFFICES ASSUME Init PROVE ConfInv
  OBVIOUS
<1>1. Configs = {}
  BY DEF Init, Configs
<1>2. TypeOK
  BY <1>1 DEF Init, TypeOK, NotRunning, Idle
<1>3. gc \in GcStates
  BY DEF Init, NotRunning, GcStates, GcSteps
<1>4. Seen
  BY <1>1 DEF Init, Seen, NotRunning, Idle, ListedHasFile
<1> QED
  BY <1>2, <1>3, <1>4 DEF ConfInv

\* A login reads, and then acts on a config that it alone can create.
LEMMA LoginKeeps ==
    ASSUME ConfInv, NEW u \in Uids, Login(u) \/ LoginDies(u)
    PROVE  ConfInv'
<1> USE DEF ConfInv
<1>1. login[u] \in Logins \cup {Idle}
  BY DEF TypeOK, Logins
<1>2. CASE ReadUser(u)
  <2>1. login' \in [Uids -> Logins \cup {Idle}]
    BY <1>2 DEF ReadUser, TypeOK, Logins
  <2>2. \A w \in Uids : login'[w].step \in {"create", "file"} => conf[w] = NoConf
    BY <1>2 DEF ReadUser, Seen, TypeOK
  <2> QED
    BY <1>2, <2>1, <2>2 DEF ReadUser, TypeOK, Seen, system, Logins, Configs, ListedHasFile
<1>3. CASE CreateFile(u)
  <2> DEFINE c == [home |-> login[u].name, allow |-> Nobody]
  <2>1. login[u].step = "file" /\ login[u].name \in Names /\ c \in RealConf /\ conf[u] = NoConf
    BY <1>1, <1>3 DEF CreateFile, LoginAt, Idle, Logins, RealConf, Seen
  <2>2. conf' = [conf EXCEPT ![u] = c]
    BY <1>3 DEF CreateFile
  <2>3. UNCHANGED <<uid, homes, listed, gc, torn, faults>>
    BY <1>3 DEF CreateFile
  <2>4. login' = [login EXCEPT ![u].step = "allow"]
    BY <1>3 DEF CreateFile, LoginAt
  <2>5. login' \in [Uids -> Logins \cup {Idle}]
    BY <1>1, <2>1, <2>4 DEF TypeOK, Logins, Idle
  <2>6. Configs' = Configs \cup {u}
    BY <2>1, <2>2, RealIsSome DEF Configs, TypeOK
  <2>7. \A w \in Configs : conf[w].home # login[u].name
    BY <1>3 DEF CreateFile, Creatable, Configs
  <2>8. \A v \in Configs', w \in Configs' : conf'[v].home = conf'[w].home => v = w
    BY <2>1, <2>2, <2>6, <2>7 DEF TypeOK, Configs
  <2>9. conf' \in [Uids -> RealConf \cup {NoConf}]
    BY <2>1, <2>2 DEF TypeOK, RealConf
  <2>10. TypeOK'
    BY <2>2, <2>3, <2>5, <2>8, <2>9 DEF TypeOK, Logins, RealConf
  <2>11. \A w \in Uids : login'[w].step \in {"create", "file"} => conf'[w] = NoConf
    BY <2>1, <2>2, <2>4 DEF Seen, TypeOK
  <2>12. ListedHasFile'
    BY <2>1, <2>3, <2>4, <2>6 DEF Seen, ListedHasFile, TypeOK
  <2> QED
    BY <2>3, <2>6, <2>10, <2>11, <2>12 DEF Seen
<1>4. CASE SetAllowUsers(u)
  <2>1. login[u].step = "allow" /\ login[u].name \in Names
    BY <1>1, <1>4 DEF SetAllowUsers, Idle, Logins
  <2>2. login' = [login EXCEPT ![u] = Idle]
    BY <1>4 DEF SetAllowUsers, LoginEnds
  <2>3. UNCHANGED <<uid, homes, listed, gc, torn, faults>>
    BY <1>4 DEF SetAllowUsers
  <2>4. /\ conf' \in [Uids -> RealConf \cup {NoConf}]
        /\ \A w \in Uids : (conf'[w] = NoConf) <=> (conf[w] = NoConf)
        /\ \A w \in Uids : conf'[w].home = conf[w].home
    <3>1. CASE conf[u] = NoConf
      BY <1>4, <3>1 DEF SetAllowUsers, TypeOK, RealConf
    <3>2. CASE conf[u] # NoConf
      <4>1. conf[u] \in RealConf
        BY <3>2 DEF TypeOK, RealConf
      <4>2. conf' = [conf EXCEPT ![u].allow = login[u].name]
        BY <1>4, <3>2 DEF SetAllowUsers
      <4>3. conf'[u] \in RealConf /\ conf'[u].home = conf[u].home
        BY <2>1, <4>1, <4>2 DEF TypeOK, RealConf
      <4> QED
        BY <3>2, <4>2, <4>3, RealIsSome DEF TypeOK, RealConf
    <3> QED
      BY <3>1, <3>2
  <2>5. Configs' = Configs
    BY <2>4 DEF Configs
  <2>6. TypeOK'
    BY <2>2, <2>3, <2>4, <2>5 DEF TypeOK, RealConf, Configs
  <2>7. \A w \in Uids : login'[w].step \in {"create", "file"} => conf'[w] = NoConf
    BY <2>2, <2>4 DEF Seen, TypeOK, Idle
  <2>8. ListedHasFile'
    BY <2>1, <2>2, <2>3, <2>5 DEF Seen, ListedHasFile, TypeOK
  <2> QED
    BY <2>3, <2>5, <2>6, <2>7, <2>8 DEF Seen
<1>5. CASE CannotCreate(u) \/ LoginDies(u)
  <2>1. /\ login' = [login EXCEPT ![u] = Idle] /\ UNCHANGED <<uid, homes, conf, gc>>
        /\ listed' \subseteq listed /\ torn \subseteq torn' /\ torn' \subseteq torn \cup {u}
    BY <1>5 DEF CannotCreate, LoginDies, LoginEnds, system
  <2>2. login[u].step = "file" => u \notin listed' \/ u \in torn'
    BY <1>5 DEF CannotCreate, LoginDies
  <2>3. faults' \in 0..MaxFaults
    BY <1>5 DEF CannotCreate, LoginDies, Fault, TypeOK
  <2>4. Configs' = Configs
    BY <2>1 DEF Configs
  <2>5. TypeOK'
    BY <2>1, <2>3, <2>4 DEF TypeOK, Configs
  <2>6. ListedHasFile'
    <3>1. \A w \in Uids \ {u} : login'[w] = login[w]
      BY <2>1 DEF TypeOK
    <3> QED
      BY <2>1, <2>2, <2>4, <3>1 DEF Seen, ListedHasFile, TypeOK
  <2>7. \A w \in Uids : login'[w].step \in {"create", "file"} => conf'[w] = NoConf
    BY <2>1 DEF Seen, TypeOK, Idle
  <2> QED
    BY <2>1, <2>4, <2>5, <2>6, <2>7 DEF Seen
<1>6. CASE CreateName(u)
  <2>1. /\ login[u].step = "create" /\ login[u].name \in Names
        /\ conf[u] = NoConf /\ u \notin Configs
    BY <1>1, <1>6 DEF CreateName, LoginAt, Idle, Logins, Seen, Configs
  <2>2. listed' = listed \cup {u} /\ UNCHANGED <<uid, homes, conf, gc, torn, faults>>
    BY <1>6 DEF CreateName
  <2>3. login' = [login EXCEPT ![u].step = "file"]
    BY <1>6 DEF CreateName, LoginAt
  <2>4. login' \in [Uids -> Logins \cup {Idle}]
    BY <1>1, <2>1, <2>3 DEF TypeOK, Logins, Idle
  <2>5. Configs' = Configs
    BY <2>2 DEF Configs
  <2>6. TypeOK'
    BY <2>2, <2>4, <2>5 DEF TypeOK, Logins, Configs
  <2>7. \A w \in Uids : login'[w].step \in {"create", "file"} => conf'[w] = NoConf
    BY <2>1, <2>2, <2>3 DEF Seen, TypeOK
  <2>8. gc.step \in {"write", "unlink"} => gc.uid # u
    BY <2>1 DEF Seen
  <2>9. ListedHasFile'
    <3>1. login'[u].step = "file" /\ \A w \in Uids \ {u} : login'[w] = login[w]
      BY <1>1, <2>1, <2>3 DEF TypeOK, Logins
    <3> QED
      BY <2>2, <2>5, <3>1 DEF Seen, ListedHasFile, TypeOK
  <2> QED
    BY <2>2, <2>5, <2>6, <2>7, <2>8, <2>9 DEF Seen
<1> QED
  BY <1>2, <1>3, <1>4, <1>5, <1>6 DEF Login

LEMMA FaultsBounded ==
    ASSUME TypeOK, Fault \/ UNCHANGED faults
    PROVE  faults' \in 0..MaxFaults
<1>1. faults \in 0..MaxFaults
  BY DEF TypeOK
<1> QED
  BY <1>1 DEF Fault

\* The round of the loop ends: nothing of it is left in the collector.
LEMMA NextRound ==
    ASSUME ConfInv, NEW s \in GcSteps \ {"idle", "next"}, GcNext(s),
           s # "delName", UNCHANGED <<uid, conf, listed, login, torn>>, homes' \subseteq homes, faults' \in 0..MaxFaults
    PROVE  ConfInv'
<1> USE DEF ConfInv
<1>1. /\ gc.step # "delName"
      /\ gc' \in GcStates /\ gc'.step = "next" /\ gc'.uid = Nobody /\ gc'.todo = gc.todo
  BY DEF GcNext, GcStates, GcSteps
<1>2. Configs' = Configs
  BY DEF Configs
<1>3. TypeOK'
  BY <1>1, <1>2 DEF TypeOK, GcStates
<1>4. Seen'
  BY <1>1, <1>2 DEF Seen, ListedHasFile, Configs
<1> QED
  BY <1>1, <1>3, <1>4

\* A config is removed, and with it its name or after it.
LEMMA Removal ==
    ASSUME ConfInv, gc.uid \in Uids, conf' = [conf EXCEPT ![gc.uid] = NoConf]
    PROVE  /\ Configs' = Configs \ {gc.uid}
           /\ conf' \in [Uids -> RealConf \cup {NoConf}]
           /\ \A v \in Configs', w \in Configs' : conf'[v].home = conf'[w].home => v = w
<1>1. conf \in [Uids -> RealConf \cup {NoConf}]
  BY DEF ConfInv, TypeOK, RealConf
<1>2. Configs' = Configs \ {gc.uid}
  BY <1>1 DEF Configs
<1>3. \A w \in Configs' : conf'[w] = conf[w]
  BY <1>1, <1>2 DEF Configs
<1> QED
  BY <1>1, <1>2, <1>3 DEF ConfInv, TypeOK

LEMMA GcKeeps ==
    ASSUME ConfInv, Gc \/ GcStartBlind \/ GcKilled
    PROVE  ConfInv'
<1> USE DEF ConfInv
<1>1. CASE GcStart \/ GcStartBlind
  <2>1. PICK l \in BOOLEAN : Glob(l)
    BY <1>1 DEF GcStart, GcStartBlind
  <2>2. /\ gc' \in GcStates /\ gc'.step = "next" /\ gc'.uid = Nobody /\ gc'.todo = Configs
        /\ UNCHANGED <<system, login, torn>>
    BY <2>1 DEF Glob, GcStates, GcSteps, Seen, Configs
  <2>3. faults' \in 0..MaxFaults
    BY <1>1, FaultsBounded DEF GcStart, GcStartBlind
  <2>4. Configs' = Configs /\ Nobody \notin Configs
    BY <2>2 DEF system, Configs
  <2>5. TypeOK'
    BY <2>2, <2>3, <2>4 DEF TypeOK, system, GcStates
  <2>6. ListedHasFile'
    BY <2>1, <2>2, <2>4 DEF Seen, system, ListedHasFile, Glob
  <2> QED
    BY <2>2, <2>4, <2>5, <2>6 DEF Seen, system
<1>2. ASSUME NEW u \in Uids, GcRead(u) PROVE ConfInv'
  <2>0. gc.step = "next"
    BY <1>2 DEF GcRead
  <2>1. u \in Configs /\ conf[u] \in RealConf
    BY <1>2, ConfTypes DEF GcRead, Seen
  <2>2. /\ gc' \in GcStates /\ gc'.step = "look" /\ gc'.uid = u /\ gc'.home \in Names
        /\ gc'.todo = gc.todo \ {u}
    BY <1>2, <2>1 DEF GcRead, GcStates, GcSteps, RealConf
  <2>3. UNCHANGED <<system, login, torn, faults>> /\ Configs' = Configs
    BY <1>2 DEF GcRead, system, Configs
  <2>4. TypeOK'
    BY <2>2, <2>3 DEF TypeOK, system, GcStates
  <2>5. ListedHasFile'
    BY <2>0, <2>3 DEF Seen, system, ListedHasFile
  <2> QED
    BY <2>1, <2>2, <2>3, <2>4, <2>5 DEF Seen, system
<1>3. CASE GcEnds \/ GcKilled
  <2>1. /\ gc' = NotRunning /\ UNCHANGED <<system, login>> /\ torn \subseteq torn'
        /\ gc.step = "delName" => gc.uid \in torn'
        /\ torn' \subseteq Uids
    BY <1>3 DEF GcEnds, GcKilled, TypeOK
  <2>2. faults' \in 0..MaxFaults
    BY <1>3 DEF GcEnds, GcKilled, Fault, TypeOK
  <2>3. gc' \in GcStates /\ Configs' = Configs
    BY <2>1 DEF NotRunning, GcStates, GcSteps, system, Configs
  <2>4. TypeOK'
    BY <2>1, <2>2, <2>3 DEF TypeOK, system, NotRunning
  <2>5. ListedHasFile'
    BY <2>1, <2>3 DEF Seen, ListedHasFile, system
  <2> QED
    BY <2>1, <2>3, <2>4, <2>5 DEF Seen, system, NotRunning
<1>4. CASE GcHomeGone \/ GcOrphan \/ GcReadNames
  <2>1. /\ gc.step \in {"look", "prune"} /\ gc' \in GcStates
        /\ gc'.step \in {"prune", "clear"} \/ (gc'.step = "write" /\ gc'.names = listed)
        /\ gc'.uid = gc.uid /\ gc'.home = gc.home /\ gc'.todo = gc.todo
    <3>1. CASE GcHomeGone \/ GcOrphan
      BY <3>1 DEF GcHomeGone, GcOrphan, GcAt, GcStates, GcSteps
    <3>2. CASE GcReadNames
      <4>1. gc' = [gc EXCEPT !.step = "write", !.names = listed] /\ gc.step = "prune"
        BY <3>2 DEF GcReadNames
      <4>2. listed \in SUBSET Uids
        BY DEF TypeOK
      <4> QED
        BY <4>1, <4>2 DEF GcStates, GcSteps
    <3> QED
      BY <1>4, <3>1, <3>2
  <2>2. UNCHANGED <<system, login, torn, faults>> /\ Configs' = Configs
    BY <1>4 DEF GcHomeGone, GcOrphan, GcReadNames, system, Configs
  <2>3. TypeOK'
    BY <2>1, <2>2 DEF TypeOK, system, GcStates
  <2> QED
    BY <2>1, <2>2, <2>3 DEF Seen, system, ListedHasFile
<1>5. CASE GcInUse \/ GcLeaveConfig \/ GcLeaveHome
  <2>1. \E s \in {"look", "delConf", "delHome"} : GcNext(s)
    BY <1>5 DEF GcInUse, GcLeaveConfig, GcLeaveHome
  <2>2. UNCHANGED <<system, login, torn>> /\ faults' \in 0..MaxFaults
    BY <1>5 DEF GcInUse, GcLeaveConfig, GcLeaveHome, Fault, TypeOK
  <2> QED
    BY <2>1, <2>2, NextRound DEF GcSteps, system
<1>6. CASE GcPrune
  <2>1. /\ gc.step = "write" /\ gc' \in GcStates /\ gc'.step = "unlink"
        /\ gc'.uid = gc.uid /\ gc'.home = gc.home /\ gc'.todo = gc.todo
    BY <1>6 DEF GcPrune, GcAt, GcStates, GcSteps
  <2>2. /\ listed' = IF gc.uid \in gc.names THEN gc.names \ {gc.uid} ELSE listed
        /\ torn' = torn \cup (listed' \ listed)
        /\ UNCHANGED <<uid, homes, conf, login, faults>>
    BY <1>6 DEF GcPrune
  <2>3. Configs' = Configs /\ gc.names \subseteq Uids
    BY <2>2 DEF Configs, TypeOK
  <2>4. TypeOK'
    BY <2>1, <2>2, <2>3 DEF TypeOK, GcStates
  <2>5. gc.uid \notin listed'
    BY <2>1, <2>2 DEF Seen
  <2>6. ListedHasFile'
    BY <2>1, <2>2, <2>3 DEF Seen, ListedHasFile
  <2> QED
    BY <2>1, <2>2, <2>3, <2>4, <2>5, <2>6 DEF Seen
<1>7. CASE GcUnlink
  <2>1. /\ gc.step = "unlink" /\ gc' \in GcStates /\ gc'.step = "next"
        /\ gc'.uid = Nobody /\ gc'.todo = gc.todo
    BY <1>7 DEF GcUnlink, GcNext, GcStates, GcSteps
  <2>2. conf' = [conf EXCEPT ![gc.uid] = NoConf] /\ UNCHANGED <<uid, homes, listed, login, torn, faults>>
    BY <1>7 DEF GcUnlink
  <2>3. gc.uid \in Uids /\ gc.uid \notin listed
    BY <2>1 DEF Seen, TypeOK
  <2>4. TypeOK'
    BY <2>1, <2>2, <2>3, Removal DEF TypeOK, RealConf, GcStates
  <2>5. \A w \in Uids : login'[w].step \in {"create", "file"} => conf'[w] = NoConf
    BY <2>2, <2>3 DEF Seen, TypeOK
  <2> QED
    BY <2>1, <2>2, <2>3, <2>4, <2>5, Removal DEF Seen, ListedHasFile, GcStates
<1>8. CASE GcClear
  <2>1. /\ gc.step = "clear" /\ gc' \in GcStates /\ gc'.step = "delConf"
        /\ gc'.uid = gc.uid /\ gc'.home = gc.home /\ gc'.todo = gc.todo
    BY <1>8 DEF GcClear, GcAt, GcStates, GcSteps
  <2>2. /\ conf' = [conf EXCEPT ![gc.uid].allow = Nobody]
        /\ UNCHANGED <<uid, homes, listed, login, torn, faults>>
    BY <1>8 DEF GcClear
  <2>3. gc.uid \in Configs /\ conf[gc.uid] \in RealConf
    BY <2>1, ConfTypes DEF Seen, Configs
  <2>4. conf'[gc.uid] \in RealConf /\ conf'[gc.uid].home = conf[gc.uid].home
    BY <2>2, <2>3 DEF TypeOK, RealConf, Configs
  <2>5. /\ conf' \in [Uids -> RealConf \cup {NoConf}]
        /\ \A w \in Uids : (conf'[w] = NoConf) <=> (conf[w] = NoConf)
        /\ \A w \in Uids : conf'[w].home = conf[w].home
    BY <2>2, <2>3, <2>4, RealIsSome DEF TypeOK, RealConf
  <2>6. Configs' = Configs
    BY <2>5 DEF Configs
  <2>7. TypeOK'
    BY <2>1, <2>2, <2>3, <2>5, <2>6 DEF TypeOK, RealConf, GcStates
  <2> QED
    BY <2>1, <2>2, <2>5, <2>6, <2>7 DEF Seen, ListedHasFile
<1>9. CASE GcDeleteConfig
  <2>1. /\ gc.step = "delConf" /\ gc' \in GcStates /\ gc'.step = "delName"
        /\ gc'.uid = gc.uid /\ gc'.home = gc.home /\ gc'.todo = gc.todo
    BY <1>9 DEF GcDeleteConfig, GcAt, GcStates, GcSteps
  <2>2. /\ conf' = [conf EXCEPT ![gc.uid] = NoConf]
        /\ UNCHANGED <<uid, homes, listed, login, torn, faults>>
    BY <1>9 DEF GcDeleteConfig
  <2>3. gc.uid \in Uids
    BY <2>1 DEF Seen, TypeOK
  <2>4. TypeOK'
    BY <2>1, <2>2, <2>3, Removal DEF TypeOK, RealConf, GcStates
  <2>5. \A w \in Uids : login'[w].step \in {"create", "file"} => conf'[w] = NoConf
    BY <2>2, <2>3 DEF Seen, TypeOK
  <2> QED
    BY <2>1, <2>2, <2>3, <2>4, <2>5, Removal DEF Seen, ListedHasFile
<1>11. CASE GcDeleteName
  <2>1. /\ gc.step = "delName" /\ gc' \in GcStates /\ gc'.step = "delHome"
        /\ gc'.uid = gc.uid /\ gc'.home = gc.home /\ gc'.todo = gc.todo
    BY <1>11 DEF GcDeleteName, GcAt, GcStates, GcSteps
  <2>2. listed' = listed \ {gc.uid} /\ UNCHANGED <<uid, homes, conf, login, torn, faults>>
    BY <1>11 DEF GcDeleteName
  <2>3. Configs' = Configs
    BY <2>2 DEF Configs
  <2>4. TypeOK'
    BY <2>1, <2>2, <2>3 DEF TypeOK, GcStates
  <2> QED
    BY <2>1, <2>2, <2>3, <2>4 DEF Seen, ListedHasFile
<1>10. CASE GcDeleteHome
  BY <1>10, NextRound DEF GcDeleteHome, GcSteps, TypeOK
<1> QED
  BY <1>1, <1>2, <1>3, <1>4, <1>5, <1>6, <1>7, <1>8, <1>9, <1>10, <1>11 DEF Gc

\* The administrator changes accounts and homes, and no config.
LEMMA AdminKeeps ==
    ASSUME ConfInv, Admin
    PROVE  ConfInv'
<1> USE DEF ConfInv
<1>1. UNCHANGED <<conf, listed, login, gc, torn, faults>>
  BY DEF Admin, AddUser, DeleteUser, RemoveHome, Renumber
<1>2. homes' \subseteq Names /\ uid' \in [Names -> Uids \cup {Nobody}]
  BY DEF Admin, AddUser, DeleteUser, RemoveHome, Renumber, TypeOK
<1>3. Configs' = Configs
  BY <1>1 DEF Configs
<1>4. TypeOK'
  BY <1>1, <1>2, <1>3 DEF TypeOK
<1> QED
  BY <1>1, <1>3, <1>4 DEF Seen, ListedHasFile

LEMMA StepConf == ConfInv /\ [Next]_vars => ConfInv'
<1> SUFFICES ASSUME ConfInv, [Next]_vars PROVE ConfInv'
  OBVIOUS
<1>1. CASE UNCHANGED vars
  <2>1. Configs' = Configs
    BY <1>1 DEF vars, Configs
  <2> QED
    BY <1>1, <2>1 DEF vars, ConfInv, TypeOK, Seen, ListedHasFile
<1>2. CASE Next
  BY <1>2, LoginKeeps, GcKeeps, AdminKeeps DEF Next, Faulty
<1> QED
  BY <1>1, <1>2

\* Every variable keeps its type, no home has two configs, and faults stay
\* within their bound (snapper-home-config:57-64, snapper-home-gc:126-168).
THEOREM TypeCorrect == Spec => []TypeOK
<1>1. ConfInv => TypeOK
  BY DEF ConfInv
<1> QED
  BY <1>1, InitConf, StepConf, PTL DEF Spec

\* Wherever the collector is stopped, SNAPPER_CONFIGS names no config without its
\* file because of the collector's own bookkeeping (snapper-home-gc:145-146), however
\* many logins create configs meanwhile.
THEOREM FilesForNames == Spec => []ListedHasFile
<1>1. ConfInv => ListedHasFile
  BY DEF ConfInv, Seen
<1> QED
  BY <1>1, InitConf, StepConf, PTL DEF Spec

=============================================================================
