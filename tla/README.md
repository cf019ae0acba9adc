# KDE Linux: models, checks and proofs

KDE Linux is an image-based operating system. Its repository holds the image
build, the programs that publish images, and the scripts and small programs that
run on an installed machine. This directory models the parts of it that are hard to test: what
happens when a machine loses power in the middle of a migration, a CI job dies
between two uploads, goroutines are scheduled in an order nobody tried, or a user is
deleted while the script that looks after homes is running.

    tlc -config HomeMigration.cfg MCHomeMigration     # a model-checking run
    tlapm MigrationProofs.tla                         # the proofs of a component

`PROJECT.json` lists the runs with their properties, the mutated definitions that
show each property can fail, the source lines behind each definition, the findings, the
hazards and the theorems.

## 1. Inventory

| Component | State it keeps | Operations | What is hard | What makes it correct | Status |
|---|---|---|---|---|---|
| Root migration v2: `btrfs-migrator` `find_rootfs_v1()`, `run()` | `@system.import`, `@system`, the answer about the fstab | delete leftovers, compose etc and var, snapshot, rename | power loss anywhere, v1 sessions between two attempts, v3 on the next boot | `@system` appears whole; no session's changes are lost from v1 to v3 | modelled, proved |
| Home migration v3: `btrfs-migrator` `run_v3()`, `rootfs-transition`, mount generator | `@system/home`, `home.v3old`, `home.v3tmp` on disk | recover leftovers, stage copies, swap by two renames, delete the old home | power loss and failing calls at every step, boots around the migrator | no user data lost, a boot sees complete homes, the migration completes | modelled, proved |
| Boot blessing: `bless-userspace`, `bless-session`, `kde-linux-bless-boot.*`, `auto-hide-bootloader` | tries of the boot entries, two marker files, menu timeout | count, bless, hide, show | order of markers, unclean shutdowns, updates meanwhile | an image is marked good only after a check of its own (which may be that of user space alone, see 4); a working one stays; the menu is there when needed | modelled, proved |
| System updates: `sysupdate.d` | installed versions, at most four | make room, acquire (in systemd-sysupdate) | only the running version is protected | there is always a version that works | partly: the boot entries, with blessing |
| Snapper home configs: `snapper-home-config`, `snapper-home-gc` | snapper configs, home subvolumes, `SNAPPER_CONFIGS`; reads passwd | create at login, collect after userdel | accounts, logins and collector interleave; uids are reused and changed | a config that `SNAPPER_CONFIGS` names has its file; every config without a user goes in the end. That only homes without a user go does not hold (see 4) | modelled, proved |
| Preinstalled Flatpaks: `seed-preinstalled-flatpak-list`, `install-new-flatpaks` | the list on `/var`, installed apps | seed, compare, install, record | crash between install and record; any image may boot next | the system gives an app once, and once more per fault; a new app arrives unless a special remote before it is dead. That every removed app stays removed does not hold (see 4) | modelled, proved |
| Uploader: `uploader/main.go` | two bounded channels, goroutines, the bucket | walk, hash, upload | interleavings, closing channels, `log.Fatalln` in any goroutine | success means everything was stored; the process ends | modelled, proved |
| Publishing: `upload.sh`, `publisher`, GitLab jobs | staging prefix, channel on storage.kde.org, files.kde.org, chunk store, signed lists | stage, download, copy, chop, move, sign, upload | jobs that die and are retried, other pipelines in between, builds mixed under one prefix | one of the newest releases can be installed from a signed list; what was published with success stays installable; nothing is lost on the way. That all that is advertised can be installed does not hold: what a job that died left may be listed without its chunks (see 4) | modelled, proved |
| Vacuum of storage.kde.org: `upload-vacuum-v3` | the same channel and store | choose, delete, list, prune | failing deletions, unfinished releases | only outdated releases go; no chunk of a release whose index is in the channel is pruned | modelled and proved with publishing |
| Vacuum of files.kde.org: `upload-vacuum` | files.kde.org and its list | choose, delete, start the list from old and new checksums | cut files, a web server that scans late, lists made in three places | the list names what is there, with checksums that heal | modelled, proved |
| Installer: `calamares/modules/subvol/main.py` | target subvolumes and mounts | create, mount, copy | a failing stage and a second run | a failed run can be repeated | not modelled |
| Live session set-up, `btrfs-cleanup`, image build, `token-redeemer`, `minioauth`, desktop helpers | none that persists, or none shared | one-shot scripts | nothing concurrent or persistent of their own | – | not modelled |

How they interact. The imaging job stages an image with `upload.sh --stage`, which
runs the uploader; the publish job of the same pipeline runs `upload.sh
--publish`, which runs the publisher, both vacuums and the uploader again; GitLab's
resource group lets one publish job run at a time. Installed machines read
the signed lists and fetch images through `sysupdate.d`, keeping at most four versions. At
boot the loader picks one of them by the tries and marks that blessing maintains; the
initrd runs `rootfs-transition`, which runs `btrfs-migrator` (v2 first, v3 on
the next boot) before `sysroot.mount`. In user space, markers bless the boot entry,
`install-new-flatpaks` compares lists, and each login makes a snapper config.

The hazards of this code, each at its line and with the properties that would catch
it, are in `PROJECT.json`. A hazard without a property has a note saying why.

## 2. Plan

| Order | Modules | Abstract specification | Runs | Theorems |
|---|---|---|---|---|
| 1 done | `HomeMigration` | `DurableHome` | two passing | types, data, boots, coexistence, refinement, the one way to lose data |
| 2 done | `UploadPipeline` | `UploadService` | one passing | types, closed channels, success, refinement |
| 3 done | `PublishPipeline` | `ChunkStore` | one passing, one finding | types, store refinement, only outdated goes, finished is current, finished is installable, updatable under a signed list |
| 4 done | `BootBlessing`, with the updates and the boot loader | – | one passing, one finding | types, earned marks, fallback, hidden menu |
| 5 done | `HomeConfigs`, `FlatpakSeeds` | – | one passing each | types, bookkeeping, gifts |
| 6 done | `RootMigration`, on top of `HomeMigration` | `DurableHome` again, from v1 on | one passing | types, whole system, refinement |
| 7 done | `FilesVacuum`; `ImagingRetry` | – | one passing each | `FilesVacuum`: types, named lines, healing sums, the list and the site, twice only; `ImagingRetry`: types, whole offers, success, causes of failure |
| 8 done | the proofs: `MigrationProofs`, `FilesVacuumProofs`, `PublishPipelineProofs` with `Updatable` | | | every safety and action property of the passing runs |
| 9 next | lemmas on the models that are shared by several proofs; safety cores of the liveness properties | | | what each step leaves to be done never grows without a fault |

The installer is left out for good, see section 6.

## 3. The modules and the code

### Home migration

`HomeMigration.tla`. The three trees `home`, `old`, `tmp` are what is on disk; `step`
is what the machine is doing; `latest` counts sessions that changed the users' data and a
tree's `gen` says how many of them it has. An entry of a tree is missing, fresh (a subvolume
without content), flat (copied, a nested subvolume being a plain directory), cut
(that directory removed) or whole.

| Code | Actions |
|---|---|
| mount generator, `rootfs-transition` | `PowerOn`, `StartMigrator`, `NothingToMigrate`, `ShowFails` |
| `run_v3`, recovery of an interrupted run (main.rs:310-351) | `NoLeftover`, `InterruptedSwap`, `Refuse`, `LeftoverOld`, `MisreadLeftover`, `ClearEntry`, `ClearDone`, `Restore`, `CheckTmp` |
| `run_v3`, staging (353-417) | `CheckHome`, `MakeStaging`, `BeginEntry`, `FillEntry`, `CutNested`, `SnapshotNested` |
| `run_v3`, swap and deletion (419-441) | `SwapOut`, `SwapIn`, `SwapInFails`, `Undo`, `DeleteOldNested`, `DeleteOld`, `ReapFails` |
| any `?` on the way, power loss | `Abort`, `Crash` |
| the user | `Session`, `Reset`, `Detour` (an older image, or leaving the emergency shell) |

Abstractions. Contents are a generation number. A power loss that rolls a btrfs file system back
to an earlier commit gives the state of an earlier crash. `Path::exists()` is taken to be
reliable; `is_subvolume()` is not, with `StatFaults`. A home has at most one nested
subvolume, so that a cut with several is one cut. Sessions write into a complete
home only: data written into the empty home an older image makes are not followed.
`DurableHome.tla` is the promise: sessions' data stay, the layout changes once.

### Root migration

`RootMigration.tla` EXTENDS `HomeMigration`: while `system` is false the machine runs v1 images and
`run()`, afterwards its steps are those of `HomeMigration`, and `@system/home` starts as
the snapshot that `run()` made. `tree` is `@system.import` and, after the rename, `@system`: per part a
shape and the number of sessions its data carry. `from` is the version etc and var were taken from.

| Code | Actions |
|---|---|
| no image, a v1 image booted meanwhile | `NoImage`, `OlderSession` |
| `run()`, leftovers (main.rs:103-111) | `StartRootMigrator`, `DeleteImportPart`, `DeleteImport`, `DeleteImportFails`, `CreateImport` |
| the question about the fstab | `Fstab`, `Decline` |
| `find_rootfs_v1()`, etc and var (113-188) | `NewestRoot`, `Compose`, `Copied` |
| the subvolumes (190-215) | `RemovePlain`, `Snapshot`, `SnapshotRest` |
| the rename into place | `Rename` |
| any `?`, power loss | `RootAbort`, `RootCrash` |

Abstractions. What is in etc and var is a generation number. The sessions of a v1 image that is booted
after the switch never reach `@system`, and nothing is claimed about them. The QR code and the messages are left out.

### Boot blessing

`BootBlessing.tla`. `installed`, `left` and `good` are the boot entries with their counters, `stage` is how far this boot
has got and `reach` how far a boot of each image can get; `marks` are the files under `/run`.

| Code | Actions |
|---|---|
| systemd-boot (external) | `Default`, `CountDown`, `Load`, `BootDefault`, `BootChosen` |
| `kde-linux-bootloader-visibility.service` | `ReachSysinit` |
| `bless-userspace` and its unit | `BlessUserspace`, `UserspaceUnblessed` |
| `bless-session` | `BlessSession`; `Logout` removes its marker with `/run/user` |
| `kde-linux-bless-boot.path`, `.service` | `Triggered`, `Bless`, `BlessFails`, `BlessUncounted` |
| `auto-hide-bootloader hide`, as `ExecStopPost` | `ShutDown` |
| `60-esp.transfer` under systemd-sysupdate | `MakeRoom`, `Acquire` |
| the user, power loss | `Leave`, `Reset`, `Crash` |

Abstractions. What systemd-boot, logind and systemd-sysupdate do is external, modelled from how the units and transfers use
them. The root transfers move with that of the boot entry. A menu with another system is never hidden, which `ShutDown` leaves open.

### Snapper home configs

`HomeConfigs.tla`. `conf` and `listed` are snapper's files, `homes` the home subvolumes, `uid` is passwd; `login` and `gc`
are the two scripts with what each has read so far, so that every read can be stale when it is used.

| Code | Actions |
|---|---|
| `snapper-home-config` | `ReadUser`, `CreateName`, `CreateFile`, `CannotCreate`, `SetAllowUsers`, `LoginDies` |
| `snapper-home-gc`, the look at a config (126-149) | `GcStart`, `GcStartBlind`, `GcRead`, `GcHomeGone`, `GcInUse`, `GcOrphan` |
| its deletions (143-168) | `GcReadNames`, `GcPrune`, `GcUnlink`, `GcClear`, `GcDeleteConfig`, `GcDeleteName`, `GcLeaveConfig`, `GcDeleteHome`, `GcLeaveHome`, `GcKilled` |
| the administrator (external) | `AddUser`, `DeleteUser`, `RemoveHome`, `Renumber` |

Abstractions. Reads that come in a row without a call in between are one step. snapper is modelled by what both scripts
get from it: a config names a home, it cannot be loaded when `ALLOW_USERS` names nobody who is there, and a subvolume
with snapshots cannot be deleted. Its `create-config` writes the name into `SNAPPER_CONFIGS` and then the file, its
`delete-config` removes the file and then the name, and either can be cut off in between: `torn` remembers, as history, the
names that are without a file for this reason, or because `prune_sysconfig` wrote back a list it had read before (82, 95).
That snapper itself changes `SNAPPER_CONFIGS` in one step is assumed.

### Preinstalled Flatpaks

`FlatpakSeeds.tla`. `listed` and `ever` are the list on `/var`, `installed` the user's apps, `factory` what the image that is booted
preinstalls; `todo` and `skip` are the loop of the script. `given` counts, as history, how often the system put an app there.

| Code | Actions |
|---|---|
| `seed-preinstalled-flatpak-list` and its condition | `SeedCreate`, `SeedApps`, `SeedAddons`, `AlreadySeeded`, `SeedFails` |
| `install-new-flatpaks`, both lists; a `flatpak list` that fails unnoticed | `Scan`; `ScanBlind` |
| its loop | `Skipped`, `RemoteFails`, `Install`, `InstallFails`, `Record`, `RecordFails`, `LoopEnds` |
| plasma-setup, the user, any next image | `PlasmaSetup`, `UserInstalls`, `UserRemoves`, `Restart`, `Crash` |

Abstractions. Apps and addons are numbers in the order of the loop; the system-wide and the user's installation are one. The network
fails by `InstallFails`, without a bound.

### Uploader

`UploadPipeline.tla` has the walker, the workers, the goroutine that closes the second
channel and the main loop over two bounded channels, one action per channel operation or call.
`log.Fatalln` anywhere ends the process, as does the return of the main
goroutine. `UploadService.tla` is the promise: each object asked for is stored once,
success means that all of them are. `main()`'s flags and connection are left out.

### Publishing

`PublishPipeline.tla` has one publish job per pipeline, its program counter in `job`,
its local files in `art`, `lists` and `pending`, and what it shares with the others: the staging
prefixes, the trees of both sites (`live`, `files`), the chunk store, and the lists with
their signatures (`sums`, `sig`).

| upload.sh --publish | Actions |
|---|---|
| download, end if nothing is staged (142-155) | `Start` |
| `upload-vacuum`, own checksums, `scp` (158-177) | `FilesVacuum`, `FilesAppend` or `FilesIncomplete`, `FilesUpload` |
| `desync chop` (183-187), lists of files.kde.org (191) | `Chop`, `FilesSums` |
| `publisher --dest` (196): copy, remove, object by object | `Copy`, `Remove`, `Moved` |
| `upload-vacuum-v3` (200) | `VacuumSysupdate`, `VacuumImages`, `Prune` |
| lists of the images, then of the channel (211-217) | `RootSums`, `UploadChannel`, `Succeed` |
| anything that fails, a timeout, a lost runner | `Die` |
| `upload.sh --stage`, in the imaging job | `Stage` |

Abstractions. A release is its version; `iso` stands for the .iso and the .torrent,
`efi` for the .efi and the .tar.zst, `index` for the .erofs.caibx. The chunks of a release are
there or not: what two releases share, which only keeps more of them, is ignored, and so is a
release half chopped or half pruned. Deletions of one vacuum are one step, from which any of the artifacts may survive;
dying among them is that followed by `Die`. Lists are sets of (version, artifact). An empty list, which is fatal in
`upload-vacuum-v3`, cannot occur while the channel holds releases. The jobs of other branches
are left out: they take the same steps without files.kde.org in a
directory of their own, and share the store, whose pruning reads the indexes of all. That GitLab's
resource group keeps publish jobs apart is assumed (`Start`), not shown. An
imaging job stages once here. `ChunkStore.tla` is the promise of
the store: an index comes after its chunks, and collecting garbage takes nothing an index refers to.

`ImagingRetry.tla` looks at one pipeline closer: the imaging job uploads object by object (`UploadObject`), may die and be
retried with another version into the prefix of the same pipeline (`Build`, `ImagingDies`), and the publish job takes all it finds
there (`Start` to `ChannelSums`, as above). That `desync chop` takes one index and one image is external. The
channel starts empty, and the vacuums, which would find too few releases to act, are left out.

### Vacuum of files.kde.org

`FilesVacuum.tla` opens what is one step of the publish job in `PublishPipeline`: the list on the server (`sums`) as lines in their
order, the passes of the program over the releases as sets of tasks that are due in the order of its loops (`Before`, `Due`), the old list as a cache of checksums (`known`), the requests to the web server for the others, and the completion of the list by `upload.sh`.

| Code | Actions |
|---|---|
| `main`, choice of releases (upload-vacuum/main.go:291-325) | `Load`, with `ToKeep`, `ToDelete`, `Artifacts`, `Listable` |
| deletions | `Delete` |
| `readSHA256s` and its cache, the request (62-89) | `ReadOldSums`, `NoOldSums`, `Ask`, `FindSum`, `NoAnswer` |
| upload.sh:164-192 | `Complete`, `BeginFile`, `EndFile`, `UploadSums` |
| the web server (external), the job | `Scan`, `Start`, `Die` |

Between `Ask` and what follows the program waits for the web server, without a timeout.

Abstractions. A checksum tells a whole file from a cut one. The early return for a site without releases (main.go:291-294) is left out: this
vacuum never deletes the newest, and a published site is never empty. Three facts the model shows without a property of their own:
a file that `scp` was cut in stays listed with the checksum of the cut file until the web server scans a better one; a job that is retried
lists its own release twice; a protected release among the newest is listed twice, and three times when its job is retried.
`TwiceOnlyProtected` says that nothing else is listed more than once.

## 4. What the runs show

| Run | Distinct states | Shows |
|---|---|---|
| `home_migration` | 2 751 | with every boot going through the migrator and four faults anywhere: `DataSafe`, `BootedIntact`, `Coexist`, `EventuallyMigrated`, and that it implements `DurableHome` |
| `home_detours` | 6 943 | with older images and boots continued from the emergency shell, the one step that can destroy the last copy is the deletion after a failed `is_subvolume()` |
| `root_migration` | 10 087 | from the first boot with v2 to the end of v3: `@system` appears only complete and of one day (`SystemIsWhole`), a machine that can be migrated is, and both migrations together implement `DurableHome` |
| `boot_blessing` | 717 087 | an image is marked good only after a boot of its own has passed a check, one that had a session stays, the menu is hidden only after a blessed boot, and the machine always comes up again |
| `home_configs` | 875 364 | the collector leaves no name in `SNAPPER_CONFIGS` without its file, wherever it is stopped in its own bookkeeping; every orphan is collected |
| `flatpak_seeds` | 271 122 | an app is given once, and once more per fault at most; the list tells the truth; a new app arrives, unless every boot ends at the remote of a special one before it |
| `upload_pipeline` | 22 647 | no send on a closed channel, success means stored, the process ends, it implements `UploadService` |
| `publish` | 931 469 | `Updatable`: with one job dead at most, a site whose list has a valid signature offers one of its newest releases, and the signature is missing only between two uploads or after a failure; `FinishedIsInstallable`: what was published with success stays installable, with two; `OnlyOutdatedGoes`, `FinishedIsCurrent`, and that it implements `ChunkStore` |
| `imaging_retry` | 56 472 | whatever builds are mixed under one prefix: an offered version can be installed, a success has the tested build in the channel, an undisturbed job fails only over leftovers |
| `files_vacuum` | 436 383 | the cache is never hit because its keys keep a space, wrong checksums heal, the list is what the site has, only protected releases and that of a retried job are listed twice, the vacuum ends or waits for an answer that never comes |

Two runs end in a violation, each of a sentence the repository says about itself:

| Run | The code | What it contradicts |
|---|---|---|
| `publish_retry` | upload.sh:152 ends a retry with success when nothing is staged any more | upload.sh:153: "assuming this staging prefix was already published" |
| `bless_session` | the two lines kde-linux-bless-boot.path:8-9 are alternatives: in the trace an update whose boots never get to a session is marked good by the system's own marker, with no fault | bless-userspace:6-9: a boot is blessed after user space *and* a session |

Further disagreements are stated as properties that no run lists. Add the property to the config, in place of the ones it has, to see it violated:

| Property, config | The code | What it contradicts |
|---|---|---|
| `DataSafe`, `HomeDetours.cfg` | main.rs:329 takes an error of `is_subvolume()` for "not a subvolume" and deletes `home.v3old` | main.rs:330-332: deleting here "could throw away the only copy of the user data" |
| `NeverWithoutHome`, `HomeDetours.cfg` | rootfs-transition:14 exits with success on a second start in the same boot | rootfs-transition:28-30: "the migrator has to run to put it back" |
| `LeftoverIsHarmless`, `HomeMigration.cfg` | main.rs:341 makes a failing deletion of the leftover fatal on the next boot | main.rs:436-438: it only "can be manually deleted" |
| `FailedWalkIsFatal`, `UploadPipeline.cfg` | uploader/main.go:123 closes the channel before the walk's error is fatal | main.go:124-126: the error is fatal |
| `ListedAfterChop`, `PublishPipeline.cfg` | upload-vacuum lists what it finds, also a release whose job died before the chop: what is advertised need not be installable | upload.sh:190: lists "only after the chunk store is ready" |
| `OnlyTestedGoes`, `ImagingRetry.cfg` | upload.sh:86 names the prefix after the pipeline: what a first attempt left is published with the second, which alone was tested | upload.sh:117: "the per-job staging prefix"; .gitlab-ci.yml:23: "gated on OpenQA tests" |
| `FilesAreListed`, `HomeConfigs.cfg` with `MaxFaults = 0` | snapper-home-gc:82 reads `SNAPPER_CONFIGS` and line 95 replaces it: a name that a login adds in between is lost | no text; snapper-home-config:64 relies on it, since a later login finds the file and does nothing |
| `RemovedStaysAway`, `FlatpakSeeds.cfg` | install-new-flatpaks:26 skips an app that is there without recording it: once the user removes it, it is installed | install-new-flatpaks:31-32: "the user must have chosen to uninstall it, so we don't want to reinstall it" |
| `EventuallyEnds`, `FilesVacuum.cfg` | upload-vacuum/main.go:72 is a client without a timeout: the job waits for ever | main.go:67: ten attempts, then the program gives up |
| `LiveHomesAreSpared`, `HomeConfigs.cfg` | snapper-home-gc:149 asks for the uid in the config's name: after `usermod -u` nobody has it, and the home goes | snapper-home-gc:5-6: "home configs that have no user left" |

### Bounds

*Home*: two homes, one of them with a nested subvolume, one file and one entry of an odd kind, so
that every branch of the loop over `home` is taken; four faults are one more than the longest chain of
recoveries (swap interrupted, restore interrupted, leftover not deleted) and two sessions
let a staging directory go stale twice. *Root*: the same homes and faults, two v1 systems with a root and one
without (`Husks`), so that the newest directory is not the newest root, and two v1 sessions between attempts.

*Boot blessing*: three updates onto three slots, one less than the four of the transfer, so that the limit is met while
four versions exist; each update may reach nothing, user space or a session. An update has two tries and at most one fault: with as many
faults as tries `AlwaysComesUp` fails, since faults alone can then use up the tries of every image that works.

*Home configs*: two accounts, two uids and two homes are enough for a uid to be reused, a name to come back, an account
to be renumbered into the other's uid, and the collector to be anywhere meanwhile. *Flatpaks*: one app on the hard-coded list,
one with a remote of its own, one addon; images preinstall any subset in any order, so that newer and older images are both there.

*Uploader*: four files, more than two channels of one slot
hold, so that every send blocks at some point; the comment at main.go:72 says that the buffers prevent deadlocks,
and `EventuallyExits` shows that one slot is enough.

*Publishing*: three releases kept instead of
four, three published and three being built, one protected, two faults. `Updatable` asks for fewer
than `Keep - 1` faults, and with this many pipelines it fails when it asks for fewer than `Keep`: the bound is
the tight one, and shows what keeping four releases buys: two jobs may die. `FinishedIsInstallable` has no such bound. *Imaging*: two attempts may die before the third succeeds; there
is one attempt more than faults, so that the job never runs out of them. *Vacuum of files.kde.org*: two releases kept instead of four,
two requests per file instead of ten; two builds on top of three releases, of which an old and the newest one are protected.

### Fairness

*Home, Root*: a machine that is on takes its next step, and its user turns it on again, which a failed boot
leaves as the only choice; faults are bounded, so that liveness speaks of what happens once they stop. For the root
migration the user answers the question about the fstab in some boot, but nothing says how.
*Boot blessing*: a boot goes as far as its image can get, units that are started run, a stuck boot is reset. The user
may always choose another entry, but boots the default one again and again (strong fairness: the menu is left alone sometimes).
*Flatpaks*: the scripts run on, the machine is restarted, and the installation of an app without a remote of its own, tried again and again, succeeds some day (strong
fairness, as each failure ends that attempt); the remotes of special apps may be gone for good. *Home configs*: a login script that has started and the collector, which a timer starts, run on; nobody has to log in. *Uploader*:
the Go scheduler runs each goroutine that can run; nothing is assumed about failures. *Vacuum of files.kde.org*: the program takes
its next step unless it waits for the web server, which may never answer. *Publishing, Imaging*: no fairness
and no liveness: nobody promises that a job is retried or that another pipeline follows.

Deadlock is checked in every run.

## 5. What is proved

All theorems hold for any values of the constants that satisfy the named assumptions, which each run
evaluates for its own values. The type invariants of the proved modules are theorems; the runs check them where no other property of
the run would notice a wrong type.

| Theorem | Argument |
|---|---|
| `MigrationProofs!TypeCorrect` | `TypeInv`: types, and that the steps which stage have found `home` a subvolume |
| `DataIsSafe`, `BootIsIntact` (assuming `SoundWorld`: no boot around the migrator, or no failing stat) | `DataInv`. `DataSafe` alone is not inductive: a step that deletes a tree must know that the other holds the data. `StepFacts` says which trees exist at each step, and the last conjunct that a subvolume `home` beside `home.v3old` is the empty one of a detour. `StagedIsIntact` is the heart: when `home` is moved away, `home.v3tmp` is as good |
| `CoexistHolds` (assuming no detours) | follows from `DataInv` |
| `LossOnly`, in any world | `TreeFacts` is what is left of `DataInv` once data may be lost: which trees exist at each step, that a swap is under way only with a staging directory as good as the home was, and that a subvolume `home` beside `home.v3old` is not complete. It stays true after a loss, so that the theorem also speaks of the second and third |
| `MigrationProofs!Refinement` (assuming `SoundWorld`) | a session is a write; the layout changes with the rename into place; every other step stutters, because the survivor stays intact |
| `MigrationProofs!RootTypesCorrect`, `WholeSystem` | `RootInv`: `ImportInv` is what each step knows of `@system.import` (every part that is there is of the latest session, etc and var are from the newest root), `AtRest` that nothing of v3 has happened while there is no `@system`; after the rename the invariant of the home migration takes over |
| `AcrossRefinement` (assuming `SoundWorld`) | `RootData` adds `DataInv` once `@system` exists, kept apart because only it needs `SoundWorld`; the steps of v3 are discharged by the step lemmas of the home migration, those of v2 stutter, and a v1 session is a write |
| `BootBlessingProofs!TypeCorrect`, `EarnedOnly`, `HiddenOnlyAfterGood` | `EarnedOnly` needs that a marker or a passed check is always one of this very boot, which `/run` gives by being forgotten at each boot |
| `FallbackStays` | `FallbackInv`: the running image is installed and never removed; only from a running session can another one go |
| `HomeConfigsProofs!TypeCorrect`, `FilesForNames` | `ConfInv`: `GcStates` (the collector's local variables) and `Seen`: only a login of a uid creates its config and only the collector removes one, so that what it saw of a config still holds; a name it leaves out of the list it writes is not listed when the file goes |
| `FlatpakSeedsProofs!TypeCorrect`, `ListIsTrue`, `GivenOnceOnly` | `SeedInv`: `StepFacts`, `ListedWasThere` and `Accounted`: each gift is on the list, is about to be, or is paid for by one fault (`Charged`) |
| `UploadPipelineProofs!TypeCorrect`, `ClosedIsFinal`, `SuccessIsComplete`, `Refinement` | `StageInv` (the stages end in order) and `NoneDropped` (what the walk has come to is stored or in the pipeline), with lemmas on what appending and taking do to the range of a channel |
| `PublishPipelineProofs!TypeCorrect` | types; failing deletions are finitely many and can be counted (`DoomedFinite`) |
| `StoreRefinement` | `StoreInv`: one job at a time, of a built release (`OneJob`, `Built`); from the end of its chopping to its last move the chunks of its release are stored (`Chopped`), which holds because only a job prunes; indexes have their chunks. `OwnStep` reduces each step to the job that takes it |
| `OnlyOutdated` | `Copied`: an artifact is copied before its source is removed; `PurgedIsOutdated`: what a vacuum removes has `Keep` newer releases |
| `FinishedCurrent` | `Accounted` and `ListsReady`. An artifact of a built release is staged, in the channel, or its release is superseded; a job's lists name what is there. Being superseded outlives a vacuum because the releases it keeps above one are as many as it keeps (`KeptAreEnough`, by a well-founded minimum instead of induction) |
| `FinishedInstallable` | `Delivered`: an artifact of a built release is staged, in the channel, or the vacuum was free to take it (`Gone`, which lasts: `TooOldKept`); once the move has begun the release is on files.kde.org; a success leaves nothing staged. `TooOldForBoth` gives the index in the channel, and with it the chunks, to what files.kde.org still keeps |
| `AlwaysUpdatable` (assuming that some release was published before) | `UpdateInv` and `SigInv` (until something fails, a list without its signature is between its two uploads). A release that is among the newest of a site is *good* there (`GoodLive`, `GoodFiles`: its files are there, the list and the lists on their way name it, and on files.kde.org its index in the channel protects its chunks), or a job works at it, or it is *charged*: no job will make anything of it any more. `Budget`: charged releases are no more than faults, since only a job that dies charges one (`ChargedStep`), and a job that ends well has a good one (`FinishedIsGood`); `Past`: what was published before is good or too old. So a release among the `Keep` newest is left that is good (`SomeIsGood`, again by `KeptAreEnough`). That the pruning finds two indexes, as it demands, follows from the same count (`PruneAlone`), and `ChannelOnFiles` carries what is too old for the channel over to files.kde.org |
| `ImagingRetryProofs!TypeCorrect`, `OfferedWhole`, `OkMeansInChannel`, `LeftoversFail` | `RetryInv`: no artifact of the tested build gets lost (`Staging`), the publisher moves in the order of the keys over all attempts (`OrderKept`), and once anything was moved no other build's index or image is left (`Alone`). `ChopsTheBuild` is the heart: one index and one image are the tested ones, and the boot entry, which is moved before them, is still there |
| `FilesVacuumProofs!TypeCorrect`, `AllNamed`, `SumsHeal`, `ListIsOfSite`, `TwiceOnly` | `FilesInv`: a key of the old list is never a path (`NeverHit`), so that no line is copied from it; what is cut while the vacuum reads is `suspect`; what is on the list or still to be read stays on the site (`Chosen`) and what is on the site is listed, still to be read, or outdated (`Covered`); `Counted` adds the lines of a file to the tasks that will still write one. Releases that are outdated stay so while others go (`OutdatedKept`), because the newest are never deleted |

Model-checked only: all liveness (`EventuallyMigrated`, `EventuallyOnV3`, `AlwaysComesUp`, `EventuallyCollected`, `EventuallyGiven`,
`EventuallyExits`, `EndsOrWaits`), which is out of the prover's reach. Every invariant and action property of the passing runs is a
theorem. Proofs about recursive definitions are out of reach too; none of these modules has any.

## 6. Not modelled, and why

The installer's subvolume job is a linear sequence of stages without a rollback. What a second run meets depends on what `mount`,
btrfs and Calamares' own mounts have left behind, which the job never looks at: a model would be one of those tools. Of
`sysupdate.d` only what decides which versions are installed is modelled; the transfers themselves are systemd-sysupdate's.

The live session, the image build, the
credential exchange, `btrfs-cleanup` and the desktop helpers stay out: they are straight-line programs with no state that
outlives or is shared with another, so that a model would restate them. Of the modelled parts, messages
to plymouth, logging, checksums and signatures as computations, connections and
command lines are left out; no property is about them.
