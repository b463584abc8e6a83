# zectl in TLA+

`zectl` manages ZFS boot environments: complete root file systems between which
the machine can be switched at boot. It is a short-lived command line program
on top of `lib/libze`, which calls libzfs; a boot loader plugin (systemd-boot)
hooks into most commands. Nothing in it is long-running, but a command is a
sequence of libzfs calls on state that every other command shares, without a
lock or a transaction, and the state it must not damage is the one the machine
boots from. This directory holds TLA+ modules of that state and those
sequences, TLC configurations that check them, and TLAPS proofs about them.

Paths below are relative to the repository's root, lines are those of
`lib/libze/libze.c` where no file is named.

## Inventory

| Component | State it keeps | Operations | Hard behaviour | What makes it correct |
|---|---|---|---|---|
| Command line: `src/zectl.c`, `src/zectl_*.c` | none between commands; a command's options | start, plugin, boot pool, validate the system, defaults, one command, exit code | commands of several shells interleave; a command can be killed | success means the command was carried out |
| Handle: `libze_init`, `libze_validate_system` (1091-1198) | `env_running`, `env_activated`, properties, plugin, read once | read the mount at `/`, `bootfs` and the properties; both environments must exist | what was read becomes stale | guards based on the copies still protect the environment; the plugin is the one that was set |
| Activation: `libze_activate` (1293-1436) | `bootfs`, clone origins | mount at a temporary directory, hook, set `bootfs`, promote, hook | error paths, the result code, a crash after `bootfs` | the activated environment always exists and is complete |
| Creation: `libze_create`, `libze_clone` (1551-1975) | datasets, snapshots, origins | snapshot the source, clone it in one or two pools, mount, hook | name clashes, one of two pools fails, the source differs from pool to pool | both datasets or none |
| Destruction: `libze_destroy` (1992-2226) | the same | unmount if forced, snapshots one by one, dataset, origin snapshot, second pool | busy mounts, snapshots with clones, stop between pools | never the running or activated environment; it ends |
| Rename, mount, unmount, snapshot (2396-2856) | names, mounts | one call per pool | half done operations | the pair of datasets stays a pair |
| The tree of an environment: `libze_clone_cb`, `libze_activate_cb`, `libze_destroy_cb`, `mount_callback`, `unmount_callback` | the datasets below it, their mounts, snapshots and origins | recursive callbacks that change what they walk over | a call fails or a kill comes in the middle of the walk; siblings come in no order; unmanaged datasets in between | the walk keeps to its environment, mounts stay nested, success is true of the whole tree |
| ZFS pool (libzfs, external) | datasets, snapshots, origins, mounts, `mountpoint`, `bootfs` | what libze.c calls | preconditions libze relies on | assumed |
| systemd-boot plugin: `lib/libze_plugin/libze_plugin_systemdboot.c` | loader entries, `loader.conf`, kernels on the ESP, `fstab` | `post_activate`, `mid_activate`, `post_create`, `post_destroy`, `post_rename`, `pre_snapshot` | files replaced one by one, errors masked, crash between pool and ESP | an entry exists exactly for an environment, the default entry is the activated one |
| Replacing a file: `replace_matched`, `update_loader_default`, `update_fstab`, `libze_util_copy_file` | the file, `.bak`, a temporary file | backup, temporary file, rename(2) | stdio buffers, errors nobody looks at, overlapping updates, kills | a reader finds the old or the new text |
| Properties and listing (27-836, 2246-2364) | user properties in a namespace | get, set, defaults, list | set by one shell, read by another; defaults of `main` and of the plugin; key clashes; environments that come and go during a list | the value shown is the one set; every environment listed |
| Utilities: `libze_util.c` | none | string cutting, snapshots' and datasets' names, directory walk | boundaries | the ways to take one name apart agree |
| Plugin manager, boot loader selection, `system_linux.c` | a loaded library | `dlopen`, symbol lookup, mount(2) | none of its own | - |

Interactions: the command line owns one handle and calls exactly one `libze_*`
function; that function calls libzfs (shared with every other process) and the
plugin's hooks, in the same thread, between its own calls. `pre_snapshot`
calls back into `libze_mount` and `libze_unmount`. The only things shared by
two commands are the pool, the mounts and the files of the ESP.

`PROJECT.json` lists the components with what is modelled of each, the hazards
with their lines, and for each definition the lines it models.

## Modules

| Module | Content |
|---|---|
| `ZfsPool` | The pool: what libze.c expects of each libzfs call (precondition `Can...`, effect). External. |
| `Zectl` | The commands: processes that run one command after another against `ZfsPool`, one action per libzfs call. Kill and reboot. |
| `BootEnvs` | Abstract specification: environments as a set, every command atomic. |
| `ZectlProperties` | The properties, the inductive invariant, and the refinement mapping to `BootEnvs`. |
| `MCZectl` | Symmetry sets for TLC. |
| `Pairs` | `Zectl` with a history variable: whether the running and the activated environment have been different ones. The pair and mount properties' inductive invariants. |
| `MCPairs` | Symmetry and the bound of the run `pairs`. |
| `DatasetTree` | Environments as trees of datasets on `ZfsPool`: the recursive callbacks, one action per libzfs call, the recursion as a stack. |
| `TreeProperties`, `MCTree` | Its properties, its inductive invariant and its mapping to `BootEnvs`; the instance for TLC. |
| `TreeProofs` | Theorems about `DatasetTree`. |
| `ZeStrings` | The functions on names and properties, as operators on sequences of tokens. |
| `ZeHandle` | The handle of a command: `libze_init` and `main`, then set, get and list, beside other commands as in `BootEnvs`. |
| `ZeHistory` | `ZeHandle` with what the user said last, and its properties. |
| `MCZeHandle` | The instance of `ZeHistory` for TLC, and the string functions against each other over bounded strings. |
| `ZeHandleProofs` | Theorems about `ZeStrings`, `ZeHandle` and `ZeHistory`. |
| `ConfigFile` | Abstract specification: a file that changes atomically. |
| `FileReplace` | How loader.conf and an fstab are replaced, write by write; the detail behind one step of `SystemdBoot`. |
| `FileBackups` | `FileReplace` with the history of overlaps, what file.bak promises, and the inductive invariant behind it. |
| `MCFileReplace` | Symmetry for TLC. |
| `FileReplaceProofs` | Theorems about `FileReplace`, the refinement of `ConfigFile` among them, and `FileBackups`. |
| `SystemdBoot` | The ESP and the systemd-boot hooks, file operation by file operation, on top of `BootEnvs`; upgrades and reboots. |
| `MCSystemdBoot` | Symmetry for TLC. |
| `SystemdBootProofs` | Theorems about `SystemdBoot`: with failures and kills, and until something fails. |
| `ZfsPoolProofs` | Lemmas: every storage effect keeps the types. |
| `ZectlProofs` | Theorems about `Zectl` with any number of shells. |
| `ZectlSingleProofs` | Theorems about `Zectl` with one shell at a time. |
| `ZectlPairsProofs` | Theorems about `Pairs` (one shell, no call fails, nothing is killed), and about any number of shells that only create, mount and snapshot. |

### How the model corresponds to the code

`ZfsPool`. A boot environment `n` is the dataset `Root(n)`, and `Boot(n)` too
when the property `org.zectl:bootpoolroot` is set (`BootPool`); most functions of
libze.c have a second half for that pool. Snapshots of a dataset are a sequence
because `zfs_promote` moves those up to the origin. `tmpmp` is the set of
datasets whose `mountpoint` is `/tmp/ze.*`, which `temp_mount_be` (887) sets and
`temp_unmount_be` (847) resets. `Busy` is the reason an unmount of a root
dataset fails while its boot dataset is mounted below it. `libze_mount` mounts a boot dataset only if its
property `mountpoint` is `legacy`, and otherwise gives up with the root dataset mounted (2538, 2562). What that property
may be is the constant `BootMountpoints` of `Zectl`, a non-empty subset of `{"legacy", "other"}` from which `MountBoot` takes
any value: with both, some datasets have one and some the other. Operations on names,
not on identities: a libzfs handle names a dataset, so a rename by another
command makes a later call of the first one hit whatever has the name then.

`Zectl`. `proc[p]` is the state of the shell `p` and of the command it runs:
`pc` names the next libzfs call (or the group of reads before it), `cmd` is the
options structure, `act` is `lzeh->env_activated`, `ret` the result so far,
`sfx` the snapshot suffix of `libze_create_data`, `pool`, `orig` and `iter` the
local variables of the destroy callback. `env_running` is not copied, since only
a reboot changes it and a reboot ends every command.

| Code | Actions |
|---|---|
| `main`, `libze_init`, `libze_validate_system` | `LibzeInit`, `ValidateSystem` |
| `temp_mount_be`, hook, `temp_unmount_be` (in `mid_activate` and `post_create`) | `TempMountpoint`, `TempMount`, `MountedHook`, `TempUnmountAfterHook`, `TempResetAfterHook`; `TempUnmountOnError`, `TempResetOnError` |
| `libze_activate`, `libze_activate_cb` | `Activate`, `ActivateSetBootfs`, `ActivatePromote`, `ActivatePromoteBoot`, `PostActivate` |
| `libze_create` and what it calls | `Create`, `CreateSnap`, `CreateSnapBoot`, `CreateAgain`, `CloneRoot`, `CloneBoot`, `PostCreate` |
| `libze_destroy`, `libze_destroy_cb`, `destroy_snapshot` | `Destroy`, `DestroyCheck`, `DestroySnaps`, `DestroyDataset`, `DestroyOrigin`, `PostDestroy`, `DestroySnapshot`, `DestroySnapshotRoot`, `DestroySnapshotBoot` |
| `libze_rename` | `RenameBE`, `RenameRoot`, `RenameBoot`, `PostRename` |
| `libze_mount`, `libze_unmount` | `MountBE`, `MountRoot`, `MountBoot`, `UnmountBE`, `UnmountBoot`, `UnmountRoot` |
| `libze_snapshot`, the pre-snapshot hook | `SnapshotBE`, `PreSnapshot`, `SnapshotRoot`, `SnapshotBoot` |
| the environment | `Kill`, `Reboot` |

A call is `Call(can, effect, then, else)`: it works if the pool allows it, fails
if not, and may also fail although the pool allows it (an I/O error, no
space), which costs one of `MaxFaults`. Each `then` and `else` is the code's
continuation, with its masked results: `mid_activate`'s failure is returned as
success, a failed forced unmount is ignored (and the origin's open may still fail after it, 2016), the hook's result replaces the
rename's. Reads that belong to one check are one action; a change of the pool
is always an action of its own.

`SystemdBoot`. A command is one atomic step of `BootEnvs` (what the run `crash` shows
`Zectl` to implement), then `pc` goes through the file operations of its hook; for a
snapshot the hook comes first, as in `libze_snapshot`. Of a loader entry the model
keeps the environment its lines name, of a kernel directory the version, of an
environment (`root[n]`) the version of its modules, the directory its `fstab` binds to `/boot`
and the copies `pre_snapshot` left in it. `Torn` is anything written in part.

| Code (`libze_plugin_systemdboot.c`) | Actions |
|---|---|
| `post_create` (1124) | `CopyFstab`, `CreateEntry`, `CopyKernels`, `RemoveSaved`, `CreateFstab` |
| `remove_kernels` (1274), `post_destroy` | `RemoveEntry`, `RemoveKernels` |
| `post_rename` (1370) | `RenameKernels`, `RenameEntry`, `RemoveOldEntry` |
| `update_loader_default` (760), `post_activate` | `LoaderDefault` |
| `pre_snapshot` (1446) | `SaveKernels`, `SaveEntry`, `SaveFstab`, then `TakeSnapshot` |
| error paths; `replace_matched` (108) and unchecked flushes | `Fails`, `GoesOnTorn` |
| package manager, boot menu, kill | `Upgrade`, `Boot`, `Crash` |

An operation that does not find its file fails of itself (`Lacking`); any one may fail, or
be cut off halfway, at the cost of one of `MaxFaults`. `fstab` and `loader.conf` are replaced
through a temporary file and rename(2), so a kill leaves them whole, but a masked write
error does not (`GoesOnTorn`). After a failure `AfterFailure` is what the code does: `post_create`
ignores that the saved files stay, and the error of `pre_snapshot` is replaced by the result of the
unmount. The history variable `mixed` records that a command has paired files of different
environments, which three commands do by their code: `create -e` of an environment that is not the
activated one, `create -e` of a snapshot that `libze_create` took, and rename, which leaves
`fstab` alone.

`DatasetTree`. The dataset of the path `k` below the environment `e` is `Root(<<e>> \o k)`, so
that the effects of `ZfsPool` apply; what children add to a call (a dataset with mounted
children is busy, a recursive snapshot, a rename of a whole tree) is in the module. `todo` is the stack of
the callbacks: `todo[1]` is the next call, and a callback that calls `zfs_iter_filesystems` or
`zfs_iter_children` puts one task for each child on top, in any order. There is no boot pool
and no plugin here, and one shell.

| Code | Actions |
|---|---|
| the checks of each `libze_*` function | `Start` (`FirstCalls`) |
| `libze_activate`, `libze_activate_cb` | `SetActive`, `PromoteClones` |
| `libze_create`, `libze_clone_cb`, `libze_clone` | `TakeSnapshot`, `CloneTree` |
| `libze_destroy_cb` | `DestroyVisit`, `DestroyChildren`, `DestroyDataset` |
| `libze_mount`, `mount_callback` | `MountDown` |
| `unmount_callback` | `UnmountUp`, `UnmountDataset` |
| `libze_rename`, `libze_snapshot` | `RenameBE`, `TakeSnapshot` |
| zfs create, zfs clone, kill, reboot | `AddDataset`, `CloneDataset`, `Kill`, `Reboot` |

`FileReplace`. A file is a function from lines to the environment each names, `NoLine` for
one that is not there. `read` and `written` are a process's position in the file it reads and what
stdio has written out of its buffer, at any moment between two reads. `faults` counts the failures the code
looks at, `silent` those it does not: `fflush` and `fclose`, and everything in `replace_matched`'s loop.

| Code | Actions |
|---|---|
| `file_accessible` | `Access` |
| `libze_util_copy_file`, `libze_util_copy_filepointer` | `OpenBackup`, `CopyLine`, `EndCopy` |
| `mkstemp`, `replace_matched` | `MakeTemp`, `OpenFiles`, `ReplaceLine`, `StopReplacing`, `EndReplace` |
| `close`, `rename`, `remove` | `Close`, `RenameOver`, `RemoveTemp` |

`ZeHandle`. `proc[p]` is a command with its handle: `activated` and `props` as `Open` read them, `plugin`
as `Main` loaded it, and for a list what it has visited and collected. All other commands are steps of `BootEnvs`
(`Others`), to which an environment's creation second is added. Properties are token sequences that the
operators of `ZeStrings` put together and take apart as `parse_property`, `libze_add_set_property`,
`libze_add_get_property` and `libze_filter_be_props` do. `Tokens` is what they are made of: any set with the
separators and the names `main` and the plugin use. `ZeHistory` adds `said`, what each property was last set to as it
was typed, and `knew`, what `said` was when each process opened its handle.

| Code | Actions |
|---|---|
| `libze_init`, `libze_be_props_get` | `Open` |
| `libze_bootloader_set`, `libze_boot_pool_set`, `libze_validate_system`, `define_default_props` | `Main` |
| `ze_set`, `libze_set` | `Set` |
| `ze_get`, `libze_add_get_property` | `Get` |
| `ze_list`, `libze_list`, `libze_list_cb` | `StartList`, `Visit`, `EndList` |
| other commands, zfs inherit | `Others`, `Repair` |

## Runs

| Run | Question | Bounds | States |
|---|---|---|---|
| `crash` | Types, and the invariant of the proof; running and activated environment survive; no step removes the activated one; the commands implement `BootEnvs` | one shell, every command, plugin, 3 names, 1 suffix, 1 failing call, kills and reboots anywhere | 320 000 |
| `crash_boot_pool` | With pairs of datasets, the invariant of the proof for one shell; a reported success is a success in both pools | one shell, 6 of 8 operations (not snapshot, destroy of a snapshot), 3 names, 1 failing call, kills and reboots | 1 078 000 |
| `pairs` | Without failures nothing stays half mounted or with a temporary mountpoint; pairs stay complete while the running environment is the activated one; the invariants of both proofs | one shell, every command, boot pool, `mountpoint=legacy` on boot datasets, plugin, 3 names, 2 suffixes (`OneSuffixApart`: one once the two have been apart) | 377 000 |
| `create_race` | Pairs and results when two shells create, mount and snapshot at once | 2 shells, 2 names, 2 suffixes, boot pool, `legacy` and other boot datasets | 365 000 |
| `ends` | Every command returns; reported successes are real for the remaining commands too | one shell, every command, boot pool, `legacy` and other boot datasets, plugin, kills, reboots, 1 failing call, 2 names | 120 000 |
| `tree` | The callbacks keep to their environment, mounts stay nested, a walk fails only by a failing call, success is true of the tree, `BootEnvs` is implemented; the invariant of the proof | one shell, every command, 3 environments, 2 nested child paths of which the upper is unmanaged, at most 5 datasets, 4 after a failing call (`FewDatasets`), 1 suffix, 1 failing call, kills and reboots | 534 000 |
| `files` | The file is replaced atomically, backed up, and nothing is left behind; the invariant of the proof | 2 processes, 3 names, 2 lines, 1 failure that is seen and 1 that is not (`MaxFaults`, `MaxSilent`), kills | 173 000 |
| `props` | get shows and the plugin is what was set last; a list is complete | 2 shells, 5 argument lists of set, 2 properties of get, one plugin and one that does not load, 3 environments, 2 seconds (`MaxSecond`), 1 failing call; `Apart` | 70 000 |
| `esp` | Loader entries, kernels, `fstab`, `loader.conf` and saved files match the environments | every command and source, upgrades, reboots, no failure; 3 names, 2 kernel versions, 1 snapshot at a time | 3 597 000 |
| `esp_crash` | The running environment stays bootable | as `esp` with 1 kill or failing operation, 1 kernel version | 2 056 000 |
| `stale_active`, `activate_result` | The findings below | as small as shows them | - |

Why the bounds are enough to be interesting. Three names give a running, an
activated and a third environment at once, and a free name to create or rename
to; a chain of clones of length three; two suffixes let snapshots of one dataset
be in an order that promotion splits. One failing call anywhere reaches every
error path, and kills in `crash` add any number of interruptions to it. Two shells
are what a race in this code needs: a command compares with values it has
read itself, so the other shell has to change the pool in between once.
In `esp` the third name is needed for a rename (running, renamed, new name), two versions
to tell old kernels from new, one snapshot at a time because a create reads one. `MaxFaults`,
`MaxVersion` and `MaxSnaps` are the bounds; names and suffixes are finite
because they are constants. In `tree` two child paths, one below the other and the upper without a mountpoint,
give a walk that must go on below a dataset it skips; five datasets are three environments two of which have
children, or an environment with both children beside one with a child; after the failing call, four are still two environments with a
child each. In `files` two lines let a file be half written, and two
processes overlap in every way. In `props` the arguments of `set` contain a property with a namespace of its own, a boot
loader without plugin and one whose plugin does not load, a boot pool that cannot be opened, and a list of arguments of which one is
malformed (`MCTokens` is what these need); the bound `Apart` takes lists and property commands apart, as a list reads no property and the others do
not read creation times, and lets the environments change beside one property command at a time. `Names`, `Suffixes` and `Procs` are symmetric: no
definition tells one from another; the run with liveness uses no symmetry.

Deadlock is checked in every run: a shell can always start another command or
the machine reboot, so a deadlock would be a command with no continuation.

Why some runs leave commands or failures out:

- `PairsComplete` and `NoLeftoverMountpoint` are promises about runs without
  failing calls; the code has no recovery, and a failure in the second pool
  leaves half a pair. What must hold even then is `ActiveSafe` with `BootPool` (a part of
  `SingleInv`) and `SuccessIsReal` (both in `crash_boot_pool`).
- `MountedInPairs` and `MountInv` are checked in `pairs` with `BootMountpoints = {"legacy"}`, where they allow no exception. With
  `"other"` among the values they allow the root dataset of an environment to stay mounted alone, never the boot
  dataset, since the code does leave that: the mount fails for certain, with no failing call, and `libze_unmount`
  then refuses the half. The theorems cover every value of `BootMountpoints`.
- `PairsUntilApart` ends where the running and the activated environment have been different: a create
  then makes a pair from two environments, the root dataset cloned from the activated, the boot
  dataset from the running one (1930), though the comment at 1906 says bootfs; then destroying works
  in one pool and fails in the other. With two shells `PairsComplete` holds for the commands
  that only add (`create_race`); renames and destroys of one name by two shells
  can leave half a pair (see the hazards).
- `KernelsMatch` and `SnapshotsBootable` stop at a command that pairs files of different
  environments (`mixed`), since then they fail by the code: `post_create` copies the kernels of the
  activated environment whatever is cloned, though its comment (1109) says those of the
  environment being cloned; and `post_rename` leaves a `fstab` behind by which a later upgrade
  overwrites the kernels of another environment. `NoOrphans`, `DefaultIsActive` and
  `RunningBootable` do not stop there. All but `RunningBootable` need that nothing fails: no hook
  repairs what an earlier one left. With a boot pool `libze_destroy` skips the hook (2184) and files stay.
- `ReplacedIsBackedUp` is for updates that do not overlap: all share one `.bak`, which is truncated before the copy.
  `TargetWhole` and `NoTempLeft` need that no failure went unnoticed: `replace_matched` returns success whatever
  happened to its writes.
- `ListComplete` lets an environment be shadowed by another one of the same creation second (2325), and a list
  after a failing call be short: `libze_list` ignores the result of its iteration (2359).
- `TreeSuccessIsReal` holds of `create -r` since it never succeeds when there is a child: `libze_clone` forms a child's
  name as `be`, path, `/` (1591), which names nothing, so the command fails with the top dataset cloned.
- `ActiveSafe` is for one shell: two break it (finding `stale_active`), while
  `RunningSafe` holds for any number of them, which is what the proof shows.

Fairness. `FairSpec` has weak fairness of `CommandStep(p)`, for each process: a
command is straight-line code that blocks on nothing but libzfs, and the
scheduler keeps running it. Starting commands, kills and reboots have no
fairness. `CommandReturns` then says that no error path loops; the snapshot iteration
shrinks at each step.

## Findings

Each is a run that TLC finds violated, against what the repository says.

1. `stale_active`: `libze_rename` (2619) compares with the activated environment as read
   at start-up. Activated meanwhile by another command, it is renamed, though
   `docs/zectl.8.scd:78-79` excludes that; `libze_destroy` (2165) does the same.
2. `activate_result`: when `mid_activate` fails, `libze_activate` (1397) returns
   `LIBZE_ERROR_SUCCESS` and `bootfs` is unchanged.

The model shows more, which the hazards list with their lines and no run states:
the result of a rename is replaced by that of the hook (2663); a failing hook
leaves a new environment mounted at a temporary directory (1857); `create -e`
cannot work with a boot pool (1896); destroying a snapshot without a boot pool
reports an error after it has succeeded (2121); `destroy -F` of a mounted environment with a boot pool
unmounts the root dataset first, which is busy, ignores the failure (2000), destroys the snapshots and only
then gives up; `create -r` fails at the first child (1591); `create -e` takes snapshots of children or not,
as an uninitialised variable has it (1783); activation promotes no child of a dataset that is not a clone
itself (1304); a `bootpoolroot` or boot loader that is set but cannot be loaded stops every later
command, `zectl set` too (`src/zectl.c:144`, 1008); a `:` in a value makes another property of what comes before it (48);
a mount of an environment whose boot dataset has another `mountpoint` than `legacy`, and so a snapshot of it with a plugin,
is an error that leaves the root dataset mounted (2564), which `unmount` refuses and only a
forced destroy, an activate or a reboot ends; `ze_list` frees a list that was never allocated when the root dataset cannot be opened
(`src/zectl_list.c:169`); the `.bak` of two overlapping updates is neither's.

## Proofs

Each theorem holds for every value of the constants: any number of names, snapshots, children and, where it
says so, processes and failures. The assumptions on constants are `ZfsAssumption`, `ZectlAssumption`,
`SystemdBootAssumption`, `FileReplaceAssumption`, `DatasetTreeAssumption`, `ZeHandleAssumption` and `AbsentAssumption`: flags
are Booleans, bounds are numbers, the sentinels are no names, values or results, a child's path is a non-empty sequence of
strings, arguments and loaders are sequences of tokens, no boot loader both has a plugin and has a broken one. TLC evaluates
them in every run of their modules. A hypothesis beyond these is in the theorem's statement.

| Module | Theorems | For |
|---|---|---|
| `ZectlProofs` | `RunningInvariant`, `RunningSafety`, `TypeCorrect` | any shells, failures, kills, reboots |
| `ZectlSingleProofs` | `SingleInvariant`, `ActiveSafety`, `ActiveKeptAlways`, `BERefinement`, `SuccessReal` | one shell, failures, kills, reboots |
| `ZectlPairsProofs` | `MountInvariant`, `AlwaysMountedInPairs`, `NeverLeftoverMountpoint`, `PairInvariant`, `PairsStayComplete` | one shell, nothing fails or is killed |
| | `SuccessRealTogether` | any shells that create, mount and snapshot, without a plugin; failures, kills, reboots |
| | `PairsCompleteTogether` | any shells that create, mount, unmount and snapshot, with a plugin or without; nothing fails or is killed |
| `TreeProofs` | `TreeInvariant`, `TreeTypeCorrect`, `MountsStayNested`, `TreeOthersKept`, `TreeWalksComplete`, `TreeSuccess`, `TreeBERefinement` | one shell, any trees, failures, kills, reboots |
| `SystemdBootProofs` | `BootInvariant`, `RunningBootableAlways`, `EspTypeCorrect` | failures, half done operations, kills, reboots |
| | `SyncInvariant`, `DefaultFollowsPool`, `NothingOrphaned`, `KernelsAlwaysMatch`, `SnapshotsAlwaysBootable` | until the first failure or kill |
| `FileReplaceProofs` | `FileInvariant`, `FileTypeCorrect`, `FileWhole`, `NoTempRemains`, `FileRefinement` | any processes, failures, kills |
| | `BackupInvariant`, `BackupsKept` | the same, up to the first overlap |
| `ZeHandleProofs` | `HandleTypes`, `HandleListComplete` | any processes, arguments, other commands, failures, reboots |
| | `HandlePluginFollowsSet`, `HandleGetShowsWhatWasSet` | the same, where every `:` of an argument is in its name |
| | `NamesAgreeAlways` | any string and any buffer |

### Any number of shells

`ZectlProofs` proves that the running environment keeps its datasets, name and mounts. `RunningSafe` alone
is not inductive: from a state where a process stands at `rename_root` with the running environment as its
argument, the next step renames it. `Spares` says that this cannot be: at each label where an
environment is unmounted, destroyed, renamed or mounted elsewhere it is not
the running one, because the process has passed `libze_is_root_be`, and `running`
changes only in a reboot, which ends every command. Contrast `env_activated`,
for which the corresponding formula is not an invariant (finding 1). `Fits` says a
process at a label has the command that label belongs to, so that the fields
it uses are there; `Suffixed` that the suffix exists when the boot pool's snapshot
is taken. `RunningInv` is their conjunction with `TypeOK`. Destruction without force
needs no `Spares`: a mounted dataset cannot be destroyed, and the running one is
mounted.

Every step is split in two (`LocalStep`, `StorageKept`): what it does to its own
process, and what it does to the pool. `ZfsPoolProofs` shows that each
libzfs effect keeps the types (promotion and the removal of a snapshot being
the long ones), the `...Kept` lemmas that it keeps the running environment, and
one lemma per group of actions puts the two together. `StepKeepsInv` then covers
all other processes at once.

### One shell at a time

The activated environment, the refinement of `BootEnvs` and the truth of a success are theorems of
`ZectlSingleProofs` under `OneShell`, that `Procs` has at most one element. The hypothesis is needed: with two shells
`ActiveKept` is refuted (`stale_active`), since what a command read at its start no longer holds. The invariant
`SingleInv` adds to `RunningInv` what the one process has established at each label (`Solo`): the command the label belongs to
(`Belongs`), that `env_activated` still is `bootfs` where it is compared and that what is destroyed or renamed is not `bootfs`
(`Standing`), and which calls on the root pool have succeeded when it works on the boot pool (`DoneSoFar`), which is what makes a
reported success true. `UniqueNames`, that no dataset has two snapshots of one name, is there since after
`zfs_destroy_snaps` none of the name may be left. `StorageStep` says that a step has one of
the libzfs effects with the check libzfs makes; the lemmas about effects are then used once for all labels. For the refinement each
effect on the root datasets is one operation of `BootEnvs`, and any other a stutter.

`ZectlPairsProofs` needs `Calm` too: no call fails and nothing is killed (`MaxFaults = 0`, no crashes), as the code does not
repair a half done command. `MountInv` says for each label which dataset of the command's environment is mounted without the
other or has a mountpoint below `/tmp`; of all other environments none, but that a root dataset may stay mounted alone if
`BootMountpoints` has `"other"` (`Settled`). That half disturbs nothing else, and `PairInv` needs no exception for it: rename refuses it, a forced destroy unmounts it, and the temporary mount of
an activate fails on it and unmounts it. `PairInv` says that the two pools
mirror each other: the same environments, and a dataset is a clone of the same environment's snapshot in both. It speaks of origins
because a destroy succeeds or is refused by them: only if they agree does what worked in the root pool work in the boot pool. While a
command runs, its own environment may be ahead in the root pool (`HalfCreated`, `RootDestroyed`), or two names exchanged
(`HalfRenamed`). A new clone's origin is a snapshot without other clones (`CreatesAt`), a destroy has what it needs in both pools
(`DestroysAt`), a rename's new name is free (`RenamesAt`). Promotions need no case of their own: `set_bootfs` comes before them
and makes `apart` true, where the property ends.

### Shells that only add

With several shells the argument of `Solo` is gone, as what a command has read can be undone. What remains
is commands that take nothing away: `create`, `mount`, `unmount` and `snapshot` only make the sets of datasets and snapshots grow (`Grown`). Then
what a command has done in the root pool is still there when it returns (`AddedSoFar`, in `AddInv`), so that a success is true
(`SuccessRealTogether`, without `unmount`, and without the plugin, whose hook unmounts). For `PairsCompleteTogether`,
`HalvesInWork` says that each half of a pair is a root dataset for which exactly one `create`, whichever won the name, is about to
clone the boot dataset, and `CloneReady` that this clone cannot fail: the snapshot it needs is there and the name is free.

### Trees of datasets

`TreeProofs` proves everything `tree` checks, for any environments, any paths of children and any set of unmanaged ones, with failing
calls, kills and reboots. The walks are recursion that changes what it walks over, so that the
invariant has to say of the stack what is left to do; it is `TreeInv`.

- Names are paths. `Covers(x, d)`, x is d or above it, is a partial order in which what is above one dataset is a
  chain (`CoversOrder`); the children of a dataset do not cover each other and each existing dataset below one is
  below a child (`ChildFacts`, `ChildOnTheWay`).
- `TreeCore` is the part about the pool: above an existing dataset all exist (`Rooted`), the running and the
  activated environment exist and the running one is fully mounted (`Protected`), mounts are nested. The lemmas `TreeGrows`,
  `TreeMounted`, `TreeUnmounted`, `TreeShrinks`, `TreeRenamed` and `TreeRebooted` state under which condition an effect keeps it:
  mounting needs everything managed above mounted, unmounting nothing mounted below, destroying nothing left below.
- `StackOK` supplies these conditions. Each pending call is one that its command makes, on its own environment, with the checks of
  the beginning still true (`Fits`); and together they cover the rest: `MountRest`, a call above every dataset still to be mounted
  and no two on one path; `UnmountRest`, a call for each mounted dataset, before those of the datasets above it; `DestroyRest`,
  `CreateRest`, `ActivateRest`, the call on the top dataset that is yet to come.
- One lemma per command (`ActivateStep` to `MountStep`) shows `Good`: `TreeInv` again, no other environment touched, a step of
  `BootEnvs` or none, and success only when `Accomplished`. These are needed together: that a finished mount has mounted everything
  is `MountRest` with an empty stack; that a mount cannot fail by itself (`TreeWalksComplete`) is `MountRest` against the checks of
  libzfs.

### The ESP

`RunningBootable` is not inductive for two reasons. A hook could name the running environment:
`ControlOK` says that the ones that write entries or kernels name another, because
`libze_destroy` and `libze_rename` refuse it, a new name is not in use, and `running` changes only
between commands. And a reboot moves `running` to what the chosen entry names: `FilesOK`
says an entry names its own environment or nothing, which a create from a snapshot keeps only if saved
entries hold the placeholder and no name (`SavedOK`, of every environment and every snapshot).
The lemmas `EntryKept` to `SavedKept` do one kind of write each, `HookKeepsFiles` and
`TearKeepsFiles` apply them to the operations, and one lemma per action covers the rest.

The other part of `SystemdBootProofs` is about what a file operation that fails or a kill destroys, so its properties and its invariant
end there (`faults = 0`; no bound on faults is assumed). `SyncInv` says at every step of a hook what the ESP still lacks of the pool:
`loader.conf` names the activated environment except at `loader_default` (`DefaultOK`); every environment that exists and no other has
both its entry and its kernels or, after an operation that found nothing to work on, neither, except for the environment of the running hook at
the labels between (`PairsOK`); and, as long as no command has paired files of different environments (`~mixed`), entry, kernels,
modules and `fstab` of each environment belong together and so do the copies in each snapshot (`MatchOK`). `PairsOK` does not need
`~mixed`: a hook that finds one of its files missing finds the other missing too and stops before it has changed one, so
that `NoOrphans` goes on to hold.

### Replacing a file

`TargetWhole` is not inductive: the rename moves whatever the temporary file holds. `UpdateOK` says, label by
label, what an update has established of it: only lines of its own, those up to `written` written while
it replaces, all of them from `EndReplace` on, and that the open file it reads is whole although another process may have
renamed a new one over it. For the refinement `file` is the one name in a whole file or `NoLine`; every call but the
rename, the returns and the start maps to a stutter, a silent failure to `Unnoticed`, and the rename to `Update`, or to
`Spoil` after a silent failure. The mapping needs the invariant: `UpdateOK` says that the temporary file is the text
for the wanted environment when it is moved, or that a failure has gone unnoticed.

`ReplacedIsBackedUp` needs `BackupInv`: without an overlap at most one process is busy, what it has written to `.bak` is so far
the file's text, and from the end of the copy to the rename `.bak` is the file. Unless the one unnoticed failure was
the copy's: then the file was whole and nothing else goes wrong, so that the new text is whole, which `BackedUp` says
label by label; that is where the property claims nothing.

### Handle, properties and listing

`ZeHandleProofs` has three parts.

- Strings. Where the last or the first separator of a string is, what is before and after it, and that the parts put together are the
  string again. Two facts carry the rest: `GetProperty` is one-to-one where it matters, so that different names as typed are
  different properties of the pool (`bootloader` is no name of another namespace), and every name `SetProperty` makes is in the
  namespace `libze_be_props_get` keeps. `NamesAgreeAlways` is the same for names of snapshots, environments and
  pools; the run `props` evaluates it on strings of up to five tokens (`NamesAgree`).
- Types. `ZeTypeOK` is inductive only with what `OperatesOK` adds: the command a process runs is the one its label belongs to.
- Histories. `HistoryInv` ties the pool, the handle and the history together: the pool holds what was said last (`Records`);
  a handle that was just opened holds what its process knew, and one that `main` has passed holds in addition the defaults of
  `main` and of the plugin where nothing was set (`NotBegun`, `OpenedOK`, `PassedOK`), whatever others have
  set since; each line of a list has the marks that are true of the name it shows, and the second of each environment it has seen and
  that is still there has a line (`LinesOK`, `SeenOK`). `Records` is conditional on `ColonsInNames`, the rest is not, so that
  `ListComplete` follows without it.

The hypothesis `ColonsInNames` of two theorems is there because they are false without it: `parse_property` (48) looks for the
first `:` of the whole argument, so that `bootloader=a:b=c` sets `b` in a namespace `bootloader=a`. It holds of every argument whose
value has no `:` or whose name has one. The instance of `props` satisfies it, which TLC evaluates.

### Only model-checked

- `CommandReturns`: liveness under fairness, which the prover does not handle. The other properties of the passing runs are
  theorems, under the hypotheses of the table.
- Neither checked nor proved: `SuccessIsReal` and `PairsComplete` for several shells that rename or destroy. There the model shows races
  that break them (see the hazards).
- Findings are counterexamples, which only TLC gives.

## Not modelled

- Child datasets together with a boot pool, hooks or a second shell: `DatasetTree` has none of these, and `Zectl` has no
  child datasets. A command given a child's name (`activate default/usr`) is not a command of `DatasetTree`.
- The hooks inside `Zectl`: it has their timing, success or failure, and their mounts, while
  `SystemdBoot` takes a command as one step and has what the hooks write, for one shell.
- Regular expressions, the boot pool in `SystemdBoot`, and there also backups and temporary files, which
  `FileReplace` has. The loss of power in `FileReplace`: nothing is synced, so it depends on the file system.
- The directory name of a temporary mount. `temp_mount_be` returns a pointer to its own stack buffer (894, 901), which its
  callers hand to the hooks (1352, 1846) and to `rmdir` after it is gone: undefined behaviour, of which the models have only the
  outcome that the hook or a file operation of it fails, or that nothing comes of it. Nor does its check of `mkdtemp` (902)
  ever fail, as it tests the wrong pointer.
- `canmount` and the properties a clone takes from its source; `get` without an argument; the layout of `list`.
- `gen_snap_suffix` is any suffix, taken or not: the clock can give the same second twice.
- `dlopen`, message texts, option parsing, memory management.
- libzfs itself: `ZfsPool` states what libze.c relies on.

## Plan

Done: `ZfsPool`, `Zectl`, `Pairs`, `DatasetTree`, `SystemdBoot`, `FileReplace`, `ZeStrings` and `ZeHandle`, with
the proofs listed above. What would come next:

1. `SystemdBoot` composed with `Zectl`'s hook calls where two shells share the ESP.
2. Child datasets in two pools, for the functions that do the same in both.
