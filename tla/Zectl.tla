------------------------------- MODULE Zectl -------------------------------
(***************************************************************************)
(* zectl commands running against the storage of module ZfsPool.           *)
(*                                                                         *)
(* A process of Procs is a shell that runs one zectl command after         *)
(* another.  A command is a program of its own (src/zectl.c, main): it     *)
(* initialises a libze handle, validates the system, runs one function of  *)
(* lib/libze/libze.c and exits.  zectl takes no lock, so between any two   *)
(* libzfs calls of one command another command, a kill, or a reboot can    *)
(* happen: one action here is one libzfs call that changes the pool, or    *)
(* the group of reads the code does before it.                             *)
(*                                                                         *)
(* A libzfs call, a mount or a plugin hook may fail for reasons that are   *)
(* not modelled (I/O error, no space, busy file system); MaxFaults bounds  *)
(* how often that happens in a behaviour.  A boot loader plugin is         *)
(* modelled by when its hooks run and whether they succeed; the work of    *)
(* the systemd-boot hooks on the pool (pre_snapshot mounts and unmounts    *)
(* the environment) is modelled here too.                                  *)
(*                                                                         *)
(* Data left out: an environment is one dataset per pool, with no child    *)
(* datasets; the property canmount; wording of messages.                   *)
(***************************************************************************)
EXTENDS ZfsPool

CONSTANTS
  Procs,       \* shells that run zectl
  Ops,         \* the commands they run
  Plugin,      \* org.zectl:bootloader names a plugin that loads
  BootMountpoints,  \* what the property mountpoint of a boot dataset may be
  MayCrash,    \* a command may be killed between two steps
  MaxFaults    \* bound on calls that fail though the pool would allow them

ASSUME ZectlAssumption ==
  /\ Plugin \in BOOLEAN
  /\ BootMountpoints \subseteq {"legacy", "other"} /\ BootMountpoints # {}
  /\ MayCrash \in BOOLEAN
  /\ MaxFaults \in Nat
  /\ NoName \notin Suffixes

VARIABLES
  running,  \* the environment mounted at / (constant until a reboot)
  proc,     \* the state of each process
  faults    \* calls that have failed so far

vars == <<zfsVars, running, proc, faults>>

(***************************************************************************)
(* A command as its options structure holds it.  create takes its source   *)
(* from bootfs (from = NoName), from an existing dataset, or from an       *)
(* existing dataset@snapshot.                                              *)
(***************************************************************************)
AllCommands ==
       [op : {"activate", "mount", "unmount"}, be : Names]
  \cup [op : {"create"}, be : Names, from : {NoName}, snap : {NoName}]
  \cup [op : {"create"}, be : Names, from : Names, snap : Suffixes \cup {NoName}]
  \cup [op : {"destroy"}, be : Names, force : BOOLEAN]
  \cup [op : {"destroy_snapshot", "snapshot"}, be : Names, suffix : Suffixes]
  \cup [op : {"rename"}, be : Names, to : Names]

Commands == {c \in AllCommands : c.op \in Ops}
NoCommand == [op |-> "none", be |-> NoName]

Labels ==
  {"idle", "validate",
   "activate", "set_bootfs", "promote_root", "promote_boot", "post_activate",
   "tmp_mountpoint", "tmp_mount", "hook", "tmp_unmount", "tmp_reset",
   "cleanup_unmount", "cleanup_reset",
   "create", "create_snap", "create_snap_boot", "create_again", "clone_root",
   "clone_boot", "post_create",
   "destroy", "destroy_check", "destroy_snaps", "destroy_fs", "destroy_origin",
   "post_destroy", "destroy_snapshot", "dsnap_root", "dsnap_boot",
   "rename", "rename_root", "rename_boot", "post_rename",
   "mount", "mount_root", "mount_boot", "unmount", "unmount_boot", "unmount_root",
   "snapshot", "pre_snapshot", "snap_root", "snap_boot"}

Results == {"none", "ok", "fail", "killed"}

\* The libze handle and the local variables of the running command.
ProcState ==
  [pc : Labels,
   cmd : AllCommands \cup {NoCommand},
   act : Names \cup {NoName},         \* lzeh->env_activated, read once
   ret : Results,                     \* ret, then the result of the last command
   sfx : Suffixes \cup {NoName},      \* cdata.snap_suffix
   pool : {"root", "boot"},           \* the pool libze_destroy_cb works on
   orig : Snapshots \cup {NoSnap},    \* origin_h
   iter : SUBSET Suffixes]            \* snapshots zfs_iter_children has yet to visit

Idle(r) ==
  [pc |-> "idle", cmd |-> NoCommand, act |-> NoName, ret |-> r,
   sfx |-> NoName, pool |-> "root", orig |-> NoSnap, iter |-> {}]

TypeOK ==
  /\ ZfsTypeOK
  /\ running \in Names
  /\ proc \in [Procs -> ProcState]
  /\ faults \in 0 .. MaxFaults

Init ==
  \E n \in Names :
    /\ ZfsInit(n)
    /\ running = n
    /\ proc = [p \in Procs |-> Idle("none")]
    /\ faults = 0

(***************************************************************************)
(* Control flow.                                                           *)
(***************************************************************************)
At(p, l) == proc[p].pc = l
AllIdle == \A p \in Procs : At(p, "idle")
Goto(p, l) == proc' = [proc EXCEPT ![p].pc = l]
Return(p, r) == proc' = [proc EXCEPT ![p] = Idle(r)]

\* A call that succeeds when can holds, and may fail even then.
Works(can) == can /\ UNCHANGED faults
Fails(can) ==
  \/ ~can /\ UNCHANGED faults
  \/ can /\ faults < MaxFaults /\ faults' = faults + 1

Call(can, effect, then, else) ==
  \/ Works(can) /\ effect /\ then
  \/ Fails(can) /\ UNCHANGED zfsVars /\ else

\* A group of reads and the checks on them; a read may fail as well.
Check(can, then, else) == Call(can, UNCHANGED zfsVars, then, else)

\* A plugin hook that leaves the pool alone.
Hook(then, else) == Check(TRUE, then, else)

(***************************************************************************)
(* validate_existing_be and validate_new_be.                               *)
(***************************************************************************)
Existing(n) == Root(n) \in fs /\ (BootPool => Boot(n) \in fs)
New(n) == Root(n) \notin fs /\ (BootPool => Boot(n) \notin fs)

\* libze_is_root_be and libze_is_active_be.
IsRoot(n) == n = running
IsActive(p, n) == n = proc[p].act

(***************************************************************************)
(* main: libze_init reads the running environment and bootfs once, and     *)
(* gives up when bootfs has no '/'; libze_validate_system then checks both *)
(* environments, and the command starts.                                   *)
(***************************************************************************)
LibzeInit(p) ==
  /\ At(p, "idle")
  /\ \E c \in Commands :
       IF bootfs # NoName
       THEN proc' = [proc EXCEPT ![p] = [Idle("ok") EXCEPT !.pc = "validate",
                                                           !.cmd = c,
                                                           !.act = bootfs]]
       ELSE Return(p, "fail")
  /\ UNCHANGED <<zfsVars, faults>>

ValidateSystem(p) ==
  /\ At(p, "validate")
  /\ Check(Existing(proc[p].act) /\ Existing(running),
           Goto(p, proc[p].cmd.op),
           Return(p, "fail"))

(***************************************************************************)
(* temp_mount_be, a hook on the mounted environment, temp_unmount_be: used *)
(* by mid_activate and by post_create.  A failure makes create return an   *)
(* error, but libze_activate leaves ret at LIBZE_ERROR_SUCCESS when        *)
(* mid_activate fails.                                                     *)
(***************************************************************************)
HookFailed(p) == Return(p, IF proc[p].cmd.op = "activate" THEN "ok" ELSE "fail")
HookDone(p) ==
  IF proc[p].cmd.op = "activate" THEN Goto(p, "set_bootfs") ELSE Return(p, "ok")

\* The environment is already at / when it is the running one.
TempMountAndHook(p) ==
  Goto(p, IF IsRoot(proc[p].cmd.be) THEN "hook" ELSE "tmp_mountpoint")

TempMountpoint(p) ==
  LET d == Root(proc[p].cmd.be) IN
  /\ At(p, "tmp_mountpoint")
  /\ Call(CanSetMountpoint(d), SetMountpoint(d, TRUE),
          Goto(p, "tmp_mount"), Goto(p, "cleanup_unmount"))

\* zfs_mount refuses a dataset that is mounted already.
TempMount(p) ==
  LET d == Root(proc[p].cmd.be) IN
  /\ At(p, "tmp_mount")
  /\ Call(CanMount(d) /\ d \notin mounted, Mount(d),
          Goto(p, "hook"), Goto(p, "cleanup_unmount"))

\* plugin_mid_activate or plugin_post_create; on failure nothing is unmounted.
MountedHook(p) ==
  /\ At(p, "hook")
  /\ Hook(IF IsRoot(proc[p].cmd.be) THEN HookDone(p) ELSE Goto(p, "tmp_unmount"),
          HookFailed(p))

\* temp_unmount_be: nothing to do, and no property reset, when the dataset
\* is not mounted.
TempUnmount(p, here, reset, done) ==
  LET d == Root(proc[p].cmd.be) IN
  /\ At(p, here)
  /\ IF d \in mounted
     THEN Call(CanUnmount(d), Unmount(d), Goto(p, reset), HookFailed(p))
     ELSE done /\ UNCHANGED <<zfsVars, faults>>

TempReset(p, here, done) ==
  LET d == Root(proc[p].cmd.be) IN
  /\ At(p, here)
  /\ Call(CanSetMountpoint(d), SetMountpoint(d, FALSE), done, HookFailed(p))

TempUnmountAfterHook(p) == TempUnmount(p, "tmp_unmount", "tmp_reset", HookDone(p))
\* Mutant, no code of zectl: the mountpoint property is not reset.
TempNotReset(p) == At(p, "tmp_reset") /\ Check(TRUE, HookDone(p), HookFailed(p))

TempResetAfterHook(p) == TempReset(p, "tmp_reset", HookDone(p))
TempUnmountOnError(p) == TempUnmount(p, "cleanup_unmount", "cleanup_reset", HookFailed(p))
TempResetOnError(p) == TempReset(p, "cleanup_reset", HookFailed(p))

(***************************************************************************)
(* zectl activate.  Without a plugin mid_activate mounts nothing, but      *)
(* still unmounts the environment if it is mounted.                        *)
(***************************************************************************)
Activate(p) ==
  LET b == proc[p].cmd.be IN
  /\ At(p, "activate")
  /\ Check(~IsActive(p, b) /\ Existing(b),
           CASE Plugin -> TempMountAndHook(p)
             [] ~Plugin /\ IsRoot(b) -> Goto(p, "set_bootfs")
             [] OTHER -> Goto(p, "tmp_unmount"),
           Return(p, "fail"))

ActivateSetBootfs(p) ==
  LET b == proc[p].cmd.be IN
  /\ At(p, "set_bootfs")
  /\ Call(CanSetBootfs(b), SetBootfs(b), Goto(p, "promote_root"), Return(p, "fail"))

\* libze_activate_cb: promotes a clone, and only once.
ActivateCb(d, then, else) ==
  IF origin[d] = NoSnap
  THEN Check(d \in fs, then, else)
  ELSE Call(CanPromote(d), Promote(d), then, else)

ActivatePromote(p) ==
  /\ At(p, "promote_root")
  /\ ActivateCb(Root(proc[p].cmd.be),
                Goto(p, IF BootPool THEN "promote_boot" ELSE "post_activate"),
                Return(p, "fail"))

\* A failure here is recorded in ret, and the post-activate hook still runs.
ActivatePromoteBoot(p) ==
  /\ At(p, "promote_boot")
  /\ ActivateCb(Boot(proc[p].cmd.be),
                Goto(p, "post_activate"),
                proc' = [proc EXCEPT ![p].pc = "post_activate", ![p].ret = "fail"])

\* A failure of the hook does not change ret.
PostActivate(p) ==
  /\ At(p, "post_activate")
  /\ IF Plugin
     THEN Hook(Return(p, proc[p].ret), Return(p, proc[p].ret))
     ELSE Return(p, proc[p].ret) /\ UNCHANGED <<zfsVars, faults>>

(***************************************************************************)
(* zectl create.  The root dataset is cloned from a snapshot of the source *)
(* dataset or, by default, of the activated environment; the boot dataset  *)
(* from a snapshot of the running one.  The snapshot is named after the    *)
(* second it is taken in (gen_snap_suffix), so any suffix can come out,    *)
(* one that is taken included.                                             *)
(***************************************************************************)
FromBootfs(c) == c.from = NoName
CreateSource(p) ==
  IF FromBootfs(proc[p].cmd) THEN Root(proc[p].act) ELSE Root(proc[p].cmd.from)

\* With a boot pool prepare_existing_boot_pool_data looks for the boot
\* dataset of the environment that is to be created, so -e never goes on.
Create(p) ==
  LET c == proc[p].cmd IN
  /\ At(p, "create")
  /\ IF c.snap = NoName
     THEN Check(New(c.be), Goto(p, "create_snap"), Return(p, "fail"))
     ELSE Check(New(c.be) /\ c.snap \in SnapsOf(CreateSource(p)) /\ ~BootPool,
                proc' = [proc EXCEPT ![p].pc = "create_again", ![p].sfx = c.snap],
                Return(p, "fail"))

CreateSnap(p) ==
  LET c == proc[p].cmd
      next == CASE ~BootPool -> "create_again"
                [] BootPool /\ FromBootfs(c) -> "create_snap_boot"
                [] OTHER -> "idle"
  IN
  /\ At(p, "create_snap")
  /\ \E s \in Suffixes :
       Call(CanSnapshot(CreateSource(p), s), Snapshot(CreateSource(p), s),
            IF next = "idle" THEN Return(p, "fail")
            ELSE proc' = [proc EXCEPT ![p].pc = next, ![p].sfx = s],
            Return(p, "fail"))

CreateSnapBoot(p) ==
  LET s == proc[p].sfx IN
  /\ At(p, "create_snap_boot")
  /\ Call(CanSnapshot(Boot(running), s), Snapshot(Boot(running), s),
          Goto(p, "create_again"), Return(p, "fail"))

\* The second validate_new_be.
CreateAgain(p) ==
  /\ At(p, "create_again")
  /\ Check(New(proc[p].cmd.be), Goto(p, "clone_root"), Return(p, "fail"))

CreateDone(p) == IF Plugin THEN Goto(p, "post_create") ELSE Return(p, "ok")

\* Mutant, no code of zectl: the boot pool is forgotten.
CloneRootOnly(p) ==
  LET d == Root(proc[p].cmd.be) IN
  /\ At(p, "clone_root")
  /\ Call(CanClone(d, CreateSource(p), proc[p].sfx),
          Clone(d, CreateSource(p), proc[p].sfx),
          CreateDone(p), Return(p, "fail"))

CloneRoot(p) ==
  LET d == Root(proc[p].cmd.be) IN
  /\ At(p, "clone_root")
  /\ Call(CanClone(d, CreateSource(p), proc[p].sfx),
          Clone(d, CreateSource(p), proc[p].sfx),
          IF BootPool THEN Goto(p, "clone_boot") ELSE CreateDone(p),
          Return(p, "fail"))

CloneBoot(p) ==
  LET d == Boot(proc[p].cmd.be) IN
  /\ At(p, "clone_boot")
  /\ Call(CanClone(d, Boot(running), proc[p].sfx),
          Clone(d, Boot(running), proc[p].sfx),
          CreateDone(p), Return(p, "fail"))

PostCreate(p) ==
  /\ At(p, "post_create")
  /\ Check(Existing(proc[p].cmd.be), TempMountAndHook(p), Return(p, "fail"))

(***************************************************************************)
(* zectl destroy <boot-environment>.  libze_destroy_cb runs on the root    *)
(* dataset and then, with a boot pool, on the boot dataset: it unmounts if *)
(* forced, destroys the snapshots, the dataset and, since ze_destroy       *)
(* always asks for it, the snapshot the dataset was cloned from.           *)
(***************************************************************************)
\* Mutant, no code of zectl: libze_is_active_be is not asked.
DestroyOfActive(p) ==
  /\ At(p, "destroy")
  /\ Check(Existing(proc[p].cmd.be) /\ ~IsRoot(proc[p].cmd.be),
           proc' = [proc EXCEPT ![p].pc = "destroy_check", ![p].pool = "root"],
           Return(p, "fail"))

\* Mutant, no code of zectl: libze_is_root_be is not asked.
DestroyOfRoot(p) ==
  /\ At(p, "destroy")
  /\ Check(Existing(proc[p].cmd.be) /\ ~IsActive(p, proc[p].cmd.be),
           proc' = [proc EXCEPT ![p].pc = "destroy_check", ![p].pool = "root"],
           Return(p, "fail"))

Destroy(p) ==
  LET b == proc[p].cmd.be IN
  /\ At(p, "destroy")
  /\ Check(Existing(b) /\ ~IsActive(p, b) /\ ~IsRoot(b),
           proc' = [proc EXCEPT ![p].pc = "destroy_check", ![p].pool = "root"],
           Return(p, "fail"))

Target(p) == <<proc[p].pool, proc[p].cmd.be>>

\* The result of the forced unmount is ignored; opening the origin may fail.
DestroyCheck(p) ==
  LET d == Target(p)
      go == proc' = [proc EXCEPT ![p].pc = "destroy_snaps",
                                 ![p].orig = origin[d],
                                 ![p].iter = SnapsOf(d)]
  IN
  /\ At(p, "destroy_check")
  /\ IF d \in mounted /\ proc[p].cmd.force
     THEN \/ Call(CanUnmount(d), Unmount(d), go, go)
          \/ /\ origin[d] # NoSnap /\ Fails(TRUE)
             /\ (CanUnmount(d) /\ Unmount(d)) \/ UNCHANGED zfsVars
             /\ Return(p, "fail")
     ELSE Check(d \in fs /\ d \notin mounted, go, Return(p, "fail"))

\* Mutant, no code of zectl: a snapshot that cannot be destroyed is tried again.
DestroySnapsAgain(p) ==
  /\ At(p, "destroy_snaps")
  /\ IF proc[p].iter = {}
     THEN Goto(p, "destroy_fs") /\ UNCHANGED <<zfsVars, faults>>
     ELSE \E s \in proc[p].iter :
            Call(CanDestroySnap(Target(p), s), DestroySnap(Target(p), s),
                 proc' = [proc EXCEPT ![p].iter = @ \ {s}],
                 Goto(p, "destroy_snaps"))

\* zfs_iter_children stops at the first snapshot that cannot be destroyed.
DestroySnaps(p) ==
  /\ At(p, "destroy_snaps")
  /\ IF proc[p].iter = {}
     THEN Goto(p, "destroy_fs") /\ UNCHANGED <<zfsVars, faults>>
     ELSE \E s \in proc[p].iter :
            Call(CanDestroySnap(Target(p), s), DestroySnap(Target(p), s),
                 proc' = [proc EXCEPT ![p].iter = @ \ {s}],
                 Return(p, "fail"))

\* Mutant, no code of zectl: the boot pool is forgotten.
DestroyedRootOnly(p) == Goto(p, "post_destroy")

\* libze_destroy returns from within the boot pool block, so with a boot
\* pool the post-destroy hook does not run.
DestroyedDataset(p) ==
  CASE BootPool /\ proc[p].pool = "root" ->
         proc' = [proc EXCEPT ![p].pc = "destroy_check", ![p].pool = "boot"]
    [] BootPool /\ proc[p].pool = "boot" -> Return(p, "ok")
    [] OTHER -> Goto(p, "post_destroy")

\* Mutant, no code of zectl: the dataset goes although it is mounted.
DestroyMountedDataset(p) ==
  /\ At(p, "destroy_fs")
  /\ Call(Target(p) \in fs, DestroyFs(Target(p)),
          IF proc[p].orig = NoSnap THEN DestroyedDataset(p)
                                   ELSE Goto(p, "destroy_origin"),
          Return(p, "fail"))

DestroyDataset(p) ==
  /\ At(p, "destroy_fs")
  /\ Call(CanDestroyFs(Target(p)), DestroyFs(Target(p)),
          IF proc[p].orig = NoSnap THEN DestroyedDataset(p)
                                   ELSE Goto(p, "destroy_origin"),
          Return(p, "fail"))

DestroyOrigin(p) ==
  LET o == proc[p].orig IN
  /\ At(p, "destroy_origin")
  /\ Call(CanDestroySnap(o[1], o[2]), DestroySnap(o[1], o[2]),
          DestroyedDataset(p), Return(p, "fail"))

PostDestroy(p) ==
  /\ At(p, "post_destroy")
  /\ IF Plugin
     THEN Hook(Return(p, "ok"), Return(p, "fail"))
     ELSE Return(p, "ok") /\ UNCHANGED <<zfsVars, faults>>

(***************************************************************************)
(* zectl destroy <boot-environment>@<snapshot>.  libze_destroy hands       *)
(* destroy_snapshot an empty name, not NULL, when there is no boot pool,   *)
(* and so gets an error after the snapshot is gone.                        *)
(***************************************************************************)
DestroySnapshot(p) ==
  LET c == proc[p].cmd IN
  /\ At(p, "destroy_snapshot")
  /\ Check(c.suffix \in SnapsOf(Root(c.be)) /\ Existing(c.be),
           Goto(p, "dsnap_root"), Return(p, "fail"))

DestroySnapshotRoot(p) ==
  LET c == proc[p].cmd IN
  /\ At(p, "dsnap_root")
  /\ Call(CanDestroySnap(Root(c.be), c.suffix), DestroySnap(Root(c.be), c.suffix),
          IF BootPool THEN Goto(p, "dsnap_boot") ELSE Return(p, "fail"),
          Return(p, "fail"))

DestroySnapshotBoot(p) ==
  LET c == proc[p].cmd IN
  /\ At(p, "dsnap_boot")
  /\ Call(CanDestroySnap(Boot(c.be), c.suffix), DestroySnap(Boot(c.be), c.suffix),
          Goto(p, "post_destroy"), Return(p, "fail"))

(***************************************************************************)
(* zectl rename.                                                           *)
(***************************************************************************)
\* Mutant, no code of zectl: libze_is_active_be is not asked.
RenameOfActive(p) ==
  LET c == proc[p].cmd IN
  /\ At(p, "rename")
  /\ Check(/\ New(c.to) /\ Existing(c.be) /\ ~IsRoot(c.be)
           /\ Root(c.be) \notin mounted /\ (BootPool => Boot(c.be) \notin mounted),
           Goto(p, "rename_root"), Return(p, "fail"))

RenameBE(p) ==
  LET c == proc[p].cmd IN
  /\ At(p, "rename")
  /\ Check(/\ New(c.to) /\ Existing(c.be)
           /\ ~IsRoot(c.be) /\ ~IsActive(p, c.be)
           /\ Root(c.be) \notin mounted /\ (BootPool => Boot(c.be) \notin mounted),
           Goto(p, "rename_root"), Return(p, "fail"))

RenameRoot(p) ==
  LET c == proc[p].cmd IN
  /\ At(p, "rename_root")
  /\ Call(CanRename(Root(c.be), Root(c.to)), Rename(Root(c.be), Root(c.to)),
          Goto(p, IF BootPool THEN "rename_boot" ELSE "post_rename"),
          Return(p, "fail"))

RenameBoot(p) ==
  LET c == proc[p].cmd IN
  /\ At(p, "rename_boot")
  /\ Call(CanRename(Boot(c.be), Boot(c.to)), Rename(Boot(c.be), Boot(c.to)),
          Goto(p, "post_rename"),
          proc' = [proc EXCEPT ![p].pc = "post_rename", ![p].ret = "fail"])

\* The result of the hook replaces ret.
PostRename(p) ==
  /\ At(p, "post_rename")
  /\ IF Plugin
     THEN Hook(Return(p, "ok"), Return(p, "fail"))
     ELSE Return(p, proc[p].ret) /\ UNCHANGED <<zfsVars, faults>>

(***************************************************************************)
(* zectl mount and zectl unmount, which the pre-snapshot hook calls too.   *)
(* A mount that fails half way leaves what it has mounted.                 *)
(***************************************************************************)
MountDone(p) ==
  IF proc[p].cmd.op = "mount" THEN Return(p, "ok") ELSE Goto(p, "pre_snapshot")

MountBE(p) ==
  LET b == proc[p].cmd.be IN
  /\ At(p, "mount")
  /\ Check(Existing(b) /\ ~IsRoot(b) /\ Root(b) \notin mounted,
           Goto(p, "mount_root"), Return(p, "fail"))

\* Mutant, no code of zectl: the boot dataset is forgotten.
MountRootOnly(p) ==
  LET d == Root(proc[p].cmd.be) IN
  /\ At(p, "mount_root")
  /\ Call(CanMount(d), Mount(d), MountDone(p), Return(p, "fail"))

MountRoot(p) ==
  LET d == Root(proc[p].cmd.be) IN
  /\ At(p, "mount_root")
  /\ Call(CanMount(d), Mount(d),
          IF BootPool THEN Goto(p, "mount_boot") ELSE MountDone(p),
          Return(p, "fail"))

\* libze_mount mounts the boot dataset only where the fstab of the environment
\* would (mountpoint=legacy); any other is an error, and the root dataset stays
\* mounted.
MountBoot(p) ==
  LET d == Boot(proc[p].cmd.be) IN
  /\ At(p, "mount_boot")
  /\ \/ /\ "legacy" \in BootMountpoints
        /\ Call(CanMount(d), Mount(d), MountDone(p), Return(p, "fail"))
     \/ /\ "other" \in BootMountpoints
        /\ Return(p, "fail") /\ UNCHANGED <<zfsVars, faults>>

UnmountDone(p) ==
  IF proc[p].cmd.op = "unmount" THEN Return(p, "ok") ELSE Goto(p, "snap_root")

\* Mutant, no code of zectl: libze_is_root_be is not asked.
UnmountOfRoot(p) ==
  LET b == proc[p].cmd.be IN
  /\ At(p, "unmount")
  /\ Check(/\ Existing(b)
           /\ Root(b) \in mounted /\ (BootPool => Boot(b) \in mounted),
           Goto(p, IF BootPool THEN "unmount_boot" ELSE "unmount_root"),
           Return(p, "fail"))

UnmountBE(p) ==
  LET b == proc[p].cmd.be IN
  /\ At(p, "unmount")
  /\ Check(/\ ~IsRoot(b) /\ Existing(b)
           /\ Root(b) \in mounted /\ (BootPool => Boot(b) \in mounted),
           Goto(p, IF BootPool THEN "unmount_boot" ELSE "unmount_root"),
           Return(p, "fail"))

\* unmount_callback.
UnmountCallback(p, d, then) ==
  IF d \in mounted
  THEN Call(CanUnmount(d), Unmount(d), then, Return(p, "fail"))
  ELSE then /\ UNCHANGED <<zfsVars, faults>>

UnmountBoot(p) ==
  /\ At(p, "unmount_boot")
  /\ UnmountCallback(p, Boot(proc[p].cmd.be), Goto(p, "unmount_root"))

UnmountRoot(p) ==
  /\ At(p, "unmount_root")
  /\ UnmountCallback(p, Root(proc[p].cmd.be), UnmountDone(p))

(***************************************************************************)
(* zectl snapshot.  The pre-snapshot hook copies the kernels into the      *)
(* environment: it mounts it first, unless it is running, and its result   *)
(* is then the result of the unmount, whatever became of the copy.         *)
(***************************************************************************)
SnapshotBE(p) ==
  LET b == proc[p].cmd.be
      next == CASE ~Plugin -> "snap_root"
                [] Plugin /\ IsRoot(b) -> "pre_snapshot"
                [] OTHER -> "mount"
  IN
  /\ At(p, "snapshot")
  /\ Check(Existing(b), Goto(p, next), Return(p, "fail"))

PreSnapshot(p) ==
  /\ At(p, "pre_snapshot")
  /\ IF IsRoot(proc[p].cmd.be)
     THEN Hook(Goto(p, "snap_root"), Return(p, "fail"))
     ELSE Hook(Goto(p, "unmount"), Goto(p, "unmount"))

SnapshotRoot(p) ==
  LET c == proc[p].cmd IN
  /\ At(p, "snap_root")
  /\ Call(CanSnapshot(Root(c.be), c.suffix), Snapshot(Root(c.be), c.suffix),
          IF BootPool THEN Goto(p, "snap_boot") ELSE Return(p, "ok"),
          Return(p, "fail"))

SnapshotBoot(p) ==
  LET c == proc[p].cmd IN
  /\ At(p, "snap_boot")
  /\ Call(CanSnapshot(Boot(c.be), c.suffix), Snapshot(Boot(c.be), c.suffix),
          Return(p, "ok"), Return(p, "fail"))

(***************************************************************************)
(* The environment: a command can be killed, and the machine can reboot    *)
(* into the activated environment or, from the boot menu a plugin keeps,   *)
(* into any other complete one.  A reboot ends every mount and, when the   *)
(* machine may crash, comes in the middle of a command; the properties in  *)
(* the pool stay.                                                          *)
(***************************************************************************)
Kill(p) ==
  /\ MayCrash
  /\ ~At(p, "idle")
  /\ Return(p, "killed")
  /\ UNCHANGED <<zfsVars, faults>>

Bootable == {n \in Names : Existing(n) /\ (Plugin \/ n = bootfs)}

Reboot ==
  /\ MayCrash \/ AllIdle
  /\ \E n \in Bootable :
       /\ running' = n
       /\ mounted' = Pools \X {n}
  /\ proc' = [p \in Procs |-> IF At(p, "idle") THEN proc[p] ELSE Idle("killed")]
  /\ UNCHANGED <<fs, snaps, origin, tmpmp, bootfs, faults>>

(***************************************************************************)
(* The next-state relation.                                                *)
(***************************************************************************)
TempMountStep(p) ==
  \/ TempMountpoint(p) \/ TempMount(p) \/ MountedHook(p)
  \/ TempUnmountAfterHook(p) \/ TempResetAfterHook(p)
  \/ TempUnmountOnError(p) \/ TempResetOnError(p)

ActivateStep(p) ==
  \/ Activate(p) \/ ActivateSetBootfs(p) \/ ActivatePromote(p)
  \/ ActivatePromoteBoot(p) \/ PostActivate(p)

CreateStep(p) ==
  \/ Create(p) \/ CreateSnap(p) \/ CreateSnapBoot(p) \/ CreateAgain(p)
  \/ CloneRoot(p) \/ CloneBoot(p) \/ PostCreate(p)

DestroyStep(p) ==
  \/ Destroy(p) \/ DestroyCheck(p) \/ DestroySnaps(p) \/ DestroyDataset(p)
  \/ DestroyOrigin(p) \/ PostDestroy(p)
  \/ DestroySnapshot(p) \/ DestroySnapshotRoot(p) \/ DestroySnapshotBoot(p)

RenameStep(p) == RenameBE(p) \/ RenameRoot(p) \/ RenameBoot(p) \/ PostRename(p)

MountStep(p) ==
  \/ MountBE(p) \/ MountRoot(p) \/ MountBoot(p)
  \/ UnmountBE(p) \/ UnmountBoot(p) \/ UnmountRoot(p)

SnapshotStep(p) ==
  \/ SnapshotBE(p) \/ PreSnapshot(p) \/ SnapshotRoot(p) \/ SnapshotBoot(p)

\* One step of the command p runs.
CommandStep(p) ==
  \/ ValidateSystem(p) \/ TempMountStep(p) \/ ActivateStep(p) \/ CreateStep(p)
  \/ DestroyStep(p) \/ RenameStep(p) \/ MountStep(p) \/ SnapshotStep(p)

Next ==
  \/ \E p \in Procs : (LibzeInit(p) \/ CommandStep(p) \/ Kill(p)) /\ UNCHANGED running
  \/ Reboot

Spec == Init /\ [][Next]_vars

\* A command is straight-line code that the scheduler keeps running.
FairSpec == Spec /\ \A p \in Procs : WF_vars(CommandStep(p) /\ UNCHANGED running)
=============================================================================
