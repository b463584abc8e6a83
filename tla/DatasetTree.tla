---------------------------- MODULE DatasetTree ----------------------------
(***************************************************************************)
(* Boot environments with child datasets.                                  *)
(*                                                                         *)
(* Module Zectl has one dataset per pool and environment.  Here there is   *)
(* no boot pool, and an environment is a tree of datasets that libze.c     *)
(* walks with recursive callbacks (libze_clone_cb, libze_activate_cb,      *)
(* libze_destroy_cb, mount_callback, unmount_callback).  The recursion is  *)
(* the stack todo: its first task is the next libzfs call to make, and a   *)
(* callback that visits children puts one task for each on the stack, in   *)
(* any order, as the order of the zfs_iter functions is not specified.     *)
(*                                                                         *)
(* One shell runs one command after another; between commands the          *)
(* administrator may add a child dataset.  Any call may fail, up to        *)
(* MaxFaults times, and a command may be killed before any call.           *)
(*                                                                         *)
(* Data left out: canmount and other properties, plugin hooks (module      *)
(* Zectl has when they run), child datasets named on the command line.     *)
(***************************************************************************)
EXTENDS ZfsPool, FiniteSets

SeqX == INSTANCE SequencesExt

CONSTANTS
  Envs,       \* the boot environments
  Kids,       \* the paths of child datasets below an environment
  Unmanaged,  \* those of Kids whose mountpoint is "none" or "legacy"
  Ops,        \* the commands that are run
  MayCrash,   \* a command may be killed between two calls
  MaxFaults   \* bound on calls that fail though the pool would allow them

Paths == {<< >>} \cup Kids

\* The name of a dataset is its environment followed by its path.
ASSUME DatasetTreeAssumption ==
  /\ ~BootPool
  /\ Kids \subseteq Seq(STRING)
  /\ \A k \in Kids : k # << >> /\ SeqX!Front(k) \in Paths
  /\ Unmanaged \subseteq Kids
  /\ Names = {<<p[1]>> \o p[2] : p \in Envs \X Paths}
  /\ MayCrash \in BOOLEAN /\ MaxFaults \in Nat

VARIABLES
  running,  \* the environment mounted at /
  cmd,      \* the running command, or NoCommand
  todo,     \* the calls it has yet to make: the stack of its callbacks
  result,   \* how the last command ended
  faults    \* calls that have failed so far

treeVars == <<zfsVars, running, cmd, todo, result, faults>>

Commands ==
  {c \in
         [op : {"activate", "mount", "unmount"}, be : Envs]
    \cup [op : {"create"}, be : Envs, from : {NoName}, snap : {NoName}, recursive : BOOLEAN]
    \cup [op : {"create"}, be : Envs, from : Envs, snap : Suffixes \cup {NoName},
          recursive : BOOLEAN]
    \cup [op : {"destroy"}, be : Envs, force : BOOLEAN]
    \cup [op : {"snapshot"}, be : Envs, suffix : Suffixes]
    \cup [op : {"rename"}, be : Envs, to : Envs] : c.op \in Ops}
NoCommand == [op |-> "none"]

Calls ==
  {"set_bootfs", "promote", "snap", "snap_tree", "clone", "destroy", "destroy_children",
   "destroy_fs", "destroy_snap", "rename", "mount_top", "mount", "unmount", "unmount_fs"}
Task(call, d) == [call |-> call, ds |-> d, snap |-> NoName]
SnapTask(call, d, s) == [call |-> call, ds |-> d, snap |-> s]
Tasks == [call : Calls, ds : Datasets, snap : Suffixes \cup {NoName}]

(***************************************************************************)
(* The tree.                                                               *)
(***************************************************************************)
Top(e) == Root(<<e>>)
Tree(e) == {Root(<<e>> \o k) : k \in Paths}
EnvOf(d) == d[2][1]
PathOf(d) == Tail(d[2])
Below(d) == {x \in fs : x # d /\ SeqX!IsPrefix(d[2], x[2])}
Children(d) == {x \in Below(d) : Len(x[2]) = Len(d[2]) + 1}
Managed(d) == PathOf(d) \notin Unmanaged

\* One call for each child, in any order.
EachChild(call, d) == SeqX!SetToSeqs({Task(call, x) : x \in Children(d)})

TreeTypeOK ==
  /\ ZfsTypeOK
  /\ \A d \in fs : Len(d[2]) > 1 => Root(SeqX!Front(d[2])) \in fs
  /\ running \in Envs
  /\ cmd \in Commands \cup {NoCommand}
  /\ todo \in Seq(Tasks)
  /\ cmd = NoCommand <=> todo = << >>
  /\ result \in {"none", "ok", "fail", "killed"}
  /\ faults \in 0 .. MaxFaults

TreeInit ==
  \E e \in Envs :
    /\ ZfsInit(<<e>>)
    /\ running = e
    /\ cmd = NoCommand /\ todo = << >> /\ result = "none" /\ faults = 0

(***************************************************************************)
(* libzfs on a tree: what module ZfsPool says of a single dataset, and     *)
(* what a dataset's children add to it.                                    *)
(***************************************************************************)
CanUnmountAbove(d) == CanUnmount(d) /\ Below(d) \cap mounted = {}
CanDestroyLeaf(d) == CanDestroyFs(d) /\ Children(d) = {}

CanSnapshotTree(d, s) == \A x \in {d} \cup Below(d) : CanSnapshot(x, s)
SnapshotTree(d, s) ==
  /\ snaps' = [x \in Datasets |-> IF x \in {d} \cup Below(d) THEN Append(snaps[x], s)
                                                             ELSE snaps[x]]
  /\ UNCHANGED <<fs, origin, mounted, tmpmp, bootfs>>

\* Mutant, no code of zectl: a rename that leaves the children behind.
MovedTop(x, e, f) == IF x = Top(e) THEN Top(f) ELSE x

\* The dataset x of the tree of e, in the tree of f.
Moved(x, e, f) == IF EnvOf(x) = e THEN Root(<<f>> \o PathOf(x)) ELSE x
RenameTree(e, f) ==
  /\ fs' = {Moved(x, e, f) : x \in fs}
  /\ mounted' = {Moved(x, e, f) : x \in mounted}
  /\ snaps' = [x \in Datasets |-> CASE EnvOf(x) = e -> << >>
                                    [] EnvOf(x) = f -> snaps[Moved(x, f, e)]
                                    [] OTHER -> snaps[x]]
  /\ origin' = [x \in Datasets |->
       LET o == CASE EnvOf(x) = e -> NoSnap
                  [] EnvOf(x) = f -> origin[Moved(x, f, e)]
                  [] OTHER -> origin[x]
       IN  IF o = NoSnap THEN NoSnap ELSE <<Moved(o[1], e, f), o[2]>>]
  /\ UNCHANGED <<tmpmp, bootfs>>

(***************************************************************************)
(* Control flow.                                                           *)
(***************************************************************************)
Idle == cmd = NoCommand
At(call) == ~Idle /\ todo[1].call = call
This == todo[1].ds
Ends(r) == cmd' = NoCommand /\ todo' = << >> /\ result' = r

\* The first call is done; those of tasks come next.  With none left the
\* command ends with success.
Proceed(tasks) ==
  LET left == tasks \o Tail(todo) IN
  IF left = << >> THEN Ends("ok") ELSE todo' = left /\ UNCHANGED <<cmd, result>>

Fails(can) ==
  \/ ~can /\ UNCHANGED faults
  \/ can /\ faults < MaxFaults /\ faults' = faults + 1

Call(can, effect, tasks) ==
  \/ can /\ effect /\ Proceed(tasks) /\ UNCHANGED faults
  \/ Fails(can) /\ UNCHANGED zfsVars /\ Ends("fail")

(***************************************************************************)
(* The start of each command: its checks, which read only, and its calls.  *)
(***************************************************************************)
Existing(e) == Top(e) \in fs
IsRoot(e) == e = running
IsActive(e) == <<e>> = bootfs

\* Mutant, no code of zectl: libze_is_root_be is not asked.
MayDestroyRoot(e) == Existing(e) /\ ~IsActive(e)
MayDestroy(e) == Existing(e) /\ ~IsActive(e) /\ ~IsRoot(e)

\* Mutant, no code of zectl: libze_is_active_be is not asked.
MayRenameActive(e, f) == ~Existing(f) /\ Existing(e) /\ ~IsRoot(e) /\ Top(e) \notin mounted
MayRename(e, f) ==
  ~Existing(f) /\ Existing(e) /\ ~IsRoot(e) /\ ~IsActive(e) /\ Top(e) \notin mounted

\* libze_create: with -e <dataset> the snapshot is recursive or not, as
\* cdata.recursive happens to be.
Source(c) == IF c.from = NoName THEN Root(bootfs) ELSE Top(c.from)
CreateCalls(c) ==
  IF c.snap # NoName
  THEN {<<SnapTask("clone", Source(c), s)>> : s \in SnapsOf(Source(c)) \cap {c.snap}}
  ELSE UNION {{<<SnapTask(k, Source(c), s), SnapTask("clone", Source(c), s)>> : s \in Suffixes} :
                k \in CASE c.from # NoName -> {"snap", "snap_tree"}
                        [] c.from = NoName /\ c.recursive -> {"snap_tree"}
                        [] OTHER -> {"snap"}}

\* The calls a command begins with; none when a check refuses it.
FirstCalls(c) ==
  CASE c.op = "activate" /\ Existing(c.be) ->
         {<<Task("set_bootfs", Top(c.be)), Task("promote", Top(c.be))>>}
    [] c.op = "create" /\ ~Existing(c.be) -> CreateCalls(c)
    [] c.op = "destroy" /\ MayDestroy(c.be) -> {<<Task("destroy", Top(c.be))>>}
    [] c.op = "rename" /\ MayRename(c.be, c.to) -> {<<Task("rename", Top(c.be))>>}
    [] c.op = "snapshot" /\ Existing(c.be) -> {<<SnapTask("snap_tree", Top(c.be), c.suffix)>>}
    [] c.op = "mount" /\ Existing(c.be) /\ ~IsRoot(c.be) /\ Top(c.be) \notin mounted ->
         {<<Task("mount_top", Top(c.be))>>}
    [] c.op = "unmount" /\ Existing(c.be) /\ ~IsRoot(c.be) /\ Top(c.be) \in mounted ->
         {<<Task("unmount", Top(c.be))>>}
    [] OTHER -> {}

\* libze_init and libze_validate_system.
ValidSystem == bootfs # NoName /\ Root(bootfs) \in fs /\ Existing(running)

Start ==
  /\ Idle /\ ValidSystem
  /\ \E c \in Commands : \E calls \in FirstCalls(c) :
       cmd' = c /\ todo' = calls /\ UNCHANGED result
  /\ UNCHANGED <<zfsVars, running, faults>>

(***************************************************************************)
(* activate, create, rename, snapshot.                                     *)
(***************************************************************************)
SetActive == At("set_bootfs") /\ Call(CanSetBootfs(This[2]), SetBootfs(This[2]), << >>)

\* libze_activate_cb: below a dataset that is not a clone nothing is visited.
PromoteClones ==
  /\ At("promote")
  /\ IF origin[This] = NoSnap
     THEN Proceed(<< >>) /\ UNCHANGED <<zfsVars, faults>>
     ELSE \E calls \in EachChild("promote", This) : Call(CanPromote(This), Promote(This), calls)

TakeSnapshot ==
  \/ At("snap") /\ Call(CanSnapshot(This, todo[1].snap), Snapshot(This, todo[1].snap), << >>)
  \/ At("snap_tree")
       /\ Call(CanSnapshotTree(This, todo[1].snap), SnapshotTree(This, todo[1].snap), << >>)

\* The name libze_util_concat(be, path, "/") forms: the new environment's for
\* the top dataset, and for a child one that ends with '/', which names nothing.
CloneName(e, path) == IF path = << >> THEN <<e>> ELSE NoName

\* libze_clone: the datasets of the source, parents first, each from its own
\* snapshot of that name.
CloneTree ==
  LET n == CloneName(cmd.be, PathOf(This)) IN
  /\ At("clone")
  /\ \E order \in IF cmd.recursive THEN EachChild("clone", This) ELSE {<< >>} :
       Call(n \in Names /\ CanClone(Root(n), This, todo[1].snap),
            Clone(Root(n), This, todo[1].snap),
            [i \in DOMAIN order |-> [order[i] EXCEPT !.snap = todo[1].snap]])

RenameBE == At("rename") /\ Call(TRUE, RenameTree(cmd.be, cmd.to), << >>)

(***************************************************************************)
(* libze_destroy_cb.                                                       *)
(***************************************************************************)
\* The result of the forced unmount is ignored; opening the origin may fail.
DestroyVisit ==
  LET o == origin[This]
      calls == <<Task("destroy_children", This), Task("destroy_fs", This)>>
                 \o IF o = NoSnap THEN << >> ELSE <<SnapTask("destroy_snap", o[1], o[2])>>
  IN
  /\ At("destroy")
  /\ IF This \in mounted /\ cmd.force
     THEN \/ /\ Proceed(calls)
             /\ \/ CanUnmountAbove(This) /\ Unmount(This) /\ UNCHANGED faults
                \/ Fails(CanUnmountAbove(This)) /\ UNCHANGED zfsVars
          \/ /\ o # NoSnap /\ Fails(TRUE) /\ Ends("fail")
             /\ (CanUnmountAbove(This) /\ Unmount(This)) \/ UNCHANGED zfsVars
     ELSE Call(This \notin mounted, UNCHANGED zfsVars, calls)

\* zfs_iter_children: the snapshots, then the file systems.
DestroyChildren ==
  /\ At("destroy_children")
  /\ \/ \E s \in SnapsOf(This) :
          Call(CanDestroySnap(This, s), DestroySnap(This, s), <<todo[1]>>)
     \/ /\ SnapsOf(This) = {}
        /\ \E x \in Children(This) : Proceed(<<Task("destroy", x), todo[1]>>)
        /\ UNCHANGED <<zfsVars, faults>>
     \/ /\ SnapsOf(This) = {} /\ Children(This) = {}
        /\ Proceed(<< >>) /\ UNCHANGED <<zfsVars, faults>>

DestroyDataset ==
  \/ At("destroy_fs") /\ Call(CanDestroyLeaf(This), DestroyFs(This), << >>)
  \/ At("destroy_snap")
       /\ Call(CanDestroySnap(This, todo[1].snap), DestroySnap(This, todo[1].snap), << >>)

(***************************************************************************)
(* mount_callback goes down, unmount_callback comes up.                    *)
(***************************************************************************)
\* Mutant, no code of zectl: the children come before their parent.
MountChildrenFirst ==
  \/ /\ At("mount_top")
     /\ \E calls \in EachChild("mount", This) :
          IF calls = << >> THEN Call(CanMount(This), Mount(This), << >>)
          ELSE Proceed(calls \o <<Task("mount", This)>>) /\ UNCHANGED <<zfsVars, faults>>
  \/ /\ At("mount")
     /\ Call(CanMount(This), Mount(This), << >>)

\* Mutant, no code of zectl: below a dataset that is not mounted itself, the
\* walk stops.
MountManagedOnly ==
  /\ At("mount_top") \/ At("mount")
  /\ \E calls \in EachChild("mount", This) :
       IF At("mount") /\ ~Managed(This)
       THEN Proceed(<< >>) /\ UNCHANGED <<zfsVars, faults>>
       ELSE Call(CanMount(This) /\ This \notin mounted, Mount(This), calls)

MountDown ==
  /\ At("mount_top") \/ At("mount")
  /\ \E calls \in EachChild("mount", This) :
       IF At("mount") /\ ~Managed(This)
       THEN Proceed(calls) /\ UNCHANGED <<zfsVars, faults>>
       ELSE Call(CanMount(This) /\ (At("mount") => This \notin mounted), Mount(This), calls)

\* Mutant, no code of zectl: the parent comes before its children.
UnmountDown ==
  /\ At("unmount")
  /\ \E calls \in EachChild("unmount", This) : Proceed(<<Task("unmount_fs", This)>> \o calls)
  /\ UNCHANGED <<zfsVars, faults>>

UnmountUp ==
  /\ At("unmount")
  /\ \E calls \in EachChild("unmount", This) : Proceed(calls \o <<Task("unmount_fs", This)>>)
  /\ UNCHANGED <<zfsVars, faults>>

UnmountDataset ==
  /\ At("unmount_fs")
  /\ IF This \in mounted
     THEN Call(CanUnmountAbove(This), Unmount(This), << >>)
     ELSE Proceed(<< >>) /\ UNCHANGED <<zfsVars, faults>>

(***************************************************************************)
(* The environment.  The administrator creates a child dataset in the      *)
(* running environment (zfs create, which mounts it), or clones one for an *)
(* environment that lacks it (zfs clone with canmount=noauto), as          *)
(* create -r leaves to be done.                                            *)
(***************************************************************************)
AddDataset ==
  /\ Idle
  /\ \E k \in Kids :
       LET d == Root(<<running>> \o k) IN
       /\ d \notin fs /\ Root(SeqX!Front(d[2])) \in fs
       /\ fs' = fs \cup {d}
       /\ mounted' = IF Managed(d) THEN mounted \cup {d} ELSE mounted
  /\ UNCHANGED <<snaps, origin, tmpmp, bootfs, running, cmd, todo, result, faults>>

CloneDataset ==
  /\ Idle
  /\ \E e \in Envs, x \in fs :
       LET d == Root(<<e>> \o PathOf(x)) IN
       /\ e # running /\ PathOf(x) # << >> /\ Root(SeqX!Front(d[2])) \in fs
       /\ \E s \in SnapsOf(x) : CanClone(d, x, s) /\ Clone(d, x, s)
  /\ UNCHANGED <<running, cmd, todo, result, faults>>

Kill == MayCrash /\ ~Idle /\ Ends("killed") /\ UNCHANGED <<zfsVars, running, faults>>

Reboot ==
  /\ Idle
  /\ \E e \in Envs :
       /\ Existing(e)
       /\ running' = e
       /\ mounted' = {d \in fs \cap Tree(e) : Managed(d)}
  /\ UNCHANGED <<fs, snaps, origin, tmpmp, bootfs, cmd, todo, result, faults>>

CommandStep ==
  \/ SetActive \/ PromoteClones \/ TakeSnapshot \/ CloneTree \/ RenameBE
  \/ DestroyVisit \/ DestroyChildren \/ DestroyDataset
  \/ MountDown \/ UnmountUp \/ UnmountDataset

TreeNext ==
  \/ Start
  \/ CommandStep /\ UNCHANGED running
  \/ AddDataset \/ CloneDataset \/ Kill \/ Reboot

TreeSpec == TreeInit /\ [][TreeNext]_treeVars
=============================================================================
