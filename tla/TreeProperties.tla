--------------------------- MODULE TreeProperties ---------------------------
(***************************************************************************)
(* The properties of module DatasetTree.                                   *)
(***************************************************************************)
EXTENDS DatasetTree

Returns(r) == ~Idle /\ cmd' = NoCommand /\ result' = r

\* The callbacks stay within the environment the command names: whatever
\* clones of whatever snapshots its datasets are, and wherever a call fails,
\* no other environment loses a dataset or a mount, and the running one loses
\* neither.
OthersKept ==
  [][~Idle => \A d \in fs :
       EnvOf(d) # cmd.be \/ EnvOf(d) = running =>
         d \in fs' /\ (d \in mounted => d \in mounted')]_treeVars

\* mount_callback, unmount_callback and a forced libze_destroy_cb, wherever
\* they stop: a dataset is mounted only below its mounted parents, so nothing
\* is hidden under a later mount and nothing written to the wrong dataset.
MountsNested ==
  \A d \in mounted, x \in fs :
    SeqX!IsPrefix(x[2], d[2]) /\ Managed(x) => x \in mounted

\* mount, unmount: what a mount that stopped half way has left, and what the
\* administrator added since, never makes the next unmount or mount fail by
\* itself: a command that was accepted fails only when one of its calls does.
WalksComplete ==
  [][cmd # NoCommand /\ cmd.op \in {"mount", "unmount"} /\ Returns("fail") => faults' > faults]_treeVars

\* What a command that exits with success has brought about, in the whole
\* tree of its environment.  An environment created with -r has the datasets
\* of the one it is a clone of; any other has its top dataset only.
Accomplished(c) ==
  LET tree == Tree(c.be) \cap fs
      PathsIn(e) == {PathOf(d) : d \in Tree(e) \cap fs}
  IN
  CASE c.op = "activate" -> bootfs = <<c.be>>
    [] c.op = "create" /\ c.recursive ->
         PathsIn(c.be) = PathsIn(IF c.from = NoName THEN bootfs[1] ELSE c.from)
    [] c.op = "create" -> PathsIn(c.be) = {<< >>}
    [] c.op = "destroy" -> tree = {}
    [] c.op = "rename" -> tree = {} /\ Top(c.to) \in fs
    [] c.op = "mount" -> {d \in tree : Managed(d)} \subseteq mounted
    [] c.op = "unmount" -> tree \cap mounted = {}
    [] c.op = "snapshot" -> \A d \in tree : c.suffix \in SnapsOf(d)

\* Success is true of the whole tree: mount and unmount reach datasets below
\* one that is not mounted itself, destroy leaves no child behind, snapshot
\* leaves none out, and a create that left out a child has not succeeded.
TreeSuccessIsReal ==
  [][Returns("ok") => \A c \in Commands : cmd = c => Accomplished(c)']_treeVars

\* With child datasets too, the commands implement the atomic operations of
\* BootEnvs on the top datasets.
BE == INSTANCE BootEnvs WITH
  Names <- Envs, bes <- {e \in Envs : Existing(e)}, active <- bootfs[1]
TreeImplementsBootEnvs == BE!BESpec

(***************************************************************************)
(* The inductive invariant.  Callbacks act on a tree that only their own   *)
(* command changes; what makes each call safe is what the calls before it  *)
(* have established, so the invariant speaks of the stack.                 *)
(***************************************************************************)
\* The dataset x is d or above it.
Covers(x, d) == SeqX!IsPrefix(x[2], d[2])

\* Every dataset above an existing one exists.
Rooted == \A d \in fs : \A i \in 1 .. Len(d[2]) : Root(SubSeq(d[2], 1, i)) \in fs

\* The running and the activated environment exist; a mounted / has all its
\* file systems mounted.
Protected ==
  /\ Existing(running)
  /\ \E e \in Envs : bootfs = <<e>> /\ Existing(e)
  /\ \A d \in fs : EnvOf(d) = running /\ Managed(d) => d \in mounted

\* The call t on the stack of the running command is one its command makes,
\* on a dataset of its environment, and the checks that were made at the
\* start still hold.
Fits(t) ==
  \/ /\ cmd.op = "activate" /\ t.call \in {"set_bootfs", "promote"}
     /\ t.call = "set_bootfs" => t.ds = Top(cmd.be) /\ Existing(cmd.be)
  \/ /\ cmd.op = "create" /\ t.call \in {"snap", "snap_tree", "clone"} /\ t.snap \in Suffixes
     /\ t.call = "clone" /\ PathOf(t.ds) = << >> => t.ds = Source(cmd)
  \/ /\ cmd.op = "destroy" /\ ~IsActive(cmd.be) /\ ~IsRoot(cmd.be)
     /\ t.call \in {"destroy", "destroy_children", "destroy_fs", "destroy_snap"}
     /\ IF t.call = "destroy_snap" THEN t.snap \in Suffixes ELSE EnvOf(t.ds) = cmd.be
  \/ /\ cmd.op = "mount" /\ ~IsRoot(cmd.be) /\ t.call \in {"mount_top", "mount"}
     /\ t.ds \in fs /\ EnvOf(t.ds) = cmd.be
     /\ t.call = "mount_top" => t.ds = Top(cmd.be)
     /\ \A x \in fs : Covers(x, t.ds) /\ x # t.ds /\ Managed(x) => x \in mounted
  \/ /\ cmd.op = "rename" /\ t.call = "rename" /\ Len(todo) = 1 /\ MayRename(cmd.be, cmd.to)
  \/ /\ cmd.op = "snapshot" /\ t = SnapTask("snap_tree", Top(cmd.be), cmd.suffix)
  \/ /\ cmd.op = "unmount" /\ ~IsRoot(cmd.be) /\ t.call \in {"unmount", "unmount_fs"}
     /\ EnvOf(t.ds) = cmd.be

\* The call t takes care of the mounted dataset x.
Unmounts(t, x) == IF t.call = "unmount" THEN Covers(t.ds, x) ELSE x = t.ds

\* What the command has not done yet is on the stack.
Pending == {todo[i] : i \in 1 .. Len(todo)}

ActivateRest == IsActive(cmd.be) \/ \E t \in Pending : t.call = "set_bootfs"
CreateRest == todo[Len(todo)].call = "clone"
DestroyRest ==
  Existing(cmd.be) =>
    \E t \in Pending : t.call \in {"destroy", "destroy_fs"} /\ t.ds = Top(cmd.be)

\* A mount has a call above every dataset it has still to mount, and no two
\* calls for one dataset.
MountRest ==
  /\ \A x \in fs : EnvOf(x) = cmd.be /\ Managed(x) /\ x \notin mounted =>
       \E t \in Pending : Covers(t.ds, x)
  /\ \A t \in Pending, x \in mounted : ~Covers(t.ds, x)
  /\ \A i, j \in 1 .. Len(todo) : i # j => ~Covers(todo[i].ds, todo[j].ds)

\* An unmount has a call for every dataset that is still mounted, and it comes
\* before those for the datasets above it.
UnmountRest ==
  /\ \A x \in mounted : EnvOf(x) = cmd.be => \E t \in Pending : Unmounts(t, x)
  /\ \A i \in 1 .. Len(todo) : \A x \in mounted :
       todo[i].call = "unmount_fs" /\ Covers(todo[i].ds, x) /\ x # todo[i].ds =>
         \E j \in 1 .. i - 1 : Unmounts(todo[j], x)

StackOK ==
  /\ \A t \in Pending : Fits(t)
  /\ cmd.op = "activate" => ActivateRest
  /\ cmd.op = "create" => CreateRest
  /\ cmd.op = "destroy" => DestroyRest
  /\ cmd.op = "mount" => MountRest
  /\ cmd.op = "unmount" => UnmountRest

TreeInv ==
  /\ TreeTypeOK
  /\ tmpmp = {}
  /\ IsFiniteSet(fs)
  /\ Rooted
  /\ Protected
  /\ MountsNested
  /\ ~Idle => StackOK
=============================================================================
