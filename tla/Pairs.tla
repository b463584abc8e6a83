------------------------------- MODULE Pairs -------------------------------
(***************************************************************************)
(* The pairs of datasets of the environments of module Zectl, and the      *)
(* state of a command that nothing stops half way: one shell, no call      *)
(* fails, and no command is killed.  The variable apart is a history of    *)
(* module Zectl: whether the running and the activated environment have    *)
(* ever been different ones.                                               *)
(***************************************************************************)
EXTENDS ZectlProperties

VARIABLE apart

pairsVars == <<vars, apart>>

PairsInit == Init /\ apart = FALSE
PairsNext == Next /\ apart' = (apart \/ running' # bootfs')
PairsSpec == PairsInit /\ [][PairsNext]_pairsVars

\* As long as the environment that runs is the activated one, every sequence
\* of creates, snapshots, renames and destroys leaves an environment both its
\* datasets or none, whatever was cloned from what.  Once the two have been
\* apart it does not: libze_create clones the root dataset of the activated
\* environment and the boot dataset of the running one (libze.c:1930).
PairsUntilApart == ~apart => PairsComplete

Calm == MaxFaults = 0 /\ ~MayCrash

(***************************************************************************)
(* Mounts: which command has an environment half mounted, and which gave   *)
(* its root dataset a mountpoint below /tmp.                               *)
(***************************************************************************)
Paired(n) == BootPool => (Root(n) \in mounted <=> Boot(n) \in mounted)
RootOnly(n) == Root(n) \in mounted /\ Boot(n) \notin mounted
Unmounted(n) == Root(n) \notin mounted /\ Boot(n) \notin mounted

\* The pair of n, or what libze_mount leaves where it refuses the boot dataset
\* for its mountpoint.
Settled(n) == Paired(n) \/ ("other" \in BootMountpoints /\ RootOnly(n))

\* Every environment is settled, and none at a directory below /tmp.
Still == (\A n \in Names : Settled(n)) /\ tmpmp = {}

\* The labels between temp_mount_be's first step and temp_unmount_be's last.
TempLabels ==
  {"tmp_mount", "hook", "tmp_unmount", "tmp_reset", "cleanup_unmount", "cleanup_reset"}

\* What the process at label l knows of the mounts, its environment being b.
MountsOf(b, l) ==
  /\ \A n \in Names :
       ~Settled(n) => n = b /\ l \in {"mount_boot", "unmount_root", "hook", "tmp_unmount"}
  /\ l \in {"mount_root", "mount_boot"} => Existing(b)
  /\ l \in {"mount_root", "rename_root", "tmp_reset", "cleanup_reset"} => Unmounted(b)
  /\ l \in {"tmp_mount", "rename_boot"} => Boot(b) \notin mounted
  /\ l = "unmount_boot" => Boot(b) \in mounted /\ Root(b) \in mounted
  /\ l = "unmount_root" => RootOnly(b)
  /\ tmpmp \subseteq {Root(b)}
  /\ tmpmp # {} => l \in TempLabels /\ b # running
  /\ l = "tmp_mount" => Root(b) \in tmpmp
  /\ l = "hook" /\ b # running => RootOnly(b) /\ Root(b) \in tmpmp
  /\ l \in {"tmp_unmount", "cleanup_unmount"} /\ (tmpmp # {} \/ ~Paired(b)) => RootOnly(b)
  /\ l \in {"tmp_reset", "cleanup_reset"} => Root(b) \in fs

MountInv ==
  /\ AllIdle => Still
  /\ \A p \in Procs : MountsOf(proc[p].cmd.be, proc[p].pc)

(***************************************************************************)
(* Pairs: with a boot pool and until apart, the two pools hold the same    *)
(* environments, cloned from each other in the same way; where they do     *)
(* not, the running command has one pool left to do.                       *)
(***************************************************************************)
\* Every origin is a snapshot that exists, and of another dataset; no two
\* datasets are clones of one snapshot.
OriginsOK ==
  /\ \A d \in Datasets \ fs : origin[d] = NoSnap
  /\ \A d, e \in Datasets, s \in Suffixes :
       origin[d] = <<e, s>> => /\ e \in fs \ {d} /\ e[1] = d[1]
                               /\ s \in SnapsOf(e)
                               /\ \A x \in Datasets \ {d} : origin[x] # <<e, s>>

\* No dataset is a clone of the snapshot o.
NoClones(o) == \A d \in Datasets : origin[d] # o

\* The datasets of n correspond: existence and origin.
Alike(n) ==
  /\ Root(n) \in fs <=> Boot(n) \in fs
  /\ \A k \in Names, s \in Suffixes :
       origin[Root(n)] = <<Root(k), s>> <=> origin[Boot(n)] = <<Boot(k), s>>

\* The name that goes with n where t and u are exchanged.
Swap(t, u, n) == CASE n = t -> u [] n = u -> t [] OTHER -> n

\* They all do, but that the boot datasets of t and u are exchanged.
Exchanged(t, u) ==
  \A n \in Names :
    /\ Root(n) \in fs <=> Boot(Swap(t, u, n)) \in fs
    /\ \A k \in Names, s \in Suffixes :
         origin[Root(n)] = <<Root(k), s>>
           <=> origin[Boot(Swap(t, u, n))] = <<Boot(Swap(t, u, k)), s>>

\* create has cloned the root dataset and not yet the boot dataset, destroy has
\* destroyed the root dataset, rename has renamed the root dataset and not yet
\* the boot dataset.
HalfCreated(st) == st.pc = "clone_boot"
RootDestroyed(st) == st.cmd.op = "destroy" /\ (st.pool = "boot" \/ st.pc = "destroy_origin")
HalfRenamed(st) == st.pc = "rename_boot"

Mirrored(st) ==
  LET b == st.cmd.be IN
  IF HalfRenamed(st)
  THEN Exchanged(b, st.cmd.to)
  ELSE \A n \in Names : Alike(n) \/ (n = b /\ (HalfCreated(st) \/ RootDestroyed(st)))

\* activate has not yet moved bootfs away from the running environment.
ActivatesAt(st) ==
  /\ st.cmd.op \in {"activate", "create"} /\ st.pc # "validate" => st.act = bootfs
  /\ /\ st.pc \in HookLabels \cup {"cleanup_unmount", "cleanup_reset", "set_bootfs"}
     /\ st.cmd.op = "activate"
     => st.cmd.be # bootfs
  /\ st.pc \notin {"promote_root", "promote_boot", "post_activate"}

\* The snapshots that create clones are fresh ones.
CreatesAt(st) ==
  LET b == st.cmd.be
      fresh(d) == st.sfx \in SnapsOf(d) /\ NoClones(<<d, st.sfx>>)
  IN
  /\ st.pc \in {"create_snap_boot", "create_again", "clone_root", "clone_boot"} =>
       st.cmd.from = NoName
  /\ st.pc \in {"create_snap_boot", "create_again", "clone_root"} => fresh(Root(bootfs))
  /\ st.pc \in {"create_again", "clone_root", "clone_boot"} => fresh(Boot(running))
  /\ st.pc \in {"clone_root", "clone_boot"} => Boot(b) \notin fs
  /\ st.pc = "clone_boot" => Root(b) \in fs /\ origin[Root(b)] = <<Root(bootfs), st.sfx>>

\* destroy has what it needs to go on to the end, and on the boot pool it does.
DestroysAt(st) ==
  LET d == <<st.pool, st.cmd.be>> IN
  /\ st.pool = "boot" =>
       st.pc \in {"destroy_check", "destroy_snaps", "destroy_fs", "destroy_origin"}
  /\ st.pc \in {"destroy_check", "destroy_snaps", "destroy_fs"} =>
       d \in fs /\ (st.pool = "boot" => d \notin mounted)
  /\ st.pc \in {"destroy_snaps", "destroy_fs"} => st.orig = origin[d] /\ st.iter = SnapsOf(d)
  /\ st.pc = "destroy_fs" => st.iter = {}
  /\ RootDestroyed(st) => Root(st.cmd.be) \notin fs
  /\ st.pc = "destroy_origin" =>
       /\ d \notin fs
       /\ \E e \in fs : \E s \in SnapsOf(e) : st.orig = <<e, s>> /\ NoClones(<<e, s>>)
       /\ st.pool = "root" => Boot(st.cmd.be) \in fs

\* The new name is free where the old one is in use.
RenamesAt(st) ==
  LET b == st.cmd.be
      t == st.cmd.to
  IN
  /\ st.pc \in {"rename_root", "rename_boot"} => b # t /\ Boot(b) \in fs /\ Boot(t) \notin fs
  /\ st.pc = "rename_root" => Root(b) \in fs /\ Root(t) \notin fs
  /\ st.pc = "rename_boot" => Root(b) \notin fs /\ Root(t) \in fs

PairAt(st) ==
  /\ Mirrored(st)
  /\ ActivatesAt(st)
  /\ CreatesAt(st)
  /\ DestroysAt(st)
  /\ RenamesAt(st)

\* PairsUntilApart, at every step.
PairInv ==
  BootPool /\ ~apart => /\ running = bootfs
                        /\ OriginsOK
                        /\ AllIdle => \A n \in Names : Alike(n)
                        /\ \A p \in Procs : PairAt(proc[p])
=============================================================================
