-------------------------- MODULE ZectlProperties --------------------------
(***************************************************************************)
(* The properties of module Zectl.  "Single" in a comment means: when only *)
(* one process runs zectl at a time.                                       *)
(***************************************************************************)
EXTENDS Zectl

Returns(p, r) == ~At(p, "idle") /\ proc'[p] = Idle(r)

(***************************************************************************)
(* Environments that must survive.                                         *)
(***************************************************************************)

\* The running environment keeps its datasets, under its name, and its
\* mounts, however many commands run, fail or are killed: libze_destroy,
\* libze_rename, libze_mount, libze_unmount and the temporary mounts refuse
\* or skip it by lzeh->env_running, which no command can make stale.
RunningSafe == Pools \X {running} \subseteq fs \cap mounted

\* The command c has the fields that the code at label l uses.
Fits(c, l) ==
  /\ l # "idle" => c \in AllCommands
  /\ l \in {"create", "create_snap", "create_snap_boot", "create_again",
           "clone_root", "clone_boot", "post_create"} => c.op = "create"
  /\ l \in {"rename", "rename_root", "rename_boot", "post_rename"} => c.op = "rename"
  /\ l \in {"destroy_snapshot", "dsnap_root", "dsnap_boot"} => c.op = "destroy_snapshot"
  /\ l \in {"snapshot", "pre_snapshot", "snap_root", "snap_boot"} => c.op = "snapshot"
  /\ l \in {"mount", "mount_root", "mount_boot"} => c.op \in {"mount", "snapshot"}
  /\ l \in {"unmount", "unmount_boot", "unmount_root"} => c.op \in {"unmount", "snapshot"}

\* At a label where the environment of c is destroyed, renamed, unmounted or
\* mounted elsewhere, it is not the running one.
Spares(c, l) ==
  l \in {"destroy_check", "destroy_snaps", "destroy_fs", "rename_root", "rename_boot",
        "unmount_boot", "unmount_root", "tmp_mountpoint", "tmp_mount", "tmp_unmount",
        "tmp_reset", "cleanup_unmount", "cleanup_reset"}
    => c.be # running

\* The snapshot on the boot pool has the name of the one on the root pool.
Suffixed(st) == st.pc = "create_snap_boot" => st.sfx \in Suffixes

\* The inductive invariant behind RunningSafe.
RunningInv ==
  /\ TypeOK
  /\ RunningSafe
  /\ \A p \in Procs : /\ Fits(proc[p].cmd, proc[p].pc)
                      /\ Spares(proc[p].cmd, proc[p].pc)
                      /\ Suffixed(proc[p])

\* Single: the pool always names an environment to boot next, and it is
\* complete.  libze_destroy and libze_rename compare with
\* lzeh->env_activated, which libze_init read when the command started.
ActiveSafe == bootfs # NoName /\ Existing(bootfs)

\* A step never removes or renames the environment that is activated when
\* the step is taken (libze.c:2165 and libze.c:2619).
ActiveKept == [][bootfs # NoName => Root(bootfs) \in fs']_vars

\* Single: the commands implement the atomic operations of BootEnvs, with
\* the root datasets as the environments.
BE == INSTANCE BootEnvs WITH bes <- {n \in Names : Root(n) \in fs}, active <- bootfs
ImplementsBootEnvs == BE!BESpec

(***************************************************************************)
(* Results that can be trusted.                                            *)
(***************************************************************************)

\* What a command that exits with success has brought about.
Accomplished(c) ==
  LET datasets == Pools \X {c.be} IN
  CASE c.op = "activate" -> bootfs = c.be
    [] c.op = "create" -> datasets \subseteq fs
    [] c.op = "destroy" -> datasets \cap fs = {}
    [] c.op = "destroy_snapshot" -> \A d \in datasets : c.suffix \notin SnapsOf(d)
    [] c.op = "rename" -> datasets \cap fs = {} /\ Pools \X {c.to} \subseteq fs
    [] c.op = "mount" -> datasets \subseteq mounted
    [] c.op = "unmount" -> datasets \cap mounted = {}
    [] c.op = "snapshot" -> \A d \in datasets : c.suffix \in SnapsOf(d)

\* A step that ends a command with success ends it accomplished.
SuccessOf(ops) ==
  \A p \in Procs :
    Returns(p, "ok") =>
      \A c \in Commands : proc[p].cmd = c /\ c.op \in ops => Accomplished(c)'

\* Single: whichever of its calls fail, a command other than activate and
\* rename reports success only when all it was asked for is done, in both
\* pools.
SuccessIsReal == [][SuccessOf(Ops \ {"activate", "rename"})]_vars

\* libze.c:1372, "@return LIBZE_ERROR_SUCCESS on success": activate.
ActivateIsReal == [][SuccessOf({"activate"})]_vars

(***************************************************************************)
(* Single: what the process at each label has established, and nobody      *)
(* undoes: the invariant behind ActiveSafe, ActiveKept, ImplementsBootEnvs *)
(* and SuccessIsReal.                                                      *)
(***************************************************************************)
OneShell == \A p, q \in Procs : p = q

\* The labels from the mount of an environment for a hook to its unmount.
HookLabels == {"tmp_mountpoint", "tmp_mount", "hook", "tmp_unmount", "tmp_reset"}

\* The operation that the code at label l belongs to, where Fits does not say.
Belongs(c, l) ==
  /\ l \in HookLabels => c.op \in {"activate", "create"}
  /\ l \in {"activate", "set_bootfs", "promote_root", "promote_boot", "post_activate"}
       => c.op = "activate"
  /\ l \in {"destroy", "destroy_check", "destroy_snaps", "destroy_fs", "destroy_origin"}
       => c.op = "destroy"
  /\ l = "post_destroy" => c.op \in {"destroy", "destroy_snapshot"}

\* env_activated is bootfs where it is compared with; what is destroyed or
\* renamed is not bootfs; what is activated, or mounted for a hook, exists.
Standing(st) ==
  /\ st.pc \in {"validate", "destroy", "rename"} => st.act = bootfs
  /\ st.pc \in {"destroy_check", "destroy_snaps", "destroy_fs", "destroy_origin",
                "rename_root", "rename_boot"}
       => st.cmd.be # bootfs
  /\ st.pc \in HookLabels \cup {"set_bootfs"} => Existing(st.cmd.be)

\* The part of the command that is done.
DoneSoFar(st) ==
  LET c == st.cmd
      root == Root(c.be)
  IN
  /\ st.pc = "clone_boot" => root \in fs
  /\ c.op = "destroy" /\ st.pool = "boot" => BootPool /\ root \notin fs
  /\ st.pc = "destroy_origin" => <<st.pool, c.be>> \notin fs
  /\ st.pc = "post_destroy" /\ c.op = "destroy" => ~BootPool /\ root \notin fs
  /\ st.pc = "post_destroy" /\ c.op = "destroy_snapshot" =>
       BootPool /\ \A d \in Pools \X {c.be} : c.suffix \notin SnapsOf(d)
  /\ st.pc = "dsnap_boot" => BootPool /\ c.suffix \notin SnapsOf(root)
  /\ st.pc = "mount_boot" => root \in mounted
  /\ st.pc = "unmount_root" => Boot(c.be) \notin mounted
  /\ st.pc = "snap_boot" => c.suffix \in SnapsOf(root)

\* zfs_destroy of a snapshot leaves no other one of its name.
Unique(seq) == \A i, j \in 1 .. Len(seq) : seq[i] = seq[j] => i = j
UniqueNames == \A d \in Datasets : Unique(snaps[d])

Solo(st) == Belongs(st.cmd, st.pc) /\ Standing(st) /\ DoneSoFar(st)

SingleInv ==
  /\ RunningInv
  /\ ActiveSafe
  /\ UniqueNames
  /\ \A p \in Procs : Solo(proc[p])

(***************************************************************************)
(* States that must not be left behind.                                    *)
(***************************************************************************)

\* When no command runs, an environment has both its datasets or none: a
\* half of a pair fails validate_existing_be and validate_new_be alike, and
\* no command can repair it.
PairsComplete ==
  AllIdle => \A n \in Names : Existing(n) \/ New(n)

\* When no command runs, no environment is left with the /tmp mountpoint
\* that temp_mount_be gave it.
NoLeftoverMountpoint == AllIdle => tmpmp = {}

\* When no command runs, the two datasets of an environment are mounted
\* together: libze_unmount refuses a half, and libze_mount too.  The exception
\* is a boot dataset whose mountpoint is not legacy: libze_mount gives up with
\* the root dataset mounted (libze.c:2564), never with the boot dataset alone.
MountedInPairs ==
  AllIdle =>
    \A n \in Names :
      LET here == Pools \X {n} \cap mounted IN
      \/ here \in {{}, Pools \X {n}}
      \/ "other" \in BootMountpoints /\ here = {Root(n)}

\* Every command ends, whichever of its calls fail: it returns to its shell.
CommandReturns == \A p \in Procs : ~At(p, "idle") ~> At(p, "idle")
=============================================================================
