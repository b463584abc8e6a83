---------------------------- MODULE SystemdBoot ----------------------------
(***************************************************************************)
(* The systemd-boot plugin: what its hooks do to the EFI system partition  *)
(* (ESP), file operation by file operation, between the steps of BootEnvs. *)
(*                                                                         *)
(* For an environment n the ESP holds a loader entry                       *)
(* (loader/entries/org.zectl-n.conf) that boots a dataset with the kernels *)
(* of a directory (env/org.zectl-n), and one file loader.conf that names   *)
(* the default entry.  The environment's own fstab binds such a directory  *)
(* to /boot.  The pool and the ESP change one after the other, never       *)
(* together: first the libze function changes the pool, then its hook      *)
(* changes the ESP (for a snapshot the other way round).                   *)
(*                                                                         *)
(* One command runs at a time; to the ESP it is one atomic step of         *)
(* BootEnvs, then the steps of its hook.  A file is abstracted to the name *)
(* of the environment its lines mention, a directory of kernels to their   *)
(* version.  Backups (.bak), temporary files and the boot pool are left    *)
(* out.                                                                    *)
(***************************************************************************)
EXTENDS BootEnvs, Naturals, FiniteSets

CONSTANTS
  Ops,         \* the commands that are run
  Sources,     \* what create clones: "active", "dataset", "snapshot", "auto"
  MaxVersion,  \* bound on the kernel versions an upgrade installs
  MaxSnaps,    \* bound on the snapshots that exist
  MaxFaults,   \* bound on the kills and the file operations that fail
  Absent,      \* there is no such file or directory
  Torn,        \* a file or directory that is written in part
  Template     \* the placeholder %ZECTLBE% for a name

ASSUME SystemdBootAssumption ==
  /\ MaxVersion \in Nat \ {0} /\ MaxSnaps \in Nat /\ MaxFaults \in Nat
  /\ {Absent, Torn, Template} \cap (Names \cup 1 .. MaxVersion) = {}
  /\ Absent # Torn /\ Absent # Template /\ Torn # Template

VARIABLES
  entry,      \* the loader entry of each name, by the environment it boots
  kern,       \* the kernel directory of each name, by version
  default,    \* the entry loader.conf names
  root,       \* the files of each environment that matter here
  snapshots,  \* the snapshots in the pool, by who took them and contents
  cmd,        \* the running command
  pc,         \* the next operation of its hook
  faults,     \* the kills and failures so far
  mixed       \* history: a command paired files of different environments

files == <<entry, kern, default, root>>
sbvars == <<bevars, files, snapshots, cmd, pc, faults, mixed>>

Versions == 1 .. MaxVersion
Kernels == Versions \cup {Absent, Torn}
Texts == Names \cup {Absent, Torn, Template}

\* ver: the version of the kernel modules; fstab: whose directory it binds to
\* /boot; saved: kernelsnapshotdirectory, where pre_snapshot puts copies.
SavedFiles == [kern : Kernels, entry : Texts, fstab : Texts]
Contents == [ver : Versions, fstab : Texts, saved : SavedFiles]
NothingSaved == [kern |-> Absent, entry |-> Absent, fstab |-> Absent]
Blank == [ver |-> 1, fstab |-> Absent, saved |-> NothingSaved]

\* by: "auto" when libze_create took it, "snapshot" when zectl snapshot did.
Snapshots == [by : {"auto", "snapshot"}, data : Contents]

\* to: the new name of a rename; snap: create_data->from_snapshot.
Command == [op : {"none", "create", "destroy", "rename", "activate", "snapshot"},
            be : Names \cup {Absent}, to : Names \cup {Absent}, snap : BOOLEAN]
NoCommand == [op |-> "none", be |-> Absent, to |-> Absent, snap |-> FALSE]
Run(op, n) == [NoCommand EXCEPT !.op = op, !.be = n]

\* The operations of each hook in their order; the end of one is "idle".
Follows ==
  [copy_fstab |-> "create_entry", create_entry |-> "copy_kernels",
   copy_kernels |-> "remove_saved", remove_saved |-> "create_fstab", create_fstab |-> "idle",
   remove_entry |-> "remove_kernels", remove_kernels |-> "idle",
   rename_kernels |-> "rename_entry", rename_entry |-> "remove_old", remove_old |-> "idle",
   loader_default |-> "idle",
   save_kernels |-> "save_entry", save_entry |-> "save_fstab", save_fstab |-> "take_snapshot",
   take_snapshot |-> "idle"]

SBTypeOK ==
  /\ bes \subseteq Names /\ active \in bes /\ running \in bes
  /\ entry \in [Names -> Texts]
  /\ kern \in [Names -> Kernels]
  /\ default \in Names \cup {Torn}
  /\ root \in [Names -> Contents]
  /\ snapshots \subseteq Snapshots
  /\ cmd \in Command /\ pc \in DOMAIN Follows \cup {"idle"}
  /\ faults \in 0 .. MaxFaults /\ mixed \in BOOLEAN

\* One environment, set up as docs/plugins/systemdboot.md asks.
SBInit ==
  /\ BEInit
  /\ entry = [n \in Names |-> IF n \in bes THEN n ELSE Absent]
  /\ kern = [n \in Names |-> IF n \in bes THEN 1 ELSE Absent]
  /\ default = active
  /\ root = [n \in Names |-> IF n \in bes THEN [Blank EXCEPT !.fstab = n] ELSE Blank]
  /\ snapshots = {} /\ cmd = NoCommand /\ pc = "idle" /\ faults = 0 /\ mixed = FALSE

(***************************************************************************)
(* The commands, up to their hook.                                         *)
(***************************************************************************)
Start(c, l) == pc = "idle" /\ c.op \in Ops /\ cmd' = c /\ pc' = l /\ UNCHANGED faults
Mixing(b) == mixed' = (mixed \/ b)
RoomForSnapshot == Cardinality(snapshots) < MaxSnaps
AddSnapshot(by, n) == snapshots' = snapshots \cup {[by |-> by, data |-> root[n]]}

\* libze_create snapshots its source, without a hook, and clones that.
CreateFrom(n, m) ==
  /\ Start(Run("create", n), "create_entry")
  /\ CreateBE(n)
  /\ RoomForSnapshot /\ AddSnapshot("auto", m)
  /\ root' = [root EXCEPT ![n] = root[m]]
  /\ Mixing(m # active)
  /\ UNCHANGED <<entry, kern, default>>

CreateFromSnapshot(n, s) ==
  /\ Start([Run("create", n) EXCEPT !.snap = TRUE], "copy_fstab")
  /\ s.by \in Sources
  /\ CreateBE(n)
  /\ root' = [root EXCEPT ![n] = s.data]
  /\ Mixing(s.by = "auto")
  /\ UNCHANGED <<entry, kern, default, snapshots>>

\* Mutant: without the test of libze_is_root_be.
DestroyOfRoot(n) ==
  /\ Start(Run("destroy", n), "remove_entry")
  /\ n \in bes \ {active} /\ bes' = bes \ {n} /\ UNCHANGED <<active, running>>
  /\ root' = [root EXCEPT ![n] = Blank]
  /\ UNCHANGED <<entry, kern, default, snapshots, mixed>>

\* Which snapshots go with the environment is left open: promotions have moved
\* them between datasets.
Destroy(n) ==
  /\ Start(Run("destroy", n), "remove_entry")
  /\ DestroyBE(n)
  /\ root' = [root EXCEPT ![n] = Blank]
  /\ snapshots' \in SUBSET snapshots
  /\ UNCHANGED <<entry, kern, default, mixed>>

\* The hook gets the name be@snapshot, for which the ESP has no files.
DestroySnapshot(s) ==
  /\ pc = "idle" /\ "destroy" \in Ops
  /\ snapshots' = snapshots \ {s}
  /\ UNCHANGED <<bevars, files, cmd, pc, faults, mixed>>

Rename(n, m) ==
  /\ Start([Run("rename", n) EXCEPT !.to = m], "rename_kernels")
  /\ RenameTo(n, m)
  /\ root' = [root EXCEPT ![m] = root[n], ![n] = Blank]
  /\ Mixing(TRUE)
  /\ UNCHANGED <<entry, kern, default, snapshots>>

Activate(n) ==
  /\ Start(Run("activate", n), "loader_default")
  /\ ActivateBE(n)
  /\ UNCHANGED <<files, snapshots, mixed>>

\* Mutant: the hook is left out for the running environment.
SnapshotUnsaved(n) ==
  /\ Start(Run("snapshot", n), IF n = running THEN "take_snapshot" ELSE "save_kernels")
  /\ n \in bes /\ RoomForSnapshot
  /\ UNCHANGED <<bevars, files, snapshots, mixed>>

\* Here the hook comes first; see TakeSnapshot.
Snapshot(n) ==
  /\ Start(Run("snapshot", n), "save_kernels")
  /\ n \in bes /\ RoomForSnapshot
  /\ UNCHANGED <<bevars, files, snapshots, mixed>>

(***************************************************************************)
(* The file operations of the hooks, each with what it needs to work.      *)
(***************************************************************************)
GoTo(l) ==
  /\ pc' = l
  /\ IF l = "idle" THEN cmd' = NoCommand ELSE UNCHANGED cmd

\* What follows the operation at pc: saved files are removed after their use.
Following == IF pc = "copy_kernels" /\ ~cmd.snap THEN "create_fstab" ELSE Follows[pc]

EntryBecomes(n, x) == entry' = [entry EXCEPT ![n] = x] /\ UNCHANGED <<kern, default, root>>
KernBecomes(n, x) == kern' = [kern EXCEPT ![n] = x] /\ UNCHANGED <<entry, default, root>>
DefaultBecomes(x) == default' = x /\ UNCHANGED <<entry, kern, root>>
FstabBecomes(x) ==
  root' = [root EXCEPT ![cmd.be].fstab = x] /\ UNCHANGED <<entry, kern, default>>
SavedBecomes(r) ==
  root' = [root EXCEPT ![cmd.be].saved = r] /\ UNCHANGED <<entry, kern, default>>

\* get_cfg_line_from_regex: lines that mention old mention new, others stay.
Replaced(text, old, new) == IF text = old THEN new ELSE text

\* update_fstab and update_loader_default replace a name whatever it is, in a
\* temporary file that is renamed at the end.
\* Mutant: only the placeholder is replaced.
RenewedTemplate(text, new) == IF text = Template THEN new ELSE text
Renewed(text, new) == IF text = Torn THEN Torn ELSE new

\* Where the loader entry and the kernels of a new environment come from:
\* without a snapshot from the activated environment, whatever was cloned
\* (libze_plugin_systemdboot.c:1109 has "Copies kernels from BE being cloned").
Saved == root[cmd.be].saved
EntrySource == IF cmd.snap THEN Saved.entry ELSE entry[active]
\* Mutant: the kernels of the running environment.
KernelSourceRunning == IF cmd.snap THEN Saved.kern ELSE kern[running]
KernelSource == IF cmd.snap THEN Saved.kern ELSE kern[active]
OldName == IF cmd.snap THEN Template ELSE active

\* libze_plugin_systemdboot_post_create
CopyFstab == pc = "copy_fstab" /\ Saved.fstab # Absent /\ FstabBecomes(Saved.fstab)
CreateEntry ==
  /\ pc = "create_entry" /\ EntrySource # Absent
  /\ EntryBecomes(cmd.be, Replaced(EntrySource, OldName, cmd.be))
\* Mutant: the arguments of libze_util_copydir swapped.
CopyKernelsBack == pc = "copy_kernels" /\ ~cmd.snap /\ KernBecomes(active, kern[cmd.be])
CopyKernels == pc = "copy_kernels" /\ KernelSource # Absent /\ KernBecomes(cmd.be, KernelSource)
RemoveSaved == pc = "remove_saved" /\ SavedBecomes(NothingSaved)
CreateFstab == pc = "create_fstab" /\ FstabBecomes(Renewed(root[cmd.be].fstab, cmd.be))

\* remove_kernels
RemoveEntry == pc = "remove_entry" /\ EntryBecomes(cmd.be, Absent)
\* Mutant: the kernels stay.
KeepKernels == pc = "remove_kernels" /\ UNCHANGED files
RemoveKernels == pc = "remove_kernels" /\ KernBecomes(cmd.be, Absent)

\* libze_plugin_systemdboot_post_rename; fstab is not touched and goes on to
\* name the old directory.
RenameKernels ==
  /\ pc = "rename_kernels" /\ kern[cmd.be] # Absent /\ kern[cmd.to] = Absent
  /\ kern' = [kern EXCEPT ![cmd.to] = kern[cmd.be], ![cmd.be] = Absent]
  /\ UNCHANGED <<entry, default, root>>
RenameEntry ==
  /\ pc = "rename_entry" /\ entry[cmd.be] # Absent
  /\ EntryBecomes(cmd.to, Replaced(entry[cmd.be], cmd.be, cmd.to))
RemoveOldEntry == pc = "remove_old" /\ EntryBecomes(cmd.be, Absent)

\* libze_plugin_systemdboot_post_activate
LoaderDefault == pc = "loader_default" /\ DefaultBecomes(Renewed(default, cmd.be))

\* libze_plugin_systemdboot_pre_snapshot
SaveKernels ==
  /\ pc = "save_kernels" /\ kern[cmd.be] # Absent
  /\ SavedBecomes([Saved EXCEPT !.kern = kern[cmd.be]])
SaveEntry ==
  /\ pc = "save_entry" /\ entry[cmd.be] # Absent
  /\ SavedBecomes([Saved EXCEPT !.entry = Replaced(entry[cmd.be], cmd.be, Template)])
SaveFstab ==
  /\ pc = "save_fstab"
  /\ SavedBecomes([Saved EXCEPT !.fstab = Renewed(root[cmd.be].fstab, Template)])

TakeSnapshot ==
  /\ pc = "take_snapshot" /\ GoTo("idle")
  /\ AddSnapshot("snapshot", cmd.be)
  /\ UNCHANGED <<bevars, files, faults, mixed>>

HookStep ==
  /\ \/ CopyFstab \/ CreateEntry \/ CopyKernels \/ RemoveSaved \/ CreateFstab
     \/ RemoveEntry \/ RemoveKernels
     \/ RenameKernels \/ RenameEntry \/ RemoveOldEntry
     \/ LoaderDefault
     \/ SaveKernels \/ SaveEntry \/ SaveFstab
  /\ GoTo(Following)
  /\ UNCHANGED <<bevars, snapshots, faults, mixed>>

(***************************************************************************)
(* Failures.                                                               *)
(***************************************************************************)
Fault == faults < MaxFaults /\ faults' = faults + 1

\* Where a failed operation leaves the command.  The result of removing the
\* saved files is ignored; an error while the environment is mounted for the
\* snapshot is replaced by the result of unmounting it, so that the snapshot
\* is taken; when the mount itself fails the command ends.
AfterFailure ==
  CASE pc = "remove_saved" -> {"create_fstab"}
    [] pc = "save_kernels" /\ cmd.be # running -> {"idle", "take_snapshot"}
    [] pc \in {"save_entry", "save_fstab"} /\ cmd.be # running -> {"take_snapshot"}
    [] OTHER -> {"idle"}

\* A file the operation needs is not there, or the target of rename(2) is.
\* For the running environment pre_snapshot appends to mountpoint_buf, which
\* nothing has initialised: unless it happens to be empty there is no fstab
\* below it, and the hook fails.
Lacking ==
  \/ pc = "save_kernels" /\ cmd.be = running
  \/ pc = "copy_fstab" /\ Saved.fstab = Absent
  \/ pc = "create_entry" /\ EntrySource = Absent
  \/ pc = "copy_kernels" /\ KernelSource = Absent
  \/ pc = "rename_kernels" /\ (kern[cmd.be] = Absent \/ kern[cmd.to] # Absent)
  \/ pc = "rename_entry" /\ entry[cmd.be] = Absent
  \/ pc = "save_kernels" /\ kern[cmd.be] = Absent
  \/ pc = "save_entry" /\ entry[cmd.be] = Absent

\* What an operation that stops halfway leaves of the file it writes.
Tear ==
  \/ pc = "copy_fstab" /\ FstabBecomes(Torn)
  \/ pc = "create_entry" /\ EntryBecomes(cmd.be, Torn)
  \/ pc \in {"copy_kernels", "remove_kernels"} /\ KernBecomes(cmd.be, Torn)
  \/ pc \in {"remove_saved", "save_kernels"} /\ SavedBecomes([Saved EXCEPT !.kern = Torn])
  \/ pc = "rename_entry" /\ EntryBecomes(cmd.to, Torn)
  \/ pc = "save_entry" /\ SavedBecomes([Saved EXCEPT !.entry = Torn])
  \/ pc = "save_fstab" /\ SavedBecomes([Saved EXCEPT !.fstab = Torn])

Fails ==
  /\ pc # "idle"
  /\ \/ Lacking /\ UNCHANGED <<files, faults>>
     \/ Fault /\ (Tear \/ UNCHANGED files)
  /\ \E l \in AfterFailure : GoTo(l)
  /\ UNCHANGED <<bevars, snapshots, mixed>>

\* replace_matched ignores failed writes and returns success after an error of
\* its callback, and libze_util_copy_file ignores that flushing fails: what is
\* written in part is kept, and renamed over loader.conf and fstab.
GoesOnTorn ==
  /\ pc \in {"copy_fstab", "create_entry", "copy_kernels", "create_fstab", "rename_entry",
            "loader_default", "save_kernels", "save_entry", "save_fstab"}
  /\ Fault
  /\ \/ Tear
     \/ pc = "create_fstab" /\ FstabBecomes(Torn)
     \/ pc = "loader_default" /\ DefaultBecomes(Torn)
  /\ GoTo(Following)
  /\ UNCHANGED <<bevars, snapshots, mixed>>

\* The command is killed; files that are replaced by rename(2) stay whole.
Crash ==
  /\ pc # "idle" /\ Fault /\ GoTo("idle")
  /\ Tear \/ UNCHANGED files
  /\ UNCHANGED <<bevars, snapshots, mixed>>

(***************************************************************************)
(* What others do: the package manager and the boot loader.                *)
(***************************************************************************)
\* New modules go to the running environment, the kernel to /boot, which is
\* the directory its fstab names.
Upgrade ==
  /\ pc = "idle" /\ root[running].ver < MaxVersion
  /\ root' = [root EXCEPT ![running].ver = @ + 1]
  /\ kern' = [n \in Names |-> IF n = root[running].fstab /\ kern[n] # Absent
                              THEN root[running].ver + 1 ELSE kern[n]]
  /\ UNCHANGED <<bevars, entry, default, snapshots, cmd, pc, faults, mixed>>

\* The boot loader shows every entry; the chosen one names dataset and kernels.
Boot(n) ==
  /\ pc = "idle"
  /\ entry[n] \in Names /\ kern[entry[n]] \in Versions
  /\ RebootInto(entry[n])
  /\ UNCHANGED <<files, snapshots, cmd, pc, faults, mixed>>

StartCommand ==
  \E n \in Names :
    \/ "active" \in Sources /\ CreateFrom(n, active)
    \/ "dataset" \in Sources /\ \E m \in bes : CreateFrom(n, m)
    \/ \E s \in snapshots : CreateFromSnapshot(n, s)
    \/ Destroy(n) \/ Activate(n) \/ Snapshot(n)
    \/ \E m \in Names : Rename(n, m)

SBNext ==
  \/ StartCommand \/ \E s \in snapshots : DestroySnapshot(s)
  \/ HookStep \/ TakeSnapshot
  \/ Fails \/ GoesOnTorn \/ Crash
  \/ Upgrade \/ \E n \in Names : Boot(n)

SBSpec == SBInit /\ [][SBNext]_sbvars

(***************************************************************************)
(* Properties.                                                             *)
(***************************************************************************)
Complete(n) == entry[n] = n /\ kern[n] \in Versions
Undisturbed == pc = "idle" /\ faults = 0

\* post_create, post_destroy, pre_snapshot: as long as every environment was
\* created from the activated one or from a snapshot that zectl snapshot took,
\* and none was renamed, each environment boots with the kernels its modules
\* were built for, and updates of it go to its own directory.
KernelsMatch ==
  Undisturbed /\ ~mixed =>
    \A n \in bes : entry[n] = n /\ kern[n] = root[n].ver /\ root[n].fstab = n

\* remove_kernels and post_rename: no loader entry and no kernels stay behind
\* for a name that is no environment, in any sequence of commands.
NoOrphans ==
  Undisturbed => \A n \in Names \ bes : entry[n] = Absent /\ kern[n] = Absent

\* post_activate: the boot loader and the pool agree on the environment that
\* is started next, whatever was destroyed, renamed or booted in between.
DefaultIsActive == Undisturbed => default = active

\* Whatever fails and whenever a command is killed, the running environment
\* keeps a whole loader entry and whole kernels: it can be booted again.
RunningBootable == Complete(running)

\* pre_snapshot runs before zfs_snapshot: a snapshot that zectl snapshot took
\* holds the kernels of the modules beside them.
SnapshotsBootable ==
  faults = 0 /\ ~mixed =>
    \A s \in snapshots : s.by = "snapshot" =>
      s.data.saved = [kern |-> s.data.ver, entry |-> Template, fstab |-> Template]
=============================================================================
