------------------------- MODULE SystemdBootProofs -------------------------
(***************************************************************************)
(* For any names, versions and number of failures: the types of            *)
(* SystemdBoot, and that the running environment can be booted again.      *)
(*                                                                         *)
(* RunningBootable is not inductive.  A step may name the running          *)
(* environment in its file operation unless the hook is known to work for  *)
(* another one (ControlOK); and a reboot into another environment needs    *)
(* that a loader entry boots no environment but its own (FilesOK), for     *)
(* which the saved entries must mention the placeholder only (SavedOK).    *)
(***************************************************************************)
EXTENDS SystemdBoot, TLAPS

CreateLabels == {"copy_fstab", "create_entry", "copy_kernels", "remove_saved", "create_fstab"}
DestroyLabels == {"remove_entry", "remove_kernels"}
RenameLabels == {"rename_kernels", "rename_entry", "remove_old"}
SnapshotLabels == {"save_kernels", "save_entry", "save_fstab", "take_snapshot"}
Labels ==
  CreateLabels \cup DestroyLabels \cup RenameLabels \cup SnapshotLabels \cup {"loader_default"}

BesOK == bes \subseteq Names /\ active \in bes /\ running \in bes

SavedOK(data) == data \in Contents /\ data.saved.entry \in {Absent, Torn, Template}

FilesOK ==
  /\ entry \in [Names -> Texts] /\ kern \in [Names -> Kernels]
  /\ default \in Names \cup {Torn}
  /\ root \in [Names -> Contents]
  /\ \A n \in Names : entry[n] \in {n, Absent, Torn}
  /\ \A n \in Names : SavedOK(root[n])
  /\ RunningBootable

SnapshotsOK == snapshots \subseteq Snapshots /\ \A s \in snapshots : SavedOK(s.data)

ControlOK ==
  /\ cmd \in Command /\ pc \in Labels \cup {"idle"}
  /\ faults \in 0 .. MaxFaults /\ mixed \in BOOLEAN
  /\ pc # "idle" => cmd.be \in Names
  /\ pc \in RenameLabels => cmd.to \in Names \ {running}
  /\ pc \in CreateLabels \cup DestroyLabels \cup RenameLabels => cmd.be # running

BootInv == BesOK /\ FilesOK /\ SnapshotsOK /\ ControlOK

(***************************************************************************)
(* What the file operations are built from keeps FilesOK.                  *)
(***************************************************************************)
LEMMA EntryKept ==
  ASSUME BesOK, FilesOK, UNCHANGED bevars, NEW n \in Names \ {running},
         NEW x \in {n, Absent, Torn}, EntryBecomes(n, x)
  PROVE  FilesOK'
<1>1. entry' \in [Names -> Texts] /\ \A m \in Names : entry'[m] \in {m, Absent, Torn}
  BY DEF FilesOK, EntryBecomes, Texts
<1>2. entry'[running] = entry[running] /\ running' = running /\ running \in Names
  BY DEF FilesOK, EntryBecomes, BesOK, bevars
<1> QED BY <1>1, <1>2 DEF FilesOK, EntryBecomes, RunningBootable, Complete

LEMMA KernKept ==
  ASSUME BesOK, FilesOK, UNCHANGED bevars, NEW n \in Names \ {running},
         NEW x \in Kernels, KernBecomes(n, x)
  PROVE  FilesOK'
<1>1. kern' \in [Names -> Kernels]
  BY DEF FilesOK, KernBecomes
<1>2. kern'[running] = kern[running] /\ running' = running /\ running \in Names
  BY DEF FilesOK, KernBecomes, BesOK, bevars
<1> QED BY <1>1, <1>2 DEF FilesOK, KernBecomes, RunningBootable, Complete

LEMMA DefaultKept ==
  ASSUME FilesOK, UNCHANGED bevars, NEW x \in Names \cup {Torn}, DefaultBecomes(x)
  PROVE  FilesOK'
BY DEF FilesOK, DefaultBecomes, RunningBootable, Complete, bevars

\* root may change as long as each of its parts is right.
LEMMA RootKept ==
  ASSUME FilesOK, running' = running, UNCHANGED <<entry, kern, default>>,
         root' \in [Names -> Contents], \A n \in Names : SavedOK(root'[n])
  PROVE  FilesOK'
BY DEF FilesOK, RunningBootable, Complete, SavedOK

LEMMA FstabKept ==
  ASSUME FilesOK, UNCHANGED bevars, cmd.be \in Names, NEW x \in Texts, FstabBecomes(x)
  PROVE  FilesOK'
<1> DEFINE r == root[cmd.be]
           r2 == [r EXCEPT !.fstab = x]
<1>1. r \in Contents /\ SavedOK(r)
  BY DEF FilesOK
<1>2. r2 \in Contents /\ r2.saved = r.saved
  BY <1>1 DEF Contents
<1>3. SavedOK(r2)
  BY <1>1, <1>2 DEF SavedOK
<1>4. root' = [root EXCEPT ![cmd.be] = r2] /\ UNCHANGED <<entry, kern, default>>
  BY DEF FstabBecomes
<1> HIDE DEF r2
<1>5. root' \in [Names -> Contents] /\ \A n \in Names : SavedOK(root'[n])
  BY <1>2, <1>3, <1>4 DEF FilesOK
<1> QED BY <1>4, <1>5, RootKept DEF bevars

LEMMA SavedKept ==
  ASSUME FilesOK, UNCHANGED bevars, cmd.be \in Names,
         NEW x \in SavedFiles, x.entry \in {Absent, Torn, Template}, SavedBecomes(x)
  PROVE  FilesOK'
<1> DEFINE r == root[cmd.be]
           r2 == [r EXCEPT !.saved = x]
<1>1. r \in Contents /\ SavedOK(r)
  BY DEF FilesOK
<1>2. r2 \in Contents /\ r2.saved = x
  BY <1>1 DEF Contents
<1>3. SavedOK(r2)
  BY <1>2 DEF SavedOK
<1>4. root' = [root EXCEPT ![cmd.be] = r2] /\ UNCHANGED <<entry, kern, default>>
  BY DEF SavedBecomes
<1> HIDE DEF r2
<1>5. root' \in [Names -> Contents] /\ \A n \in Names : SavedOK(root'[n])
  BY <1>2, <1>3, <1>4 DEF FilesOK
<1> QED BY <1>4, <1>5, RootKept DEF bevars

LEMMA FilesUnchanged ==
  ASSUME FilesOK, UNCHANGED bevars, UNCHANGED files
  PROVE  FilesOK'
BY RootKept DEF FilesOK, files, bevars

(***************************************************************************)
(* Each operation of a hook, and each way in which it stops halfway.       *)
(***************************************************************************)
LEMMA SavedTypes ==
  ASSUME FilesOK, cmd.be \in Names
  PROVE  /\ root[cmd.be] \in Contents /\ root[cmd.be].fstab \in Texts
         /\ Saved \in SavedFiles /\ Saved.entry \in {Absent, Torn, Template}
         /\ Saved.kern \in Kernels /\ Saved.fstab \in Texts
<1>1. root[cmd.be] \in Contents /\ SavedOK(root[cmd.be])
  BY DEF FilesOK
<1>2. Saved \in SavedFiles
  BY <1>1 DEF Saved, Contents
<1> QED BY <1>1, <1>2 DEF Saved, SavedOK, Contents, SavedFiles

LEMMA HookKeepsFiles ==
  ASSUME BesOK, FilesOK, ControlOK, HookStep
  PROVE  FilesOK'
<1> USE SystemdBootAssumption
<1>1. pc # "idle" /\ cmd.be \in Names
  BY DEF HookStep, ControlOK, CopyFstab, CreateEntry, CopyKernels, RemoveSaved, CreateFstab,
         RemoveEntry, RemoveKernels, RenameKernels, RenameEntry, RemoveOldEntry, LoaderDefault,
         SaveKernels, SaveEntry, SaveFstab
<1>2. UNCHANGED bevars
  BY DEF HookStep
<1>3. /\ Saved \in SavedFiles /\ Saved.entry \in {Absent, Torn, Template}
      /\ Saved.kern \in Kernels /\ Saved.fstab \in Texts /\ root[cmd.be].fstab \in Texts
  BY <1>1, SavedTypes
<1>4. CASE CopyFstab
  BY <1>1, <1>2, <1>3, <1>4, FstabKept DEF CopyFstab
<1>5. CASE CreateEntry
  <2>1. cmd.be \in Names \ {running}
    BY <1>1, <1>5 DEF ControlOK, CreateEntry, CreateLabels
  <2>2. entry[active] \in {active, Absent, Torn} /\ active \in Names
    BY DEF FilesOK, BesOK
  <2>3. Replaced(EntrySource, OldName, cmd.be) \in {cmd.be, Absent, Torn}
    BY <1>3, <2>2 DEF Replaced, EntrySource, OldName
  <2> QED BY <1>2, <1>5, <2>1, <2>3, EntryKept DEF CreateEntry
<1>6. CASE CopyKernels
  <2>1. cmd.be \in Names \ {running}
    BY <1>1, <1>6 DEF ControlOK, CopyKernels, CreateLabels
  <2>2. KernelSource \in Kernels
    BY <1>3 DEF KernelSource, FilesOK, BesOK
  <2> QED BY <1>2, <1>6, <2>1, <2>2, KernKept DEF CopyKernels
<1>7. CASE RemoveSaved
  <2>1. NothingSaved \in SavedFiles /\ NothingSaved.entry = Absent
    BY DEF NothingSaved, SavedFiles, Kernels, Texts
  <2> QED BY <1>1, <1>2, <1>7, <2>1, SavedKept DEF RemoveSaved
<1>8. CASE CreateFstab
  <2>1. Renewed(root[cmd.be].fstab, cmd.be) \in Texts
    BY <1>1 DEF Renewed, Texts
  <2> QED BY <1>1, <1>2, <1>8, <2>1, FstabKept DEF CreateFstab
<1>9. CASE RemoveEntry \/ RemoveOldEntry
  <2>1. cmd.be \in Names \ {running}
    BY <1>1, <1>9 DEF ControlOK, RemoveEntry, RemoveOldEntry, DestroyLabels, RenameLabels
  <2> QED BY <1>2, <1>9, <2>1, EntryKept DEF RemoveEntry, RemoveOldEntry
<1>10. CASE RemoveKernels
  <2>1. cmd.be \in Names \ {running}
    BY <1>1, <1>10 DEF ControlOK, RemoveKernels, DestroyLabels
  <2>2. Absent \in Kernels
    BY DEF Kernels
  <2> QED BY <1>2, <1>10, <2>1, <2>2, KernKept DEF RemoveKernels
<1>11. CASE RenameKernels
  <2>1. cmd.be \in Names \ {running} /\ cmd.to \in Names \ {running}
    BY <1>1, <1>11 DEF ControlOK, RenameKernels, RenameLabels
  <2>2. kern' \in [Names -> Kernels] /\ UNCHANGED <<entry, default, root>>
    BY <1>11, <2>1 DEF RenameKernels, FilesOK, Kernels
  <2>3. kern'[running] = kern[running] /\ running' = running /\ running \in Names
    BY <1>2, <1>11, <2>1 DEF RenameKernels, FilesOK, BesOK, bevars
  <2> QED BY <2>2, <2>3 DEF FilesOK, RunningBootable, Complete
<1>12. CASE RenameEntry
  <2>1. cmd.to \in Names \ {running}
    BY <1>12 DEF ControlOK, RenameEntry, RenameLabels
  <2>2. Replaced(entry[cmd.be], cmd.be, cmd.to) \in {cmd.to, Absent, Torn}
    BY <1>1 DEF Replaced, FilesOK
  <2> QED BY <1>2, <1>12, <2>1, <2>2, EntryKept DEF RenameEntry
<1>13. CASE LoaderDefault
  <2>1. Renewed(default, cmd.be) \in Names \cup {Torn}
    BY <1>1 DEF Renewed
  <2> QED BY <1>2, <1>13, <2>1, DefaultKept DEF LoaderDefault
<1>14. CASE SaveKernels
  <2> DEFINE x == [Saved EXCEPT !.kern = kern[cmd.be]]
  <2>1. x \in SavedFiles /\ x.entry = Saved.entry
    BY <1>1, <1>3 DEF SavedFiles, FilesOK
  <2> QED BY <1>1, <1>2, <1>3, <1>14, <2>1, SavedKept DEF SaveKernels
<1>15. CASE SaveEntry
  <2> DEFINE text == Replaced(entry[cmd.be], cmd.be, Template)
             x == [Saved EXCEPT !.entry = text]
  <2>1. text \in {Absent, Torn, Template} /\ text \in Texts
    BY <1>1 DEF Replaced, FilesOK, Texts
  <2>2. x \in SavedFiles /\ x.entry = text
    BY <1>3, <2>1 DEF SavedFiles
  <2> QED BY <1>1, <1>2, <1>15, <2>1, <2>2, SavedKept DEF SaveEntry
<1>16. CASE SaveFstab
  <2> DEFINE text == Renewed(root[cmd.be].fstab, Template)
             x == [Saved EXCEPT !.fstab = text]
  <2>1. text \in Texts
    BY DEF Renewed, Texts
  <2>2. x \in SavedFiles /\ x.entry = Saved.entry
    BY <1>3, <2>1 DEF SavedFiles
  <2> QED BY <1>1, <1>2, <1>3, <1>16, <2>2, SavedKept DEF SaveFstab
<1> QED BY <1>4, <1>5, <1>6, <1>7, <1>8, <1>9, <1>10, <1>11, <1>12, <1>13, <1>14, <1>15, <1>16
        DEF HookStep

LEMMA TearKeepsFiles ==
  ASSUME BesOK, FilesOK, ControlOK, pc # "idle", UNCHANGED bevars, Tear
  PROVE  FilesOK'
<1>1. cmd.be \in Names
  BY DEF ControlOK
<1>2. Saved \in SavedFiles /\ Saved.entry \in {Absent, Torn, Template}
  BY <1>1, SavedTypes
<1>3. Torn \in Texts /\ Torn \in Kernels
  BY DEF Texts, Kernels
<1>4. CASE pc = "copy_fstab" /\ FstabBecomes(Torn)
  BY <1>1, <1>3, <1>4, FstabKept
<1>5. CASE pc = "create_entry" /\ EntryBecomes(cmd.be, Torn)
  <2>1. cmd.be \in Names \ {running}
    BY <1>1, <1>5 DEF ControlOK, CreateLabels
  <2> QED BY <1>5, <2>1, EntryKept
<1>6. CASE pc \in {"copy_kernels", "remove_kernels"} /\ KernBecomes(cmd.be, Torn)
  <2>1. cmd.be \in Names \ {running}
    BY <1>1, <1>6 DEF ControlOK, CreateLabels, DestroyLabels
  <2> QED BY <1>3, <1>6, <2>1, KernKept
<1>7. CASE pc \in {"remove_saved", "save_kernels"} /\ SavedBecomes([Saved EXCEPT !.kern = Torn])
  <2> DEFINE x == [Saved EXCEPT !.kern = Torn]
  <2>1. x \in SavedFiles /\ x.entry = Saved.entry
    BY <1>2, <1>3 DEF SavedFiles
  <2> QED BY <1>1, <1>2, <1>7, <2>1, SavedKept
<1>8. CASE pc = "rename_entry" /\ EntryBecomes(cmd.to, Torn)
  <2>1. cmd.to \in Names \ {running}
    BY <1>8 DEF ControlOK, RenameLabels
  <2> QED BY <1>8, <2>1, EntryKept
<1>9. CASE pc = "save_entry" /\ SavedBecomes([Saved EXCEPT !.entry = Torn])
  <2> DEFINE x == [Saved EXCEPT !.entry = Torn]
  <2>1. x \in SavedFiles /\ x.entry = Torn
    BY <1>2, <1>3 DEF SavedFiles
  <2> QED BY <1>1, <1>9, <2>1, SavedKept
<1>10. CASE pc = "save_fstab" /\ SavedBecomes([Saved EXCEPT !.fstab = Torn])
  <2> DEFINE x == [Saved EXCEPT !.fstab = Torn]
  <2>1. x \in SavedFiles /\ x.entry = Saved.entry
    BY <1>2, <1>3 DEF SavedFiles
  <2> QED BY <1>1, <1>2, <1>10, <2>1, SavedKept
<1> QED BY <1>4, <1>5, <1>6, <1>7, <1>8, <1>9, <1>10 DEF Tear

(***************************************************************************)
(* The invariant holds at first and every step keeps it.                   *)
(***************************************************************************)
LEMMA InitOK == SBInit => BootInv
<1> SUFFICES ASSUME SBInit PROVE BootInv
  OBVIOUS
<1> USE SystemdBootAssumption
<1>1. BesOK
  BY DEF SBInit, BEInit, BesOK
<1>2. 1 \in Versions /\ Absent \in Texts
  BY DEF Versions, Texts
<1>3. NothingSaved \in SavedFiles /\ NothingSaved.entry = Absent
  BY DEF NothingSaved, SavedFiles, Kernels, Texts
<1>4. SavedOK(Blank)
  BY <1>2, <1>3 DEF Blank, SavedOK, Contents
<1>5. ASSUME NEW n \in Names PROVE SavedOK([Blank EXCEPT !.fstab = n])
  BY <1>2, <1>3 DEF Blank, SavedOK, Contents, Texts
<1>6. FilesOK
  <2>1. /\ entry \in [Names -> Texts] /\ \A n \in Names : entry[n] \in {n, Absent, Torn}
        /\ kern \in [Names -> Kernels]
    BY <1>2 DEF SBInit, Texts, Kernels
  <2>2. \A n \in Names : SavedOK(root[n])
    BY <1>4, <1>5 DEF SBInit
  <2>3. root \in [Names -> Contents]
    BY <2>2 DEF SBInit, SavedOK
  <2>4. default \in Names \cup {Torn} /\ RunningBootable
    BY <1>1, <1>2 DEF SBInit, RunningBootable, Complete, BesOK
  <2> QED BY <2>1, <2>2, <2>3, <2>4 DEF FilesOK
<1>7. SnapshotsOK
  BY DEF SBInit, SnapshotsOK
<1>8. ControlOK
  <2>1. NoCommand \in Command
    BY DEF NoCommand, Command
  <2>2. pc = "idle" /\ cmd = NoCommand /\ faults = 0 /\ mixed = FALSE
    BY DEF SBInit
  <2>3. faults \in 0 .. MaxFaults
    BY <2>2
  <2> QED BY <2>1, <2>2, <2>3 DEF ControlOK, CreateLabels, DestroyLabels, RenameLabels
<1> QED BY <1>1, <1>6, <1>7, <1>8 DEF BootInv

\* The operations of a hook all keep to its own kind of environment.
LEMMA FollowingKept ==
  ASSUME ControlOK, pc # "idle", NEW l, l = Following \/ l \in AfterFailure \/ l = "idle",
         GoTo(l), running' = running, faults' \in 0 .. MaxFaults, UNCHANGED mixed
  PROVE  ControlOK'
<1> USE DEF CreateLabels, DestroyLabels, RenameLabels, SnapshotLabels, Labels
<1>1. pc \in Labels
  BY DEF ControlOK
<1>2. /\ l \in Labels \cup {"idle"}
      /\ l \in CreateLabels => pc \in CreateLabels
      /\ l \in DestroyLabels => pc \in DestroyLabels
      /\ l \in RenameLabels => pc \in RenameLabels
  <2>1. CASE l = Following
    BY <1>1, <2>1 DEF Following, Follows
  <2>2. CASE l \in AfterFailure
    BY <1>1, <2>2 DEF AfterFailure
  <2> QED BY <2>1, <2>2
<1>3. CASE l = "idle"
  <2>1. NoCommand \in Command
    BY DEF NoCommand, Command
  <2> QED BY <1>3, <2>1 DEF ControlOK, GoTo
<1>4. CASE l # "idle"
  <2>1. pc' = l /\ cmd' = cmd
    BY <1>4 DEF GoTo
  <2> QED BY <1>2, <2>1 DEF ControlOK
<1> QED BY <1>3, <1>4

\* The start of a command on n, which may only be the running environment
\* when its hook leaves loader entries and kernels alone.
LEMMA Started ==
  ASSUME ControlOK, NEW c \in Command, NEW l \in Labels, Start(c, l), c.be \in Names,
         l \in RenameLabels => c.to \in Names \ {running},
         l \in CreateLabels \cup DestroyLabels \cup RenameLabels => c.be # running,
         running' = running, mixed' \in BOOLEAN
  PROVE  ControlOK'
BY DEF ControlOK, Start, Labels, CreateLabels, DestroyLabels, RenameLabels, SnapshotLabels

LEMMA SnapshotAdded ==
  ASSUME FilesOK, SnapshotsOK, NEW by \in {"auto", "snapshot"}, NEW n \in Names,
         AddSnapshot(by, n)
  PROVE  SnapshotsOK'
<1> DEFINE s == [by |-> by, data |-> root[n]]
<1>1. SavedOK(root[n]) /\ root[n] \in Contents
  BY DEF FilesOK
<1>2. s \in Snapshots /\ SavedOK(s.data)
  BY <1>1 DEF Snapshots
<1>3. snapshots' = snapshots \cup {s}
  BY DEF AddSnapshot
<1> HIDE DEF s
<1> QED BY <1>2, <1>3 DEF SnapshotsOK, SavedOK

LEMMA CommandsOK ==
  ASSUME NEW n \in Names,
         NEW op \in {"create", "destroy", "rename", "activate", "snapshot"}
  PROVE  /\ Run(op, n) \in Command /\ Run(op, n).be = n
         /\ [Run(op, n) EXCEPT !.snap = TRUE] \in Command
         /\ [Run(op, n) EXCEPT !.snap = TRUE].be = n
BY DEF Run, NoCommand, Command

LEMMA RenameCommandOK ==
  ASSUME NEW n \in Names, NEW m \in Names
  PROVE  /\ [Run("rename", n) EXCEPT !.to = m] \in Command
         /\ [Run("rename", n) EXCEPT !.to = m].be = n
         /\ [Run("rename", n) EXCEPT !.to = m].to = m
BY DEF Run, NoCommand, Command

\* root with one environment's files replaced by others that are right.
LEMMA RootReplaced ==
  ASSUME FilesOK, running' = running, UNCHANGED <<entry, kern, default>>,
         NEW n \in Names, NEW x, SavedOK(x), root' = [root EXCEPT ![n] = x]
  PROVE  FilesOK'
<1>1. x \in Contents
  BY DEF SavedOK
<1>2. root' \in [Names -> Contents] /\ \A m \in Names : SavedOK(root'[m])
  BY <1>1 DEF FilesOK
<1> QED BY <1>2, RootKept

(***************************************************************************)
(* The commands.                                                           *)
(***************************************************************************)
LEMMA CreateFromOK ==
  ASSUME BootInv, NEW n \in Names, NEW m \in bes, CreateFrom(n, m)
  PROVE  BootInv'
<1>1. n \in Names \ bes /\ bes' = bes \cup {n} /\ active' = active /\ running' = running
  BY DEF CreateFrom, CreateBE
<1>2. n # running /\ m \in Names
  BY <1>1 DEF BootInv, BesOK
<1>3. BesOK'
  BY <1>1 DEF BootInv, BesOK
<1>4. FilesOK'
  <2>1. SavedOK(root[m])
    BY <1>2 DEF BootInv, FilesOK
  <2> QED BY <1>1, <2>1, RootReplaced DEF BootInv, CreateFrom
<1>5. SnapshotsOK'
  BY <1>2, SnapshotAdded DEF BootInv, CreateFrom
<1>6. ControlOK'
  <2>1. mixed' \in BOOLEAN
    BY DEF BootInv, ControlOK, CreateFrom, Mixing
  <2>2. Run("create", n) \in Command /\ Run("create", n).be = n
    BY CommandsOK
  <2>3. "create_entry" \in Labels /\ "create_entry" \notin RenameLabels
    BY DEF Labels, CreateLabels, RenameLabels
  <2> QED BY <1>1, <1>2, <2>1, <2>2, <2>3, Started DEF BootInv, CreateFrom
<1> QED BY <1>3, <1>4, <1>5, <1>6 DEF BootInv

LEMMA CreateFromSnapshotOK ==
  ASSUME BootInv, NEW n \in Names, NEW s \in snapshots, CreateFromSnapshot(n, s)
  PROVE  BootInv'
<1>1. n \in Names \ bes /\ bes' = bes \cup {n} /\ active' = active /\ running' = running
  BY DEF CreateFromSnapshot, CreateBE
<1>2. n # running
  BY <1>1 DEF BootInv, BesOK
<1>3. BesOK'
  BY <1>1 DEF BootInv, BesOK
<1>4. FilesOK'
  <2>1. SavedOK(s.data)
    BY DEF BootInv, SnapshotsOK
  <2> QED BY <1>1, <2>1, RootReplaced DEF BootInv, CreateFromSnapshot
<1>5. SnapshotsOK'
  BY DEF BootInv, SnapshotsOK, CreateFromSnapshot, SavedOK
<1>6. ControlOK'
  <2> DEFINE c == [Run("create", n) EXCEPT !.snap = TRUE]
  <2>1. mixed' \in BOOLEAN
    BY DEF BootInv, ControlOK, CreateFromSnapshot, Mixing
  <2>2. c \in Command /\ c.be = n
    BY CommandsOK
  <2>3. "copy_fstab" \in Labels /\ "copy_fstab" \notin RenameLabels
    BY DEF Labels, CreateLabels, RenameLabels
  <2>4. Start(c, "copy_fstab")
    BY DEF CreateFromSnapshot
  <2> HIDE DEF c
  <2> QED BY <1>1, <1>2, <2>1, <2>2, <2>3, <2>4, Started DEF BootInv
<1> QED BY <1>3, <1>4, <1>5, <1>6 DEF BootInv

LEMMA DestroyOK ==
  ASSUME BootInv, NEW n \in Names, Destroy(n)
  PROVE  BootInv'
<1> USE SystemdBootAssumption
<1>1. n \in bes \ {active, running} /\ bes' = bes \ {n} /\ active' = active /\ running' = running
  BY DEF Destroy, DestroyBE
<1>2. BesOK'
  BY <1>1 DEF BootInv, BesOK
<1>3. FilesOK'
  <2>1. NothingSaved \in SavedFiles /\ NothingSaved.entry = Absent
    BY DEF NothingSaved, SavedFiles, Kernels, Texts
  <2>2. SavedOK(Blank)
    BY <2>1 DEF Blank, SavedOK, Contents, Versions, Texts
  <2> QED BY <1>1, <2>2, RootReplaced DEF BootInv, Destroy
<1>4. SnapshotsOK'
  BY DEF BootInv, SnapshotsOK, Destroy, SavedOK
<1>5. ControlOK'
  <2>1. Run("destroy", n) \in Command /\ Run("destroy", n).be = n
    BY CommandsOK
  <2>2. "remove_entry" \in Labels /\ "remove_entry" \notin RenameLabels
    BY DEF Labels, DestroyLabels, RenameLabels
  <2>3. mixed' \in BOOLEAN
    BY DEF BootInv, ControlOK, Destroy
  <2> QED BY <1>1, <2>1, <2>2, <2>3, Started DEF BootInv, Destroy
<1> QED BY <1>2, <1>3, <1>4, <1>5 DEF BootInv

LEMMA RenameOK ==
  ASSUME BootInv, NEW n \in Names, NEW m \in Names, Rename(n, m)
  PROVE  BootInv'
<1> USE SystemdBootAssumption
<1>1. /\ n \in bes \ {active, running} /\ m \in Names \ bes /\ bes' = (bes \ {n}) \cup {m}
      /\ active' = active /\ running' = running
  BY DEF Rename, RenameTo
<1>2. m # running
  BY <1>1 DEF BootInv, BesOK
<1>3. BesOK'
  BY <1>1 DEF BootInv, BesOK
<1>4. FilesOK'
  <2>1. NothingSaved \in SavedFiles /\ NothingSaved.entry = Absent
    BY DEF NothingSaved, SavedFiles, Kernels, Texts
  <2>2. SavedOK(Blank) /\ SavedOK(root[n])
    BY <2>1 DEF Blank, SavedOK, Contents, Versions, Texts, BootInv, FilesOK
  <2>3. root' = [root EXCEPT ![m] = root[n], ![n] = Blank]
    BY DEF Rename
  <2>4. root' \in [Names -> Contents] /\ \A k \in Names : SavedOK(root'[k])
    BY <2>2, <2>3 DEF BootInv, FilesOK, SavedOK
  <2> QED BY <1>1, <2>4, RootKept DEF BootInv, Rename
<1>5. SnapshotsOK'
  BY DEF BootInv, SnapshotsOK, Rename, SavedOK
<1>6. ControlOK'
  <2> DEFINE c == [Run("rename", n) EXCEPT !.to = m]
  <2>1. c \in Command /\ c.be = n /\ c.to = m
    BY RenameCommandOK
  <2>2. "rename_kernels" \in Labels
    BY DEF Labels, RenameLabels
  <2>3. mixed' \in BOOLEAN
    BY DEF BootInv, ControlOK, Rename, Mixing
  <2>4. Start(c, "rename_kernels")
    BY DEF Rename
  <2> HIDE DEF c
  <2> QED BY <1>1, <1>2, <2>1, <2>2, <2>3, <2>4, Started DEF BootInv
<1> QED BY <1>3, <1>4, <1>5, <1>6 DEF BootInv

LEMMA ActivateOK ==
  ASSUME BootInv, NEW n \in Names, Activate(n)
  PROVE  BootInv'
<1>1. n \in bes /\ active' = n /\ bes' = bes /\ running' = running
  BY DEF Activate, ActivateBE
<1>2. BesOK' /\ SnapshotsOK'
  BY <1>1 DEF BootInv, BesOK, SnapshotsOK, Activate, SavedOK
<1>3. FilesOK'
  BY <1>1, RootKept DEF BootInv, FilesOK, Activate, files
<1>4. ControlOK'
  <2>1. Run("activate", n) \in Command /\ Run("activate", n).be = n
    BY CommandsOK
  <2>2. /\ "loader_default" \in Labels
        /\ "loader_default" \notin CreateLabels \cup DestroyLabels \cup RenameLabels
    BY DEF Labels, CreateLabels, DestroyLabels, RenameLabels
  <2>3. mixed' \in BOOLEAN
    BY DEF BootInv, ControlOK, Activate
  <2> QED BY <1>1, <2>1, <2>2, <2>3, Started DEF BootInv, Activate
<1> QED BY <1>2, <1>3, <1>4 DEF BootInv

LEMMA SnapshotOK ==
  ASSUME BootInv, NEW n \in Names, Snapshot(n)
  PROVE  BootInv'
<1>1. active' = active /\ bes' = bes /\ running' = running
  BY DEF Snapshot, bevars
<1>2. BesOK' /\ SnapshotsOK'
  BY <1>1 DEF BootInv, BesOK, SnapshotsOK, Snapshot, SavedOK
<1>3. FilesOK'
  BY FilesUnchanged DEF BootInv, Snapshot
<1>4. ControlOK'
  <2>1. Run("snapshot", n) \in Command /\ Run("snapshot", n).be = n
    BY CommandsOK
  <2>2. /\ "save_kernels" \in Labels
        /\ "save_kernels" \notin CreateLabels \cup DestroyLabels \cup RenameLabels
    BY DEF Labels, SnapshotLabels, CreateLabels, DestroyLabels, RenameLabels
  <2>3. mixed' \in BOOLEAN
    BY DEF BootInv, ControlOK, Snapshot
  <2> QED BY <1>1, <2>1, <2>2, <2>3, Started DEF BootInv, Snapshot
<1> QED BY <1>2, <1>3, <1>4 DEF BootInv

(***************************************************************************)
(* The steps of a hook, failures, upgrades and reboots.                    *)
(***************************************************************************)
LEMMA HookStepOK ==
  ASSUME BootInv, HookStep
  PROVE  BootInv'
<1>1. UNCHANGED bevars /\ UNCHANGED <<snapshots, faults, mixed>> /\ GoTo(Following)
  BY DEF HookStep
<1>2. BesOK' /\ SnapshotsOK'
  BY <1>1 DEF BootInv, BesOK, SnapshotsOK, SavedOK, bevars
<1>3. FilesOK'
  BY HookKeepsFiles DEF BootInv
<1>4. ControlOK'
  <2>1. pc # "idle"
    BY DEF HookStep, CopyFstab, CreateEntry, CopyKernels, RemoveSaved, CreateFstab,
           RemoveEntry, RemoveKernels, RenameKernels, RenameEntry, RemoveOldEntry, LoaderDefault,
           SaveKernels, SaveEntry, SaveFstab
  <2>2. running' = running /\ faults' \in 0 .. MaxFaults
    BY <1>1 DEF BootInv, ControlOK, bevars
  <2> QED BY <1>1, <2>1, <2>2, FollowingKept DEF BootInv
<1> QED BY <1>2, <1>3, <1>4 DEF BootInv

LEMMA TakeSnapshotOK ==
  ASSUME BootInv, TakeSnapshot
  PROVE  BootInv'
<1>1. UNCHANGED bevars /\ UNCHANGED <<files, faults, mixed>>
  BY DEF TakeSnapshot
<1>2. pc # "idle" /\ cmd.be \in Names
  BY DEF TakeSnapshot, BootInv, ControlOK
<1>3. BesOK'
  BY <1>1 DEF BootInv, BesOK, bevars
<1>4. FilesOK'
  BY <1>1, FilesUnchanged DEF BootInv
<1>5. SnapshotsOK'
  BY <1>2, SnapshotAdded DEF BootInv, TakeSnapshot
<1>6. ControlOK'
  <2>1. running' = running /\ faults' \in 0 .. MaxFaults
    BY <1>1 DEF BootInv, ControlOK, bevars
  <2> QED BY <1>1, <1>2, <2>1, FollowingKept DEF BootInv, TakeSnapshot
<1> QED BY <1>3, <1>4, <1>5, <1>6 DEF BootInv

\* A failure leaves the files as they are, or torn where the command works.
LEMMA FailureOK ==
  ASSUME BootInv, pc # "idle", UNCHANGED bevars, UNCHANGED <<snapshots, mixed>>, FilesOK',
         faults' = faults \/ Fault,
         NEW l, l = Following \/ l \in AfterFailure \/ l = "idle", GoTo(l)
  PROVE  BootInv'
<1> USE SystemdBootAssumption
<1>1. BesOK' /\ SnapshotsOK'
  BY DEF BootInv, BesOK, SnapshotsOK, SavedOK, bevars
<1>2. faults' \in 0 .. MaxFaults
  BY DEF BootInv, ControlOK, Fault
<1>3. ControlOK'
  BY <1>2, FollowingKept DEF BootInv, bevars
<1> QED BY <1>1, <1>3 DEF BootInv

LEMMA FailsOK ==
  ASSUME BootInv, Fails \/ GoesOnTorn \/ Crash
  PROVE  BootInv'
<1>1. pc # "idle" /\ UNCHANGED bevars /\ UNCHANGED <<snapshots, mixed>> /\ cmd.be \in Names
  BY DEF Fails, GoesOnTorn, Crash, BootInv, ControlOK
<1>2. ASSUME Tear \/ UNCHANGED files PROVE FilesOK'
  BY <1>1, <1>2, TearKeepsFiles, FilesUnchanged DEF BootInv
<1>3. CASE Fails
  <2>1. PICK l \in AfterFailure : GoTo(l)
    BY <1>3 DEF Fails
  <2>2. FilesOK' /\ (faults' = faults \/ Fault)
    BY <1>2, <1>3 DEF Fails
  <2> QED BY <1>1, <2>1, <2>2, FailureOK
<1>4. CASE GoesOnTorn
  <2>1. FilesOK'
    <3>1. CASE Tear
      BY <1>2, <3>1
    <3>2. CASE FstabBecomes(Torn)
      BY <1>1, <3>2, FstabKept DEF Texts, BootInv
    <3>3. CASE DefaultBecomes(Torn)
      BY <1>1, <3>3, DefaultKept DEF BootInv
    <3> QED BY <1>4, <3>1, <3>2, <3>3 DEF GoesOnTorn
  <2>2. Fault /\ GoTo(Following)
    BY <1>4 DEF GoesOnTorn
  <2> QED BY <1>1, <2>1, <2>2, FailureOK
<1>5. CASE Crash
  <2>1. FilesOK' /\ Fault /\ GoTo("idle")
    BY <1>2, <1>5 DEF Crash
  <2> QED BY <1>1, <2>1, FailureOK
<1> QED BY <1>3, <1>4, <1>5

LEMMA UpgradeOK ==
  ASSUME BootInv, Upgrade
  PROVE  BootInv'
<1> USE SystemdBootAssumption
<1>1. /\ UNCHANGED <<bes, active, running>>
      /\ UNCHANGED <<entry, default, snapshots, cmd, pc, faults, mixed>>
  BY DEF Upgrade, bevars
<1>2. BesOK' /\ SnapshotsOK' /\ ControlOK'
  BY <1>1 DEF BootInv, BesOK, SnapshotsOK, SavedOK, ControlOK
<1> DEFINE r == root[running]
           v == r.ver + 1
           r2 == [r EXCEPT !.ver = v]
<1>3. running \in Names /\ r \in Contents /\ SavedOK(r)
  BY DEF BootInv, BesOK, FilesOK
<1>4. v \in Versions
  BY <1>3 DEF Upgrade, Contents, Versions
<1>5. r2 \in Contents /\ r2.saved = r.saved
  BY <1>3, <1>4 DEF Contents
<1>6. root' = [root EXCEPT ![running] = r2]
  BY DEF Upgrade
<1>7. kern' = [n \in Names |-> IF n = r.fstab /\ kern[n] # Absent THEN v ELSE kern[n]]
  BY DEF Upgrade
<1> HIDE DEF r2, v
<1>8. root' \in [Names -> Contents] /\ \A n \in Names : SavedOK(root'[n])
  BY <1>3, <1>5, <1>6 DEF BootInv, FilesOK, SavedOK
<1>9. kern' \in [Names -> Kernels]
  BY <1>4, <1>7 DEF BootInv, FilesOK, Kernels
<1>10. kern'[running] \in Versions
  BY <1>3, <1>4, <1>7 DEF BootInv, FilesOK, RunningBootable, Complete
<1>11. FilesOK'
  BY <1>1, <1>8, <1>9, <1>10 DEF BootInv, FilesOK, RunningBootable, Complete
<1> QED BY <1>2, <1>11 DEF BootInv

LEMMA BootOK ==
  ASSUME BootInv, NEW n \in Names, Boot(n)
  PROVE  BootInv'
<1> USE SystemdBootAssumption
<1>1. /\ UNCHANGED <<entry, kern, default, root, snapshots, cmd, pc, faults, mixed>>
      /\ bes' = bes /\ active' = active /\ running' = entry[n] /\ entry[n] \in bes
      /\ pc = "idle" /\ kern[entry[n]] \in Versions /\ entry[n] \in Names
  BY DEF Boot, RebootInto, files
<1>2. entry[n] = n
  BY <1>1 DEF BootInv, FilesOK
<1>3. BesOK' /\ SnapshotsOK'
  BY <1>1 DEF BootInv, BesOK, SnapshotsOK, SavedOK
<1>4. FilesOK'
  BY <1>1, <1>2 DEF BootInv, FilesOK, SavedOK, RunningBootable, Complete
<1>5. ControlOK'
  BY <1>1 DEF BootInv, ControlOK, CreateLabels, DestroyLabels, RenameLabels
<1> QED BY <1>3, <1>4, <1>5 DEF BootInv

LEMMA NextOK == BootInv /\ [SBNext]_sbvars => BootInv'
<1> SUFFICES ASSUME BootInv, [SBNext]_sbvars PROVE BootInv'
  OBVIOUS
<1>1. CASE StartCommand
  <2>1. PICK n \in Names :
          \/ CreateFrom(n, active) \/ \E m \in bes : CreateFrom(n, m)
          \/ \E s \in snapshots : CreateFromSnapshot(n, s)
          \/ Destroy(n) \/ Activate(n) \/ Snapshot(n) \/ \E m \in Names : Rename(n, m)
    BY <1>1 DEF StartCommand
  <2>2. active \in bes
    BY DEF BootInv, BesOK
  <2> QED BY <2>1, <2>2, CreateFromOK, CreateFromSnapshotOK, DestroyOK, ActivateOK, SnapshotOK,
             RenameOK
<1>2. CASE \E s \in snapshots : DestroySnapshot(s)
  <2>1. /\ UNCHANGED bevars /\ UNCHANGED files /\ UNCHANGED <<cmd, pc, faults, mixed>>
        /\ snapshots' \subseteq snapshots
    BY <1>2 DEF DestroySnapshot
  <2>2. FilesOK'
    BY <2>1, FilesUnchanged DEF BootInv
  <2> QED BY <2>1, <2>2 DEF BootInv, BesOK, SnapshotsOK, SavedOK, ControlOK, bevars
<1>3. CASE UNCHANGED sbvars
  <2>1. UNCHANGED bevars /\ UNCHANGED files /\ UNCHANGED <<snapshots, cmd, pc, faults, mixed>>
    BY <1>3 DEF sbvars
  <2>2. FilesOK'
    BY <2>1, FilesUnchanged DEF BootInv
  <2> QED BY <2>1, <2>2 DEF BootInv, BesOK, SnapshotsOK, SavedOK, ControlOK, bevars
<1>4. CASE \E n \in Names : Boot(n)
  BY <1>4, BootOK
<1> QED BY <1>1, <1>2, <1>3, <1>4, HookStepOK, TakeSnapshotOK, FailsOK, UpgradeOK DEF SBNext

\* The invariant of systemd-boot's files and hooks holds in every state.
THEOREM BootInvariant == SBSpec => []BootInv
BY InitOK, NextOK, PTL DEF SBSpec

\* Every variable keeps its type, for any constants; in particular the running
\* and the activated environment exist.
THEOREM EspTypeCorrect == SBSpec => []SBTypeOK
<1>1. BootInv => SBTypeOK
  <2>1. Labels \subseteq DOMAIN Follows
    BY DEF Labels, Follows, CreateLabels, DestroyLabels, RenameLabels, SnapshotLabels
  <2> QED BY <2>1 DEF BootInv, BesOK, FilesOK, SnapshotsOK, ControlOK, SBTypeOK
<1> QED BY <1>1, BootInvariant, PTL

\* libze_plugin_systemdboot: whatever operation fails, is written in part or is
\* cut off by a kill, and whatever was renamed, cloned or booted before, the
\* running environment has a loader entry of its own and whole kernels.
THEOREM RunningBootableAlways == SBSpec => []RunningBootable
<1>1. BootInv => RunningBootable
  BY DEF BootInv, FilesOK
<1> QED BY <1>1, BootInvariant, PTL

(***************************************************************************)
(* As long as nothing failed and no command was killed, the ESP follows    *)
(* the pool.  For any names, versions, snapshots and sequence of commands, *)
(* upgrades and reboots, loader.conf names the activated environment,      *)
(* nothing is left of an environment that is gone, and kernels, modules    *)
(* and fstab belong together.                                              *)
(*                                                                         *)
(* The last needs commands that keep files of one environment together     *)
(* (~mixed); the first two do not, because a hook that finds no file to    *)
(* work on stops before it has changed one: a loader entry and its kernels *)
(* are always both there or both absent (PairsOK).                         *)
(***************************************************************************)

\* post_activate is the last step of zectl activate.
DefaultOK ==
  /\ pc = "loader_default" => cmd.be = active /\ default # Torn
  /\ pc # "loader_default" => default = active

\* Between the first and the last change a hook makes, one half is missing.
HalfDone(n) ==
  \/ n = cmd.be /\ pc \in {"copy_kernels", "remove_kernels", "rename_entry", "remove_old"}
  \/ n = cmd.to /\ pc = "rename_entry"

Leaving(n) == n = cmd.be /\ pc \in DestroyLabels \cup RenameLabels

SavedPair(data) == data.saved.entry = Absent <=> data.saved.kern = Absent

PairsOK ==
  /\ \A n \in Names : HalfDone(n) \/ (entry[n] = Absent <=> kern[n] = Absent)
  /\ \A n \in Names \ bes : Leaving(n) \/ (entry[n] = Absent /\ kern[n] = Absent)
  /\ \A n \in Names : SavedPair(root[n]) \/ (n = cmd.be /\ pc = "save_entry")
  /\ \A s \in snapshots : SavedPair(s.data)
  /\ pc \in CreateLabels => cmd.be \in bes \ {active}
  /\ pc \in DestroyLabels \cup RenameLabels => cmd.be \notin bes
  /\ pc \in RenameLabels => cmd.to \in bes
  /\ pc = "copy_kernels" => entry[cmd.be] # Absent /\ KernelSource # Absent
  /\ pc = "remove_kernels" => entry[cmd.be] = Absent
  /\ pc = "rename_kernels" => entry[cmd.to] = Absent /\ kern[cmd.to] = Absent
  /\ pc = "rename_entry" => entry[cmd.be] # Absent
  /\ pc \in {"rename_entry", "remove_old"} => kern[cmd.be] = Absent /\ kern[cmd.to] # Absent
  /\ pc = "save_entry" => entry[cmd.be] # Absent /\ Saved.kern # Absent

Matches(n) == entry[n] = n /\ kern[n] = root[n].ver /\ root[n].fstab = n
SavedMatches(data) ==
  data.saved = [kern |-> data.ver, entry |-> Template, fstab |-> Template]

\* What the hook at its label has made of the environment it works on.
HookMatches ==
  LET r == root[cmd.be] IN
  /\ pc \notin RenameLabels
  /\ pc \in CreateLabels /\ ~cmd.snap =>
       r.ver = root[active].ver /\ pc \notin {"copy_fstab", "remove_saved"}
  /\ pc \in {"copy_fstab", "create_entry", "copy_kernels"} /\ cmd.snap => SavedMatches(r)
  /\ pc \in CreateLabels \ {"copy_fstab"} => r.fstab # Torn
  /\ pc \in {"copy_kernels", "remove_saved", "create_fstab"} => entry[cmd.be] = cmd.be
  /\ pc \in {"remove_saved", "create_fstab"} => kern[cmd.be] = r.ver
  /\ pc \in SnapshotLabels => cmd.be \in bes
  /\ pc \in {"save_entry", "save_fstab", "take_snapshot"} => Saved.kern = r.ver
  /\ pc \in {"save_fstab", "take_snapshot"} => Saved.entry = Template
  /\ pc = "take_snapshot" => Saved.fstab = Template

MatchOK ==
  /\ \A n \in bes : Matches(n) \/ (n = cmd.be /\ pc \in CreateLabels)
  /\ \A s \in snapshots : s.by = "snapshot" => SavedMatches(s.data)
  /\ HookMatches

InStep == DefaultOK /\ PairsOK /\ (~mixed => MatchOK)

SyncInv == BootInv /\ (faults = 0 => InStep)

(***************************************************************************)
(* What the operations change.                                             *)
(***************************************************************************)
\* The types and the fields the steps below rely on.
LEMMA SyncFacts ==
  ASSUME BootInv
  PROVE  /\ bes \subseteq Names /\ active \in bes /\ running \in bes
         /\ entry \in [Names -> Texts] /\ kern \in [Names -> Kernels]
         /\ \A n \in Names : entry[n] \in {n, Absent, Torn}
         /\ root \in [Names -> Contents]
         /\ snapshots \subseteq Snapshots
         /\ pc \in Labels \cup {"idle"} /\ cmd \in Command
         /\ pc # "idle" => cmd.be \in Names
         /\ pc \in RenameLabels => cmd.to \in Names
BY DEF BootInv, BesOK, FilesOK, SnapshotsOK, ControlOK

\* The special texts are neither names nor versions, and differ.
LEMMA TextFacts ==
  /\ Absent \notin Versions
  /\ Absent \notin Names /\ Torn \notin Names /\ Template \notin Names
  /\ Absent # Torn /\ Absent # Template /\ Torn # Template
BY SystemdBootAssumption DEF Versions

\* An environment's files in the form of records.
LEMMA ContentsFields ==
  ASSUME NEW r \in Contents
  PROVE  /\ r.saved \in SavedFiles
         /\ r.saved = [kern |-> r.saved.kern, entry |-> r.saved.entry, fstab |-> r.saved.fstab]
         /\ r.ver \in Versions /\ r.fstab \in Texts
BY DEF Contents, SavedFiles

\* A new fstab.
LEMMA FstabFields ==
  ASSUME BootInv, cmd.be \in Names, NEW x, FstabBecomes(x)
  PROVE  /\ root'[cmd.be].fstab = x /\ root'[cmd.be].ver = root[cmd.be].ver
         /\ root'[cmd.be].saved = root[cmd.be].saved
         /\ \A n \in Names \ {cmd.be} : root'[n] = root[n]
         /\ UNCHANGED <<entry, kern, default>>
<1>1. root \in [Names -> Contents]
  BY SyncFacts
<1>2. root[cmd.be] \in Contents
  BY <1>1
<1> QED
  BY <1>1, <1>2 DEF FstabBecomes, Contents

\* New saved files.
LEMMA SavedFields ==
  ASSUME BootInv, cmd.be \in Names, NEW x, SavedBecomes(x)
  PROVE  /\ root'[cmd.be].saved = x /\ root'[cmd.be].ver = root[cmd.be].ver
         /\ root'[cmd.be].fstab = root[cmd.be].fstab
         /\ \A n \in Names \ {cmd.be} : root'[n] = root[n]
         /\ UNCHANGED <<entry, kern, default>>
<1>1. root \in [Names -> Contents]
  BY SyncFacts
<1>2. root[cmd.be] \in Contents
  BY <1>1
<1> QED
  BY <1>1, <1>2 DEF SavedBecomes, Contents

\* When no command runs.
LEMMA IdleSync ==
  ASSUME InStep, pc = "idle"
  PROVE  /\ default = active
         /\ \A n \in Names : entry[n] = Absent <=> kern[n] = Absent
         /\ \A n \in Names \ bes : entry[n] = Absent /\ kern[n] = Absent
         /\ \A n \in Names : SavedPair(root[n])
         /\ \A s \in snapshots : SavedPair(s.data)
         /\ ~mixed => /\ \A n \in bes : Matches(n)
                      /\ \A s \in snapshots : s.by = "snapshot" => SavedMatches(s.data)
BY DEF InStep, DefaultOK, PairsOK, MatchOK, HalfDone, Leaving, CreateLabels, DestroyLabels,
       RenameLabels

(***************************************************************************)
(* The start of each command.                                              *)
(***************************************************************************)
\* The clone of an environment: its ESP files come from the activated one.
LEMMA CreateFromSync ==
  ASSUME BootInv, InStep, NEW n \in Names, NEW m \in bes, CreateFrom(n, m)
  PROVE  InStep'
<1>1. /\ pc = "idle" /\ pc' = "create_entry" /\ cmd'.be = n /\ cmd'.snap = FALSE
      /\ n \notin bes /\ bes' = bes \cup {n} /\ active' = active
      /\ UNCHANGED <<entry, kern, default>>
      /\ root'[n] = root[m] /\ \A k \in Names \ {n} : root'[k] = root[k]
      /\ snapshots' = snapshots \cup {[by |-> "auto", data |-> root[m]]}
      /\ ~mixed' => ~mixed /\ m = active
  BY SyncFacts DEF Run, NoCommand, CreateFrom, Start, CreateBE, AddSnapshot, Mixing
<1> USE SyncFacts, TextFacts, IdleSync DEF CreateLabels, DestroyLabels, RenameLabels, SnapshotLabels
<1>2. DefaultOK'
  BY <1>1 DEF DefaultOK
<1>3. PairsOK'
  BY <1>1 DEF PairsOK, HalfDone, Leaving, SavedPair
<1>4. ASSUME ~mixed' PROVE MatchOK'
  <2>1. \A k \in bes : Matches(k)'
    BY <1>1, <1>4 DEF Matches
  <2>2. HookMatches'
    BY <1>1, <1>4 DEF HookMatches, Matches
  <2> QED
    BY <1>1, <1>4, <2>1, <2>2 DEF MatchOK, SavedMatches
<1> QED
  BY <1>2, <1>3, <1>4 DEF InStep

\* The clone of a snapshot: its ESP files are the saved ones.
LEMMA CreateFromSnapshotSync ==
  ASSUME BootInv, InStep, NEW n \in Names, NEW s \in snapshots, CreateFromSnapshot(n, s)
  PROVE  InStep'
<1>1. /\ pc = "idle" /\ pc' = "copy_fstab" /\ cmd'.be = n /\ cmd'.snap = TRUE
      /\ n \notin bes /\ bes' = bes \cup {n} /\ active' = active
      /\ UNCHANGED <<entry, kern, default, snapshots>>
      /\ root'[n] = s.data /\ \A k \in Names \ {n} : root'[k] = root[k]
      /\ ~mixed' => ~mixed /\ s.by = "snapshot"
  BY SyncFacts DEF Run, NoCommand, CreateFromSnapshot, Start, CreateBE, Mixing, Snapshots
<1> USE SyncFacts, TextFacts, IdleSync DEF CreateLabels, DestroyLabels, RenameLabels, SnapshotLabels
<1>2. DefaultOK'
  BY <1>1 DEF DefaultOK
<1>3. PairsOK'
  BY <1>1 DEF PairsOK, HalfDone, Leaving, SavedPair
<1>4. ASSUME ~mixed' PROVE MatchOK'
  <2>1. \A k \in bes : Matches(k)'
    BY <1>1, <1>4 DEF Matches
  <2>2. HookMatches'
    BY <1>1, <1>4 DEF HookMatches, SavedMatches
  <2> QED
    BY <1>1, <1>4, <2>1, <2>2 DEF MatchOK, SavedMatches
<1> QED
  BY <1>2, <1>3, <1>4 DEF InStep

\* The environment is gone from the pool, its files are still there.
LEMMA DestroySync ==
  ASSUME BootInv, InStep, NEW n \in Names, Destroy(n)
  PROVE  InStep'
<1>1. /\ pc = "idle" /\ pc' = "remove_entry" /\ cmd'.be = n
      /\ n \in bes \ {active} /\ bes' = bes \ {n} /\ active' = active
      /\ UNCHANGED <<entry, kern, default, mixed>> /\ snapshots' \subseteq snapshots
      /\ root'[n] = Blank /\ \A k \in Names \ {n} : root'[k] = root[k]
  BY SyncFacts DEF Run, NoCommand, Destroy, Start, DestroyBE
<1>2. SavedPair(Blank)
  BY DEF SavedPair, Blank, NothingSaved
<1> USE SyncFacts, TextFacts, IdleSync DEF CreateLabels, DestroyLabels, RenameLabels, SnapshotLabels
<1>3. DefaultOK'
  BY <1>1 DEF DefaultOK
<1>4. PairsOK'
  BY <1>1, <1>2 DEF PairsOK, HalfDone, Leaving, SavedPair
<1>5. ASSUME ~mixed' PROVE MatchOK'
  BY <1>1, <1>5 DEF MatchOK, HookMatches, Matches, SavedMatches
<1> QED
  BY <1>3, <1>4, <1>5 DEF InStep

\* The environment has a new name in the pool; from now on files are mixed.
LEMMA RenameSync ==
  ASSUME BootInv, InStep, NEW n \in Names, NEW m \in Names, Rename(n, m)
  PROVE  InStep'
<1>1. /\ pc = "idle" /\ pc' = "rename_kernels" /\ cmd'.be = n /\ cmd'.to = m
      /\ n \in bes \ {active} /\ m \notin bes /\ bes' = (bes \ {n}) \cup {m}
      /\ active' = active /\ mixed' = TRUE
      /\ UNCHANGED <<entry, kern, default, snapshots>>
      /\ root'[m] = root[n] /\ root'[n] = Blank
      /\ \A k \in Names \ {n, m} : root'[k] = root[k]
  BY SyncFacts DEF Run, NoCommand, Rename, Start, RenameTo, Mixing
<1>2. SavedPair(Blank)
  BY DEF SavedPair, Blank, NothingSaved
<1> USE SyncFacts, TextFacts, IdleSync DEF CreateLabels, DestroyLabels, RenameLabels, SnapshotLabels
<1>3. DefaultOK'
  BY <1>1 DEF DefaultOK
<1>4. PairsOK'
  BY <1>1, <1>2 DEF PairsOK, HalfDone, Leaving, SavedPair
<1> QED
  BY <1>1, <1>3, <1>4 DEF InStep

\* activate: bootfs first, loader.conf then.
LEMMA ActivateSync ==
  ASSUME BootInv, InStep, NEW n \in Names, Activate(n)
  PROVE  InStep'
<1>1. /\ pc = "idle" /\ pc' = "loader_default" /\ cmd'.be = n /\ active' = n /\ bes' = bes
      /\ UNCHANGED <<entry, kern, default, root, snapshots, mixed>>
  BY SyncFacts DEF Run, NoCommand, Activate, Start, ActivateBE, files
<1> USE SyncFacts, TextFacts, IdleSync DEF CreateLabels, DestroyLabels, RenameLabels, SnapshotLabels
<1>2. DefaultOK'
  BY <1>1 DEF DefaultOK
<1>3. PairsOK'
  BY <1>1 DEF PairsOK, HalfDone, Leaving, SavedPair
<1>4. ASSUME ~mixed' PROVE MatchOK'
  BY <1>1, <1>4 DEF MatchOK, HookMatches, Matches, SavedMatches
<1> QED
  BY <1>2, <1>3, <1>4 DEF InStep

\* snapshot: the hook comes before the snapshot.
LEMMA SnapshotSync ==
  ASSUME BootInv, InStep, NEW n \in Names, Snapshot(n)
  PROVE  InStep'
<1>1. /\ pc = "idle" /\ pc' = "save_kernels" /\ cmd'.be = n /\ n \in bes
      /\ active' = active /\ bes' = bes
      /\ UNCHANGED <<entry, kern, default, root, snapshots, mixed>>
  BY SyncFacts DEF Run, NoCommand, Snapshot, Start, bevars, files
<1> USE SyncFacts, TextFacts, IdleSync DEF CreateLabels, DestroyLabels, RenameLabels, SnapshotLabels
<1>2. DefaultOK'
  BY <1>1 DEF DefaultOK
<1>3. PairsOK'
  BY <1>1 DEF PairsOK, HalfDone, Leaving, SavedPair
<1>4. ASSUME ~mixed' PROVE MatchOK'
  BY <1>1, <1>4 DEF MatchOK, HookMatches, Matches, SavedMatches
<1> QED
  BY <1>2, <1>3, <1>4 DEF InStep

(***************************************************************************)
(* The steps of the hooks.                                                 *)
(***************************************************************************)
\* post_create: first fstab and the loader entry, then the kernels.
LEMMA CreateHookSync ==
  ASSUME BootInv, InStep, UNCHANGED bevars, UNCHANGED <<snapshots, mixed>>, GoTo(Following),
         CopyFstab \/ CreateEntry \/ CopyKernels \/ RemoveSaved \/ CreateFstab
  PROVE  InStep'
<1>1. pc \in CreateLabels /\ cmd.be \in bes \ {active} /\ cmd.be \in Names
  BY SyncFacts
     DEF InStep, PairsOK, CopyFstab, CreateEntry, CopyKernels, RemoveSaved, CreateFstab, CreateLabels
<1>2. UNCHANGED <<bes, active, running, default>> /\ (pc' # "idle" => cmd' = cmd)
  BY <1>1, FstabFields, SavedFields
     DEF bevars, GoTo, CopyFstab, CreateEntry, CopyKernels, RemoveSaved, CreateFstab,
         EntryBecomes, KernBecomes, FstabBecomes, SavedBecomes
<1> USE SyncFacts, TextFacts DEF CreateLabels, DestroyLabels, RenameLabels, SnapshotLabels
<1>3. pc' \in CreateLabels \cup {"idle"}
  BY <1>1 DEF Following, Follows, GoTo
<1>4. DefaultOK'
  BY <1>1, <1>2, <1>3 DEF DefaultOK, InStep
<1>5. CASE CopyFstab
  <2>1. /\ pc = "copy_fstab" /\ pc' = "create_entry"
        /\ root'[cmd.be].fstab = Saved.fstab /\ root'[cmd.be].ver = root[cmd.be].ver
        /\ root'[cmd.be].saved = root[cmd.be].saved
        /\ \A n \in Names \ {cmd.be} : root'[n] = root[n]
        /\ UNCHANGED <<entry, kern>>
    BY <1>1, <1>5, FstabFields DEF CopyFstab, Following, Follows, GoTo
  <2>2. PairsOK'
    BY <1>1, <1>2, <2>1 DEF InStep, PairsOK, HalfDone, Leaving, SavedPair
  <2>3. ASSUME ~mixed' PROVE MatchOK'
    BY <1>1, <1>2, <2>1, <2>3 DEF InStep, MatchOK, HookMatches, Matches, SavedMatches, Saved
  <2> QED
    BY <1>4, <2>2, <2>3 DEF InStep
<1>6. CASE CreateEntry
  <2>1. /\ pc = "create_entry" /\ pc' = "copy_kernels" /\ EntrySource # Absent
        /\ entry'[cmd.be] = Replaced(EntrySource, OldName, cmd.be)
        /\ \A n \in Names \ {cmd.be} : entry'[n] = entry[n]
        /\ UNCHANGED <<kern, root>>
    BY <1>1, <1>6 DEF CreateEntry, EntryBecomes, Following, Follows, GoTo
  <2>2. KernelSource' = KernelSource /\ KernelSource # Absent
    BY <1>1, <1>2, <2>1
       DEF KernelSource, EntrySource, Saved, InStep, PairsOK, HalfDone, SavedPair
  <2>3. entry'[cmd.be] # Absent
    BY <1>1, <2>1 DEF Replaced
  <2>4. PairsOK'
    BY <1>1, <1>2, <2>1, <2>2, <2>3 DEF InStep, PairsOK, HalfDone, Leaving, SavedPair
  <2>5. ASSUME ~mixed' PROVE MatchOK'
    <3>1. EntrySource = OldName
      BY <1>1, <2>1, <2>5
         DEF EntrySource, OldName, Saved, InStep, MatchOK, HookMatches, Matches, SavedMatches
    <3>2. entry'[cmd.be] = cmd.be
      BY <2>1, <3>1 DEF Replaced
    <3> QED
      BY <1>1, <1>2, <2>1, <2>5, <3>2
         DEF InStep, MatchOK, HookMatches, Matches, SavedMatches, Saved
  <2> QED
    BY <1>4, <2>4, <2>5 DEF InStep
<1>7. CASE CopyKernels
  <2>1. /\ pc = "copy_kernels" /\ kern'[cmd.be] = KernelSource
        /\ pc' = IF cmd.snap THEN "remove_saved" ELSE "create_fstab"
        /\ \A n \in Names \ {cmd.be} : kern'[n] = kern[n]
        /\ UNCHANGED <<entry, root>>
    BY <1>1, <1>7 DEF CopyKernels, KernBecomes, Following, Follows, GoTo
  <2>2. PairsOK'
    BY <1>1, <1>2, <2>1 DEF InStep, PairsOK, HalfDone, Leaving, SavedPair
  <2>3. ASSUME ~mixed' PROVE MatchOK'
    <3>1. KernelSource = root[cmd.be].ver
      BY <1>1, <2>1, <2>3
         DEF KernelSource, Saved, InStep, MatchOK, HookMatches, Matches, SavedMatches
    <3> QED
      BY <1>1, <1>2, <2>1, <2>3, <3>1
         DEF InStep, MatchOK, HookMatches, Matches, SavedMatches, Saved
  <2> QED
    BY <1>4, <2>2, <2>3 DEF InStep
<1>8. CASE RemoveSaved
  <2>1. /\ pc = "remove_saved" /\ pc' = "create_fstab"
        /\ root'[cmd.be].saved = NothingSaved /\ root'[cmd.be].ver = root[cmd.be].ver
        /\ root'[cmd.be].fstab = root[cmd.be].fstab
        /\ \A n \in Names \ {cmd.be} : root'[n] = root[n]
        /\ UNCHANGED <<entry, kern>>
    BY <1>1, <1>8, SavedFields DEF RemoveSaved, Following, Follows, GoTo
  <2>2. PairsOK'
    BY <1>1, <1>2, <2>1 DEF InStep, PairsOK, HalfDone, Leaving, SavedPair, NothingSaved
  <2>3. ASSUME ~mixed' PROVE MatchOK'
    BY <1>1, <1>2, <2>1, <2>3 DEF InStep, MatchOK, HookMatches, Matches, SavedMatches, Saved
  <2> QED
    BY <1>4, <2>2, <2>3 DEF InStep
<1>9. CASE CreateFstab
  <2>1. /\ pc = "create_fstab" /\ pc' = "idle"
        /\ root'[cmd.be].fstab = Renewed(root[cmd.be].fstab, cmd.be)
        /\ root'[cmd.be].ver = root[cmd.be].ver
        /\ root'[cmd.be].saved = root[cmd.be].saved
        /\ \A n \in Names \ {cmd.be} : root'[n] = root[n]
        /\ UNCHANGED <<entry, kern>>
    BY <1>1, <1>9, FstabFields DEF CreateFstab, Following, Follows, GoTo
  <2>2. PairsOK'
    BY <1>1, <1>2, <2>1 DEF InStep, PairsOK, HalfDone, Leaving, SavedPair
  <2>3. ASSUME ~mixed' PROVE MatchOK'
    <3>1. root'[cmd.be].fstab = cmd.be
      BY <1>1, <2>1, <2>3 DEF Renewed, InStep, MatchOK, HookMatches
    <3> QED
      BY <1>1, <1>2, <2>1, <2>3, <3>1
         DEF InStep, MatchOK, HookMatches, Matches, SavedMatches, Saved
  <2> QED
    BY <1>4, <2>2, <2>3 DEF InStep
<1> QED
  BY <1>5, <1>6, <1>7, <1>8, <1>9

\* remove_kernels: the entry, then the kernels.
LEMMA DestroyHookSync ==
  ASSUME BootInv, InStep, UNCHANGED bevars, UNCHANGED <<snapshots, mixed>>, GoTo(Following),
         RemoveEntry \/ RemoveKernels
  PROVE  InStep'
<1>1. pc \in DestroyLabels /\ cmd.be \notin bes /\ cmd.be \in Names
  BY SyncFacts DEF InStep, PairsOK, RemoveEntry, RemoveKernels, DestroyLabels
<1>2. /\ UNCHANGED <<bes, active, running, default, root>>
      /\ \/ /\ pc = "remove_entry" /\ pc' = "remove_kernels" /\ cmd' = cmd
            /\ entry'[cmd.be] = Absent /\ UNCHANGED kern
            /\ \A n \in Names \ {cmd.be} : entry'[n] = entry[n]
         \/ /\ pc = "remove_kernels" /\ pc' = "idle"
            /\ kern'[cmd.be] = Absent /\ UNCHANGED entry
            /\ \A n \in Names \ {cmd.be} : kern'[n] = kern[n]
  BY <1>1, SyncFacts
     DEF bevars, GoTo, RemoveEntry, RemoveKernels, EntryBecomes, KernBecomes, Following, Follows
<1> USE SyncFacts, TextFacts DEF CreateLabels, DestroyLabels, RenameLabels, SnapshotLabels
<1>3. DefaultOK'
  BY <1>1, <1>2 DEF DefaultOK, InStep
<1>4. PairsOK'
  BY <1>1, <1>2 DEF InStep, PairsOK, HalfDone, Leaving, SavedPair
<1>5. ASSUME ~mixed' PROVE MatchOK'
  BY <1>1, <1>2, <1>5 DEF InStep, MatchOK, HookMatches, Matches, SavedMatches, Saved
<1> QED
  BY <1>3, <1>4, <1>5 DEF InStep

\* post_rename: the kernels move, the entry is written anew and the old one removed.
LEMMA RenameHookSync ==
  ASSUME BootInv, InStep, UNCHANGED bevars, UNCHANGED <<snapshots, mixed>>, GoTo(Following),
         RenameKernels \/ RenameEntry \/ RemoveOldEntry
  PROVE  InStep'
<1>1. /\ pc \in RenameLabels /\ cmd.be \notin bes /\ cmd.to \in bes
      /\ cmd.be \in Names /\ cmd.to \in Names
  BY SyncFacts
     DEF InStep, PairsOK, RenameKernels, RenameEntry, RemoveOldEntry, RenameLabels
<1>2. mixed'
  BY <1>1 DEF InStep, MatchOK, HookMatches
<1>3. /\ UNCHANGED <<bes, active, running, default, root>>
      /\ \/ /\ pc = "rename_kernels" /\ pc' = "rename_entry" /\ cmd' = cmd
            /\ kern[cmd.be] # Absent /\ UNCHANGED entry
            /\ kern'[cmd.to] = kern[cmd.be] /\ kern'[cmd.be] = Absent
            /\ \A n \in Names \ {cmd.be, cmd.to} : kern'[n] = kern[n]
         \/ /\ pc = "rename_entry" /\ pc' = "remove_old" /\ cmd' = cmd
            /\ entry'[cmd.to] = Replaced(entry[cmd.be], cmd.be, cmd.to) /\ UNCHANGED kern
            /\ entry[cmd.be] # Absent
            /\ \A n \in Names \ {cmd.to} : entry'[n] = entry[n]
         \/ /\ pc = "remove_old" /\ pc' = "idle"
            /\ entry'[cmd.be] = Absent /\ UNCHANGED kern
            /\ \A n \in Names \ {cmd.be} : entry'[n] = entry[n]
  BY <1>1, SyncFacts
     DEF bevars, GoTo, RenameKernels, RenameEntry, RemoveOldEntry, EntryBecomes, Following, Follows
<1> USE SyncFacts, TextFacts DEF CreateLabels, DestroyLabels, RenameLabels, SnapshotLabels
<1>4. DefaultOK'
  BY <1>1, <1>3 DEF DefaultOK, InStep
<1>5. PairsOK'
  BY <1>1, <1>3 DEF InStep, PairsOK, HalfDone, Leaving, SavedPair, Replaced
<1> QED
  BY <1>2, <1>4, <1>5 DEF InStep

\* post_activate.
LEMMA DefaultHookSync ==
  ASSUME BootInv, InStep, UNCHANGED bevars, UNCHANGED <<snapshots, mixed>>, GoTo(Following),
         LoaderDefault
  PROVE  InStep'
<1>1. /\ pc = "loader_default" /\ pc' = "idle"
      /\ UNCHANGED <<bes, active, running, entry, kern, root>>
      /\ default' = Renewed(default, cmd.be)
  BY SyncFacts DEF bevars, GoTo, LoaderDefault, DefaultBecomes, Following, Follows
<1> USE SyncFacts, TextFacts DEF CreateLabels, DestroyLabels, RenameLabels, SnapshotLabels
<1>2. DefaultOK'
  BY <1>1 DEF DefaultOK, InStep, Renewed
<1>3. PairsOK'
  BY <1>1 DEF InStep, PairsOK, HalfDone, Leaving, SavedPair
<1>4. ASSUME ~mixed' PROVE MatchOK'
  BY <1>1, <1>4 DEF InStep, MatchOK, HookMatches, Matches, SavedMatches, Saved
<1> QED
  BY <1>2, <1>3, <1>4 DEF InStep

\* pre_snapshot: kernels, loader entry and fstab are saved in this order.
LEMMA SnapshotHookSync ==
  ASSUME BootInv, InStep, UNCHANGED bevars, UNCHANGED <<snapshots, mixed>>, GoTo(Following),
         SaveKernels \/ SaveEntry \/ SaveFstab
  PROVE  InStep'
<1> DEFINE r == root[cmd.be]
<1>1. pc \in SnapshotLabels /\ pc # "take_snapshot" /\ cmd.be \in Names
  BY SyncFacts DEF SaveKernels, SaveEntry, SaveFstab, SnapshotLabels
<1>2. UNCHANGED <<bes, active, running, default, entry, kern>>
  BY <1>1, SavedFields DEF bevars, SaveKernels, SaveEntry, SaveFstab
<1>3. /\ r \in Contents /\ Saved \in SavedFiles
      /\ Saved = [kern |-> Saved.kern, entry |-> Saved.entry, fstab |-> Saved.fstab]
  BY <1>1, SyncFacts, ContentsFields DEF Saved
<1>4. ASSUME NEW x, SavedBecomes(x)
      PROVE  /\ root'[cmd.be].saved = x /\ root'[cmd.be].ver = r.ver
             /\ root'[cmd.be].fstab = r.fstab
             /\ \A n \in Names \ {cmd.be} : root'[n] = root[n]
  BY <1>1, <1>4, SavedFields
<1> USE SyncFacts, TextFacts DEF CreateLabels, DestroyLabels, RenameLabels, SnapshotLabels
<1>5. pc' \in SnapshotLabels /\ cmd' = cmd
  BY <1>1 DEF Following, Follows, GoTo
<1>6. DefaultOK'
  BY <1>1, <1>2, <1>5 DEF DefaultOK, InStep
<1>7. CASE SaveKernels
  <2>1. /\ pc = "save_kernels" /\ pc' = "save_entry" /\ kern[cmd.be] # Absent
        /\ SavedBecomes([Saved EXCEPT !.kern = kern[cmd.be]])
    BY <1>1, <1>7 DEF SaveKernels, Following, Follows, GoTo
  <2>2. Saved'.kern = kern[cmd.be]
    BY <1>3, <1>4, <1>5, <2>1 DEF Saved, SavedFiles
  <2>3. PairsOK'
    BY <1>1, <1>2, <1>4, <1>5, <2>1, <2>2 DEF InStep, PairsOK, HalfDone, Leaving, SavedPair
  <2>4. ASSUME ~mixed' PROVE MatchOK'
    BY <1>1, <1>2, <1>4, <1>5, <2>1, <2>2, <2>4
       DEF InStep, MatchOK, HookMatches, Matches, SavedMatches
  <2> QED
    BY <1>6, <2>3, <2>4 DEF InStep
<1>8. CASE SaveEntry
  <2> DEFINE text == Replaced(entry[cmd.be], cmd.be, Template)
  <2>1. /\ pc = "save_entry" /\ pc' = "save_fstab"
        /\ SavedBecomes([Saved EXCEPT !.entry = text])
    BY <1>1, <1>8 DEF SaveEntry, Following, Follows, GoTo
  <2>2. Saved'.kern = Saved.kern /\ Saved'.entry = text
    BY <1>3, <1>4, <1>5, <2>1 DEF Saved, SavedFiles
  <2>3. text # Absent
    BY <1>8 DEF SaveEntry, Replaced
  <2>4. SavedPair(root'[cmd.be])
    BY <1>5, <2>1, <2>2, <2>3 DEF InStep, PairsOK, SavedPair, Saved
  <2>5. PairsOK'
    BY <1>1, <1>2, <1>4, <1>5, <2>1, <2>4 DEF InStep, PairsOK, HalfDone, Leaving, SavedPair
  <2>6. ASSUME ~mixed' PROVE MatchOK'
    <3>1. text = Template
      BY <1>1, <2>6 DEF InStep, MatchOK, HookMatches, Matches, Replaced
    <3> QED
      BY <1>1, <1>2, <1>4, <1>5, <2>1, <2>2, <2>6, <3>1
         DEF InStep, MatchOK, HookMatches, Matches, SavedMatches
  <2> QED
    BY <1>6, <2>5, <2>6 DEF InStep
<1>9. CASE SaveFstab
  <2> DEFINE text == Renewed(r.fstab, Template)
  <2>1. /\ pc = "save_fstab" /\ pc' = "take_snapshot"
        /\ SavedBecomes([Saved EXCEPT !.fstab = text])
    BY <1>1, <1>9 DEF SaveFstab, Following, Follows, GoTo
  <2>2. Saved'.kern = Saved.kern /\ Saved'.entry = Saved.entry /\ Saved'.fstab = text
    BY <1>3, <1>4, <1>5, <2>1 DEF Saved, SavedFiles
  <2>3. SavedPair(root'[cmd.be])
    BY <1>1, <1>5, <2>1, <2>2 DEF InStep, PairsOK, SavedPair, Saved
  <2>4. PairsOK'
    BY <1>1, <1>2, <1>4, <1>5, <2>1, <2>3 DEF InStep, PairsOK, HalfDone, Leaving, SavedPair
  <2>5. ASSUME ~mixed' PROVE MatchOK'
    <3>1. text = Template
      BY <1>1, <2>5 DEF InStep, MatchOK, HookMatches, Matches, Renewed
    <3> QED
      BY <1>1, <1>2, <1>4, <1>5, <2>1, <2>2, <2>5, <3>1
         DEF InStep, MatchOK, HookMatches, Matches, SavedMatches
  <2> QED
    BY <1>6, <2>4, <2>5 DEF InStep
<1> QED
  BY <1>7, <1>8, <1>9

\* The snapshot holds what the hook has saved.
LEMMA TakeSnapshotSync ==
  ASSUME BootInv, InStep, TakeSnapshot
  PROVE  InStep'
<1> DEFINE r == root[cmd.be]
<1>1. /\ pc = "take_snapshot" /\ pc' = "idle" /\ cmd.be \in Names /\ r \in Contents
      /\ UNCHANGED <<bes, active, running, default, entry, kern, root, mixed>>
      /\ snapshots' = snapshots \cup {[by |-> "snapshot", data |-> r]}
  BY SyncFacts DEF TakeSnapshot, GoTo, AddSnapshot, bevars, files
<1>2. r.saved = [kern |-> r.saved.kern, entry |-> r.saved.entry, fstab |-> r.saved.fstab]
  BY <1>1, ContentsFields
<1> USE SyncFacts, TextFacts DEF CreateLabels, DestroyLabels, RenameLabels, SnapshotLabels
<1>3. DefaultOK'
  BY <1>1 DEF DefaultOK, InStep
<1>4. PairsOK'
  BY <1>1 DEF InStep, PairsOK, HalfDone, Leaving, SavedPair
<1>5. ASSUME ~mixed' PROVE MatchOK'
  <2>1. SavedMatches(r)
    BY <1>1, <1>2, <1>5 DEF InStep, MatchOK, HookMatches, SavedMatches, Saved
  <2> QED
    BY <1>1, <1>5, <2>1 DEF InStep, MatchOK, HookMatches, Matches, SavedMatches
<1> QED
  BY <1>3, <1>4, <1>5 DEF InStep

\* A hook that lacks a file has not changed one, or works on none of importance:
\* with files that match it lacks none, but for a snapshot of the running
\* environment.
LEMMA LackingSync ==
  ASSUME BootInv, InStep, pc # "idle", Lacking, UNCHANGED bevars,
         UNCHANGED <<snapshots, mixed>>, UNCHANGED files,
         NEW l \in AfterFailure, GoTo(l)
  PROVE  InStep'
<1>1. /\ UNCHANGED <<bes, active, running, default, entry, kern, root>> /\ cmd.be \in Names
      /\ pc' = l
  BY SyncFacts DEF bevars, files, GoTo
<1> USE SyncFacts, TextFacts DEF CreateLabels, DestroyLabels, RenameLabels, SnapshotLabels
<1>2. /\ pc \in {"save_kernels", "copy_fstab", "create_entry", "rename_kernels"}
      /\ pc = "save_kernels" => cmd.be = running \/ kern[cmd.be] = Absent
      /\ pc = "copy_fstab" => Saved.fstab = Absent
      /\ pc = "create_entry" => EntrySource = Absent
      /\ pc = "rename_kernels" => kern[cmd.be] = Absent
  BY DEF Lacking, InStep, PairsOK
<1>3. l = "idle" \/ (pc = "save_kernels" /\ l = "take_snapshot" /\ cmd.be # running)
  BY <1>2 DEF AfterFailure
<1>4. DefaultOK'
  BY <1>1, <1>2, <1>3 DEF DefaultOK, InStep
<1>5. PairsOK'
  BY <1>1, <1>2, <1>3 DEF InStep, PairsOK, HalfDone, Leaving, SavedPair
<1>6. ASSUME ~mixed' PROVE MatchOK'
  <2>1. ~mixed /\ MatchOK
    BY <1>6 DEF InStep
  <2>2. pc = "save_kernels" /\ l = "idle"
    <3>1. pc # "copy_fstab"
      BY <1>2, <2>1 DEF MatchOK, HookMatches, SavedMatches, Saved
    <3>2. pc # "create_entry"
      BY <1>2, <2>1
         DEF MatchOK, HookMatches, SavedMatches, Matches, Saved, EntrySource, InStep, PairsOK
    <3>3. pc # "rename_kernels"
      BY <2>1 DEF MatchOK, HookMatches
    <3>4. pc = "save_kernels" => kern[cmd.be] # Absent
      BY <1>1, <2>1 DEF MatchOK, HookMatches, Matches, InStep, PairsOK, HalfDone
    <3> QED
      BY <1>2, <1>3, <3>1, <3>2, <3>3, <3>4
  <2> QED
    BY <1>1, <2>1, <2>2 DEF MatchOK, HookMatches, Matches, SavedMatches
<1> QED
  BY <1>4, <1>5, <1>6 DEF InStep

(***************************************************************************)
(* Upgrades, reboots and the whole next-state relation.                    *)
(***************************************************************************)
\* The package manager writes modules and kernel of one environment.
LEMMA UpgradeSync ==
  ASSUME BootInv, InStep, Upgrade
  PROVE  InStep'
<1> DEFINE r == root[running]
<1>1. running \in Names /\ r \in Contents
  BY SyncFacts
<1>2. /\ pc = "idle" /\ UNCHANGED <<bes, active, running, default, entry, snapshots, pc, mixed>>
      /\ kern' = [n \in Names |-> IF n = r.fstab /\ kern[n] # Absent THEN r.ver + 1 ELSE kern[n]]
      /\ root'[running].ver = r.ver + 1 /\ root'[running].fstab = r.fstab
      /\ root'[running].saved = r.saved
      /\ \A n \in Names \ {running} : root'[n] = root[n]
      /\ r.ver + 1 \in Versions
  BY <1>1, SyncFacts, SystemdBootAssumption DEF Upgrade, bevars, Contents, Versions
<1> USE SyncFacts, TextFacts, IdleSync DEF CreateLabels, DestroyLabels, RenameLabels, SnapshotLabels
<1>3. \A n \in Names : kern'[n] = Absent <=> kern[n] = Absent
  BY <1>2
<1>4. DefaultOK'
  BY <1>2 DEF DefaultOK
<1>5. \A n \in Names : SavedPair(root'[n])
  BY <1>1, <1>2 DEF SavedPair
<1>6. PairsOK'
  BY <1>2, <1>3, <1>5 DEF PairsOK, HalfDone, Leaving
<1>7. ASSUME ~mixed' PROVE MatchOK'
  <2>1. \A n \in bes : Matches(n)
    BY <1>2, <1>7
  <2>2. r.fstab = running /\ kern[running] # Absent
    <3>1. running \in bes
      BY SyncFacts
    <3>2. Matches(running)
      BY <2>1, <3>1
    <3>3. entry[running] = running /\ r.fstab = running
      BY <3>2 DEF Matches
    <3>4. entry[running] # Absent
      BY <1>1, <3>3, TextFacts
    <3>5. kern[running] = Absent => entry[running] = Absent
      BY ONLY <1>1, <1>2, IdleSync, InStep
    <3> QED
      BY <3>3, <3>4, <3>5
  <2>3. kern'[running] = r.ver + 1 /\ \A n \in Names \ {running} : kern'[n] = kern[n]
    BY <1>1, <1>2, <2>2
  <2>4. \A n \in bes : Matches(n)'
    BY <1>1, <1>2, <2>1, <2>2, <2>3 DEF Matches
  <2> QED
    BY <1>2, <1>7, <2>4 DEF MatchOK, HookMatches, SavedMatches
<1> QED
  BY <1>4, <1>6, <1>7 DEF InStep

\* A reboot changes no file.
LEMMA BootSync ==
  ASSUME BootInv, InStep, NEW n \in Names, Boot(n)
  PROVE  InStep'
<1>1. /\ pc = "idle" /\ UNCHANGED <<bes, active, default, entry, kern, root, snapshots, pc, mixed>>
  BY DEF Boot, RebootInto, files
<1> USE SyncFacts, TextFacts, IdleSync DEF CreateLabels, DestroyLabels, RenameLabels, SnapshotLabels
<1>2. DefaultOK'
  BY <1>1 DEF DefaultOK
<1>3. PairsOK'
  BY <1>1 DEF PairsOK, HalfDone, Leaving, SavedPair
<1>4. ASSUME ~mixed' PROVE MatchOK'
  BY <1>1, <1>4 DEF MatchOK, HookMatches, Matches, SavedMatches
<1> QED
  BY <1>2, <1>3, <1>4 DEF InStep

\* Fewer snapshots, or nothing, changes.
LEMMA StaySync ==
  ASSUME InStep, UNCHANGED bevars, UNCHANGED files, UNCHANGED <<cmd, pc, mixed>>,
         snapshots' \subseteq snapshots
  PROVE  InStep'
<1>1. UNCHANGED <<bes, active, running, default, entry, kern, root>>
  BY DEF bevars, files
<1>2. DefaultOK'
  BY <1>1 DEF InStep, DefaultOK
<1>3. PairsOK'
  BY <1>1 DEF InStep, PairsOK, HalfDone, Leaving, SavedPair, KernelSource, Saved
<1>4. ASSUME ~mixed' PROVE MatchOK'
  BY <1>1, <1>4 DEF InStep, MatchOK, HookMatches, Matches, SavedMatches, Saved
<1> QED
  BY <1>2, <1>3, <1>4 DEF InStep

\* The installed system.
LEMMA InitSync == SBInit => SyncInv
<1> SUFFICES ASSUME SBInit PROVE InStep
  BY InitOK DEF SyncInv
<1> USE TextFacts DEF CreateLabels, DestroyLabels, RenameLabels, SnapshotLabels
<1>1. /\ pc = "idle" /\ default = active /\ snapshots = {} /\ bes \subseteq Names
      /\ active \in bes
      /\ entry = [n \in Names |-> IF n \in bes THEN n ELSE Absent]
      /\ kern = [n \in Names |-> IF n \in bes THEN 1 ELSE Absent]
      /\ root = [n \in Names |-> IF n \in bes THEN [Blank EXCEPT !.fstab = n] ELSE Blank]
  BY DEF SBInit, BEInit
<1>2. 1 \in Versions
  BY SystemdBootAssumption DEF Versions
<1>3. \A n \in Names : SavedPair(root[n])
  BY <1>1 DEF SavedPair, Blank, NothingSaved
<1>4. \A n \in bes : Matches(n)
  BY <1>1 DEF Matches, Blank
<1>5. DefaultOK
  BY <1>1 DEF DefaultOK
<1>6. PairsOK
  BY <1>1, <1>2, <1>3 DEF PairsOK, HalfDone, Leaving
<1>7. MatchOK
  BY <1>1, <1>4 DEF MatchOK, HookMatches
<1> QED
  BY <1>5, <1>6, <1>7 DEF InStep

\* Every step keeps the ESP in step with the pool until something fails.
LEMMA NextSync == SyncInv /\ [SBNext]_sbvars => SyncInv'
<1> SUFFICES ASSUME SyncInv, [SBNext]_sbvars, faults' = 0 PROVE InStep'
  BY NextOK DEF SyncInv
<1>1. BootInv /\ faults \in Nat
  BY DEF SyncInv, BootInv, ControlOK
<1>2. ~Fault
  BY <1>1 DEF Fault
<1>3. faults = 0
  BY <1>1, <1>2
     DEF SBNext, StartCommand, CreateFrom, CreateFromSnapshot, Destroy, Activate, Snapshot,
         Rename, Start, DestroySnapshot, HookStep, TakeSnapshot, Fails, GoesOnTorn, Crash,
         Upgrade, Boot, sbvars
<1>4. InStep
  BY <1>3 DEF SyncInv
<1>5. CASE StartCommand
  <2>1. PICK n \in Names :
          \/ CreateFrom(n, active) \/ \E m \in bes : CreateFrom(n, m)
          \/ \E s \in snapshots : CreateFromSnapshot(n, s)
          \/ Destroy(n) \/ Activate(n) \/ Snapshot(n) \/ \E m \in Names : Rename(n, m)
    BY <1>5 DEF StartCommand
  <2>2. active \in bes
    BY <1>1, SyncFacts
  <2> QED
    BY <1>1, <1>4, <2>1, <2>2, CreateFromSync, CreateFromSnapshotSync, DestroySync,
       ActivateSync, SnapshotSync, RenameSync
<1>6. CASE \E s \in snapshots : DestroySnapshot(s)
  <2>1. /\ UNCHANGED bevars /\ UNCHANGED files /\ UNCHANGED <<cmd, pc, mixed>>
        /\ snapshots' \subseteq snapshots
    BY <1>6 DEF DestroySnapshot
  <2> QED
    BY <1>4, <2>1, StaySync
<1>7. CASE UNCHANGED sbvars
  <2>1. /\ UNCHANGED bevars /\ UNCHANGED files /\ UNCHANGED <<cmd, pc, mixed>>
        /\ snapshots' \subseteq snapshots
    BY <1>7 DEF sbvars
  <2> QED
    BY <1>4, <2>1, StaySync
<1>8. CASE HookStep
  <2>1. UNCHANGED bevars /\ UNCHANGED <<snapshots, mixed>> /\ GoTo(Following)
    BY <1>8 DEF HookStep
  <2> QED
    BY <1>1, <1>4, <1>8, <2>1, CreateHookSync, DestroyHookSync, RenameHookSync,
       DefaultHookSync, SnapshotHookSync
       DEF HookStep
<1>9. CASE Fails
  <2>1. pc # "idle" /\ Lacking /\ UNCHANGED files /\ UNCHANGED bevars /\ UNCHANGED <<snapshots, mixed>>
    BY <1>2, <1>9 DEF Fails
  <2>2. PICK l \in AfterFailure : GoTo(l)
    BY <1>9 DEF Fails
  <2> QED
    BY <1>1, <1>4, <2>1, <2>2, LackingSync
<1>10. ~GoesOnTorn /\ ~Crash
  BY <1>2 DEF GoesOnTorn, Crash
<1> QED
  BY <1>1, <1>4, <1>5, <1>6, <1>7, <1>8, <1>9, <1>10, TakeSnapshotSync, UpgradeSync, BootSync
     DEF SBNext

(***************************************************************************)
(* The theorems.                                                           *)
(***************************************************************************)
\* Until something fails, at every step of every command: what loader.conf,
\* the loader entries, the kernels, fstab and the saved files still lack of the
\* state of the pool is what the running hook has yet to do.
THEOREM SyncInvariant == SBSpec => []SyncInv
BY InitSync, NextSync, PTL DEF SBSpec

\* post_activate: loader.conf and the pool name the same environment to start
\* next when no command runs, until something fails.
THEOREM DefaultFollowsPool == SBSpec => []DefaultIsActive
<1>1. SyncInv => DefaultIsActive
  BY DEF SyncInv, InStep, DefaultOK, DefaultIsActive, Undisturbed
<1> QED
  BY <1>1, SyncInvariant, PTL

\* remove_kernels and post_rename: until something fails, no loader entry and
\* no kernels stay behind for a name that is no environment.
THEOREM NothingOrphaned == SBSpec => []NoOrphans
<1>1. SyncInv => NoOrphans
  BY DEF SyncInv, InStep, PairsOK, Leaving, NoOrphans, Undisturbed, DestroyLabels, RenameLabels
<1> QED
  BY <1>1, SyncInvariant, PTL

\* post_create and pre_snapshot: until something fails, or a command pairs files
\* of two environments, every environment has a loader entry, the kernels its
\* modules were built for, and an fstab that names its own directory.
THEOREM KernelsAlwaysMatch == SBSpec => []KernelsMatch
<1>1. SyncInv => KernelsMatch
  BY DEF SyncInv, InStep, MatchOK, Matches, KernelsMatch, Undisturbed, CreateLabels
<1> QED
  BY <1>1, SyncInvariant, PTL

\* pre_snapshot: on the same terms every snapshot that zectl snapshot took holds
\* the kernels of the modules beside them, and an entry and an fstab with the
\* placeholder for the name.
THEOREM SnapshotsAlwaysBootable == SBSpec => []SnapshotsBootable
<1>1. SyncInv => SnapshotsBootable
  BY DEF SyncInv, InStep, MatchOK, SavedMatches, SnapshotsBootable
<1> QED
  BY <1>1, SyncInvariant, PTL
=============================================================================
