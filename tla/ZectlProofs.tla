---------------------------- MODULE ZectlProofs ----------------------------
(***************************************************************************)
(* Proofs that hold for any number of processes, names, snapshots and      *)
(* failures: the types, and that the running environment survives.         *)
(*                                                                         *)
(* A step of a command changes the state of its own process (LocalStep)    *)
(* and at most one thing in the pool; one lemma per group of actions shows *)
(* that both parts keep the inductive invariant RunningInv.                *)
(***************************************************************************)
EXTENDS ZectlProperties, ZfsPoolProofs

\* What a command has, by its operation.
LEMMA CommandFields ==
  /\ NoCommand \notin AllCommands
  /\ \A c \in AllCommands :
       /\ c.be \in Names
       /\ c.op \in {"activate", "mount", "unmount", "create", "destroy",
                    "destroy_snapshot", "snapshot", "rename"}
       /\ c.op = "create" => /\ c.from \in Names \cup {NoName}
                             /\ c.snap \in Suffixes \cup {NoName}
       /\ c.op \in {"destroy_snapshot", "snapshot"} => c.suffix \in Suffixes
       /\ c.op = "rename" => c.to \in Names
BY ZfsAssumption DEF AllCommands, NoCommand

\* What a step of process p leaves of the process states.
LocalStep(p) ==
  /\ proc' = [proc EXCEPT ![p] = proc'[p]]
  /\ proc'[p] \in ProcState
  /\ Fits(proc'[p].cmd, proc'[p].pc)
  /\ Spares(proc'[p].cmd, proc'[p].pc)
  /\ Suffixed(proc'[p])
  /\ faults' \in 0 .. MaxFaults

\* What it leaves of the pool.
StorageKept ==
  /\ ZfsTypeOK'
  /\ Pools \X {running} \subseteq fs' \cap mounted'

\* A process that has returned is idle, where nothing is required of the command.
LEMMA IdleFact ==
  ASSUME NEW r \in Results
  PROVE  /\ Idle(r) \in ProcState
         /\ Idle(r).pc = "idle"
         /\ \A c : Fits(c, "idle") /\ Spares(c, "idle")
<1>1. Idle(r).pc = "idle"
  BY DEF Idle
<1>2. Idle(r) \in ProcState
  BY DEF Idle, ProcState, Labels
<1> QED
  BY <1>1, <1>2 DEF Fits, Spares

\* A command that returns to its shell.
LEMMA ReturnStep ==
  ASSUME RunningInv, NEW p \in Procs, NEW r \in Results, Return(p, r), faults' \in 0 .. MaxFaults
  PROVE  LocalStep(p)
<1>1. proc' = [proc EXCEPT ![p] = Idle(r)] /\ proc'[p] = Idle(r)
  BY DEF RunningInv, TypeOK, Return
<1> QED
  BY <1>1, IdleFact DEF LocalStep, Suffixed

\* A step that keeps the command and moves to label l, whatever else of the
\* process state it assigns.
LEMMA MoveStep ==
  ASSUME RunningInv, NEW p \in Procs, NEW l, NEW st \in ProcState,
         proc' = [proc EXCEPT ![p] = st], st.pc = l, st.cmd = proc[p].cmd,
         proc[p].pc # "idle", Fits(proc[p].cmd, l), Spares(proc[p].cmd, l), Suffixed(st),
         faults' \in 0 .. MaxFaults
  PROVE  LocalStep(p)
<1>1. proc'[p] = st
  BY DEF RunningInv, TypeOK
<1> QED
  BY <1>1 DEF LocalStep

\* A step that only moves to label l.
LEMMA GotoStep ==
  ASSUME RunningInv, NEW p \in Procs, NEW l \in Labels \ {"create_snap_boot"}, Goto(p, l),
         proc[p].pc # "idle", Fits(proc[p].cmd, l), Spares(proc[p].cmd, l),
         faults' \in 0 .. MaxFaults
  PROVE  LocalStep(p)
<1> DEFINE st == [proc[p] EXCEPT !.pc = l]
<1>1. proc[p] \in ProcState
  BY DEF RunningInv, TypeOK
<1>2. st \in ProcState /\ st.pc = l /\ st.cmd = proc[p].cmd
  BY <1>1 DEF ProcState
<1>3. proc' = [proc EXCEPT ![p] = st]
  BY DEF Goto
<1> QED
  BY <1>2, <1>3, MoveStep DEF Suffixed

\* A call keeps the count of failures within its bound.
LEMMA FaultsType ==
  ASSUME RunningInv, NEW can, Works(can) \/ Fails(can) \/ UNCHANGED faults
  PROVE  faults' \in 0 .. MaxFaults
BY ZectlAssumption DEF Works, Fails, RunningInv, TypeOK

\* A step that leaves the pool alone.
LEMMA UnchangedStorage == ASSUME RunningInv, UNCHANGED zfsVars PROVE StorageKept
BY DEF RunningInv, TypeOK, ZfsTypeOK, RunningSafe, StorageKept, zfsVars

\* A step with the two parts keeps the invariant: the other processes stay where
\* they are, and the running environment is the same.
LEMMA StepKeepsInv ==
  ASSUME RunningInv, NEW p \in Procs, LocalStep(p), StorageKept, UNCHANGED running
  PROVE  RunningInv'
<1>1. TypeOK'
  BY DEF RunningInv, TypeOK, LocalStep, StorageKept
<1>2. RunningSafe'
  BY DEF StorageKept, RunningSafe
<1>3. ASSUME NEW q \in Procs
      PROVE  (/\ Fits(proc[q].cmd, proc[q].pc)
               /\ Spares(proc[q].cmd, proc[q].pc)
               /\ Suffixed(proc[q]))'
  <2>1. CASE q = p
    BY <2>1 DEF LocalStep, Fits, Spares, Suffixed
  <2>2. CASE q # p
    BY <2>2 DEF RunningInv, TypeOK, LocalStep, Fits, Spares, Suffixed
  <2> QED
    BY <2>1, <2>2
<1> QED
  BY <1>1, <1>2, <1>3 DEF RunningInv

(***************************************************************************)
(* The storage operations keep the running environment and the types.      *)
(***************************************************************************)
\* zfs_snapshot.
LEMMA SnapshotKept ==
  ASSUME RunningInv, NEW d, NEW s \in Suffixes, CanSnapshot(d, s), Snapshot(d, s)
  PROVE  StorageKept
BY SnapshotType DEF RunningInv, TypeOK, RunningSafe, StorageKept, Snapshot

\* zfs_clone.
LEMMA CloneKept ==
  ASSUME RunningInv, NEW d \in Datasets, NEW src, NEW s, CanClone(d, src, s), Clone(d, src, s)
  PROVE  StorageKept
BY CloneType DEF RunningInv, TypeOK, RunningSafe, StorageKept, Clone

\* zfs_promote moves snapshots, not datasets or mounts.
LEMMA PromoteKept ==
  ASSUME RunningInv, NEW d, CanPromote(d), Promote(d)
  PROVE  StorageKept
BY PromoteType DEF RunningInv, TypeOK, RunningSafe, StorageKept, Promote

\* zfs_destroy of a snapshot.
LEMMA DestroySnapKept ==
  ASSUME RunningInv, NEW d, NEW s, CanDestroySnap(d, s), DestroySnap(d, s)
  PROVE  StorageKept
BY DestroySnapType DEF RunningInv, TypeOK, RunningSafe, StorageKept, DestroySnap

\* The running environment is mounted, so it cannot be destroyed.
LEMMA DestroyFsKept ==
  ASSUME RunningInv, NEW d, CanDestroyFs(d), DestroyFs(d)
  PROVE  StorageKept
BY DestroyFsType
   DEF RunningInv, TypeOK, RunningSafe, StorageKept, CanDestroyFs, DestroyFs

\* zfs_rename of a dataset that is not the running environment's.
LEMMA RenameKept ==
  ASSUME RunningInv, NEW d, NEW e \in Datasets, CanRename(d, e), Rename(d, e),
         d \notin Pools \X {running}
  PROVE  StorageKept
BY RenameType DEF RunningInv, TypeOK, RunningSafe, StorageKept, Rename, Renamed

\* zfs_mount.
LEMMA MountKept ==
  ASSUME RunningInv, NEW d, CanMount(d), Mount(d)
  PROVE  StorageKept
BY MountType DEF RunningInv, TypeOK, RunningSafe, StorageKept, Mount

\* zfs_unmount of a dataset that is not the running environment's.
LEMMA UnmountKept ==
  ASSUME RunningInv, NEW d, Unmount(d), d \notin Pools \X {running}
  PROVE  StorageKept
BY UnmountType DEF RunningInv, TypeOK, RunningSafe, StorageKept, Unmount

\* zfs_prop_set of the mountpoint.
LEMMA SetMountpointKept ==
  ASSUME RunningInv, NEW d, NEW t \in BOOLEAN, CanSetMountpoint(d), SetMountpoint(d, t)
  PROVE  StorageKept
BY SetMountpointType DEF RunningInv, TypeOK, RunningSafe, StorageKept, SetMountpoint

\* zpool_set_prop of bootfs.
LEMMA SetBootfsKept ==
  ASSUME RunningInv, NEW n \in Names, SetBootfs(n)
  PROVE  StorageKept
BY SetBootfsType DEF RunningInv, TypeOK, RunningSafe, StorageKept, SetBootfs

\* The datasets of an environment other than the running one.
LEMMA OtherDatasets ==
  ASSUME NEW b, b # running
  PROVE  Root(b) \notin Pools \X {running} /\ Boot(b) \notin Pools \X {running}
BY DEF Root, Boot

\* What a process that runs a command is known to satisfy.
LEMMA ProcFacts ==
  ASSUME RunningInv, NEW p \in Procs
  PROVE  /\ proc[p] \in ProcState
         /\ Fits(proc[p].cmd, proc[p].pc)
         /\ Spares(proc[p].cmd, proc[p].pc)
         /\ Suffixed(proc[p])
         /\ proc[p].pc # "idle" => /\ proc[p].cmd \in AllCommands
                                   /\ proc[p].cmd.be \in Names
                                   /\ Root(proc[p].cmd.be) \in Datasets
BY CommandFields, DatasetFacts DEF RunningInv, TypeOK, Fits

(***************************************************************************)
(* One lemma for each group of actions: every step of the group is a       *)
(* LocalStep and leaves the storage in order.                              *)
(***************************************************************************)

\* The temporary mount around a hook never touches the running environment.
LEMMA TempMountStepInv ==
  ASSUME RunningInv, NEW p \in Procs, TempMountStep(p)
  PROVE  LocalStep(p) /\ StorageKept
<1>1. CASE TempMountpoint(p)
  <2>1. LocalStep(p)
    BY <1>1, ProcFacts, FaultsType, GotoStep, ReturnStep
       DEF TempMountpoint, Call, At, Fits, Spares, Suffixed, Labels, Results
  <2>2. StorageKept
    BY <1>1, ProcFacts, UnchangedStorage, SetMountpointKept
       DEF TempMountpoint, Call, Works
  <2> QED
    BY <2>1, <2>2
<1>2. CASE TempMount(p)
  <2>1. LocalStep(p)
    BY <1>2, ProcFacts, FaultsType, GotoStep, ReturnStep
       DEF TempMount, Call, At, Fits, Spares, Suffixed, Labels, Results
  <2>2. StorageKept
    BY <1>2, ProcFacts, UnchangedStorage, MountKept
       DEF TempMount, Call, Works
  <2> QED
    BY <2>1, <2>2
<1>3. CASE MountedHook(p)
  <2>1. LocalStep(p)
    BY <1>3, ProcFacts, FaultsType, GotoStep, ReturnStep
       DEF MountedHook, Hook, Check, Call, HookDone, HookFailed, IsRoot, At, Fits, Spares, Suffixed, Labels, Results
  <2>2. StorageKept
    BY <1>3, UnchangedStorage DEF MountedHook, Hook, Check, Call
  <2> QED
    BY <2>1, <2>2
<1>4. CASE TempUnmountAfterHook(p)
  <2>1. LocalStep(p)
    BY <1>4, ProcFacts, FaultsType, GotoStep, ReturnStep
       DEF TempUnmountAfterHook, TempUnmount, Call, HookDone, HookFailed, At, Fits, Spares, Suffixed, Labels, Results
  <2>2. StorageKept
    BY <1>4, ProcFacts, UnchangedStorage, UnmountKept, OtherDatasets
       DEF TempUnmountAfterHook, TempUnmount, Call, Works, At, Spares
  <2> QED
    BY <2>1, <2>2
<1>5. CASE TempResetAfterHook(p)
  <2>1. LocalStep(p)
    BY <1>5, ProcFacts, FaultsType, GotoStep, ReturnStep
       DEF TempResetAfterHook, TempReset, Call, HookDone, HookFailed, At, Fits, Spares, Suffixed, Labels, Results
  <2>2. StorageKept
    BY <1>5, ProcFacts, UnchangedStorage, SetMountpointKept
       DEF TempResetAfterHook, TempReset, Call, Works
  <2> QED
    BY <2>1, <2>2
<1>6. CASE TempUnmountOnError(p)
  <2>1. LocalStep(p)
    BY <1>6, ProcFacts, FaultsType, GotoStep, ReturnStep
       DEF TempUnmountOnError, TempUnmount, Call, HookDone, HookFailed, At, Fits, Spares, Suffixed, Labels, Results
  <2>2. StorageKept
    BY <1>6, ProcFacts, UnchangedStorage, UnmountKept, OtherDatasets
       DEF TempUnmountOnError, TempUnmount, Call, Works, At, Spares
  <2> QED
    BY <2>1, <2>2
<1>7. CASE TempResetOnError(p)
  <2>1. LocalStep(p)
    BY <1>7, ProcFacts, FaultsType, GotoStep, ReturnStep
       DEF TempResetOnError, TempReset, Call, HookDone, HookFailed, At, Fits, Spares, Suffixed, Labels, Results
  <2>2. StorageKept
    BY <1>7, ProcFacts, UnchangedStorage, SetMountpointKept
       DEF TempResetOnError, TempReset, Call, Works
  <2> QED
    BY <2>1, <2>2
<1> QED
  BY <1>1, <1>2, <1>3, <1>4, <1>5, <1>6, <1>7 DEF TempMountStep

\* Activation changes bootfs and the clones' origins.
LEMMA ActivateStepInv ==
  ASSUME RunningInv, NEW p \in Procs, ActivateStep(p)
  PROVE  LocalStep(p) /\ StorageKept
<1>1. CASE Activate(p)
  <2>1. LocalStep(p)
    BY <1>1, ProcFacts, FaultsType, GotoStep, ReturnStep
       DEF Activate, Check, Call, TempMountAndHook, IsRoot, At, Fits, Spares, Suffixed, Labels, Results
  <2>2. StorageKept
    BY <1>1, UnchangedStorage DEF Activate, Check, Call
  <2> QED
    BY <2>1, <2>2
<1>2. CASE ActivateSetBootfs(p)
  <2>1. LocalStep(p)
    BY <1>2, ProcFacts, FaultsType, GotoStep, ReturnStep
       DEF ActivateSetBootfs, Call, At, Fits, Spares, Suffixed, Labels, Results
  <2>2. StorageKept
    BY <1>2, ProcFacts, UnchangedStorage, SetBootfsKept
       DEF ActivateSetBootfs, Call, Works, At
  <2> QED
    BY <2>1, <2>2
<1>3. CASE ActivatePromote(p)
  <2>1. LocalStep(p)
    BY <1>3, ProcFacts, FaultsType, GotoStep, ReturnStep
       DEF ActivatePromote, ActivateCb, Check, Call, At, Fits, Spares, Suffixed, Labels, Results
  <2>2. StorageKept
    BY <1>3, ProcFacts, UnchangedStorage, PromoteKept
       DEF ActivatePromote, ActivateCb, Check, Call, Works
  <2> QED
    BY <2>1, <2>2
<1>4. CASE ActivatePromoteBoot(p)
  <2>1. LocalStep(p)
    BY <1>4, ProcFacts, FaultsType, GotoStep, ReturnStep, MoveStep
       DEF ActivatePromoteBoot, ActivateCb, Check, Call, ProcState, At, Fits, Spares, Suffixed, Labels, Results
  <2>2. StorageKept
    BY <1>4, ProcFacts, UnchangedStorage, PromoteKept
       DEF ActivatePromoteBoot, ActivateCb, Check, Call, Works
  <2> QED
    BY <2>1, <2>2
<1>5. CASE PostActivate(p)
  <2>1. LocalStep(p)
    <3>1. faults' \in 0 .. MaxFaults
      BY <1>5, FaultsType DEF PostActivate, Hook, Check, Call
    <3>2. \E r \in {"ok", "fail", proc[p].ret} : Return(p, r)
      BY <1>5 DEF PostActivate, Hook, Check, Call
    <3>3. {"ok", "fail", proc[p].ret} \subseteq Results
      BY ProcFacts DEF ProcState, Results
    <3> QED
      BY <3>1, <3>2, <3>3, ReturnStep
  <2>2. StorageKept
    BY <1>5, UnchangedStorage DEF PostActivate, Hook, Check, Call
  <2> QED
    BY <2>1, <2>2
<1> QED
  BY <1>1, <1>2, <1>3, <1>4, <1>5 DEF ActivateStep

\* libze_unmount has refused the running environment before it unmounts.
LEMMA MountStepInv ==
  ASSUME RunningInv, NEW p \in Procs, MountStep(p)
  PROVE  LocalStep(p) /\ StorageKept
<1>1. CASE MountBE(p)
  <2>1. LocalStep(p)
    BY <1>1, ProcFacts, FaultsType, GotoStep, ReturnStep
       DEF MountBE, Check, Call, At, Fits, Spares, Suffixed, Labels, Results
  <2>2. StorageKept
    BY <1>1, UnchangedStorage DEF MountBE, Check, Call
  <2> QED
    BY <2>1, <2>2
<1>2. CASE MountRoot(p)
  <2>1. LocalStep(p)
    BY <1>2, ProcFacts, FaultsType, GotoStep, ReturnStep
       DEF MountRoot, Call, MountDone, At, Fits, Spares, Suffixed, Labels, Results
  <2>2. StorageKept
    BY <1>2, ProcFacts, UnchangedStorage, MountKept
       DEF MountRoot, Call, Works
  <2> QED
    BY <2>1, <2>2
<1>3. CASE MountBoot(p)
  <2>1. LocalStep(p)
    BY <1>3, ProcFacts, FaultsType, GotoStep, ReturnStep
       DEF MountBoot, Call, MountDone, At, Fits, Spares, Suffixed, Labels, Results
  <2>2. StorageKept
    BY <1>3, ProcFacts, UnchangedStorage, MountKept
       DEF MountBoot, Call, Works
  <2> QED
    BY <2>1, <2>2
<1>4. CASE UnmountBE(p)
  <2>1. /\ proc[p].pc = "unmount" /\ faults' \in 0 .. MaxFaults
        /\ \/ proc[p].cmd.be # running /\ (Goto(p, "unmount_boot") \/ Goto(p, "unmount_root"))
           \/ Return(p, "fail")
    BY <1>4, FaultsType DEF UnmountBE, Check, Call, At, Works, IsRoot
  <2>2. LocalStep(p)
    BY <2>1, ProcFacts, GotoStep, ReturnStep DEF Fits, Spares, Labels, Results
  <2>3. StorageKept
    BY <1>4, UnchangedStorage DEF UnmountBE, Check, Call
  <2> QED
    BY <2>2, <2>3
<1>5. CASE UnmountBoot(p)
  <2>1. LocalStep(p)
    BY <1>5, ProcFacts, FaultsType, GotoStep, ReturnStep
       DEF UnmountBoot, UnmountCallback, Call, UnmountDone, At, Fits, Spares, Suffixed, Labels, Results
  <2>2. StorageKept
    BY <1>5, ProcFacts, UnchangedStorage, UnmountKept, OtherDatasets
       DEF UnmountBoot, UnmountCallback, Call, Works, At, Spares
  <2> QED
    BY <2>1, <2>2
<1>6. CASE UnmountRoot(p)
  <2>1. LocalStep(p)
    BY <1>6, ProcFacts, FaultsType, GotoStep, ReturnStep
       DEF UnmountRoot, UnmountCallback, Call, UnmountDone, At, Fits, Spares, Suffixed, Labels, Results
  <2>2. StorageKept
    BY <1>6, ProcFacts, UnchangedStorage, UnmountKept, OtherDatasets
       DEF UnmountRoot, UnmountCallback, Call, Works, At, Spares
  <2> QED
    BY <2>1, <2>2
<1> QED
  BY <1>1, <1>2, <1>3, <1>4, <1>5, <1>6 DEF MountStep

\* Snapshots are only added.
LEMMA SnapshotStepInv ==
  ASSUME RunningInv, NEW p \in Procs, SnapshotStep(p)
  PROVE  LocalStep(p) /\ StorageKept
<1>1. CASE SnapshotBE(p)
  <2>1. LocalStep(p)
    BY <1>1, ProcFacts, FaultsType, GotoStep, ReturnStep
       DEF SnapshotBE, Check, Call, At, Fits, Spares, Suffixed, Labels, Results
  <2>2. StorageKept
    BY <1>1, UnchangedStorage DEF SnapshotBE, Check, Call
  <2> QED
    BY <2>1, <2>2
<1>2. CASE PreSnapshot(p)
  <2>1. LocalStep(p)
    BY <1>2, ProcFacts, FaultsType, GotoStep, ReturnStep
       DEF PreSnapshot, Hook, Check, Call, IsRoot, At, Fits, Spares, Suffixed, Labels, Results
  <2>2. StorageKept
    BY <1>2, UnchangedStorage DEF PreSnapshot, Hook, Check, Call
  <2> QED
    BY <2>1, <2>2
<1>3. CASE SnapshotRoot(p)
  <2>1. LocalStep(p)
    BY <1>3, ProcFacts, FaultsType, GotoStep, ReturnStep
       DEF SnapshotRoot, Call, At, Fits, Spares, Suffixed, Labels, Results
  <2>2. StorageKept
    BY <1>3, ProcFacts, UnchangedStorage, SnapshotKept, CommandFields
       DEF SnapshotRoot, Call, Works, At, Fits
  <2> QED
    BY <2>1, <2>2
<1>4. CASE SnapshotBoot(p)
  <2>1. LocalStep(p)
    BY <1>4, ProcFacts, FaultsType, GotoStep, ReturnStep
       DEF SnapshotBoot, Call, At, Fits, Spares, Suffixed, Labels, Results
  <2>2. StorageKept
    BY <1>4, ProcFacts, UnchangedStorage, SnapshotKept, CommandFields
       DEF SnapshotBoot, Call, Works, At, Fits
  <2> QED
    BY <2>1, <2>2
<1> QED
  BY <1>1, <1>2, <1>3, <1>4 DEF SnapshotStep

\* libze_rename has refused the running environment before it renames.
LEMMA RenameStepInv ==
  ASSUME RunningInv, NEW p \in Procs, RenameStep(p)
  PROVE  LocalStep(p) /\ StorageKept
<1>1. CASE RenameBE(p)
  <2>1. /\ proc[p].pc = "rename" /\ faults' \in 0 .. MaxFaults
        /\ \/ proc[p].cmd.be # running /\ Goto(p, "rename_root")
           \/ Return(p, "fail")
    BY <1>1, FaultsType DEF RenameBE, Check, Call, At, Works, IsRoot
  <2>2. LocalStep(p)
    BY <2>1, ProcFacts, GotoStep, ReturnStep DEF Fits, Spares, Labels, Results
  <2>3. StorageKept
    BY <1>1, UnchangedStorage DEF RenameBE, Check, Call
  <2> QED
    BY <2>2, <2>3
<1>2. CASE RenameRoot(p)
  <2>1. LocalStep(p)
    BY <1>2, ProcFacts, FaultsType, GotoStep, ReturnStep
       DEF RenameRoot, Call, At, Fits, Spares, Suffixed, Labels, Results
  <2>2. StorageKept
    BY <1>2, ProcFacts, UnchangedStorage, RenameKept, CommandFields, DatasetFacts, OtherDatasets
       DEF RenameRoot, Call, Works, At, Fits, Spares
  <2> QED
    BY <2>1, <2>2
<1>3. CASE RenameBoot(p)
  <2> DEFINE d == Boot(proc[p].cmd.be)
             e == Boot(proc[p].cmd.to)
  <2>1. LocalStep(p)
    BY <1>3, ProcFacts, FaultsType, GotoStep, MoveStep
       DEF RenameBoot, Call, ProcState, At, Fits, Spares, Suffixed, Labels, Results
  <2>2. /\ proc[p].cmd.be \in Names /\ proc[p].cmd.to \in Names
        /\ d \notin Pools \X {running}
    BY <1>3, ProcFacts, CommandFields, OtherDatasets DEF RenameBoot, At, Fits, Spares
  <2>3. ASSUME CanRename(d, e), Rename(d, e) PROVE StorageKept
    <3>1. d \in Datasets
      BY <2>3 DEF CanRename, RunningInv, TypeOK, ZfsTypeOK
    <3>2. e \in Datasets
      BY <2>2, <3>1, DatasetFacts
    <3> QED
      BY <2>2, <2>3, <3>2, RenameKept
  <2>4. ASSUME UNCHANGED zfsVars PROVE StorageKept
    BY <2>4, UnchangedStorage
  <2>5. StorageKept
    BY <1>3, <2>3, <2>4 DEF RenameBoot, Call, Works
  <2> QED
    BY <2>1, <2>5
<1>4. CASE PostRename(p)
  <2>1. LocalStep(p)
    <3>1. faults' \in 0 .. MaxFaults
      BY <1>4, FaultsType DEF PostRename, Hook, Check, Call
    <3>2. \E r \in {"ok", "fail", proc[p].ret} : Return(p, r)
      BY <1>4 DEF PostRename, Hook, Check, Call
    <3>3. {"ok", "fail", proc[p].ret} \subseteq Results
      BY ProcFacts DEF ProcState, Results
    <3> QED
      BY <3>1, <3>2, <3>3, ReturnStep
  <2>2. StorageKept
    BY <1>4, UnchangedStorage DEF PostRename, Hook, Check, Call
  <2> QED
    BY <2>1, <2>2
<1> QED
  BY <1>1, <1>2, <1>3, <1>4 DEF RenameStep

\* Creation adds snapshots and clones.
LEMMA CreateStepInv ==
  ASSUME RunningInv, NEW p \in Procs, CreateStep(p)
  PROVE  LocalStep(p) /\ StorageKept
<1>1. CASE Create(p)
  <2>1. LocalStep(p)
    BY <1>1, ProcFacts, FaultsType, GotoStep, ReturnStep, MoveStep, CommandFields
       DEF Create, Check, Call, ProcState, At, Fits, Spares, Suffixed, Labels, Results
  <2>2. StorageKept
    BY <1>1, UnchangedStorage DEF Create, Check, Call
  <2> QED
    BY <2>1, <2>2
<1>2. CASE CreateSnap(p)
  <2>1. LocalStep(p)
    BY <1>2, ProcFacts, FaultsType, GotoStep, ReturnStep, MoveStep
       DEF CreateSnap, Call, ProcState, FromBootfs, At, Fits, Spares, Suffixed, Labels, Results
  <2>2. StorageKept
    BY <1>2, ProcFacts, UnchangedStorage, SnapshotKept
       DEF CreateSnap, Call, Works
  <2> QED
    BY <2>1, <2>2
<1>3. CASE CreateSnapBoot(p)
  <2>1. LocalStep(p)
    BY <1>3, ProcFacts, FaultsType, GotoStep, ReturnStep
       DEF CreateSnapBoot, Call, At, Fits, Spares, Suffixed, Labels, Results
  <2>2. StorageKept
    BY <1>3, ProcFacts, UnchangedStorage, SnapshotKept
       DEF CreateSnapBoot, Call, Works, At, Suffixed
  <2> QED
    BY <2>1, <2>2
<1>4. CASE CreateAgain(p)
  <2>1. LocalStep(p)
    BY <1>4, ProcFacts, FaultsType, GotoStep, ReturnStep
       DEF CreateAgain, Check, Call, At, Fits, Spares, Suffixed, Labels, Results
  <2>2. StorageKept
    BY <1>4, UnchangedStorage DEF CreateAgain, Check, Call
  <2> QED
    BY <2>1, <2>2
<1>5. CASE CloneRoot(p)
  <2>1. LocalStep(p)
    BY <1>5, ProcFacts, FaultsType, GotoStep, ReturnStep
       DEF CloneRoot, Call, CreateDone, At, Fits, Spares, Suffixed, Labels, Results
  <2>2. StorageKept
    BY <1>5, ProcFacts, UnchangedStorage, CloneKept
       DEF CloneRoot, Call, Works, At
  <2> QED
    BY <2>1, <2>2
<1>6. CASE CloneBoot(p)
  <2>1. LocalStep(p)
    BY <1>6, ProcFacts, FaultsType, GotoStep, ReturnStep
       DEF CloneBoot, Call, CreateDone, At, Fits, Spares, Suffixed, Labels, Results
  <2> DEFINE d == Boot(proc[p].cmd.be)
             src == Boot(running)
             sfx == proc[p].sfx
  <2>2. \/ CanClone(d, src, sfx) /\ Clone(d, src, sfx)
        \/ UNCHANGED zfsVars
    BY <1>6 DEF CloneBoot, Call, Works
  <2>3. ASSUME CanClone(d, src, sfx), Clone(d, src, sfx) PROVE StorageKept
    <3>1. src \in Datasets /\ running \in Names /\ proc[p].cmd.be \in Names
      BY <1>6, <2>3, ProcFacts DEF CloneBoot, At, CanClone, RunningInv, TypeOK, ZfsTypeOK
    <3>2. d \in Datasets
      BY <3>1, DatasetFacts
    <3> QED
      BY <2>3, <3>2, CloneKept
  <2>4. StorageKept
    BY <2>2, <2>3, UnchangedStorage
  <2> QED
    BY <2>1, <2>4
<1>7. CASE PostCreate(p)
  <2>1. LocalStep(p)
    BY <1>7, ProcFacts, FaultsType, GotoStep, ReturnStep
       DEF PostCreate, Check, Call, TempMountAndHook, IsRoot, At, Fits, Spares, Suffixed, Labels, Results
  <2>2. StorageKept
    BY <1>7, UnchangedStorage DEF PostCreate, Check, Call
  <2> QED
    BY <2>1, <2>2
<1> QED
  BY <1>1, <1>2, <1>3, <1>4, <1>5, <1>6, <1>7 DEF CreateStep

\* libze_destroy has refused the running environment before it unmounts by force;
\* a destroy without force is stopped by the mount itself.
LEMMA DestroyStepInv ==
  ASSUME RunningInv, NEW p \in Procs, DestroyStep(p)
  PROVE  LocalStep(p) /\ StorageKept
<1>1. CASE Destroy(p)
  <2> DEFINE st == [proc[p] EXCEPT !.pc = "destroy_check", !.pool = "root"]
  <2>1. /\ proc[p].pc = "destroy" /\ faults' \in 0 .. MaxFaults
        /\ \/ proc[p].cmd.be # running /\ proc' = [proc EXCEPT ![p] = st]
           \/ Return(p, "fail")
    BY <1>1, FaultsType DEF Destroy, Check, Call, At, Works, IsRoot
  <2>2. st \in ProcState /\ st.pc = "destroy_check" /\ st.cmd = proc[p].cmd
    <3>1. proc[p] \in ProcState
      BY ProcFacts
    <3>2. "destroy_check" \in Labels
      BY DEF Labels
    <3> QED
      BY <3>1, <3>2 DEF ProcState
  <2> HIDE DEF st
  <2>3. LocalStep(p)
    BY <2>1, <2>2, ProcFacts, MoveStep, ReturnStep DEF Fits, Spares, Suffixed, Results
  <2>4. StorageKept
    BY <1>1, UnchangedStorage DEF Destroy, Check, Call
  <2> QED
    BY <2>3, <2>4
<1>2. CASE DestroyCheck(p)
  <2> DEFINE d == Target(p)
             st == [proc[p] EXCEPT !.pc = "destroy_snaps", !.orig = origin[d],
                                   !.iter = SnapsOf(d)]
  <2>1. /\ proc[p].pc = "destroy_check" /\ faults' \in 0 .. MaxFaults
        /\ \/ d \in fs /\ proc' = [proc EXCEPT ![p] = st]
           \/ Return(p, "fail")
    BY <1>2, FaultsType DEF DestroyCheck, Check, Call, At, Works, RunningInv, TypeOK, ZfsTypeOK
  <2>2. ASSUME d \in fs
        PROVE  st \in ProcState /\ st.pc = "destroy_snaps" /\ st.cmd = proc[p].cmd
    <3>1. proc[p] \in ProcState
      BY ProcFacts
    <3>2. origin[d] \in Snapshots \cup {NoSnap} /\ SnapsOf(d) \in SUBSET Suffixes
      BY <2>2, PositionFact DEF RunningInv, TypeOK, ZfsTypeOK
    <3>3. PICK o \in Snapshots \cup {NoSnap}, i \in SUBSET Suffixes :
            o = origin[d] /\ i = SnapsOf(d)
      BY <3>2
    <3>4. st = [proc[p] EXCEPT !.pc = "destroy_snaps", !.orig = o, !.iter = i]
      BY <3>3
    <3>5. "destroy_snaps" \in Labels
      BY DEF Labels
    <3> HIDE DEF st, d
    <3> QED
      BY <3>1, <3>4, <3>5 DEF ProcState
  <2> HIDE DEF st
  <2>3. LocalStep(p)
    BY <2>1, <2>2, ProcFacts, MoveStep, ReturnStep DEF Fits, Spares, Suffixed, Results
  <2>4. StorageKept
    BY <1>2, ProcFacts, UnchangedStorage, UnmountKept, OtherDatasets
       DEF DestroyCheck, Check, Call, Works, At, Spares, Target, Root, Boot
  <2> QED
    BY <2>3, <2>4
<1>3. CASE DestroySnaps(p)
  <2>1. LocalStep(p)
    BY <1>3, ProcFacts, FaultsType, GotoStep, ReturnStep, MoveStep
       DEF DestroySnaps, Call, ProcState, At, Fits, Spares, Suffixed, Labels, Results
  <2>2. StorageKept
    BY <1>3, ProcFacts, UnchangedStorage, DestroySnapKept
       DEF DestroySnaps, Call, Works
  <2> QED
    BY <2>1, <2>2
<1>4. CASE DestroyDataset(p)
  <2>1. LocalStep(p)
    BY <1>4, ProcFacts, FaultsType, GotoStep, ReturnStep, MoveStep
       DEF DestroyDataset, Call, DestroyedDataset, ProcState, At, Fits, Spares, Suffixed, Labels, Results
  <2>2. StorageKept
    BY <1>4, ProcFacts, UnchangedStorage, DestroyFsKept
       DEF DestroyDataset, Call, Works
  <2> QED
    BY <2>1, <2>2
<1>5. CASE DestroyOrigin(p)
  <2>1. LocalStep(p)
    BY <1>5, ProcFacts, FaultsType, GotoStep, ReturnStep, MoveStep
       DEF DestroyOrigin, Call, DestroyedDataset, ProcState, At, Fits, Spares, Suffixed, Labels, Results
  <2>2. StorageKept
    BY <1>5, ProcFacts, UnchangedStorage, DestroySnapKept
       DEF DestroyOrigin, Call, Works
  <2> QED
    BY <2>1, <2>2
<1>6. CASE PostDestroy(p)
  <2>1. LocalStep(p)
    BY <1>6, ProcFacts, FaultsType, GotoStep, ReturnStep
       DEF PostDestroy, Hook, Check, Call, At, Fits, Spares, Suffixed, Labels, Results
  <2>2. StorageKept
    BY <1>6, UnchangedStorage DEF PostDestroy, Hook, Check, Call
  <2> QED
    BY <2>1, <2>2
<1>7. CASE DestroySnapshot(p)
  <2>1. LocalStep(p)
    BY <1>7, ProcFacts, FaultsType, GotoStep, ReturnStep
       DEF DestroySnapshot, Check, Call, At, Fits, Spares, Suffixed, Labels, Results
  <2>2. StorageKept
    BY <1>7, UnchangedStorage DEF DestroySnapshot, Check, Call
  <2> QED
    BY <2>1, <2>2
<1>8. CASE DestroySnapshotRoot(p)
  <2>1. LocalStep(p)
    BY <1>8, ProcFacts, FaultsType, GotoStep, ReturnStep
       DEF DestroySnapshotRoot, Call, At, Fits, Spares, Suffixed, Labels, Results
  <2>2. StorageKept
    BY <1>8, ProcFacts, UnchangedStorage, DestroySnapKept
       DEF DestroySnapshotRoot, Call, Works
  <2> QED
    BY <2>1, <2>2
<1>9. CASE DestroySnapshotBoot(p)
  <2>1. LocalStep(p)
    BY <1>9, ProcFacts, FaultsType, GotoStep, ReturnStep
       DEF DestroySnapshotBoot, Call, At, Fits, Spares, Suffixed, Labels, Results
  <2>2. StorageKept
    BY <1>9, ProcFacts, UnchangedStorage, DestroySnapKept
       DEF DestroySnapshotBoot, Call, Works
  <2> QED
    BY <2>1, <2>2
<1> QED
  BY <1>1, <1>2, <1>3, <1>4, <1>5, <1>6, <1>7, <1>8, <1>9 DEF DestroyStep

(***************************************************************************)
(* The steps outside the groups, the whole next-state relation, and the    *)
(* theorems.                                                               *)
(***************************************************************************)
\* An installed system with one environment satisfies the invariant.
LEMMA InitInv == Init => RunningInv
<1> SUFFICES ASSUME Init PROVE RunningInv
  OBVIOUS
<1>1. PICK n \in Names : /\ ZfsInit(n)
                         /\ running = n
                         /\ proc = [p \in Procs |-> Idle("none")]
                         /\ faults = 0
  BY DEF Init
<1>2. << >> \in Seq(Suffixes)
  OBVIOUS
<1>3. ZfsTypeOK
  BY <1>1, <1>2 DEF ZfsInit, ZfsTypeOK, Datasets
<1>4. RunningSafe
  BY <1>1 DEF ZfsInit, RunningSafe
<1>5. \A p \in Procs : proc[p] = Idle("none")
  BY <1>1
<1>6. Idle("none") \in ProcState /\ Idle("none").pc = "idle"
  BY IdleFact DEF Results
<1>7. TypeOK
  BY <1>1, <1>3, <1>5, <1>6, ZectlAssumption DEF TypeOK
<1> QED
  BY <1>4, <1>5, <1>6, <1>7, IdleFact DEF RunningInv, Suffixed, Results

\* libze_init takes any of the commands, and reads bootfs.
LEMMA LibzeInitInv ==
  ASSUME RunningInv, NEW p \in Procs, LibzeInit(p)
  PROVE  LocalStep(p) /\ StorageKept
<1>1. faults' \in 0 .. MaxFaults /\ StorageKept
  BY UnchangedStorage, FaultsType DEF LibzeInit
<1>2. CASE Return(p, "fail")
  BY <1>1, <1>2, ReturnStep DEF Results
<1>3. ASSUME NEW c \in Commands, bootfs # NoName,
             proc' = [proc EXCEPT ![p] = [Idle("ok") EXCEPT !.pc = "validate", !.cmd = c,
                                                            !.act = bootfs]]
      PROVE  LocalStep(p)
  <2> DEFINE st == [Idle("ok") EXCEPT !.pc = "validate", !.cmd = c, !.act = bootfs]
  <2>1. c \in AllCommands /\ bootfs \in Names
    BY <1>3 DEF Commands, RunningInv, TypeOK, ZfsTypeOK
  <2>2. st \in ProcState /\ st.pc = "validate" /\ st.cmd = c
    BY <2>1 DEF Idle, ProcState, Labels, Results
  <2>3. proc' = [proc EXCEPT ![p] = st] /\ proc'[p] = st
    BY <1>3 DEF RunningInv, TypeOK
  <2> HIDE DEF st
  <2> QED
    BY <1>1, <2>1, <2>2, <2>3 DEF LocalStep, Fits, Spares, Suffixed
<1> QED
  BY <1>1, <1>2, <1>3 DEF LibzeInit

\* After validation the command starts at the label that is its name.
LEMMA ValidateSystemInv ==
  ASSUME RunningInv, NEW p \in Procs, ValidateSystem(p)
  PROVE  LocalStep(p) /\ StorageKept
<1>1. faults' \in 0 .. MaxFaults /\ proc[p].pc = "validate"
  BY FaultsType DEF ValidateSystem, Check, Call, At
<1>2. StorageKept
  BY UnchangedStorage DEF ValidateSystem, Check, Call
<1>3. Goto(p, proc[p].cmd.op) \/ Return(p, "fail")
  BY DEF ValidateSystem, Check, Call
<1>4. proc[p].cmd \in AllCommands
  BY <1>1, ProcFacts
<1>5. proc[p].cmd.op \in {"activate", "mount", "unmount", "create", "destroy",
                          "destroy_snapshot", "snapshot", "rename"}
  BY <1>4, CommandFields
<1>6. /\ proc[p].cmd.op \in Labels \ {"create_snap_boot"}
      /\ Fits(proc[p].cmd, proc[p].cmd.op)
      /\ Spares(proc[p].cmd, proc[p].cmd.op)
  BY <1>4, <1>5 DEF Labels, Fits, Spares
<1>7. LocalStep(p)
  BY <1>1, <1>3, <1>6, GotoStep, ReturnStep DEF Results
<1> QED
  BY <1>2, <1>7

\* Any step of a running command.
LEMMA CommandStepInv ==
  ASSUME RunningInv, NEW p \in Procs, CommandStep(p)
  PROVE  LocalStep(p) /\ StorageKept
BY ValidateSystemInv, TempMountStepInv, ActivateStepInv, CreateStepInv, DestroyStepInv,
   RenameStepInv, MountStepInv, SnapshotStepInv
   DEF CommandStep

\* A killed command leaves the pool as it is.
LEMMA KillInv ==
  ASSUME RunningInv, NEW p \in Procs, Kill(p)
  PROVE  LocalStep(p) /\ StorageKept
BY UnchangedStorage, FaultsType, ReturnStep DEF Kill, Results

\* A reboot mounts the complete environment it starts, and ends all commands.
LEMMA RebootInv ==
  ASSUME RunningInv, Reboot
  PROVE  RunningInv'
<1>1. PICK n \in Bootable : running' = n /\ mounted' = Pools \X {n}
  BY DEF Reboot
<1>2. n \in Names /\ Pools \X {n} \subseteq fs
  BY <1>1, ZfsAssumption DEF Bootable, Existing, Pools, Root, Boot
<1>3. UNCHANGED <<fs, snaps, origin, tmpmp, bootfs, faults>>
  BY DEF Reboot
<1>4. ZfsTypeOK' /\ RunningSafe'
  BY <1>1, <1>2, <1>3 DEF RunningInv, TypeOK, ZfsTypeOK, RunningSafe
<1>5. \A p \in Procs : proc'[p] \in ProcState /\ proc'[p].pc = "idle"
  BY IdleFact DEF Reboot, At, RunningInv, TypeOK, Results
<1>6. proc' = [p \in Procs |-> proc'[p]]
  BY DEF Reboot
<1>7. proc' \in [Procs -> ProcState]
  BY <1>5, <1>6
<1>8. TypeOK'
  BY <1>1, <1>2, <1>3, <1>4, <1>7 DEF RunningInv, TypeOK
<1>9. \A p \in Procs : (/\ Fits(proc[p].cmd, proc[p].pc)
                        /\ Spares(proc[p].cmd, proc[p].pc)
                        /\ Suffixed(proc[p]))'
  BY <1>5 DEF Fits, Spares, Suffixed
<1> QED
  BY <1>4, <1>8, <1>9 DEF RunningInv

\* A step that changes nothing.
LEMMA StutterInv == ASSUME RunningInv, UNCHANGED vars PROVE RunningInv'
BY DEF RunningInv, TypeOK, ZfsTypeOK, RunningSafe, Fits, Spares, Suffixed, vars, zfsVars

\* Every step of the system keeps the invariant.
LEMMA NextInv == RunningInv /\ [Next]_vars => RunningInv'
<1> SUFFICES ASSUME RunningInv, [Next]_vars PROVE RunningInv'
  OBVIOUS
<1>1. ASSUME NEW p \in Procs, LibzeInit(p) \/ CommandStep(p) \/ Kill(p), UNCHANGED running
      PROVE  RunningInv'
  BY <1>1, LibzeInitInv, CommandStepInv, KillInv, StepKeepsInv
<1>2. CASE Reboot
  BY <1>2, RebootInv
<1>3. CASE UNCHANGED vars
  BY <1>3, StutterInv
<1> QED
  BY <1>1, <1>2, <1>3 DEF Next

\* RunningInv is an invariant: every command has the fields its code uses,
\* and no command works on the running environment where that would harm it.
THEOREM RunningInvariant == Spec => []RunningInv
<1>1. Init => RunningInv
  BY InitInv
<1>2. RunningInv /\ [Next]_vars => RunningInv'
  BY NextInv
<1> QED
  BY <1>1, <1>2, PTL DEF Spec

\* Every variable keeps its type: no libzfs call or local variable of a
\* command ever gets a value outside the model of ProcState and ZfsTypeOK.
THEOREM TypeCorrect == Spec => []TypeOK
<1>1. RunningInv => TypeOK
  BY DEF RunningInv
<1> QED
  BY <1>1, RunningInvariant, PTL

\* However many commands run at once, fail or are killed, and whatever is
\* rebooted into, the running environment keeps its datasets and its mounts
\* (the guards libze_is_root_be of libze_destroy, libze_rename, libze_mount,
\* libze_unmount, mid_activate and post_create).
THEOREM RunningSafety == Spec => []RunningSafe
<1>1. RunningInv => RunningSafe
  BY DEF RunningInv
<1> QED
  BY <1>1, RunningInvariant, PTL

=============================================================================
