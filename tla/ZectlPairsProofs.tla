-------------------------- MODULE ZectlPairsProofs --------------------------
(***************************************************************************)
(* Proofs about the pairs of datasets of an environment when nothing stops *)
(* a command half way: one shell, no call fails, no command is killed      *)
(* (Calm); any names, snapshots and commands, with and without a boot pool *)
(* and a plugin.  The last part is about any number of shells, with        *)
(* commands that only add.                                                 *)
(***************************************************************************)
EXTENDS Pairs, ZectlSingleProofs

(***************************************************************************)
(* Mounts.                                                                 *)
(***************************************************************************)
\* A call that the pool allows does not fail.
LEMMA NoFailure ==
  ASSUME Calm, RunningInv
  PROVE  ~(faults < MaxFaults)
BY ZectlAssumption DEF Calm, RunningInv, TypeOK

\* What is known before a step of process p.
LEMMA MountFacts ==
  ASSUME SingleInv, MountInv, NEW p \in Procs
  PROVE  /\ MountsOf(proc[p].cmd.be, proc[p].pc)
         /\ mounted \subseteq fs /\ tmpmp \subseteq fs
         /\ ~BootPool => \A n : Boot(n) \notin fs
         /\ proc[p].pc # "idle" => proc[p].cmd.be \in Names
<1>1. RunningInv
  BY DEF SingleInv
<1>2. ~BootPool => \A n : Boot(n) \notin fs
  BY <1>1 DEF RunningInv, TypeOK, ZfsTypeOK, Datasets, Pools, Boot
<1> QED
  BY <1>1, <1>2, ProcFacts DEF MountInv, RunningInv, TypeOK, ZfsTypeOK

\* The labels at which no mount is under way.
StillLabels ==
  Labels \ (TempLabels \cup {"mount_root", "mount_boot", "unmount_boot", "unmount_root",
                             "rename_root", "rename_boot"})

\* At such a label the mounts are still, and need only be so.
LEMMA StillOf ==
  ASSUME NEW b, NEW l \in StillLabels
  PROVE  MountsOf(b, l) <=> Still
BY DEF MountsOf, Still, StillLabels, TempLabels

\* A process at label l.
LEMMA MountGoto ==
  ASSUME SingleInv, NEW p \in Procs, NEW l, Goto(p, l), NEW b, b = proc[p].cmd.be,
         MountsOf(b, l)'
  PROVE  MountsOf(proc[p].cmd.be, proc[p].pc)'
<1>1. proc'[p].pc = l /\ proc'[p].cmd = proc[p].cmd
  BY GotoFields DEF SingleInv
<1> QED
  BY <1>1

\* A process that is idle or at another label where the mounts are still.
LEMMA MountStill ==
  ASSUME Still', NEW p, proc'[p].pc \in StillLabels
  PROVE  MountsOf(proc[p].cmd.be, proc[p].pc)'
<1>1. ASSUME NEW b, NEW l, b = proc'[p].cmd.be, l = proc'[p].pc
      PROVE  MountsOf(b, l)'
  BY <1>1 DEF MountsOf, Still, StillLabels, TempLabels
<1> QED
  BY <1>1

\* A process that returns.
LEMMA MountReturn ==
  ASSUME SingleInv, NEW p \in Procs, NEW r, Return(p, r), Still'
  PROVE  MountsOf(proc[p].cmd.be, proc[p].pc)'
<1>1. proc'[p].pc = "idle"
  BY IdleResults DEF SingleInv, RunningInv, TypeOK, Return
<1>2. "idle" \in StillLabels
  BY DEF StillLabels, Labels, TempLabels
<1> QED
  BY <1>1, <1>2, MountStill

\* The temporary mount around a hook.
LEMMA TempMountMounts ==
  ASSUME Calm, SingleInv, MountInv, NEW p \in Procs, TempMountStep(p), UNCHANGED running
  PROVE  MountsOf(proc[p].cmd.be, proc[p].pc)'
<1> DEFINE b == proc[p].cmd.be
<1>1. ~(faults < MaxFaults)
  BY NoFailure DEF SingleInv
<1>2. /\ MountsOf(b, proc[p].pc) /\ mounted \subseteq fs /\ tmpmp \subseteq fs
      /\ ~BootPool => \A n : Boot(n) \notin fs
  BY MountFacts
<1>3. ASSUME NEW n, n = b, NEW l, Goto(p, l), MountsOf(n, l)'
      PROVE  MountsOf(proc[p].cmd.be, proc[p].pc)'
  BY <1>3, MountGoto
<1>4. proc[p].pc \in HookLabels => Existing(b) /\ b \in Names
  BY SoloFacts, ProcFacts DEF Standing, HookLabels
<1>5. ASSUME Still', HookDone(p) \/ HookFailed(p)
      PROVE  MountsOf(proc[p].cmd.be, proc[p].pc)'
  <2>1. "set_bootfs" \in StillLabels
    BY DEF StillLabels, Labels, TempLabels
  <2>2. Goto(p, "set_bootfs") \/ Return(p, "ok") \/ Return(p, "fail")
    BY <1>5 DEF HookDone, HookFailed
  <2> QED
    BY <1>5, <2>1, <2>2, MountReturn, MountStill, GotoFields DEF SingleInv
<1>6. CASE TempMountpoint(p)
  <2>1. PICK n : n = b
    OBVIOUS
  <2> USE PairFacts
  <2>2. proc[p].pc = "tmp_mountpoint" /\ Root(n) \in fs /\ n # running /\ n \in Names
    BY <1>4, <1>6, <2>1, SoloFacts, ProcFacts
       DEF TempMountpoint, At, HookLabels, Existing, Spares
  <2>3. Still
    BY <1>2, <2>2, StillOf DEF StillLabels, Labels, TempLabels
  <2>4. \/ SetMountpoint(Root(n), TRUE) /\ CanSetMountpoint(Root(n)) /\ Goto(p, "tmp_mount")
        \/ /\ ~CanSetMountpoint(Root(n)) /\ UNCHANGED zfsVars /\ Goto(p, "cleanup_unmount")
    BY <1>1, <1>6, <2>1 DEF TempMountpoint, Call, Works, Fails
  <2>5. Busy(Root(n)) <=> Boot(n) \in mounted
    BY DEF Busy, Root
  <2>6. ASSUME SetMountpoint(Root(n), TRUE), CanSetMountpoint(Root(n))
        PROVE  MountsOf(n, "tmp_mount")'
    <3>1. mounted' = mounted /\ tmpmp' = {Root(n)} /\ fs' = fs
      BY <2>3, <2>6 DEF SetMountpoint, Still
    <3>2. Boot(n) \notin mounted
      BY <1>2, <1>4, <2>1, <2>2, <2>3, <2>5, <2>6
         DEF CanSetMountpoint, Still, Settled, Paired, RootOnly, HookLabels
    <3> QED
      BY <2>2, <2>3, <3>1, <3>2 DEF MountsOf, Still, Settled, Paired, RootOnly, TempLabels
  <2>7. ASSUME ~CanSetMountpoint(Root(n)), UNCHANGED zfsVars
        PROVE  MountsOf(n, "cleanup_unmount")'
    BY <1>2, <2>1, <2>2, <2>3, <2>5, <2>7
       DEF zfsVars, CanSetMountpoint, MountsOf, Still, Settled, Paired, RootOnly, TempLabels
  <2> QED
    BY <1>3, <2>1, <2>4, <2>6, <2>7
<1>7. CASE TempMount(p)
  <2>1. PICK n : n = b
    OBVIOUS
  <2> USE PairFacts
  <2>2. proc[p].pc = "tmp_mount" /\ n # running /\ n \in Names
    BY <1>4, <1>7, <2>1, SoloFacts, ProcFacts DEF TempMount, At, HookLabels, Spares
  <2>3. /\ tmpmp = {Root(n)} /\ Boot(n) \notin mounted
        /\ \A m \in Names : Settled(m)
    BY <1>2, <2>1, <2>2 DEF MountsOf
  <2>4. \/ Mount(Root(n)) /\ Goto(p, "hook")
        \/ Root(n) \in mounted /\ UNCHANGED zfsVars /\ Goto(p, "cleanup_unmount")
    BY <1>1, <1>2, <1>7, <2>1, <2>3 DEF TempMount, Call, Works, Fails, CanMount
  <2>5. ASSUME Mount(Root(n))
        PROVE  MountsOf(n, "hook")'
    <3>1. mounted' = mounted \cup {Root(n)} /\ tmpmp' = tmpmp
      BY <2>5 DEF Mount
    <3> QED
      BY <2>2, <2>3, <3>1 DEF MountsOf, Settled, Paired, RootOnly, TempLabels
  <2>6. ASSUME Root(n) \in mounted, UNCHANGED zfsVars
        PROVE  MountsOf(n, "cleanup_unmount")'
    BY <2>2, <2>3, <2>6 DEF zfsVars, MountsOf, Settled, Paired, RootOnly, TempLabels
  <2> QED
    BY <1>3, <2>1, <2>4, <2>5, <2>6
<1>8. CASE MountedHook(p)
  <2>1. proc[p].pc = "hook" /\ UNCHANGED zfsVars
    BY <1>8 DEF MountedHook, Hook, Check, Call, At
  <2>2. IF b = running THEN HookDone(p) ELSE Goto(p, "tmp_unmount")
    BY <1>1, <1>8 DEF MountedHook, Hook, Check, Call, Fails, IsRoot
  <2>3. PICK n : n = b
    OBVIOUS
  <2>4. n = running => Still'
    <3>1. n = running => Paired(n)
      BY PairDatasets, SoloFacts DEF RunningInv, RunningSafe, Settled, Paired, RootOnly
    <3> QED
      BY <1>2, <2>1, <2>3, <3>1 DEF MountsOf, Still, Settled, Paired, RootOnly, zfsVars
  <2>5. n # running => MountsOf(n, "tmp_unmount")'
    BY <1>2, <2>1, <2>3 DEF MountsOf, Settled, Paired, RootOnly, TempLabels, zfsVars
  <2> QED
    BY <1>3, <1>5, <2>2, <2>3, <2>4, <2>5
<1>9. ASSUME NEW l \in {"tmp_unmount", "cleanup_unmount"}, NEW k \in {"tmp_reset", "cleanup_reset"},
             proc[p].pc = l,
             IF Root(b) \in mounted
             THEN \/ CanUnmount(Root(b)) /\ Unmount(Root(b)) /\ Goto(p, k)
                  \/ ~CanUnmount(Root(b)) /\ UNCHANGED zfsVars /\ HookFailed(p)
             ELSE UNCHANGED zfsVars /\ (HookDone(p) \/ HookFailed(p))
      PROVE  MountsOf(proc[p].cmd.be, proc[p].pc)'
  <2>1. PICK n : n = b
    OBVIOUS
  <2> USE PairFacts
  <2>2. /\ tmpmp \subseteq {Root(n)} /\ \A m \in Names \ {n} : Settled(m)
        /\ tmpmp # {} \/ ~Paired(n) => RootOnly(n)
        /\ tmpmp # {} => n # running
    BY <1>2, <1>9, <2>1 DEF MountsOf
  <2>3. CanUnmount(Root(n)) <=> RootOnly(n)
    BY DEF CanUnmount, Busy, Root, RootOnly
  <2>4. ASSUME ~RootOnly(n), UNCHANGED zfsVars
        PROVE  Still'
    BY <2>2, <2>4 DEF Still, Settled, Paired, RootOnly, zfsVars
  <2>5. ASSUME CanUnmount(Root(n)), Unmount(Root(n))
        PROVE  MountsOf(n, k)'
    <3>1. mounted' = mounted \ {Root(n)} /\ tmpmp' = tmpmp /\ fs' = fs
      BY <2>5 DEF Unmount
    <3>2. Root(n) \in fs
      BY <1>2, <2>5 DEF CanUnmount
    <3> QED
      BY <2>2, <2>3, <2>5, <3>1, <3>2 DEF MountsOf, Settled, Paired, RootOnly, Unmounted, TempLabels
  <2> QED
    BY <1>3, <1>5, <1>9, <2>1, <2>3, <2>4, <2>5 DEF RootOnly
<1>10. CASE TempUnmountAfterHook(p) \/ TempUnmountOnError(p)
  BY <1>1, <1>9, <1>10
     DEF TempUnmountAfterHook, TempUnmountOnError, TempUnmount, At, Call, Works, Fails
<1>11. CASE TempResetAfterHook(p) \/ TempResetOnError(p)
  <2>1. PICK n : n = b
    OBVIOUS
  <2> USE PairFacts
  <2>2. proc[p].pc \in {"tmp_reset", "cleanup_reset"}
    BY <1>11 DEF TempResetAfterHook, TempResetOnError, TempReset, At
  <2>3. /\ tmpmp \subseteq {Root(n)} /\ \A m \in Names : Settled(m)
        /\ Root(n) \in fs \ mounted
    BY <1>2, <2>1, <2>2 DEF MountsOf, Unmounted
  <2>4. SetMountpoint(Root(n), FALSE) /\ (HookDone(p) \/ HookFailed(p))
    BY <1>1, <1>11, <2>1, <2>3
       DEF TempResetAfterHook, TempResetOnError, TempReset, Call, Works, Fails, CanSetMountpoint
  <2>5. Still'
    BY <2>3, <2>4 DEF SetMountpoint, Still, Settled, Paired, RootOnly
  <2> QED
    BY <1>5, <2>4, <2>5
<1> QED
  BY <1>6, <1>7, <1>8, <1>10, <1>11 DEF TempMountStep

\* A step from a label where the mounts are still, which leaves them alone.
LEMMA QuietStep ==
  ASSUME SingleInv, MountInv, NEW p \in Procs, proc[p].pc \in StillLabels,
         UNCHANGED <<mounted, tmpmp>>
  PROVE  /\ Still /\ Still'
         /\ proc'[p].pc \in StillLabels => MountsOf(proc[p].cmd.be, proc[p].pc)'
         /\ \A r : Return(p, r) => MountsOf(proc[p].cmd.be, proc[p].pc)'
         /\ \A l \in StillLabels : Goto(p, l) => MountsOf(proc[p].cmd.be, proc[p].pc)'
<1>1. Still
  BY StillOf DEF MountInv
<1>2. Still'
  BY <1>1 DEF Still, Settled, Paired, RootOnly
<1> QED
  BY <1>1, <1>2, MountStill, MountReturn, GotoFields DEF SingleInv

\* TempMountAndHook from such a label, and the unmount of mid_activate.
LEMMA QuietHook ==
  ASSUME SingleInv, MountInv, NEW p \in Procs, proc[p].pc \in StillLabels \ {"idle"},
         UNCHANGED <<mounted, tmpmp, running>>, TempMountAndHook(p) \/ Goto(p, "tmp_unmount")
  PROVE  MountsOf(proc[p].cmd.be, proc[p].pc)'
<1>1. PICK n : n = proc[p].cmd.be
  OBVIOUS
<1>2. Still'
  BY QuietStep
<1>3. "tmp_mountpoint" \in StillLabels
  BY DEF StillLabels, Labels, TempLabels
<1>4. /\ MountsOf(n, "tmp_unmount")'
      /\ n = running => MountsOf(n, "hook")'
  <2>1. n \in Names
    BY <1>1, MountFacts
  <2>2. tmpmp' = {} /\ \A m \in Names : Settled(m)'
    BY <1>2 DEF Still
  <2> QED
    BY <2>1, <2>2 DEF MountsOf, Settled, RootOnly, Paired
<1> QED
  BY <1>1, <1>3, <1>4, QuietStep, MountGoto DEF TempMountAndHook, IsRoot

\* The labels, one by one.
LEMMA StillLabelFacts ==
  /\ {"idle", "validate", "activate", "set_bootfs", "promote_root", "promote_boot",
      "post_activate", "tmp_mountpoint", "create", "create_snap", "create_snap_boot",
      "create_again", "clone_root", "clone_boot", "post_create", "destroy", "destroy_check",
      "destroy_snaps", "destroy_fs", "destroy_origin", "post_destroy", "destroy_snapshot",
      "dsnap_root", "dsnap_boot", "rename", "post_rename", "mount", "unmount", "snapshot",
      "pre_snapshot", "snap_root", "snap_boot"} \subseteq StillLabels
  /\ StillLabels \subseteq Labels
  /\ "idle" \in StillLabels
BY DEF StillLabels, Labels, TempLabels

\* activate and create mount nothing but for their hooks.
LEMMA ActivateMounts ==
  ASSUME SingleInv, MountInv, NEW p \in Procs, ActivateStep(p), UNCHANGED running
  PROVE  MountsOf(proc[p].cmd.be, proc[p].pc)'
<1>1. UNCHANGED <<mounted, tmpmp>>
  BY DEF ActivateStep, Activate, ActivateSetBootfs, ActivatePromote, ActivatePromoteBoot,
         ActivateCb, PostActivate, Hook, Check, Call, SetBootfs, Promote, zfsVars
<1>2. proc[p].pc \in StillLabels \ {"idle"}
  BY StillLabelFacts
     DEF ActivateStep, Activate, ActivateSetBootfs, ActivatePromote, ActivatePromoteBoot,
         PostActivate, At
<1>3. \/ TempMountAndHook(p) \/ Goto(p, "tmp_unmount")
      \/ \E l \in {"set_bootfs", "promote_root", "promote_boot", "post_activate"} : Goto(p, l)
      \/ proc' = [proc EXCEPT ![p].pc = "post_activate", ![p].ret = "fail"]
      \/ \E r : Return(p, r)
  BY DEF ActivateStep, Activate, ActivateSetBootfs, ActivatePromote, ActivatePromoteBoot,
         ActivateCb, PostActivate, Hook, Check, Call
<1>4. CASE proc' = [proc EXCEPT ![p].pc = "post_activate", ![p].ret = "fail"]
  <2>1. proc'[p].pc = "post_activate"
    BY <1>4, ProcFacts DEF SingleInv, RunningInv, TypeOK, ProcState
  <2> QED
    BY <1>1, <1>2, <2>1, QuietStep, StillLabelFacts
<1> QED
  BY <1>1, <1>2, <1>3, <1>4, QuietStep, QuietHook, StillLabelFacts

\* create.
LEMMA CreateMounts ==
  ASSUME SingleInv, MountInv, NEW p \in Procs, CreateStep(p), UNCHANGED running
  PROVE  MountsOf(proc[p].cmd.be, proc[p].pc)'
<1>1. UNCHANGED <<mounted, tmpmp>>
  BY DEF CreateStep, Create, CreateSnap, CreateSnapBoot, CreateAgain, CloneRoot, CloneBoot,
         PostCreate, Check, Call, Snapshot, Clone, zfsVars
<1>2. proc[p].pc \in StillLabels \ {"idle"}
  BY StillLabelFacts
     DEF CreateStep, Create, CreateSnap, CreateSnapBoot, CreateAgain, CloneRoot, CloneBoot,
         PostCreate, At
<1>3. \/ TempMountAndHook(p)
      \/ \E l \in {"create_snap", "create_again", "clone_root", "clone_boot", "post_create"} :
           Goto(p, l)
      \/ \E l \in {"create_again", "create_snap_boot"} : \E x :
           proc' = [proc EXCEPT ![p].pc = l, ![p].sfx = x]
      \/ \E r : Return(p, r)
  BY DEF CreateStep, Create, CreateSnap, CreateSnapBoot, CreateAgain, CloneRoot, CloneBoot,
         CreateDone, PostCreate, Check, Call
<1>4. ASSUME NEW l \in {"create_again", "create_snap_boot"}, NEW x,
             proc' = [proc EXCEPT ![p].pc = l, ![p].sfx = x]
      PROVE  MountsOf(proc[p].cmd.be, proc[p].pc)'
  <2>1. proc'[p].pc = l
    BY <1>4, ProcFacts DEF SingleInv, RunningInv, TypeOK, ProcState
  <2> QED
    BY <1>1, <1>2, <2>1, QuietStep, StillLabelFacts
<1> QED
  BY <1>1, <1>2, <1>3, <1>4, QuietStep, QuietHook, StillLabelFacts

\* destroy: with a boot pool a forced unmount of a root dataset fails, for the
\* boot dataset is mounted below it; the boot dataset is not mounted when the
\* root dataset is gone.
LEMMA DestroyMounts ==
  ASSUME SingleInv, MountInv, NEW p \in Procs, DestroyStep(p), UNCHANGED running
  PROVE  MountsOf(proc[p].cmd.be, proc[p].pc)'
<1>1. proc[p].pc \in StillLabels \ {"idle"}
  BY StillLabelFacts
     DEF DestroyStep, Destroy, DestroyCheck, DestroySnaps, DestroyDataset, DestroyOrigin,
         PostDestroy, DestroySnapshot, DestroySnapshotRoot, DestroySnapshotBoot, At
<1>2. Still
  BY <1>1, StillOf DEF MountInv
<1>3. proc[p] \in ProcState /\ proc \in [Procs -> ProcState]
  BY ProcFacts DEF SingleInv, RunningInv, TypeOK
<1>4. (\E r : Return(p, r)) \/ proc'[p].pc \in StillLabels
  <2>1. CASE Destroy(p)
    BY <1>3, <2>1, StillLabelFacts DEF Destroy, Check, Call, ProcState
  <2>6. CASE DestroyCheck(p)
    <3>1. \/ Return(p, "fail")
          \/ \E o, i : proc' = [proc EXCEPT ![p].pc = "destroy_snaps", ![p].orig = o, ![p].iter = i]
      BY <2>6 DEF DestroyCheck, Check, Call
    <3> QED
      BY <1>3, <3>1, StillLabelFacts DEF ProcState
  <2>2. CASE DestroySnaps(p)
    BY <1>3, <2>2, StillLabelFacts DEF DestroySnaps, Goto, Call, ProcState, At
  <2>3. CASE DestroyDataset(p) \/ DestroyOrigin(p)
    BY <1>3, <2>3, StillLabelFacts
       DEF DestroyDataset, DestroyOrigin, DestroyedDataset, Goto, Call, ProcState
  <2>4. CASE PostDestroy(p)
    BY <2>4 DEF PostDestroy, Hook, Check, Call
  <2>5. CASE DestroySnapshot(p) \/ DestroySnapshotRoot(p) \/ DestroySnapshotBoot(p)
    BY <1>3, <2>5, StillLabelFacts
       DEF DestroySnapshot, DestroySnapshotRoot, DestroySnapshotBoot, Goto, Check, Call, ProcState
  <2> QED
    BY <2>1, <2>2, <2>3, <2>4, <2>5, <2>6 DEF DestroyStep
<1>5. CASE UNCHANGED <<mounted, tmpmp>>
  BY <1>1, <1>4, <1>5, QuietStep
<1>6. CASE DestroyDataset(p)
  <2>1. UNCHANGED <<mounted, tmpmp>>
    BY <1>2, <1>6 DEF DestroyDataset, Call, DestroyFs, zfsVars, Still
  <2> QED
    BY <1>5, <2>1
<1>7. CASE DestroyCheck(p) /\ CanUnmount(Target(p)) /\ Unmount(Target(p))
  <2>1. PICK b : b = proc[p].cmd.be
    OBVIOUS
  <2> USE PairFacts
  <2>2. /\ proc[p].pool \in {"root", "boot"} /\ b \in Names
        /\ proc[p].pool = "boot" => Root(b) \notin mounted
    BY <1>3, <1>7, <2>1, SoloFacts, MountFacts
       DEF DestroyCheck, At, ProcState, Belongs, DoneSoFar
  <2>3. Target(p) \in {Root(b), Boot(b)} /\ (proc[p].pool = "root" => Target(p) = Root(b))
    BY <2>1, <2>2 DEF Target, Root, Boot
  <2>4. Busy(Root(b)) <=> Boot(b) \in mounted
    BY DEF Busy, Root
  <2>5. Target(p) = Root(b) /\ Boot(b) \notin mounted
    BY <1>2, <1>7, <2>2, <2>3, <2>4, MountFacts
       DEF CanUnmount, Still, Settled, Paired, RootOnly
  <2>6. Still'
    BY <1>2, <1>7, <2>2, <2>5 DEF Unmount, Still, Settled, Paired, RootOnly
  <2> QED
    BY <1>4, <2>6, MountStill, MountReturn
<1>8. \/ UNCHANGED <<mounted, tmpmp>>
      \/ DestroyDataset(p)
      \/ DestroyCheck(p) /\ CanUnmount(Target(p)) /\ Unmount(Target(p))
  BY DEF DestroyStep, Destroy, DestroyCheck, DestroySnaps, DestroyOrigin, PostDestroy,
         DestroySnapshot, DestroySnapshotRoot, DestroySnapshotBoot, Hook, Check, Call, Works,
         DestroySnap, zfsVars
<1> QED
  BY <1>5, <1>6, <1>7, <1>8

\* rename: nothing of the environment is mounted, so no mount moves.
LEMMA RenameMounts ==
  ASSUME SingleInv, MountInv, NEW p \in Procs, RenameStep(p), UNCHANGED running
  PROVE  MountsOf(proc[p].cmd.be, proc[p].pc)'
<1>1. PICK b : b = proc[p].cmd.be
  OBVIOUS
<1> USE PairFacts
<1>2. /\ MountsOf(b, proc[p].pc) /\ mounted \subseteq fs
      /\ ~BootPool => \A n : Boot(n) \notin fs
  BY <1>1, MountFacts
<1>3. proc[p].pc \in {"rename", "rename_root", "rename_boot", "post_rename"}
  BY DEF RenameStep, RenameBE, RenameRoot, RenameBoot, PostRename, At
<1>4. Still
  BY <1>2, <1>3 DEF MountsOf, Still, TempLabels
<1>5. ASSUME NEW d, NEW e, d \notin mounted, Rename(d, e)
      PROVE  UNCHANGED <<mounted, tmpmp>>
  BY <1>4, <1>5 DEF Rename, Renamed, Still
<1>6. UNCHANGED <<mounted, tmpmp>>
  <2>1. proc[p].pc = "rename_root" => Root(b) \notin mounted
    BY <1>2 DEF MountsOf, Unmounted
  <2>2. proc[p].pc = "rename_boot" => Boot(b) \notin mounted
    BY <1>2 DEF MountsOf
  <2> QED
    BY <1>1, <1>5, <2>1, <2>2
       DEF RenameStep, RenameBE, RenameRoot, RenameBoot, PostRename, Hook, Check, Call, At, zfsVars
<1>7. Still'
  BY <1>4, <1>6 DEF Still, Settled, Paired, RootOnly
<1>8. CASE RenameBE(p)
  <2>1. \/ Return(p, "fail")
        \/ Unmounted(b) /\ Goto(p, "rename_root")
    BY <1>1, <1>2, <1>8 DEF RenameBE, Check, Call, Works, Unmounted
  <2>2. Unmounted(b) => MountsOf(b, "rename_root")'
    BY <1>6, <1>7 DEF MountsOf, Still, Settled, Paired, RootOnly, Unmounted, TempLabels
  <2> QED
    BY <1>1, <1>7, <2>1, <2>2, MountReturn, MountGoto
<1>9. CASE RenameRoot(p)
  <2>1. Goto(p, "rename_boot") \/ Goto(p, "post_rename") \/ Return(p, "fail")
    BY <1>9 DEF RenameRoot, Call
  <2>2. MountsOf(b, "rename_boot")'
    BY <1>2, <1>6, <1>7, <1>9
       DEF RenameRoot, At, MountsOf, Still, Settled, Paired, RootOnly, Unmounted, TempLabels
  <2>3. MountsOf(b, "post_rename")'
    BY <1>7 DEF MountsOf, Still, Settled, Paired, RootOnly, TempLabels
  <2> QED
    BY <1>1, <1>7, <2>1, <2>2, <2>3, MountReturn, MountGoto
<1>10. CASE RenameBoot(p) \/ PostRename(p)
  <2>1. \/ Goto(p, "post_rename")
        \/ proc' = [proc EXCEPT ![p].pc = "post_rename", ![p].ret = "fail"]
        \/ \E r : Return(p, r)
    BY <1>10 DEF RenameBoot, PostRename, Hook, Check, Call
  <2>2. proc' = [proc EXCEPT ![p].pc = "post_rename", ![p].ret = "fail"]
          => proc'[p].pc = "post_rename"
    BY ProcFacts DEF SingleInv, RunningInv, TypeOK, ProcState
  <2> QED
    BY <1>7, <2>1, <2>2, MountReturn, MountStill, StillLabelFacts, GotoFields DEF SingleInv
<1> QED
  BY <1>8, <1>9, <1>10 DEF RenameStep

\* mount and unmount: between the two datasets the environment is half mounted.
LEMMA MountMounts ==
  ASSUME Calm, SingleInv, MountInv, NEW p \in Procs, MountStep(p), UNCHANGED running
  PROVE  MountsOf(proc[p].cmd.be, proc[p].pc)'
<1>1. PICK b : b = proc[p].cmd.be
  OBVIOUS
<1> USE PairFacts
<1>2. /\ MountsOf(b, proc[p].pc) /\ mounted \subseteq fs
      /\ ~BootPool => \A n : Boot(n) \notin fs
      /\ proc[p].pc # "idle" => b \in Names
  BY <1>1, MountFacts
<1>3. ~(faults < MaxFaults)
  BY NoFailure DEF SingleInv
<1>4. ASSUME NEW l, Goto(p, l), MountsOf(b, l)'
      PROVE  MountsOf(proc[p].cmd.be, proc[p].pc)'
  BY <1>1, <1>4, MountGoto
<1>5. ASSUME Still', \/ \E r : Return(p, r)
                     \/ \E l \in {"pre_snapshot", "snap_root"} : Goto(p, l)
      PROVE  MountsOf(proc[p].cmd.be, proc[p].pc)'
  BY <1>5, MountReturn, MountStill, StillLabelFacts, GotoFields DEF SingleInv
<1>6. CASE MountBE(p)
  <2>1. UNCHANGED zfsVars /\ proc[p].pc = "mount"
    BY <1>6 DEF MountBE, Check, Call, At
  <2>2. Still
    BY <1>2, <2>1 DEF MountsOf, Still, TempLabels
  <2>3. \/ Return(p, "fail")
        \/ Existing(b) /\ Root(b) \notin mounted /\ Goto(p, "mount_root")
    BY <1>1, <1>6 DEF MountBE, Check, Call, Works
  <2>4. Still'
    BY <2>1, <2>2 DEF Still, Settled, Paired, RootOnly, zfsVars
  <2>5. ASSUME Existing(b), Root(b) \notin mounted
        PROVE  MountsOf(b, "mount_root")'
    <3>1. Unmounted(b)
      BY <1>2, <2>1, <2>2, <2>5 DEF Unmounted, Still, Settled, Paired, RootOnly
    <3> QED
      BY <2>1, <2>4, <2>5, <3>1
         DEF MountsOf, Still, Settled, Paired, RootOnly, Unmounted, Existing, zfsVars
  <2> QED
    BY <1>4, <1>5, <2>3, <2>4, <2>5
<1>7. CASE MountRoot(p)
  <2>1. proc[p].pc = "mount_root"
    BY <1>7 DEF MountRoot, At
  <2>2. Existing(b) /\ Unmounted(b) /\ (\A n \in Names : Settled(n)) /\ tmpmp = {}
    BY <1>2, <2>1 DEF MountsOf, TempLabels
  <2>3. Mount(Root(b)) /\ IF BootPool THEN Goto(p, "mount_boot") ELSE MountDone(p)
    BY <1>1, <1>3, <1>7, <2>2 DEF MountRoot, Call, Works, Fails, CanMount, Existing
  <2>4. mounted' = mounted \cup {Root(b)} /\ tmpmp' = {} /\ fs' = fs
    BY <2>2, <2>3 DEF Mount
  <2>5. MountsOf(b, "mount_boot")'
    BY <2>2, <2>4 DEF MountsOf, Settled, Paired, RootOnly, Existing
  <2>6. ~BootPool => Still'
    BY <2>4 DEF Still, Settled, Paired, RootOnly
  <2> QED
    BY <1>4, <1>5, <2>3, <2>5, <2>6 DEF MountDone
<1>8. CASE MountBoot(p)
  <2>1. proc[p].pc = "mount_boot"
    BY <1>8 DEF MountBoot, At
  <2>2. Existing(b) /\ (\A n \in Names \ {b} : Settled(n)) /\ tmpmp = {} /\ Root(b) \in mounted
    BY <1>1, <1>2, <2>1, SoloFacts DEF MountsOf, TempLabels, DoneSoFar
  <2>3. \/ Mount(Boot(b)) /\ MountDone(p)
        \/ UNCHANGED zfsVars /\ Boot(b) \notin fs /\ Return(p, "fail")
        \/ UNCHANGED zfsVars /\ "other" \in BootMountpoints /\ Return(p, "fail")
    BY <1>1, <1>3, <1>8 DEF MountBoot, Call, Works, Fails, CanMount
  <2>4. Still'
    BY <2>2, <2>3 DEF Mount, Still, Settled, Paired, RootOnly, Existing, zfsVars
  <2> QED
    BY <1>5, <2>3, <2>4 DEF MountDone
<1>9. CASE UnmountBE(p)
  <2>1. UNCHANGED zfsVars /\ proc[p].pc = "unmount"
    BY <1>9 DEF UnmountBE, Check, Call, At
  <2>2. Still /\ Still'
    BY <1>2, <2>1 DEF MountsOf, Still, TempLabels, Settled, Paired, RootOnly, zfsVars
  <2>3. \/ Return(p, "fail")
        \/ BootPool /\ Root(b) \in mounted /\ Boot(b) \in mounted /\ Goto(p, "unmount_boot")
        \/ ~BootPool /\ Root(b) \in mounted /\ Goto(p, "unmount_root")
    BY <1>1, <1>9 DEF UnmountBE, Check, Call, Works
  <2>4. Root(b) \in mounted /\ Boot(b) \in mounted => MountsOf(b, "unmount_boot")'
    BY <2>1, <2>2 DEF MountsOf, Still, Settled, Paired, RootOnly, zfsVars
  <2>5. ~BootPool /\ Root(b) \in mounted => MountsOf(b, "unmount_root")'
    BY <1>2, <2>1, <2>2 DEF MountsOf, Still, Settled, Paired, RootOnly, zfsVars
  <2> QED
    BY <1>4, <1>5, <2>2, <2>3, <2>4, <2>5
<1>10. CASE UnmountBoot(p)
  <2>1. proc[p].pc = "unmount_boot"
    BY <1>10 DEF UnmountBoot, At
  <2>2. /\ Root(b) \in mounted /\ Boot(b) \in mounted
        /\ (\A n \in Names : Settled(n)) /\ tmpmp = {}
    BY <1>2, <2>1 DEF MountsOf, TempLabels
  <2>3. ~Busy(Boot(b))
    BY DEF Busy, Boot
  <2>4. Unmount(Boot(b)) /\ Goto(p, "unmount_root")
    BY <1>1, <1>3, <1>10, <2>2, <2>3 DEF UnmountBoot, UnmountCallback, Call, Works, Fails, CanUnmount
  <2>5. mounted' = mounted \ {Boot(b)} /\ tmpmp' = {}
    BY <2>2, <2>4 DEF Unmount
  <2>6. MountsOf(b, "unmount_root")'
    BY <2>2, <2>5 DEF MountsOf, Settled, Paired, RootOnly
  <2> QED
    BY <1>4, <2>4, <2>6
<1>11. CASE UnmountRoot(p)
  <2>1. proc[p].pc = "unmount_root"
    BY <1>11 DEF UnmountRoot, At
  <2>2. RootOnly(b) /\ (\A n \in Names \ {b} : Settled(n)) /\ tmpmp = {}
    BY <1>2, <2>1 DEF MountsOf, TempLabels
  <2>3. CanUnmount(Root(b))
    BY <2>2 DEF CanUnmount, Busy, RootOnly, Root
  <2>4. Unmount(Root(b)) /\ UnmountDone(p)
    BY <1>1, <1>3, <1>11, <2>2, <2>3
       DEF UnmountRoot, UnmountCallback, Call, Works, Fails, RootOnly
  <2>5. Still'
    BY <2>2, <2>4 DEF Unmount, Still, Settled, Paired, RootOnly
  <2> QED
    BY <1>5, <2>4, <2>5 DEF UnmountDone
<1> QED
  BY <1>6, <1>7, <1>8, <1>9, <1>10, <1>11 DEF MountStep

\* snapshot mounts nothing itself.
LEMMA SnapshotMounts ==
  ASSUME SingleInv, MountInv, NEW p \in Procs, SnapshotStep(p), UNCHANGED running
  PROVE  MountsOf(proc[p].cmd.be, proc[p].pc)'
<1>1. UNCHANGED <<mounted, tmpmp>>
  BY DEF SnapshotStep, SnapshotBE, PreSnapshot, SnapshotRoot, SnapshotBoot, Hook, Check, Call,
         Snapshot, zfsVars
<1>2. proc[p].pc \in StillLabels
  BY StillLabelFacts DEF SnapshotStep, SnapshotBE, PreSnapshot, SnapshotRoot, SnapshotBoot, At
<1>3. \/ \E l \in {"snap_root", "pre_snapshot", "mount", "unmount", "snap_boot"} : Goto(p, l)
      \/ \E r : Return(p, r)
  BY DEF SnapshotStep, SnapshotBE, PreSnapshot, SnapshotRoot, SnapshotBoot, Hook, Check, Call
<1> QED
  BY <1>1, <1>2, <1>3, QuietStep, StillLabelFacts

\* The start of a command.
LEMMA StartMounts ==
  ASSUME SingleInv, MountInv, NEW p \in Procs, LibzeInit(p) \/ ValidateSystem(p)
  PROVE  MountsOf(proc[p].cmd.be, proc[p].pc)'
<1>1. UNCHANGED <<mounted, tmpmp>>
  BY DEF LibzeInit, ValidateSystem, Check, Call, zfsVars
<1>2. proc[p].pc \in StillLabels
  BY StillLabelFacts DEF LibzeInit, ValidateSystem, At
<1>3. ASSUME NEW c, proc' = [proc EXCEPT ![p] = [Idle("ok") EXCEPT !.pc = "validate",
                                                                  !.cmd = c, !.act = bootfs]]
      PROVE  proc'[p].pc = "validate"
  BY <1>3 DEF SingleInv, RunningInv, TypeOK, Idle
<1>4. ValidateSystem(p) => proc[p].cmd.op \in StillLabels
  BY ProcFacts, CommandFields, StillLabelFacts DEF ValidateSystem, At, SingleInv
<1>5. \/ \E r : Return(p, r)
      \/ proc'[p].pc = "validate"
      \/ \E l \in StillLabels : Goto(p, l)
  BY <1>3, <1>4 DEF LibzeInit, ValidateSystem, Check, Call
<1> QED
  BY <1>1, <1>2, <1>5, QuietStep, StillLabelFacts

\* A step of the only process.
LEMMA ProcessMounts ==
  ASSUME OneShell, Calm, SingleInv, MountInv, NEW p \in Procs,
         LibzeInit(p) \/ CommandStep(p) \/ Kill(p), UNCHANGED running
  PROVE  MountInv'
<1>1. MountsOf(proc[p].cmd.be, proc[p].pc)'
  BY StartMounts, TempMountMounts, ActivateMounts, CreateMounts, DestroyMounts, RenameMounts,
     MountMounts, SnapshotMounts
     DEF CommandStep, Kill, Calm
<1>2. AllIdle' => Still'
  BY <1>1 DEF AllIdle, At, MountsOf, Still, TempLabels
<1> QED
  BY <1>1, <1>2 DEF OneShell, MountInv

\* A reboot mounts one environment, and finds no command.
LEMMA RebootMounts ==
  ASSUME Calm, MountInv, Reboot
  PROVE  MountInv'
<1>1. AllIdle /\ Still
  BY DEF Reboot, Calm, MountInv
<1>2. /\ \A p \in Procs : proc'[p].pc = "idle"
      /\ tmpmp' = {} /\ \E n \in Names : mounted' = Pools \X {n}
  BY <1>1 DEF Reboot, AllIdle, At, Still, Bootable
<1>3. Still'
  BY <1>2, PairDatasets, PairFacts DEF Still, Settled, Paired, RootOnly
<1> QED
  BY <1>2, <1>3, MountStill, StillLabelFacts DEF MountInv

\* Every step keeps the mounts in order.
LEMMA MountNext == ASSUME OneShell, Calm PROVE SingleInv /\ MountInv /\ [Next]_vars => MountInv'
<1> SUFFICES ASSUME SingleInv, MountInv, [Next]_vars PROVE MountInv'
  OBVIOUS
<1>1. CASE Next
  BY <1>1, ProcessMounts, RebootMounts DEF Next
<1>2. CASE UNCHANGED vars
  BY <1>2 DEF vars, zfsVars, MountInv, AllIdle, At, Still, MountsOf, Settled, Paired,
              Existing, Unmounted,
              RootOnly
<1> QED
  BY <1>1, <1>2

\* The installed system is mounted.
LEMMA MountInit == Init => MountInv
<1> SUFFICES ASSUME Init PROVE MountInv
  OBVIOUS
<1>1. PICK n \in Names : ZfsInit(n) /\ proc = [p \in Procs |-> Idle("none")]
  BY DEF Init
<1>2. Still
  BY <1>1, PairDatasets, PairFacts DEF ZfsInit, Still, Settled, Paired, RootOnly
<1>3. \A p \in Procs : proc[p].pc = "idle"
  BY <1>1, IdleResults
<1> QED
  BY <1>2, <1>3, StillOf, StillLabelFacts DEF MountInv

\* With one shell, when no call fails and no command is killed, the command
\* that runs is the only one to have its environment half mounted or at a
\* directory below /tmp, and it is at a label that puts this right
\* (libze_mount, libze_unmount, temp_mount_be, temp_unmount_be).
THEOREM MountInvariant ==
  ASSUME OneShell, Calm
  PROVE  Spec => []MountInv
BY MountInit, MountNext, SingleInvariant, PTL DEF Spec

\* On these terms, when no command runs the two datasets of an environment
\* are mounted together or not at all, but that the root dataset may be mounted
\* alone where the mountpoint of the boot dataset is not legacy.
THEOREM AlwaysMountedInPairs ==
  ASSUME OneShell, Calm
  PROVE  Spec => []MountedInPairs
<1>1. MountInv => MountedInPairs
  <2> SUFFICES ASSUME MountInv, AllIdle, NEW n \in Names
               PROVE  \/ Pools \X {n} \cap mounted \in {{}, Pools \X {n}}
                      \/ /\ "other" \in BootMountpoints
                         /\ Pools \X {n} \cap mounted = {Root(n)}
    BY DEF MountedInPairs
  <2>1. Settled(n)
    BY DEF MountInv, Still
  <2>2. CASE Paired(n)
    BY <2>2, PairDatasets DEF Paired
  <2>3. CASE "other" \in BootMountpoints /\ RootOnly(n)
    BY <2>3, PairDatasets DEF RootOnly
  <2> QED
    BY <2>1, <2>2, <2>3 DEF Settled
<1> QED
  BY <1>1, MountInvariant, PTL

\* And no environment keeps the /tmp mountpoint that temp_mount_be gave it.
THEOREM NeverLeftoverMountpoint ==
  ASSUME OneShell, Calm
  PROVE  Spec => []NoLeftoverMountpoint
<1>1. MountInv => NoLeftoverMountpoint
  BY DEF MountInv, Still, NoLeftoverMountpoint
<1> QED
  BY <1>1, MountInvariant, PTL

(***************************************************************************)
(* Snapshots and origins.                                                  *)
(***************************************************************************)
\* The elements of a concatenation.
LEMMA ConcatElements ==
  ASSUME NEW S, NEW a \in Seq(S), NEW z \in Seq(S)
  PROVE  /\ Len(a) \in Nat /\ Len(z) \in Nat /\ Len(a \o z) = Len(a) + Len(z)
         /\ \A i \in 1 .. Len(a) : (a \o z)[i] = a[i]
         /\ \A i \in 1 .. Len(z) : (a \o z)[Len(a) + i] = z[i]
<1>1. Len(a) \in Nat /\ Len(z) \in Nat /\ Len(a \o z) = Len(a) + Len(z)
  OBVIOUS
<1>2. \A i \in 1 .. Len(a) : (a \o z)[i] = a[i]
  BY <1>1
<1>3. \A i \in 1 .. Len(z) : (a \o z)[Len(a) + i] = z[i]
  <2> SUFFICES ASSUME NEW i \in 1 .. Len(z) PROVE (a \o z)[Len(a) + i] = z[i]
    OBVIOUS
  <2>1. Len(a) + i \in 1 .. Len(a) + Len(z) /\ Len(a) + i > Len(a) /\ Len(a) + i - Len(a) = i
    BY <1>1
  <2> QED
    BY <1>1, <2>1
<1> QED
  BY <1>1, <1>2, <1>3

\* What is left of a sequence without its k-th element.
LEMMA WithoutElement ==
  ASSUME NEW S, NEW q \in Seq(S), NEW k \in 1 .. Len(q)
  PROVE  LET w == SubSeq(q, 1, k - 1) \o SubSeq(q, k + 1, Len(q)) IN
         /\ \A i \in 1 .. Len(q) : i # k => \E j \in 1 .. Len(w) : w[j] = q[i]
         /\ \A j \in 1 .. Len(w) : \E i \in 1 .. Len(q) : w[j] = q[i]
<1> DEFINE a == SubSeq(q, 1, k - 1)
           z == SubSeq(q, k + 1, Len(q))
<1>1. Len(q) \in Nat /\ k \in Nat /\ k <= Len(q) /\ 1 <= k
  OBVIOUS
<1>2. /\ a \in Seq(S) /\ Len(a) = k - 1
      /\ \A j \in 1 .. k - 1 : a[j] = q[j]
  BY <1>1
<1>3. /\ z \in Seq(S) /\ Len(z) = Len(q) - k
      /\ \A j \in 1 .. Len(q) - k : z[j] = q[k + j]
  BY <1>1
<1> HIDE DEF a, z
<1>4. /\ Len(a \o z) = Len(a) + Len(z)
      /\ \A i \in 1 .. Len(a) : (a \o z)[i] = a[i]
      /\ \A i \in 1 .. Len(z) : (a \o z)[Len(a) + i] = z[i]
  <2>1. a \in Seq(S) /\ z \in Seq(S)
    BY <1>2, <1>3
  <2>2. Len(a \o z) = Len(a) + Len(z) /\ \A i \in 1 .. Len(a) : (a \o z)[i] = a[i]
    BY <2>1, ConcatElements, Zenon
  <2>3. \A i \in 1 .. Len(z) : (a \o z)[Len(a) + i] = z[i]
    BY ONLY <2>1, ConcatElements
  <2> QED
    BY <2>2, <2>3
<1>5. PICK w : w = a \o z
  OBVIOUS
<1>6. /\ Len(w) = Len(q) - 1 /\ Len(w) \in Nat
      /\ \A i \in 1 .. k - 1 : w[i] = q[i]
      /\ \A i \in 1 .. Len(q) - k : w[k - 1 + i] = q[k + i]
  <2>1. Len(w) = Len(a) + Len(z)
    BY <1>4, <1>5
  <2>2. Len(w) = (k - 1) + (Len(q) - k)
    BY <1>2, <1>3, <2>1
  <2>3. Len(w) = Len(q) - 1 /\ Len(w) \in Nat
    BY ONLY <1>1, <2>2
  <2> QED
    BY <1>2, <1>3, <1>4, <1>5, <2>3
<1>7. /\ \A i \in 1 .. Len(q) : i # k => \E j \in 1 .. Len(w) : w[j] = q[i]
      /\ \A j \in 1 .. Len(w) : \E i \in 1 .. Len(q) : w[j] = q[i]
  <2>1. PICK n, m : n = Len(q) /\ m = Len(w)
    OBVIOUS
  <2>2. /\ n \in Nat /\ m \in Nat /\ k \in 1 .. n /\ m = n - 1
        /\ \A i \in 1 .. k - 1 : w[i] = q[i]
        /\ \A i \in 1 .. n - k : w[k - 1 + i] = q[k + i]
    BY <1>1, <1>6, <2>1
  <2>3. ASSUME NEW i \in 1 .. n, i # k
        PROVE  \E j \in 1 .. m : w[j] = q[i]
    <3>1. PICK x : x = i - k
      OBVIOUS
    <3>2. IF i < k THEN i \in 1 .. k - 1 /\ i \in 1 .. m
          ELSE x \in 1 .. n - k /\ k - 1 + x \in 1 .. m /\ k + x = i
      BY <2>2, <2>3, <3>1
    <3> QED
      BY <2>2, <3>2
  <2>4. ASSUME NEW j \in 1 .. m
        PROVE  \E i \in 1 .. n : w[j] = q[i]
    <3>1. PICK x : x = j - (k - 1)
      OBVIOUS
    <3>2. IF j <= k - 1 THEN j \in 1 .. k - 1 /\ j \in 1 .. n
          ELSE x \in 1 .. n - k /\ k + x \in 1 .. n /\ k - 1 + x = j
      BY <2>2, <3>1
    <3> QED
      BY <2>2, <3>2
  <2> QED
    BY <2>1, <2>3, <2>4
<1> QED
  BY <1>5, <1>7 DEF a, z

\* zfs_snapshot adds a snapshot.
LEMMA SnapshotSnaps ==
  ASSUME ZfsTypeOK, UniqueNames, NEW d, NEW s \in Suffixes, CanSnapshot(d, s), Snapshot(d, s)
  PROVE  /\ s \in SnapsOf(d)'
         /\ \A e \in Datasets : SnapsOf(e) \subseteq SnapsOf(e)'
<1>1. d \in Datasets /\ snaps[d] \in Seq(Suffixes) /\ snaps'[d] = Append(snaps[d], s)
  BY DEF ZfsTypeOK, CanSnapshot, Snapshot
<1>2. \A e \in Datasets \ {d} : snaps'[e] = snaps[e]
  BY DEF ZfsTypeOK, Snapshot
<1>3. /\ Len(snaps'[d]) = Len(snaps[d]) + 1 /\ Len(snaps[d]) \in Nat
      /\ \A i \in 1 .. Len(snaps[d]) : snaps'[d][i] = snaps[d][i] /\ i \in 1 .. Len(snaps'[d])
  BY <1>1
<1>4. SnapsOf(d) \subseteq SnapsOf(d)'
  BY <1>3 DEF SnapsOf
<1> QED
  <2>1. s \in SnapsOf(d)'
    BY SnapshotNames
  <2>2. \A e \in Datasets \ {d} : SnapsOf(e)' = SnapsOf(e)
    BY <1>2 DEF SnapsOf
  <2> QED
    BY <1>4, <2>1, <2>2

\* zfs_destroy of a snapshot takes that one and no other.
LEMMA DestroySnapSnaps ==
  ASSUME ZfsTypeOK, UniqueNames, NEW d, NEW s, CanDestroySnap(d, s), DestroySnap(d, s)
  PROVE  /\ SnapsOf(d)' = SnapsOf(d) \ {s}
         /\ \A e \in Datasets \ {d} : SnapsOf(e)' = SnapsOf(e)
<1> DEFINE k == Position(d, s)
<1>1. d \in Datasets /\ snaps[d] \in Seq(Suffixes)
  BY DEF ZfsTypeOK, CanDestroySnap
<1>2. k \in 1 .. Len(snaps[d]) /\ snaps[d][k] = s
  BY <1>1, PositionFact DEF CanDestroySnap
<1>3. snaps'[d] = SubSeq(snaps[d], 1, k - 1) \o SubSeq(snaps[d], k + 1, Len(snaps[d]))
  BY <1>1 DEF DestroySnap, ZfsTypeOK
<1> HIDE DEF k
<1>4. PICK w : w = snaps'[d]
  OBVIOUS
<1>5. /\ \A i \in 1 .. Len(snaps[d]) : i # k => \E j \in 1 .. Len(w) : w[j] = snaps[d][i]
      /\ \A j \in 1 .. Len(w) : \E i \in 1 .. Len(snaps[d]) : w[j] = snaps[d][i]
  <2> DEFINE q == snaps[d]
  <2>1. q \in Seq(Suffixes) /\ k \in 1 .. Len(q)
    BY <1>1, <1>2
  <2>2. w = SubSeq(q, 1, k - 1) \o SubSeq(q, k + 1, Len(q))
    BY <1>3, <1>4
  <2> HIDE DEF q
  <2>3. LET v == SubSeq(q, 1, k - 1) \o SubSeq(q, k + 1, Len(q)) IN
        /\ \A i \in 1 .. Len(q) : i # k => \E j \in 1 .. Len(v) : v[j] = q[i]
        /\ \A j \in 1 .. Len(v) : \E i \in 1 .. Len(q) : v[j] = q[i]
    BY <2>1, WithoutElement
  <2> QED
    BY <2>2, <2>3 DEF q
<1>6. SnapsOf(d)' = {w[j] : j \in 1 .. Len(w)}
  BY <1>4 DEF SnapsOf
<1>7. SnapsOf(d)' \subseteq SnapsOf(d)
  BY <1>5, <1>6 DEF SnapsOf
<1>8. ASSUME NEW x \in SnapsOf(d), x # s
      PROVE  x \in SnapsOf(d)'
  <2>1. PICK i \in 1 .. Len(snaps[d]) : snaps[d][i] = x
    BY <1>8 DEF SnapsOf
  <2>2. i # k
    BY <1>2, <1>8, <2>1
  <2> QED
    BY <1>5, <1>6, <2>1, <2>2
<1> QED
  BY <1>7, <1>8, DestroySnapNames
\* A snapshot is no NoSnap.
LEMMA SnapIsSome == ASSUME NEW d \in Datasets, NEW s \in Suffixes PROVE <<d, s>> # NoSnap
BY ZfsAssumption DEF Datasets, Pools

\* The snapshots that exist are suffixes.
LEMMA SnapsType == ASSUME ZfsTypeOK, NEW d \in Datasets PROVE SnapsOf(d) \subseteq Suffixes
BY PositionFact

\* Origins stay in order where they stay and the snapshots they name do.
LEMMA SameOrigins ==
  ASSUME OriginsOK, UNCHANGED <<fs, origin>>,
         \A e \in Datasets, s \in Suffixes :
           s \in SnapsOf(e) /\ ~NoClones(<<e, s>>) => s \in SnapsOf(e)'
  PROVE  OriginsOK'
BY DEF OriginsOK, NoClones

\* zfs_snapshot makes a snapshot without clones.
LEMMA SnapshotOrigins ==
  ASSUME ZfsTypeOK, UniqueNames, OriginsOK, NEW d, NEW s \in Suffixes, CanSnapshot(d, s), Snapshot(d, s)
  PROVE  /\ OriginsOK'
         /\ s \in SnapsOf(d)' /\ NoClones(<<d, s>>)'
         /\ \A e \in Datasets : SnapsOf(e) \subseteq SnapsOf(e)'
<1>1. /\ s \in SnapsOf(d)'
      /\ \A e \in Datasets : SnapsOf(e) \subseteq SnapsOf(e)'
  BY SnapshotSnaps
<1>2. UNCHANGED <<fs, origin>> /\ d \in Datasets /\ s \notin SnapsOf(d)
  BY DEF Snapshot, CanSnapshot, ZfsTypeOK
<1>3. OriginsOK'
  BY <1>1, <1>2, SameOrigins
<1>4. NoClones(<<d, s>>)'
  BY <1>2 DEF OriginsOK, NoClones
<1> QED
  BY <1>1, <1>3, <1>4

\* zfs_destroy of a snapshot: it has no clones.
LEMMA DestroySnapOrigins ==
  ASSUME ZfsTypeOK, UniqueNames, OriginsOK, NEW d, NEW s, CanDestroySnap(d, s), DestroySnap(d, s)
  PROVE  /\ OriginsOK' /\ UNCHANGED <<fs, origin, mounted, bootfs>>
         /\ SnapsOf(d)' = SnapsOf(d) \ {s}
<1>1. /\ SnapsOf(d)' = SnapsOf(d) \ {s}
      /\ \A e \in Datasets \ {d} : SnapsOf(e)' = SnapsOf(e)
  BY DestroySnapSnaps
<1>2. UNCHANGED <<fs, origin, mounted, bootfs>> /\ d \in Datasets /\ s \in Suffixes
  BY SnapsType DEF DestroySnap, CanDestroySnap, ZfsTypeOK
<1>3. NoClones(<<d, s>>)
  BY <1>2, SnapIsSome DEF CanDestroySnap, Clones, NoClones, OriginsOK
<1>4. OriginsOK'
  BY <1>1, <1>2, <1>3, SameOrigins
<1> QED
  BY <1>1, <1>2, <1>4

\* zfs_clone of a snapshot without clones in the same pool.
LEMMA CloneOrigins ==
  ASSUME ZfsTypeOK, OriginsOK, NEW d \in Datasets, NEW e, NEW s,
         CanClone(d, e, s), Clone(d, e, s), NoClones(<<e, s>>), d[1] = e[1]
  PROVE  /\ OriginsOK'
         /\ fs' = fs \cup {d} /\ UNCHANGED <<snaps, mounted, bootfs>>
         /\ origin'[d] = <<e, s>> /\ \A x \in Datasets \ {d} : origin'[x] = origin[x]
<1>1. /\ fs' = fs \cup {d} /\ UNCHANGED <<snaps, mounted, bootfs>>
      /\ origin'[d] = <<e, s>> /\ \A x \in Datasets \ {d} : origin'[x] = origin[x]
  BY DEF Clone, ZfsTypeOK
<1>2. d \notin fs /\ e \in fs /\ s \in SnapsOf(e) /\ e \in Datasets /\ s \in Suffixes
  BY SnapsType DEF CanClone, ZfsTypeOK
<1>3. \A x : SnapsOf(x)' = SnapsOf(x)
  BY <1>1 DEF SnapsOf
<1>4. \A x \in Datasets \ fs' : origin'[x] = NoSnap
  BY <1>1 DEF OriginsOK
<1>5. ASSUME NEW x \in Datasets, NEW y \in Datasets, NEW t \in Suffixes, origin'[x] = <<y, t>>
      PROVE  /\ y \in fs' \ {x} /\ y[1] = x[1]
             /\ t \in SnapsOf(y)'
             /\ \A z \in Datasets \ {x} : origin'[z] # <<y, t>>
  <2>1. CASE x = d
    <3>1. y = e /\ t = s
      BY <1>1, <1>5, <2>1
    <3> QED
      BY <1>1, <1>2, <1>3, <2>1, <3>1 DEF NoClones
  <2>2. CASE x # d
    <3>1. origin[x] = <<y, t>>
      BY <1>1, <1>5, <2>2
    <3>2. <<y, t>> # <<e, s>>
      BY <3>1 DEF NoClones
    <3> QED
      BY <1>1, <1>3, <3>1, <3>2 DEF OriginsOK
  <2> QED
    BY <2>1, <2>2
<1> QED
  BY <1>1, <1>4, <1>5 DEF OriginsOK

\* zfs_destroy of a file system: it has no snapshots, so no clones.
LEMMA DestroyFsOrigins ==
  ASSUME ZfsTypeOK, OriginsOK, NEW d, CanDestroyFs(d), DestroyFs(d)
  PROVE  /\ OriginsOK'
         /\ fs' = fs \ {d} /\ UNCHANGED <<snaps, mounted>>
         /\ origin'[d] = NoSnap /\ \A x \in Datasets \ {d} : origin'[x] = origin[x]
         /\ \A e \in Datasets, s \in Suffixes :
              origin[d] = <<e, s>> => e \in fs' /\ s \in SnapsOf(e)' /\ NoClones(<<e, s>>)'
<1>1. /\ d \in Datasets /\ SnapsOf(d) = {}
      /\ fs' = fs \ {d} /\ UNCHANGED <<snaps, mounted>>
      /\ origin'[d] = NoSnap /\ \A x \in Datasets \ {d} : origin'[x] = origin[x]
  <2>1. \A i \in 1 .. 0 : FALSE
    OBVIOUS
  <2>2. SnapsOf(d) = {}
    BY <2>1 DEF CanDestroyFs, SnapsOf
  <2> QED
    BY <2>2 DEF CanDestroyFs, DestroyFs, ZfsTypeOK
<1>2. \A x : SnapsOf(x)' = SnapsOf(x)
  BY <1>1 DEF SnapsOf
<1>3. OriginsOK'
  <2>1. \A x \in Datasets \ fs' : origin'[x] = NoSnap
    BY <1>1 DEF OriginsOK
  <2>2. ASSUME NEW x \in Datasets, NEW y \in Datasets, NEW s \in Suffixes, origin'[x] = <<y, s>>
        PROVE  /\ y \in fs' \ {x} /\ y[1] = x[1]
               /\ s \in SnapsOf(y)'
               /\ \A z \in Datasets \ {x} : origin'[z] # <<y, s>>
    <3>1. x # d /\ origin[x] = <<y, s>>
      BY <1>1, <2>2, SnapIsSome
    <3>2. /\ y \in fs \ {x} /\ y[1] = x[1] /\ s \in SnapsOf(y)
          /\ \A z \in Datasets \ {x} : origin[z] # <<y, s>>
      BY <3>1 DEF OriginsOK
    <3> QED
      BY <1>1, <1>2, <2>2, <3>2, SnapIsSome
  <2> QED
    BY <2>1, <2>2 DEF OriginsOK
<1>4. ASSUME NEW e \in Datasets, NEW s \in Suffixes, origin[d] = <<e, s>>
      PROVE  e \in fs' /\ s \in SnapsOf(e)' /\ NoClones(<<e, s>>)'
  <2>1. /\ e \in fs \ {d} /\ s \in SnapsOf(e)
        /\ \A z \in Datasets \ {d} : origin[z] # <<e, s>>
    BY <1>1, <1>4 DEF OriginsOK
  <2>2. NoClones(<<e, s>>)'
    BY <1>1, <2>1, SnapIsSome DEF NoClones
  <2> QED
    BY <1>1, <1>2, <2>1, <2>2
<1> QED
  BY <1>1, <1>3, <1>4

\* Exchanging two.
LEMMA SwapFacts ==
  ASSUME NEW t, NEW u, t # u
  PROVE  /\ Swap(t, u, t) = u /\ Swap(t, u, u) = t
         /\ \A x : x # t /\ x # u => Swap(t, u, x) = x
         /\ \A x : Swap(t, u, Swap(t, u, x)) = x
         /\ \A x, y : Swap(t, u, x) = Swap(t, u, y) => x = y
         /\ \A x : Swap(t, u, x) \in {t, u, x}
BY DEF Swap

\* zfs_rename exchanges a name that is in use and one that is not.
LEMMA RenameOrigins ==
  ASSUME ZfsTypeOK, OriginsOK, NEW d \in Datasets, NEW e \in Datasets, d[1] = e[1],
         CanRename(d, e), Rename(d, e)
  PROVE  /\ OriginsOK'
         /\ \A x \in Datasets : x \in fs' <=> Swap(d, e, x) \in fs
         /\ \A x, y \in Datasets, s \in Suffixes :
              origin'[x] = <<y, s>> <=> origin[Swap(d, e, x)] = <<Swap(d, e, y), s>>
<1>1. /\ d \in fs /\ e \notin fs /\ d # e /\ fs \subseteq Datasets
      /\ fs' = (fs \ {d}) \cup {e}
  BY DEF CanRename, Rename, Renamed, ZfsTypeOK
<1>2. \A x \in Datasets : x \in fs' <=> Swap(d, e, x) \in fs
  BY <1>1, SwapFacts
<1>3. \A x \in Datasets : Swap(d, e, x) \in Datasets
  BY <1>1, SwapFacts
<1>4. ASSUME NEW x \in Datasets
      PROVE  LET o == origin[Swap(d, e, x)] IN
             origin'[x] = IF o # NoSnap /\ o[1] = d THEN <<e, o[2]>> ELSE o
  <2>1. origin[e] = NoSnap
    BY <1>1 DEF OriginsOK
  <2>2. origin'[x] = LET o == IF x = e THEN origin[d] ELSE IF x = d THEN NoSnap ELSE origin[x]
                     IN  IF o # NoSnap /\ o[1] = d THEN <<e, o[2]>> ELSE o
    BY DEF Rename
  <2>3. origin[Swap(d, e, x)] = IF x = e THEN origin[d] ELSE IF x = d THEN NoSnap ELSE origin[x]
    BY <1>1, <2>1, SwapFacts
  <2> QED
    BY <2>2, <2>3
<1>5. ASSUME NEW x \in Datasets, NEW y \in Datasets, NEW s \in Suffixes
      PROVE  origin'[x] = <<y, s>> <=> origin[Swap(d, e, x)] = <<Swap(d, e, y), s>>
  <2>1. PICK o : o = origin[Swap(d, e, x)]
    OBVIOUS
  <2>2. origin'[x] = IF o # NoSnap /\ o[1] = d THEN <<e, o[2]>> ELSE o
    BY <1>4, <2>1
  <2>3. o = NoSnap \/ \E z \in Datasets, t \in Suffixes : o = <<z, t>> /\ z # e
    BY <1>1, <1>3, <2>1 DEF ZfsTypeOK, Snapshots, OriginsOK
  <2>4. CASE o = NoSnap
    BY <1>3, <2>1, <2>2, <2>4, SnapIsSome
  <2>5. ASSUME NEW z \in Datasets, NEW t \in Suffixes, o = <<z, t>>, z # e
        PROVE  origin'[x] = <<y, s>> <=> o = <<Swap(d, e, y), s>>
    <3>1. o # NoSnap /\ o[1] = z /\ o[2] = t
      BY <2>5, SnapIsSome
    <3>2. origin'[x] = <<Swap(d, e, z), t>>
      BY <1>1, <2>2, <2>5, <3>1, SwapFacts
    <3>3. Swap(d, e, z) = y <=> z = Swap(d, e, y)
      BY <1>1, SwapFacts
    <3> QED
      BY <2>5, <3>2, <3>3
  <2> QED
    BY <2>1, <2>3, <2>4, <2>5
<1>6. \A y \in Datasets \ {d} : SnapsOf(y)' = SnapsOf(Swap(d, e, y))
  <2>1. \A y \in Datasets \ {d} : snaps'[y] = snaps[Swap(d, e, y)]
    <3>1. \A y \in Datasets : snaps'[y] = IF y = d THEN << >> ELSE IF y = e THEN snaps[d] ELSE snaps[y]
      BY <1>1 DEF Rename, ZfsTypeOK
    <3>2. Swap(d, e, e) = d /\ \A y : y # d /\ y # e => Swap(d, e, y) = y
      BY <1>1 DEF Swap
    <3> QED
      BY <1>1, <3>1, <3>2
  <2> QED
    BY <2>1 DEF SnapsOf
<1>7. ASSUME NEW x \in Datasets \ fs'
      PROVE  origin'[x] = NoSnap
  <2>1. origin[Swap(d, e, x)] = NoSnap
    BY <1>2, <1>3 DEF OriginsOK
  <2> QED
    BY <1>4, <2>1
<1>8. ASSUME NEW x \in Datasets, NEW y \in Datasets, NEW s \in Suffixes, origin'[x] = <<y, s>>
      PROVE  /\ y \in fs' \ {x} /\ y[1] = x[1]
             /\ s \in SnapsOf(y)'
             /\ \A z \in Datasets \ {x} : origin'[z] # <<y, s>>
  <2>1. PICK v \in Datasets, w \in Datasets : v = Swap(d, e, x) /\ w = Swap(d, e, y)
    BY <1>3
  <2>2. origin[v] = <<w, s>>
    BY <1>5, <1>8, <2>1
  <2>3. /\ w \in fs \ {v} /\ w[1] = v[1] /\ s \in SnapsOf(w)
        /\ \A z \in Datasets \ {v} : origin[z] # <<w, s>>
    BY <2>2 DEF OriginsOK
  <2>4. y \in fs' /\ y # d
    BY <1>1, <1>2, <2>1, <2>3, SwapFacts
  <2>5. y # x
    BY <2>1, <2>3
  <2>6. y[1] = x[1]
    BY <1>1, <2>1, <2>3, SwapFacts
  <2>7. s \in SnapsOf(y)'
    BY <1>6, <2>1, <2>3, <2>4
  <2>8. ASSUME NEW z \in Datasets \ {x}
        PROVE  origin'[z] # <<y, s>>
    <3>1. Swap(d, e, z) \in Datasets \ {v}
      BY <1>1, <1>3, <2>1, SwapFacts
    <3> QED
      BY <1>5, <2>1, <2>3, <3>1
  <2> QED
    BY <2>4, <2>5, <2>6, <2>7, <2>8
<1> QED
  BY <1>2, <1>5, <1>7, <1>8 DEF OriginsOK

(***************************************************************************)
(* Pairs, until the running and the activated environment are different.   *)
(***************************************************************************)
AllAlike == \A n \in Names : Alike(n)

\* The labels at which all pairs are alike and nothing else is to be known but
\* what activate knows.
PlainLabels ==
  Labels \ {"create_snap_boot", "create_again", "clone_root", "clone_boot",
            "destroy_check", "destroy_snaps", "destroy_fs", "destroy_origin",
            "rename_root", "rename_boot", "promote_root", "promote_boot", "post_activate"}

\* The labels between activate's check and its change of bootfs.
BeforeSet == HookLabels \cup {"cleanup_unmount", "cleanup_reset", "set_bootfs"}

\* The process state at such a label.
PlainState(st) ==
  /\ st.pool # "boot"
  /\ st.cmd.op \in {"activate", "create"} /\ st.pc # "validate" => st.act = bootfs
  /\ st.pc \in BeforeSet /\ st.cmd.op = "activate" => st.cmd.be # bootfs

\* What is known before a step of p that leaves the running environment the
\* activated one.
Together(p) ==
  /\ Calm /\ SingleInv /\ MountInv
  /\ BootPool /\ running = bootfs /\ OriginsOK /\ PairAt(proc[p])
  /\ UNCHANGED <<running, bootfs>>

\* The invariant at a plain label, before a step and after it.
LEMMA PlainAt ==
  ASSUME NEW st, st.pc \in PlainLabels
  PROVE  /\ PairAt(st) <=> AllAlike /\ PlainState(st)
         /\ PairAt(st)' <=> AllAlike' /\ PlainState(st)'
BY DEF PlainLabels, PlainState, AllAlike, BeforeSet, PairAt, Mirrored, ActivatesAt, CreatesAt,
       DestroysAt, RenamesAt, HalfCreated, RootDestroyed, HalfRenamed

\* The labels, one by one.
LEMMA PlainLabelFacts ==
  /\ {"idle", "validate", "activate", "set_bootfs", "cleanup_unmount", "cleanup_reset",
      "tmp_mountpoint", "tmp_mount", "hook", "tmp_unmount", "tmp_reset",
      "create", "create_snap", "post_create", "destroy", "post_destroy", "destroy_snapshot",
      "dsnap_root", "dsnap_boot", "rename", "post_rename", "mount", "mount_root", "mount_boot",
      "unmount", "unmount_boot", "unmount_root", "snapshot", "pre_snapshot", "snap_root",
      "snap_boot"} \subseteq PlainLabels
  /\ PlainLabels \subseteq Labels
  /\ BeforeSet = {"tmp_mountpoint", "tmp_mount", "hook", "tmp_unmount", "tmp_reset",
                  "cleanup_unmount", "cleanup_reset", "set_bootfs"}
  /\ "idle" \in PlainLabels
BY DEF PlainLabels, Labels, BeforeSet, HookLabels

\* What leaves datasets and origins leaves pairs alike.
LEMMA SameAlike == ASSUME UNCHANGED <<fs, origin>> PROVE AllAlike' <=> AllAlike
BY DEF AllAlike, Alike

\* A process that returns.
LEMMA PairReturn ==
  ASSUME SingleInv, NEW p \in Procs, NEW r, Return(p, r), AllAlike'
  PROVE  PairAt(proc[p])'
<1>1. PICK st : st = proc'[p]
  OBVIOUS
<1>2. st = Idle(r)
  BY <1>1 DEF Return, SingleInv, RunningInv, TypeOK
<1>3. st.pc = "idle" /\ st.pool = "root" /\ st.cmd.op = "none"
  BY <1>2 DEF Idle, NoCommand
<1>4. PlainState(st)'
  BY <1>3, PlainLabelFacts DEF PlainState
<1>5. PairAt(st)'
  BY <1>3, <1>4, PlainAt, PlainLabelFacts
<1> QED
  BY <1>1, <1>5

\* A process that moves from one plain label to another.
LEMMA PairMove ==
  ASSUME NEW p \in Procs, Together(p), proc[p].pc \in PlainLabels, AllAlike',
         NEW st, proc'[p] = st, st.pc \in PlainLabels,
         st.cmd = proc[p].cmd, st.act = proc[p].act, st.pool = proc[p].pool,
         st.pc \in BeforeSet /\ st.cmd.op = "activate"
           => proc[p].pc \in BeforeSet \/ st.cmd.be # bootfs
  PROVE  PairAt(proc[p])'
<1>1. PlainState(proc[p]) /\ bootfs' = bootfs
  BY PlainAt DEF Together
<1>2. proc[p].pc = "validate" => proc[p].act = bootfs
  BY SoloFacts DEF Together, Standing
<1>3. PlainState(st)'
  BY <1>1, <1>2 DEF PlainState
<1>4. PairAt(st)'
  BY <1>3, PlainAt
<1> QED
  BY <1>4

\* A step from a plain label that leaves datasets and origins, and returns or
\* goes to another one.
LEMMA PairQuiet ==
  ASSUME NEW p \in Procs, Together(p), proc[p].pc \in PlainLabels, UNCHANGED <<fs, origin>>,
         \/ \E r : Return(p, r)
         \/ \E l \in PlainLabels : Goto(p, l) /\ (l \in BeforeSet => proc[p].pc \in BeforeSet)
         \/ \E l \in BeforeSet : Goto(p, l) /\ proc[p].cmd.be # bootfs
         \/ \E l \in PlainLabels : Goto(p, l) /\ proc[p].cmd.op # "activate"
  PROVE  PairAt(proc[p])'
<1>1. AllAlike'
  BY PlainAt, SameAlike DEF Together
<1>2. ASSUME NEW r, Return(p, r)
      PROVE  PairAt(proc[p])'
  BY <1>1, <1>2, PairReturn DEF Together
<1>3. ASSUME NEW l \in PlainLabels, Goto(p, l),
             l \in BeforeSet => \/ proc[p].pc \in BeforeSet
                                \/ proc[p].cmd.be # bootfs
                                \/ proc[p].cmd.op # "activate"
      PROVE  PairAt(proc[p])'
  <2>1. PICK st : st = [proc[p] EXCEPT !.pc = l]
    OBVIOUS
  <2>2. /\ proc'[p] = st /\ st.pc = l
        /\ st.cmd = proc[p].cmd /\ st.act = proc[p].act /\ st.pool = proc[p].pool
    BY <1>3, <2>1, ProcFacts DEF Goto, Together, SingleInv, RunningInv, TypeOK, ProcState
  <2> QED
    BY <1>1, <1>3, <2>2, PairMove
<1> QED
  BY <1>2, <1>3, PlainLabelFacts

\* The pool's snapshots, where none is destroyed.
LEMMA QuietOrigins ==
  ASSUME SingleInv, OriginsOK, UNCHANGED <<fs, snaps, origin>> PROVE OriginsOK'
BY DEF OriginsOK, SnapsOf

\* The start of a command.
LEMMA StartPairs ==
  ASSUME NEW p \in Procs, Together(p), LibzeInit(p) \/ ValidateSystem(p)
  PROVE  OriginsOK' /\ PairAt(proc[p])'
<1>1. UNCHANGED <<fs, snaps, origin>>
  BY DEF LibzeInit, ValidateSystem, Check, Call, zfsVars
<1>2. proc[p].pc \in {"idle", "validate"}
  BY DEF LibzeInit, ValidateSystem, At
<1>3. OriginsOK'
  BY <1>1, QuietOrigins DEF Together
<1>4. ASSUME NEW c, proc' = [proc EXCEPT ![p] = [Idle("ok") EXCEPT !.pc = "validate",
                                                                  !.cmd = c, !.act = bootfs]]
      PROVE  PairAt(proc[p])'
  <2>1. PICK st : st = proc'[p]
    OBVIOUS
  <2>2. st.pc = "validate" /\ st.pool = "root"
    BY <1>4, <2>1 DEF Together, SingleInv, RunningInv, TypeOK, Idle
  <2>3. AllAlike' /\ PlainState(st)'
    BY <1>1, <1>2, <2>2, PlainAt, PlainLabelFacts, SameAlike DEF Together, PlainState
  <2>4. PairAt(st)'
    BY <2>2, <2>3, PlainAt, PlainLabelFacts
  <2> QED
    BY <2>1, <2>4
<1>5. ValidateSystem(p) => proc[p].cmd.op \in PlainLabels \ BeforeSet
  BY ProcFacts, CommandFields, PlainLabelFacts DEF ValidateSystem, At, Together, SingleInv
<1>6. \/ \E r : Return(p, r)
      \/ \E c : proc' = [proc EXCEPT ![p] = [Idle("ok") EXCEPT !.pc = "validate",
                                                               !.cmd = c, !.act = bootfs]]
      \/ \E l \in PlainLabels \ BeforeSet : Goto(p, l)
  BY <1>5 DEF LibzeInit, ValidateSystem, Check, Call
<1> QED
  BY <1>1, <1>2, <1>3, <1>4, <1>6, PairQuiet, PlainLabelFacts

\* The temporary mount around a hook.
LEMMA TempMountPairs ==
  ASSUME NEW p \in Procs, Together(p), TempMountStep(p)
  PROVE  OriginsOK' /\ PairAt(proc[p])'
<1>1. UNCHANGED <<fs, snaps, origin>>
  BY DEF TempMountStep, TempMountpoint, TempMount, MountedHook, TempUnmountAfterHook,
         TempResetAfterHook, TempUnmountOnError, TempResetOnError, TempUnmount, TempReset,
         Hook, Check, Call, SetMountpoint, Mount, Unmount, zfsVars
<1>2. proc[p].pc \in BeforeSet
  BY PlainLabelFacts
     DEF TempMountStep, TempMountpoint, TempMount, MountedHook, TempUnmountAfterHook,
         TempResetAfterHook, TempUnmountOnError, TempResetOnError, TempUnmount, TempReset, At
<1>3. (\E r : Return(p, r)) \/ \E l \in BeforeSet : Goto(p, l)
  BY PlainLabelFacts
     DEF TempMountStep, TempMountpoint, TempMount, MountedHook, TempUnmountAfterHook,
         TempResetAfterHook, TempUnmountOnError, TempResetOnError, TempUnmount, TempReset,
         Hook, Check, Call, HookDone, HookFailed
<1>4. BeforeSet \subseteq PlainLabels
  BY PlainLabelFacts
<1> QED
  BY <1>1, <1>2, <1>3, <1>4, PairQuiet, QuietOrigins DEF Together

\* activate sets bootfs to another environment than the one that runs, so it is
\* together no more; no promotion is reached before.
LEMMA ActivatePairs ==
  ASSUME NEW p \in Procs, Together(p), ActivateStep(p)
  PROVE  OriginsOK' /\ PairAt(proc[p])'
<1>1. proc[p].pc \in {"activate", "set_bootfs"}
  BY DEF Together, PairAt, ActivatesAt, ActivateStep, Activate, ActivateSetBootfs,
         ActivatePromote, ActivatePromoteBoot, PostActivate, At
<1>2. PlainState(proc[p]) /\ proc[p].cmd.op = "activate" /\ proc[p].act = bootfs
  <2>1. proc[p].cmd.op = "activate"
    BY <1>1, SoloFacts DEF Together, Belongs
  <2> QED
    BY <1>1, <2>1, PlainAt, PlainLabelFacts DEF Together, PlainState
<1>3. Activate(p) \/ ActivateSetBootfs(p)
  BY <1>1 DEF ActivateStep, ActivatePromote, ActivatePromoteBoot, PostActivate, At
<1>4. CASE Activate(p)
  <2>1. UNCHANGED <<fs, snaps, origin>> /\ proc[p].pc = "activate"
    BY <1>4 DEF Activate, Check, Call, zfsVars, At
  <2>2. \/ Return(p, "fail")
        \/ proc[p].cmd.be # bootfs /\ \E l \in BeforeSet : Goto(p, l)
    BY <1>2, <1>4, PlainLabelFacts DEF Activate, Check, Call, Works, IsActive, TempMountAndHook
  <2> QED
    BY <2>1, <2>2, PairQuiet, PlainLabelFacts, QuietOrigins DEF Together
<1>5. CASE ActivateSetBootfs(p)
  <2>1. proc[p].cmd.be # bootfs /\ proc[p].pc = "set_bootfs"
    BY <1>2, <1>5, PlainLabelFacts DEF PlainState, ActivateSetBootfs, At
  <2>2. UNCHANGED zfsVars /\ Return(p, "fail")
    BY <1>5, <2>1 DEF ActivateSetBootfs, Call, SetBootfs, Together
  <2> QED
    BY <2>1, <2>2, PairQuiet, PlainLabelFacts, QuietOrigins DEF Together, zfsVars
<1> QED
  BY <1>3, <1>4, <1>5

\* Mounts, and the snapshots a user asks for.
LEMMA MountSnapshotPairs ==
  ASSUME NEW p \in Procs, Together(p), MountStep(p) \/ SnapshotStep(p)
  PROVE  OriginsOK' /\ PairAt(proc[p])'
<1>1. proc[p].pc \in PlainLabels
  BY PlainLabelFacts
     DEF MountStep, MountBE, MountRoot, MountBoot, UnmountBE, UnmountBoot, UnmountRoot,
         SnapshotStep, SnapshotBE, PreSnapshot, SnapshotRoot, SnapshotBoot, At
<1>2. (\E r : Return(p, r)) \/ \E l \in PlainLabels \ BeforeSet : Goto(p, l)
  BY PlainLabelFacts
     DEF MountStep, MountBE, MountRoot, MountBoot, UnmountBE, UnmountBoot, UnmountRoot,
         SnapshotStep, SnapshotBE, PreSnapshot, SnapshotRoot, SnapshotBoot, MountDone,
         UnmountDone, UnmountCallback, Hook, Check, Call
<1>3. \/ UNCHANGED <<fs, snaps, origin>>
      \/ \E d, s : CanSnapshot(d, s) /\ Snapshot(d, s) /\ s \in Suffixes
  <2>1. SnapshotRoot(p) \/ SnapshotBoot(p) => proc[p].cmd.suffix \in Suffixes
    BY ProcFacts, CommandFields DEF SnapshotRoot, SnapshotBoot, At, Fits, Together, SingleInv
  <2> QED
    BY <2>1
       DEF MountStep, MountBE, MountRoot, MountBoot, UnmountBE, UnmountBoot, UnmountRoot,
           SnapshotStep, SnapshotBE, PreSnapshot, SnapshotRoot, SnapshotBoot,
           UnmountCallback, Hook, Check, Call, Works, Mount, Unmount, zfsVars
<1>4. OriginsOK' /\ UNCHANGED <<fs, origin>>
  BY <1>3, QuietOrigins, SnapshotOrigins
     DEF Together, SingleInv, RunningInv, TypeOK, Snapshot
<1> QED
  BY <1>1, <1>2, <1>4, PairQuiet

\* Exchanging two names exchanges their datasets in a pool.
LEMMA SwapDatasets ==
  ASSUME NEW b, NEW t, b # t
  PROVE  /\ \A n : Swap(Root(b), Root(t), Root(n)) = Root(Swap(b, t, n))
         /\ \A n : Swap(Root(b), Root(t), Boot(n)) = Boot(n)
         /\ \A n : Swap(Boot(b), Boot(t), Boot(n)) = Boot(Swap(b, t, n))
         /\ \A n : Swap(Boot(b), Boot(t), Root(n)) = Root(n)
<1>1. Root(b) # Root(t) /\ Boot(b) # Boot(t)
  BY PairFacts
<1> QED
  BY <1>1, PairFacts DEF Swap

\* Renaming the root dataset exchanges the pairs.
LEMMA RenameRootPairs ==
  ASSUME ZfsTypeOK, OriginsOK, BootPool, AllAlike, NEW b \in Names, NEW t \in Names, b # t,
         CanRename(Root(b), Root(t)), Rename(Root(b), Root(t))
  PROVE  /\ OriginsOK' /\ Exchanged(b, t)'
         /\ \A n \in Names : Boot(n) \in fs' <=> Boot(n) \in fs
         /\ Root(b) \notin fs' /\ Root(t) \in fs'
<1> DEFINE X(x) == Swap(Root(b), Root(t), x)
<1>1. \A n \in Names : Root(n) \in Datasets /\ Boot(n) \in Datasets
  BY DatasetFacts
<1>2. /\ OriginsOK'
      /\ \A x \in Datasets : x \in fs' <=> X(x) \in fs
      /\ \A x, y \in Datasets, s \in Suffixes : origin'[x] = <<y, s>> <=> origin[X(x)] = <<X(y), s>>
  <2>1. Root(b)[1] = Root(t)[1]
    BY DEF Root
  <2> QED
    BY <1>1, <2>1, RenameOrigins
<1>3. \A n : X(Root(n)) = Root(Swap(b, t, n)) /\ X(Boot(n)) = Boot(n)
  BY SwapDatasets
<1>4. \A n \in Names : Swap(b, t, n) \in Names
  BY SwapFacts
<1> HIDE DEF X
<1>5. \A n \in Names : Root(n) \in fs' <=> Root(Swap(b, t, n)) \in fs
  BY <1>1, <1>2, <1>3
<1>6. \A n \in Names : Boot(n) \in fs' <=> Boot(n) \in fs
  BY <1>1, <1>2, <1>3
<1>7. ASSUME NEW n \in Names
      PROVE  /\ Root(n) \in fs' <=> Boot(Swap(b, t, n)) \in fs'
             /\ \A k \in Names, s \in Suffixes :
                  origin'[Root(n)] = <<Root(k), s>>
                    <=> origin'[Boot(Swap(b, t, n))] = <<Boot(Swap(b, t, k)), s>>
  <2>1. PICK m \in Names : m = Swap(b, t, n)
    BY <1>4
  <2>2. Root(n) \in fs' <=> Boot(m) \in fs'
    BY <1>5, <1>6, <2>1 DEF AllAlike, Alike
  <2>3. ASSUME NEW k \in Names, NEW s \in Suffixes
        PROVE  origin'[Root(n)] = <<Root(k), s>> <=> origin'[Boot(m)] = <<Boot(Swap(b, t, k)), s>>
    <3>1. PICK j \in Names : j = Swap(b, t, k)
      BY <1>4
    <3>2. origin'[Root(n)] = <<Root(k), s>> <=> origin[Root(m)] = <<Root(j), s>>
      BY <1>1, <1>2, <1>3, <2>1, <3>1
    <3>3. origin'[Boot(m)] = <<Boot(j), s>> <=> origin[Boot(m)] = <<Boot(j), s>>
      BY <1>1, <1>2, <1>3
    <3> QED
      BY <3>1, <3>2, <3>3 DEF AllAlike, Alike
  <2> QED
    BY <2>1, <2>2, <2>3
<1>8. Exchanged(b, t)'
  BY <1>7 DEF Exchanged
<1>9. Root(b) \notin fs' /\ Root(t) \in fs'
  BY <1>5, SwapFacts DEF CanRename
<1> QED
  BY <1>2, <1>6, <1>8, <1>9

\* Renaming the boot dataset then makes all pairs alike.
LEMMA RenameBootPairs ==
  ASSUME ZfsTypeOK, OriginsOK, BootPool, NEW b \in Names, NEW t \in Names, b # t,
         Exchanged(b, t), CanRename(Boot(b), Boot(t)), Rename(Boot(b), Boot(t))
  PROVE  OriginsOK' /\ AllAlike'
<1> DEFINE X(x) == Swap(Boot(b), Boot(t), x)
<1>1. \A n \in Names : Root(n) \in Datasets /\ Boot(n) \in Datasets
  BY DatasetFacts
<1>2. /\ OriginsOK'
      /\ \A x \in Datasets : x \in fs' <=> X(x) \in fs
      /\ \A x, y \in Datasets, s \in Suffixes : origin'[x] = <<y, s>> <=> origin[X(x)] = <<X(y), s>>
  <2>1. Boot(b)[1] = Boot(t)[1]
    BY DEF Boot
  <2> QED
    BY <1>1, <2>1, RenameOrigins
<1>3. \A n : X(Boot(n)) = Boot(Swap(b, t, n)) /\ X(Root(n)) = Root(n)
  BY SwapDatasets
<1> HIDE DEF X
<1>4. ASSUME NEW n \in Names
      PROVE  Alike(n)'
  <2>1. Root(n) \in fs' <=> Boot(n) \in fs'
    BY <1>1, <1>2, <1>3 DEF Exchanged
  <2>2. ASSUME NEW k \in Names, NEW s \in Suffixes
        PROVE  origin'[Root(n)] = <<Root(k), s>> <=> origin'[Boot(n)] = <<Boot(k), s>>
    <3>1. origin'[Root(n)] = <<Root(k), s>> <=> origin[Root(n)] = <<Root(k), s>>
      BY <1>1, <1>2, <1>3
    <3>2. origin'[Boot(n)] = <<Boot(k), s>>
            <=> origin[Boot(Swap(b, t, n))] = <<Boot(Swap(b, t, k)), s>>
      BY <1>1, <1>2, <1>3
    <3> QED
      BY <3>1, <3>2 DEF Exchanged
  <2> QED
    BY <2>1, <2>2 DEF Alike
<1> QED
  BY <1>2, <1>4 DEF AllAlike

\* The state of a process that goes to label l.
LEMMA GotoState ==
  ASSUME SingleInv, NEW p \in Procs, NEW l, Goto(p, l)
  PROVE  /\ proc'[p].pc = l /\ proc'[p].cmd = proc[p].cmd /\ proc'[p].act = proc[p].act
         /\ proc'[p].pool = proc[p].pool /\ proc'[p].sfx = proc[p].sfx
         /\ proc'[p].orig = proc[p].orig /\ proc'[p].iter = proc[p].iter
BY ProcFacts DEF Goto, SingleInv, RunningInv, TypeOK, ProcState

\* rename: neither call fails, and the two together leave all pairs alike.
LEMMA RenamePairs ==
  ASSUME NEW p \in Procs, Together(p), RenameStep(p)
  PROVE  OriginsOK' /\ PairAt(proc[p])'
<1>1. PICK c : c = proc[p].cmd
  OBVIOUS
<1>2. /\ SingleInv /\ ZfsTypeOK /\ OriginsOK /\ BootPool
      /\ ~(faults < MaxFaults)
  BY NoFailure DEF Together, SingleInv, RunningInv, TypeOK
<1>3. c.op = "rename" /\ c.be \in Names /\ c.to \in Names
  BY <1>1, ProcFacts, CommandFields
     DEF Together, SingleInv, RenameStep, RenameBE, RenameRoot, RenameBoot, PostRename, At, Fits
<1>4. CASE RenameBE(p)
  <2>1. UNCHANGED <<fs, snaps, origin>> /\ proc[p].pc = "rename" /\ proc[p].pc \in PlainLabels
    BY <1>4, PlainLabelFacts DEF RenameBE, Check, Call, zfsVars, At
  <2>2. \/ Return(p, "fail")
        \/ New(c.to) /\ Existing(c.be) /\ Goto(p, "rename_root")
    BY <1>1, <1>4 DEF RenameBE, Check, Call, Works
  <2>3. CASE Return(p, "fail")
    BY <2>1, <2>3, PairQuiet, QuietOrigins DEF Together
  <2>4. CASE New(c.to) /\ Existing(c.be) /\ Goto(p, "rename_root")
    <3>1. AllAlike' /\ proc[p].pool # "boot"
      BY <2>1, PlainAt, SameAlike DEF Together, PlainState
    <3>2. PICK st : st = proc'[p]
      OBVIOUS
    <3>3. st.pc = "rename_root" /\ st.cmd = c /\ st.pool # "boot"
      BY <1>1, <1>2, <2>4, <3>1, <3>2, GotoState
    <3>4. /\ Root(c.be) \in fs' /\ Boot(c.be) \in fs'
          /\ Root(c.to) \notin fs' /\ Boot(c.to) \notin fs' /\ c.be # c.to
      BY <1>2, <2>1, <2>4 DEF New, Existing
    <3>5. PairAt(st)'
      BY <1>3, <3>1, <3>3, <3>4
         DEF PairAt, Mirrored, AllAlike, ActivatesAt, CreatesAt, DestroysAt, RenamesAt,
             HalfCreated, RootDestroyed, HalfRenamed, HookLabels
    <3> QED
      BY <2>1, <3>2, <3>5, QuietOrigins DEF Together
  <2> QED
    BY <2>2, <2>3, <2>4
<1>5. CASE RenameRoot(p)
  <2>1. proc[p].pc = "rename_root"
    BY <1>5 DEF RenameRoot, At
  <2>2. /\ AllAlike /\ proc[p].pool # "boot"
        /\ Root(c.be) \in fs /\ Boot(c.be) \in fs
        /\ Root(c.to) \notin fs /\ Boot(c.to) \notin fs /\ c.be # c.to
    BY <1>1, <1>3, <2>1
       DEF Together, PairAt, Mirrored, AllAlike, DestroysAt, RenamesAt, HalfCreated, RootDestroyed,
           HalfRenamed
  <2>3. /\ CanRename(Root(c.be), Root(c.to)) /\ Rename(Root(c.be), Root(c.to))
        /\ Goto(p, "rename_boot")
    BY <1>1, <1>2, <1>5, <2>2 DEF RenameRoot, Call, Works, Fails, CanRename
  <2>4. /\ OriginsOK' /\ Exchanged(c.be, c.to)'
        /\ Boot(c.be) \in fs' /\ Boot(c.to) \notin fs'
        /\ Root(c.be) \notin fs' /\ Root(c.to) \in fs'
    BY <1>2, <1>3, <2>2, <2>3, RenameRootPairs
  <2>5. PICK st : st = proc'[p]
    OBVIOUS
  <2>6. st.pc = "rename_boot" /\ st.cmd = c /\ st.pool # "boot"
    BY <1>1, <1>2, <2>2, <2>3, <2>5, GotoState
  <2>7. PairAt(st)'
    BY <1>3, <2>2, <2>4, <2>6
       DEF PairAt, Mirrored, ActivatesAt, CreatesAt, DestroysAt, RenamesAt,
           HalfCreated, RootDestroyed, HalfRenamed, HookLabels
  <2> QED
    BY <2>4, <2>5, <2>7
<1>6. CASE RenameBoot(p)
  <2>1. proc[p].pc = "rename_boot"
    BY <1>6 DEF RenameBoot, At
  <2>2. /\ Exchanged(c.be, c.to) /\ proc[p].pool # "boot"
        /\ Boot(c.be) \in fs /\ Boot(c.to) \notin fs /\ c.be # c.to
    BY <1>1, <1>3, <2>1
       DEF Together, PairAt, Mirrored, DestroysAt, RenamesAt, HalfRenamed
  <2>3. /\ CanRename(Boot(c.be), Boot(c.to)) /\ Rename(Boot(c.be), Boot(c.to))
        /\ Goto(p, "post_rename")
    BY <1>1, <1>2, <1>6, <2>2 DEF RenameBoot, Call, Works, Fails, CanRename
  <2>4. OriginsOK' /\ AllAlike'
    BY <1>2, <1>3, <2>2, <2>3, RenameBootPairs
  <2>5. PICK st : st = proc'[p]
    OBVIOUS
  <2>6. st.pc = "post_rename" /\ st.cmd = c /\ st.pool # "boot"
    BY <1>1, <1>2, <2>2, <2>3, <2>5, GotoState
  <2>7. PlainState(st)'
    BY <1>3, <2>6, PlainLabelFacts DEF PlainState
  <2>8. PairAt(st)'
    BY <2>4, <2>6, <2>7, PlainAt, PlainLabelFacts
  <2> QED
    BY <2>4, <2>5, <2>8
<1>7. CASE PostRename(p)
  <2>1. UNCHANGED <<fs, snaps, origin>> /\ proc[p].pc \in PlainLabels /\ \E r : Return(p, r)
    BY <1>7, PlainLabelFacts DEF PostRename, Hook, Check, Call, zfsVars, At
  <2> QED
    BY <2>1, PairQuiet, QuietOrigins DEF Together
<1> QED
  BY <1>4, <1>5, <1>6, <1>7 DEF RenameStep

\* The invariant at the labels where create has taken its snapshots.
LEMMA CreateAt ==
  ASSUME NEW st, st.cmd.op = "create",
         st.pc \in {"create_snap_boot", "create_again", "clone_root", "clone_boot"}
  PROVE  /\ PairAt(st) <=> /\ st.pool # "boot" /\ st.act = bootfs /\ CreatesAt(st)
                           /\ \A n \in Names :
                                Alike(n) \/ (n = st.cmd.be /\ st.pc = "clone_boot")
         /\ PairAt(st)' <=> /\ st.pool # "boot" /\ st.act = bootfs' /\ CreatesAt(st)'
                            /\ \A n \in Names :
                                 Alike(n)' \/ (n = st.cmd.be /\ st.pc = "clone_boot")
BY DEF PairAt, Mirrored, ActivatesAt, DestroysAt, RenamesAt, HalfCreated, RootDestroyed,
       HalfRenamed, HookLabels

\* create: the two datasets are cloned from snapshots of one name of the
\* datasets of one environment.
LEMMA CreatePairs ==
  ASSUME NEW p \in Procs, Together(p), CreateStep(p)
  PROVE  OriginsOK' /\ PairAt(proc[p])'
<1> DEFINE c == proc[p].cmd
           x == proc[p].sfx
<1>1. /\ SingleInv /\ ZfsTypeOK /\ UniqueNames /\ OriginsOK /\ BootPool
      /\ running = bootfs /\ UNCHANGED <<running, bootfs>> /\ bootfs \in Names
      /\ ~(faults < MaxFaults)
  BY NoFailure DEF Together, SingleInv, RunningInv, TypeOK
<1>2. c.op = "create" /\ c.be \in Names /\ proc[p].pc # "validate"
  <2>1. proc[p].pc # "post_create" => c.op = "create" /\ c.be \in Names
    BY ProcFacts
       DEF Together, SingleInv, CreateStep, Create, CreateSnap, CreateSnapBoot, CreateAgain,
           CloneRoot, CloneBoot, PostCreate, At, Fits
  <2>2. proc[p].pc = "post_create" => c.op = "create" /\ c.be \in Names
    BY ProcFacts DEF Together, SingleInv, Fits
  <2> QED
    BY <2>1, <2>2
       DEF CreateStep, Create, CreateSnap, CreateSnapBoot, CreateAgain, CloneRoot, CloneBoot,
           PostCreate, At
<1>3. proc[p].act = bootfs
  BY <1>2 DEF Together, PairAt, ActivatesAt
<1>4. \A n \in Names : Root(n) \in Datasets /\ Boot(n) \in Datasets
  BY <1>1, DatasetFacts
<1>5. CASE Create(p)
  <2>1. UNCHANGED <<fs, snaps, origin>> /\ proc[p].pc \in PlainLabels
    BY <1>5, PlainLabelFacts DEF Create, Check, Call, zfsVars, At
  <2>2. Goto(p, "create_snap") \/ Return(p, "fail")
    BY <1>1, <1>5 DEF Create, Check, Call, Works
  <2> QED
    BY <1>2, <2>1, <2>2, PairQuiet, PlainLabelFacts, QuietOrigins DEF Together
<1>6. CASE CreateSnap(p)
  <2>1. proc[p].pc = "create_snap" /\ proc[p].pc \in PlainLabels
    BY <1>6, PlainLabelFacts DEF CreateSnap, At
  <2>2. PICK d : d = CreateSource(p)
    OBVIOUS
  <2>3. PICK s \in Suffixes :
          \/ Return(p, "fail") /\ UNCHANGED <<fs, snaps, origin>>
          \/ /\ CanSnapshot(d, s) /\ Snapshot(d, s)
             /\ \/ Return(p, "fail")
                \/ /\ FromBootfs(c)
                   /\ proc' = [proc EXCEPT ![p].pc = "create_snap_boot", ![p].sfx = s]
    BY <1>1, <1>6, <2>2 DEF CreateSnap, Call, Works, zfsVars
  <2>4. CASE Return(p, "fail") /\ UNCHANGED <<fs, snaps, origin>>
    BY <2>1, <2>4, PairQuiet, QuietOrigins DEF Together
  <2>5. ASSUME CanSnapshot(d, s), Snapshot(d, s)
        PROVE  /\ OriginsOK' /\ UNCHANGED <<fs, origin>> /\ AllAlike'
               /\ s \in SnapsOf(d)' /\ NoClones(<<d, s>>)'
    <3>1. UNCHANGED <<fs, origin>> /\ AllAlike
      BY <2>1, <2>5, PlainAt DEF Snapshot, Together
    <3> QED
      BY <1>1, <2>5, <3>1, SameAlike, SnapshotOrigins
  <2>6. CASE CanSnapshot(d, s) /\ Snapshot(d, s) /\ Return(p, "fail")
    BY <2>1, <2>5, <2>6, PairQuiet
  <2>7. CASE /\ CanSnapshot(d, s) /\ Snapshot(d, s) /\ FromBootfs(c)
             /\ proc' = [proc EXCEPT ![p].pc = "create_snap_boot", ![p].sfx = s]
    <3>1. d = Root(bootfs') /\ c.from = NoName
      BY <1>1, <1>3, <2>2, <2>7 DEF CreateSource, FromBootfs
    <3>2. PICK st : st = proc'[p]
      OBVIOUS
    <3>3. /\ st.pc = "create_snap_boot" /\ st.sfx = s /\ st.cmd = c
          /\ st.act = bootfs' /\ st.pool # "boot"
      BY <1>1, <1>3, <2>1, <2>7, <3>2, PlainAt, ProcFacts
         DEF Together, PlainState, SingleInv, RunningInv, TypeOK, ProcState
    <3>4. CreatesAt(st)'
      BY <2>5, <2>7, <3>1, <3>3 DEF CreatesAt
    <3>5. PairAt(st)'
      BY <1>2, <2>5, <2>7, <3>3, <3>4, CreateAt DEF AllAlike
    <3> QED
      BY <2>5, <2>7, <3>2, <3>5
  <2> QED
    BY <2>3, <2>4, <2>6, <2>7
<1>7. ASSUME proc[p].pc \in {"create_snap_boot", "create_again", "clone_root", "clone_boot"}
      PROVE  /\ proc[p].pool # "boot" /\ CreatesAt(proc[p]) /\ c.from = NoName
             /\ \A n \in Names : Alike(n) \/ (n = c.be /\ proc[p].pc = "clone_boot")
             /\ x \in Suffixes
  <2>1. /\ proc[p].pool # "boot" /\ CreatesAt(proc[p])
        /\ \A n \in Names : Alike(n) \/ (n = c.be /\ proc[p].pc = "clone_boot")
    BY <1>2, <1>7, CreateAt DEF Together
  <2>2. c.from = NoName /\ (x \in Suffixes \/ x \in SnapsOf(Boot(running)))
    BY <1>7, <2>1, ProcFacts DEF CreatesAt, Together, SingleInv, Suffixed
  <2>3. SnapsOf(Boot(running)) \subseteq Suffixes
    BY <1>1, <1>4, SnapsType
  <2> QED
    BY <2>1, <2>2, <2>3
<1>8. ASSUME Return(p, "fail"), UNCHANGED <<fs, origin>>, OriginsOK',
             proc[p].pc \in {"create_snap_boot", "create_again", "clone_root"}
      PROVE  OriginsOK' /\ PairAt(proc[p])'
  <2>1. AllAlike
    BY <1>7, <1>8 DEF AllAlike
  <2> QED
    BY <1>1, <1>8, <2>1, SameAlike, PairReturn
<1>9. CASE CreateSnapBoot(p)
  <2>1. PICK n, s : n = bootfs /\ s = x
    OBVIOUS
  <2>2. proc[p].pc = "create_snap_boot"
    BY <1>9 DEF CreateSnapBoot, At
  <2>3. \/ Return(p, "fail") /\ UNCHANGED <<fs, snaps, origin>>
        \/ CanSnapshot(Boot(n), s) /\ Snapshot(Boot(n), s) /\ Goto(p, "create_again")
    BY <1>1, <1>9, <2>1 DEF CreateSnapBoot, Call, Works, zfsVars
  <2>4. CASE Return(p, "fail") /\ UNCHANGED <<fs, snaps, origin>>
    BY <1>1, <1>8, <2>2, <2>4, QuietOrigins
  <2>5. CASE CanSnapshot(Boot(n), s) /\ Snapshot(Boot(n), s) /\ Goto(p, "create_again")
    <3>1. /\ OriginsOK' /\ s \in SnapsOf(Boot(n))' /\ NoClones(<<Boot(n), s>>)'
          /\ \A e \in Datasets : SnapsOf(e) \subseteq SnapsOf(e)'
      BY <1>1, <1>7, <2>1, <2>2, <2>5, SnapshotOrigins
    <3>2. UNCHANGED <<fs, origin>>
      BY <2>5 DEF Snapshot
    <3>3. s \in SnapsOf(Root(n)) /\ NoClones(<<Root(n), s>>) /\ AllAlike
      BY <1>7, <2>1, <2>2 DEF CreatesAt, AllAlike
    <3>4. s \in SnapsOf(Root(n))' /\ NoClones(<<Root(n), s>>)' /\ AllAlike'
      BY <1>1, <1>4, <2>1, <3>1, <3>2, <3>3, SameAlike DEF NoClones
    <3>5. PICK st : st = proc'[p]
      OBVIOUS
    <3>6. /\ st.pc = "create_again" /\ st.sfx = s /\ st.cmd = c
          /\ st.act = n /\ st.pool # "boot"
      BY <1>1, <1>3, <1>7, <2>1, <2>2, <2>5, <3>5, GotoState
    <3>7. bootfs' = n /\ running' = n
      BY <1>1, <2>1
    <3>8. CreatesAt(st)'
      BY <1>7, <2>2, <3>1, <3>4, <3>6, <3>7 DEF CreatesAt
    <3>9. PairAt(st)'
      BY <1>2, <3>4, <3>6, <3>7, <3>8, CreateAt DEF AllAlike
    <3> QED
      BY <3>1, <3>5, <3>9
  <2> QED
    BY <2>3, <2>4, <2>5
<1>10. CASE CreateAgain(p)
  <2>1. proc[p].pc = "create_again" /\ UNCHANGED <<fs, snaps, origin>>
    BY <1>10 DEF CreateAgain, Check, Call, zfsVars, At
  <2>2. Return(p, "fail") \/ (New(c.be) /\ Goto(p, "clone_root"))
    BY <1>10 DEF CreateAgain, Check, Call, Works
  <2>3. CASE Return(p, "fail")
    BY <1>1, <1>8, <2>1, <2>3, QuietOrigins
  <2>4. CASE New(c.be) /\ Goto(p, "clone_root")
    <3>1. PICK st : st = proc'[p]
      OBVIOUS
    <3>2. /\ st.pc = "clone_root" /\ st.sfx = x /\ st.cmd = c
          /\ st.act = bootfs /\ st.pool # "boot"
      BY <1>1, <1>3, <1>7, <2>1, <2>4, <3>1, GotoState
    <3>3. CreatesAt(st)'
      BY <1>1, <1>7, <2>1, <2>4, <3>2 DEF CreatesAt, New, SnapsOf, NoClones
    <3>4. AllAlike'
      BY <1>7, <2>1, SameAlike DEF AllAlike
    <3>5. PairAt(st)'
      BY <1>1, <1>2, <3>2, <3>3, <3>4, CreateAt DEF AllAlike
    <3> QED
      BY <1>1, <2>1, <3>1, <3>5, QuietOrigins
  <2> QED
    BY <2>2, <2>3, <2>4
<1>11. CASE CloneRoot(p)
  <2>1. PICK n, s, b : n = bootfs /\ s = x /\ b = c.be
    OBVIOUS
  <2>2. proc[p].pc = "clone_root"
    BY <1>11 DEF CloneRoot, At
  <2>3. CreateSource(p) = Root(n)
    BY <1>3, <1>7, <2>1, <2>2 DEF CreateSource, FromBootfs
  <2>4. \/ Return(p, "fail") /\ UNCHANGED <<fs, snaps, origin>>
        \/ /\ CanClone(Root(b), Root(n), s) /\ Clone(Root(b), Root(n), s)
           /\ Goto(p, "clone_boot")
    BY <1>1, <1>11, <2>1, <2>3 DEF CloneRoot, Call, Works, zfsVars
  <2>5. CASE Return(p, "fail") /\ UNCHANGED <<fs, snaps, origin>>
    BY <1>1, <1>8, <2>2, <2>5, QuietOrigins
  <2>6. CASE /\ CanClone(Root(b), Root(n), s) /\ Clone(Root(b), Root(n), s)
             /\ Goto(p, "clone_boot")
    <3>1. /\ NoClones(<<Root(n), s>>) /\ s \in SnapsOf(Boot(n)) /\ NoClones(<<Boot(n), s>>)
          /\ Boot(b) \notin fs /\ AllAlike
      BY <1>1, <1>7, <2>1, <2>2 DEF CreatesAt, AllAlike
    <3>2. b \in Names /\ Root(b)[1] = Root(n)[1]
      BY <1>2, <2>1 DEF Root
    <3>3. /\ OriginsOK'
          /\ fs' = fs \cup {Root(b)} /\ UNCHANGED <<snaps, mounted, bootfs>>
          /\ origin'[Root(b)] = <<Root(n), s>>
          /\ \A y \in Datasets \ {Root(b)} : origin'[y] = origin[y]
      BY <1>1, <1>4, <2>6, <3>1, <3>2, CloneOrigins
    <3>4. Boot(b) \notin fs' /\ s \in SnapsOf(Boot(n))'
      BY <3>1, <3>3, PairFacts DEF SnapsOf
    <3>5. NoClones(<<Boot(n), s>>)'
      <4>1. <<Root(n), s>> # <<Boot(n), s>>
        BY PairFacts
      <4> QED
        BY <3>1, <3>3, <4>1 DEF NoClones
    <3>6. \A m \in Names \ {b} : Alike(m)'
      BY <1>4, <3>1, <3>3, PairFacts DEF AllAlike, Alike
    <3>7. PICK st : st = proc'[p]
      OBVIOUS
    <3>8. /\ st.pc = "clone_boot" /\ st.sfx = s /\ st.cmd = c
          /\ st.act = n /\ st.pool # "boot"
      BY <1>1, <1>3, <1>7, <2>1, <2>2, <2>6, <3>7, GotoState
    <3>9. bootfs' = n /\ running' = n /\ st.cmd.be = b /\ st.cmd.op = "create"
      BY <1>1, <1>2, <2>1, <3>8
    <3>10. CreatesAt(st)'
      BY <1>7, <2>2, <3>3, <3>4, <3>5, <3>8, <3>9 DEF CreatesAt
    <3>11. PairAt(st)'
      BY <3>6, <3>8, <3>9, <3>10, CreateAt
    <3> QED
      BY <3>3, <3>7, <3>11
  <2> QED
    BY <2>4, <2>5, <2>6
<1>12. CASE CloneBoot(p)
  <2>1. PICK n, s, b : n = bootfs /\ s = x /\ b = c.be
    OBVIOUS
  <2>2. proc[p].pc = "clone_boot"
    BY <1>12 DEF CloneBoot, At
  <2>3. /\ s \in SnapsOf(Boot(n)) /\ NoClones(<<Boot(n), s>>)
        /\ Boot(b) \notin fs /\ Root(b) \in fs /\ origin[Root(b)] = <<Root(n), s>>
        /\ \A m \in Names \ {b} : Alike(m)
        /\ b \in Names /\ n \in Names /\ s \in Suffixes
    BY <1>1, <1>2, <1>7, <2>1, <2>2 DEF CreatesAt
  <2>4. Boot(n) \in fs
    BY <1>1, <2>1, PairDatasets DEF SingleInv, RunningInv, RunningSafe, TypeOK, ZfsTypeOK
  <2>5. /\ CanClone(Boot(b), Boot(n), s) /\ Clone(Boot(b), Boot(n), s)
        /\ (Goto(p, "post_create") \/ Return(p, "ok"))
    BY <1>1, <1>12, <2>1, <2>3, <2>4 DEF CloneBoot, Call, Works, Fails, CanClone, CreateDone
  <2>6. Boot(b)[1] = Boot(n)[1]
    BY DEF Boot
  <2>7. /\ OriginsOK'
        /\ fs' = fs \cup {Boot(b)} /\ UNCHANGED <<snaps, mounted, bootfs>>
        /\ origin'[Boot(b)] = <<Boot(n), s>>
        /\ \A y \in Datasets \ {Boot(b)} : origin'[y] = origin[y]
    BY <1>1, <1>4, <2>3, <2>5, <2>6, CloneOrigins
  <2>8. \A m \in Names \ {b} : Alike(m)'
    BY <1>4, <2>3, <2>7, PairFacts DEF Alike
  <2>9. Alike(b)'
    BY <1>4, <2>3, <2>7, PairFacts DEF Alike
  <2>10. AllAlike'
    BY <2>8, <2>9 DEF AllAlike
  <2>11. CASE Return(p, "ok")
    BY <1>1, <2>7, <2>10, <2>11, PairReturn
  <2>12. CASE Goto(p, "post_create")
    <3>1. PICK st : st = proc'[p]
      OBVIOUS
    <3>2. st.pc = "post_create" /\ st.cmd = c /\ st.act = bootfs' /\ st.pool # "boot"
      BY <1>1, <1>3, <1>7, <2>2, <2>12, <3>1, GotoState
    <3>3. PlainState(st)'
      BY <3>2, PlainLabelFacts DEF PlainState
    <3>4. PairAt(st)'
      BY <2>10, <3>2, <3>3, PlainAt, PlainLabelFacts
    <3> QED
      BY <2>7, <3>1, <3>4
  <2> QED
    BY <2>5, <2>11, <2>12
<1>13. CASE PostCreate(p)
  <2>1. UNCHANGED <<fs, snaps, origin>> /\ proc[p].pc \in PlainLabels
    BY <1>13, PlainLabelFacts DEF PostCreate, Check, Call, zfsVars, At
  <2>2. Return(p, "fail") \/ \E l \in PlainLabels : Goto(p, l)
    BY <1>13, PlainLabelFacts DEF PostCreate, Check, Call, TempMountAndHook
  <2> QED
    BY <1>2, <2>1, <2>2, PairQuiet, QuietOrigins DEF Together
<1> QED
  BY <1>5, <1>6, <1>9, <1>10, <1>11, <1>12, <1>13 DEF CreateStep

\* The invariant while destroy works on a dataset.
LEMMA DestroyAt ==
  ASSUME NEW st, st.cmd.op = "destroy",
         st.pc \in {"destroy_check", "destroy_snaps", "destroy_fs", "destroy_origin"}
  PROVE  /\ PairAt(st) <=> /\ DestroysAt(st)
                           /\ \A n \in Names : Alike(n) \/ (n = st.cmd.be /\ RootDestroyed(st))
         /\ PairAt(st)' <=> /\ DestroysAt(st)'
                            /\ \A n \in Names : Alike(n)' \/ (n = st.cmd.be /\ RootDestroyed(st))
BY DEF PairAt, Mirrored, ActivatesAt, CreatesAt, RenamesAt, HalfCreated, RootDestroyed,
       HalfRenamed, HookLabels

\* A dataset without snapshots.
LEMMA NoSnapshots ==
  ASSUME ZfsTypeOK, NEW d \in Datasets, SnapsOf(d) = {}
  PROVE  snaps[d] = << >>
<1>1. PICK q : q = snaps[d]
  OBVIOUS
<1>2. q \in Seq(Suffixes) /\ \A i \in 1 .. Len(q) : FALSE
  <2>1. {q[i] : i \in 1 .. Len(q)} = {}
    BY <1>1 DEF SnapsOf
  <2>2. \A i \in 1 .. Len(q) : FALSE
    BY <2>1
  <2>3. q \in Seq(Suffixes)
    BY <1>1 DEF ZfsTypeOK
  <2> QED
    BY <2>2, <2>3
<1>3. Len(q) \in Nat
  BY <1>2
<1>4. Len(q) = 0
  BY <1>2, <1>3
<1> QED
  BY <1>1, <1>2, <1>4

\* Once the root dataset of b is gone, the snapshots of its boot dataset have
\* no clones: where b had one in the boot pool it had one in the root pool.
LEMMA BootNoClones ==
  ASSUME ZfsTypeOK, OriginsOK, BootPool, NEW b \in Names, Root(b) \notin fs,
         \A n \in Names : Alike(n) \/ n = b, NEW s \in SnapsOf(Boot(b))
  PROVE  Clones(Boot(b), s) = {}
<1>1. \A n \in Names : Root(n) \in Datasets /\ Boot(n) \in Datasets
  BY DatasetFacts
<1>2. s \in Suffixes
  BY <1>1, SnapsType
<1>3. SUFFICES ASSUME NEW e \in fs, origin[e] = <<Boot(b), s>>
               PROVE  FALSE
  BY DEF Clones
<1>4. e \in Datasets /\ e # Boot(b) /\ e[1] = "boot"
  <2>1. Boot(b)[1] = "boot"
    BY DEF Boot
  <2>2. e \in Datasets /\ Boot(b) \in Datasets
    BY <1>1 DEF ZfsTypeOK
  <2> QED
    BY <1>2, <1>3, <2>1, <2>2 DEF OriginsOK
<1>5. PICK m \in Names : e = Boot(m)
  BY <1>4, DatasetFacts DEF Boot
<1>6. Alike(m)
  BY <1>4, <1>5
<1>7. origin[Root(m)] = <<Root(b), s>>
  BY <1>2, <1>3, <1>5, <1>6 DEF Alike
<1> QED
  BY <1>1, <1>2, <1>7 DEF OriginsOK

\* Where a dataset of b goes, the other pairs stay alike.
LEMMA OthersAlike ==
  ASSUME BootPool, NEW b \in Names, NEW d \in {Root(b), Boot(b)}, fs' = fs \ {d},
         \A x \in Datasets \ {d} : origin'[x] = origin[x],
         \A n \in Names : Alike(n) \/ n = b
  PROVE  \A n \in Names : Alike(n)' \/ n = b
<1> SUFFICES ASSUME NEW n \in Names, n # b PROVE Alike(n)'
  OBVIOUS
<1>1. /\ Root(n) \in Datasets /\ Boot(n) \in Datasets
      /\ Root(n) # d /\ Boot(n) # d
  BY DatasetFacts, PairFacts
<1>2. Alike(n)
  OBVIOUS
<1> QED
  BY <1>1, <1>2 DEF Alike

\* destroy: the pass over the boot pool does not fail.
LEMMA DestroyBEPairs ==
  ASSUME NEW p \in Procs, Together(p), UNCHANGED running,
         Destroy(p) \/ DestroyCheck(p) \/ DestroySnaps(p) \/ DestroyDataset(p) \/ DestroyOrigin(p)
  PROVE  OriginsOK' /\ PairAt(proc[p])'
<1>1. PICK c, b, q, d : c = proc[p].cmd /\ b = c.be /\ q = proc[p].pool /\ d = <<q, b>>
  OBVIOUS
<1>2. /\ SingleInv /\ ZfsTypeOK /\ UniqueNames /\ OriginsOK /\ BootPool
      /\ ~(faults < MaxFaults) /\ mounted \subseteq fs
  BY NoFailure DEF Together, SingleInv, RunningInv, TypeOK, ZfsTypeOK
<1>3. proc[p].pc \in {"destroy", "destroy_check", "destroy_snaps", "destroy_fs", "destroy_origin"}
  BY DEF Destroy, DestroyCheck, DestroySnaps, DestroyDataset, DestroyOrigin, At
<1>4. c.op = "destroy" /\ b \in Names
  BY <1>1, <1>3, SoloFacts, ProcFacts DEF Together, SingleInv, Belongs
<1>5. \A n \in Names : Root(n) \in Datasets /\ Boot(n) \in Datasets
  BY <1>2, DatasetFacts
<1>6. /\ q \in {"root", "boot"} /\ d \in {Root(b), Boot(b)}
      /\ q = "root" => d = Root(b)
      /\ q = "boot" => d = Boot(b)
      /\ Target(p) = d
  BY <1>1, <1>2, ProcFacts DEF Root, Boot, Target, ProcState, SingleInv
<1>7. proc[p].pc # "destroy" =>
        /\ DestroysAt(proc[p])
        /\ \A n \in Names : Alike(n) \/ n = b
        /\ q = "root" /\ proc[p].pc # "destroy_origin" => AllAlike
  BY <1>1, <1>3, <1>4, <1>6, DestroyAt DEF Together, RootDestroyed, AllAlike
<1>8. ASSUME UNCHANGED <<fs, snaps, origin>>, Return(p, "fail"), q = "root",
             proc[p].pc \in {"destroy_check", "destroy_snaps", "destroy_fs"}
      PROVE  OriginsOK' /\ PairAt(proc[p])'
  BY <1>2, <1>7, <1>8, SameAlike, PairReturn, QuietOrigins
<1>9. Settled(b)
  BY <1>1, <1>3, <1>4, MountFacts, StillOf, StillLabelFacts DEF Together, Still
<1>10. CASE Destroy(p)
  <2>1. UNCHANGED <<fs, snaps, origin>> /\ proc[p].pc = "destroy" /\ proc[p].pc \in PlainLabels
    BY <1>10, PlainLabelFacts DEF Destroy, Check, Call, zfsVars, At
  <2>2. \/ Return(p, "fail")
        \/ /\ Existing(b)
           /\ proc' = [proc EXCEPT ![p].pc = "destroy_check", ![p].pool = "root"]
    BY <1>1, <1>10 DEF Destroy, Check, Call, Works
  <2>3. CASE Return(p, "fail")
    BY <2>1, <2>3, PairQuiet, QuietOrigins DEF Together
  <2>4. CASE /\ Existing(b)
             /\ proc' = [proc EXCEPT ![p].pc = "destroy_check", ![p].pool = "root"]
    <3>1. PICK st : st = proc'[p]
      OBVIOUS
    <3>2. st.pc = "destroy_check" /\ st.pool = "root" /\ st.cmd = c
      BY <1>1, <1>2, <2>4, <3>1, ProcFacts DEF SingleInv, RunningInv, TypeOK, ProcState
    <3>3. DestroysAt(st)' /\ AllAlike'
      BY <1>1, <2>1, <2>4, <3>2, PlainAt, SameAlike
         DEF DestroysAt, RootDestroyed, Together, Existing, Root
    <3>4. PairAt(st)'
      BY <1>4, <3>2, <3>3, DestroyAt DEF AllAlike
    <3> QED
      BY <1>2, <2>1, <3>1, <3>4, QuietOrigins
  <2> QED
    BY <2>2, <2>3, <2>4
<1>11. CASE DestroyCheck(p)
  <2>1. /\ proc[p].pc = "destroy_check" /\ d \in fs /\ (q = "boot" => d \notin mounted)
        /\ q = "boot" => Root(b) \notin fs
    BY <1>1, <1>4, <1>7, <1>11 DEF DestroyCheck, At, DestroysAt, RootDestroyed
  <2>2. /\ UNCHANGED <<fs, snaps, origin>>
        /\ \/ q = "root" /\ Return(p, "fail")
           \/ /\ q = "boot" => d \notin mounted'
              /\ proc' = [proc EXCEPT ![p].pc = "destroy_snaps", ![p].orig = origin[d],
                                      ![p].iter = SnapsOf(d)]
    BY <1>2, <1>6, <1>11, <2>1 DEF DestroyCheck, Check, Call, Works, Fails, Unmount, zfsVars
  <2>3. CASE q = "root" /\ Return(p, "fail")
    BY <1>8, <2>1, <2>2, <2>3
  <2>4. CASE /\ q = "boot" => d \notin mounted'
             /\ proc' = [proc EXCEPT ![p].pc = "destroy_snaps", ![p].orig = origin[d],
                                     ![p].iter = SnapsOf(d)]
    <3>1. PICK st : st = proc'[p]
      OBVIOUS
    <3>2. /\ st.pc = "destroy_snaps" /\ st.pool = q /\ st.cmd = c
          /\ st.orig = origin[d] /\ st.iter = SnapsOf(d)
      BY <1>1, <1>2, <2>4, <3>1, ProcFacts DEF SingleInv, RunningInv, TypeOK, ProcState
    <3>3. DestroysAt(st)'
      BY <1>1, <1>4, <2>1, <2>2, <2>4, <3>2 DEF DestroysAt, RootDestroyed, SnapsOf
    <3>4. \A n \in Names : Alike(n)' \/ (n = b /\ q = "boot")
      BY <1>6, <1>7, <2>1, <2>2 DEF AllAlike, Alike
    <3>5. PairAt(st)'
      BY <1>1, <1>4, <3>2, <3>3, <3>4, DestroyAt DEF RootDestroyed
    <3> QED
      BY <1>2, <2>2, <3>1, <3>5, QuietOrigins
  <2> QED
    BY <2>2, <2>3, <2>4
<1>12. CASE DestroySnaps(p)
  <2>1. /\ proc[p].pc = "destroy_snaps" /\ d \in fs /\ (q = "boot" => d \notin mounted)
        /\ q = "boot" => Root(b) \notin fs
        /\ proc[p].orig = origin[d] /\ proc[p].iter = SnapsOf(d)
    BY <1>1, <1>4, <1>7, <1>12 DEF DestroySnaps, At, DestroysAt, RootDestroyed
  <2>2. PICK s :
          \/ UNCHANGED <<fs, snaps, origin, mounted>> /\ SnapsOf(d) = {} /\ Goto(p, "destroy_fs")
          \/ /\ s \in SnapsOf(d) /\ CanDestroySnap(d, s) /\ DestroySnap(d, s)
             /\ proc' = [proc EXCEPT ![p].iter = @ \ {s}]
          \/ /\ s \in SnapsOf(d) /\ ~CanDestroySnap(d, s) /\ Return(p, "fail")
             /\ UNCHANGED <<fs, snaps, origin>>
    BY <1>2, <1>6, <1>12, <2>1 DEF DestroySnaps, Call, Works, Fails, zfsVars
  <2>3. PICK st : st = proc'[p]
    OBVIOUS
  <2>4. CASE UNCHANGED <<fs, snaps, origin, mounted>> /\ SnapsOf(d) = {} /\ Goto(p, "destroy_fs")
    <3>1. /\ st.pc = "destroy_fs" /\ st.pool = q /\ st.cmd = c
          /\ st.orig = origin[d] /\ st.iter = SnapsOf(d)
      BY <1>1, <1>2, <2>1, <2>3, <2>4, GotoState
    <3>2. DestroysAt(st)'
      <4>1. <<st.pool, st.cmd.be>> = d /\ SnapsOf(d)' = SnapsOf(d) /\ SnapsOf(d) = {}
        BY <1>1, <1>4, <2>4, <3>1 DEF SnapsOf
      <4>2. d \in fs' /\ (q = "boot" => d \notin mounted' /\ Root(b) \notin fs')
        BY <2>1, <2>4
      <4>3. origin'[d] = origin[d] /\ st.cmd.be = b
        BY <1>1, <1>4, <2>4, <3>1
      <4> QED
        BY <3>1, <4>1, <4>2, <4>3 DEF DestroysAt, RootDestroyed
    <3>3. \A n \in Names : Alike(n)' \/ (n = b /\ q = "boot")
      BY <1>6, <1>7, <2>1, <2>4 DEF AllAlike, Alike
    <3>4. PairAt(st)'
      BY <1>1, <1>4, <3>1, <3>2, <3>3, DestroyAt DEF RootDestroyed
    <3> QED
      BY <1>2, <2>3, <2>4, <3>4, QuietOrigins
  <2>5. CASE /\ s \in SnapsOf(d) /\ CanDestroySnap(d, s) /\ DestroySnap(d, s)
             /\ proc' = [proc EXCEPT ![p].iter = @ \ {s}]
    <3>1. /\ OriginsOK' /\ UNCHANGED <<fs, origin, mounted>>
          /\ SnapsOf(d)' = SnapsOf(d) \ {s}
      BY <1>2, <2>5, DestroySnapOrigins
    <3>2. /\ st.pc = "destroy_snaps" /\ st.pool = q /\ st.cmd = c
          /\ st.orig = origin[d] /\ st.iter = SnapsOf(d) \ {s}
      BY <1>1, <1>2, <2>1, <2>3, <2>5, ProcFacts DEF SingleInv, RunningInv, TypeOK, ProcState
    <3>3. DestroysAt(st)'
      BY <1>1, <1>4, <2>1, <3>1, <3>2 DEF DestroysAt, RootDestroyed
    <3>4. \A n \in Names : Alike(n)' \/ (n = b /\ q = "boot")
      BY <1>6, <1>7, <2>1, <3>1 DEF AllAlike, Alike
    <3>5. PairAt(st)'
      BY <1>1, <1>4, <3>2, <3>3, <3>4, DestroyAt DEF RootDestroyed
    <3> QED
      BY <2>3, <3>1, <3>5
  <2>6. CASE /\ s \in SnapsOf(d) /\ ~CanDestroySnap(d, s) /\ Return(p, "fail")
             /\ UNCHANGED <<fs, snaps, origin>>
    <3>1. q = "root"
      <4>1. q = "boot" => Clones(d, s) = {}
        BY <1>2, <1>4, <1>6, <1>7, <2>1, <2>6, BootNoClones
      <4> QED
        BY <1>6, <2>1, <2>6, <4>1 DEF CanDestroySnap
    <3> QED
      BY <1>8, <2>1, <2>6, <3>1
  <2> QED
    BY <2>2, <2>4, <2>5, <2>6
<1>13. ASSUME OriginsOK', NEW st, proc'[p] = st, st.cmd = c, st.pool = "boot",
              st.pc = "destroy_check", Root(b) \notin fs', Boot(b) \in fs', Boot(b) \notin mounted',
              \A n \in Names : Alike(n)' \/ n = b
       PROVE  OriginsOK' /\ PairAt(proc[p])'
  <2>1. DestroysAt(st)'
    BY <1>1, <1>13 DEF DestroysAt, RootDestroyed, Boot
  <2>2. PairAt(st)'
    BY <1>1, <1>4, <1>13, <2>1, DestroyAt DEF RootDestroyed
  <2> QED
    BY <1>13, <2>2
<1>14. ASSUME OriginsOK', NEW r, Return(p, r), Root(b) \notin fs', Boot(b) \notin fs',
              \A n \in Names : Alike(n)' \/ n = b
       PROVE  OriginsOK' /\ PairAt(proc[p])'
  <2>1. Alike(b)'
    <3>1. \A k \in Names, s \in Suffixes : <<Root(k), s>> # NoSnap /\ <<Boot(k), s>> # NoSnap
      BY <1>5, SnapIsSome
    <3>2. origin'[Root(b)] = NoSnap /\ origin'[Boot(b)] = NoSnap
      BY <1>4, <1>5, <1>14 DEF OriginsOK
    <3> QED
      BY <1>14, <3>1, <3>2 DEF Alike
  <2>2. AllAlike'
    BY <1>14, <2>1 DEF AllAlike
  <2> QED
    BY <1>2, <1>14, <2>2, PairReturn
<1>15. CASE DestroyDataset(p)
  <2>1. /\ proc[p].pc = "destroy_fs" /\ d \in fs /\ (q = "boot" => d \notin mounted)
        /\ q = "boot" => Root(b) \notin fs
        /\ proc[p].orig = origin[d] /\ SnapsOf(d) = {}
    BY <1>1, <1>4, <1>7, <1>15 DEF DestroyDataset, At, DestroysAt, RootDestroyed
  <2>2. \/ UNCHANGED <<fs, snaps, origin>> /\ q = "root" /\ Return(p, "fail")
        \/ /\ CanDestroyFs(d) /\ DestroyFs(d)
           /\ IF origin[d] = NoSnap THEN DestroyedDataset(p) ELSE Goto(p, "destroy_origin")
    <3>1. CanDestroyFs(d) \/ q = "root"
      BY <1>5, <1>4, <1>6, <2>1, <1>2, NoSnapshots DEF CanDestroyFs
    <3> QED
      BY <1>2, <1>6, <1>15, <2>1, <3>1 DEF DestroyDataset, Call, Works, Fails, zfsVars
  <2>3. CASE UNCHANGED <<fs, snaps, origin>> /\ q = "root" /\ Return(p, "fail")
    BY <1>8, <2>1, <2>3
  <2>4. CASE /\ CanDestroyFs(d) /\ DestroyFs(d)
             /\ IF origin[d] = NoSnap THEN DestroyedDataset(p) ELSE Goto(p, "destroy_origin")
    <3>1. /\ OriginsOK' /\ fs' = fs \ {d} /\ UNCHANGED mounted
          /\ \A y \in Datasets \ {d} : origin'[y] = origin[y]
          /\ \A e \in Datasets, s \in Suffixes :
               origin[d] = <<e, s>> => e \in fs' /\ s \in SnapsOf(e)' /\ NoClones(<<e, s>>)'
      BY <1>2, <2>4, DestroyFsOrigins
    <3>2. \A n \in Names : Alike(n)' \/ n = b
      BY <1>2, <1>4, <1>6, <1>7, <2>1, <3>1, OthersAlike
    <3>3. /\ q = "root" => Boot(b) \in fs /\ Boot(b) \notin mounted
          /\ Boot(b) \notin mounted
      BY <1>2, <1>4, <1>6, <1>7, <1>9, <2>1, <2>4
         DEF AllAlike, Alike, Settled, Paired, RootOnly, CanDestroyFs
    <3>4. /\ Root(b) \notin fs'
          /\ q = "root" => Boot(b) \in fs'
          /\ q = "boot" => Boot(b) \notin fs'
      BY <1>6, <2>1, <3>1, <3>3, PairFacts
    <3>5. PICK st : st = proc'[p]
      OBVIOUS
    <3>6. CASE origin[d] = NoSnap /\ q = "root"
      <4>1. st.pc = "destroy_check" /\ st.pool = "boot" /\ st.cmd = c
        BY <1>1, <1>2, <2>4, <3>5, <3>6, ProcFacts
           DEF DestroyedDataset, SingleInv, RunningInv, TypeOK, ProcState
      <4> QED
        BY <1>13, <3>1, <3>2, <3>3, <3>4, <3>5, <3>6, <4>1
    <3>7. CASE origin[d] = NoSnap /\ q = "boot"
      <4>1. Return(p, "ok")
        BY <1>1, <1>2, <2>4, <3>7 DEF DestroyedDataset
      <4> QED
        BY <1>14, <3>1, <3>2, <3>4, <3>7, <4>1
    <3>8. CASE origin[d] # NoSnap
      <4>1. PICK e \in Datasets, s \in Suffixes : origin[d] = <<e, s>>
        BY <1>4, <1>5, <1>6, <1>2, <3>8 DEF ZfsTypeOK, Snapshots
      <4>2. e \in fs' /\ s \in SnapsOf(e)' /\ NoClones(<<e, s>>)'
        BY <3>1, <4>1
      <4>3. /\ st.pc = "destroy_origin" /\ st.pool = q /\ st.cmd = c /\ st.orig = <<e, s>>
        BY <1>1, <1>2, <2>1, <2>4, <3>5, <3>8, <4>1, GotoState
      <4>4. DestroysAt(st)'
        <5>1. d \notin fs' /\ <<st.pool, st.cmd.be>> = d
          BY <1>1, <3>1, <4>3
        <5> QED
          BY <1>1, <1>6, <3>4, <4>2, <4>3, <5>1 DEF DestroysAt, RootDestroyed
      <4>5. PairAt(st)'
        BY <1>1, <1>4, <3>2, <4>3, <4>4, DestroyAt DEF RootDestroyed
      <4> QED
        BY <3>1, <3>5, <4>5
    <3> QED
      BY <1>6, <3>6, <3>7, <3>8
  <2> QED
    BY <2>2, <2>3, <2>4
<1>16. CASE DestroyOrigin(p)
  <2>1. /\ proc[p].pc = "destroy_origin" /\ d \notin fs /\ Root(b) \notin fs
        /\ q = "root" => Boot(b) \in fs
    BY <1>1, <1>4, <1>7, <1>16 DEF DestroyOrigin, At, DestroysAt, RootDestroyed
  <2>2. PICK e \in fs : \E s \in SnapsOf(e) : proc[p].orig = <<e, s>> /\ NoClones(<<e, s>>)
    BY <1>7, <2>1 DEF DestroysAt
  <2>3. PICK s \in SnapsOf(e) : proc[p].orig = <<e, s>> /\ NoClones(<<e, s>>)
    BY <2>2
  <2>4. CanDestroySnap(e, s) /\ DestroySnap(e, s) /\ DestroyedDataset(p)
    <3>1. CanDestroySnap(e, s)
      BY <1>2, <2>3 DEF CanDestroySnap, Clones, NoClones, ZfsTypeOK
    <3> QED
      BY <1>2, <1>16, <2>3, <3>1 DEF DestroyOrigin, Call, Works, Fails
  <2>5. OriginsOK' /\ UNCHANGED <<fs, origin, mounted>>
    BY <1>2, <2>4, DestroySnapOrigins
  <2>6. \A n \in Names : Alike(n)' \/ n = b
    BY <1>7, <2>1, <2>5 DEF Alike
  <2>7. CASE q = "root"
    <3>1. PICK st : st = proc'[p]
      OBVIOUS
    <3>2. st.pc = "destroy_check" /\ st.pool = "boot" /\ st.cmd = c
      BY <1>1, <1>2, <2>4, <2>7, <3>1, ProcFacts
         DEF DestroyedDataset, SingleInv, RunningInv, TypeOK, ProcState
    <3>3. Boot(b) \notin mounted
      BY <1>2, <1>9, <2>1 DEF Settled, Paired, RootOnly
    <3> QED
      BY <1>13, <2>1, <2>5, <2>6, <2>7, <3>1, <3>2, <3>3
  <2>8. CASE q = "boot"
    <3>1. Return(p, "ok")
      BY <1>1, <1>2, <2>4, <2>8 DEF DestroyedDataset
    <3> QED
      BY <1>6, <1>14, <2>1, <2>5, <2>6, <2>8, <3>1
  <2> QED
    BY <1>6, <2>7, <2>8
<1> QED
  BY <1>10, <1>11, <1>12, <1>15, <1>16

\* destroy of a snapshot: what has no clones goes.
LEMMA DestroyPairs ==
  ASSUME NEW p \in Procs, Together(p), DestroyStep(p)
  PROVE  OriginsOK' /\ PairAt(proc[p])'
<1>1. SingleInv /\ ZfsTypeOK /\ UniqueNames /\ OriginsOK
  BY DEF Together, SingleInv, RunningInv, TypeOK
<1>2. CASE \/ PostDestroy(p) \/ DestroySnapshot(p) \/ DestroySnapshotRoot(p)
           \/ DestroySnapshotBoot(p)
  <2>1. proc[p].pc \in PlainLabels
    BY <1>2, PlainLabelFacts
       DEF PostDestroy, DestroySnapshot, DestroySnapshotRoot, DestroySnapshotBoot, At
  <2>2. (\E r : Return(p, r)) \/ \E l \in PlainLabels \ BeforeSet : Goto(p, l)
    BY <1>2, PlainLabelFacts
       DEF PostDestroy, DestroySnapshot, DestroySnapshotRoot, DestroySnapshotBoot, Hook, Check, Call
  <2>3. \/ UNCHANGED <<fs, snaps, origin>>
        \/ \E d, s : CanDestroySnap(d, s) /\ DestroySnap(d, s)
    BY <1>2
       DEF PostDestroy, DestroySnapshot, DestroySnapshotRoot, DestroySnapshotBoot, Hook, Check,
           Call, Works, zfsVars
  <2>4. OriginsOK' /\ UNCHANGED <<fs, origin>>
    BY <1>1, <2>3, QuietOrigins, DestroySnapOrigins
  <2> QED
    BY <2>1, <2>2, <2>4, PairQuiet
<1> QED
  BY <1>2, DestroyBEPairs DEF DestroyStep, Together

\* A step of the only process that leaves the running environment the
\* activated one.
LEMMA ProcessPairs ==
  ASSUME OneShell, NEW p \in Procs, Together(p), LibzeInit(p) \/ CommandStep(p) \/ Kill(p)
  PROVE  /\ OriginsOK' /\ (AllIdle => AllAlike)'
         /\ \A q \in Procs : PairAt(proc[q])'
<1>1. OriginsOK' /\ PairAt(proc[p])'
  BY StartPairs, TempMountPairs, ActivatePairs, CreatePairs, DestroyPairs, RenamePairs,
     MountSnapshotPairs
     DEF CommandStep, Kill, Together, Calm
<1>2. ASSUME AllIdle'
      PROVE  AllAlike'
  <2>1. PICK st : st = proc'[p]
    OBVIOUS
  <2>2. st.pc = "idle" /\ PairAt(st)'
    BY <1>1, <1>2, <2>1 DEF AllIdle, At
  <2> QED
    BY <2>2, PlainAt, PlainLabelFacts
<1> QED
  BY <1>1, <1>2 DEF OneShell

\* A reboot into the activated environment, with no command running.
LEMMA RebootPairs ==
  ASSUME Calm, SingleInv, Reboot, OriginsOK, AllIdle => AllAlike,
         \A q \in Procs : PairAt(proc[q]), UNCHANGED <<running, bootfs>>
  PROVE  /\ OriginsOK' /\ (AllIdle => AllAlike)'
         /\ \A q \in Procs : PairAt(proc[q])'
<1>1. AllIdle /\ UNCHANGED <<fs, snaps, origin>>
  BY DEF Reboot, Calm
<1>2. OriginsOK' /\ AllAlike'
  BY <1>1, QuietOrigins, SameAlike
<1>3. ASSUME NEW q \in Procs
      PROVE  PairAt(proc[q])'
  <2>1. PICK st : st = proc[q]
    OBVIOUS
  <2>2. proc'[q] = st /\ st.pc = "idle"
    BY <1>1, <2>1 DEF Reboot, AllIdle, At
  <2>3. PlainState(st)
    BY <2>1, <2>2, PlainAt, PlainLabelFacts
  <2>4. PlainState(st)'
    BY <2>3 DEF PlainState
  <2>5. PairAt(st)'
    BY <1>2, <2>2, <2>4, PlainAt, PlainLabelFacts
  <2> QED
    BY <2>2, <2>5
<1> QED
  BY <1>2, <1>3

\* Every step keeps the pairs in order.
LEMMA PairNext ==
  ASSUME OneShell, Calm
  PROVE  SingleInv /\ MountInv /\ PairInv /\ [PairsNext]_pairsVars => PairInv'
<1> SUFFICES ASSUME SingleInv, MountInv, PairInv, [PairsNext]_pairsVars, BootPool, ~apart'
             PROVE  /\ running' = bootfs' /\ OriginsOK' /\ (AllIdle => AllAlike)'
                    /\ \A q \in Procs : PairAt(proc[q])'
  BY DEF PairInv, AllAlike
<1>1. CASE UNCHANGED pairsVars
  <2>1. UNCHANGED <<fs, snaps, origin, mounted, bootfs, running, proc>> /\ ~apart
    BY <1>1 DEF pairsVars, vars, zfsVars
  <2>2. /\ running = bootfs /\ OriginsOK /\ (AllIdle => AllAlike)
        /\ \A q \in Procs : PairAt(proc[q])
    BY <2>1 DEF PairInv, AllAlike
  <2>3. OriginsOK' /\ (AllAlike' <=> AllAlike) /\ (AllIdle' <=> AllIdle)
    BY <2>1, <2>2, QuietOrigins, SameAlike DEF AllIdle, At
  <2>4. ASSUME NEW q \in Procs
        PROVE  PairAt(proc[q])'
    <3>1. PICK st : st = proc[q]
      OBVIOUS
    <3>2. PairAt(st) /\ proc'[q] = st
      BY <2>1, <2>2, <3>1
    <3>3. Mirrored(st)'
      BY <2>1, <3>2
         DEF PairAt, Mirrored, Exchanged, Alike, HalfCreated, RootDestroyed, HalfRenamed
    <3>4. ActivatesAt(st)' /\ RenamesAt(st)'
      BY <2>1, <3>2 DEF PairAt, ActivatesAt, RenamesAt
    <3>5. CreatesAt(st)'
      BY <2>1, <3>2 DEF PairAt, CreatesAt, SnapsOf, NoClones
    <3>6. DestroysAt(st)'
      BY <2>1, <3>2 DEF PairAt, DestroysAt, SnapsOf, NoClones, RootDestroyed
    <3> QED
      BY <3>2, <3>3, <3>4, <3>5, <3>6 DEF PairAt
  <2> QED
    BY <2>1, <2>2, <2>3, <2>4
<1>2. CASE PairsNext
  <2>1. Next /\ running' = bootfs' /\ ~apart
    BY <1>2 DEF PairsNext
  <2>2. /\ running = bootfs /\ OriginsOK /\ (AllIdle => AllAlike)
        /\ \A q \in Procs : PairAt(proc[q])
    BY <2>1 DEF PairInv, AllAlike
  <2>3. CASE Reboot
    <3>1. UNCHANGED <<running, bootfs>>
      BY <2>1, <2>2, <2>3 DEF Reboot
    <3> QED
      BY <2>1, <2>2, <2>3, <3>1, RebootPairs
  <2>4. ASSUME NEW p \in Procs, LibzeInit(p) \/ CommandStep(p) \/ Kill(p), UNCHANGED running
        PROVE  /\ OriginsOK' /\ (AllIdle => AllAlike)'
               /\ \A q \in Procs : PairAt(proc[q])'
    <3>1. Together(p)
      BY <2>1, <2>2, <2>4 DEF Together
    <3> QED
      BY <2>4, <3>1, ProcessPairs
  <2> QED
    BY <2>1, <2>3, <2>4 DEF Next
<1> QED
  BY <1>1, <1>2

\* One installed environment, without snapshots.
LEMMA PairInit == PairsInit => PairInv
<1> SUFFICES ASSUME PairsInit, BootPool
             PROVE  running = bootfs /\ OriginsOK /\ AllAlike /\ \A q \in Procs : PairAt(proc[q])
  BY DEF PairInv, AllAlike
<1>1. PICK n \in Names : ZfsInit(n) /\ running = n /\ proc = [p \in Procs |-> Idle("none")]
  BY DEF PairsInit, Init
<1>2. running = bootfs /\ fs = Pools \X {n} /\ \A d \in Datasets : origin[d] = NoSnap
  BY <1>1 DEF ZfsInit
<1>3. \A m \in Names : Root(m) \in Datasets /\ Boot(m) \in Datasets
  BY DatasetFacts
<1>4. OriginsOK
  BY <1>2, SnapIsSome DEF OriginsOK
<1>5. AllAlike
  <2>1. \A m \in Names : Root(m) \in fs <=> Boot(m) \in fs
    BY <1>2 DEF Pools, Root, Boot
  <2>2. \A k \in Names, s \in Suffixes : <<Root(k), s>> # NoSnap /\ <<Boot(k), s>> # NoSnap
    BY <1>3, SnapIsSome
  <2> QED
    BY <1>2, <1>3, <2>1, <2>2 DEF AllAlike, Alike
<1>6. ASSUME NEW q \in Procs
      PROVE  PairAt(proc[q])
  <2>1. proc[q] = Idle("none")
    BY <1>1
  <2>2. proc[q].pc = "idle" /\ PlainState(proc[q])
    BY <2>1, PlainLabelFacts DEF Idle, NoCommand, PlainState
  <2> QED
    BY <1>5, <2>2, PlainAt, PlainLabelFacts
<1> QED
  BY <1>2, <1>4, <1>5, <1>6

\* The history variable observes module Zectl.
LEMMA PairsObserve == PairsSpec => Spec
<1>1. PairsInit => Init
  BY DEF PairsInit
<1>2. [PairsNext]_pairsVars => [Next]_vars
  BY DEF PairsNext, pairsVars
<1> QED
  BY <1>1, <1>2, PTL DEF PairsSpec, Spec

\* With one shell, when no call fails, no command is killed, and the running
\* and the activated environment have always been the same, the two pools hold
\* the same environments, cloned from each other in the same way, but for the
\* one the running command has half created, destroyed or renamed: libze_clone,
\* libze_destroy_cb and libze_rename do to the boot pool what they did to the
\* root pool, and there it cannot be refused.
THEOREM PairInvariant ==
  ASSUME OneShell, Calm
  PROVE  PairsSpec => []PairInv
BY PairInit, PairNext, PairsObserve, SingleInvariant, MountInvariant, PTL DEF PairsSpec

\* So that, on these terms, an environment has both its datasets or none when
\* no command runs, whatever was created from what, renamed or destroyed.
THEOREM PairsStayComplete ==
  ASSUME OneShell, Calm
  PROVE  PairsSpec => []PairsUntilApart
<1>1. PairInv => PairsUntilApart
  BY DEF PairInv, Alike, PairsUntilApart, PairsComplete, Existing, New
<1> QED
  BY <1>1, PairInvariant, PTL

(***************************************************************************)
(* Many shells at once, with commands that only add: create, mount and     *)
(* snapshot, and unmount, which takes no dataset away.  No process can     *)
(* then undo what another relies on: datasets and snapshots only grow      *)
(* (AddGrows), and so do the mounts where nothing unmounts.                *)
(***************************************************************************)
\* The commands that take no dataset and no snapshot away.
Adders == {"create", "mount", "unmount", "snapshot"}

\* The labels of the temporary mount around the post-create hook.
AroundHook == HookLabels \cup {"cleanup_unmount", "cleanup_reset"}

\* The labels these commands go through.
AddLabels ==
  AroundHook \cup
  {"idle", "validate",
   "create", "create_snap", "create_snap_boot", "create_again", "clone_root", "clone_boot",
   "post_create",
   "mount", "mount_root", "mount_boot", "unmount", "unmount_boot", "unmount_root",
   "snapshot", "pre_snapshot", "snap_root", "snap_boot"}

\* A process runs one of the commands; without a plugin none mounts for a hook.
Adding(st) ==
  /\ st.pc \in AddLabels
  /\ st.pc # "idle" => st.cmd.op \in Ops
  /\ st.pc \in AroundHook => st.cmd.op = "create"
  /\ ~Plugin =>
       /\ st.pc \notin AroundHook \cup {"post_create", "pre_snapshot"}
       /\ st.pc \in {"mount", "mount_root", "mount_boot"} => st.cmd.op = "mount"
       /\ st.pc \in {"unmount", "unmount_boot", "unmount_root"} => st.cmd.op = "unmount"

\* The part of the command that is done, in the root pool.
AddedSoFar(st) ==
  LET root == Root(st.cmd.be) IN
  /\ st.pc = "clone_boot" => root \in fs
  /\ st.pc = "mount_boot" => root \in mounted
  /\ st.pc = "snap_boot" => st.cmd.suffix \in SnapsOf(root)

\* The inductive invariant behind SuccessRealTogether.
AddInv ==
  /\ RunningInv
  /\ \A p \in Procs : Adding(proc[p]) /\ AddedSoFar(proc[p])

\* create has what it needs to clone the boot dataset as well.
CloneReady(st) ==
  /\ st.pc \in {"create_again", "clone_root", "clone_boot"} => st.sfx \in SnapsOf(Boot(running))
  /\ st.pc = "clone_boot" => Root(st.cmd.be) \in fs /\ Boot(st.cmd.be) \notin fs

\* Every half of a pair is a root dataset, whose one create is about to clone
\* the boot dataset.
HalvesInWork ==
  /\ \A n \in Names :
       /\ Boot(n) \in fs => Root(n) \in fs
       /\ Root(n) \in fs =>
            Boot(n) \in fs \/ \E p \in Procs : At(p, "clone_boot") /\ proc[p].cmd.be = n
  /\ \A p, q \in Procs :
       At(p, "clone_boot") /\ At(q, "clone_boot") /\ proc[p].cmd.be = proc[q].cmd.be => p = q

\* The inductive invariant behind PairsCompleteTogether.
AddPairsInv ==
  /\ RunningInv
  /\ \A p \in Procs : Adding(proc[p]) /\ (BootPool => CloneReady(proc[p]))
  /\ BootPool => HalvesInWork

\* No dataset and no snapshot is lost.
Grown ==
  /\ fs \subseteq fs'
  /\ \A d \in Datasets : SnapsOf(d) \subseteq SnapsOf(d)'

\* zfs_snapshot adds one snapshot, and keeps the others.
LEMMA SnapshotGrows ==
  ASSUME RunningInv, NEW d, NEW s \in Suffixes, CanSnapshot(d, s), Snapshot(d, s)
  PROVE  Grown /\ d \in Datasets /\ s \in SnapsOf(d)' /\ UNCHANGED <<fs, mounted>>
<1>1. d \in Datasets /\ snaps[d] \in Seq(Suffixes) /\ snaps'[d] = Append(snaps[d], s)
  BY DEF RunningInv, TypeOK, ZfsTypeOK, CanSnapshot, Snapshot
<1>2. \A e \in Datasets \ {d} : snaps'[e] = snaps[e]
  BY DEF RunningInv, TypeOK, ZfsTypeOK, Snapshot
<1>3. /\ Len(snaps'[d]) = Len(snaps[d]) + 1 /\ Len(snaps[d]) \in Nat
      /\ snaps'[d][Len(snaps[d]) + 1] = s
      /\ \A i \in 1 .. Len(snaps[d]) : snaps'[d][i] = snaps[d][i]
  BY <1>1
<1>4. SnapsOf(d) \subseteq SnapsOf(d)' /\ s \in SnapsOf(d)'
  BY <1>3 DEF SnapsOf
<1>5. \A e \in Datasets \ {d} : SnapsOf(e)' = SnapsOf(e)
  BY <1>2 DEF SnapsOf
<1> QED
  BY <1>1, <1>4, <1>5 DEF Grown, Snapshot

\* zfs_clone adds one dataset.
LEMMA CloneGrows ==
  ASSUME NEW d, NEW src, NEW s, Clone(d, src, s)
  PROVE  Grown /\ UNCHANGED mounted
BY DEF Clone, Grown, SnapsOf

\* Effects on mounts, mountpoints and bootfs.
LEMMA SameGrown == ASSUME UNCHANGED <<fs, snaps>> PROVE Grown
BY DEF Grown, SnapsOf

\* The temporary mount leaves the datasets and their snapshots alone.
LEMMA TempMountGrows ==
  ASSUME NEW p \in Procs, TempMountStep(p)
  PROVE  UNCHANGED <<fs, snaps>>
BY DEF TempMountStep, TempMountpoint, TempMount, MountedHook, TempUnmountAfterHook,
       TempUnmountOnError, TempUnmount, TempResetAfterHook, TempResetOnError, TempReset,
       Hook, Check, Call, SetMountpoint, Mount, Unmount, zfsVars

\* So do mount and unmount, and mount only adds mounts.
LEMMA MountGrows ==
  ASSUME NEW p \in Procs, MountStep(p)
  PROVE  /\ UNCHANGED <<fs, snaps>>
         /\ proc[p].pc \in {"mount", "mount_root", "mount_boot"} => mounted \subseteq mounted'
<1>1. CASE MountBE(p) \/ MountRoot(p) \/ MountBoot(p)
  BY <1>1 DEF MountBE, MountRoot, MountBoot, Check, Call, Mount, zfsVars
<1>2. CASE UnmountBE(p) \/ UnmountBoot(p) \/ UnmountRoot(p)
  BY <1>2 DEF UnmountBE, UnmountBoot, UnmountRoot, UnmountCallback, Check, Call, Unmount, At,
              zfsVars
<1> QED
  BY <1>1, <1>2 DEF MountStep

\* create adds snapshots and clones.
LEMMA CreateGrows ==
  ASSUME RunningInv, NEW p \in Procs, CreateStep(p)
  PROVE  Grown /\ UNCHANGED mounted
<1>1. CASE Create(p) \/ CreateAgain(p) \/ PostCreate(p)
  BY <1>1, SameGrown DEF Create, CreateAgain, PostCreate, Check, Call, zfsVars
<1>2. CASE CreateSnap(p)
  BY <1>2, SnapshotGrows, SameGrown DEF CreateSnap, Call, Works, zfsVars
<1>3. CASE CreateSnapBoot(p)
  BY <1>3, ProcFacts, SnapshotGrows, SameGrown
     DEF CreateSnapBoot, Call, Works, At, Suffixed, zfsVars
<1>4. CASE CloneRoot(p) \/ CloneBoot(p)
  BY <1>4, CloneGrows, SameGrown DEF CloneRoot, CloneBoot, Call, zfsVars
<1> QED
  BY <1>1, <1>2, <1>3, <1>4 DEF CreateStep

\* snapshot adds snapshots.
LEMMA SnapshotStepGrows ==
  ASSUME RunningInv, NEW p \in Procs, SnapshotStep(p)
  PROVE  Grown /\ UNCHANGED <<fs, mounted>>
<1>1. CASE SnapshotBE(p) \/ PreSnapshot(p)
  BY <1>1, SameGrown DEF SnapshotBE, PreSnapshot, Hook, Check, Call, zfsVars
<1>2. CASE SnapshotRoot(p) \/ SnapshotBoot(p)
  BY <1>2, ProcFacts, CommandFields, SnapshotGrows, SameGrown
     DEF SnapshotRoot, SnapshotBoot, Call, Works, At, Fits, zfsVars
<1> QED
  BY <1>1, <1>2 DEF SnapshotStep

\* The steps these commands take, and none of the other commands.
LEMMA AddSteps ==
  ASSUME NEW p \in Procs, Adding(proc[p]), CommandStep(p)
  PROVE  \/ ValidateSystem(p) \/ TempMountStep(p) \/ CreateStep(p)
         \/ MountStep(p) \/ SnapshotStep(p)
<1>1. ~ActivateStep(p)
  BY DEF Adding, AddLabels, AroundHook, HookLabels, ActivateStep, Activate, ActivateSetBootfs,
         ActivatePromote, ActivatePromoteBoot, PostActivate, At
<1>2. ~DestroyStep(p)
  BY DEF Adding, AddLabels, AroundHook, HookLabels, DestroyStep, Destroy, DestroyCheck,
         DestroySnaps, DestroyDataset, DestroyOrigin, PostDestroy, DestroySnapshot,
         DestroySnapshotRoot, DestroySnapshotBoot, At
<1>3. ~RenameStep(p)
  BY DEF Adding, AddLabels, AroundHook, HookLabels, RenameStep, RenameBE, RenameRoot,
         RenameBoot, PostRename, At
<1> QED
  BY <1>1, <1>2, <1>3 DEF CommandStep

\* No step takes a dataset or a snapshot away, nor a mount if nobody unmounts.
LEMMA AddGrows ==
  ASSUME RunningInv, NEW p \in Procs, Adding(proc[p]), CommandStep(p)
  PROVE  /\ Grown
         /\ ~Plugin /\ "unmount" \notin Ops => mounted \subseteq mounted'
<1>1. CASE ValidateSystem(p)
  BY <1>1, SameGrown DEF ValidateSystem, Check, Call, zfsVars
<1>2. CASE TempMountStep(p)
  <2>1. proc[p].pc \in AroundHook
    BY <1>2 DEF TempMountStep, TempMountpoint, TempMount, MountedHook, TempUnmountAfterHook,
                TempUnmountOnError, TempUnmount, TempResetAfterHook, TempResetOnError, TempReset,
                At, AroundHook, HookLabels
  <2> QED
    BY <1>2, <2>1, TempMountGrows, SameGrown DEF Adding
<1>3. CASE CreateStep(p)
  BY <1>3, CreateGrows
<1>4. CASE MountStep(p)
  <2>1. proc[p].pc \in {"mount", "mount_root", "mount_boot", "unmount", "unmount_boot",
                        "unmount_root"}
    BY <1>4 DEF MountStep, MountBE, MountRoot, MountBoot, UnmountBE, UnmountBoot, UnmountRoot, At
  <2>2. ~Plugin /\ "unmount" \notin Ops => proc[p].pc \in {"mount", "mount_root", "mount_boot"}
    BY <2>1 DEF Adding
  <2> QED
    BY <1>4, <2>2, MountGrows, SameGrown
<1>5. CASE SnapshotStep(p)
  BY <1>5, SnapshotStepGrows
<1> QED
  BY <1>1, <1>2, <1>3, <1>4, <1>5, AddSteps

(***************************************************************************)
(* The labels the commands go through.                                     *)
(***************************************************************************)
\* A process that has returned.
LEMMA ReturnAdding ==
  ASSUME RunningInv, NEW p \in Procs, NEW r \in Results, Return(p, r)
  PROVE  Adding(proc[p])' /\ AddedSoFar(proc[p])' /\ CloneReady(proc[p])' /\ proc'[p] = Idle(r)
<1>1. proc'[p] = Idle(r) /\ proc'[p].pc = "idle"
  BY IdleFact DEF RunningInv, TypeOK, Return
<1> QED
  BY <1>1 DEF Adding, AddLabels, AroundHook, HookLabels, AddedSoFar, CloneReady

\* The start of a command.
LEMMA StartAdding ==
  ASSUME RunningInv, NEW p \in Procs, LibzeInit(p)
  PROVE  Adding(proc[p])' /\ AddedSoFar(proc[p])' /\ CloneReady(proc[p])'
<1>1. CASE Return(p, "fail")
  BY <1>1, ReturnAdding DEF Results
<1>2. ASSUME NEW c \in Commands,
             proc' = [proc EXCEPT ![p] = [Idle("ok") EXCEPT !.pc = "validate", !.cmd = c,
                                                            !.act = bootfs]]
      PROVE  Adding(proc[p])' /\ AddedSoFar(proc[p])' /\ CloneReady(proc[p])'
  <2>1. proc'[p].pc = "validate" /\ proc'[p].cmd = c /\ c.op \in Ops
    BY <1>2 DEF RunningInv, TypeOK, Idle, Commands
  <2> QED
    BY <2>1 DEF Adding, AddLabels, AroundHook, HookLabels, AddedSoFar, CloneReady
<1> QED
  BY <1>1, <1>2 DEF LibzeInit

\* A step that keeps its command and moves to a label of it.
LEMMA MoveAdding ==
  ASSUME NEW p \in Procs, proc'[p].cmd = proc[p].cmd, proc[p].cmd.op \in Ops,
         proc'[p].pc \in AddLabels,
         proc'[p].pc \in AroundHook => proc[p].cmd.op = "create",
         ~Plugin =>
           /\ proc'[p].pc \notin AroundHook \cup {"post_create", "pre_snapshot"}
           /\ proc'[p].pc \in {"mount", "mount_root", "mount_boot"} => proc[p].cmd.op = "mount"
           /\ proc'[p].pc \in {"unmount", "unmount_boot", "unmount_root"} =>
                proc[p].cmd.op = "unmount"
  PROVE  Adding(proc[p])'
BY DEF Adding

\* The temporary mount stays within its labels, or ends the command.
LEMMA TempMountAdding ==
  ASSUME RunningInv, NEW p \in Procs, Adding(proc[p]), TempMountStep(p)
  PROVE  Adding(proc[p])'
<1>1. proc[p].pc \in AroundHook
  BY DEF TempMountStep, TempMountpoint, TempMount, MountedHook, TempUnmountAfterHook,
         TempUnmountOnError, TempUnmount, TempResetAfterHook, TempResetOnError, TempReset,
         At, AroundHook, HookLabels
<1>2. Plugin /\ proc[p].cmd.op = "create" /\ proc[p].cmd.op \in Ops
  BY <1>1 DEF Adding, AroundHook, HookLabels
<1>3. (\E l \in AroundHook : Goto(p, l)) \/ Return(p, "ok") \/ Return(p, "fail")
  BY <1>2 DEF TempMountStep, TempMountpoint, TempMount, MountedHook, TempUnmountAfterHook,
              TempUnmountOnError, TempUnmount, TempResetAfterHook, TempResetOnError, TempReset,
              Hook, Check, Call, HookDone, HookFailed, AroundHook, HookLabels
<1>4. ASSUME NEW l \in AroundHook, Goto(p, l)
      PROVE  Adding(proc[p])'
  BY <1>2, <1>4, GotoFields, MoveAdding, ZectlAssumption DEF AddLabels
<1> QED
  BY <1>3, <1>4, ReturnAdding DEF Results

\* create, from its validation to the clones.
LEMMA CreateAdding ==
  ASSUME RunningInv, NEW p \in Procs, Adding(proc[p]), CreateStep(p)
  PROVE  Adding(proc[p])'
<1> DEFINE L == {"create_snap", "create_snap_boot", "create_again", "clone_root", "clone_boot"}
<1>1. proc[p].cmd.op = "create" /\ proc[p].pc # "idle"
  BY ProcFacts
     DEF CreateStep, Create, CreateSnap, CreateSnapBoot, CreateAgain, CloneRoot, CloneBoot,
         PostCreate, At, Fits
<1>2. proc[p].cmd.op \in Ops
  BY <1>1 DEF Adding
<1>3. ASSUME NEW l \in L, proc'[p].pc = l, proc'[p].cmd = proc[p].cmd
      PROVE  Adding(proc[p])'
  BY <1>1, <1>2, <1>3, MoveAdding DEF AddLabels, AroundHook, HookLabels
<1>4. CASE Create(p)
  <2>1. \/ Goto(p, "create_snap")
        \/ proc' = [proc EXCEPT ![p].pc = "create_again", ![p].sfx = proc[p].cmd.snap]
        \/ Return(p, "fail")
    BY <1>4 DEF Create, Check, Call
  <2>2. CASE proc' = [proc EXCEPT ![p].pc = "create_again", ![p].sfx = proc[p].cmd.snap]
    <3>1. proc'[p].pc = "create_again" /\ proc'[p].cmd = proc[p].cmd
      BY <2>2 DEF RunningInv, TypeOK, ProcState
    <3> QED
      BY <1>3, <3>1
  <2> QED
    BY <1>3, <2>1, <2>2, GotoFields, ReturnAdding DEF Results
<1>5. CASE CreateSnap(p)
  <2>1. \/ \E l \in {"create_again", "create_snap_boot"}, s \in Suffixes :
             proc' = [proc EXCEPT ![p].pc = l, ![p].sfx = s]
        \/ Return(p, "fail")
    BY <1>5 DEF CreateSnap, Call
  <2>2. ASSUME NEW l \in {"create_again", "create_snap_boot"}, NEW s \in Suffixes,
               proc' = [proc EXCEPT ![p].pc = l, ![p].sfx = s]
        PROVE  Adding(proc[p])'
    <3>1. proc'[p].pc = l /\ proc'[p].cmd = proc[p].cmd
      BY <2>2 DEF RunningInv, TypeOK, ProcState
    <3> QED
      BY <1>3, <3>1
  <2> QED
    BY <2>1, <2>2, ReturnAdding DEF Results
<1>6. CASE CreateSnapBoot(p) \/ CreateAgain(p)
  <2>1. (\E l \in L : Goto(p, l)) \/ Return(p, "fail")
    BY <1>6 DEF CreateSnapBoot, CreateAgain, Check, Call
  <2> QED
    BY <1>3, <2>1, GotoFields, ReturnAdding DEF Results
<1>7. CASE CloneRoot(p) \/ CloneBoot(p)
  <2>1. \/ \E l \in L : Goto(p, l)
        \/ Plugin /\ Goto(p, "post_create")
        \/ \E r \in {"ok", "fail"} : Return(p, r)
    BY <1>7 DEF CloneRoot, CloneBoot, CreateDone, Call
  <2>2. ASSUME Plugin, Goto(p, "post_create")
        PROVE  Adding(proc[p])'
    BY <1>1, <1>2, <2>2, GotoFields, MoveAdding DEF AddLabels, AroundHook, HookLabels
  <2> QED
    BY <1>3, <2>1, <2>2, GotoFields, ReturnAdding DEF Results
<1>8. CASE PostCreate(p)
  <2>1. Plugin
    BY <1>8, ZectlAssumption DEF PostCreate, At, Adding
  <2>2. (\E l \in AroundHook : Goto(p, l)) \/ Return(p, "fail")
    BY <1>8 DEF PostCreate, Check, Call, TempMountAndHook, AroundHook, HookLabels
  <2>3. ASSUME NEW l \in AroundHook, Goto(p, l)
        PROVE  Adding(proc[p])'
    BY <1>1, <1>2, <2>1, <2>3, GotoFields, MoveAdding DEF AddLabels
  <2> QED
    BY <2>2, <2>3, ReturnAdding DEF Results
<1> QED
  BY <1>4, <1>5, <1>6, <1>7, <1>8 DEF CreateStep

\* mount, unmount and snapshot; the hook before a snapshot mounts and unmounts.
LEMMA MountSnapshotAdding ==
  ASSUME RunningInv, NEW p \in Procs, Adding(proc[p]), MountStep(p) \/ SnapshotStep(p)
  PROVE  Adding(proc[p])'
<1> DEFINE c == proc[p].cmd
           M == {"mount_root", "mount_boot"}
           U == {"unmount_boot", "unmount_root"}
           S == {"snap_root", "snap_boot"}
<1>1. /\ proc[p].pc \in {"mount"} \cup M => c.op \in {"mount", "snapshot"}
      /\ proc[p].pc \in {"unmount"} \cup U => c.op \in {"unmount", "snapshot"}
      /\ proc[p].pc \in {"snapshot", "pre_snapshot"} \cup S => c.op = "snapshot"
  BY ProcFacts DEF Fits
<1>2. /\ proc[p].pc \in {"mount", "unmount", "snapshot", "pre_snapshot"} \cup M \cup U \cup S
      /\ c.op \in Ops
  BY DEF MountStep, MountBE, MountRoot, MountBoot, UnmountBE, UnmountBoot, UnmountRoot,
         SnapshotStep, SnapshotBE, PreSnapshot, SnapshotRoot, SnapshotBoot, At, Adding
<1>3. ASSUME NEW l \in M \cup U \cup S \cup {"mount", "unmount", "pre_snapshot"}, Goto(p, l),
             ~Plugin => /\ l # "pre_snapshot"
                        /\ l \in {"mount"} \cup M => c.op = "mount"
                        /\ l \in {"unmount"} \cup U => c.op = "unmount"
      PROVE  Adding(proc[p])'
  BY <1>2, <1>3, GotoFields, MoveAdding DEF AddLabels, AroundHook, HookLabels
<1>4. CASE MountBE(p) \/ MountRoot(p) \/ MountBoot(p)
  <2>1. /\ proc[p].pc \in {"mount"} \cup M
        /\ \/ \E l \in M : Goto(p, l)
           \/ c.op = "snapshot" /\ Goto(p, "pre_snapshot")
           \/ \E r \in {"ok", "fail"} : Return(p, r)
    BY <1>1, <1>4 DEF MountBE, MountRoot, MountBoot, MountDone, Check, Call, At
  <2>2. ~Plugin => c.op = "mount"
    BY <2>1 DEF Adding
  <2> QED
    BY <1>3, <2>1, <2>2, ReturnAdding DEF Results
<1>5. CASE UnmountBE(p) \/ UnmountBoot(p) \/ UnmountRoot(p)
  <2>1. /\ proc[p].pc \in {"unmount"} \cup U
        /\ \/ \E l \in U : Goto(p, l)
           \/ Goto(p, "snap_root")
           \/ \E r \in {"ok", "fail"} : Return(p, r)
    BY <1>5 DEF UnmountBE, UnmountBoot, UnmountRoot, UnmountCallback, UnmountDone, Check, Call, At
  <2>2. ~Plugin => c.op = "unmount"
    BY <2>1 DEF Adding
  <2> QED
    BY <1>3, <2>1, <2>2, ReturnAdding DEF Results
<1>6. CASE SnapshotBE(p)
  <2>1. \/ Goto(p, "snap_root")
        \/ Plugin /\ (Goto(p, "pre_snapshot") \/ Goto(p, "mount"))
        \/ Return(p, "fail")
    BY <1>6, ZectlAssumption DEF SnapshotBE, Check, Call
  <2> QED
    BY <1>3, <2>1, ReturnAdding DEF Results
<1>7. CASE PreSnapshot(p)
  <2>1. Plugin
    BY <1>7, ZectlAssumption DEF PreSnapshot, At, Adding
  <2>2. Goto(p, "snap_root") \/ Goto(p, "unmount") \/ Return(p, "fail")
    BY <1>7 DEF PreSnapshot, Hook, Check, Call
  <2> QED
    BY <1>3, <2>1, <2>2, ReturnAdding DEF Results
<1>8. CASE SnapshotRoot(p) \/ SnapshotBoot(p)
  <2>1. Goto(p, "snap_boot") \/ \E r \in {"ok", "fail"} : Return(p, r)
    BY <1>8 DEF SnapshotRoot, SnapshotBoot, Call
  <2> QED
    BY <1>3, <2>1, ReturnAdding DEF Results
<1> QED
  BY <1>4, <1>5, <1>6, <1>7, <1>8 DEF MountStep, SnapshotStep

\* Every step of a command keeps to the labels.
LEMMA CommandAdding ==
  ASSUME Ops \subseteq Adders, RunningInv, NEW p \in Procs, Adding(proc[p]), CommandStep(p)
  PROVE  Adding(proc[p])'
<1>1. CASE ValidateSystem(p)
  <2>1. proc[p].cmd.op \in Ops
    BY <1>1 DEF ValidateSystem, At, Adding
  <2>2. Goto(p, proc[p].cmd.op) \/ Return(p, "fail")
    BY <1>1 DEF ValidateSystem, Check, Call
  <2>3. ASSUME NEW l \in {"create", "mount", "unmount", "snapshot"}, l = proc[p].cmd.op, Goto(p, l)
        PROVE  Adding(proc[p])'
    BY <2>1, <2>3, GotoFields, MoveAdding DEF AddLabels, AroundHook, HookLabels
  <2> QED
    BY <2>1, <2>2, <2>3, ReturnAdding DEF Results, Adders
<1> QED
  BY <1>1, AddSteps, TempMountAdding, CreateAdding, MountSnapshotAdding

(***************************************************************************)
(* Success, when nothing unmounts: no plugin, and no unmount.              *)
(***************************************************************************)
\* Nothing unmounts, not even around a hook.
OnlyAdders == Ops \subseteq {"create", "mount", "snapshot"} /\ ~Plugin

\* A step of p reports success only for what is there, in both pools.
LEMMA CommandAdded ==
  ASSUME OnlyAdders, RunningInv, NEW p \in Procs, Adding(proc[p]), AddedSoFar(proc[p]),
         CommandStep(p), NEW c, c = proc[p].cmd
  PROVE  AddedSoFar(proc[p])' /\ Succeeds(p)
<1> DEFINE quiet == {"create", "create_snap", "create_snap_boot", "create_again", "clone_root",
                     "mount", "mount_root", "snapshot", "snap_root"}
<1>1. proc[p].pc # "idle" => c.op \in Ops
  BY DEF Adding
<1>2. ASSUME NEW l \in quiet, proc'[p].pc = l
      PROVE  AddedSoFar(proc[p])' /\ Succeeds(p)
  BY <1>2, GotoSucceeds DEF AddedSoFar
<1>3. ASSUME Return(p, "fail")
      PROVE  AddedSoFar(proc[p])' /\ Succeeds(p)
  BY <1>3, ReturnAdding, FailSucceeds DEF Results
<1>4. ASSUME Return(p, "ok"), Accomplished(c)'
      PROVE  AddedSoFar(proc[p])' /\ Succeeds(p)
  BY <1>4, ReturnAdding DEF Results, Succeeds
<1>5. CASE ValidateSystem(p)
  <2>1. c.op \in quiet /\ (Goto(p, c.op) \/ Return(p, "fail"))
    BY <1>1, <1>5 DEF ValidateSystem, Check, Call, At, OnlyAdders
  <2> QED
    BY <1>2, <1>3, <2>1, GotoFields
<1>6. CASE CreateStep(p)
  <2>1. CASE Create(p) \/ CreateSnapBoot(p) \/ CreateAgain(p)
    <3>1. \/ \E l \in quiet : Goto(p, l)
          \/ proc' = [proc EXCEPT ![p].pc = "create_again", ![p].sfx = c.snap]
          \/ Return(p, "fail")
      BY <2>1 DEF Create, CreateSnapBoot, CreateAgain, Check, Call
    <3>2. CASE proc' = [proc EXCEPT ![p].pc = "create_again", ![p].sfx = c.snap]
      <4>1. proc'[p].pc = "create_again"
        BY <3>2 DEF RunningInv, TypeOK, ProcState
      <4> QED
        BY <1>2, <4>1
    <3> QED
      BY <1>2, <1>3, <3>1, <3>2, GotoFields
  <2>2. CASE CreateSnap(p)
    <3>1. \/ \E l \in {"create_again", "create_snap_boot"}, s \in Suffixes :
               proc' = [proc EXCEPT ![p].pc = l, ![p].sfx = s]
          \/ Return(p, "fail")
      BY <2>2 DEF CreateSnap, Call
    <3>2. ASSUME NEW l \in {"create_again", "create_snap_boot"}, NEW s \in Suffixes,
                 proc' = [proc EXCEPT ![p].pc = l, ![p].sfx = s]
          PROVE  AddedSoFar(proc[p])' /\ Succeeds(p)
      <4>1. proc'[p].pc = l
        BY <3>2 DEF RunningInv, TypeOK, ProcState
      <4> QED
        BY <1>2, <4>1
    <3> QED
      BY <1>3, <3>1, <3>2
  <2>3. ASSUME CreateDone(p), Root(c.be) \in fs', BootPool => Boot(c.be) \in fs', c.op = "create"
        PROVE  AddedSoFar(proc[p])' /\ Succeeds(p)
    <3>1. Return(p, "ok")
      BY <2>3 DEF CreateDone, OnlyAdders
    <3>2. Accomplished(c)'
      BY <2>3 DEF Accomplished, Pools, Root, Boot
    <3> QED
      BY <1>4, <3>1, <3>2
  <2>4. CASE CloneRoot(p)
    <3>1. c.op = "create"
      BY <2>4, ProcFacts DEF CloneRoot, At, Fits
    <3>2. \/ /\ Root(c.be) \in fs'
             /\ IF BootPool THEN Goto(p, "clone_boot") ELSE CreateDone(p)
          \/ Return(p, "fail")
      BY <2>4 DEF CloneRoot, Call, Clone
    <3>3. ASSUME Goto(p, "clone_boot"), Root(c.be) \in fs'
          PROVE  AddedSoFar(proc[p])' /\ Succeeds(p)
      <4>1. proc'[p].pc = "clone_boot" /\ proc'[p].cmd = c
        BY <3>3, GotoFields
      <4> QED
        BY <3>3, <4>1, GotoSucceeds DEF AddedSoFar
    <3> QED
      BY <1>3, <2>3, <3>1, <3>2, <3>3
  <2>5. CASE CloneBoot(p)
    <3>1. c.op = "create" /\ Root(c.be) \in fs
      BY <2>5, ProcFacts DEF CloneBoot, At, Fits, AddedSoFar
    <3>2. \/ Root(c.be) \in fs' /\ Boot(c.be) \in fs' /\ CreateDone(p)
          \/ Return(p, "fail")
      BY <2>5, <3>1 DEF CloneBoot, Call, Clone
    <3> QED
      BY <1>3, <2>3, <3>1, <3>2
  <2>6. ~PostCreate(p)
    BY DEF PostCreate, At, Adding, OnlyAdders
  <2> QED
    BY <1>6, <2>1, <2>2, <2>4, <2>5, <2>6 DEF CreateStep
<1>7. CASE MountStep(p)
  <2>1. proc[p].pc \in {"mount", "mount_root", "mount_boot"} => c.op = "mount"
    BY DEF Adding, OnlyAdders
  <2>2. CASE MountBE(p)
    <3>1. Goto(p, "mount_root") \/ Return(p, "fail")
      BY <2>2 DEF MountBE, Check, Call
    <3> QED
      BY <1>2, <1>3, <3>1, GotoFields
  <2>3. ASSUME Return(p, "ok"), c.op = "mount", Root(c.be) \in mounted',
               BootPool => Boot(c.be) \in mounted'
        PROVE  AddedSoFar(proc[p])' /\ Succeeds(p)
    BY <1>4, <2>3 DEF Accomplished, Pools, Root, Boot
  <2>4. CASE MountRoot(p)
    <3>1. c.op = "mount"
      BY <2>1, <2>4 DEF MountRoot, At
    <3>2. \/ /\ Root(c.be) \in mounted'
             /\ IF BootPool THEN Goto(p, "mount_boot") ELSE Return(p, "ok")
          \/ Return(p, "fail")
      BY <2>4, <3>1 DEF MountRoot, MountDone, Call, Mount
    <3>3. ASSUME Goto(p, "mount_boot"), Root(c.be) \in mounted'
          PROVE  AddedSoFar(proc[p])' /\ Succeeds(p)
      <4>1. proc'[p].pc = "mount_boot" /\ proc'[p].cmd = c
        BY <3>3, GotoFields
      <4> QED
        BY <3>3, <4>1, GotoSucceeds DEF AddedSoFar
    <3> QED
      BY <1>3, <2>3, <3>1, <3>2, <3>3
  <2>5. CASE MountBoot(p)
    <3>1. c.op = "mount" /\ Root(c.be) \in mounted
      BY <2>1, <2>5 DEF MountBoot, At, AddedSoFar
    <3>2. \/ Root(c.be) \in mounted' /\ Boot(c.be) \in mounted' /\ Return(p, "ok")
          \/ Return(p, "fail")
      BY <2>5, <3>1 DEF MountBoot, MountDone, Call, Mount
    <3> QED
      BY <1>3, <2>3, <3>1, <3>2
  <2>6. ~(UnmountBE(p) \/ UnmountBoot(p) \/ UnmountRoot(p))
    BY <1>1 DEF UnmountBE, UnmountBoot, UnmountRoot, At, Adding, OnlyAdders
  <2> QED
    BY <1>7, <2>2, <2>4, <2>5, <2>6 DEF MountStep
<1>8. CASE SnapshotStep(p)
  <2>1. proc[p].pc \in {"snap_root", "snap_boot"} =>
          c.op = "snapshot" /\ c.suffix \in Suffixes
    BY ProcFacts, CommandFields DEF Fits
  <2>2. CASE SnapshotBE(p)
    <3>1. Goto(p, "snap_root") \/ Return(p, "fail")
      BY <2>2 DEF SnapshotBE, Check, Call, OnlyAdders
    <3> QED
      BY <1>2, <1>3, <3>1, GotoFields
  <2>3. ASSUME Return(p, "ok"), c.op = "snapshot", c.suffix \in SnapsOf(Root(c.be))',
               BootPool => c.suffix \in SnapsOf(Boot(c.be))'
        PROVE  AddedSoFar(proc[p])' /\ Succeeds(p)
    <3>1. Accomplished(c)'
      BY <2>3 DEF Accomplished, Pools, Root, Boot
    <3> QED
      BY <1>4, <2>3, <3>1
  <2>4. CASE SnapshotRoot(p)
    <3>1. c.op = "snapshot" /\ c.suffix \in Suffixes
      BY <2>1, <2>4 DEF SnapshotRoot, At
    <3>2. \/ /\ c.suffix \in SnapsOf(Root(c.be))'
             /\ IF BootPool THEN Goto(p, "snap_boot") ELSE Return(p, "ok")
          \/ Return(p, "fail")
      BY <2>4, <3>1, SnapshotGrows DEF SnapshotRoot, Call, Works
    <3>3. ASSUME Goto(p, "snap_boot"), c.suffix \in SnapsOf(Root(c.be))'
          PROVE  AddedSoFar(proc[p])' /\ Succeeds(p)
      <4>1. proc'[p].pc = "snap_boot" /\ proc'[p].cmd = c
        BY <3>3, GotoFields
      <4> QED
        BY <3>3, <4>1, GotoSucceeds DEF AddedSoFar
    <3> QED
      BY <1>3, <2>3, <3>1, <3>2, <3>3
  <2>5. CASE SnapshotBoot(p)
    <3>1. /\ c.op = "snapshot" /\ c.suffix \in Suffixes
          /\ c.suffix \in SnapsOf(Root(c.be)) /\ Root(c.be) \in Datasets
      BY <2>1, <2>5, ProcFacts DEF SnapshotBoot, At, AddedSoFar
    <3>2. \/ /\ c.suffix \in SnapsOf(Root(c.be))' /\ c.suffix \in SnapsOf(Boot(c.be))'
             /\ Return(p, "ok")
          \/ Return(p, "fail")
      BY <2>5, <3>1, SnapshotGrows DEF SnapshotBoot, Call, Works, Grown
    <3> QED
      BY <1>3, <2>3, <3>1, <3>2
  <2>6. ~PreSnapshot(p)
    BY DEF PreSnapshot, At, Adding, OnlyAdders
  <2> QED
    BY <1>8, <2>2, <2>4, <2>5, <2>6 DEF SnapshotStep
<1>9. ~TempMountStep(p)
  BY DEF TempMountStep, TempMountpoint, TempMount, MountedHook, TempUnmountAfterHook,
         TempUnmountOnError, TempUnmount, TempResetAfterHook, TempResetOnError, TempReset,
         At, AroundHook, HookLabels, Adding, OnlyAdders
<1> QED
  BY <1>5, <1>6, <1>7, <1>8, <1>9, AddSteps

\* Another process keeps what it has established.
LEMMA OthersAdded ==
  ASSUME RunningInv, NEW q \in Procs, Adding(proc[q]), AddedSoFar(proc[q]), proc'[q] = proc[q],
         Grown, mounted \subseteq mounted'
  PROVE  Adding(proc[q])' /\ AddedSoFar(proc[q])'
<1>1. proc[q].pc # "idle" => Root(proc[q].cmd.be) \in Datasets
  BY ProcFacts
<1> QED
  BY <1>1 DEF Adding, AddedSoFar, Grown

\* A step of a process.
LEMMA AddProcessStep ==
  ASSUME OnlyAdders, AddInv, NEW p \in Procs, LibzeInit(p) \/ CommandStep(p) \/ Kill(p),
         UNCHANGED running
  PROVE  AddInv' /\ \A q \in Procs : ~At(q, "idle") => Succeeds(q)
<1>1. RunningInv /\ LocalStep(p) /\ StorageKept
  BY LibzeInitInv, CommandStepInv, KillInv DEF AddInv
<1>2. RunningInv'
  BY <1>1, StepKeepsInv
<1>3. Grown /\ mounted \subseteq mounted'
  <2>1. CASE CommandStep(p)
    BY <1>1, <2>1, AddGrows DEF AddInv, OnlyAdders
  <2>2. CASE LibzeInit(p) \/ Kill(p)
    BY <2>2, SameGrown DEF LibzeInit, Kill, zfsVars
  <2> QED
    BY <2>1, <2>2
<1>4. Adding(proc[p])' /\ AddedSoFar(proc[p])' /\ (~At(p, "idle") => Succeeds(p))
  <2>1. CASE CommandStep(p)
    <3>1. Ops \subseteq Adders
      BY DEF OnlyAdders, Adders
    <3> QED
      BY <1>1, <2>1, <3>1, CommandAdding, CommandAdded DEF AddInv
  <2>2. CASE LibzeInit(p)
    BY <1>1, <2>2, StartAdding DEF LibzeInit
  <2>3. CASE Kill(p)
    BY <1>1, <2>3, ReturnAdding, FailSucceeds DEF Kill, Results
  <2> QED
    BY <2>1, <2>2, <2>3
<1>5. ASSUME NEW q \in Procs, q # p
      PROVE  Adding(proc[q])' /\ AddedSoFar(proc[q])' /\ (~At(q, "idle") => Succeeds(q))
  <2>1. proc'[q] = proc[q]
    BY <1>1, <1>5 DEF LocalStep, RunningInv, TypeOK
  <2> QED
    BY <1>1, <1>3, <2>1, OthersAdded, GotoSucceeds DEF AddInv, At
<1> QED
  BY <1>2, <1>4, <1>5 DEF AddInv

\* No command is left after a reboot.
LEMMA RebootAdding ==
  ASSUME RunningInv, Reboot, NEW p \in Procs
  PROVE  /\ Adding(proc[p])' /\ AddedSoFar(proc[p])' /\ CloneReady(proc[p])'
         /\ ~At(p, "idle") => Succeeds(p)
<1>1. proc'[p] = (IF At(p, "idle") THEN proc[p] ELSE Idle("killed"))
  BY DEF Reboot
<1>2. proc'[p].pc = "idle"
  BY <1>1, IdleResults DEF At
<1>3. Adding(proc[p])' /\ AddedSoFar(proc[p])' /\ CloneReady(proc[p])'
  BY <1>2 DEF Adding, AddLabels, AroundHook, HookLabels, AddedSoFar, CloneReady
<1> QED
  BY <1>1, <1>3, FailSucceeds

\* The invariant of shells that only add, whatever fails or is killed.
LEMMA AddNext ==
  ASSUME OnlyAdders, AddInv, Next
  PROVE  AddInv' /\ \A q \in Procs : ~At(q, "idle") => Succeeds(q)
<1>1. CASE Reboot
  BY <1>1, RebootInv, RebootAdding DEF AddInv
<1> QED
  BY <1>1, AddProcessStep DEF Next

\* Before the first command.
LEMMA AddInit ==
  ASSUME Init
  PROVE  RunningInv /\ \A p \in Procs : /\ Adding(proc[p]) /\ AddedSoFar(proc[p])
                                        /\ CloneReady(proc[p]) /\ At(p, "idle")
<1>1. \A p \in Procs : proc[p] = Idle("none") /\ proc[p].pc = "idle"
  BY IdleResults DEF Init
<1> QED
  BY <1>1, InitInv DEF Adding, AddLabels, AroundHook, HookLabels, AddedSoFar, CloneReady, At

\* create, mount and snapshot in any number of shells at once, without a plugin
\* and whatever fails, is killed or rebooted: success is true, in both pools
\* (libze_create, libze_mount, libze_snapshot).
THEOREM SuccessRealTogether ==
  ASSUME OnlyAdders
  PROVE  Spec => SuccessIsReal
<1>1. Init => AddInv
  BY AddInit DEF AddInv
<1>2. AddInv /\ [Next]_vars => AddInv'
  <2>1. AddInv /\ UNCHANGED vars => AddInv'
    <3> SUFFICES ASSUME AddInv, UNCHANGED vars PROVE AddInv'
      OBVIOUS
    <3>1. RunningInv'
      BY StutterInv DEF AddInv
    <3>2. \A p \in Procs : Adding(proc[p])' /\ AddedSoFar(proc[p])'
      BY DEF AddInv, vars, zfsVars, Adding, AddedSoFar, SnapsOf
    <3> QED
      BY <3>1, <3>2 DEF AddInv
  <2> QED
    BY <2>1, AddNext
<1>3. ASSUME AddInv, Next
      PROVE  SuccessOf(Ops \ {"activate", "rename"})
  <2>1. \A q \in Procs : ~At(q, "idle") => Succeeds(q)
    BY <1>3, AddNext
  <2>2. SUFFICES ASSUME NEW q \in Procs, NEW c \in Commands, proc[q].cmd = c,
                        c.op \in Ops \ {"activate", "rename"}, Returns(q, "ok")
                 PROVE  Accomplished(c)'
    BY DEF SuccessOf
  <2>3. c \in AllCommands /\ ~At(q, "idle") /\ proc'[q] = Idle("ok")
    BY <2>2 DEF Commands, Returns
  <2> QED
    BY <2>1, <2>2, <2>3 DEF Succeeds
<1>4. AddInv /\ [Next]_vars => [SuccessOf(Ops \ {"activate", "rename"})]_vars
  BY <1>3
<1> QED
  BY <1>1, <1>2, <1>4, PTL DEF Spec, SuccessIsReal

(***************************************************************************)
(* Pairs, when no call fails and no command is killed.                     *)
(***************************************************************************)
\* From the second validation of the name to the clone of the boot dataset.
CloneLabels == {"create_again", "clone_root", "clone_boot"}

\* What a step of process p does to the datasets, with a boot pool: a dataset is
\* cloned at clone_root and at clone_boot, and only there.
CloneMove(p) ==
  LET b == proc[p].cmd.be IN
  \/ UNCHANGED fs /\ proc[p].pc # "clone_boot" /\ proc'[p].pc # "clone_boot"
  \/ /\ proc[p].pc = "clone_root" /\ proc'[p].pc = "clone_boot"
     /\ proc'[p].cmd = proc[p].cmd
     /\ Root(b) \notin fs /\ fs' = fs \cup {Root(b)}
  \/ /\ proc[p].pc = "clone_boot" /\ proc'[p].pc # "clone_boot"
     /\ fs' = fs \cup {Boot(b)}

\* A step that does not lead to the clones.
LEMMA AwayFromClones ==
  ASSUME RunningInv, NEW p \in Procs, proc[p].pc # "clone_boot", UNCHANGED fs,
         NEW l, l \notin CloneLabels, proc'[p].pc = l
  PROVE  CloneMove(p) /\ CloneReady(proc[p])'
BY DEF CloneMove, CloneReady, CloneLabels

\* The steps outside create.
LEMMA NoCloneStep ==
  ASSUME Ops \subseteq Adders, RunningInv, NEW p \in Procs, Adding(proc[p]),
         ValidateSystem(p) \/ TempMountStep(p) \/ MountStep(p) \/ SnapshotStep(p)
  PROVE  CloneMove(p) /\ CloneReady(proc[p])'
<1>1. UNCHANGED fs
  BY TempMountGrows, MountGrows, SnapshotStepGrows DEF ValidateSystem, Check, Call, zfsVars
<1>2. \E l : l \notin CloneLabels /\ proc'[p].pc = l
  <2>1. ASSUME NEW l, Goto(p, l), l \notin CloneLabels
        PROVE  \E k : k \notin CloneLabels /\ proc'[p].pc = k
    BY <2>1, GotoFields
  <2>2. ASSUME NEW r \in Results, Return(p, r)
        PROVE  \E k : k \notin CloneLabels /\ proc'[p].pc = k
    BY <2>2, ReturnAdding, IdleResults DEF CloneLabels
  <2>3. CASE ValidateSystem(p)
    <3>1. proc[p].cmd.op \in Ops /\ (Goto(p, proc[p].cmd.op) \/ Return(p, "fail"))
      BY <2>3 DEF ValidateSystem, Check, Call, At, Adding
    <3> QED
      BY <2>1, <2>2, <3>1 DEF Adders, CloneLabels, Results
  <2>4. CASE TempMountStep(p)
    <3>1. proc[p].pc \in AroundHook
      BY <2>4 DEF TempMountStep, TempMountpoint, TempMount, MountedHook, TempUnmountAfterHook,
                  TempUnmountOnError, TempUnmount, TempResetAfterHook, TempResetOnError,
                  TempReset, At, AroundHook, HookLabels
    <3>2. proc[p].cmd.op = "create"
      BY <3>1 DEF Adding
    <3>3. (\E l \in AroundHook : Goto(p, l)) \/ Return(p, "ok") \/ Return(p, "fail")
      BY <2>4, <3>2
         DEF TempMountStep, TempMountpoint, TempMount, MountedHook, TempUnmountAfterHook,
             TempUnmountOnError, TempUnmount, TempResetAfterHook, TempResetOnError, TempReset,
             Hook, Check, Call, HookDone, HookFailed, AroundHook, HookLabels
    <3> QED
      BY <2>1, <2>2, <3>3 DEF AroundHook, HookLabels, CloneLabels, Results
  <2>5. CASE MountStep(p) \/ SnapshotStep(p)
    <3>1. \/ \E l \in {"mount_root", "mount_boot", "pre_snapshot", "unmount_boot", "mount",
                       "unmount", "unmount_root", "snap_root", "snap_boot"} : Goto(p, l)
          \/ Return(p, "ok") \/ Return(p, "fail")
      <4>1. CASE MountStep(p)
        BY <4>1 DEF MountStep, MountBE, MountRoot, MountBoot, MountDone, UnmountBE, UnmountBoot,
                    UnmountRoot, UnmountCallback, UnmountDone, Check, Call
      <4>2. CASE SnapshotStep(p)
        BY <4>2 DEF SnapshotStep, SnapshotBE, PreSnapshot, SnapshotRoot, SnapshotBoot, Hook,
                    Check, Call
      <4> QED
        BY <2>5, <4>1, <4>2
    <3> QED
      BY <2>1, <2>2, <3>1 DEF CloneLabels, Results
  <2> QED
    BY <2>3, <2>4, <2>5
<1>3. proc[p].pc # "clone_boot"
  BY DEF ValidateSystem, TempMountStep, TempMountpoint, TempMount, MountedHook,
         TempUnmountAfterHook, TempUnmountOnError, TempUnmount, TempResetAfterHook,
         TempResetOnError, TempReset, MountStep, MountBE, MountRoot, MountBoot, UnmountBE,
         UnmountBoot, UnmountRoot, SnapshotStep, SnapshotBE, PreSnapshot, SnapshotRoot,
         SnapshotBoot, At
<1> QED
  BY <1>1, <1>2, <1>3, AwayFromClones

\* create: no other process can have made the clones impossible.
LEMMA CloneStep ==
  ASSUME Calm, BootPool, RunningInv, HalvesInWork, NEW p \in Procs, Adding(proc[p]),
         CloneReady(proc[p]), CreateStep(p), UNCHANGED running
  PROVE  CloneMove(p) /\ CloneReady(proc[p])'
<1> DEFINE b == proc[p].cmd.be
<1>1. ~(faults < MaxFaults)
  BY ZectlAssumption DEF Calm, RunningInv, TypeOK
<1>2. Boot(running) \in fs /\ Boot(running) \in Datasets
  BY DEF RunningInv, TypeOK, ZfsTypeOK, RunningSafe, Pools, Boot
<1>3. Grown
  BY CreateGrows
<1>4. ASSUME Return(p, "fail"), UNCHANGED fs, proc[p].pc # "clone_boot"
      PROVE  CloneMove(p) /\ CloneReady(proc[p])'
  <2>1. proc'[p].pc = "idle"
    BY <1>4, ReturnAdding, IdleResults DEF Results
  <2> QED
    BY <1>4, <2>1, AwayFromClones DEF CloneLabels
<1>5. ASSUME NEW l, Goto(p, l), l \notin CloneLabels, UNCHANGED fs, proc[p].pc # "clone_boot"
      PROVE  CloneMove(p) /\ CloneReady(proc[p])'
  BY <1>5, GotoFields, AwayFromClones
<1>6. CASE Create(p)
  <2>1. UNCHANGED fs /\ (Goto(p, "create_snap") \/ Return(p, "fail"))
    BY <1>6 DEF Create, Check, Call, Works, zfsVars
  <2>2. proc[p].pc # "clone_boot"
    BY <1>6 DEF Create, At
  <2> QED
    BY <1>4, <1>5, <2>1, <2>2 DEF CloneLabels
<1>7. CASE CreateSnap(p)
  <2>1. proc[p].pc # "clone_boot" /\ UNCHANGED fs
    BY <1>7 DEF CreateSnap, Call, Snapshot, At, zfsVars
  <2>2. \/ \E s \in Suffixes : proc' = [proc EXCEPT ![p].pc = "create_snap_boot", ![p].sfx = s]
        \/ Return(p, "fail")
    BY <1>7 DEF CreateSnap, Call
  <2>3. ASSUME NEW s \in Suffixes,
               proc' = [proc EXCEPT ![p].pc = "create_snap_boot", ![p].sfx = s]
        PROVE  CloneMove(p) /\ CloneReady(proc[p])'
    <3>1. proc'[p].pc = "create_snap_boot"
      BY <2>3 DEF RunningInv, TypeOK, ProcState
    <3> QED
      BY <2>1, <3>1, AwayFromClones DEF CloneLabels
  <2> QED
    BY <1>4, <2>1, <2>2, <2>3
<1>8. CASE CreateSnapBoot(p)
  <2>1. proc[p].pc # "clone_boot" /\ UNCHANGED fs
    BY <1>8 DEF CreateSnapBoot, Call, Snapshot, At, zfsVars
  <2>2. \/ Goto(p, "create_again") /\ proc[p].sfx \in SnapsOf(Boot(running))'
        \/ Return(p, "fail")
    BY <1>8, ProcFacts, SnapshotGrows DEF CreateSnapBoot, Call, Works, At, Suffixed
  <2>3. ASSUME Goto(p, "create_again"), proc[p].sfx \in SnapsOf(Boot(running))'
        PROVE  CloneMove(p) /\ CloneReady(proc[p])'
    <3>1. proc'[p].pc = "create_again" /\ proc'[p].sfx = proc[p].sfx
      BY <2>3 DEF Goto, RunningInv, TypeOK, ProcState
    <3> QED
      BY <2>1, <2>3, <3>1 DEF CloneMove, CloneReady
  <2> QED
    BY <1>4, <2>1, <2>2, <2>3
<1>9. CASE CreateAgain(p)
  <2>1. proc[p].pc = "create_again" /\ UNCHANGED fs /\ UNCHANGED zfsVars
    BY <1>9 DEF CreateAgain, Check, Call, At, zfsVars
  <2>2. Goto(p, "clone_root") \/ Return(p, "fail")
    BY <1>9 DEF CreateAgain, Check, Call
  <2>3. ASSUME Goto(p, "clone_root")
        PROVE  CloneMove(p) /\ CloneReady(proc[p])'
    <3>1. proc'[p].pc = "clone_root" /\ proc'[p].sfx = proc[p].sfx
      BY <2>3 DEF Goto, RunningInv, TypeOK, ProcState
    <3> QED
      BY <1>2, <1>3, <2>1, <3>1 DEF CloneMove, CloneReady, Grown
  <2> QED
    BY <1>4, <2>1, <2>2, <2>3
<1>10. CASE CloneRoot(p)
  <2>1. proc[p].pc = "clone_root" /\ b \in Names
    BY <1>10, ProcFacts DEF CloneRoot, At
  <2>2. \/ Root(b) \notin fs /\ fs' = fs \cup {Root(b)} /\ Goto(p, "clone_boot")
        \/ Return(p, "fail") /\ UNCHANGED fs
    BY <1>10 DEF CloneRoot, Call, Works, CanClone, Clone, zfsVars
  <2>3. ASSUME Root(b) \notin fs, fs' = fs \cup {Root(b)}, Goto(p, "clone_boot")
        PROVE  CloneMove(p) /\ CloneReady(proc[p])'
    <3>1. /\ proc'[p].pc = "clone_boot" /\ proc'[p].sfx = proc[p].sfx
          /\ proc'[p].cmd = proc[p].cmd
      BY <2>3 DEF Goto, RunningInv, TypeOK, ProcState
    <3>2. Boot(b) \notin fs'
      BY <2>1, <2>3 DEF HalvesInWork, Root, Boot
    <3>3. proc[p].sfx \in SnapsOf(Boot(running))'
      BY <1>2, <1>3, <2>1 DEF CloneReady, Grown
    <3> QED
      BY <2>1, <2>3, <3>1, <3>2, <3>3 DEF CloneMove, CloneReady
  <2> QED
    BY <1>4, <2>1, <2>2, <2>3
<1>11. CASE CloneBoot(p)
  <2>1. proc[p].pc = "clone_boot"
    BY <1>11 DEF CloneBoot, At
  <2>2. CanClone(Boot(b), Boot(running), proc[p].sfx)
    BY <1>2, <2>1 DEF CloneReady, CanClone
  <2>3. fs' = fs \cup {Boot(b)} /\ CreateDone(p)
    BY <1>1, <1>11, <2>2 DEF CloneBoot, Call, Fails, Clone
  <2>4. proc'[p].pc \in {"post_create", "idle"}
    BY <2>3, GotoFields, ReturnAdding, IdleResults DEF CreateDone, Results
  <2> QED
    BY <2>1, <2>3, <2>4 DEF CloneMove, CloneReady
<1>12. CASE PostCreate(p)
  <2>1. proc[p].pc # "clone_boot" /\ UNCHANGED fs
    BY <1>12 DEF PostCreate, Check, Call, At, zfsVars
  <2>2. Goto(p, "hook") \/ Goto(p, "tmp_mountpoint") \/ Return(p, "fail")
    BY <1>12 DEF PostCreate, Check, Call, TempMountAndHook
  <2> QED
    BY <1>4, <1>5, <2>1, <2>2 DEF CloneLabels
<1> QED
  BY <1>6, <1>7, <1>8, <1>9, <1>10, <1>11, <1>12 DEF CreateStep

\* The halves, whichever process takes the step.
LEMMA MoveKeepsHalves ==
  ASSUME RunningInv, HalvesInWork, NEW p \in Procs, \A q \in Procs : CloneReady(proc[q]),
         CloneMove(p), proc' = [proc EXCEPT ![p] = proc'[p]]
  PROVE  HalvesInWork'
<1>1. \A q \in Procs \ {p} : proc'[q] = proc[q]
  BY DEF RunningInv, TypeOK
<1>2. \A n, m : (Root(n) = Root(m) => n = m) /\ (Boot(n) = Boot(m) => n = m) /\ Root(n) # Boot(m)
  BY PairFacts
<1>3. CASE UNCHANGED fs /\ proc[p].pc # "clone_boot" /\ proc'[p].pc # "clone_boot"
  BY <1>1, <1>3 DEF HalvesInWork, At
<1>4. CASE /\ proc[p].pc = "clone_root" /\ proc'[p].pc = "clone_boot"
           /\ proc'[p].cmd = proc[p].cmd
           /\ Root(proc[p].cmd.be) \notin fs /\ fs' = fs \cup {Root(proc[p].cmd.be)}
  <2>1. ASSUME NEW n \in Names
        PROVE  /\ Boot(n) \in fs' => Root(n) \in fs'
               /\ Root(n) \in fs' =>
                    \/ Boot(n) \in fs'
                    \/ \E q \in Procs : proc'[q].pc = "clone_boot" /\ proc'[q].cmd.be = n
    BY <1>1, <1>2, <1>4 DEF HalvesInWork, At
  <2>2. ASSUME NEW q \in Procs, NEW r \in Procs, proc'[q].pc = "clone_boot",
               proc'[r].pc = "clone_boot", proc'[q].cmd.be = proc'[r].cmd.be
        PROVE  q = r
    <3>1. \A x \in Procs \ {p} : proc'[x].pc = "clone_boot" => proc'[x].cmd.be # proc[p].cmd.be
      BY <1>1, <1>4 DEF CloneReady
    <3> QED
      BY <1>1, <1>4, <2>2, <3>1 DEF HalvesInWork, At
  <2> QED
    BY <2>1, <2>2 DEF HalvesInWork, At
<1>5. CASE /\ proc[p].pc = "clone_boot" /\ proc'[p].pc # "clone_boot"
           /\ fs' = fs \cup {Boot(proc[p].cmd.be)}
  <2>1. Root(proc[p].cmd.be) \in fs
    BY <1>5 DEF CloneReady
  <2> QED
    BY <1>1, <1>2, <1>5, <2>1 DEF HalvesInWork, At
<1> QED
  BY <1>3, <1>4, <1>5 DEF CloneMove

\* A step of a command.
LEMMA AddPairsStep ==
  ASSUME Calm, Ops \subseteq Adders, AddPairsInv, NEW p \in Procs,
         LibzeInit(p) \/ CommandStep(p), UNCHANGED running
  PROVE  AddPairsInv'
<1>1. RunningInv /\ LocalStep(p) /\ StorageKept
  BY LibzeInitInv, CommandStepInv DEF AddPairsInv
<1>2. RunningInv'
  BY <1>1, StepKeepsInv
<1>3. \A q \in Procs \ {p} : proc'[q] = proc[q]
  BY <1>1 DEF LocalStep, RunningInv, TypeOK
<1>4. \A q \in Procs : Adding(proc[q])'
  <2>1. Adding(proc[p])'
    BY <1>1, StartAdding, CommandAdding DEF AddPairsInv
  <2> QED
    BY <1>3, <2>1 DEF AddPairsInv, Adding
<1>5. ASSUME BootPool
      PROVE  HalvesInWork' /\ \A q \in Procs : CloneReady(proc[q])'
  <2>1. HalvesInWork /\ Adding(proc[p]) /\ \A q \in Procs : CloneReady(proc[q])
    BY <1>5 DEF AddPairsInv
  <2>2. CloneMove(p) /\ CloneReady(proc[p])'
    <3>1. CASE LibzeInit(p)
      <4>1. proc[p].pc = "idle" /\ UNCHANGED fs
        BY <3>1 DEF LibzeInit, At, zfsVars
      <4>2. proc'[p].pc \in {"idle", "validate"}
        BY <1>1, <3>1, IdleResults DEF LibzeInit, Return, RunningInv, TypeOK, Idle
      <4> QED
        BY <1>1, <4>1, <4>2, AwayFromClones DEF CloneLabels
    <3>2. CASE CommandStep(p)
      BY <1>1, <1>5, <2>1, <3>2, AddSteps, NoCloneStep, CloneStep
    <3> QED
      BY <3>1, <3>2
  <2>3. HalvesInWork'
    BY <1>1, <2>1, <2>2, MoveKeepsHalves DEF LocalStep
  <2>4. Grown
    BY <1>1, <2>1, AddGrows, SameGrown DEF LibzeInit, zfsVars
  <2>5. Boot(running) \in Datasets
    BY <1>1, <1>5, DatasetFacts DEF RunningInv, TypeOK
  <2>6. ASSUME NEW q \in Procs, q # p
        PROVE  CloneReady(proc[q])'
    <3>1. proc'[q] = proc[q]
      BY <1>3, <2>6
    <3>2. proc[q].pc = "clone_boot" => Boot(proc[q].cmd.be) \notin fs'
      BY <2>1, <2>2, <2>6, PairFacts DEF CloneMove, CloneReady, HalvesInWork, At
    <3> QED
      BY <2>1, <2>4, <2>5, <3>1, <3>2 DEF CloneReady, Grown
  <2> QED
    BY <2>2, <2>3, <2>6
<1> QED
  BY <1>2, <1>4, <1>5 DEF AddPairsInv

\* Every step keeps the invariant; a reboot waits for the commands to end.
LEMMA AddPairsNext ==
  ASSUME Calm, Ops \subseteq Adders, AddPairsInv, [Next]_vars
  PROVE  AddPairsInv'
<1>1. ASSUME NEW p \in Procs, LibzeInit(p) \/ CommandStep(p), UNCHANGED running
      PROVE  AddPairsInv'
  BY <1>1, AddPairsStep
<1>2. CASE Reboot
  <2>1. UNCHANGED <<fs, snaps>> /\ \A p \in Procs : proc[p].pc = "idle" /\ proc'[p] = proc[p]
    BY <1>2 DEF Reboot, Calm, AllIdle, At
  <2>2. RunningInv'
    BY <1>2, RebootInv DEF AddPairsInv
  <2>3. \A p \in Procs : Adding(proc[p])' /\ CloneReady(proc[p])'
    BY <1>2, RebootAdding DEF AddPairsInv
  <2>4. BootPool => HalvesInWork'
    BY <2>1 DEF AddPairsInv, HalvesInWork, At
  <2> QED
    BY <2>2, <2>3, <2>4 DEF AddPairsInv
<1>3. CASE UNCHANGED vars
  <2>1. RunningInv'
    BY <1>3, StutterInv DEF AddPairsInv
  <2> QED
    BY <1>3, <2>1 DEF AddPairsInv, vars, zfsVars, Adding, CloneReady, HalvesInWork, SnapsOf, At
<1> QED
  BY <1>1, <1>2, <1>3 DEF Next, Kill, Calm

\* create, mount, unmount and snapshot in any number of shells at once, when no
\* call fails and no command is killed: whichever shell wins a name, each
\* environment has both its datasets or none once all have ended
\* (libze_create, the clones of libze.c:1930).
THEOREM PairsCompleteTogether ==
  ASSUME Calm, Ops \subseteq Adders
  PROVE  Spec => []PairsComplete
<1>1. Init => AddPairsInv
  <2> SUFFICES ASSUME Init PROVE AddPairsInv
    OBVIOUS
  <2>1. BootPool => \A n \in Names : Root(n) \in fs <=> Boot(n) \in fs
    BY DEF Init, ZfsInit, Pools, Root, Boot
  <2> QED
    BY <2>1, AddInit DEF AddPairsInv, HalvesInWork, At
<1>2. AddPairsInv /\ [Next]_vars => AddPairsInv'
  BY AddPairsNext
<1>3. AddPairsInv => PairsComplete
  BY DEF AddPairsInv, PairsComplete, AllIdle, At, HalvesInWork, Existing, New
<1> QED
  BY <1>1, <1>2, <1>3, PTL DEF Spec
=============================================================================
