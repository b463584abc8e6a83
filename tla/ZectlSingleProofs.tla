------------------------- MODULE ZectlSingleProofs -------------------------
(***************************************************************************)
(* Proofs for one shell at a time, with any names, snapshots, commands,    *)
(* failures, kills and reboots: the activated environment survives, the    *)
(* commands implement BootEnvs, and success is true.                       *)
(*                                                                         *)
(* What a step does to the pool is one libzfs effect (StorageStep); what   *)
(* it does to its process keeps what the process has established (Solo).   *)
(***************************************************************************)
EXTENDS ZectlProofs

\* The effect of a step of process p on the pool, with the check of libzfs.
StorageStep(p) ==
  LET c == proc[p].cmd IN
  \/ UNCHANGED zfsVars
  \/ \E d \in Datasets : \/ CanMount(d) /\ Mount(d)
                         \/ Unmount(d)
                         \/ \E t \in BOOLEAN : CanSetMountpoint(d) /\ SetMountpoint(d, t)
                         \/ CanPromote(d) /\ Promote(d)
                         \/ \E s \in Suffixes : CanSnapshot(d, s) /\ Snapshot(d, s)
                         \/ \E s : CanDestroySnap(d, s) /\ DestroySnap(d, s)
  \/ \E d \in Datasets : \E src, s : CanClone(d, src, s) /\ Clone(d, src, s)
  \/ At(p, "set_bootfs") /\ CanSetBootfs(c.be) /\ SetBootfs(c.be)
  \/ At(p, "destroy_fs") /\ CanDestroyFs(Target(p)) /\ DestroyFs(Target(p))
  \/ At(p, "rename_root") /\ CanRename(Root(c.be), Root(c.to)) /\ Rename(Root(c.be), Root(c.to))
  \/ /\ At(p, "rename_boot") /\ Boot(c.to) \in Datasets
     /\ CanRename(Boot(c.be), Boot(c.to)) /\ Rename(Boot(c.be), Boot(c.to))

\* The temporary mount around a hook.
LEMMA TempMountEffect ==
  ASSUME RunningInv, NEW p \in Procs, TempMountStep(p)
  PROVE  StorageStep(p)
<1>1. proc[p].pc # "idle" => Root(proc[p].cmd.be) \in Datasets
  BY ProcFacts
<1>2. CASE TempMountpoint(p)
  BY <1>1, <1>2 DEF TempMountpoint, Call, Works, At, StorageStep
<1>3. CASE TempMount(p)
  BY <1>1, <1>3 DEF TempMount, Call, Works, At, StorageStep
<1>4. CASE MountedHook(p)
  BY <1>4 DEF MountedHook, Hook, Check, Call, StorageStep
<1>5. CASE TempUnmountAfterHook(p)
  BY <1>1, <1>5 DEF TempUnmountAfterHook, TempUnmount, Call, Works, At, StorageStep
<1>6. CASE TempResetAfterHook(p)
  BY <1>1, <1>6 DEF TempResetAfterHook, TempReset, Call, Works, At, StorageStep
<1>7. CASE TempUnmountOnError(p)
  BY <1>1, <1>7 DEF TempUnmountOnError, TempUnmount, Call, Works, At, StorageStep
<1>8. CASE TempResetOnError(p)
  BY <1>1, <1>8 DEF TempResetOnError, TempReset, Call, Works, At, StorageStep
<1> QED
  BY <1>2, <1>3, <1>4, <1>5, <1>6, <1>7, <1>8 DEF TempMountStep

\* bootfs and the promotions.
LEMMA ActivateEffect ==
  ASSUME RunningInv, NEW p \in Procs, ActivateStep(p)
  PROVE  StorageStep(p)
<1>1. CASE Activate(p)
  BY <1>1 DEF Activate, Check, Call, StorageStep
<1>2. CASE ActivateSetBootfs(p)
  BY <1>2 DEF ActivateSetBootfs, Call, Works, StorageStep
<1>3. ASSUME NEW d, NEW then, NEW else, ActivateCb(d, then, else)
      PROVE  StorageStep(p)
  <2>1. CanPromote(d) => d \in Datasets
    BY DEF CanPromote, RunningInv, TypeOK, ZfsTypeOK
  <2> QED
    BY <1>3, <2>1 DEF ActivateCb, Check, Call, Works, StorageStep
<1>4. CASE ActivatePromote(p)
  BY <1>3, <1>4 DEF ActivatePromote
<1>5. CASE ActivatePromoteBoot(p)
  BY <1>3, <1>5 DEF ActivatePromoteBoot
<1>6. CASE PostActivate(p)
  BY <1>6 DEF PostActivate, Hook, Check, Call, StorageStep
<1> QED
  BY <1>1, <1>2, <1>4, <1>5, <1>6 DEF ActivateStep

\* Snapshots of the sources, then clones of them.
LEMMA CreateEffect ==
  ASSUME RunningInv, NEW p \in Procs, CreateStep(p)
  PROVE  StorageStep(p)
<1>1. \A d, s : CanSnapshot(d, s) => d \in Datasets
  BY DEF CanSnapshot, RunningInv, TypeOK, ZfsTypeOK
<1>2. CASE Create(p)
  BY <1>2 DEF Create, Check, Call, StorageStep
<1>3. CASE CreateSnap(p)
  BY <1>1, <1>3 DEF CreateSnap, Call, Works, StorageStep
<1>4. CASE CreateSnapBoot(p)
  BY <1>1, <1>4, ProcFacts DEF CreateSnapBoot, Call, Works, StorageStep, At, Suffixed
<1>5. CASE CreateAgain(p)
  BY <1>5 DEF CreateAgain, Check, Call, StorageStep
<1>6. CASE CloneRoot(p)
  BY <1>6, ProcFacts DEF CloneRoot, Call, Works, At, StorageStep
<1>7. CASE CloneBoot(p)
  <2>1. CanClone(Boot(proc[p].cmd.be), Boot(running), proc[p].sfx)
          => Boot(proc[p].cmd.be) \in Datasets
    <3>1. SUFFICES ASSUME Boot(running) \in fs PROVE Boot(proc[p].cmd.be) \in Datasets
      BY DEF CanClone
    <3>2. Boot(running) \in Datasets /\ running \in Names
      BY <3>1 DEF RunningInv, TypeOK, ZfsTypeOK
    <3>3. proc[p].cmd.be \in Names
      BY <1>7, ProcFacts DEF CloneBoot, At
    <3> QED
      BY <3>2, <3>3, DatasetFacts
  <2> QED
    BY <1>7, <2>1 DEF CloneBoot, Call, Works, StorageStep
<1>8. CASE PostCreate(p)
  BY <1>8 DEF PostCreate, Check, Call, StorageStep
<1> QED
  BY <1>2, <1>3, <1>4, <1>5, <1>6, <1>7, <1>8 DEF CreateStep

\* Snapshots and datasets are destroyed one by one.
LEMMA DestroyEffect ==
  ASSUME RunningInv, NEW p \in Procs, DestroyStep(p)
  PROVE  StorageStep(p)
<1>1. /\ \A d, s : CanDestroySnap(d, s) => d \in Datasets
      /\ \A d : CanUnmount(d) => d \in Datasets
  BY DEF CanDestroySnap, CanUnmount, RunningInv, TypeOK, ZfsTypeOK
<1>2. CASE Destroy(p)
  BY <1>2 DEF Destroy, Check, Call, StorageStep
<1>3. CASE DestroyCheck(p)
  BY <1>1, <1>3 DEF DestroyCheck, Check, Call, Works, StorageStep
<1>4. CASE DestroySnaps(p)
  BY <1>1, <1>4 DEF DestroySnaps, Call, Works, StorageStep
<1>5. CASE DestroyDataset(p)
  BY <1>5 DEF DestroyDataset, Call, Works, StorageStep
<1>6. CASE DestroyOrigin(p)
  BY <1>1, <1>6 DEF DestroyOrigin, Call, Works, StorageStep
<1>7. CASE PostDestroy(p)
  BY <1>7 DEF PostDestroy, Hook, Check, Call, StorageStep
<1>8. CASE DestroySnapshot(p)
  BY <1>8 DEF DestroySnapshot, Check, Call, StorageStep
<1>9. CASE DestroySnapshotRoot(p)
  BY <1>1, <1>9 DEF DestroySnapshotRoot, Call, Works, StorageStep
<1>10. CASE DestroySnapshotBoot(p)
  BY <1>1, <1>10 DEF DestroySnapshotBoot, Call, Works, StorageStep
<1> QED
  BY <1>2, <1>3, <1>4, <1>5, <1>6, <1>7, <1>8, <1>9, <1>10 DEF DestroyStep

\* The two datasets of an environment are renamed one after the other.
LEMMA RenameEffect ==
  ASSUME RunningInv, NEW p \in Procs, RenameStep(p)
  PROVE  StorageStep(p)
<1>1. CASE RenameBE(p)
  BY <1>1 DEF RenameBE, Check, Call, StorageStep
<1>2. CASE RenameRoot(p)
  BY <1>2 DEF RenameRoot, Call, Works, StorageStep
<1>3. CASE RenameBoot(p)
  <2> DEFINE d == Boot(proc[p].cmd.be)
             e == Boot(proc[p].cmd.to)
  <2>1. CanRename(d, e) => e \in Datasets
    <3>1. proc[p].cmd.be \in Names /\ proc[p].cmd.to \in Names
      BY <1>3, ProcFacts, CommandFields DEF RenameBoot, At, Fits
    <3>2. CanRename(d, e) => d \in Datasets
      BY DEF CanRename, RunningInv, TypeOK, ZfsTypeOK
    <3> QED
      BY <3>1, <3>2, DatasetFacts
  <2> QED
    BY <1>3, <2>1 DEF RenameBoot, Call, Works, StorageStep
<1>4. CASE PostRename(p)
  BY <1>4 DEF PostRename, Hook, Check, Call, StorageStep
<1> QED
  BY <1>1, <1>2, <1>3, <1>4 DEF RenameStep

\* Mounts, and the snapshots a user asks for.
LEMMA MountSnapshotEffect ==
  ASSUME RunningInv, NEW p \in Procs, MountStep(p) \/ SnapshotStep(p)
  PROVE  StorageStep(p)
<1>1. /\ \A d, s : CanSnapshot(d, s) => d \in Datasets
      /\ \A d : CanMount(d) => d \in Datasets
      /\ \A d : CanUnmount(d) => d \in Datasets
  BY DEF CanSnapshot, CanMount, CanUnmount, RunningInv, TypeOK, ZfsTypeOK
<1>2. CASE MountBE(p)
  BY <1>2 DEF MountBE, Check, Call, StorageStep
<1>3. CASE MountRoot(p)
  BY <1>1, <1>3 DEF MountRoot, Call, Works, StorageStep
<1>4. CASE MountBoot(p)
  BY <1>1, <1>4 DEF MountBoot, Call, Works, StorageStep
<1>5. CASE UnmountBE(p)
  BY <1>5 DEF UnmountBE, Check, Call, StorageStep
<1>6. CASE UnmountBoot(p)
  BY <1>1, <1>6 DEF UnmountBoot, UnmountCallback, Call, Works, StorageStep
<1>7. CASE UnmountRoot(p)
  BY <1>1, <1>7 DEF UnmountRoot, UnmountCallback, Call, Works, StorageStep
<1>8. CASE SnapshotBE(p)
  BY <1>8 DEF SnapshotBE, Check, Call, StorageStep
<1>9. CASE PreSnapshot(p)
  BY <1>9 DEF PreSnapshot, Hook, Check, Call, StorageStep
<1>10. CASE SnapshotRoot(p)
  BY <1>1, <1>10, ProcFacts, CommandFields DEF SnapshotRoot, Call, Works, At, Fits, StorageStep
<1>11. CASE SnapshotBoot(p)
  BY <1>1, <1>11, ProcFacts, CommandFields DEF SnapshotBoot, Call, Works, At, Fits, StorageStep
<1> QED
  BY <1>2, <1>3, <1>4, <1>5, <1>6, <1>7, <1>8, <1>9, <1>10, <1>11 DEF MountStep, SnapshotStep

\* Every step of a command has one effect on the pool.
LEMMA CommandEffect ==
  ASSUME RunningInv, NEW p \in Procs, CommandStep(p)
  PROVE  StorageStep(p)
<1>1. CASE ValidateSystem(p)
  BY <1>1 DEF ValidateSystem, Check, Call, StorageStep
<1> QED
  BY <1>1, TempMountEffect, ActivateEffect, CreateEffect, DestroyEffect, RenameEffect,
     MountSnapshotEffect
     DEF CommandStep

(***************************************************************************)
(* What the effects leave of the activated environment.                    *)
(***************************************************************************)
\* SingleInv, for the process that takes the step.
LEMMA SoloFacts ==
  ASSUME SingleInv, NEW p \in Procs
  PROVE  /\ RunningInv
         /\ Belongs(proc[p].cmd, proc[p].pc)
         /\ Standing(proc[p])
         /\ DoneSoFar(proc[p])
BY DEF SingleInv, Solo

\* In any environment but b the datasets of b are Root(b) and Boot(b), and no others.
LEMMA PairFacts ==
  /\ \A n, m : Root(n) = Root(m) => n = m
  /\ \A n, m : Boot(n) = Boot(m) => n = m
  /\ \A n, m : Root(n) # Boot(m)
  /\ \A n, q : <<q, n>> = Root(n) \/ <<q, n>> = Boot(n) \/ q \notin {"root", "boot"}
BY DEF Root, Boot

\* No effect takes a dataset of the activated environment or its name from it.
LEMMA EffectKeepsActive ==
  ASSUME SingleInv, NEW p \in Procs, StorageStep(p)
  PROVE  /\ ActiveSafe'
         /\ Root(bootfs) \in fs'
<1> DEFINE c == proc[p].cmd
<1>1. /\ bootfs \in Names /\ Root(bootfs) \in fs
      /\ BootPool => Boot(bootfs) \in fs
  BY DEF SingleInv, ActiveSafe, Existing, RunningInv, TypeOK, ZfsTypeOK
<1>2. ASSUME bootfs' = bootfs, Root(bootfs) \in fs', BootPool => Boot(bootfs) \in fs'
      PROVE  ActiveSafe' /\ Root(bootfs) \in fs'
  BY <1>1, <1>2, ZfsAssumption DEF ActiveSafe, Existing
<1>3. CASE fs \subseteq fs' /\ bootfs' = bootfs
  BY <1>1, <1>2, <1>3
<1>4. CASE At(p, "set_bootfs") /\ CanSetBootfs(c.be) /\ SetBootfs(c.be)
  <2>1. Existing(c.be) /\ c.be \in Names /\ c.be # NoName
    BY <1>4, SoloFacts, ProcFacts, ZfsAssumption DEF At, Standing, SingleInv
  <2> QED
    BY <1>1, <1>4, <2>1 DEF SetBootfs, ActiveSafe, Existing
<1>5. CASE At(p, "destroy_fs") /\ CanDestroyFs(Target(p)) /\ DestroyFs(Target(p))
  <2>1. c.be # bootfs
    BY <1>5, SoloFacts DEF At, Standing
  <2>2. Target(p) # Root(bootfs) /\ Target(p) # Boot(bootfs)
    BY <2>1 DEF Target, Root, Boot
  <2> QED
    BY <1>1, <1>2, <1>5, <2>2 DEF DestroyFs
<1>6. ASSUME NEW d, NEW e, CanRename(d, e), Rename(d, e),
             d # Root(bootfs), d # Boot(bootfs)
      PROVE  ActiveSafe' /\ Root(bootfs) \in fs'
  BY <1>1, <1>2, <1>6 DEF Rename, Renamed
<1>7. CASE At(p, "rename_root") \/ At(p, "rename_boot")
  <2>1. c.be # bootfs
    BY <1>7, SoloFacts DEF At, Standing
  <2>2. \A n \in {Root(c.be), Boot(c.be)} : n # Root(bootfs) /\ n # Boot(bootfs)
    BY <2>1 DEF Root, Boot
  <2> QED
    BY <1>3, <1>6, <1>7, <2>2
       DEF StorageStep, At, zfsVars, Mount, Unmount, SetMountpoint, Promote, Snapshot, DestroySnap, Clone
<1> QED
  BY <1>3, <1>4, <1>5, <1>7
     DEF StorageStep, zfsVars, Mount, Unmount, SetMountpoint, Promote, Snapshot, DestroySnap, Clone

\* Every effect is an operation of BootEnvs on the root datasets, or none.
LEMMA EffectImplementsBE ==
  ASSUME SingleInv, NEW p \in Procs, StorageStep(p), UNCHANGED running
  PROVE  [BE!BENext]_(BE!bevars)
<1> DEFINE c == proc[p].cmd
           B == {n \in Names : Root(n) \in fs}
           Bp == {n \in Names : Root(n) \in fs'}
<1>1. /\ bootfs \in Names
      /\ running \in Names /\ Root(running) \in mounted
      /\ mounted \subseteq fs /\ fs \subseteq Datasets
      /\ proc[p].pc # "idle" => c.be \in Names
  BY ProcFacts, ZfsAssumption
     DEF SingleInv, ActiveSafe, RunningInv, RunningSafe, TypeOK, ZfsTypeOK, Pools, Root
<1>2. CASE UNCHANGED <<fs, bootfs>>
  BY <1>2 DEF BE!bevars
<1>3. ASSUME NEW d \in Datasets, NEW src, NEW s, CanClone(d, src, s), Clone(d, src, s)
      PROVE  [BE!BENext]_(BE!bevars)
  <2>1. fs' = fs \cup {d} /\ UNCHANGED <<bootfs, running>> /\ d \notin fs /\ d[2] \in Names
    BY <1>3, DatasetFacts DEF Clone, CanClone
  <2>2. CASE d = Root(d[2])
    <3>1. Bp = B \cup {d[2]} /\ d[2] \in Names \ B
      BY <2>1, <2>2, PairFacts
    <3> QED
      BY <2>1, <3>1 DEF BE!BENext, BE!CreateBE
  <2>3. CASE d # Root(d[2])
    <3>1. \A n : d # Root(n)
      BY <2>3 DEF Root
    <3> QED
      BY <2>1, <3>1 DEF BE!bevars
  <2> QED
    BY <2>2, <2>3
<1>4. CASE At(p, "set_bootfs") /\ CanSetBootfs(c.be) /\ SetBootfs(c.be)
  BY <1>1, <1>4 DEF At, CanSetBootfs, SetBootfs, BE!BENext, BE!ActivateBE
<1>5. CASE At(p, "destroy_fs") /\ CanDestroyFs(Target(p)) /\ DestroyFs(Target(p))
  <2>1. /\ c.be # bootfs /\ c.be \in Names
        /\ fs' = fs \ {Target(p)} /\ Target(p) \in fs /\ Target(p) \notin mounted
        /\ UNCHANGED bootfs
    BY <1>1, <1>5, SoloFacts, PairFacts DEF At, Standing, CanDestroyFs, DestroyFs, Target, Root
  <2>2. CASE proc[p].pool = "root"
    <3>1. Target(p) = Root(c.be)
      BY <2>2 DEF Target, Root
    <3>2. c.be \in B \ {bootfs, running} /\ Bp = B \ {c.be}
      BY <1>1, <2>1, <3>1, PairFacts
    <3> QED
      BY <2>1, <3>2 DEF BE!BENext, BE!DestroyBE
  <2>3. CASE proc[p].pool # "root"
    <3>1. \A n : Target(p) # Root(n)
      BY <2>3 DEF Target, Root
    <3> QED
      BY <2>1, <3>1 DEF BE!bevars
  <2> QED
    BY <2>2, <2>3
<1>6. CASE /\ At(p, "rename_root") /\ CanRename(Root(c.be), Root(c.to))
           /\ Rename(Root(c.be), Root(c.to))
  <2>1. c.be # bootfs /\ c.be # running /\ c.be \in Names /\ c.to \in Names
    BY <1>1, <1>6, SoloFacts, ProcFacts, CommandFields DEF At, Standing, Spares, Fits
  <2>2. /\ fs' = (fs \ {Root(c.be)}) \cup {Root(c.to)} /\ UNCHANGED bootfs
        /\ Root(c.be) \in fs /\ Root(c.to) \notin fs
    BY <1>6, <2>1, PairFacts DEF Rename, Renamed, CanRename
  <2>3. /\ c.be \in B \ {bootfs, running} /\ c.to \in Names \ B
        /\ Bp = (B \ {c.be}) \cup {c.to}
    BY <2>1, <2>2, PairFacts
  <2> QED
    BY <2>1, <2>2, <2>3 DEF BE!BENext, BE!RenameTo
<1>7. CASE /\ At(p, "rename_boot") /\ CanRename(Boot(c.be), Boot(c.to))
           /\ Rename(Boot(c.be), Boot(c.to))
  <2>1. /\ fs' = (fs \ {Boot(c.be)}) \cup {Boot(c.to)} /\ UNCHANGED bootfs
    BY <1>7, PairFacts DEF Rename, Renamed, CanRename
  <2> QED
    BY <2>1, PairFacts DEF BE!bevars
<1> QED
  BY <1>2, <1>3, <1>4, <1>5, <1>6, <1>7
     DEF StorageStep, zfsVars, Mount, Unmount, SetMountpoint, Promote, Snapshot, DestroySnap

(***************************************************************************)
(* Snapshots of one dataset have different names.                          *)
(***************************************************************************)
\* A snapshot whose name is not taken, at the end.
LEMMA UniqueAppend ==
  ASSUME NEW S, NEW seq \in Seq(S), NEW s \in S, Unique(seq),
         \A i \in 1 .. Len(seq) : seq[i] # s
  PROVE  Unique(Append(seq, s))
<1>1. Len(Append(seq, s)) = Len(seq) + 1 /\ Len(seq) \in Nat
  OBVIOUS
<1>2. \A i \in 1 .. Len(seq) : Append(seq, s)[i] = seq[i]
  OBVIOUS
<1>3. Append(seq, s)[Len(seq) + 1] = s
  OBVIOUS
<1> QED
  BY <1>1, <1>2, <1>3 DEF Unique

\* A part of a sequence of different names.
LEMMA UniquePart ==
  ASSUME NEW S, NEW seq \in Seq(S), Unique(seq), NEW m \in 1 .. Len(seq) + 1, NEW n \in 0 .. Len(seq)
  PROVE  /\ Unique(SubSeq(seq, m, n))
         /\ SubSeq(seq, m, n) \in Seq(S)
         /\ Len(SubSeq(seq, m, n)) = (IF m <= n THEN n - m + 1 ELSE 0)
         /\ \A i \in 1 .. Len(SubSeq(seq, m, n)) :
              m + i - 1 \in m .. n /\ SubSeq(seq, m, n)[i] = seq[m + i - 1]
<1>1. Len(seq) \in Nat
  OBVIOUS
<1>2. \A i \in m .. n : seq[i] \in S
  BY <1>1
<1>3. SubSeq(seq, m, n) \in Seq(S)
  BY <1>1, <1>2
<1>4. Len(SubSeq(seq, m, n)) = IF m <= n THEN n - m + 1 ELSE 0
  BY <1>1
<1>5. \A i \in 1 .. Len(SubSeq(seq, m, n)) :
        m + i - 1 \in m .. n /\ SubSeq(seq, m, n)[i] = seq[m + i - 1]
  BY <1>1, <1>4
<1>6. Unique(SubSeq(seq, m, n))
  BY <1>1, <1>4, <1>5 DEF Unique
<1> QED
  BY <1>3, <1>4, <1>5, <1>6

\* Two sequences with no name in common.
LEMMA UniqueConcat ==
  ASSUME NEW S, NEW a \in Seq(S), NEW b \in Seq(S), Unique(a), Unique(b),
         \A i \in 1 .. Len(a), j \in 1 .. Len(b) : a[i] # b[j]
  PROVE  Unique(a \o b)
<1>1. Len(a) \in Nat /\ Len(b) \in Nat /\ Len(a \o b) = Len(a) + Len(b)
  OBVIOUS
<1>2. \A i \in 1 .. Len(a) : (a \o b)[i] = a[i]
  OBVIOUS
<1>3. \A i \in Len(a) + 1 .. Len(a) + Len(b) : (a \o b)[i] = b[i - Len(a)] /\ i - Len(a) \in 1 .. Len(b)
  BY <1>1
<1> QED
  BY <1>1, <1>2, <1>3 DEF Unique

\* The snapshots without the one at position k.
LEMMA UniqueWithout ==
  ASSUME NEW S, NEW seq \in Seq(S), Unique(seq), NEW k \in 1 .. Len(seq)
  PROVE  LET rest == SubSeq(seq, 1, k - 1) \o SubSeq(seq, k + 1, Len(seq)) IN
         /\ Unique(rest)
         /\ \A i \in 1 .. Len(rest) : rest[i] # seq[k]
<1> DEFINE a == SubSeq(seq, 1, k - 1)
           b == SubSeq(seq, k + 1, Len(seq))
<1>1. Len(seq) \in Nat /\ k - 1 \in 0 .. Len(seq) /\ k + 1 \in 1 .. Len(seq) + 1
  OBVIOUS
<1>2. /\ Unique(a) /\ a \in Seq(S) /\ Len(a) \in Nat
      /\ \A i \in 1 .. Len(a) : 1 + i - 1 \in 1 .. k - 1 /\ a[i] = seq[1 + i - 1]
  BY <1>1, UniquePart
<1>3. /\ Unique(b) /\ b \in Seq(S) /\ Len(b) \in Nat
      /\ \A i \in 1 .. Len(b) : k + 1 + i - 1 \in k + 1 .. Len(seq) /\ b[i] = seq[k + 1 + i - 1]
  BY <1>1, UniquePart
<1> HIDE DEF a, b
<1>4. \A i \in 1 .. Len(a) : i \in 1 .. k - 1 /\ a[i] = seq[i]
  BY <1>2
<1>5. \A i \in 1 .. Len(b) : k + i \in k + 1 .. Len(seq) /\ b[i] = seq[k + i]
  BY <1>1, <1>3
<1>6. \A i \in 1 .. Len(a), j \in 1 .. Len(b) : a[i] # b[j]
  BY <1>1, <1>4, <1>5 DEF Unique
<1>7. Unique(a \o b)
  BY <1>2, <1>3, <1>6, UniqueConcat
<1>8. (\A i \in 1 .. Len(a) : a[i] # seq[k]) /\ (\A i \in 1 .. Len(b) : b[i] # seq[k])
  BY <1>1, <1>4, <1>5 DEF Unique
<1>9. \A i \in 1 .. Len(a \o b) : (a \o b)[i] # seq[k]
  <2>1. Len(a \o b) = Len(a) + Len(b)
    BY <1>2, <1>3
  <2>2. \A i \in 1 .. Len(a) : (a \o b)[i] = a[i]
    BY <1>2, <1>3
  <2>3. \A i \in Len(a) + 1 .. Len(a) + Len(b) :
          (a \o b)[i] = b[i - Len(a)] /\ i - Len(a) \in 1 .. Len(b)
    BY <1>2, <1>3
  <2> QED
    BY <1>2, <1>3, <1>8, <2>1, <2>2, <2>3
<1> QED
  BY <1>7, <1>9 DEF a, b

\* What a snapshot or its destruction makes of the names, and that it leaves
\* the snapshots of all other datasets.
LEMMA SnapshotNames ==
  ASSUME ZfsTypeOK, UniqueNames, NEW d, NEW s \in Suffixes, CanSnapshot(d, s), Snapshot(d, s)
  PROVE  /\ UniqueNames'
         /\ s \in SnapsOf(d)'
<1>1. d \in Datasets /\ snaps[d] \in Seq(Suffixes) /\ snaps'[d] = Append(snaps[d], s)
  BY DEF ZfsTypeOK, CanSnapshot, Snapshot
<1>2. \A e \in Datasets \ {d} : snaps'[e] = snaps[e]
  BY DEF ZfsTypeOK, Snapshot
<1>3. \A i \in 1 .. Len(snaps[d]) : snaps[d][i] # s
  BY DEF CanSnapshot, SnapsOf
<1>4. Unique(snaps'[d])
  BY <1>1, <1>3, UniqueAppend DEF UniqueNames
<1>5. UniqueNames'
  <2>1. \A e \in Datasets : Unique(snaps'[e])
    BY <1>2, <1>4 DEF UniqueNames
  <2> QED
    BY <2>1 DEF UniqueNames, Unique, Datasets, Pools
<1>6. /\ Len(snaps'[d]) = Len(snaps[d]) + 1 /\ Len(snaps[d]) \in Nat
      /\ snaps'[d][Len(snaps[d]) + 1] = s
  BY <1>1
<1> QED
  BY <1>5, <1>6 DEF SnapsOf

\* zfs_destroy of a snapshot: the name is free again.
LEMMA DestroySnapNames ==
  ASSUME ZfsTypeOK, UniqueNames, NEW d, NEW s, CanDestroySnap(d, s), DestroySnap(d, s)
  PROVE  /\ UniqueNames'
         /\ s \notin SnapsOf(d)'
         /\ \A e \in Datasets : e # d => SnapsOf(e)' = SnapsOf(e)
<1>1. d \in Datasets /\ snaps[d] \in Seq(Suffixes) /\ Unique(snaps[d])
  BY DEF ZfsTypeOK, CanDestroySnap, UniqueNames
<1>2. Position(d, s) \in 1 .. Len(snaps[d]) /\ snaps[d][Position(d, s)] = s
  BY <1>1, PositionFact DEF CanDestroySnap
<1>3. snaps'[d] = SubSeq(snaps[d], 1, Position(d, s) - 1)
                    \o SubSeq(snaps[d], Position(d, s) + 1, Len(snaps[d]))
  BY <1>1 DEF DestroySnap, ZfsTypeOK
<1>4. Unique(snaps'[d]) /\ \A i \in 1 .. Len(snaps'[d]) : snaps'[d][i] # s
  BY <1>1, <1>2, <1>3, UniqueWithout
<1>5. \A e \in Datasets \ {d} : snaps'[e] = snaps[e]
  BY DEF ZfsTypeOK, DestroySnap
<1>6. UniqueNames'
  BY <1>1, <1>4, <1>5 DEF UniqueNames, Unique, Datasets, Pools
<1> QED
  BY <1>4, <1>5, <1>6 DEF SnapsOf

\* zfs_promote: the snapshots that move have other names than those that are there.
LEMMA PromoteNames ==
  ASSUME ZfsTypeOK, UniqueNames, NEW d, CanPromote(d), Promote(d)
  PROVE  UniqueNames'
<1> DEFINE o == origin[d][1]
           k == Position(o, origin[d][2])
           head == SubSeq(snaps[o], 1, k)
           tail == SubSeq(snaps[o], k + 1, Len(snaps[o]))
<1>1. d \in Datasets /\ o \in Datasets /\ origin[d][2] \in SnapsOf(o)
  BY DEF ZfsTypeOK, CanPromote
<1>2. /\ snaps[o] \in Seq(Suffixes) /\ snaps[d] \in Seq(Suffixes)
      /\ Unique(snaps[o]) /\ Unique(snaps[d])
      /\ k \in 1 .. Len(snaps[o]) /\ Len(snaps[o]) \in Nat
  BY <1>1, PositionFact DEF UniqueNames
<1>3. \A i \in 1 .. k : \A j \in 1 .. Len(snaps[d]) : snaps[o][i] # snaps[d][j]
  BY DEF CanPromote, PromotedSnaps, SnapsOf
<1>4. /\ Unique(head) /\ head \in Seq(Suffixes)
      /\ \A i \in 1 .. Len(head) : 1 + i - 1 \in 1 .. k /\ head[i] = snaps[o][1 + i - 1]
  <2>1. 1 \in 1 .. Len(snaps[o]) + 1 /\ k \in 0 .. Len(snaps[o])
    BY <1>2
  <2>2. ASSUME NEW seq \in Seq(Suffixes), Unique(seq), NEW n \in 0 .. Len(seq),
               1 \in 1 .. Len(seq) + 1
        PROVE  /\ Unique(SubSeq(seq, 1, n)) /\ SubSeq(seq, 1, n) \in Seq(Suffixes)
               /\ \A i \in 1 .. Len(SubSeq(seq, 1, n)) :
                    1 + i - 1 \in 1 .. n /\ SubSeq(seq, 1, n)[i] = seq[1 + i - 1]
    BY <2>2, UniquePart
  <2> QED
    BY <1>2, <2>1, <2>2
<1>5. Unique(tail)
  <2>1. k + 1 \in 1 .. Len(snaps[o]) + 1 /\ Len(snaps[o]) \in 0 .. Len(snaps[o])
    BY <1>2
  <2> QED
    BY <1>2, <2>1, UniquePart
<1>6. \A i \in 1 .. Len(head) : i \in 1 .. k /\ head[i] = snaps[o][i]
  <2>1. \A i \in 1 .. Len(head) : 1 + i - 1 = i
    BY <1>4
  <2> QED
    BY <1>4, <2>1
<1>7. Unique(head \o snaps[d])
  <2>1. \A i \in 1 .. Len(head), j \in 1 .. Len(snaps[d]) : head[i] # snaps[d][j]
    BY <1>3, <1>6
  <2> HIDE DEF head
  <2> QED
    BY <1>2, <1>4, <2>1, UniqueConcat
<1>8. \A e \in Datasets : \/ snaps'[e] = head \o snaps[d]
                          \/ snaps'[e] = tail
                          \/ snaps'[e] = snaps[e]
  BY <1>1 DEF ZfsTypeOK, Promote
<1> HIDE DEF head, tail
<1>9. \A e \in Datasets : Unique(snaps'[e])
  BY <1>5, <1>7, <1>8 DEF UniqueNames
<1> QED
  BY <1>9 DEF UniqueNames, Unique, Datasets, Pools

\* zfs_rename takes the snapshots along.
LEMMA RenameNames ==
  ASSUME ZfsTypeOK, UniqueNames, NEW d, NEW e \in Datasets, CanRename(d, e), Rename(d, e)
  PROVE  UniqueNames'
<1>1. d \in Datasets
  BY DEF ZfsTypeOK, CanRename
<1>2. \A x \in Datasets : snaps'[x] \in {snaps[x], snaps[d], << >>}
  BY <1>1 DEF ZfsTypeOK, Rename
<1>3. Unique(<< >>)
  BY DEF Unique
<1>4. \A x \in Datasets : Unique(snaps'[x])
  BY <1>1, <1>2, <1>3 DEF UniqueNames
<1> QED
  BY <1>4 DEF UniqueNames, Unique, Datasets, Pools

\* All effects.
LEMMA EffectKeepsNames ==
  ASSUME SingleInv, NEW p \in Procs, StorageStep(p)
  PROVE  UniqueNames'
<1>1. ZfsTypeOK /\ UniqueNames
  BY DEF SingleInv, RunningInv, TypeOK
<1>2. CASE UNCHANGED snaps
  BY <1>1, <1>2 DEF UniqueNames, Unique, Datasets, Pools
<1>3. ASSUME NEW d, NEW e \in Datasets, CanRename(d, e), Rename(d, e)
      PROVE  UniqueNames'
  BY <1>1, <1>3, RenameNames
<1>4. At(p, "rename_root") => Root(proc[p].cmd.to) \in Datasets
  BY SoloFacts, ProcFacts, CommandFields, DatasetFacts DEF At, Fits
<1> QED
  BY <1>1, <1>2, <1>3, <1>4, SnapshotNames, DestroySnapNames, PromoteNames
     DEF StorageStep, zfsVars, Mount, Unmount, SetMountpoint, Clone, SetBootfs, DestroyFs

(***************************************************************************)
(* What a process has established.                                         *)
(***************************************************************************)
\* An idle process has established nothing.
LEMMA ReturnSolo ==
  ASSUME RunningInv, NEW p \in Procs, NEW r \in Results, Return(p, r)
  PROVE  /\ Solo(proc[p])'
         /\ proc'[p] = Idle(r)
<1>1. proc'[p] = Idle(r)
  BY DEF RunningInv, TypeOK, Return
<1>2. proc'[p].pc = "idle" /\ proc'[p].cmd.op = "none"
  BY <1>1 DEF Idle, NoCommand
<1> QED
  BY <1>1, <1>2 DEF Solo, Belongs, Standing, DoneSoFar, HookLabels

\* A step that only moves to label l.
LEMMA GotoFields ==
  ASSUME RunningInv, NEW p \in Procs, NEW l, Goto(p, l)
  PROVE  /\ proc'[p].pc = l /\ proc'[p].cmd = proc[p].cmd /\ proc'[p].act = proc[p].act
         /\ proc'[p].pool = proc[p].pool /\ proc'[p].ret = proc[p].ret
BY DEF RunningInv, TypeOK, ProcState, Goto

\* The results of commands differ.
LEMMA IdleResults ==
  /\ Idle("ok") # Idle("fail") /\ Idle("ok") # Idle("killed")
  /\ \A r : Idle(r).pc = "idle" /\ Idle(r).ret = r
<1>1. \A r : Idle(r).pc = "idle" /\ Idle(r).ret = r
  BY DEF Idle
<1>2. Idle("ok").ret = "ok" /\ Idle("fail").ret = "fail" /\ Idle("killed").ret = "killed"
  BY <1>1
<1> QED
  BY <1>1, <1>2

\* A step of p that succeeds has brought about what the command was for.
Succeeds(p) ==
  \A c \in AllCommands :
    proc[p].cmd = c /\ proc'[p] = Idle("ok") =>
      c.op \in {"activate", "rename"} \/ Accomplished(c)'

\* A step that moves to label l, where it is not idle, reports nothing.
LEMMA GotoSucceeds ==
  ASSUME NEW p, proc'[p].pc # "idle"
  PROVE  Succeeds(p)
BY IdleResults DEF Succeeds

\* A step that returns another result.
LEMMA FailSucceeds ==
  ASSUME NEW p, NEW r \in {"fail", "killed"}, proc'[p] = Idle(r)
  PROVE  Succeeds(p)
BY IdleResults DEF Succeeds

\* Effects that leave the set of datasets alone.
LEMMA SameDatasets ==
  ASSUME UNCHANGED fs
  PROVE  \A n : Existing(n)' = Existing(n)
BY DEF Existing

\* A step that fails.
LEMMA FailStep ==
  ASSUME RunningInv, NEW p \in Procs, Return(p, "fail")
  PROVE  Solo(proc[p])' /\ Succeeds(p)
BY ReturnSolo, FailSucceeds DEF Results

\* The datasets of an environment.
LEMMA PairDatasets ==
  \A n : Pools \X {n} = IF BootPool THEN {Root(n), Boot(n)} ELSE {Root(n)}
BY DEF Pools, Root, Boot

\* An environment with its datasets is what create was for.
LEMMA CreateAccomplished ==
  ASSUME NEW c, c.op = "create", Existing(c.be)'
  PROVE  Accomplished(c)'
BY DEF Accomplished, Existing, Pools, Root, Boot

\* The temporary mount, from one label to the next.
LEMMA HookGoto ==
  ASSUME SingleInv, NEW p \in Procs, NEW l \in HookLabels \cup {"cleanup_unmount", "cleanup_reset"},
         Goto(p, l), proc[p].cmd.op \in {"activate", "create"}, Existing(proc[p].cmd.be),
         UNCHANGED fs
  PROVE  Solo(proc[p])' /\ Succeeds(p)
<1>1. RunningInv
  BY DEF SingleInv
<1>2. proc'[p].pc = l /\ proc'[p].cmd = proc[p].cmd /\ proc'[p].pool = proc[p].pool
  BY <1>1, GotoFields
<1>3. l \in {"tmp_mountpoint", "tmp_mount", "hook", "tmp_unmount", "tmp_reset",
             "cleanup_unmount", "cleanup_reset"}
  BY DEF HookLabels
<1>4. Solo(proc[p])'
  BY <1>2, <1>3, SameDatasets DEF Solo, Belongs, Standing, DoneSoFar
<1>5. Succeeds(p)
  BY <1>2, <1>3, GotoSucceeds
<1> QED
  BY <1>4, <1>5

\* The ways out of the temporary mount.
LEMMA HookDoneStep ==
  ASSUME SingleInv, NEW p \in Procs, HookDone(p), UNCHANGED fs,
         proc[p].cmd.op \in {"activate", "create"}, Existing(proc[p].cmd.be)
  PROVE  Solo(proc[p])' /\ Succeeds(p)
<1>1. RunningInv
  BY DEF SingleInv
<1>2. CASE proc[p].cmd.op = "activate"
  <2>1. Goto(p, "set_bootfs")
    BY <1>2 DEF HookDone
  <2>2. proc'[p].pc = "set_bootfs" /\ proc'[p].cmd = proc[p].cmd /\ proc'[p].pool = proc[p].pool
    BY <1>1, <2>1, GotoFields
  <2> QED
    BY <1>2, <2>2, SameDatasets, GotoSucceeds
       DEF Solo, Belongs, Standing, DoneSoFar, HookLabels
<1>3. CASE proc[p].cmd.op # "activate"
  <2>1. Return(p, "ok")
    BY <1>3 DEF HookDone
  <2>2. ASSUME NEW c, c = proc[p].cmd
        PROVE  Accomplished(c)'
    BY <1>3, <2>2, SameDatasets, CreateAccomplished
  <2> QED
    BY <1>1, <2>1, <2>2, ReturnSolo DEF Results, Succeeds
<1> QED
  BY <1>2, <1>3

\* A hook that fails: activate succeeds all the same.
LEMMA HookFailedStep ==
  ASSUME SingleInv, NEW p \in Procs, HookFailed(p)
  PROVE  Solo(proc[p])' /\ Succeeds(p)
<1>1. RunningInv
  BY DEF SingleInv
<1>2. CASE proc[p].cmd.op = "activate"
  BY <1>1, <1>2, ReturnSolo DEF HookFailed, Results, Succeeds
<1>3. CASE proc[p].cmd.op # "activate"
  BY <1>1, <1>3, FailStep DEF HookFailed
<1> QED
  BY <1>2, <1>3

\* The environment of the command stays mounted for the hook, and exists.
LEMMA TempMountSolo ==
  ASSUME SingleInv, NEW p \in Procs, TempMountStep(p)
  PROVE  Solo(proc[p])' /\ Succeeds(p)
<1>1. UNCHANGED fs
  BY DEF TempMountStep, TempMountpoint, TempMount, MountedHook, TempUnmountAfterHook,
         TempUnmountOnError, TempUnmount, TempResetAfterHook, TempResetOnError, TempReset,
         Hook, Check, Call, Works, Fails, SetMountpoint, Mount, Unmount, zfsVars
<1>2. proc[p].pc \in HookLabels =>
        proc[p].cmd.op \in {"activate", "create"} /\ Existing(proc[p].cmd.be)
  BY SoloFacts DEF Belongs, Standing
<1>3. CASE TempMountpoint(p)
  <2>1. proc[p].pc \in HookLabels
    BY <1>3 DEF TempMountpoint, At, HookLabels
  <2>2. Goto(p, "tmp_mount") \/ Goto(p, "cleanup_unmount")
    BY <1>3 DEF TempMountpoint, Call
  <2> QED
    BY <1>1, <1>2, <2>1, <2>2, HookGoto DEF HookLabels
<1>4. CASE TempMount(p)
  <2>1. proc[p].pc \in HookLabels
    BY <1>4 DEF TempMount, At, HookLabels
  <2>2. Goto(p, "hook") \/ Goto(p, "cleanup_unmount")
    BY <1>4 DEF TempMount, Call
  <2> QED
    BY <1>1, <1>2, <2>1, <2>2, HookGoto DEF HookLabels
<1>5. CASE MountedHook(p)
  <2>1. proc[p].pc \in HookLabels
    BY <1>5 DEF MountedHook, At, HookLabels
  <2>2. HookDone(p) \/ Goto(p, "tmp_unmount") \/ HookFailed(p)
    BY <1>5 DEF MountedHook, Hook, Check, Call
  <2> QED
    BY <1>1, <1>2, <2>1, <2>2, HookGoto, HookDoneStep, HookFailedStep DEF HookLabels
<1>6. CASE TempUnmountAfterHook(p) \/ TempResetAfterHook(p)
  <2>1. proc[p].pc \in HookLabels
    BY <1>6 DEF TempUnmountAfterHook, TempUnmount, TempResetAfterHook, TempReset, At, HookLabels
  <2>2. HookDone(p) \/ Goto(p, "tmp_reset") \/ HookFailed(p)
    BY <1>6 DEF TempUnmountAfterHook, TempUnmount, TempResetAfterHook, TempReset, Call
  <2> QED
    BY <1>1, <1>2, <2>1, <2>2, HookGoto, HookDoneStep, HookFailedStep DEF HookLabels
<1>7. CASE TempUnmountOnError(p) \/ TempResetOnError(p)
  <2>1. Goto(p, "cleanup_reset") \/ HookFailed(p)
    BY <1>7 DEF TempUnmountOnError, TempUnmount, TempResetOnError, TempReset, Call
  <2>2. CASE Goto(p, "cleanup_reset")
    <3>1. /\ proc'[p].pc = "cleanup_reset" /\ proc'[p].cmd = proc[p].cmd
          /\ proc'[p].pool = proc[p].pool
      BY <2>2, GotoFields DEF SingleInv
    <3> QED
      BY <1>1, <3>1, GotoSucceeds, SoloFacts
         DEF Solo, Belongs, Standing, DoneSoFar, HookLabels
  <2> QED
    BY <2>1, <2>2, HookFailedStep
<1> QED
  BY <1>3, <1>4, <1>5, <1>6, <1>7 DEF TempMountStep

\* activate establishes that its environment exists.
LEMMA ActivateSolo ==
  ASSUME SingleInv, NEW p \in Procs, ActivateStep(p)
  PROVE  Solo(proc[p])' /\ Succeeds(p)
<1>1. RunningInv
  BY DEF SingleInv
<1>2. CASE Activate(p)
  <2>1. proc[p].cmd.op = "activate"
    BY <1>2, SoloFacts DEF Activate, At, Belongs
  <2>2. UNCHANGED fs
    BY <1>2 DEF Activate, Check, Call, zfsVars
  <2>3. \/ /\ Existing(proc[p].cmd.be)
           /\ \E l \in HookLabels \cup {"set_bootfs"} : Goto(p, l)
        \/ Return(p, "fail")
    BY <1>2 DEF Activate, Check, Call, Works, TempMountAndHook, HookLabels
  <2>4. ASSUME Existing(proc[p].cmd.be), Goto(p, "set_bootfs")
        PROVE  Solo(proc[p])' /\ Succeeds(p)
    <3>1. HookDone(p)
      BY <2>1, <2>4 DEF HookDone
    <3> QED
      BY <2>1, <2>2, <2>4, <3>1, HookDoneStep
  <2> QED
    BY <1>1, <2>1, <2>2, <2>3, <2>4, HookGoto, FailStep
<1>3. ASSUME proc[p].cmd.op = "activate", NEW l \in {"promote_root", "promote_boot", "post_activate"},
             proc'[p].pc = l, proc'[p].cmd = proc[p].cmd
      PROVE  Solo(proc[p])' /\ Succeeds(p)
  BY <1>3, GotoSucceeds DEF Solo, Belongs, Standing, DoneSoFar, HookLabels
<1>4. CASE ActivateSetBootfs(p)
  <2>1. proc[p].cmd.op = "activate"
    BY <1>4, SoloFacts DEF ActivateSetBootfs, At, Belongs
  <2>2. Goto(p, "promote_root") \/ Return(p, "fail")
    BY <1>4 DEF ActivateSetBootfs, Call
  <2> QED
    BY <1>1, <1>3, <2>1, <2>2, GotoFields, FailStep
<1>5. CASE ActivatePromote(p)
  <2>1. proc[p].cmd.op = "activate"
    BY <1>5, SoloFacts DEF ActivatePromote, At, Belongs
  <2>2. (\E l \in {"promote_boot", "post_activate"} : Goto(p, l)) \/ Return(p, "fail")
    BY <1>5 DEF ActivatePromote, ActivateCb, Check, Call
  <2> QED
    BY <1>1, <1>3, <2>1, <2>2, GotoFields, FailStep
<1>6. CASE ActivatePromoteBoot(p)
  <2>1. proc[p].cmd.op = "activate"
    BY <1>6, SoloFacts DEF ActivatePromoteBoot, At, Belongs
  <2>2. \/ Goto(p, "post_activate")
        \/ proc' = [proc EXCEPT ![p].pc = "post_activate", ![p].ret = "fail"]
    BY <1>6 DEF ActivatePromoteBoot, ActivateCb, Check, Call
  <2>3. proc'[p].pc = "post_activate" /\ proc'[p].cmd = proc[p].cmd
    BY <1>1, <2>2, GotoFields, ProcFacts DEF RunningInv, TypeOK, ProcState
  <2> QED
    BY <1>3, <2>1, <2>3
<1>7. CASE PostActivate(p)
  <2>1. proc[p].cmd.op = "activate"
    BY <1>7, SoloFacts DEF PostActivate, At, Belongs
  <2>2. Return(p, proc[p].ret) /\ proc[p].ret \in Results
    BY <1>1, <1>7, ProcFacts DEF PostActivate, Hook, Check, Call, ProcState
  <2> QED
    BY <1>1, <2>1, <2>2, ReturnSolo DEF Succeeds
<1> QED
  BY <1>2, <1>4, <1>5, <1>6, <1>7 DEF ActivateStep

\* create: a command that stops after the root dataset fails.
LEMMA CreateSolo ==
  ASSUME SingleInv, NEW p \in Procs, CreateStep(p)
  PROVE  Solo(proc[p])' /\ Succeeds(p)
<1>1. RunningInv
  BY DEF SingleInv
<1>2. proc[p].cmd.op = "create"
  BY SoloFacts, ProcFacts
     DEF CreateStep, Create, CreateSnap, CreateSnapBoot, CreateAgain, CloneRoot, CloneBoot,
         PostCreate, At, Fits
<1>3. ASSUME NEW l \in {"create_snap", "create_snap_boot", "create_again", "clone_root",
                        "post_create"},
             proc'[p].pc = l, proc'[p].cmd = proc[p].cmd
      PROVE  Solo(proc[p])' /\ Succeeds(p)
  BY <1>2, <1>3, GotoSucceeds DEF Solo, Belongs, Standing, DoneSoFar, HookLabels
<1>4. CASE Create(p)
  <2>1. \/ Goto(p, "create_snap")
        \/ proc' = [proc EXCEPT ![p].pc = "create_again", ![p].sfx = proc[p].cmd.snap]
        \/ Return(p, "fail")
    BY <1>4 DEF Create, Check, Call
  <2>2. CASE proc' = [proc EXCEPT ![p].pc = "create_again", ![p].sfx = proc[p].cmd.snap]
    <3>1. proc'[p].pc = "create_again" /\ proc'[p].cmd = proc[p].cmd
      BY <1>1, <2>2 DEF RunningInv, TypeOK, ProcState
    <3> QED
      BY <1>3, <3>1
  <2> QED
    BY <1>1, <1>3, <2>1, <2>2, GotoFields, FailStep
<1>5. CASE CreateSnap(p)
  <2>1. \/ \E l \in {"create_again", "create_snap_boot"}, s \in Suffixes :
             proc' = [proc EXCEPT ![p].pc = l, ![p].sfx = s]
        \/ Return(p, "fail")
    BY <1>5 DEF CreateSnap, Call
  <2>2. ASSUME NEW l \in {"create_again", "create_snap_boot"}, NEW s \in Suffixes,
               proc' = [proc EXCEPT ![p].pc = l, ![p].sfx = s]
        PROVE  Solo(proc[p])' /\ Succeeds(p)
    <3>1. proc'[p].pc = l /\ proc'[p].cmd = proc[p].cmd
      BY <1>1, <2>2 DEF RunningInv, TypeOK, ProcState
    <3> QED
      BY <1>3, <3>1
  <2> QED
    BY <1>1, <2>1, <2>2, FailStep
<1>6. CASE CreateSnapBoot(p)
  <2>1. Goto(p, "create_again") \/ Return(p, "fail")
    BY <1>6 DEF CreateSnapBoot, Call
  <2> QED
    BY <1>1, <1>3, <2>1, GotoFields, FailStep
<1>7. CASE CreateAgain(p)
  <2>1. Goto(p, "clone_root") \/ Return(p, "fail")
    BY <1>7 DEF CreateAgain, Check, Call
  <2> QED
    BY <1>1, <1>3, <2>1, GotoFields, FailStep
<1>8. ASSUME CreateDone(p), NEW b, b = proc[p].cmd.be, Existing(b)'
      PROVE  Solo(proc[p])' /\ Succeeds(p)
  <2>1. CASE Goto(p, "post_create")
    BY <1>1, <1>3, <2>1, GotoFields
  <2>2. CASE Return(p, "ok")
    <3>1. \A c : c = proc[p].cmd => Accomplished(c)'
      BY <1>2, <1>8, CreateAccomplished
    <3> QED
      BY <1>1, <2>2, <3>1, ReturnSolo DEF Results, Succeeds
  <2> QED
    BY <1>8, <2>1, <2>2 DEF CreateDone
<1>9. CASE CloneRoot(p)
  <2>1. ASSUME Goto(p, "clone_boot"), Root(proc[p].cmd.be) \in fs'
        PROVE  Solo(proc[p])' /\ Succeeds(p)
    <3>1. proc'[p].pc = "clone_boot" /\ proc'[p].cmd = proc[p].cmd
      BY <1>1, <2>1, GotoFields
    <3> QED
      BY <1>2, <2>1, <3>1, GotoSucceeds DEF Solo, Belongs, Standing, DoneSoFar, HookLabels
  <2>2. ASSUME Clone(Root(proc[p].cmd.be), CreateSource(p), proc[p].sfx)
        PROVE  /\ Root(proc[p].cmd.be) \in fs'
               /\ ~BootPool => \A b : b = proc[p].cmd.be => Existing(b)'
    BY <2>2 DEF Clone, Existing
  <2>3. \/ /\ Clone(Root(proc[p].cmd.be), CreateSource(p), proc[p].sfx)
           /\ IF BootPool THEN Goto(p, "clone_boot") ELSE CreateDone(p)
        \/ Return(p, "fail")
    BY <1>9 DEF CloneRoot, Call
  <2> QED
    BY <1>1, <1>8, <2>1, <2>2, <2>3, FailStep
<1>10. CASE CloneBoot(p)
  <2>1. Root(proc[p].cmd.be) \in fs
    BY <1>10, SoloFacts DEF CloneBoot, At, DoneSoFar
  <2>2. \/ /\ Clone(Boot(proc[p].cmd.be), Boot(running), proc[p].sfx)
           /\ CreateDone(p)
        \/ Return(p, "fail")
    BY <1>10 DEF CloneBoot, Call
  <2>3. ASSUME Clone(Boot(proc[p].cmd.be), Boot(running), proc[p].sfx)
        PROVE  \A b : b = proc[p].cmd.be => Existing(b)'
    BY <2>1, <2>3 DEF Clone, Existing
  <2> QED
    BY <1>1, <1>8, <2>2, <2>3, FailStep
<1>11. CASE PostCreate(p)
  <2>1. \/ Existing(proc[p].cmd.be) /\ \E l \in HookLabels : Goto(p, l)
        \/ Return(p, "fail")
    BY <1>11 DEF PostCreate, Check, Call, Works, TempMountAndHook, HookLabels
  <2>2. UNCHANGED fs
    BY <1>11 DEF PostCreate, Check, Call, zfsVars
  <2> QED
    BY <1>1, <1>2, <2>1, <2>2, HookGoto, FailStep
<1> QED
  BY <1>4, <1>5, <1>6, <1>7, <1>9, <1>10, <1>11 DEF CreateStep

\* mount and unmount: the boot dataset after the root dataset, and before it.
LEMMA MountSolo ==
  ASSUME SingleInv, NEW p \in Procs, MountStep(p)
  PROVE  Solo(proc[p])' /\ Succeeds(p)
<1> DEFINE b == proc[p].cmd.be
<1>1. RunningInv /\ proc[p].cmd.op \in {"mount", "unmount", "snapshot"}
  BY SoloFacts, ProcFacts
     DEF MountStep, MountBE, MountRoot, MountBoot, UnmountBE, UnmountBoot, UnmountRoot, At, Fits
<1>2. ASSUME NEW l \in {"mount_root", "unmount_boot", "pre_snapshot", "snap_root"}, Goto(p, l)
      PROVE  Solo(proc[p])' /\ Succeeds(p)
  <2>1. proc'[p].pc = l /\ proc'[p].cmd = proc[p].cmd
    BY <1>1, <1>2, GotoFields
  <2> QED
    BY <1>1, <2>1, GotoSucceeds DEF Solo, Belongs, Standing, DoneSoFar, HookLabels
<1>3. CASE MountBE(p)
  BY <1>1, <1>2, <1>3, FailStep DEF MountBE, Check, Call
<1>4. ASSUME MountDone(p), proc[p].pc \in {"mount_root", "mount_boot"}, NEW n, n = b,
             Root(n) \in mounted', BootPool => Boot(n) \in mounted'
      PROVE  Solo(proc[p])' /\ Succeeds(p)
  <2>1. CASE Return(p, "ok") /\ proc[p].cmd.op = "mount"
    <3>1. Pools \X {b} \subseteq mounted'
      BY <1>4, PairDatasets
    <3>2. \A c : c = proc[p].cmd => Accomplished(c)'
      BY <2>1, <3>1 DEF Accomplished, Pools
    <3> QED
      BY <1>1, <2>1, <3>2, ReturnSolo DEF Results, Succeeds
  <2> QED
    BY <1>2, <1>4, <2>1 DEF MountDone
<1>5. CASE MountRoot(p)
  <2>1. \/ Mount(Root(b)) /\ IF BootPool THEN Goto(p, "mount_boot") ELSE MountDone(p)
        \/ Return(p, "fail")
    BY <1>5 DEF MountRoot, Call
  <2>2. ASSUME Mount(Root(b)), Goto(p, "mount_boot")
        PROVE  Solo(proc[p])' /\ Succeeds(p)
    <3>1. proc'[p].pc = "mount_boot" /\ proc'[p].cmd = proc[p].cmd
      BY <1>1, <2>2, GotoFields
    <3> QED
      BY <1>1, <2>2, <3>1, GotoSucceeds DEF Mount, Solo, Belongs, Standing, DoneSoFar, HookLabels
  <2>3. ASSUME Mount(Root(b)), ~BootPool, MountDone(p)
        PROVE  Solo(proc[p])' /\ Succeeds(p)
    BY <1>4, <1>5, <2>3 DEF MountRoot, Mount, At
  <2> QED
    BY <1>1, <2>1, <2>2, <2>3, FailStep
<1>6. CASE MountBoot(p)
  <2>1. (Mount(Boot(b)) /\ MountDone(p)) \/ Return(p, "fail")
    BY <1>6 DEF MountBoot, Call
  <2>2. Root(b) \in mounted /\ proc[p].pc = "mount_boot"
    BY <1>6, SoloFacts DEF MountBoot, At, DoneSoFar
  <2>3. ASSUME Mount(Boot(b)), MountDone(p)
        PROVE  Solo(proc[p])' /\ Succeeds(p)
    BY <1>4, <2>2, <2>3 DEF Mount
  <2> QED
    BY <1>1, <2>1, <2>3, FailStep
<1>7. ASSUME Goto(p, "unmount_root"), Boot(b) \notin mounted'
      PROVE  Solo(proc[p])' /\ Succeeds(p)
  <2>1. proc'[p].pc = "unmount_root" /\ proc'[p].cmd = proc[p].cmd
    BY <1>1, <1>7, GotoFields
  <2> QED
    BY <1>1, <1>7, <2>1, GotoSucceeds DEF Solo, Belongs, Standing, DoneSoFar, HookLabels
<1>8. CASE UnmountBE(p)
  <2>1. /\ UNCHANGED zfsVars
        /\ \/ BootPool /\ Goto(p, "unmount_boot")
           \/ ~BootPool /\ Goto(p, "unmount_root")
           \/ Return(p, "fail")
    BY <1>8 DEF UnmountBE, Check, Call
  <2>2. ~BootPool => Boot(b) \notin mounted
    BY <1>1 DEF RunningInv, TypeOK, ZfsTypeOK, Datasets, Pools, Boot
  <2> QED
    BY <1>1, <1>2, <1>7, <2>1, <2>2, FailStep DEF zfsVars
<1>9. CASE UnmountBoot(p)
  <2>1. \/ Goto(p, "unmount_root") /\ Boot(b) \notin mounted'
        \/ Return(p, "fail")
    BY <1>9 DEF UnmountBoot, UnmountCallback, Call, Unmount, zfsVars
  <2> QED
    BY <1>1, <1>7, <2>1, FailStep
<1>10. CASE UnmountRoot(p)
  <2>1. Boot(b) \notin mounted
    BY <1>10, SoloFacts DEF UnmountRoot, At, DoneSoFar
  <2>2. \/ UnmountDone(p) /\ Root(b) \notin mounted' /\ Boot(b) \notin mounted'
        \/ Return(p, "fail")
    BY <1>10, <2>1 DEF UnmountRoot, UnmountCallback, Call, Unmount, zfsVars
  <2>3. ASSUME Return(p, "ok"), proc[p].cmd.op = "unmount", Root(b) \notin mounted',
               Boot(b) \notin mounted'
        PROVE  Solo(proc[p])' /\ Succeeds(p)
    <3>1. (Pools \X {b}) \cap mounted' = {}
      BY <2>3, PairDatasets
    <3>2. \A c : c = proc[p].cmd => Accomplished(c)'
      BY <2>3, <3>1 DEF Accomplished, Pools
    <3> QED
      BY <1>1, <2>3, <3>2, ReturnSolo DEF Results, Succeeds
  <2> QED
    BY <1>1, <1>2, <2>2, <2>3, FailStep DEF UnmountDone
<1> QED
  BY <1>3, <1>5, <1>6, <1>8, <1>9, <1>10 DEF MountStep

\* snapshot: the boot dataset after the root dataset.
LEMMA SnapshotSolo ==
  ASSUME SingleInv, NEW p \in Procs, SnapshotStep(p)
  PROVE  Solo(proc[p])' /\ Succeeds(p)
<1> DEFINE b == proc[p].cmd.be
           s == proc[p].cmd.suffix
<1>1. /\ RunningInv /\ ZfsTypeOK /\ UniqueNames
      /\ proc[p].cmd.op = "snapshot" /\ s \in Suffixes /\ b \in Names
  BY SoloFacts, ProcFacts, CommandFields
     DEF SingleInv, RunningInv, TypeOK, SnapshotStep, SnapshotBE, PreSnapshot, SnapshotRoot,
         SnapshotBoot, At, Fits
<1>2. ASSUME NEW l \in {"snap_root", "pre_snapshot", "mount", "unmount"}, Goto(p, l)
      PROVE  Solo(proc[p])' /\ Succeeds(p)
  <2>1. proc'[p].pc = l /\ proc'[p].cmd = proc[p].cmd
    BY <1>1, <1>2, GotoFields
  <2> QED
    BY <1>1, <2>1, GotoSucceeds DEF Solo, Belongs, Standing, DoneSoFar, HookLabels
<1>3. CASE SnapshotBE(p)
  BY <1>1, <1>2, <1>3, FailStep DEF SnapshotBE, Check, Call
<1>4. CASE PreSnapshot(p)
  BY <1>1, <1>2, <1>4, FailStep DEF PreSnapshot, Hook, Check, Call
<1>5. ASSUME Return(p, "ok"), NEW n, n = b, NEW t, t = s, t \in SnapsOf(Root(n))',
             BootPool => t \in SnapsOf(Boot(n))'
      PROVE  Solo(proc[p])' /\ Succeeds(p)
  <2>1. \A d \in Pools \X {n} : t \in SnapsOf(d)'
    BY <1>5, PairDatasets
  <2>2. \A c : c = proc[p].cmd => Accomplished(c)'
    BY <1>1, <1>5, <2>1 DEF Accomplished, Pools
  <2> QED
    BY <1>1, <1>5, <2>2, ReturnSolo DEF Results, Succeeds
<1>6. CASE SnapshotRoot(p)
  <2>1. \/ /\ CanSnapshot(Root(b), s) /\ Snapshot(Root(b), s)
           /\ IF BootPool THEN Goto(p, "snap_boot") ELSE Return(p, "ok")
        \/ Return(p, "fail")
    BY <1>6 DEF SnapshotRoot, Call, Works
  <2>2. ASSUME CanSnapshot(Root(b), s), Snapshot(Root(b), s), NEW n, n = b, NEW t, t = s
        PROVE  t \in SnapsOf(Root(n))'
    <3>1. CanSnapshot(Root(n), t) /\ Snapshot(Root(n), t)
      BY <2>2
    <3>2. ASSUME NEW d, CanSnapshot(d, t), Snapshot(d, t)
          PROVE  t \in SnapsOf(d)'
      BY <1>1, <2>2, <3>2, SnapshotNames
    <3> QED
      BY <3>1, <3>2 DEF SnapsOf, Root
  <2>3. ASSUME CanSnapshot(Root(b), s), Snapshot(Root(b), s), Goto(p, "snap_boot")
        PROVE  Solo(proc[p])' /\ Succeeds(p)
    <3>1. proc'[p].pc = "snap_boot" /\ proc'[p].cmd = proc[p].cmd
      BY <1>1, <2>3, GotoFields
    <3>2. s \in SnapsOf(Root(b))'
      BY <2>2, <2>3, <3>1
    <3> QED
      BY <1>1, <3>1, <3>2, GotoSucceeds DEF Solo, Belongs, Standing, DoneSoFar, HookLabels
  <2>4. ASSUME CanSnapshot(Root(b), s), Snapshot(Root(b), s), Return(p, "ok"), ~BootPool
        PROVE  Solo(proc[p])' /\ Succeeds(p)
    BY <1>5, <2>2, <2>4
  <2> QED
    BY <1>1, <2>1, <2>3, <2>4, FailStep
<1>7. CASE SnapshotBoot(p)
  <2>1. \/ CanSnapshot(Boot(b), s) /\ Snapshot(Boot(b), s) /\ Return(p, "ok")
        \/ Return(p, "fail")
    BY <1>7 DEF SnapshotBoot, Call, Works
  <2>2. s \in SnapsOf(Root(b))
    BY <1>7, SoloFacts DEF SnapshotBoot, At, DoneSoFar
  <2>3. ASSUME CanSnapshot(Boot(b), s), Snapshot(Boot(b), s), NEW n, n = b, NEW t, t = s
        PROVE  t \in SnapsOf(Boot(n))' /\ t \in SnapsOf(Root(n))'
    <3>1. CanSnapshot(Boot(n), t) /\ Snapshot(Boot(n), t) /\ Root(n) # Boot(n)
      BY <2>3, PairFacts
    <3>2. ASSUME NEW d, CanSnapshot(d, t), Snapshot(d, t)
          PROVE  t \in SnapsOf(d)'
      BY <1>1, <2>3, <3>2, SnapshotNames
    <3>3. snaps'[Root(n)] = snaps[Root(n)]
      BY <1>1, <2>3, <3>1, DatasetFacts DEF Snapshot, ZfsTypeOK
    <3> QED
      BY <2>2, <2>3, <3>1, <3>2, <3>3 DEF SnapsOf, Root, Boot
  <2> QED
    BY <1>1, <1>5, <2>1, <2>3, FailStep
<1> QED
  BY <1>3, <1>4, <1>6, <1>7 DEF SnapshotStep

\* rename: what is renamed is not activated.
LEMMA RenameSolo ==
  ASSUME SingleInv, NEW p \in Procs, RenameStep(p)
  PROVE  Solo(proc[p])' /\ Succeeds(p)
<1> DEFINE b == proc[p].cmd.be
<1>1. RunningInv /\ proc[p].cmd.op = "rename" /\ proc[p] \in ProcState
  BY SoloFacts, ProcFacts
     DEF RenameStep, RenameBE, RenameRoot, RenameBoot, PostRename, At, Fits
<1>2. ASSUME NEW l \in {"rename_root", "rename_boot", "post_rename"},
             proc'[p].pc = l, proc'[p].cmd = proc[p].cmd, b # bootfs' \/ l = "post_rename"
      PROVE  Solo(proc[p])' /\ Succeeds(p)
  BY <1>1, <1>2, GotoSucceeds DEF Solo, Belongs, Standing, DoneSoFar, HookLabels
<1>3. CASE RenameBE(p)
  <2>1. \/ Goto(p, "rename_root") /\ b # proc[p].act /\ UNCHANGED bootfs
        \/ Return(p, "fail")
    BY <1>3 DEF RenameBE, Check, Call, Works, IsActive, zfsVars
  <2>2. proc[p].act = bootfs
    BY <1>3, SoloFacts DEF RenameBE, At, Standing
  <2> QED
    BY <1>1, <1>2, <2>1, <2>2, GotoFields, FailStep
<1>4. CASE RenameRoot(p)
  <2>1. \/ /\ Rename(Root(b), Root(proc[p].cmd.to))
           /\ Goto(p, "rename_boot") \/ Goto(p, "post_rename")
        \/ Return(p, "fail")
    BY <1>4 DEF RenameRoot, Call
  <2>2. b # bootfs
    BY <1>4, SoloFacts DEF RenameRoot, At, Standing
  <2>3. Rename(Root(b), Root(proc[p].cmd.to)) => bootfs' = bootfs
    BY <2>2, PairFacts DEF Rename
  <2> QED
    BY <1>1, <1>2, <2>1, <2>2, <2>3, GotoFields, FailStep
<1>5. CASE RenameBoot(p)
  <2>1. \/ Goto(p, "post_rename")
        \/ proc' = [proc EXCEPT ![p].pc = "post_rename", ![p].ret = "fail"]
    BY <1>5 DEF RenameBoot, Call
  <2>2. proc'[p].pc = "post_rename" /\ proc'[p].cmd = proc[p].cmd
    BY <1>1, <2>1, GotoFields DEF RunningInv, TypeOK, ProcState
  <2> QED
    BY <1>2, <2>2
<1>6. CASE PostRename(p)
  <2>1. \E r \in Results : Return(p, r)
    BY <1>1, <1>6 DEF PostRename, Hook, Check, Call, Results, ProcState
  <2> QED
    BY <1>1, <2>1, ReturnSolo DEF Succeeds
<1> QED
  BY <1>3, <1>4, <1>5, <1>6 DEF RenameStep

\* The end of libze_destroy_cb: the dataset is gone, on to the boot pool or out.
LEMMA DestroyedSolo ==
  ASSUME SingleInv, NEW p \in Procs, DestroyedDataset(p), proc[p].cmd.op = "destroy",
         NEW b, b = proc[p].cmd.be, b # bootfs', Target(p) \notin fs',
         proc[p].pool = "boot" => BootPool /\ Root(b) \notin fs'
  PROVE  Solo(proc[p])' /\ Succeeds(p)
<1>1. RunningInv /\ proc[p].pool \in {"root", "boot"}
  BY ProcFacts DEF SingleInv, ProcState
<1>2. Target(p) = IF proc[p].pool = "root" THEN Root(b) ELSE Boot(b)
  BY <1>1 DEF Target, Root, Boot
<1>3. CASE BootPool /\ proc[p].pool = "root"
  <2>1. proc' = [proc EXCEPT ![p].pc = "destroy_check", ![p].pool = "boot"]
    BY <1>3 DEF DestroyedDataset
  <2>2. /\ proc'[p].pc = "destroy_check" /\ proc'[p].cmd = proc[p].cmd
        /\ proc'[p].pool = "boot"
    BY <1>1, <2>1 DEF RunningInv, TypeOK, ProcState
  <2> QED
    BY <1>2, <1>3, <2>2, GotoSucceeds DEF Solo, Belongs, Standing, DoneSoFar, HookLabels
<1>4. CASE BootPool /\ proc[p].pool = "boot"
  <2>1. Return(p, "ok")
    BY <1>4 DEF DestroyedDataset
  <2>2. (Pools \X {b}) \cap fs' = {}
    BY <1>2, <1>4, PairDatasets
  <2>3. \A c : c = proc[p].cmd => Accomplished(c)'
    BY <2>2 DEF Accomplished, Pools
  <2> QED
    BY <1>1, <2>1, <2>3, ReturnSolo DEF Results, Succeeds
<1>5. CASE ~BootPool
  <2>1. Goto(p, "post_destroy") /\ proc[p].pool = "root"
    BY <1>1, <1>5 DEF DestroyedDataset
  <2>2. /\ proc'[p].pc = "post_destroy" /\ proc'[p].cmd = proc[p].cmd
        /\ proc'[p].pool = "root"
    BY <1>1, <2>1, GotoFields
  <2> QED
    BY <1>2, <1>5, <2>1, <2>2, GotoSucceeds DEF Solo, Belongs, Standing, DoneSoFar, HookLabels
<1> QED
  BY <1>1, <1>3, <1>4, <1>5

\* destroy of an environment: it is not activated, and gone from the root pool
\* when the boot pool's turn comes.
LEMMA DestroyBESolo ==
  ASSUME SingleInv, NEW p \in Procs,
         \/ Destroy(p) \/ DestroyCheck(p) \/ DestroySnaps(p) \/ DestroyDataset(p)
         \/ DestroyOrigin(p)
  PROVE  Solo(proc[p])' /\ Succeeds(p)
<1> DEFINE b == proc[p].cmd.be
<1>1. RunningInv /\ proc[p].cmd.op = "destroy" /\ proc[p] \in ProcState
  BY SoloFacts, ProcFacts
     DEF Destroy, DestroyCheck, DestroySnaps, DestroyDataset, DestroyOrigin, At, Belongs
<1>2. proc[p].pool = "boot" => BootPool /\ Root(b) \notin fs
  BY <1>1, SoloFacts DEF DoneSoFar
<1>3. ASSUME NEW l \in {"destroy_check", "destroy_snaps", "destroy_fs"},
             proc'[p].pc = l, proc'[p].cmd = proc[p].cmd, b # bootfs',
             proc'[p].pool = "boot" => BootPool /\ Root(b) \notin fs'
      PROVE  Solo(proc[p])' /\ Succeeds(p)
  BY <1>1, <1>3, GotoSucceeds DEF Solo, Belongs, Standing, DoneSoFar, HookLabels
<1>4. CASE Destroy(p)
  <2>1. \/ /\ proc' = [proc EXCEPT ![p].pc = "destroy_check", ![p].pool = "root"]
           /\ b # proc[p].act /\ UNCHANGED bootfs
        \/ Return(p, "fail")
    BY <1>4 DEF Destroy, Check, Call, Works, IsActive, zfsVars
  <2>2. proc[p].act = bootfs
    BY <1>4, SoloFacts DEF Destroy, At, Standing
  <2>3. ASSUME proc' = [proc EXCEPT ![p].pc = "destroy_check", ![p].pool = "root"],
               b # proc[p].act, UNCHANGED bootfs
        PROVE  Solo(proc[p])' /\ Succeeds(p)
    <3>1. /\ proc'[p].pc = "destroy_check" /\ proc'[p].cmd = proc[p].cmd
          /\ proc'[p].pool = "root"
      BY <1>1, <2>3 DEF RunningInv, TypeOK, ProcState
    <3> QED
      BY <1>3, <2>2, <2>3, <3>1
  <2> QED
    BY <1>1, <2>1, <2>3, FailStep
<1>5. ~Destroy(p) => b # bootfs
  BY SoloFacts
     DEF DestroyCheck, DestroySnaps, DestroyDataset, DestroyOrigin, At, Standing
<1>6. CASE DestroyCheck(p)
  <2>1. /\ UNCHANGED <<fs, bootfs>>
        /\ \/ proc' = [proc EXCEPT ![p].pc = "destroy_snaps",
                                   ![p].orig = origin[Target(p)],
                                   ![p].iter = SnapsOf(Target(p))]
           \/ Return(p, "fail")
    BY <1>6 DEF DestroyCheck, Check, Call, Unmount, zfsVars
  <2>2. ASSUME proc' = [proc EXCEPT ![p].pc = "destroy_snaps",
                                    ![p].orig = origin[Target(p)],
                                    ![p].iter = SnapsOf(Target(p))]
        PROVE  Solo(proc[p])' /\ Succeeds(p)
    <3>1. /\ proc'[p].pc = "destroy_snaps" /\ proc'[p].cmd = proc[p].cmd
          /\ proc'[p].pool = proc[p].pool
      BY <1>1, <2>2 DEF RunningInv, TypeOK, ProcState
    <3>2. b # bootfs
      BY <1>6, SoloFacts DEF DestroyCheck, At, Standing
    <3> QED
      BY <1>2, <1>3, <2>1, <3>1, <3>2
  <2> QED
    BY <1>1, <2>1, <2>2, FailStep
<1>7. CASE DestroySnaps(p)
  <2>1. /\ UNCHANGED <<fs, bootfs>>
        /\ \/ Goto(p, "destroy_fs")
           \/ \E s \in proc[p].iter : proc' = [proc EXCEPT ![p].iter = @ \ {s}]
           \/ Return(p, "fail")
    BY <1>7 DEF DestroySnaps, Call, DestroySnap, zfsVars
  <2>2. proc[p].pc = "destroy_snaps" /\ b # bootfs
    BY <1>7, SoloFacts DEF DestroySnaps, At, Standing
  <2>3. CASE Goto(p, "destroy_fs")
    BY <1>1, <1>2, <1>3, <2>1, <2>2, <2>3, GotoFields
  <2>4. ASSUME NEW s \in proc[p].iter, proc' = [proc EXCEPT ![p].iter = @ \ {s}]
        PROVE  Solo(proc[p])' /\ Succeeds(p)
    <3>1. /\ proc'[p].pc = "destroy_snaps" /\ proc'[p].cmd = proc[p].cmd
          /\ proc'[p].pool = proc[p].pool
      BY <1>1, <2>2, <2>4 DEF RunningInv, TypeOK, ProcState
    <3> QED
      BY <1>2, <1>3, <2>1, <2>2, <3>1
  <2> QED
    BY <1>1, <2>1, <2>3, <2>4, FailStep
<1>8. CASE DestroyDataset(p)
  <2>1. \/ /\ DestroyFs(Target(p))
           /\ DestroyedDataset(p) \/ Goto(p, "destroy_origin")
        \/ Return(p, "fail")
    BY <1>8 DEF DestroyDataset, Call
  <2>2. b # bootfs
    BY <1>8, SoloFacts DEF DestroyDataset, At, Standing
  <2>3. ASSUME DestroyFs(Target(p))
        PROVE  /\ b # bootfs' /\ Target(p) \notin fs'
               /\ proc[p].pool = "boot" => BootPool /\ Root(b) \notin fs'
    BY <1>2, <2>2, <2>3 DEF DestroyFs, Target, Root
  <2>4. ASSUME DestroyFs(Target(p)), Goto(p, "destroy_origin")
        PROVE  Solo(proc[p])' /\ Succeeds(p)
    <3>1. /\ proc'[p].pc = "destroy_origin" /\ proc'[p].cmd = proc[p].cmd
          /\ proc'[p].pool = proc[p].pool
      BY <1>1, <2>4, GotoFields
    <3> QED
      BY <1>1, <2>3, <2>4, <3>1, GotoSucceeds
         DEF Solo, Belongs, Standing, DoneSoFar, HookLabels, Target
  <2> QED
    BY <1>1, <2>1, <2>3, <2>4, DestroyedSolo, FailStep
<1>9. CASE DestroyOrigin(p)
  <2>1. UNCHANGED <<fs, bootfs>> /\ (DestroyedDataset(p) \/ Return(p, "fail"))
    BY <1>9 DEF DestroyOrigin, Call, DestroySnap, zfsVars
  <2>2. b # bootfs /\ Target(p) \notin fs
    BY <1>9, SoloFacts DEF DestroyOrigin, At, Standing, DoneSoFar, Target
  <2> QED
    BY <1>1, <1>2, <2>1, <2>2, DestroyedSolo, FailStep
<1> QED
  BY <1>4, <1>6, <1>7, <1>8, <1>9

\* destroy of a snapshot, and the post-destroy hook.
LEMMA DestroySolo ==
  ASSUME SingleInv, NEW p \in Procs, DestroyStep(p)
  PROVE  Solo(proc[p])' /\ Succeeds(p)
<1> DEFINE b == proc[p].cmd.be
           s == proc[p].cmd.suffix
<1>1. RunningInv /\ ZfsTypeOK /\ UniqueNames /\ proc[p] \in ProcState
  BY SoloFacts, ProcFacts DEF SingleInv, RunningInv, TypeOK
<1>2. DestroySnapshot(p) \/ DestroySnapshotRoot(p) \/ DestroySnapshotBoot(p)
        => proc[p].cmd.op = "destroy_snapshot" /\ b \in Names
  BY ProcFacts, <1>1 DEF DestroySnapshot, DestroySnapshotRoot, DestroySnapshotBoot, At, Fits
<1>3. CASE PostDestroy(p)
  <2>1. UNCHANGED zfsVars /\ (Return(p, "ok") \/ Return(p, "fail"))
    BY <1>3 DEF PostDestroy, Hook, Check, Call
  <2>2. /\ proc[p].cmd.op \in {"destroy", "destroy_snapshot"}
        /\ proc[p].cmd.op = "destroy" => ~BootPool /\ Root(b) \notin fs
        /\ proc[p].cmd.op = "destroy_snapshot" => \A d \in Pools \X {b} : s \notin SnapsOf(d)
    BY <1>3, SoloFacts DEF PostDestroy, At, Belongs, DoneSoFar
  <2>3. proc[p].cmd.op = "destroy" => (Pools \X {b}) \cap fs = {}
    BY <2>2, PairDatasets
  <2>4. ASSUME NEW c, c = proc[p].cmd
        PROVE  Accomplished(c)'
    <3>1. UNCHANGED <<fs, mounted, snaps, bootfs>>
      BY <2>1 DEF zfsVars
    <3>2. CASE c.op = "destroy"
      BY <2>3, <2>4, <3>1, <3>2 DEF Accomplished, Pools
    <3>3. CASE c.op = "destroy_snapshot"
      <4>1. \A d \in Pools \X {c.be} : c.suffix \notin SnapsOf(d)'
        BY <2>2, <2>4, <3>1, <3>3 DEF SnapsOf
      <4> QED
        BY <3>3, <4>1 DEF Accomplished, Pools
    <3> QED
      BY <2>2, <2>4, <3>2, <3>3
  <2> QED
    BY <1>1, <2>1, <2>4, ReturnSolo, FailStep DEF Results, Succeeds
<1>4. CASE DestroySnapshot(p)
  <2>1. Goto(p, "dsnap_root") \/ Return(p, "fail")
    BY <1>4 DEF DestroySnapshot, Check, Call
  <2>2. Goto(p, "dsnap_root") => proc'[p].pc = "dsnap_root" /\ proc'[p].cmd = proc[p].cmd
    BY <1>1, GotoFields
  <2> QED
    BY <1>1, <1>2, <1>4, <2>1, <2>2, GotoSucceeds, FailStep
       DEF Solo, Belongs, Standing, DoneSoFar, HookLabels
<1>5. ASSUME NEW d, CanDestroySnap(d, s), DestroySnap(d, s), NEW t, t = s
      PROVE  /\ t \notin SnapsOf(d)'
             /\ \A e \in Datasets : e # d => SnapsOf(e)' = SnapsOf(e)
  BY <1>1, <1>5, DestroySnapNames
<1>6. CASE DestroySnapshotRoot(p)
  <2>1. \/ /\ CanDestroySnap(Root(b), s) /\ DestroySnap(Root(b), s)
           /\ BootPool /\ Goto(p, "dsnap_boot")
        \/ Return(p, "fail")
    BY <1>6 DEF DestroySnapshotRoot, Call, Works
  <2>2. ASSUME CanDestroySnap(Root(b), s), DestroySnap(Root(b), s), BootPool, Goto(p, "dsnap_boot")
        PROVE  Solo(proc[p])' /\ Succeeds(p)
    <3>1. proc'[p].pc = "dsnap_boot" /\ proc'[p].cmd = proc[p].cmd
      BY <1>1, <2>2, GotoFields
    <3>2. \A n, t : n = b /\ t = s => t \notin SnapsOf(Root(n))'
      <4>1. ASSUME NEW n, NEW t, NEW d, n = b, t = s, d = Root(n)
            PROVE  t \notin SnapsOf(d)'
        BY <1>5, <2>2, <4>1
      <4> QED
        BY <4>1 DEF SnapsOf, Root
    <3>3. (proc[p].cmd.suffix \notin SnapsOf(Root(proc[p].cmd.be)))'
      BY <3>1, <3>2
    <3> QED
      BY <1>2, <1>6, <2>2, <3>1, <3>3, GotoSucceeds
         DEF Solo, Belongs, Standing, DoneSoFar, HookLabels
  <2> QED
    BY <1>1, <2>1, <2>2, FailStep
<1>7. CASE DestroySnapshotBoot(p)
  <2>1. \/ /\ CanDestroySnap(Boot(b), s) /\ DestroySnap(Boot(b), s)
           /\ Goto(p, "post_destroy")
        \/ Return(p, "fail")
    BY <1>7 DEF DestroySnapshotBoot, Call, Works
  <2>2. BootPool /\ s \notin SnapsOf(Root(b))
    BY <1>7, SoloFacts DEF DestroySnapshotBoot, At, DoneSoFar
  <2>3. ASSUME CanDestroySnap(Boot(b), s), DestroySnap(Boot(b), s), Goto(p, "post_destroy")
        PROVE  Solo(proc[p])' /\ Succeeds(p)
    <3>1. proc'[p].pc = "post_destroy" /\ proc'[p].cmd = proc[p].cmd
      BY <1>1, <2>3, GotoFields
    <3>2. ASSUME NEW n, NEW t, n = b, t = s, NEW d, d \in Pools \X {n}
          PROVE  t \notin SnapsOf(d)'
      <4>1. CASE d = Boot(n)
        BY <1>5, <2>3, <3>2, <4>1
      <4>2. CASE d = Root(n) /\ d # Boot(n)
        <5>1. SnapsOf(d)' = SnapsOf(d)
          BY <1>2, <1>5, <1>7, <2>3, <3>2, <4>2, DatasetFacts
        <5> QED
          BY <2>2, <3>2, <4>2, <5>1
      <4> QED
        BY <3>2, <4>1, <4>2, PairDatasets
    <3>3. \A n, t : n = b /\ t = s => \A d \in Pools \X {n} : t \notin SnapsOf(d)'
      BY <3>2
    <3>4. (\A d \in Pools \X {proc[p].cmd.be} : proc[p].cmd.suffix \notin SnapsOf(d))'
      BY <3>1, <3>3 DEF Pools
    <3> QED
      BY <1>2, <1>7, <2>2, <3>1, <3>4, GotoSucceeds
         DEF Solo, Belongs, Standing, DoneSoFar, HookLabels
  <2> QED
    BY <1>1, <2>1, <2>3, FailStep
<1> QED
  BY <1>3, <1>4, <1>6, <1>7, DestroyBESolo DEF DestroyStep

(***************************************************************************)
(* The steps outside the groups, the whole next-state relation, and the    *)
(* theorems.                                                               *)
(***************************************************************************)
\* libze_init reads bootfs, and validation compares with what it read.
LEMMA StartSolo ==
  ASSUME SingleInv, NEW p \in Procs, LibzeInit(p) \/ ValidateSystem(p)
  PROVE  Solo(proc[p])'
<1>1. RunningInv
  BY DEF SingleInv
<1>2. UNCHANGED zfsVars
  BY DEF LibzeInit, ValidateSystem, Check, Call
<1>3. CASE Return(p, "fail")
  BY <1>1, <1>3, ReturnSolo DEF Results
<1>4. ASSUME NEW c \in Commands,
             proc' = [proc EXCEPT ![p] = [Idle("ok") EXCEPT !.pc = "validate", !.cmd = c,
                                                            !.act = bootfs]]
      PROVE  Solo(proc[p])'
  <2>1. /\ proc'[p].pc = "validate" /\ proc'[p].act = bootfs /\ proc'[p].pool = "root"
    BY <1>1, <1>4 DEF RunningInv, TypeOK, Idle
  <2> QED
    BY <1>2, <2>1 DEF zfsVars, Solo, Belongs, Standing, DoneSoFar, HookLabels
<1>5. CASE ValidateSystem(p) /\ Goto(p, proc[p].cmd.op)
  <2> DEFINE l == proc[p].cmd.op
  <2>1. proc[p].pc = "validate" /\ proc[p].act = bootfs
    BY <1>5, SoloFacts DEF ValidateSystem, At, Standing
  <2>2. l \in {"activate", "mount", "unmount", "create", "destroy",
               "destroy_snapshot", "snapshot", "rename"}
    BY <1>1, <2>1, ProcFacts, CommandFields
  <2>3. /\ proc'[p].pc = l /\ proc'[p].cmd = proc[p].cmd /\ proc'[p].act = bootfs
        /\ proc'[p].pool = proc[p].pool
    BY <1>1, <1>5, <2>1, GotoFields
  <2>4. l = "destroy" /\ proc[p].pool = "boot" => BootPool /\ Root(proc[p].cmd.be) \notin fs
    BY SoloFacts DEF DoneSoFar
  <2> QED
    BY <1>2, <2>2, <2>3, <2>4 DEF zfsVars, Solo, Belongs, Standing, DoneSoFar, HookLabels
<1> QED
  BY <1>3, <1>4, <1>5 DEF LibzeInit, ValidateSystem, Check, Call

\* Every step of a command.
LEMMA CommandSolo ==
  ASSUME SingleInv, NEW p \in Procs, CommandStep(p)
  PROVE  Solo(proc[p])' /\ Succeeds(p)
<1>1. CASE ValidateSystem(p)
  <2>1. Goto(p, proc[p].cmd.op) \/ Return(p, "fail")
    BY <1>1 DEF ValidateSystem, Check, Call
  <2>2. ASSUME Goto(p, proc[p].cmd.op)
        PROVE  Succeeds(p)
    <3>1. proc[p].cmd \in AllCommands
      BY <1>1, ProcFacts DEF SingleInv, ValidateSystem, At
    <3>2. proc'[p].pc # "idle"
      BY <2>2, <3>1, GotoFields, CommandFields DEF SingleInv
    <3> QED
      BY <3>2, GotoSucceeds
  <2> QED
    BY <1>1, <2>1, <2>2, StartSolo, FailStep DEF SingleInv
<1> QED
  BY <1>1, TempMountSolo, ActivateSolo, CreateSolo, DestroySolo, RenameSolo, MountSolo,
     SnapshotSolo
     DEF CommandStep

\* A step of the only process.
LEMMA ProcessStep ==
  ASSUME OneShell, SingleInv, NEW p \in Procs, LibzeInit(p) \/ CommandStep(p) \/ Kill(p),
         UNCHANGED running
  PROVE  /\ ActiveSafe' /\ UniqueNames' /\ \A q \in Procs : Solo(proc[q])'
         /\ Root(bootfs) \in fs'
         /\ [BE!BENext]_(BE!bevars)
         /\ ~At(p, "idle") => Succeeds(p)
<1>1. RunningInv
  BY DEF SingleInv
<1>2. StorageStep(p)
  BY <1>1, CommandEffect DEF LibzeInit, Kill, StorageStep
<1>3. CASE Kill(p)
  <2>1. Return(p, "killed")
    BY <1>3 DEF Kill
  <2> QED
    BY <1>1, <1>2, <2>1, ReturnSolo, FailSucceeds, EffectKeepsActive, EffectKeepsNames,
       EffectImplementsBE
       DEF Results, OneShell
<1>4. CASE LibzeInit(p)
  BY <1>2, <1>4, StartSolo, EffectKeepsActive, EffectKeepsNames, EffectImplementsBE
     DEF LibzeInit, OneShell
<1>5. CASE CommandStep(p)
  BY <1>2, <1>5, CommandSolo, EffectKeepsActive, EffectKeepsNames, EffectImplementsBE
     DEF OneShell
<1> QED
  BY <1>3, <1>4, <1>5

\* A reboot leaves the datasets and bootfs alone, starts an environment that
\* is there, and no command survives it.
LEMMA RebootStep ==
  ASSUME SingleInv, Reboot
  PROVE  /\ ActiveSafe' /\ UniqueNames' /\ \A q \in Procs : Solo(proc[q])'
         /\ Root(bootfs) \in fs'
         /\ [BE!BENext]_(BE!bevars)
         /\ \A q \in Procs : ~At(q, "idle") => Succeeds(q)
<1>1. UNCHANGED <<fs, snaps, origin, tmpmp, bootfs, faults>>
  BY DEF Reboot
<1>2. ActiveSafe /\ Root(bootfs) \in fs /\ UniqueNames
  BY DEF SingleInv, ActiveSafe, Existing
<1>3. ActiveSafe'
  BY <1>1, <1>2 DEF ActiveSafe, Existing
<1>4. UniqueNames'
  BY <1>1, <1>2 DEF UniqueNames, Unique, Datasets, Pools
<1>5. ASSUME NEW q \in Procs
      PROVE  Solo(proc[q])' /\ (~At(q, "idle") => Succeeds(q))
  <2>1. CASE At(q, "idle")
    <3>1. proc'[q] = proc[q] /\ proc[q].pc = "idle"
      BY <2>1 DEF Reboot, At
    <3> QED
      BY <1>1, <2>1, <3>1, SoloFacts DEF Solo, Belongs, Standing, DoneSoFar, HookLabels
  <2>2. CASE ~At(q, "idle")
    <3>1. proc'[q] = Idle("killed")
      BY <2>2 DEF Reboot
    <3>2. proc'[q].pc = "idle" /\ proc'[q].cmd.op = "none"
      BY <3>1 DEF Idle, NoCommand
    <3> QED
      BY <3>1, <3>2, FailSucceeds DEF Solo, Belongs, Standing, DoneSoFar, HookLabels
  <2> QED
    BY <2>1, <2>2
<1>6. BE!BENext
  <2>1. PICK n \in Bootable : running' = n
    BY DEF Reboot
  <2>2. n \in Names /\ Root(n) \in fs
    BY <2>1 DEF Bootable, Existing
  <2> QED
    BY <1>1, <2>1, <2>2 DEF BE!BENext, BE!RebootInto
<1> QED
  BY <1>1, <1>2, <1>3, <1>4, <1>5, <1>6

\* A step that changes nothing.
LEMMA SingleStutter ==
  ASSUME SingleInv, UNCHANGED vars
  PROVE  ActiveSafe' /\ UniqueNames' /\ \A q \in Procs : Solo(proc[q])'
<1>1. UNCHANGED <<zfsVars, running, proc>> /\ UniqueNames /\ \A q \in Procs : Solo(proc[q])
  BY DEF SingleInv, vars
<1>2. ActiveSafe'
  BY <1>1 DEF SingleInv, zfsVars, ActiveSafe, Existing
<1>3. UniqueNames'
  BY <1>1 DEF zfsVars, UniqueNames, Unique, Datasets, Pools
<1>4. \A q \in Procs : Solo(proc[q])'
  <2> TAKE q \in Procs
  <2>1. PICK st : st = proc[q]
    OBVIOUS
  <2>2. proc'[q] = st /\ Belongs(st.cmd, st.pc) /\ Standing(st) /\ DoneSoFar(st)
    BY <1>1, <2>1 DEF Solo
  <2>3. Standing(st)'
    BY <1>1, <2>2 DEF zfsVars, Standing, Existing
  <2>4. DoneSoFar(st)'
    BY <1>1, <2>2 DEF zfsVars, DoneSoFar, SnapsOf
  <2> QED
    BY <2>2, <2>3, <2>4 DEF Solo, Standing, DoneSoFar, Belongs
<1> QED
  BY <1>2, <1>3, <1>4

\* The installed system.
LEMMA SingleInit == Init => SingleInv
<1> SUFFICES ASSUME Init PROVE SingleInv
  OBVIOUS
<1>1. PICK n \in Names : /\ ZfsInit(n)
                         /\ proc = [p \in Procs |-> Idle("none")]
  BY DEF Init
<1>2. ActiveSafe
  BY <1>1, ZfsAssumption DEF ZfsInit, ActiveSafe, Existing, Pools, Root, Boot
<1>3. UniqueNames
  BY <1>1 DEF ZfsInit, UniqueNames, Unique
<1>4. ASSUME NEW p \in Procs
      PROVE  Solo(proc[p])
  <2>1. proc[p].pc = "idle" /\ proc[p].cmd.op = "none"
    BY <1>1 DEF Idle, NoCommand
  <2> QED
    BY <2>1 DEF Solo, Belongs, Standing, DoneSoFar, HookLabels
<1> QED
  BY <1>2, <1>3, <1>4, InitInv DEF SingleInv

\* Every step keeps the invariant, the activated environment, the promises of
\* BootEnvs, and the meaning of success.
LEMMA SingleNext ==
  ASSUME OneShell, SingleInv, Next
  PROVE  /\ SingleInv'
         /\ Root(bootfs) \in fs'
         /\ [BE!BENext]_(BE!bevars)
         /\ \A q \in Procs : ~At(q, "idle") => Succeeds(q)
<1>1. RunningInv'
  BY NextInv DEF SingleInv
<1>2. ASSUME NEW p \in Procs, LibzeInit(p) \/ CommandStep(p) \/ Kill(p), UNCHANGED running
      PROVE  /\ SingleInv' /\ Root(bootfs) \in fs' /\ [BE!BENext]_(BE!bevars)
             /\ \A q \in Procs : ~At(q, "idle") => Succeeds(q)
  BY <1>1, <1>2, ProcessStep DEF OneShell, SingleInv
<1>3. CASE Reboot
  BY <1>1, <1>3, RebootStep DEF SingleInv
<1> QED
  BY <1>2, <1>3 DEF Next

\* SingleInv is an invariant when one shell runs zectl at a time, whatever
\* fails, is killed or rebooted: env_activated of the running command is the
\* pool's bootfs wherever the code compares with it, and what a command has
\* done so far is still done when it goes on.
THEOREM SingleInvariant ==
  ASSUME OneShell
  PROVE  Spec => []SingleInv
<1>1. Init => SingleInv
  BY SingleInit
<1>2. SingleInv /\ [Next]_vars => SingleInv'
  <2>1. SingleInv /\ UNCHANGED vars => SingleInv'
    BY SingleStutter, StutterInv DEF SingleInv
  <2> QED
    BY <2>1, SingleNext
<1> QED
  BY <1>1, <1>2, PTL DEF Spec

\* With one shell the pool always names an environment to boot next, and it
\* has its datasets in both pools (libze_destroy, libze_rename,
\* libze_activate).
THEOREM ActiveSafety ==
  ASSUME OneShell
  PROVE  Spec => []ActiveSafe
<1>1. SingleInv => ActiveSafe
  BY DEF SingleInv
<1> QED
  BY <1>1, SingleInvariant, PTL

\* With one shell no step removes or renames the environment that is
\* activated when the step is taken (libze.c:2165 and libze.c:2619).
THEOREM ActiveKeptAlways ==
  ASSUME OneShell
  PROVE  Spec => ActiveKept
<1>1. SingleInv /\ [Next]_vars => [bootfs # NoName => Root(bootfs) \in fs']_vars
  BY SingleNext
<1> QED
  BY <1>1, SingleInvariant, PTL DEF Spec, ActiveKept

\* With one shell the commands, call by call, implement the atomic operations
\* of BootEnvs: libze_clone, libze_destroy, libze_rename and libze_activate
\* each take effect on the root pool in one call.
THEOREM BERefinement ==
  ASSUME OneShell
  PROVE  Spec => ImplementsBootEnvs
<1>1. Init => BE!BEInit
  <2> SUFFICES ASSUME Init PROVE BE!BEInit
    OBVIOUS
  <2>1. PICK n \in Names : ZfsInit(n) /\ running = n
    BY DEF Init
  <2>2. {m \in Names : Root(m) \in fs} = {n}
    BY <2>1, ZfsAssumption DEF ZfsInit, Pools, Root
  <2> QED
    BY <2>1, <2>2 DEF ZfsInit, BE!BEInit
<1>2. SingleInv /\ [Next]_vars => [BE!BENext]_(BE!bevars)
  <2>1. UNCHANGED vars => UNCHANGED BE!bevars
    BY DEF vars, zfsVars, BE!bevars
  <2> QED
    BY <2>1, SingleNext
<1> QED
  BY <1>1, <1>2, SingleInvariant, PTL DEF Spec, ImplementsBootEnvs, BE!BESpec

\* With one shell a command other than activate and rename that exits with
\* success has done all it was asked for, in both pools, whichever of its
\* libzfs calls, mounts and hooks fail.
THEOREM SuccessReal ==
  ASSUME OneShell
  PROVE  Spec => SuccessIsReal
<1>1. ASSUME SingleInv, Next
      PROVE  SuccessOf(Ops \ {"activate", "rename"})
  <2>1. \A q \in Procs : ~At(q, "idle") => Succeeds(q)
    BY <1>1, SingleNext
  <2>2. SUFFICES ASSUME NEW q \in Procs, NEW c \in Commands, proc[q].cmd = c,
                        c.op \in Ops \ {"activate", "rename"}, Returns(q, "ok")
                 PROVE  Accomplished(c)'
    BY DEF SuccessOf
  <2>3. c \in AllCommands /\ ~At(q, "idle") /\ proc'[q] = Idle("ok")
    BY <2>2 DEF Commands, Returns
  <2> QED
    BY <2>1, <2>2, <2>3 DEF Succeeds
<1>2. SingleInv /\ [Next]_vars => [SuccessOf(Ops \ {"activate", "rename"})]_vars
  BY <1>1
<1> QED
  BY <1>2, SingleInvariant, PTL DEF Spec, SuccessIsReal
=============================================================================
