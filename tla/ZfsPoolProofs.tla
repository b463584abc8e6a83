--------------------------- MODULE ZfsPoolProofs ---------------------------
(***************************************************************************)
(* Facts about the storage operators of ZfsPool that the proofs about      *)
(* zectl rest on: each effect, under its precondition, keeps the types.    *)
(***************************************************************************)
EXTENDS ZfsPool, TLAPS

\* A root dataset is always a dataset; a boot dataset that is stored at all
\* shows that there is a boot pool.
LEMMA DatasetFacts ==
  /\ \A n \in Names : Root(n) \in Datasets
  /\ \A n \in Names, m \in Names : Boot(n) \in Datasets => Boot(m) \in Datasets
  /\ \A n \in Names : BootPool => Boot(n) \in Datasets
  /\ \A d \in Datasets : d[1] \in {"root", "boot"} /\ d[2] \in Names /\ d = <<d[1], d[2]>>
BY ZfsAssumption DEF Datasets, Pools, Root, Boot

\* The snapshots of a dataset are suffixes, and Position finds each of them.
LEMMA PositionFact ==
  ASSUME ZfsTypeOK, NEW d \in Datasets
  PROVE  /\ snaps[d] \in Seq(Suffixes)
         /\ Len(snaps[d]) \in Nat
         /\ SnapsOf(d) \subseteq Suffixes
         /\ \A s \in SnapsOf(d) : /\ Position(d, s) \in 1 .. Len(snaps[d])
                                  /\ snaps[d][Position(d, s)] = s
<1>1. snaps[d] \in Seq(Suffixes)
  BY DEF ZfsTypeOK
<1>2. Len(snaps[d]) \in Nat
  BY <1>1
<1>3. \A i \in 1 .. Len(snaps[d]) : snaps[d][i] \in Suffixes
  BY <1>1, <1>2
<1>4. ASSUME NEW s \in SnapsOf(d)
      PROVE  \E i \in 1 .. Len(snaps[d]) : snaps[d][i] = s
  BY <1>4 DEF SnapsOf
<1>5. \A s \in SnapsOf(d) : /\ Position(d, s) \in 1 .. Len(snaps[d])
                            /\ snaps[d][Position(d, s)] = s
  BY <1>4 DEF Position
<1> QED
  BY <1>1, <1>2, <1>3, <1>5 DEF SnapsOf

\* zfs_snapshot appends one suffix.
LEMMA SnapshotType ==
  ASSUME ZfsTypeOK, NEW d, NEW s \in Suffixes, CanSnapshot(d, s), Snapshot(d, s)
  PROVE  ZfsTypeOK'
<1>1. d \in Datasets
  BY DEF ZfsTypeOK, CanSnapshot
<1>2. Append(snaps[d], s) \in Seq(Suffixes)
  BY <1>1 DEF ZfsTypeOK
<1> QED
  BY <1>1, <1>2 DEF ZfsTypeOK, Snapshot

\* zfs_clone adds a dataset with a snapshot as its origin.
LEMMA CloneType ==
  ASSUME ZfsTypeOK, NEW d \in Datasets, NEW src, NEW s, CanClone(d, src, s), Clone(d, src, s)
  PROVE  ZfsTypeOK'
<1>1. src \in Datasets
  BY DEF ZfsTypeOK, CanClone
<1>2. <<src, s>> \in Snapshots
  BY <1>1, PositionFact DEF CanClone, Snapshots
<1> QED
  BY <1>2 DEF ZfsTypeOK, Clone

\* zfs_promote cuts the snapshots of the origin at the origin snapshot, and gives the
\* first part to the clone: both are again sequences of suffixes.
LEMMA PromoteType ==
  ASSUME ZfsTypeOK, NEW d, CanPromote(d), Promote(d)
  PROVE  ZfsTypeOK'
<1> DEFINE o == origin[d][1]
           s == origin[d][2]
           k == Position(o, s)
<1>1. d \in Datasets /\ o \in Datasets /\ s \in Suffixes /\ s \in SnapsOf(o)
  BY DEF ZfsTypeOK, CanPromote, Snapshots
<1>2. k \in 1 .. Len(snaps[o]) /\ snaps[o] \in Seq(Suffixes) /\ snaps[d] \in Seq(Suffixes)
  BY <1>1, PositionFact
<1>3. PromotedSnaps(d) \subseteq Suffixes
  BY <1>2 DEF PromotedSnaps
<1>4. snaps' \in [Datasets -> Seq(Suffixes)]
  <2>1. /\ SubSeq(snaps[o], 1, k) \in Seq(Suffixes)
        /\ SubSeq(snaps[o], k + 1, Len(snaps[o])) \in Seq(Suffixes)
    BY <1>2
  <2>2. SubSeq(snaps[o], 1, k) \o snaps[d] \in Seq(Suffixes)
    BY <1>2, <2>1
  <2> QED
    BY <1>1, <2>1, <2>2 DEF ZfsTypeOK, Promote
<1>5. origin' \in [Datasets -> Snapshots \cup {NoSnap}]
  BY <1>1, <1>3 DEF ZfsTypeOK, Promote, Snapshots
<1> QED
  BY <1>4, <1>5 DEF ZfsTypeOK, Promote

\* zfs_destroy of a snapshot takes one element out of a sequence.
LEMMA DestroySnapType ==
  ASSUME ZfsTypeOK, NEW d, NEW s, CanDestroySnap(d, s), DestroySnap(d, s)
  PROVE  ZfsTypeOK'
<1>1. d \in Datasets /\ s \in SnapsOf(d)
  BY DEF ZfsTypeOK, CanDestroySnap
<1>2. /\ Position(d, s) \in 1 .. Len(snaps[d])
      /\ snaps[d] \in Seq(Suffixes)
      /\ Len(snaps[d]) \in Nat
  BY <1>1, PositionFact
<1>3. /\ SubSeq(snaps[d], 1, Position(d, s) - 1) \in Seq(Suffixes)
      /\ SubSeq(snaps[d], Position(d, s) + 1, Len(snaps[d])) \in Seq(Suffixes)
  BY <1>2
<1>4. SubSeq(snaps[d], 1, Position(d, s) - 1)
        \o SubSeq(snaps[d], Position(d, s) + 1, Len(snaps[d])) \in Seq(Suffixes)
  BY <1>3
<1> QED
  BY <1>1, <1>4 DEF ZfsTypeOK, DestroySnap

\* zfs_destroy of a file system, which is not mounted.
LEMMA DestroyFsType ==
  ASSUME ZfsTypeOK, NEW d, CanDestroyFs(d), DestroyFs(d)
  PROVE  ZfsTypeOK'
BY DEF ZfsTypeOK, CanDestroyFs, DestroyFs

\* zfs_rename: every mention of the old name is moved to the new one.
LEMMA RenameType ==
  ASSUME ZfsTypeOK, NEW d, NEW e \in Datasets, CanRename(d, e), Rename(d, e)
  PROVE  ZfsTypeOK'
<1>1. d \in Datasets
  BY DEF ZfsTypeOK, CanRename
<1>2. fs' \subseteq Datasets /\ mounted' \subseteq fs' /\ tmpmp' \subseteq fs'
  BY <1>1 DEF ZfsTypeOK, CanRename, Rename, Renamed
<1>3. << >> \in Seq(Suffixes)
  OBVIOUS
<1>4. snaps' \in [Datasets -> Seq(Suffixes)]
  BY <1>1, <1>3 DEF ZfsTypeOK, Rename
<1>5. origin' \in [Datasets -> Snapshots \cup {NoSnap}]
  BY <1>1 DEF ZfsTypeOK, Rename, Snapshots
<1>6. bootfs' \in Names \cup {NoName}
  BY <1>1, DatasetFacts DEF ZfsTypeOK, Rename
<1> QED
  BY <1>2, <1>4, <1>5, <1>6 DEF ZfsTypeOK

\* zfs_mount of an existing dataset.
LEMMA MountType ==
  ASSUME ZfsTypeOK, NEW d, CanMount(d), Mount(d)
  PROVE  ZfsTypeOK'
BY DEF ZfsTypeOK, CanMount, Mount

\* zfs_unmount.
LEMMA UnmountType ==
  ASSUME ZfsTypeOK, NEW d, Unmount(d)
  PROVE  ZfsTypeOK'
BY DEF ZfsTypeOK, Unmount

\* The mountpoint property of an existing dataset.
LEMMA SetMountpointType ==
  ASSUME ZfsTypeOK, NEW d, NEW t \in BOOLEAN, CanSetMountpoint(d), SetMountpoint(d, t)
  PROVE  ZfsTypeOK'
BY DEF ZfsTypeOK, CanSetMountpoint, SetMountpoint

\* The pool property bootfs.
LEMMA SetBootfsType ==
  ASSUME ZfsTypeOK, NEW n \in Names, SetBootfs(n)
  PROVE  ZfsTypeOK'
BY DEF ZfsTypeOK, SetBootfs
=============================================================================
