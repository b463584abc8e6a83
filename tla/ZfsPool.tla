------------------------------ MODULE ZfsPool ------------------------------
(***************************************************************************)
(* The ZFS storage zectl manages, as far as libze relies on it.            *)
(*                                                                         *)
(* Nothing here is code of this repository: libzfs and the kernel are      *)
(* external, and each operator states the effect libze.c expects of one    *)
(* libzfs call.  A boot environment named n is the dataset Root(n) of the  *)
(* pool that holds the root file systems and, on a system with a separate  *)
(* boot pool, also the dataset Boot(n) of that pool.                       *)
(*                                                                         *)
(* A dataset has its snapshots, oldest first, and a clone has the snapshot *)
(* it was cloned from as its origin.  Names of datasets identify them, as  *)
(* in libzfs, where a handle keeps the name it was opened with.            *)
(***************************************************************************)
EXTENDS Naturals, Sequences

CONSTANTS
  Names,      \* names of boot environments
  Suffixes,   \* names of snapshots: the part after '@'
  BootPool,   \* the property org.zectl:bootpoolroot is set
  NoName,     \* the pool property bootfs is unset
  NoSnap      \* the origin of a dataset that is not a clone

ASSUME ZfsAssumption ==
  /\ BootPool \in BOOLEAN
  /\ NoName \notin Names
  /\ NoSnap \notin ({"root", "boot"} \X Names) \X Suffixes

Pools == IF BootPool THEN {"root", "boot"} ELSE {"root"}
Datasets == Pools \X Names
Snapshots == Datasets \X Suffixes

Root(n) == <<"root", n>>
Boot(n) == <<"boot", n>>

VARIABLES
  fs,       \* the datasets that exist
  snaps,    \* the snapshots of each dataset, oldest first
  origin,   \* the origin snapshot of each dataset, or NoSnap
  mounted,  \* the datasets that are mounted
  tmpmp,    \* the datasets whose mountpoint property is a /tmp/ze.* directory
  bootfs    \* the pool property bootfs: the activated boot environment

zfsVars == <<fs, snaps, origin, mounted, tmpmp, bootfs>>

ZfsTypeOK ==
  /\ fs \subseteq Datasets
  /\ snaps \in [Datasets -> Seq(Suffixes)]
  /\ origin \in [Datasets -> Snapshots \cup {NoSnap}]
  /\ mounted \subseteq fs
  /\ tmpmp \subseteq fs
  /\ bootfs \in Names \cup {NoName}

\* One installed boot environment n, running and activated.
ZfsInit(n) ==
  /\ fs = Pools \X {n}
  /\ snaps = [d \in Datasets |-> << >>]
  /\ origin = [d \in Datasets |-> NoSnap]
  /\ mounted = fs
  /\ tmpmp = {}
  /\ bootfs = n

SnapsOf(d) == {snaps[d][i] : i \in 1 .. Len(snaps[d])}

\* The place of the snapshot d@s among the snapshots of d.
Position(d, s) == CHOOSE i \in 1 .. Len(snaps[d]) : snaps[d][i] = s

\* Datasets cloned from the snapshot d@s.
Clones(d, s) == {e \in fs : origin[e] = <<d, s>>}

(***************************************************************************)
(* zfs_snapshot: fails when the dataset is missing or the name is taken.   *)
(***************************************************************************)
CanSnapshot(d, s) == d \in fs /\ s \notin SnapsOf(d)
Snapshot(d, s) ==
  /\ snaps' = [snaps EXCEPT ![d] = Append(@, s)]
  /\ UNCHANGED <<fs, origin, mounted, tmpmp, bootfs>>

(***************************************************************************)
(* zfs_clone of src@s to d.                                                *)
(***************************************************************************)
CanClone(d, src, s) == d \notin fs /\ src \in fs /\ s \in SnapsOf(src)
Clone(d, src, s) ==
  /\ fs' = fs \cup {d}
  /\ origin' = [origin EXCEPT ![d] = <<src, s>>]
  /\ UNCHANGED <<snaps, mounted, tmpmp, bootfs>>

(***************************************************************************)
(* zfs_promote: the snapshots of the origin dataset up to the origin       *)
(* snapshot move to the clone, every other clone of one of them follows,   *)
(* and the former origin dataset becomes a clone.  Refused when a snapshot *)
(* that would move has the name of a snapshot of the clone.                *)
(***************************************************************************)
PromotedSnaps(d) ==
  LET o == origin[d][1] IN {snaps[o][i] : i \in 1 .. Position(o, origin[d][2])}

CanPromote(d) ==
  /\ d \in fs
  /\ origin[d] \in Snapshots
  /\ origin[d][1] \in fs
  /\ origin[d][2] \in SnapsOf(origin[d][1])
  /\ PromotedSnaps(d) \cap SnapsOf(d) = {}
Promote(d) ==
  LET o == origin[d][1]
      s == origin[d][2]
      k == Position(o, s)
      moved == PromotedSnaps(d)
  IN
  /\ snaps' = [snaps EXCEPT ![d] = SubSeq(snaps[o], 1, k) \o snaps[d],
                            ![o] = SubSeq(snaps[o], k + 1, Len(snaps[o]))]
  /\ origin' = [e \in Datasets |->
       CASE e = d -> origin[o]
         [] e = o -> <<d, s>>
         [] e \notin {d, o} /\ \E t \in moved : origin[e] = <<o, t>> ->
              <<d, origin[e][2]>>
         [] OTHER -> origin[e]]
  /\ UNCHANGED <<fs, mounted, tmpmp, bootfs>>

(***************************************************************************)
(* zfs_destroy, without the defer flag, of a snapshot and of a file        *)
(* system.  Destroying the dataset bootfs names clears bootfs.             *)
(***************************************************************************)
CanDestroySnap(d, s) == d \in fs /\ s \in SnapsOf(d) /\ Clones(d, s) = {}
DestroySnap(d, s) ==
  /\ snaps' = [snaps EXCEPT ![d] = SubSeq(@, 1, Position(d, s) - 1)
                                       \o SubSeq(@, Position(d, s) + 1, Len(@))]
  /\ UNCHANGED <<fs, origin, mounted, tmpmp, bootfs>>

CanDestroyFs(d) == d \in fs \ mounted /\ snaps[d] = << >>
DestroyFs(d) ==
  /\ fs' = fs \ {d}
  /\ origin' = [origin EXCEPT ![d] = NoSnap]
  /\ tmpmp' = tmpmp \ {d}
  /\ bootfs' = IF bootfs # NoName /\ d = Root(bootfs) THEN NoName ELSE bootfs
  /\ UNCHANGED <<snaps, mounted>>

(***************************************************************************)
(* zfs_rename with nounmount: snapshots, clones, mounts and bootfs follow  *)
(* the dataset to its new name.                                            *)
(***************************************************************************)
Renamed(S, d, e) == IF d \in S THEN (S \ {d}) \cup {e} ELSE S

CanRename(d, e) == d \in fs /\ e \notin fs
Rename(d, e) ==
  /\ fs' = Renamed(fs, d, e)
  /\ mounted' = Renamed(mounted, d, e)
  /\ tmpmp' = Renamed(tmpmp, d, e)
  /\ snaps' = [snaps EXCEPT ![e] = snaps[d], ![d] = << >>]
  /\ origin' = [x \in Datasets |->
       LET o == IF x = e THEN origin[d] ELSE IF x = d THEN NoSnap ELSE origin[x]
       IN  IF o # NoSnap /\ o[1] = d THEN <<e, o[2]>> ELSE o]
  /\ bootfs' = IF bootfs # NoName /\ d = Root(bootfs) THEN e[2] ELSE bootfs

(***************************************************************************)
(* Mounting.  libze mounts the boot dataset of an environment below its    *)
(* root dataset, so the root dataset is busy while Boot(n) is mounted.     *)
(***************************************************************************)
Busy(d) == d[1] = "root" /\ Boot(d[2]) \in mounted

CanMount(d) == d \in fs
Mount(d) ==
  /\ mounted' = mounted \cup {d}
  /\ UNCHANGED <<fs, snaps, origin, tmpmp, bootfs>>

CanUnmount(d) == d \in mounted /\ ~Busy(d)
Unmount(d) ==
  /\ mounted' = mounted \ {d}
  /\ UNCHANGED <<fs, snaps, origin, tmpmp, bootfs>>

\* Setting the mountpoint property unmounts and remounts a mounted dataset,
\* so a busy one refuses it.
CanSetMountpoint(d) == d \in fs /\ (d \in mounted => ~Busy(d))
SetMountpoint(d, isTmp) ==
  /\ tmpmp' = IF isTmp THEN tmpmp \cup {d} ELSE tmpmp \ {d}
  /\ UNCHANGED <<fs, snaps, origin, mounted, bootfs>>

\* zpool_set_prop(bootfs) needs the dataset to exist.
CanSetBootfs(n) == Root(n) \in fs
SetBootfs(n) ==
  /\ bootfs' = n
  /\ UNCHANGED <<fs, snaps, origin, mounted, tmpmp>>
=============================================================================
