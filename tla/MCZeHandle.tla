----------------------------- MODULE MCZeHandle -----------------------------
(***************************************************************************)
(* Values and bounds for ZeHistory, and the string functions of ZeStrings  *)
(* against each other, over bounded strings.                               *)
(***************************************************************************)
EXTENDS ZeHistory, TLC

\* Strings of up to five tokens, and buffers that are too small for some.
Strings == UNION {[1 .. k -> {"a", "b", "/", "@"}] : k \in 1 .. 5}

\* libze_util_split, get_snap_and_dataset, libze_boot_env_name,
\* libze_get_zpool_name_from_dataset: the two ways to take a snapshot apart, of
\* zectl snapshot and of zectl create -e, agree on every name and every buffer;
\* what they return, put together, is the name they were given; and what takes
\* an environment or a pool from a dataset finds no '/' in it.
ASSUME NamesAgree ==
  \A s \in Strings : \A n \in 0 .. 6 :
    /\ SnapAndDataset(s, n) = Split(s, n, "@")
    /\ Split(s, n, "@") # Error =>
         Concat(Split(s, n, "@")[1], <<"@">>, Split(s, n, "@")[2], n) = s
    /\ BootEnvName(s, n) # Error =>
         /\ Places(BootEnvName(s, n), "/") = {}
         /\ Concat(Cut(s, n, "/"), <<"/">>, BootEnvName(s, n), n) = s
    /\ PoolOf(s) # Error => Places(PoolOf(s), "/") = {} /\ PoolOf(s) # << >>

\* The hypothesis under which the properties are proved.
ASSUME ColonsHere == ColonsInNames

\* Bounds.  A list and a get write nothing, and a list reads no property but in
\* main: a list is alone, with nothing set, and only then do the seconds differ,
\* are there three environments, and goes it on after a call that failed.  The
\* environments change beside one command, as they do not interact with the
\* properties; and one get runs at a time.
Kept(p, op) == proc[p].cmd.op = op
Apart ==
  /\ \/ /\ \A p, q \in Procs : Kept(p, "list") /\ q # p => At(q, "idle")
        /\ \A p \in Procs : ~At(p, "idle") => Kept(p, "list")
        /\ \A n \in PropNames : props[n] = Absent
     \/ /\ \A p \in Procs : ~Kept(p, "list")
        /\ \A e \in bes : created[e] = 0
        /\ Cardinality(bes) <= 2 /\ faults = 0
        /\ (\A p \in Procs : ~At(p, "idle")) => bes = {active}
  /\ \A p, q \in Procs : Kept(p, "get") /\ Kept(q, "get") => p = q

MCTokens == {Namespace, ".", ":", "=", "bootloader", "bootpoolroot", "systemdboot", "efi", "/efi",
             "/boot", "nosuch", "broken", "bpool", "/", "boot"}

Symmetry == Permutations(Names) \cup Permutations(Procs)

MCSetLists ==
  {<<(<<"bootloader", "=", "systemdboot">>)>>,
   <<(<<"bootloader", "=", "nosuch">>), (<<"systemdboot", ":", "efi", "=", "/boot">>)>>,
   <<(<<"bootloader", "=", "broken">>)>>,
   <<(<<"bootloader", "=", "nosuch">>), (<<"bootloader", "=", "systemdboot">>),
     (<<"systemdboot", ":", "efi">>)>>,
   <<(<<"bootpoolroot", "=", "bpool">>)>>}
MCGetArgs == {<<"bootloader">>, <<"systemdboot", ":", "efi">>}
MCPlugins == {<<"systemdboot">>}
MCBroken == {<<"broken">>}
MCBootRoots == {<<"bpool">>, <<"bpool", "/", "boot">>}
=============================================================================
