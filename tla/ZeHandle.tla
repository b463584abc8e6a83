------------------------------ MODULE ZeHandle ------------------------------
(***************************************************************************)
(* The handle of a command: what libze_init and main read when a command   *)
(* starts (the activated environment, the org.zectl properties), and what  *)
(* set, get and list make of it while other commands change the pool.      *)
(*                                                                         *)
(* The other commands are the atomic operations of BootEnvs, which modules *)
(* Zectl and DatasetTree implement; here an environment also has the       *)
(* second its dataset was created in.  A property is a name, a sequence of *)
(* tokens as in ZeStrings, and a value.                                    *)
(*                                                                         *)
(* Left out: buffers (no name is too long), running out of memory, how a   *)
(* list is laid out, and `get` with no argument, which prints every        *)
(* property of the handle.                                                 *)
(***************************************************************************)
EXTENDS BootEnvs, ZeStrings, FiniteSets

CONSTANTS
  Tokens,         \* what names and values are made of
  Procs,          \* processes that run set, get or list
  SetLists,       \* the arguments of set: sequences of name=value
  GetArgs,        \* the arguments of get
  Plugins,        \* the boot loaders that have a plugin
  BrokenPlugins,  \* those whose plugin has no export table, or does not start
  BootRoots,      \* the datasets with a boot dataset of every environment
  Absent,         \* no value
  MaxSecond,      \* bound on the second an environment is created in
  MaxFaults       \* bound on calls that fail

ASSUME ZeHandleAssumption ==
  /\ {Namespace, ".", ":", "=", "bootloader", "bootpoolroot", "systemdboot", "efi", "/efi"}
       \subseteq Tokens
  /\ SetLists \subseteq Seq(Seq(Tokens)) /\ GetArgs \subseteq Seq(Tokens)
  /\ Plugins \cup BrokenPlugins \cup BootRoots \subseteq Seq(Tokens) \ {<< >>}
  /\ Plugins \cap BrokenPlugins = {}
  /\ Error \notin Seq(Tokens)
  /\ MaxSecond \in Nat /\ MaxFaults \in Nat

VARIABLES
  props,    \* the user properties of the root of boot environments
  created,  \* the second each environment was created in
  proc,     \* what each process is doing
  out,      \* how the command ended that the last step ended, if it did
  faults    \* calls that have failed

zeVars == <<bevars, props, created, proc, out, faults>>

Bootloader == <<Namespace, ":", "bootloader">>
BootPoolRoot == <<Namespace, ":", "bootpoolroot">>
Efi == <<Namespace, ".", "systemdboot", ":", "efi">>

\* define_default_props, and the systemd-boot plugin's (one of three).
MainDefaults == [n \in {Bootloader, BootPoolRoot} |-> << >>]
PluginDefaults == [n \in {Efi} |-> <<"/efi">>]

SetArgs == UNION {{l[i] : i \in DOMAIN l} : l \in SetLists}
SetProps == {SetProperty(a) : a \in SetArgs} \ {Error}
PropNames == {s.name : s \in SetProps} \cup {Bootloader, BootPoolRoot, Efi}
Values == {s.value : s \in SetProps} \cup {<< >>, <<"/efi">>}

Commands ==
       [op : {"set"}, args : SetLists]
  \cup [op : {"get"}, arg : GetArgs]
  \cup {[op |-> "list"]}
NoCommand == [op |-> "none"]

\* A line of the list: R if it is booted next, N if it runs now.
Entries == [name : Names, next : BOOLEAN, now : BOOLEAN]
Listing == [0 .. MaxSecond -> Entries \cup {Absent}]
NoListing == [s \in 0 .. MaxSecond |-> Absent]

\* How a command ended, and what it has shown: a value or a list.
Result(p, result, shown) == [by |-> p, result |-> result, shown |-> shown]

\* No value is neither a value nor any other thing that stands where it may stand.
ASSUME AbsentAssumption ==
  /\ Absent \notin Seq(Tokens) \cup Entries
  /\ \A p \in Procs : Absent # Result(p, "ok", Absent)

\* cmd, activated, props, plugin: the command and its handle.  visited, since:
\* the environments list has seen, and those that have been there since it
\* began.  shown: the list so far.
Idle ==
  [pc |-> "idle", cmd |-> NoCommand, activated |-> Absent, props |-> Absent, plugin |-> FALSE,
   visited |-> {}, since |-> {}, shown |-> NoListing]

Properties == [PropNames -> Values \cup {Absent}]

Running ==
  [pc : {"main", "set", "get", "list", "iterate"}, cmd : Commands, activated : Names,
   props : Properties, plugin : BOOLEAN,
   visited : SUBSET Names, since : SUBSET Names, shown : Listing]

ZeTypeOK ==
  /\ bes \subseteq Names /\ active \in bes /\ running \in bes
  /\ props \in Properties
  /\ created \in [bes -> 0 .. MaxSecond]
  /\ faults \in 0 .. MaxFaults
  /\ proc \in [Procs -> Running \cup {Idle}]
  /\ \A p \in Procs : proc[p].since \subseteq bes
  /\ out # Absent => proc[out.by] = Idle

ZeInit ==
  /\ BEInit
  /\ props = [n \in PropNames |-> Absent]
  /\ created \in [bes -> 0 .. MaxSecond]
  /\ proc = [p \in Procs |-> Idle] /\ out = Absent
  /\ faults = 0

At(p, l) == proc[p].pc = l

\* libze_fini.
\* Mutant, no code of zectl: the handle is kept.
ExitUnfreed(p, result, shown) ==
  /\ proc' = [proc EXCEPT ![p].pc = "idle"]
  /\ out' = Result(p, result, shown)
Exit(p, result, shown) ==
  /\ proc' = [proc EXCEPT ![p] = Idle]
  /\ out' = Result(p, result, shown)

Continue(p, st) == proc' = [proc EXCEPT ![p] = st] /\ out' = Absent
Fault == faults < MaxFaults /\ faults' = faults + 1
OnPool == UNCHANGED <<bevars, props, created>>

(***************************************************************************)
(* libze_init and main.                                                    *)
(***************************************************************************)
PropGet(ps, n) == IF ps[n] = Absent THEN << >> ELSE ps[n]

AddDefaults(ps, defaults) ==
  [n \in PropNames |-> IF n \in DOMAIN defaults /\ ps[n] = Absent THEN defaults[n] ELSE ps[n]]

\* libze_init: libze_be_props_get keeps what is in the namespace.
Open(p) ==
  /\ At(p, "idle")
  /\ \E c \in Commands :
       Continue(p, [Idle EXCEPT !.pc = "main", !.cmd = c, !.activated = active,
         !.props = [n \in PropNames |-> IF InNamespace(n) THEN props[n] ELSE Absent]])
  /\ OnPool /\ UNCHANGED faults

\* libze_bootloader_set: a boot loader that has no plugin is a warning.
LoaderOf(p) == PropGet(proc[p].props, Bootloader)

\* libze_boot_pool_set: the root of the boot pool is not the pool itself.
BootPoolOK(p) ==
  LET root == PropGet(proc[p].props, BootPoolRoot) IN
  root = << >> \/ (root \in BootRoots /\ PoolOf(root) # Error)

\* libze_validate_system.
SystemOK(p) == {proc[p].activated, running} \subseteq bes

\* Mutant, no code of zectl: every failure to load a plugin is a warning.
MainPassesAlways(p) == BootPoolOK(p) /\ SystemOK(p)
MainPasses(p) == LoaderOf(p) \notin BrokenPlugins /\ BootPoolOK(p) /\ SystemOK(p)

Main(p) ==
  LET plugin == LoaderOf(p) \in Plugins
      loaded == IF plugin THEN AddDefaults(proc[p].props, PluginDefaults) ELSE proc[p].props
  IN
  /\ At(p, "main")
  /\ IF MainPasses(p)
     THEN Continue(p, [proc[p] EXCEPT !.pc = proc[p].cmd.op, !.plugin = plugin,
                                      !.props = AddDefaults(loaded, MainDefaults)])
     ELSE Exit(p, "fail", Absent)
  /\ OnPool /\ UNCHANGED faults

(***************************************************************************)
(* ze_set, ze_get.                                                         *)
(***************************************************************************)
\* Mutant, no code of zectl: all the properties of the handle are written.
WrittenBack(p, list) ==
  [n \in PropNames |-> IF \E s \in list : s.name = n
                       THEN (CHOOSE s \in list : s.name = n).value ELSE proc[p].props[n]]
Written(p, list) ==
  [n \in PropNames |-> IF \E s \in list : s.name = n
                       THEN (CHOOSE s \in list : s.name = n).value ELSE props[n]]

\* Nothing is set if an argument has no '=' or names a property again.
Set(p) ==
  LET args == proc[p].cmd.args
      list == {SetProperty(args[i]) : i \in DOMAIN args}
      refused == \/ Error \in list
                 \/ \E i, j \in DOMAIN args :
                      i # j /\ SetProperty(args[i]).name = SetProperty(args[j]).name
  IN
  /\ At(p, "set")
  /\ IF refused THEN Exit(p, "fail", Absent) /\ UNCHANGED <<props, faults>>
     ELSE \/ Exit(p, "fail", Absent) /\ Fault /\ UNCHANGED props
          \/ Exit(p, "ok", Absent) /\ props' = Written(p, list) /\ UNCHANGED faults
  /\ UNCHANGED <<bevars, created>>

\* A property that is neither set nor has a default is shown as "-".
Get(p) ==
  LET n == GetProperty(proc[p].cmd.arg)
      known == n \in PropNames /\ proc[p].props[n] # Absent
  IN
  /\ At(p, "get")
  /\ Exit(p, "ok", IF known THEN proc[p].props[n] ELSE <<"-">>)
  /\ OnPool /\ UNCHANGED faults

(***************************************************************************)
(* ze_list.  zfs_iter_filesystems visits the environments in no order; one *)
(* that is created or renamed meanwhile may or may not be seen.            *)
(***************************************************************************)
\* Without the root dataset ze_list frees a list that was never allocated:
\* it may crash.
StartList(p) ==
  /\ At(p, "list")
  /\ \/ Continue(p, [proc[p] EXCEPT !.pc = "iterate", !.since = bes]) /\ UNCHANGED faults
     \/ \E result \in {"fail", "killed"} : Exit(p, result, Absent) /\ Fault
  /\ OnPool

\* Mutant, no code of zectl: the key is the time as it is shown, in minutes.
MinuteOf(e) == created[e] \div 2

\* libze_list_cb: the nvlist of the environments has one for each second.
KeyOf(e) == created[e]

Visit(p) ==
  /\ At(p, "iterate")
  /\ \E e \in bes \ proc[p].visited :
       LET line == [name |-> e, next |-> e = proc[p].activated, now |-> e = running] IN
       Continue(p, [proc[p] EXCEPT !.visited = @ \cup {e}, !.shown[KeyOf(e)] = line])
  /\ OnPool /\ UNCHANGED faults

\* libze_list does not look at the result of zfs_iter_filesystems.
EndList(p) ==
  /\ At(p, "iterate")
  /\ Exit(p, "ok", proc[p].shown)
  /\ \/ proc[p].since \subseteq proc[p].visited /\ UNCHANGED faults
     \/ Fault
  /\ OnPool

(***************************************************************************)
(* The environment.                                                        *)
(***************************************************************************)
\* Another command.  A name leaves `since` with the environment that had it; a
\* reboot ends every process.
Others ==
  /\ BENext
  /\ \E second \in 0 .. MaxSecond :
       created' = [e \in bes' |->
         IF e \in bes THEN created[e]
         ELSE IF bes \subseteq bes' THEN second ELSE created[CHOOSE x \in bes : x \notin bes']]
  /\ proc' = [p \in Procs |-> IF running' # running THEN Idle
                              ELSE [proc[p] EXCEPT !.since = @ \cap bes']]
  /\ out' = Absent
  /\ UNCHANGED <<props, faults>>

\* zfs inherit, by the administrator: when main refuses to go on, it does so
\* for zectl set too.
Repair(n) ==
  /\ props' = [props EXCEPT ![n] = Absent] /\ out' = Absent
  /\ UNCHANGED <<bevars, created, proc, faults>>

Step(p) == Open(p) \/ Main(p) \/ Set(p) \/ Get(p) \/ StartList(p) \/ Visit(p) \/ EndList(p)

ZeNext ==
  \/ \E p \in Procs : Step(p)
  \/ Others
  \/ \E n \in {Bootloader, BootPoolRoot} : Repair(n)

ZeSpec == ZeInit /\ [][ZeNext]_zeVars
=============================================================================
