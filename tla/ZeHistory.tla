----------------------------- MODULE ZeHistory -----------------------------
(***************************************************************************)
(* The properties of ZeHandle, over a history of it: `said` is what the    *)
(* user last set each property to, as it was typed, and `knew` what said   *)
(* was when each process opened its handle.                                *)
(***************************************************************************)
EXTENDS ZeHandle

VARIABLES said, knew

historyVars == <<zeVars, said, knew>>

\* The name and the value as they are typed: what is before and after '='.
Typed(arg) == [name |-> Before(arg, First(arg, "=")), value |-> After(arg, First(arg, "="))]
TypedNames == {Typed(a).name : a \in {b \in SetArgs : SetProperty(b) # Error}}

\* Every ':' that matters is in a name.  parse_property takes the first one for
\* the end of the namespace, be it in the value: `bootloader=a:b=c` sets
\* the property `b` of the namespace `bootloader=a`.
ColonsInNames ==
  \A a \in SetArgs :
    SetProperty(a) = Error \/ Places(a, ":") = {} \/ First(a, ":") < First(a, "=")

NothingSaid == [t \in TypedNames |-> Absent]

Succeeds(p, op) == At(p, op) /\ out' # Absent /\ out'.by = p /\ out'.result = "ok"

Says(p, t) ==
  LET args == {Typed(proc[p].cmd.args[i]) : i \in DOMAIN proc[p].cmd.args} IN
  IF Succeeds(p, "set") /\ \E a \in args : a.name = t
  THEN (CHOOSE a \in args : a.name = t).value ELSE said[t]

HistoryInit == ZeInit /\ said = NothingSaid /\ knew = [p \in Procs |-> NothingSaid]
HistoryNext ==
  /\ \/ \E p \in Procs : Step(p) /\ said' = [t \in TypedNames |-> Says(p, t)]
     \/ Others /\ UNCHANGED said
     \/ \E n \in {Bootloader, BootPoolRoot} :
          /\ Repair(n)
          /\ said' = [t \in TypedNames |-> IF GetProperty(t) = n THEN Absent ELSE said[t]]
  /\ knew' = [p \in Procs |-> IF proc'[p].pc = "idle" THEN NothingSaid
                              ELSE IF At(p, "idle") THEN said ELSE knew[p]]

HistorySpec == HistoryInit /\ [][HistoryNext]_historyVars

\* What the property typed as t was set to when p opened its handle.
Known(p, t) == IF t \in TypedNames THEN knew[p][t] ELSE Absent

\* libze_add_set_property, libze_filter_be_props, libze_default_props_set,
\* libze_add_get_property: get NAME shows what the last set NAME=VALUE before
\* it began has set NAME to, through the pool and whatever else was set by
\* other processes meanwhile; without one, the default of main or of the
\* plugin that is loaded, or "-".
GetShowsWhatWasSet ==
  [][\A p \in Procs : Succeeds(p, "get") =>
       LET arg == proc[p].cmd.arg
           default == CASE arg \in {<<"bootloader">>, <<"bootpoolroot">>} -> << >>
                        [] arg = <<"systemdboot", ":", "efi">> /\ proc[p].plugin -> <<"/efi">>
                        [] OTHER -> <<"-">>
       IN out'.shown = IF Known(p, arg) # Absent THEN Known(p, arg) ELSE default]_historyVars

\* libze_bootloader_set: a command that goes on runs with the plugin of the
\* boot loader that was set last before it began; it does without only when
\* that boot loader has none, not when loading it failed.
PluginFollowsSet ==
  \A p \in Procs : proc[p].pc \in {"set", "get", "list", "iterate"} =>
    LET loader == Known(p, <<"bootloader">>) IN
    proc[p].plugin = (loader \in Plugins) /\ loader \notin BrokenPlugins

\* libze_list, libze_list_cb: when no call fails, every environment that was
\* there from the beginning of the list to its end has its line, marked with
\* what runs and what the handle says is booted next; or an environment of the
\* same second has taken the line.
ListComplete ==
  [][\A p \in Procs : Succeeds(p, "iterate") /\ faults' = faults =>
       \A e \in proc[p].since :
         LET line == out'.shown[created[e]] IN
         /\ line # Absent
         /\ line.name = e => /\ line.next = (e = proc[p].activated)
                             /\ line.now = (e = running)]_historyVars
=============================================================================
