------------------------------ MODULE BootEnvs ------------------------------
(***************************************************************************)
(* What zectl promises its user, with every command a single step: a set   *)
(* of boot environments, the one that is running and the one that is       *)
(* activated.  The two are never removed and never lose their name         *)
(* (libze_destroy and libze_rename refuse them), and only an existing      *)
(* environment is activated or booted.                                     *)
(***************************************************************************)
CONSTANT Names

VARIABLES
  bes,      \* the boot environments
  active,   \* the one the next boot starts
  running   \* the one that is running

bevars == <<bes, active, running>>

BEInit ==
  /\ \E n \in Names : bes = {n}
  /\ active \in bes
  /\ running \in bes

CreateBE(n) ==
  /\ n \in Names \ bes
  /\ bes' = bes \cup {n}
  /\ UNCHANGED <<active, running>>

DestroyBE(n) ==
  /\ n \in bes \ {active, running}
  /\ bes' = bes \ {n}
  /\ UNCHANGED <<active, running>>

RenameTo(n, m) ==
  /\ n \in bes \ {active, running}
  /\ m \in Names \ bes
  /\ bes' = (bes \ {n}) \cup {m}
  /\ UNCHANGED <<active, running>>

ActivateBE(n) ==
  /\ n \in bes
  /\ active' = n
  /\ UNCHANGED <<bes, running>>

RebootInto(n) ==
  /\ n \in bes
  /\ running' = n
  /\ UNCHANGED <<bes, active>>

BENext ==
  \E n \in Names :
    \/ CreateBE(n) \/ DestroyBE(n) \/ ActivateBE(n) \/ RebootInto(n)
    \/ \E m \in Names : RenameTo(n, m)

BESpec == BEInit /\ [][BENext]_bevars
=============================================================================
