----------------------------- MODULE ConfigFile -----------------------------
(***************************************************************************)
(* What the systemd-boot plugin expects of an update of loader.conf or of  *)
(* an fstab ("Use rename for atomicity"): whoever reads the file finds the *)
(* text for one environment, the old one or the new one, and an update     *)
(* that reports failure or is killed has changed nothing.  Only a failure  *)
(* that went unnoticed spoils the file, and that update reports success.   *)
(***************************************************************************)
EXTENDS Naturals

CONSTANTS
  Names,  \* the environments the text can name
  Procs,  \* the processes that update the file
  None    \* no environment

VARIABLES
  file,    \* the environment the text names; None if it is torn
  wanted,  \* the one each process wants it to name; None between updates
  result,  \* what the last update of each process reported
  silent   \* how many failures went unnoticed

configVars == <<file, wanted, result, silent>>

CInit ==
  /\ file \in Names
  /\ wanted = [p \in Procs |-> None] /\ result = [p \in Procs |-> "none"] /\ silent = 0

Ends(p, r) == wanted' = [wanted EXCEPT ![p] = None] /\ result' = [result EXCEPT ![p] = r]

Begin(p) ==
  /\ wanted[p] = None
  /\ \E n \in Names : wanted' = [wanted EXCEPT ![p] = n]
  /\ result' = [result EXCEPT ![p] = "none"]
  /\ UNCHANGED <<file, silent>>

Update(p) == wanted[p] # None /\ file' = wanted[p] /\ Ends(p, "ok") /\ UNCHANGED silent

Spoil(p) == wanted[p] # None /\ silent > 0 /\ file' = None /\ Ends(p, "ok") /\ UNCHANGED silent

GiveUp(p) ==
  /\ wanted[p] # None
  /\ Ends(p, "fail") \/ Ends(p, "killed")
  /\ silent' \in {silent, silent + 1} /\ UNCHANGED file

Unnoticed == silent' = silent + 1 /\ UNCHANGED <<file, wanted, result>>

CNext == Unnoticed \/ \E p \in Procs : Begin(p) \/ Update(p) \/ Spoil(p) \/ GiveUp(p)

CSpec == CInit /\ [][CNext]_configVars
=============================================================================
