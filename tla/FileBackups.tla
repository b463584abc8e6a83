---------------------------- MODULE FileBackups ----------------------------
(***************************************************************************)
(* FileReplace with a history variable: whether two updates have ever      *)
(* overlapped.  What file.bak promises.                                    *)
(***************************************************************************)
EXTENDS FileReplace

VARIABLE overlap

backupVars == <<frVars, overlap>>

Busy == {p \in Procs : ~At(p, "idle")}

BackupInit == FRInit /\ overlap = FALSE
BackupNext == FRNext /\ overlap' = (overlap \/ \E p, q \in Busy' : p # q)
BackupSpec == BackupInit /\ [][BackupNext]_backupVars

\* "backup unit": as long as updates do not overlap, the step that replaces
\* the file leaves in file.bak what it held, also when the new text is torn by
\* a failure that went unnoticed (unless another one tore the backup).
ReplacedIsBackedUp ==
  [][target' # target /\ ~overlap /\ (silent > 0 => silent = 1 /\ ~Whole(target'))
       => bak' = target]_backupVars

\* What the one update in the state st, whose temporary file is t, has made of
\* file.bak: a copy up to the lines written out, then the file; unless the copy
\* was the one failure that went unnoticed, and then the new text is whole.
BackedUp(st, t) ==
  /\ st.pc = "copy" =>
       st.src = target /\ \A i \in 1 .. Lines : i <= st.written => bak[i] = target[i]
  /\ st.pc \in {"mkstemp", "open", "replace", "close", "rename"} /\ silent <= 1 =>
       \/ bak = target
       \/ /\ silent = 1 /\ Whole(target)
          /\ st.pc = "replace" =>
               Whole(st.src) /\ \A i \in 1 .. Lines : i <= st.written => t[i] = st.be
          /\ st.pc \in {"close", "rename"} => t = Text(st.be)

\* The inductive invariant behind ReplacedIsBackedUp.
BackupInv ==
  /\ FRInv
  /\ overlap \in BOOLEAN
  /\ ~overlap =>
       /\ \A p, q \in Busy : p = q
       /\ \A p \in Procs : BackedUp(proc[p], tmp[p])
=============================================================================
