---------------------------- MODULE FileReplace ----------------------------
(***************************************************************************)
(* How the systemd-boot plugin changes loader.conf (update_loader_default) *)
(* and an fstab (update_fstab): copy the file to file.bak, make a          *)
(* temporary file, write the changed lines to it, rename it over the file. *)
(* It is the detail behind the steps loader_default and create_fstab of    *)
(* module SystemdBoot.                                                     *)
(*                                                                         *)
(* Any number of processes do this to one file, each with a temporary file *)
(* of its own and all with the one file.bak.  Calls fail; what the code    *)
(* does not look at (fflush, fclose and, in replace_matched, fgets, fwrite *)
(* and the callback) fails silently.  A process may be killed at any       *)
(* point, and with it goes what stdio has not written out.                 *)
(*                                                                         *)
(* The text is Lines lines that name an environment; a line that does not  *)
(* is kept as it is, and is left out.  Opening two files is one step.      *)
(***************************************************************************)
EXTENDS Naturals

CONSTANTS
  Names,      \* the environments the text can name
  Procs,      \* the processes that update the file
  Lines,      \* the number of lines that name one
  NoLine,     \* a line that is missing
  Absent,     \* no such file
  MaxFaults,  \* bound on the failures that are reported
  MaxSilent,  \* bound on those that are not
  MayCrash    \* a process may be killed

ASSUME FileReplaceAssumption ==
  /\ Names # {} /\ NoLine \notin Names
  /\ Lines \in Nat \ {0}
  /\ Absent \notin [1 .. Lines -> Names \cup {NoLine}]
  /\ MaxFaults \in Nat /\ MaxSilent \in Nat /\ MayCrash \in BOOLEAN

VARIABLES
  target,  \* the file
  bak,     \* file.bak
  tmp,     \* the temporary file of each process
  proc,    \* what each process is doing
  faults,  \* failures that were reported
  silent   \* failures that were not

frVars == <<target, bak, tmp, proc, faults, silent>>

Contents == [1 .. Lines -> Names \cup {NoLine}]
Text(b) == [i \in 1 .. Lines |-> b]
Empty == Text(NoLine)
Whole(f) == \E b \in Names : f = Text(b)

Labels == {"idle", "access", "backup", "copy", "mkstemp", "open", "replace", "close",
           "rename", "remove"}
Results == {"none", "ok", "fail", "killed"}

\* be: the environment the text is to name.  src: the open file that is read,
\* which a rename does not touch.  read, written: its lines read into the
\* buffer, and written out.
ProcStates ==
  [pc : Labels, be : Names \cup {NoLine}, src : Contents, read : 0 .. Lines, written : 0 .. Lines,
   result : Results]

Idle(r) ==
  [pc |-> "idle", be |-> NoLine, src |-> Empty, read |-> 0, written |-> 0, result |-> r]

FRTypeOK ==
  /\ target \in Contents /\ bak \in Contents \cup {Absent}
  /\ tmp \in [Procs -> Contents \cup {Absent}]
  /\ proc \in [Procs -> ProcStates]
  /\ \A p \in Procs : proc[p].written <= proc[p].read
  /\ faults \in 0 .. MaxFaults /\ silent \in 0 .. MaxSilent

FRInit ==
  /\ \E b \in Names : target = Text(b)
  /\ proc = [p \in Procs |-> Idle("none")]
  /\ bak = Absent /\ tmp = [p \in Procs |-> Absent]
  /\ faults = 0 /\ silent = 0

At(p, l) == proc[p].pc = l
GoTo(p, l) == proc' = [proc EXCEPT ![p].pc = l]
\* Mutant, no code of zectl: the count of lines written is not reset.
OpenAgain(p, l, f) == proc' = [proc EXCEPT ![p].pc = l, ![p].src = f, ![p].read = 0]
\* On to l, to read the file f, or none if it is Empty.
Open(p, l, f) ==
  proc' = [proc EXCEPT ![p].pc = l, ![p].src = f, ![p].read = 0, ![p].written = 0]
Return(p, r) == proc' = [proc EXCEPT ![p] = Idle(r)]

NoFault == UNCHANGED <<faults, silent>>
Fault == faults < MaxFaults /\ faults' = faults + 1 /\ UNCHANGED silent
Silent == silent < MaxSilent /\ silent' = silent + 1 /\ UNCHANGED faults

\* The file f when p has written the lines of `text` to it up to line k.
Out(f, p, k, text) ==
  [i \in 1 .. Lines |-> IF proc[p].written < i /\ i <= k THEN text[i] ELSE f[i]]
Changed(p) ==
  [i \in 1 .. Lines |-> IF proc[p].src[i] = NoLine THEN NoLine ELSE proc[p].be]
Backup(p, k) == Out(bak, p, k, proc[p].src)
Replaced(p, k) == Out(tmp[p], p, k, Changed(p))
Advance(p, r, w) == proc' = [proc EXCEPT ![p].read = r, ![p].written = w]

(***************************************************************************)
(* One action per call.                                                    *)
(***************************************************************************)
Start(p, b) ==
  /\ At(p, "idle")
  /\ proc' = [proc EXCEPT ![p].pc = "access", ![p].be = b, ![p].result = "none"]
  /\ tmp' = [tmp EXCEPT ![p] = Absent]
  /\ UNCHANGED <<target, bak>> /\ NoFault

\* file_accessible.
Access(p) ==
  /\ At(p, "access")
  /\ \/ GoTo(p, "backup") /\ NoFault
     \/ Return(p, "fail") /\ Fault
  /\ UNCHANGED <<target, bak, tmp>>

\* libze_util_copy_file: file.bak is truncated before anything is copied.
OpenBackup(p) ==
  /\ At(p, "backup")
  /\ \/ Open(p, "copy", target) /\ bak' = Empty /\ NoFault
     \/ Return(p, "fail") /\ Fault /\ UNCHANGED bak
  /\ UNCHANGED <<target, tmp>>

\* libze_util_copy_filepointer: the next line, with stdio writing out what it
\* has or not; a failure of either is seen, whatever has been written by then.
CopyLine(p) ==
  LET r == proc[p].read + 1 IN
  /\ At(p, "copy") /\ r <= Lines
  /\ \/ Advance(p, r, proc[p].written) /\ UNCHANGED bak /\ NoFault
     \/ Advance(p, r, r) /\ bak' = Backup(p, r) /\ NoFault
     \/ \E k \in proc[p].written .. proc[p].read : bak' = Backup(p, k) /\ Return(p, "fail") /\ Fault
  /\ UNCHANGED <<target, tmp>>

\* Mutant, no code of zectl: file.bak is never closed.
EndCopyUnclosed(p) ==
  /\ At(p, "copy") /\ proc[p].read = Lines
  /\ Open(p, "mkstemp", Empty)
  /\ UNCHANGED <<target, bak, tmp>> /\ NoFault

\* The end of the file: fflush and fclose, whose failures nobody sees.
EndCopy(p) ==
  /\ At(p, "copy") /\ proc[p].read = Lines
  /\ Open(p, "mkstemp", Empty)
  /\ \/ bak' = Backup(p, Lines) /\ NoFault
     \/ \E k \in proc[p].written .. Lines - 1 : bak' = Backup(p, k) /\ Silent
  /\ UNCHANGED <<target, tmp>>

MakeTemp(p) ==
  /\ At(p, "mkstemp")
  /\ \/ GoTo(p, "open") /\ tmp' = [tmp EXCEPT ![p] = Empty] /\ NoFault
     \/ Return(p, "fail") /\ Fault /\ UNCHANGED tmp
  /\ UNCHANGED <<target, bak>>

\* replace_matched, from here to EndReplace.
OpenFiles(p) ==
  /\ At(p, "open")
  /\ \/ Open(p, "replace", target) /\ NoFault
     \/ GoTo(p, "remove") /\ Fault
  /\ UNCHANGED <<target, bak, tmp>>

ReplaceLine(p) ==
  LET r == proc[p].read + 1 IN
  /\ At(p, "replace") /\ r <= Lines
  /\ \/ Advance(p, r, proc[p].written) /\ UNCHANGED tmp
     \/ Advance(p, r, r) /\ tmp' = [tmp EXCEPT ![p] = Replaced(p, r)]
  /\ UNCHANGED <<target, bak>> /\ NoFault

\* The callback, fgets or a write fails: the loop ends, or goes on without the
\* lines, and LIBZE_ERROR_SUCCESS is returned all the same.
StopReplacing(p) ==
  /\ At(p, "replace") /\ Silent
  /\ \E k \in proc[p].written .. Lines - 1 : tmp' = [tmp EXCEPT ![p] = Replaced(p, k)]
  /\ Open(p, "close", Empty)
  /\ UNCHANGED <<target, bak>>

\* Mutant, no code of zectl: the temporary file is closed after the rename.
EndReplaceUnclosed(p) ==
  /\ At(p, "replace") /\ proc[p].read = Lines
  /\ Open(p, "close", Empty)
  /\ UNCHANGED <<target, bak, tmp>> /\ NoFault

EndReplace(p) ==
  /\ At(p, "replace") /\ proc[p].read = Lines
  /\ tmp' = [tmp EXCEPT ![p] = Replaced(p, Lines)]
  /\ Open(p, "close", Empty)
  /\ UNCHANGED <<target, bak>> /\ NoFault

\* Mutant, no code of zectl: when close(2) fails, it returns at once.
CloseReturns(p) ==
  /\ At(p, "close")
  /\ \/ GoTo(p, "rename") /\ NoFault
     \/ Return(p, "fail") /\ Fault
  /\ UNCHANGED <<target, bak, tmp>>

\* close(2) on the descriptor of mkstemp.
Close(p) ==
  /\ At(p, "close")
  /\ \/ GoTo(p, "rename") /\ NoFault
     \/ GoTo(p, "remove") /\ Fault
  /\ UNCHANGED <<target, bak, tmp>>

\* Mutant, no code of zectl: the result of rename(2) is not looked at.
RenameUnchecked(p) ==
  /\ At(p, "rename") /\ Return(p, "ok")
  /\ \/ target' = tmp[p] /\ tmp' = [tmp EXCEPT ![p] = Absent] /\ NoFault
     \/ Fault /\ UNCHANGED <<target, tmp>>
  /\ UNCHANGED bak

RenameOver(p) ==
  /\ At(p, "rename")
  /\ \/ target' = tmp[p] /\ tmp' = [tmp EXCEPT ![p] = Absent] /\ Return(p, "ok") /\ NoFault
     \/ GoTo(p, "remove") /\ Fault /\ UNCHANGED <<target, tmp>>
  /\ UNCHANGED bak

\* The label err: remove(3), whose failure nobody sees.
RemoveTemp(p) ==
  /\ At(p, "remove") /\ Return(p, "fail")
  /\ \/ tmp' = [tmp EXCEPT ![p] = Absent] /\ NoFault
     \/ UNCHANGED tmp /\ Silent
  /\ UNCHANGED <<target, bak>>

Kill(p) ==
  /\ MayCrash /\ ~At(p, "idle")
  /\ Return(p, "killed")
  /\ UNCHANGED <<target, bak, tmp>> /\ NoFault

Step(p) ==
  \/ \E b \in Names : Start(p, b)
  \/ Access(p) \/ OpenBackup(p) \/ CopyLine(p) \/ EndCopy(p) \/ MakeTemp(p)
  \/ OpenFiles(p) \/ ReplaceLine(p) \/ StopReplacing(p) \/ EndReplace(p)
  \/ Close(p) \/ RenameOver(p) \/ RemoveTemp(p) \/ Kill(p)

FRNext == \E p \in Procs : Step(p)

FRSpec == FRInit /\ [][FRNext]_frVars

(***************************************************************************)
(* Properties.                                                             *)
(***************************************************************************)

\* update_loader_default, update_fstab ("Use rename for atomicity"): whichever
\* processes are killed, fail or overtake each other, the file is whole, unless
\* some failure went unnoticed.
TargetWhole == silent = 0 => Whole(target)

\* The label err: an update that returns leaves no temporary file behind,
\* unless remove failed too.
NoTempLeft ==
  \A p \in Procs : proc[p].result \in {"ok", "fail"} /\ silent = 0 => tmp[p] = Absent

\* What an update in the state st, whose temporary file is t, has established
\* when s failures have gone unnoticed: the temporary file has only lines of
\* its own, and, up to the first such failure, all it has written out.
UpdateOK(st, t, s) ==
  /\ st.pc = "idle" => st.be = NoLine
  /\ st.pc # "idle" => st.be \in Names /\ st.result = "none"
  /\ st.pc \in {"access", "backup", "copy", "mkstemp"} => t = Absent
  /\ st.pc \in {"open", "replace", "close", "rename"} =>
       t \in Contents /\ \A i \in 1 .. Lines : t[i] \in {st.be, NoLine}
  /\ s = 0 =>
       /\ st.result \in {"ok", "fail"} => t = Absent
       /\ st.pc = "replace" =>
            Whole(st.src) /\ \A i \in 1 .. Lines : i <= st.written => t[i] = st.be
       /\ st.pc \in {"close", "rename"} => t = Text(st.be)

\* The inductive invariant behind TargetWhole, NoTempLeft and the refinement.
FRInv ==
  /\ FRTypeOK
  /\ TargetWhole
  /\ \A p \in Procs : UpdateOK(proc[p], tmp[p], silent)
  /\ \A p \in Procs : At(p, "copy") => bak \in Contents

\* An update as a whole is one of module ConfigFile: atomic, and without
\* effect when it is killed or reports failure.
CF == INSTANCE ConfigFile WITH
  None <- NoLine,
  file <- IF Whole(target) THEN target[1] ELSE NoLine,
  wanted <- [p \in Procs |-> proc[p].be],
  result <- [p \in Procs |-> proc[p].result]
ImplementsConfigFile == CF!CSpec
=============================================================================
