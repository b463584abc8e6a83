------------------------- MODULE FileReplaceProofs -------------------------
(***************************************************************************)
(* Proofs about FileReplace, for any number of processes, lines, names,    *)
(* failures and kills: the file is whole, no temporary file is left, an    *)
(* update is atomic, as module ConfigFile says, and what it replaces is    *)
(* backed up.                                                              *)
(*                                                                         *)
(* A step of an update changes the state of its own process and its own    *)
(* temporary file (OneUpdate); one lemma per action shows that it leaves   *)
(* both as UpdateOK says.                                                  *)
(***************************************************************************)
EXTENDS FileBackups, TLAPS

\* A text is a content, and names what each of its lines names.
LEMMA TextFact ==
  ASSUME NEW b \in Names \cup {NoLine}
  PROVE  Text(b) \in Contents /\ Text(b)[1] = b /\ \A i \in 1 .. Lines : Text(b)[i] = b
BY FileReplaceAssumption DEF Text, Contents

\* A text for no environment is not whole, and a whole file names one.
LEMMA WholeFact ==
  /\ \A b \in Names : Whole(Text(b))
  /\ ~Whole(Empty)
  /\ \A f : Whole(f) => f[1] \in Names /\ f = Text(f[1])
<1>1. \A b \in Names : Whole(Text(b))
  BY DEF Whole
<1>2. \A f : Whole(f) => f[1] \in Names /\ f = Text(f[1])
  BY TextFact DEF Whole
<1>3. Empty[1] = NoLine
  BY TextFact DEF Empty
<1> QED
  BY <1>1, <1>2, <1>3, FileReplaceAssumption

\* What is left of a process that returns.
LEMMA IdleFact ==
  ASSUME NEW r \in Results
  PROVE  /\ Idle(r) \in ProcStates /\ Idle(r).written <= Idle(r).read
         /\ Idle(r).pc = "idle" /\ Idle(r).be = NoLine /\ Idle(r).result = r
BY TextFact, FileReplaceAssumption DEF Idle, ProcStates, Labels, Empty

\* The lines of the temporary file after a write: those up to line k are what
\* the text is to be, the others what they were.
LEMMA ReplacedFact ==
  ASSUME NEW p \in Procs, FRTypeOK, proc[p].be \in Names, tmp[p] \in Contents,
         \A i \in 1 .. Lines : tmp[p][i] \in {proc[p].be, NoLine}, NEW k \in 0 .. Lines
  PROVE  /\ Replaced(p, k) \in Contents
         /\ \A i \in 1 .. Lines : Replaced(p, k)[i] \in {proc[p].be, NoLine}
         /\ Whole(proc[p].src)
              /\ (\A i \in 1 .. Lines : i <= proc[p].written => tmp[p][i] = proc[p].be)
            => \A i \in 1 .. Lines : i <= k => Replaced(p, k)[i] = proc[p].be
<1>1. proc[p].src \in Contents /\ proc[p].written \in 0 .. Lines
  BY DEF FRTypeOK, ProcStates
<1>2. Replaced(p, k) =
        [i \in 1 .. Lines |->
           IF proc[p].written < i /\ i <= k
           THEN IF proc[p].src[i] = NoLine THEN NoLine ELSE proc[p].be
           ELSE tmp[p][i]]
  BY DEF Replaced, Out, Changed
<1>3. \A i \in 1 .. Lines : Replaced(p, k)[i] \in {proc[p].be, NoLine}
  BY <1>2
<1>4. Replaced(p, k) \in Contents
  BY <1>2, <1>3 DEF Contents
<1>5. ASSUME Whole(proc[p].src), NEW i \in 1 .. Lines
      PROVE  proc[p].src[i] # NoLine
  BY <1>5, TextFact, FileReplaceAssumption DEF Whole
<1>6. ASSUME Whole(proc[p].src),
             \A i \in 1 .. Lines : i <= proc[p].written => tmp[p][i] = proc[p].be,
             NEW i \in 1 .. Lines, i <= k
      PROVE  Replaced(p, k)[i] = proc[p].be
  BY <1>1, <1>2, <1>5, <1>6
<1> QED
  BY <1>3, <1>4, <1>6

\* A write to file.bak keeps its type.
LEMMA BackupFact ==
  ASSUME NEW p \in Procs, FRTypeOK, bak \in Contents, NEW k \in 0 .. Lines
  PROVE  Backup(p, k) \in Contents
<1>1. proc[p].src \in Contents
  BY DEF FRTypeOK, ProcStates
<1>2. \A i \in 1 .. Lines : proc[p].src[i] \in Names \cup {NoLine} /\ bak[i] \in Names \cup {NoLine}
  BY <1>1 DEF Contents
<1> QED
  BY <1>2 DEF Backup, Out, Contents

\* A step that takes process p to the state st and its temporary file to t.
LEMMA OneUpdate ==
  ASSUME FRInv, NEW p \in Procs,
         NEW st \in ProcStates, st.written <= st.read, NEW t \in Contents \cup {Absent},
         proc' = [proc EXCEPT ![p] = st], tmp' = [tmp EXCEPT ![p] = t],
         NoFault \/ Fault \/ Silent,
         UpdateOK(st, t, silent'),
         target' \in Contents, silent' = 0 => Whole(target'),
         bak' \in Contents \/ (bak' = bak /\ st.pc # "copy")
  PROVE  FRInv'
<1>1. faults' \in 0 .. MaxFaults /\ silent' \in 0 .. MaxSilent /\ (silent' = 0 => silent = 0)
  BY FileReplaceAssumption DEF FRInv, FRTypeOK, NoFault, Fault, Silent
<1>2. proc' \in [Procs -> ProcStates] /\ tmp' \in [Procs -> Contents \cup {Absent}]
  BY DEF FRInv, FRTypeOK
<1>3. \A q \in Procs : /\ proc'[q] = IF q = p THEN st ELSE proc[q]
                       /\ tmp'[q] = IF q = p THEN t ELSE tmp[q]
  BY DEF FRInv, FRTypeOK
<1>4. \A q \in Procs : proc'[q].written <= proc'[q].read
  BY <1>3 DEF FRInv, FRTypeOK
<1>5. ASSUME NEW q \in Procs
      PROVE  UpdateOK(proc'[q], tmp'[q], silent')
  <2>1. CASE q = p
    BY <2>1, <1>3
  <2>2. CASE q # p
    <3>1. UpdateOK(proc[q], tmp[q], silent)
      BY DEF FRInv
    <3> QED
      BY <2>2, <3>1, <1>1, <1>3 DEF UpdateOK
  <2> QED
    BY <2>1, <2>2
<1>6. FRTypeOK'
  BY <1>1, <1>2, <1>4 DEF FRInv, FRTypeOK
<1>7. ASSUME NEW q \in Procs, proc'[q].pc = "copy"
      PROVE  bak' \in Contents
  BY <1>3, <1>7 DEF FRInv, At
<1> QED
  BY <1>5, <1>6, <1>7 DEF FRInv, TargetWhole, At

\* What the invariant says of the state of one process.
LEMMA ProcFact ==
  ASSUME FRInv, NEW p \in Procs
  PROVE  /\ proc[p] \in ProcStates /\ tmp[p] \in Contents \cup {Absent}
         /\ proc[p].written <= proc[p].read
         /\ target \in Contents /\ bak \in Contents \cup {Absent}
         /\ proc[p].pc = "copy" => bak \in Contents
         /\ silent \in Nat /\ (silent = 0 => Whole(target))
         /\ UpdateOK(proc[p], tmp[p], silent)
         /\ tmp = [tmp EXCEPT ![p] = tmp[p]]
BY FileReplaceAssumption DEF FRInv, FRTypeOK, TargetWhole, At

\* A failure that is reported leaves the count of the others, one that is not
\* adds to it.
LEMMA FaultFact ==
  ASSUME FRInv
  PROVE  /\ NoFault \/ Fault => silent' = silent
         /\ Silent => silent' = silent + 1 /\ silent' # 0
BY FileReplaceAssumption DEF FRInv, FRTypeOK, NoFault, Fault, Silent

\* A process that returns without success, its temporary file as it is: there
\* is none, or the process was killed.
LEMMA ReturnKeeps ==
  ASSUME FRInv, NEW p \in Procs, NEW r \in {"fail", "killed"}, Return(p, r),
         r = "killed" \/ tmp[p] = Absent,
         NoFault \/ Fault, UNCHANGED <<target, tmp>>, bak' \in Contents \/ bak' = bak
  PROVE  FRInv'
<1> DEFINE st == Idle(r)
<1>1. /\ st \in ProcStates /\ st.written <= st.read
      /\ st.pc = "idle" /\ st.be = NoLine /\ st.result = r
  BY IdleFact DEF Results
<1>2. UpdateOK(st, tmp[p], silent')
  BY <1>1 DEF UpdateOK
<1>3. proc' = [proc EXCEPT ![p] = st]
  BY DEF Return
<1> HIDE DEF st
<1> QED
  BY <1>1, <1>2, <1>3, ProcFact, FaultFact, OneUpdate

\* A process that goes on to label l, whatever it reads next: its temporary
\* file is as UpdateOK requires at l.
LEMMA MoveKeeps ==
  ASSUME FRInv, NEW p \in Procs, NEW l \in Labels,
         GoTo(p, l) \/ \E f \in Contents : Open(p, l, f), NoFault \/ Fault \/ Silent,
         proc[p].pc # "idle", l \notin {"idle", "replace"},
         l \in {"access", "backup", "copy", "mkstemp"} => tmp'[p] = Absent,
         l \in {"open", "close", "rename"} =>
           /\ tmp'[p] \in Contents
           /\ \A i \in 1 .. Lines : tmp'[p][i] \in {proc[p].be, NoLine},
         l \in {"close", "rename"} /\ silent' = 0 => tmp'[p] = Text(proc[p].be),
         NEW t \in Contents \cup {Absent}, tmp' = [tmp EXCEPT ![p] = t],
         UNCHANGED target, bak' \in Contents \/ (bak' = bak /\ l # "copy")
  PROVE  FRInv'
<1>1. PICK st \in ProcStates :
        /\ proc' = [proc EXCEPT ![p] = st] /\ st.written <= st.read
        /\ st.pc = l /\ st.be = proc[p].be /\ st.result = proc[p].result
  <2>1. CASE GoTo(p, l)
    <3> DEFINE st == [proc[p] EXCEPT !.pc = l]
    <3>1. /\ st \in ProcStates /\ st.written <= st.read
          /\ st.pc = l /\ st.be = proc[p].be /\ st.result = proc[p].result
      BY ProcFact DEF ProcStates
    <3>2. proc' = [proc EXCEPT ![p] = st]
      BY <2>1 DEF GoTo
    <3> QED
      BY <3>1, <3>2
  <2>2. CASE \E f \in Contents : Open(p, l, f)
    <3> PICK f \in Contents : Open(p, l, f)
      BY <2>2
    <3> DEFINE st == [proc[p] EXCEPT !.pc = l, !.src = f, !.read = 0, !.written = 0]
    <3>1. /\ st \in ProcStates /\ st.written <= st.read
          /\ st.pc = l /\ st.be = proc[p].be /\ st.result = proc[p].result
      <4>1. 0 \in 0 .. Lines /\ 0 <= 0
        BY FileReplaceAssumption
      <4>2. proc[p] \in ProcStates
        BY ProcFact
      <4> QED
        BY <4>1, <4>2 DEF ProcStates
    <3>2. proc' = [proc EXCEPT ![p] = st]
      BY DEF Open
    <3> QED
      BY <3>1, <3>2
  <2> QED
    BY <2>1, <2>2
<1>2. tmp'[p] = t
  BY DEF FRInv, FRTypeOK
<1>3. st.be \in Names /\ st.result = "none"
  BY <1>1, ProcFact DEF UpdateOK
<1>4. UpdateOK(st, t, silent')
  BY <1>1, <1>2, <1>3 DEF UpdateOK
<1>5. silent' = 0 => Whole(target')
  BY ProcFact, FaultFact
<1> QED
  BY <1>1, <1>4, <1>5, ProcFact, OneUpdate

\* The beginning of an update.
LEMMA StartKeeps ==
  ASSUME FRInv, NEW p \in Procs, NEW b \in Names, Start(p, b)
  PROVE  FRInv'
<1> DEFINE st == [proc[p] EXCEPT !.pc = "access", !.be = b, !.result = "none"]
<1>1. /\ st \in ProcStates /\ st.written <= st.read
      /\ st.pc = "access" /\ st.be = b /\ st.result = "none"
  BY ProcFact DEF ProcStates, Labels, Results
<1>2. proc' = [proc EXCEPT ![p] = st]
  BY DEF Start
<1>3. UpdateOK(st, Absent, silent')
  BY <1>1 DEF UpdateOK
<1> HIDE DEF st
<1> QED
  BY <1>1, <1>2, <1>3, ProcFact, FaultFact, OneUpdate DEF Start

\* file_accessible, libze_util_copy_file and mkstemp: no temporary file so far.
LEMMA BackupKeeps ==
  ASSUME FRInv, NEW p \in Procs,
         Access(p) \/ OpenBackup(p) \/ EndCopy(p) \/ MakeTemp(p)
  PROVE  FRInv'
<1>1. CASE Access(p)
  <2>1. tmp[p] = Absent
    BY <1>1, ProcFact DEF Access, At, UpdateOK
  <2>2. CASE GoTo(p, "backup") /\ NoFault
    BY <1>1, <2>1, <2>2, ProcFact, MoveKeeps DEF Access, At, Labels
  <2>3. CASE Return(p, "fail") /\ Fault
    BY <1>1, <2>1, <2>3, ProcFact, ReturnKeeps DEF Access
  <2> QED
    BY <1>1, <2>2, <2>3 DEF Access
<1>2. CASE OpenBackup(p)
  <2>1. tmp[p] = Absent
    BY <1>2, ProcFact DEF OpenBackup, At, UpdateOK
  <2>2. CASE Open(p, "copy", target) /\ bak' = Empty /\ NoFault
    <3>1. bak' \in Contents
      BY <2>2, TextFact DEF Empty
    <3> QED
      BY <1>2, <2>1, <2>2, <3>1, ProcFact, MoveKeeps DEF OpenBackup, At, Labels
  <2>3. CASE Return(p, "fail") /\ Fault /\ UNCHANGED bak
    BY <1>2, <2>1, <2>3, ProcFact, ReturnKeeps DEF OpenBackup
  <2> QED
    BY <1>2, <2>2, <2>3 DEF OpenBackup
<1>3. CASE EndCopy(p)
  <2>1. tmp[p] = Absent
    BY <1>3, ProcFact DEF EndCopy, At, UpdateOK
  <2>2. bak' \in Contents
    <3>1. FRTypeOK /\ bak \in Contents /\ proc[p].written \in 0 .. Lines /\ Lines \in Nat
      BY <1>3, ProcFact, FileReplaceAssumption DEF EndCopy, At, FRInv, ProcStates
    <3> QED
      BY <1>3, <3>1, BackupFact DEF EndCopy
  <2>3. Empty \in Contents
    BY TextFact DEF Empty
  <2> QED
    BY <1>3, <2>1, <2>2, <2>3, ProcFact, MoveKeeps DEF EndCopy, At, Labels
<1>4. CASE MakeTemp(p)
  <2>1. tmp[p] = Absent
    BY <1>4, ProcFact DEF MakeTemp, At, UpdateOK
  <2>2. CASE GoTo(p, "open") /\ tmp' = [tmp EXCEPT ![p] = Empty] /\ NoFault
    <3>1. Empty \in Contents /\ \A i \in 1 .. Lines : Empty[i] = NoLine
      BY TextFact DEF Empty
    <3>2. tmp'[p] = Empty
      BY <2>2 DEF FRInv, FRTypeOK
    <3>3. \A i \in 1 .. Lines : tmp'[p][i] \in {proc[p].be, NoLine}
      BY <3>1, <3>2
    <3>4. proc[p].pc # "idle" /\ "open" \in Labels /\ UNCHANGED <<target, bak>>
      BY <1>4 DEF MakeTemp, At, Labels
    <3> QED
      BY <2>2, <3>1, <3>2, <3>3, <3>4, MoveKeeps
  <2>3. CASE Return(p, "fail") /\ Fault /\ UNCHANGED tmp
    BY <1>4, <2>1, <2>3, ProcFact, ReturnKeeps DEF MakeTemp
  <2> QED
    BY <1>4, <2>2, <2>3 DEF MakeTemp
<1> QED
  BY <1>1, <1>2, <1>3, <1>4

\* libze_util_copy_filepointer.
LEMMA CopyKeeps ==
  ASSUME FRInv, NEW p \in Procs, CopyLine(p)
  PROVE  FRInv'
<1> DEFINE r == proc[p].read + 1
<1>1. /\ proc[p].pc = "copy" /\ proc[p].pc # "idle" /\ r \in 1 .. Lines
      /\ proc[p] \in ProcStates /\ proc[p].written \in 0 .. Lines /\ proc[p].written < r
      /\ proc[p].read \in 0 .. Lines /\ UNCHANGED <<target, tmp>>
  BY ProcFact, FileReplaceAssumption DEF CopyLine, At, ProcStates
<1>2. /\ FRTypeOK /\ bak \in Contents /\ tmp[p] = Absent
      /\ proc[p].be \in Names /\ proc[p].result = "none"
  BY <1>1, ProcFact DEF UpdateOK, FRInv
<1>3. ASSUME NEW w \in 0 .. Lines, w <= r, Advance(p, r, w), NoFault, bak' \in Contents
      PROVE  FRInv'
  <2> DEFINE st == [proc[p] EXCEPT !.read = r, !.written = w]
  <2>1. r \in 0 .. Lines
    BY <1>1, FileReplaceAssumption
  <2>2. /\ st \in ProcStates /\ st.written <= st.read
        /\ st.pc = "copy" /\ st.be = proc[p].be /\ st.result = "none"
    BY <1>1, <1>2, <1>3, <2>1 DEF ProcStates
  <2>3. proc' = [proc EXCEPT ![p] = st]
    BY <1>3 DEF Advance
  <2>4. UpdateOK(st, tmp[p], silent')
    BY <1>2, <2>2 DEF UpdateOK
  <2> HIDE DEF st, r
  <2> QED
    BY <1>1, <1>2, <1>3, <2>2, <2>3, <2>4, ProcFact, FaultFact, OneUpdate
<1>4. CASE Advance(p, r, proc[p].written) /\ UNCHANGED bak /\ NoFault
  BY <1>1, <1>2, <1>3, <1>4, FileReplaceAssumption
<1>5. CASE Advance(p, r, r) /\ bak' = Backup(p, r) /\ NoFault
  <2>1. r \in 0 .. Lines /\ r <= r
    BY <1>1, FileReplaceAssumption
  <2>2. bak' \in Contents
    BY <1>2, <1>5, <2>1, BackupFact
  <2> QED
    BY <1>3, <1>5, <2>1, <2>2
<1>6. CASE \E k \in proc[p].written .. proc[p].read :
             bak' = Backup(p, k) /\ Return(p, "fail") /\ Fault
  <2>1. PICK k \in proc[p].written .. proc[p].read :
          bak' = Backup(p, k) /\ Return(p, "fail") /\ Fault
    BY <1>6
  <2>2. k \in 0 .. Lines
    BY <1>1, FileReplaceAssumption
  <2>3. bak' \in Contents
    BY <1>2, <2>1, <2>2, BackupFact
  <2> QED
    BY <1>1, <1>2, <2>1, <2>3, ReturnKeeps
<1> QED
  BY <1>4, <1>5, <1>6 DEF CopyLine

\* replace_matched: what is written out is right, up to the first failure that
\* goes unnoticed.
LEMMA ReplaceKeeps ==
  ASSUME FRInv, NEW p \in Procs, OpenFiles(p) \/ ReplaceLine(p)
  PROVE  FRInv'
<1>1. CASE OpenFiles(p)
  <2>1. /\ proc[p].pc = "open" /\ UNCHANGED <<target, bak, tmp>>
        /\ tmp[p] \in Contents /\ \A i \in 1 .. Lines : tmp[p][i] \in {proc[p].be, NoLine}
        /\ proc[p].be \in Names /\ proc[p].result = "none"
    BY <1>1, ProcFact DEF OpenFiles, At, UpdateOK
  <2>2. CASE Open(p, "replace", target) /\ NoFault
    <3> DEFINE st == [proc[p] EXCEPT !.pc = "replace", !.src = target, !.read = 0, !.written = 0]
    <3>1. 0 \in 0 .. Lines /\ 0 <= 0 /\ \A i \in 1 .. Lines : ~(i <= 0)
      BY FileReplaceAssumption
    <3>2. /\ st \in ProcStates /\ st.written <= st.read /\ st.written = 0 /\ st.src = target
          /\ st.pc = "replace" /\ st.be = proc[p].be /\ st.result = "none"
      BY <2>1, <3>1, ProcFact DEF ProcStates, Labels
    <3>3. proc' = [proc EXCEPT ![p] = st]
      BY <2>2 DEF Open
    <3>4. UpdateOK(st, tmp[p], silent')
      BY <2>1, <2>2, <3>1, <3>2, ProcFact, FaultFact DEF UpdateOK
    <3> HIDE DEF st
    <3> QED
      BY <2>1, <2>2, <3>2, <3>3, <3>4, ProcFact, FaultFact, OneUpdate
  <2>3. CASE GoTo(p, "remove") /\ Fault
    BY <2>1, <2>3, ProcFact, MoveKeeps DEF Labels
  <2> QED
    BY <1>1, <2>2, <2>3 DEF OpenFiles
<1>2. CASE ReplaceLine(p)
  <2> DEFINE r == proc[p].read + 1
  <2>1. /\ proc[p].pc = "replace" /\ r \in 1 .. Lines
        /\ proc[p] \in ProcStates /\ proc[p].written \in 0 .. Lines /\ proc[p].written < r
        /\ UNCHANGED <<target, bak>> /\ NoFault /\ silent' = silent
    BY <1>2, ProcFact, FaultFact, FileReplaceAssumption DEF ReplaceLine, At, ProcStates
  <2>2. /\ FRTypeOK /\ proc[p].be \in Names /\ proc[p].result = "none"
        /\ tmp[p] \in Contents /\ \A i \in 1 .. Lines : tmp[p][i] \in {proc[p].be, NoLine}
        /\ silent = 0 => Whole(proc[p].src)
             /\ \A i \in 1 .. Lines : i <= proc[p].written => tmp[p][i] = proc[p].be
    BY <2>1, ProcFact DEF UpdateOK, FRInv
  <2>3. ASSUME NEW w \in 0 .. Lines, w <= r, Advance(p, r, w),
               NEW t \in Contents, tmp' = [tmp EXCEPT ![p] = t],
               \A i \in 1 .. Lines : t[i] \in {proc[p].be, NoLine},
               silent = 0 => \A i \in 1 .. Lines : i <= w => t[i] = proc[p].be
        PROVE  FRInv'
    <3> DEFINE st == [proc[p] EXCEPT !.read = r, !.written = w]
    <3>1. r \in 0 .. Lines
      BY <2>1, FileReplaceAssumption
    <3>2. /\ st \in ProcStates /\ st.written <= st.read /\ st.written = w
          /\ st.src = proc[p].src
          /\ st.pc = "replace" /\ st.be = proc[p].be /\ st.result = "none"
      BY <2>1, <2>2, <2>3, <3>1 DEF ProcStates
    <3>3. proc' = [proc EXCEPT ![p] = st]
      BY <2>3 DEF Advance
    <3> HIDE DEF st, r
    <3>4. UpdateOK(st, t, silent')
      BY <2>1, <2>2, <2>3, <3>2 DEF UpdateOK
    <3> QED
      BY <2>1, <2>3, <3>2, <3>3, <3>4, ProcFact, OneUpdate
  <2>4. CASE Advance(p, r, proc[p].written) /\ UNCHANGED tmp
    <3>1. proc[p].written <= r /\ tmp' = [tmp EXCEPT ![p] = tmp[p]]
      BY <2>1, <2>4, ProcFact, FileReplaceAssumption
    <3> HIDE DEF r
    <3> QED
      BY <2>1, <2>2, <2>3, <2>4, <3>1
  <2>5. CASE Advance(p, r, r) /\ tmp' = [tmp EXCEPT ![p] = Replaced(p, r)]
    <3>1. r \in 0 .. Lines /\ r <= r
      BY <2>1, FileReplaceAssumption
    <3> HIDE DEF r
    <3>2. /\ Replaced(p, r) \in Contents
          /\ \A i \in 1 .. Lines : Replaced(p, r)[i] \in {proc[p].be, NoLine}
          /\ silent = 0 => \A i \in 1 .. Lines : i <= r => Replaced(p, r)[i] = proc[p].be
      BY <2>2, <3>1, ReplacedFact
    <3> QED
      BY <2>3, <2>5, <3>1, <3>2
  <2> QED
    BY <1>2, <2>4, <2>5 DEF ReplaceLine
<1> QED
  BY <1>1, <1>2

\* The end of replace_matched and close(2).
LEMMA EndReplaceKeeps ==
  ASSUME FRInv, NEW p \in Procs, StopReplacing(p) \/ EndReplace(p) \/ Close(p)
  PROVE  FRInv'
<1>1. CASE StopReplacing(p) \/ EndReplace(p)
  <2>1. proc[p].pc = "replace" /\ UNCHANGED <<target, bak>> /\ Open(p, "close", Empty)
    BY <1>1 DEF StopReplacing, EndReplace, At
  <2>2. /\ FRTypeOK /\ proc[p].be \in Names
        /\ tmp[p] \in Contents /\ \A i \in 1 .. Lines : tmp[p][i] \in {proc[p].be, NoLine}
        /\ silent = 0 => Whole(proc[p].src)
             /\ \A i \in 1 .. Lines : i <= proc[p].written => tmp[p][i] = proc[p].be
        /\ proc[p].written \in 0 .. Lines
    BY <2>1, ProcFact DEF UpdateOK, FRInv, ProcStates
  <2>3. PICK k \in 0 .. Lines : /\ tmp' = [tmp EXCEPT ![p] = Replaced(p, k)]
                                /\ (k = Lines /\ NoFault) \/ Silent
    <3>1. CASE StopReplacing(p)
      <4>1. PICK k \in proc[p].written .. Lines - 1 : tmp' = [tmp EXCEPT ![p] = Replaced(p, k)]
        BY <3>1 DEF StopReplacing
      <4>2. k \in 0 .. Lines
        BY <2>2, FileReplaceAssumption
      <4>3. Silent
        BY <3>1 DEF StopReplacing
      <4> QED
        BY <4>1, <4>2, <4>3
    <3>2. CASE EndReplace(p)
      <4>1. Lines \in 0 .. Lines
        BY FileReplaceAssumption
      <4> QED
        BY <3>2, <4>1 DEF EndReplace
    <3> QED
      BY <1>1, <3>1, <3>2
  <2>4. /\ Replaced(p, k) \in Contents
        /\ \A i \in 1 .. Lines : Replaced(p, k)[i] \in {proc[p].be, NoLine}
        /\ silent = 0 => \A i \in 1 .. Lines : i <= k => Replaced(p, k)[i] = proc[p].be
    BY <2>2, ReplacedFact
  <2>5. tmp'[p] = Replaced(p, k)
    BY <2>2, <2>3 DEF FRTypeOK
  <2>6. silent' = 0 => Replaced(p, k) = Text(proc[p].be)
    <3>1. SUFFICES ASSUME silent' = 0 PROVE Replaced(p, k) = Text(proc[p].be)
      OBVIOUS
    <3>2. k = Lines /\ silent = 0
      BY <2>3, <3>1, FaultFact
    <3>3. \A i \in 1 .. Lines : Replaced(p, k)[i] = proc[p].be
      BY <2>4, <3>2, FileReplaceAssumption
    <3> QED
      BY <2>4, <3>3 DEF Contents, Text
  <2>7. Empty \in Contents
    BY TextFact DEF Empty
  <2> QED
    BY <2>1, <2>3, <2>4, <2>5, <2>6, <2>7, MoveKeeps DEF Labels
<1>2. CASE Close(p)
  <2>1. /\ proc[p].pc = "close" /\ UNCHANGED <<target, bak, tmp>>
        /\ tmp[p] \in Contents /\ \A i \in 1 .. Lines : tmp[p][i] \in {proc[p].be, NoLine}
        /\ silent = 0 => tmp[p] = Text(proc[p].be)
    BY <1>2, ProcFact DEF Close, At, UpdateOK
  <2>2. CASE GoTo(p, "rename") /\ NoFault
    BY <2>1, <2>2, ProcFact, FaultFact, MoveKeeps DEF Labels
  <2>3. CASE GoTo(p, "remove") /\ Fault
    BY <2>1, <2>3, ProcFact, MoveKeeps DEF Labels
  <2> QED
    BY <1>2, <2>2, <2>3 DEF Close
<1> QED
  BY <1>1, <1>2

\* rename(2), remove(3) and a kill.
LEMMA EndKeeps ==
  ASSUME FRInv, NEW p \in Procs, RenameOver(p) \/ RemoveTemp(p) \/ Kill(p)
  PROVE  FRInv'
<1>1. CASE RenameOver(p)
  <2>1. /\ proc[p].pc = "rename" /\ UNCHANGED bak /\ proc[p].be \in Names
        /\ tmp[p] \in Contents
        /\ silent = 0 => tmp[p] = Text(proc[p].be)
    BY <1>1, ProcFact DEF RenameOver, At, UpdateOK
  <2>2. CASE /\ target' = tmp[p] /\ tmp' = [tmp EXCEPT ![p] = Absent]
             /\ Return(p, "ok") /\ NoFault
    <3> DEFINE st == Idle("ok")
    <3>1. /\ st \in ProcStates /\ st.written <= st.read
          /\ st.pc = "idle" /\ st.be = NoLine /\ st.result = "ok"
      BY IdleFact DEF Results
    <3>2. UpdateOK(st, Absent, silent')
      BY <3>1 DEF UpdateOK
    <3>3. proc' = [proc EXCEPT ![p] = st]
      BY <2>2 DEF Return
    <3>4. silent' = 0 => Whole(target')
      BY <2>1, <2>2, WholeFact, FaultFact
    <3> HIDE DEF st
    <3> QED
      BY <2>1, <2>2, <3>1, <3>2, <3>3, <3>4, OneUpdate
  <2>3. CASE GoTo(p, "remove") /\ Fault /\ UNCHANGED <<target, tmp>>
    BY <2>1, <2>3, ProcFact, MoveKeeps DEF Labels
  <2> QED
    BY <1>1, <2>2, <2>3 DEF RenameOver
<1>2. CASE RemoveTemp(p)
  <2> DEFINE st == Idle("fail")
  <2>1. /\ st \in ProcStates /\ st.written <= st.read
        /\ st.pc = "idle" /\ st.be = NoLine /\ st.result = "fail"
    BY IdleFact DEF Results
  <2>2. proc' = [proc EXCEPT ![p] = st]
    BY <1>2 DEF RemoveTemp, Return
  <2>3. UNCHANGED <<target, bak>>
    BY <1>2 DEF RemoveTemp
  <2> HIDE DEF st
  <2>4. CASE tmp' = [tmp EXCEPT ![p] = Absent] /\ NoFault
    <3>1. UpdateOK(st, Absent, silent')
      BY <2>1 DEF UpdateOK
    <3> QED
      BY <2>1, <2>2, <2>3, <2>4, <3>1, ProcFact, FaultFact, OneUpdate
  <2>5. CASE UNCHANGED tmp /\ Silent
    <3>1. UpdateOK(st, tmp[p], silent')
      BY <2>1, <2>5, FaultFact DEF UpdateOK
    <3> QED
      BY <2>1, <2>2, <2>3, <2>5, <3>1, ProcFact, FaultFact, OneUpdate
  <2> QED
    BY <1>2, <2>4, <2>5 DEF RemoveTemp
<1>3. CASE Kill(p)
  BY <1>3, ReturnKeeps DEF Kill
<1> QED
  BY <1>1, <1>2, <1>3

\* The invariant holds of a file that nobody has changed yet.
LEMMA InitInv == FRInit => FRInv
<1> SUFFICES ASSUME FRInit PROVE FRInv
  OBVIOUS
<1>1. target \in Contents /\ Whole(target)
  BY TextFact, WholeFact DEF FRInit
<1>2. /\ Idle("none") \in ProcStates /\ Idle("none").written <= Idle("none").read
      /\ Idle("none").pc = "idle" /\ Idle("none").be = NoLine /\ Idle("none").result = "none"
  BY IdleFact DEF Results
<1>3. \A p \in Procs : proc[p] = Idle("none") /\ tmp[p] = Absent
  BY DEF FRInit
<1>4. FRTypeOK
  BY <1>1, <1>2, <1>3, FileReplaceAssumption DEF FRInit, FRTypeOK
<1>5. \A p \in Procs : UpdateOK(proc[p], tmp[p], silent) /\ ~At(p, "copy")
  BY <1>2, <1>3 DEF UpdateOK, At
<1> QED
  BY <1>1, <1>4, <1>5 DEF FRInv, TargetWhole

\* Every step keeps the invariant.
LEMMA StepKeepsInv == FRInv /\ [FRNext]_frVars => FRInv'
<1> SUFFICES ASSUME FRInv, [FRNext]_frVars PROVE FRInv'
  OBVIOUS
<1>1. CASE UNCHANGED frVars
  BY <1>1 DEF frVars, FRInv, FRTypeOK, TargetWhole, UpdateOK, At, Whole
<1>2. ASSUME NEW p \in Procs, Step(p)
      PROVE  FRInv'
  BY <1>2, StartKeeps, BackupKeeps, CopyKeeps, ReplaceKeeps, EndReplaceKeeps, EndKeeps DEF Step
<1> QED
  BY <1>1, <1>2 DEF FRNext

\* The inductive invariant.
THEOREM FileInvariant == FRSpec => []FRInv
BY InitInv, StepKeepsInv, PTL DEF FRSpec

\* The types.
THEOREM FileTypeCorrect == FRSpec => []FRTypeOK
<1>1. FRInv => FRTypeOK
  BY DEF FRInv
<1> QED
  BY <1>1, FileInvariant, PTL

\* update_loader_default and update_fstab: the file is whole until a failure
\* goes unnoticed.
THEOREM FileWhole == FRSpec => []TargetWhole
<1>1. FRInv => TargetWhole
  BY DEF FRInv
<1> QED
  BY <1>1, FileInvariant, PTL

\* The label err: no update that returns leaves its temporary file, until a
\* failure goes unnoticed.
THEOREM NoTempRemains == FRSpec => []NoTempLeft
<1>1. FRInv => NoTempLeft
  BY DEF FRInv, UpdateOK, NoTempLeft
<1> QED
  BY <1>1, FileInvariant, PTL

(***************************************************************************)
(* Every update is one of ConfigFile.                                      *)
(***************************************************************************)

\* The environment a content names.
Named(f) == IF Whole(f) THEN f[1] ELSE NoLine

\* A step in which p neither begins nor ends an update, nor renames a file.
LEMMA StepInside ==
  ASSUME FRInv, NEW p \in Procs, NEW st, proc' = [proc EXCEPT ![p] = st],
         st.be = proc[p].be, st.result = proc[p].result,
         NoFault \/ Fault \/ Silent, UNCHANGED target
  PROVE  [CF!CNext]_(CF!configVars)
<1>1. \A q \in Procs : proc'[q].be = proc[q].be /\ proc'[q].result = proc[q].result
  BY DEF FRInv, FRTypeOK
<1>2. UNCHANGED <<[q \in Procs |-> proc[q].be], [q \in Procs |-> proc[q].result]>>
  BY <1>1
<1>3. UNCHANGED Named(target)
  BY DEF Named, Whole
<1>4. silent' = silent \/ silent' = silent + 1
  BY FaultFact
<1> QED
  BY <1>2, <1>3, <1>4 DEF CF!CNext, CF!Unnoticed, CF!configVars, Named

\* A step in which p returns.
LEMMA StepReturns ==
  ASSUME FRInv, NEW p \in Procs, NEW r \in Results, Return(p, r)
  PROVE  CF!Ends(p, r)
<1>1. proc' = [proc EXCEPT ![p] = Idle(r)] /\ Idle(r).be = NoLine /\ Idle(r).result = r
  BY IdleFact DEF Return
<1>2. \A q \in Procs : proc'[q] = IF q = p THEN Idle(r) ELSE proc[q]
  BY <1>1 DEF FRInv, FRTypeOK
<1>3. [q \in Procs |-> proc'[q].be] = [[q \in Procs |-> proc[q].be] EXCEPT ![p] = NoLine]
  <2>1. [[q \in Procs |-> proc[q].be] EXCEPT ![p] = NoLine]
          = [q \in Procs |-> IF q = p THEN NoLine ELSE proc[q].be]
    OBVIOUS
  <2>2. \A q \in Procs : proc'[q].be = IF q = p THEN NoLine ELSE proc[q].be
    BY <1>1, <1>2
  <2> QED
    BY <2>1, <2>2
<1>4. [q \in Procs |-> proc'[q].result] = [[q \in Procs |-> proc[q].result] EXCEPT ![p] = r]
  <2>1. [[q \in Procs |-> proc[q].result] EXCEPT ![p] = r]
          = [q \in Procs |-> IF q = p THEN r ELSE proc[q].result]
    OBVIOUS
  <2>2. \A q \in Procs : proc'[q].result = IF q = p THEN r ELSE proc[q].result
    BY <1>1, <1>2
  <2> QED
    BY <2>1, <2>2
<1> QED
  BY <1>3, <1>4 DEF CF!Ends

\* A step that returns without success is GiveUp.
LEMMA StepGivesUp ==
  ASSUME FRInv, NEW p \in Procs, NEW r \in {"fail", "killed"}, Return(p, r),
         proc[p].pc # "idle", NoFault \/ Fault \/ Silent, UNCHANGED target
  PROVE  [CF!CNext]_(CF!configVars)
<1>1. CF!Ends(p, r)
  BY StepReturns DEF Results
<1>2. proc[p].be # NoLine
  BY ProcFact, FileReplaceAssumption DEF UpdateOK
<1>3. silent' \in {silent, silent + 1}
  BY FaultFact
<1>4. CF!GiveUp(p)
  BY <1>1, <1>2, <1>3 DEF CF!GiveUp, Whole
<1> QED
  BY <1>4 DEF CF!CNext

\* The beginning of an update is Begin.
LEMMA StepBegins ==
  ASSUME FRInv, NEW p \in Procs, NEW b \in Names, Start(p, b)
  PROVE  [CF!CNext]_(CF!configVars)
<1> DEFINE st == [proc[p] EXCEPT !.pc = "access", !.be = b, !.result = "none"]
<1>1. proc' = [proc EXCEPT ![p] = st] /\ st.be = b /\ st.result = "none"
  BY ProcFact DEF Start, ProcStates
<1> HIDE DEF st
<1>2. \A q \in Procs : proc'[q] = IF q = p THEN st ELSE proc[q]
  BY <1>1 DEF FRInv, FRTypeOK
<1>3. [q \in Procs |-> proc'[q].be] = [[q \in Procs |-> proc[q].be] EXCEPT ![p] = b]
  <2>1. [[q \in Procs |-> proc[q].be] EXCEPT ![p] = b]
          = [q \in Procs |-> IF q = p THEN b ELSE proc[q].be]
    OBVIOUS
  <2>2. \A q \in Procs : proc'[q].be = IF q = p THEN b ELSE proc[q].be
    BY <1>1, <1>2
  <2> QED
    BY <2>1, <2>2
<1>4. [q \in Procs |-> proc'[q].result] = [[q \in Procs |-> proc[q].result] EXCEPT ![p] = "none"]
  <2>1. [[q \in Procs |-> proc[q].result] EXCEPT ![p] = "none"]
          = [q \in Procs |-> IF q = p THEN "none" ELSE proc[q].result]
    OBVIOUS
  <2>2. \A q \in Procs : proc'[q].result = IF q = p THEN "none" ELSE proc[q].result
    BY <1>1, <1>2
  <2> QED
    BY <2>1, <2>2
<1>5. proc[p].be = NoLine /\ UNCHANGED <<target, silent>>
  BY ProcFact DEF Start, At, UpdateOK, NoFault
<1>6. CF!Begin(p)
  BY <1>3, <1>4, <1>5 DEF CF!Begin, Whole
<1> QED
  BY <1>6 DEF CF!CNext

\* rename(2) is Update, or Spoil when a failure has gone unnoticed before.
LEMMA StepRenames ==
  ASSUME FRInv, NEW p \in Procs, RenameOver(p)
  PROVE  [CF!CNext]_(CF!configVars)
<1>1. /\ proc[p].pc = "rename" /\ proc[p].be \in Names
      /\ tmp[p] \in Contents
      /\ \A i \in 1 .. Lines : tmp[p][i] \in {proc[p].be, NoLine}
      /\ silent = 0 => tmp[p] = Text(proc[p].be)
      /\ silent \in Nat
  BY ProcFact DEF RenameOver, At, UpdateOK
<1>2. CASE GoTo(p, "remove") /\ Fault /\ UNCHANGED <<target, tmp>>
  <2>1. /\ proc' = [proc EXCEPT ![p] = [proc[p] EXCEPT !.pc = "remove"]]
        /\ [proc[p] EXCEPT !.pc = "remove"].be = proc[p].be
        /\ [proc[p] EXCEPT !.pc = "remove"].result = proc[p].result
    BY <1>2, ProcFact DEF GoTo, ProcStates
  <2> QED
    BY <1>2, <2>1, StepInside
<1>3. CASE target' = tmp[p] /\ Return(p, "ok") /\ NoFault
  <2>1. CF!Ends(p, "ok") /\ silent' = silent /\ proc[p].be # NoLine
    BY <1>1, <1>3, StepReturns, FaultFact, FileReplaceAssumption DEF Results
  <2>2. CASE Whole(tmp[p])
    <3>1. Named(target') = proc[p].be
      BY <1>1, <1>3, <2>2, WholeFact, FileReplaceAssumption DEF Named
    <3>2. CF!Update(p)
      BY <2>1, <3>1 DEF CF!Update, Named
    <3> QED
      BY <3>2 DEF CF!CNext
  <2>3. CASE ~Whole(tmp[p])
    <3>1. silent > 0
      BY <1>1, <2>3, WholeFact
    <3>2. Named(target') = NoLine
      BY <1>3, <2>3 DEF Named
    <3>3. CF!Spoil(p)
      BY <2>1, <3>1, <3>2 DEF CF!Spoil, Named
    <3> QED
      BY <3>3 DEF CF!CNext
  <2> QED
    BY <2>2, <2>3
<1> QED
  BY <1>2, <1>3 DEF RenameOver

\* A step that goes on, whatever it reads or writes but the file, leaves what
\* ConfigFile sees.
LEMMA StepGoesOn ==
  ASSUME FRInv, NEW p \in Procs, NEW l, NEW f, NEW r, NEW w,
         GoTo(p, l) \/ Open(p, l, f) \/ Advance(p, r, w),
         NoFault \/ Fault \/ Silent, UNCHANGED target
  PROVE  [CF!CNext]_(CF!configVars)
<1>1. proc[p] \in ProcStates
  BY ProcFact
<1>2. PICK st : proc' = [proc EXCEPT ![p] = st] /\ st.be = proc[p].be /\ st.result = proc[p].result
  <2>1. CASE GoTo(p, l)
    <3> DEFINE st == [proc[p] EXCEPT !.pc = l]
    <3>1. proc' = [proc EXCEPT ![p] = st]
      BY <2>1 DEF GoTo
    <3>2. st.be = proc[p].be /\ st.result = proc[p].result
      BY <1>1 DEF ProcStates
    <3> QED
      BY <3>1, <3>2
  <2>2. CASE Open(p, l, f)
    <3> DEFINE st == [proc[p] EXCEPT !.pc = l, !.src = f, !.read = 0, !.written = 0]
    <3>1. proc' = [proc EXCEPT ![p] = st]
      BY <2>2 DEF Open
    <3>2. st.be = proc[p].be /\ st.result = proc[p].result
      BY <1>1 DEF ProcStates
    <3> QED
      BY <3>1, <3>2
  <2>3. CASE Advance(p, r, w)
    <3> DEFINE st == [proc[p] EXCEPT !.read = r, !.written = w]
    <3>1. proc' = [proc EXCEPT ![p] = st]
      BY <2>3 DEF Advance
    <3>2. st.be = proc[p].be /\ st.result = proc[p].result
      BY <1>1 DEF ProcStates
    <3> QED
      BY <3>1, <3>2
  <2> QED
    BY <2>1, <2>2, <2>3
<1> QED
  BY <1>2, StepInside

\* Every step is one of ConfigFile, or none.
LEMMA StepRefines ==
  ASSUME FRInv, NEW p \in Procs, Step(p)
  PROVE  [CF!CNext]_(CF!configVars)
<1>1. CASE \E b \in Names : Start(p, b)
  BY <1>1, StepBegins
<1>2. CASE RenameOver(p)
  BY <1>2, StepRenames
<1>3. CASE Access(p) \/ OpenBackup(p) \/ MakeTemp(p)
  <2>1. /\ UNCHANGED target /\ proc[p].pc # "idle"
        /\ NoFault \/ Fault
        /\ GoTo(p, "backup") \/ Open(p, "copy", target) \/ GoTo(p, "open") \/ Return(p, "fail")
    BY <1>3 DEF Access, OpenBackup, MakeTemp, At
  <2> QED
    BY <2>1, StepGoesOn, StepGivesUp
<1>4. CASE CopyLine(p)
  BY <1>4, StepGoesOn, StepGivesUp DEF CopyLine, At
<1>5. CASE EndCopy(p) \/ OpenFiles(p) \/ StopReplacing(p) \/ EndReplace(p)
  BY <1>5, StepGoesOn DEF EndCopy, OpenFiles, StopReplacing, EndReplace
<1>6. CASE ReplaceLine(p) \/ Close(p)
  BY <1>6, StepGoesOn DEF ReplaceLine, Close
<1>7. CASE RemoveTemp(p) \/ Kill(p)
  BY <1>7, StepGivesUp DEF RemoveTemp, Kill, At
<1> QED
  BY <1>1, <1>2, <1>3, <1>4, <1>5, <1>6, <1>7 DEF Step

\* The initial states are those of ConfigFile.
LEMMA InitRefines == FRInit => CF!CInit
<1> SUFFICES ASSUME FRInit PROVE CF!CInit
  OBVIOUS
<1>1. \A p \in Procs : proc[p].be = NoLine /\ proc[p].result = "none"
  BY IdleFact DEF FRInit, Results
<1>2. Named(target) \in Names
  BY WholeFact DEF FRInit, Named
<1> QED
  BY <1>1, <1>2 DEF CF!CInit, Named, FRInit

\* update_loader_default and update_fstab implement an update in one step: the
\* file goes from one environment's text to another's, and an update that
\* fails or is killed has not changed it; only after a failure that went
\* unnoticed is it torn.
THEOREM FileRefinement == FRSpec => ImplementsConfigFile
<1>1. FRInv /\ [FRNext]_frVars => [CF!CNext]_(CF!configVars)
  <2> SUFFICES ASSUME FRInv, [FRNext]_frVars PROVE [CF!CNext]_(CF!configVars)
    OBVIOUS
  <2>1. CASE UNCHANGED frVars
    BY <2>1 DEF frVars, CF!configVars, Whole
  <2>2. CASE FRNext
    BY <2>2, StepRefines DEF FRNext
  <2> QED
    BY <2>1, <2>2
<1> QED
  BY <1>1, InitRefines, FileInvariant, PTL DEF FRSpec, ImplementsConfigFile, CF!CSpec

(***************************************************************************)
(* The backup.  As long as updates do not overlap, one of them is at work  *)
(* on file.bak and nobody else changes the file it has copied.             *)
(***************************************************************************)

\* The state of a process after a step that goes on, reads, writes or returns.
LEMMA StateAfter ==
  ASSUME FRInv, NEW p \in Procs
  PROVE  /\ \A l : GoTo(p, l) =>
              /\ proc'[p].pc = l /\ proc'[p].be = proc[p].be
              /\ proc'[p].src = proc[p].src /\ proc'[p].written = proc[p].written
         /\ \A l, f : Open(p, l, f) =>
              /\ proc'[p].pc = l /\ proc'[p].be = proc[p].be
              /\ proc'[p].src = f /\ proc'[p].written = 0
         /\ \A r, w : Advance(p, r, w) =>
              /\ proc'[p].pc = proc[p].pc /\ proc'[p].be = proc[p].be
              /\ proc'[p].src = proc[p].src /\ proc'[p].written = w
         /\ \A r : Return(p, r) => proc'[p].pc = "idle"
         /\ \A t : tmp' = [tmp EXCEPT ![p] = t] => tmp'[p] = t
<1>1. proc[p] \in ProcStates /\ proc \in [Procs -> ProcStates] /\ DOMAIN tmp = Procs
  BY DEF FRInv, FRTypeOK
<1>2. ASSUME NEW l, GoTo(p, l)
      PROVE  /\ proc'[p].pc = l /\ proc'[p].be = proc[p].be
             /\ proc'[p].src = proc[p].src /\ proc'[p].written = proc[p].written
  <2>1. proc'[p] = [proc[p] EXCEPT !.pc = l]
    BY <1>1, <1>2 DEF GoTo
  <2> QED
    BY <1>1, <2>1 DEF ProcStates
<1>3. ASSUME NEW l, NEW f, Open(p, l, f)
      PROVE  /\ proc'[p].pc = l /\ proc'[p].be = proc[p].be
             /\ proc'[p].src = f /\ proc'[p].written = 0
  <2>1. proc'[p] = [proc[p] EXCEPT !.pc = l, !.src = f, !.read = 0, !.written = 0]
    BY <1>1, <1>3 DEF Open
  <2> QED
    BY <1>1, <2>1 DEF ProcStates
<1>4. ASSUME NEW r, NEW w, Advance(p, r, w)
      PROVE  /\ proc'[p].pc = proc[p].pc /\ proc'[p].be = proc[p].be
             /\ proc'[p].src = proc[p].src /\ proc'[p].written = w
  <2>1. proc'[p] = [proc[p] EXCEPT !.read = r, !.written = w]
    BY <1>1, <1>4 DEF Advance
  <2> QED
    BY <1>1, <2>1 DEF ProcStates
<1>5. ASSUME NEW r, Return(p, r)
      PROVE  proc'[p].pc = "idle"
  BY <1>1, <1>5 DEF Return, Idle
<1>6. \A t : tmp' = [tmp EXCEPT ![p] = t] => tmp'[p] = t
  BY <1>1
<1> QED
  BY <1>2, <1>3, <1>4, <1>5, <1>6

\* A step of one process leaves the states of the others, and only the start of
\* an update makes one busy.
LEMMA OthersStay ==
  ASSUME FRInv, NEW p \in Procs, Step(p)
  PROVE  /\ \A q \in Procs \ {p} : proc'[q] = proc[q] /\ tmp'[q] = tmp[q]
         /\ At(p, "idle") => proc'[p].pc # "idle"
<1>1. proc[p] \in ProcStates /\ DOMAIN proc = Procs /\ DOMAIN tmp = Procs
  BY DEF FRInv, FRTypeOK
<1>2. CASE \E b \in Names : Start(p, b)
  <2>1. PICK b \in Names : Start(p, b)
    BY <1>2
  <2>2. proc' = [proc EXCEPT ![p] = [proc[p] EXCEPT !.pc = "access", !.be = b, !.result = "none"]]
    BY <2>1 DEF Start
  <2>3. proc'[p].pc = "access"
    BY <1>1, <2>2 DEF ProcStates
  <2> QED
    BY <1>1, <2>1, <2>2, <2>3 DEF Start
<1>3. CASE Access(p) \/ OpenBackup(p) \/ CopyLine(p) \/ EndCopy(p) \/ MakeTemp(p)
  BY <1>1, <1>3
     DEF Access, OpenBackup, CopyLine, EndCopy, MakeTemp, GoTo, Open, Advance, Return, At
<1>4. CASE OpenFiles(p) \/ ReplaceLine(p) \/ StopReplacing(p) \/ EndReplace(p)
  BY <1>1, <1>4 DEF OpenFiles, ReplaceLine, StopReplacing, EndReplace, GoTo, Open, Advance, At
<1>5. CASE Close(p) \/ RenameOver(p) \/ RemoveTemp(p) \/ Kill(p)
  BY <1>1, <1>5 DEF Close, RenameOver, RemoveTemp, Kill, GoTo, Return, At
<1> QED
  BY <1>2, <1>3, <1>4, <1>5 DEF Step

\* libze_util_copy_file: the lines written out are those of the file.
LEMMA CopyBacksUp ==
  ASSUME FRInv, NEW p \in Procs, BackedUp(proc[p], tmp[p]),
         OpenBackup(p) \/ CopyLine(p) \/ EndCopy(p)
  PROVE  BackedUp(proc[p], tmp[p])'
<1>1. CASE OpenBackup(p)
  <2>1. CASE Return(p, "fail")
    BY <2>1, StateAfter DEF BackedUp
  <2>2. CASE Open(p, "copy", target) /\ UNCHANGED target
    <3>1. \A i \in 1 .. Lines : ~(i <= 0)
      BY FileReplaceAssumption
    <3> QED
      BY <2>2, <3>1, StateAfter DEF BackedUp
  <2> QED
    BY <1>1, <2>1, <2>2 DEF OpenBackup
<1>2. CASE CopyLine(p)
  <2> DEFINE r == proc[p].read + 1
  <2>1. /\ proc[p].pc = "copy" /\ proc[p].src = target /\ UNCHANGED target /\ bak \in Contents
        /\ \A i \in 1 .. Lines : i <= proc[p].written => bak[i] = target[i]
        /\ proc[p].written \in Nat
    BY <1>2, ProcFact, FileReplaceAssumption DEF CopyLine, At, BackedUp, ProcStates
  <2>2. CASE \E k : Return(p, "fail")
    BY <2>2, StateAfter DEF BackedUp
  <2>3. CASE Advance(p, r, proc[p].written) /\ UNCHANGED bak
    <3> HIDE DEF r
    <3> QED
      BY <2>1, <2>3, StateAfter DEF BackedUp
  <2>4. CASE Advance(p, r, r) /\ bak' = Backup(p, r)
    <3> HIDE DEF r
    <3>1. \A i \in 1 .. Lines : i <= r => bak'[i] = target[i]
      BY <2>1, <2>4 DEF Backup, Out
    <3>2. proc'[p].pc = "copy" /\ proc'[p].src = target' /\ proc'[p].written = r
      BY <2>1, <2>4, StateAfter
    <3> QED
      BY <2>1, <3>1, <3>2 DEF BackedUp
  <2> QED
    BY <1>2, <2>2, <2>3, <2>4 DEF CopyLine
<1>3. CASE EndCopy(p)
  <2>1. /\ proc[p].pc = "copy" /\ proc[p].src = target /\ UNCHANGED target
        /\ bak \in Contents /\ target \in Contents /\ silent \in Nat
        /\ \A i \in 1 .. Lines : i <= proc[p].written => bak[i] = target[i]
        /\ proc[p].written \in Nat /\ Lines \in Nat
        /\ silent = 0 => Whole(target)
    BY <1>3, ProcFact, FileReplaceAssumption DEF EndCopy, At, BackedUp, ProcStates
  <2>2. proc'[p].pc = "mkstemp"
    BY <1>3, StateAfter DEF EndCopy
  <2>3. CASE bak' = Backup(p, Lines)
    <3>1. \A i \in 1 .. Lines : Backup(p, Lines)[i] = target[i]
      BY <2>1 DEF Backup, Out
    <3>2. Backup(p, Lines) = [i \in 1 .. Lines |-> Backup(p, Lines)[i]]
      BY DEF Backup, Out
    <3>3. bak' = target'
      BY <2>1, <2>3, <3>1, <3>2 DEF Contents
    <3> QED
      BY <2>2, <3>3 DEF BackedUp
  <2>4. CASE Silent
    <3>1. silent' <= 1 => silent' = 1 /\ Whole(target')
      BY <2>1, <2>4 DEF Silent
    <3> QED
      BY <2>2, <3>1 DEF BackedUp
  <2> QED
    BY <1>3, <2>3, <2>4 DEF EndCopy
<1> QED
  BY <1>1, <1>2, <1>3

\* What is written to the temporary file when file.bak is not a copy of the
\* file: the whole new text, or a second failure has gone unnoticed.
LEMMA ReplaceBacksUp ==
  ASSUME FRInv, NEW p \in Procs, BackedUp(proc[p], tmp[p]),
         OpenFiles(p) \/ ReplaceLine(p) \/ StopReplacing(p) \/ EndReplace(p)
  PROVE  BackedUp(proc[p], tmp[p])'
<1>1. UNCHANGED <<target, bak>> /\ silent \in Nat /\ (silent' = silent \/ silent' = silent + 1)
  BY ProcFact, FaultFact DEF OpenFiles, ReplaceLine, StopReplacing, EndReplace
<1>2. proc[p].pc \in {"open", "replace"}
  BY DEF OpenFiles, ReplaceLine, StopReplacing, EndReplace, At
<1>3. CASE bak = target
  <2>1. proc'[p].pc # "copy"
    BY <1>2, StateAfter DEF OpenFiles, ReplaceLine, StopReplacing, EndReplace, Advance
  <2> QED
    BY <1>1, <1>3, <2>1 DEF BackedUp
<1>4. CASE silent' > 1
  <2>1. proc'[p].pc # "copy"
    BY <1>2, StateAfter DEF OpenFiles, ReplaceLine, StopReplacing, EndReplace, Advance
  <2> QED
    BY <1>1, <1>4, <2>1 DEF BackedUp
<1>5. ASSUME bak # target, silent' <= 1
      PROVE  BackedUp(proc[p], tmp[p])'
  <2>1. silent = 1 /\ silent' = 1 /\ Whole(target)
    BY <1>1, <1>2, <1>5 DEF BackedUp
  <2>2. ~Silent
    BY <2>1, FaultFact
  <2>3. CASE OpenFiles(p)
    <3>1. CASE GoTo(p, "remove")
      BY <3>1, StateAfter DEF BackedUp
    <3>2. CASE Open(p, "replace", target)
      <4>1. \A i \in 1 .. Lines : ~(i <= 0)
        BY FileReplaceAssumption
      <4>2. Whole(target)' /\ Whole(proc[p].src)'
        BY <1>1, <2>1, <3>2, StateAfter DEF Whole
      <4> QED
        BY <2>1, <3>2, <4>1, <4>2, StateAfter DEF BackedUp
    <3> QED
      BY <2>3, <3>1, <3>2 DEF OpenFiles
  <2>4. ASSUME ReplaceLine(p) \/ EndReplace(p)
        PROVE  /\ proc[p].pc = "replace" /\ FRTypeOK
               /\ proc[p].be \in Names /\ tmp[p] \in Contents
               /\ \A i \in 1 .. Lines : tmp[p][i] \in {proc[p].be, NoLine}
               /\ Whole(proc[p].src)
               /\ \A i \in 1 .. Lines : i <= proc[p].written => tmp[p][i] = proc[p].be
    <3>1. proc[p].pc = "replace" /\ FRTypeOK
      BY <2>4 DEF ReplaceLine, EndReplace, At, FRInv
    <3> QED
      BY <1>5, <2>1, <3>1, ProcFact DEF BackedUp, UpdateOK
  <2>5. CASE ReplaceLine(p)
    <3> DEFINE r == proc[p].read + 1
    <3>1. CASE Advance(p, r, proc[p].written) /\ UNCHANGED tmp
      <4> HIDE DEF r
      <4>1. Whole(target)' /\ Whole(proc[p].src)'
        BY <1>1, <2>1, <2>4, <2>5, <3>1, StateAfter DEF Whole
      <4> QED
        BY <2>1, <2>4, <2>5, <3>1, <4>1, StateAfter DEF BackedUp
    <3>2. CASE Advance(p, r, r) /\ tmp' = [tmp EXCEPT ![p] = Replaced(p, r)]
      <4>1. r \in 0 .. Lines
        BY <2>4, <2>5, ProcFact, FileReplaceAssumption DEF ReplaceLine, ProcStates
      <4> HIDE DEF r
      <4>2. \A i \in 1 .. Lines : i <= r => Replaced(p, r)[i] = proc[p].be
        BY <2>4, <2>5, <4>1, ReplacedFact
      <4>3. Whole(target)' /\ Whole(proc[p].src)'
        BY <1>1, <2>1, <2>4, <2>5, <3>2, StateAfter DEF Whole
      <4>4. tmp'[p] = Replaced(p, r)
        BY <3>2, StateAfter
      <4> QED
        BY <2>1, <2>4, <2>5, <3>2, <4>2, <4>3, <4>4, StateAfter DEF BackedUp
    <3> QED
      BY <2>5, <3>1, <3>2 DEF ReplaceLine
  <2>6. CASE EndReplace(p)
    <3>1. Lines \in 0 .. Lines /\ \A i \in 1 .. Lines : i <= Lines
      BY FileReplaceAssumption
    <3>2. /\ Replaced(p, Lines) \in Contents
          /\ \A i \in 1 .. Lines : Replaced(p, Lines)[i] = proc[p].be
      BY <2>4, <2>6, <3>1, ReplacedFact
    <3>3. Replaced(p, Lines) = Text(proc[p].be)
      BY <3>2 DEF Contents, Text
    <3>4. tmp'[p] = Text(proc[p].be) /\ proc'[p].pc = "close" /\ proc'[p].be = proc[p].be
      BY <2>6, <3>3, StateAfter DEF EndReplace
    <3>5. (tmp[p] = Text(proc[p].be))'
      BY <3>4 DEF Text
    <3>6. Whole(target)'
      BY <1>1, <2>1 DEF Whole
    <3> QED
      BY <2>1, <3>4, <3>5, <3>6 DEF BackedUp
  <2> QED
    BY <2>2, <2>3, <2>5, <2>6 DEF StopReplacing
<1> QED
  BY <1>1, <1>3, <1>4, <1>5

\* The other calls change neither the file, while an update goes on, nor
\* file.bak.
LEMMA CallBacksUp ==
  ASSUME FRInv, NEW p \in Procs, BackedUp(proc[p], tmp[p]), Step(p),
         ~(OpenBackup(p) \/ CopyLine(p) \/ EndCopy(p)),
         ~(OpenFiles(p) \/ ReplaceLine(p) \/ StopReplacing(p) \/ EndReplace(p))
  PROVE  BackedUp(proc[p], tmp[p])'
<1>1. CASE \E b \in Names : Start(p, b)
  <2>1. PICK b \in Names : Start(p, b)
    BY <1>1
  <2>2. proc' = [proc EXCEPT ![p] = [proc[p] EXCEPT !.pc = "access", !.be = b, !.result = "none"]]
    BY <2>1 DEF Start
  <2>3. proc'[p].pc = "access"
    BY <2>2, ProcFact DEF ProcStates, FRInv, FRTypeOK
  <2> QED
    BY <2>3 DEF BackedUp
<1>2. CASE Access(p)
  BY <1>2, StateAfter DEF Access, BackedUp
<1>3. CASE MakeTemp(p)
  <2>1. CASE Return(p, "fail")
    BY <2>1, StateAfter DEF BackedUp
  <2>2. CASE GoTo(p, "open") /\ NoFault
    <3>1. UNCHANGED <<target, bak, silent>> /\ proc[p].pc = "mkstemp"
      BY <1>3, <2>2 DEF MakeTemp, NoFault, At
    <3> QED
      BY <2>2, <3>1, StateAfter DEF BackedUp, Whole
  <2> QED
    BY <1>3, <2>1, <2>2 DEF MakeTemp
<1>4. CASE Close(p)
  <2>1. CASE GoTo(p, "remove")
    BY <2>1, StateAfter DEF BackedUp
  <2>2. CASE GoTo(p, "rename") /\ NoFault
    <3>1. UNCHANGED <<target, bak, silent, tmp>> /\ proc[p].pc = "close"
      BY <1>4, <2>2 DEF Close, NoFault, At
    <3>2. proc'[p].pc = "rename" /\ proc'[p].be = proc[p].be
      BY <2>2, StateAfter
    <3>3. Whole(target)' = Whole(target) /\ Text(proc[p].be)' = Text(proc[p].be)
      BY <3>1, <3>2 DEF Whole, Text
    <3> QED
      BY <3>1, <3>2, <3>3 DEF BackedUp
  <2> QED
    BY <1>4, <2>1, <2>2 DEF Close
<1>5. CASE RenameOver(p) \/ RemoveTemp(p) \/ Kill(p)
  BY <1>5, StateAfter DEF RenameOver, RemoveTemp, Kill, BackedUp
<1> QED
  BY <1>1, <1>2, <1>3, <1>4, <1>5 DEF Step

\* A step keeps the invariant of the backup.
LEMMA StepKeepsBackup == BackupInv /\ [BackupNext]_backupVars => BackupInv'
<1> SUFFICES ASSUME BackupInv, [BackupNext]_backupVars PROVE BackupInv'
  OBVIOUS
<1>1. CASE UNCHANGED backupVars
  <2>1. UNCHANGED <<target, bak, tmp, proc, faults, silent, overlap>>
    BY <1>1 DEF backupVars, frVars
  <2>2. FRInv'
    BY <2>1, StepKeepsInv DEF BackupInv, frVars
  <2>3. \A p \in Procs : At(p, "idle")' = At(p, "idle")
    BY <2>1 DEF At
  <2>4. \A p \in Procs : BackedUp(proc[p], tmp[p]) => BackedUp(proc[p], tmp[p])'
    BY <2>1 DEF BackedUp, Whole, Text
  <2> QED
    BY <2>1, <2>2, <2>3, <2>4 DEF BackupInv, Busy
<1>2. CASE BackupNext
  <2>1. FRInv'
    BY <1>2, StepKeepsInv DEF BackupInv, BackupNext
  <2>2. PICK p \in Procs : Step(p)
    BY <1>2 DEF BackupNext, FRNext
  <2>3. overlap' \in BOOLEAN /\ (~overlap' => ~overlap /\ \A q, r \in Busy' : q = r)
    BY <1>2 DEF BackupNext, BackupInv
  <2>4. ASSUME ~overlap'
        PROVE  \A q \in Procs : BackedUp(proc[q], tmp[q])'
    <3>1. /\ FRInv /\ ~overlap /\ BackedUp(proc[p], tmp[p])
          /\ \A q, r \in Busy : q = r
      BY <2>3, <2>4 DEF BackupInv
    <3>2. BackedUp(proc[p], tmp[p])'
      BY <2>2, <3>1, CopyBacksUp, ReplaceBacksUp, CallBacksUp
    <3>3. ASSUME NEW q \in Procs \ {p}
          PROVE  BackedUp(proc[q], tmp[q])'
      <4>1. proc'[q] = proc[q] /\ (At(p, "idle") => proc'[p].pc # "idle")
        BY <2>2, <3>1, OthersStay
      <4>2. CASE At(p, "idle")
        <5>1. p \in Busy'
          BY <4>1, <4>2 DEF Busy, At
        <5>2. q \notin Busy'
          BY <2>3, <2>4, <5>1
        <5> QED
          BY <5>2 DEF Busy, At, BackedUp
      <4>3. CASE ~At(p, "idle")
        <5>1. q \notin Busy
          BY <3>1, <4>3 DEF Busy
        <5>2. proc'[q].pc = "idle"
          BY <4>1, <5>1 DEF Busy, At
        <5> QED
          BY <5>2 DEF BackedUp
      <4> QED
        BY <4>2, <4>3
    <3> QED
      BY <3>2, <3>3
  <2> QED
    BY <2>1, <2>3, <2>4 DEF BackupInv
<1> QED
  BY <1>1, <1>2

\* The inductive invariant, with the history of overlaps.
THEOREM BackupInvariant == BackupSpec => []BackupInv
<1>1. BackupInit => BackupInv
  <2> SUFFICES ASSUME BackupInit PROVE BackupInv
    OBVIOUS
  <2>1. FRInv
    BY InitInv DEF BackupInit
  <2>2. \A p \in Procs : proc[p].pc = "idle"
    BY IdleFact DEF BackupInit, FRInit, Results
  <2> QED
    BY <2>1, <2>2 DEF BackupInit, BackupInv, Busy, At, BackedUp
<1> QED
  BY <1>1, StepKeepsBackup, PTL DEF BackupSpec

\* libze_util_copy_file in update_loader_default and update_fstab: whoever
\* replaces the file without another update at the same time has left in
\* file.bak what it held, also when the new text is torn by the one failure
\* that has gone unnoticed.
THEOREM BackupsKept == BackupSpec => ReplacedIsBackedUp
<1>1. BackupInv /\ [BackupNext]_backupVars =>
        [target' # target /\ ~overlap /\ (silent > 0 => silent = 1 /\ ~Whole(target'))
           => bak' = target]_backupVars
  <2> SUFFICES ASSUME BackupInv, BackupNext, target' # target, ~overlap,
                      silent > 0 => silent = 1 /\ ~Whole(target')
               PROVE  bak' = target
    OBVIOUS
  <2>1. PICK p \in Procs : Step(p)
    BY DEF BackupNext, FRNext
  <2>2. FRInv /\ BackedUp(proc[p], tmp[p])
    BY DEF BackupInv
  <2>3. RenameOver(p)
    BY <2>1 DEF Step, Start, Access, OpenBackup, CopyLine, EndCopy, MakeTemp, OpenFiles,
                ReplaceLine, StopReplacing, EndReplace, Close, RemoveTemp, Kill
  <2>4. proc[p].pc = "rename" /\ target' = tmp[p] /\ UNCHANGED bak
    BY <2>3 DEF RenameOver, At
  <2>5. proc[p].be \in Names /\ silent \in Nat
    BY <2>2, <2>4, ProcFact DEF UpdateOK
  <2>6. tmp[p] # Text(proc[p].be) \/ silent = 0
    BY <2>4, <2>5, WholeFact
  <2> QED
    BY <2>2, <2>4, <2>5, <2>6 DEF BackedUp
<1> QED
  BY <1>1, BackupInvariant, PTL DEF BackupSpec, ReplacedIsBackedUp
=============================================================================
