----------------------------- MODULE TreeProofs -----------------------------
(***************************************************************************)
(* Theorems about module DatasetTree: the callbacks that walk the tree of  *)
(* a boot environment keep to it, leave no mount below an unmounted        *)
(* dataset, succeed only when the whole tree is as promised, fail only     *)
(* when a call does, and implement the atomic operations of BootEnvs.      *)
(*                                                                         *)
(* First names as paths (Covers: one dataset is above another), then what  *)
(* each effect does to the tree, then the stack, command by command.       *)
(***************************************************************************)
EXTENDS TreeProperties, ZfsPoolProofs, FiniteSetTheorems, SequenceTheorems

NameSeqs == Seq(Envs \cup STRING)

(***************************************************************************)
(* Names.                                                                  *)
(***************************************************************************)
\* A path is a sequence of strings, the empty one for a top dataset.
LEMMA PathFacts == Paths \subseteq Seq(STRING) /\ << >> \in Paths /\ << >> \notin Unmanaged
<1>1. Kids \subseteq Seq(STRING)
  BY DatasetTreeAssumption
<1>2. \A k \in Kids : k # << >>
  BY DatasetTreeAssumption
<1>3. Unmanaged \subseteq Kids
  BY DatasetTreeAssumption
<1>4. << >> \in Seq(STRING)
  BY EmptySeq
<1>. QED
  BY <1>1, <1>2, <1>3, <1>4 DEF Paths

\* Without a boot pool every dataset is in the root pool.
LEMMA DatasetsAre == Datasets = {"root"} \X Names
<1>1. ~BootPool
  BY DatasetTreeAssumption
<1>. QED
  BY <1>1 DEF Datasets, Pools

\* A name is its environment followed by its path.
LEMMA NameFacts ==
  ASSUME NEW n \in Names
  PROVE  /\ n \in NameSeqs /\ Len(n) \in Nat /\ Len(n) >= 1
         /\ n[1] \in Envs
         /\ Tail(n) \in Paths
         /\ n = <<n[1]>> \o Tail(n)
<1>0. Names = {<<p[1]>> \o p[2] : p \in Envs \X Paths}
  BY DatasetTreeAssumption
<1>1. PICK e \in Envs, k \in Paths : n = <<e>> \o k
  BY <1>0
<1>2. k \in Seq(STRING)
  BY PathFacts
<1>3. k \in NameSeqs /\ <<e>> \in NameSeqs
  BY <1>2, SeqMonotonic DEF NameSeqs
<1>4. n \in NameSeqs /\ n[1] = e /\ Tail(n) = k /\ Len(n) >= 1
  BY <1>1, <1>3, SMT DEF NameSeqs
<1>5. Len(n) \in Nat
  BY <1>4, LenProperties DEF NameSeqs
<1>. QED
  BY <1>1, <1>4, <1>5

\* The name of a path in an environment.
LEMMA NameOf ==
  ASSUME NEW e \in Envs, NEW k \in Paths
  PROVE  /\ <<e>> \o k \in Names
         /\ (<<e>> \o k)[1] = e
         /\ Tail(<<e>> \o k) = k
         /\ Len(<<e>> \o k) = Len(k) + 1
         /\ \A i \in 1 .. Len(k) : (<<e>> \o k)[i + 1] = k[i]
<1>1. k \in Seq(STRING)
  BY PathFacts
<1>2. k \in NameSeqs /\ <<e>> \in NameSeqs
  BY <1>1, SeqMonotonic DEF NameSeqs
<1>3. <<e>> \o k \in Names
  <2>1. Names = {<<p[1]>> \o p[2] : p \in Envs \X Paths}
    BY DatasetTreeAssumption
  <2>2. <<e, k>> \in Envs \X Paths /\ <<e>> \o k = <<<<e, k>>[1]>> \o <<e, k>>[2]
    OBVIOUS
  <2>. QED
    BY <2>1, <2>2
<1>. QED
  BY <1>2, <1>3, SMT DEF NameSeqs

\* Every dataset is the root dataset of a name.
LEMMA DatasetIs ==
  ASSUME NEW d \in Datasets
  PROVE  /\ d[2] \in Names /\ d = Root(d[2])
         /\ d[2] \in NameSeqs /\ Len(d[2]) \in Nat /\ Len(d[2]) >= 1
         /\ EnvOf(d) \in Envs /\ PathOf(d) \in Paths
         /\ d = Root(<<EnvOf(d)>> \o PathOf(d))
<1>1. d[2] \in Names /\ d = Root(d[2])
  BY DatasetsAre DEF Root
<1>. QED
  BY <1>1, NameFacts DEF EnvOf, PathOf

\* The dataset of a path in an environment.
LEMMA DatasetOf ==
  ASSUME NEW e \in Envs, NEW k \in Paths
  PROVE  /\ Root(<<e>> \o k) \in Datasets
         /\ EnvOf(Root(<<e>> \o k)) = e
         /\ PathOf(Root(<<e>> \o k)) = k
BY NameOf, DatasetFacts DEF Root, EnvOf, PathOf

\* The top dataset of an environment.
LEMMA TopFacts ==
  ASSUME NEW e \in Envs
  PROVE  /\ Top(e) = Root(<<e>> \o << >>)
         /\ Top(e) \in Datasets /\ <<e>> \in Names
         /\ EnvOf(Top(e)) = e /\ PathOf(Top(e)) = << >> /\ Len(Top(e)[2]) = 1
         /\ Managed(Top(e))
<1>1. <<e>> \o << >> = <<e>>
  OBVIOUS
<1>2. Top(e) = Root(<<e>> \o << >>)
  BY <1>1 DEF Top
<1>. QED
  BY <1>1, <1>2, PathFacts, NameOf, DatasetOf DEF Managed, Root, Top

\* The datasets of an environment.
LEMMA TreeIs ==
  ASSUME NEW e \in Envs
  PROVE  Tree(e) = {d \in Datasets : EnvOf(d) = e}
<1>1. ASSUME NEW d \in Tree(e) PROVE d \in Datasets /\ EnvOf(d) = e
  BY <1>1, DatasetOf DEF Tree
<1>2. ASSUME NEW d \in Datasets, EnvOf(d) = e PROVE d \in Tree(e)
  BY <1>2, DatasetIs DEF Tree
<1>. QED
  BY <1>1, <1>2

(***************************************************************************)
(* One dataset above another.                                              *)
(***************************************************************************)
\* IsPrefix, element by element.
LEMMA CoversIs ==
  ASSUME NEW x \in Datasets, NEW d \in Datasets
  PROVE  Covers(x, d) <=> /\ Len(x[2]) <= Len(d[2])
                          /\ \A i \in 1 .. Len(x[2]) : x[2][i] = d[2][i]
<1>1. x[2] \in NameSeqs /\ d[2] \in NameSeqs
  BY DatasetIs
<1>2. ASSUME NEW a \in NameSeqs, NEW b \in NameSeqs
      PROVE  SeqX!IsPrefix(a, b) <=> Len(a) <= Len(b) /\ \A i \in 1 .. Len(a) : a[i] = b[i]
  BY <1>2, SMT DEF SeqX!IsPrefix, NameSeqs
<1>. QED
  BY <1>1, <1>2 DEF Covers

\* A partial order in which the datasets above one are a chain, within one
\* environment and below its top dataset.
LEMMA CoversOrder ==
  ASSUME NEW x \in Datasets, NEW y \in Datasets, NEW d \in Datasets
  PROVE  /\ Covers(d, d)
         /\ Covers(x, y) /\ Covers(y, d) => Covers(x, d)
         /\ Covers(x, d) /\ Covers(y, d) => Covers(x, y) \/ Covers(y, x)
         /\ Covers(x, d) /\ Covers(y, d) /\ Len(x[2]) = Len(y[2]) => x = y
         /\ Covers(x, d) => Len(x[2]) <= Len(d[2]) /\ EnvOf(x) = EnvOf(d)
         /\ Covers(x, d) /\ x # d => Len(x[2]) < Len(d[2]) /\ ~Covers(d, x)
         /\ Covers(Top(EnvOf(d)), d)
         /\ Len(d[2]) = 1 => d = Top(EnvOf(d))
<1>1. /\ x[2] \in NameSeqs /\ y[2] \in NameSeqs /\ d[2] \in NameSeqs
      /\ Len(x[2]) \in Nat /\ Len(y[2]) \in Nat /\ Len(d[2]) \in Nat
      /\ Len(x[2]) >= 1 /\ Len(y[2]) >= 1 /\ Len(d[2]) >= 1
      /\ x = Root(x[2]) /\ y = Root(y[2]) /\ d = Root(d[2]) /\ EnvOf(d) \in Envs
  BY DatasetIs
<1>2. ASSUME NEW a \in Datasets, NEW b \in Datasets, Len(a[2]) = Len(b[2]),
             \A i \in 1 .. Len(a[2]) : a[2][i] = b[2][i]
      PROVE  a = b
  <2>1. a[2] \in NameSeqs /\ b[2] \in NameSeqs /\ a = Root(a[2]) /\ b = Root(b[2])
    BY DatasetIs
  <2>2. a[2] = b[2]
    BY <2>1, <1>2, SeqEqual DEF NameSeqs
  <2>. QED
    BY <2>1, <2>2
<1>3. Covers(d, d)
  BY <1>1, CoversIs
<1>4. Covers(x, y) /\ Covers(y, d) => Covers(x, d)
  BY <1>1, CoversIs
<1>5. Covers(x, d) /\ Covers(y, d) => Covers(x, y) \/ Covers(y, x)
  BY <1>1, CoversIs
<1>6. Covers(x, d) /\ Covers(y, d) /\ Len(x[2]) = Len(y[2]) => x = y
  BY <1>1, <1>2, CoversIs
<1>7. Covers(x, d) => Len(x[2]) <= Len(d[2]) /\ EnvOf(x) = EnvOf(d)
  BY <1>1, CoversIs DEF EnvOf
<1>8. Covers(x, d) /\ x # d => Len(x[2]) < Len(d[2]) /\ ~Covers(d, x)
  BY <1>1, <1>2, CoversIs
<1>9. Top(EnvOf(d)) \in Datasets /\ Len(Top(EnvOf(d))[2]) = 1 /\ EnvOf(Top(EnvOf(d))) = EnvOf(d)
  BY <1>1, TopFacts
<1>10. Covers(Top(EnvOf(d)), d)
  <2>1. Top(EnvOf(d))[2][1] = d[2][1]
    BY <1>9 DEF EnvOf
  <2>2. \A i \in 1 .. Len(Top(EnvOf(d))[2]) : Top(EnvOf(d))[2][i] = d[2][i]
    BY <1>9, <2>1
  <2>3. Len(Top(EnvOf(d))[2]) <= Len(d[2])
    BY <1>1, <1>9
  <2>. QED
    BY <1>9, <2>2, <2>3, CoversIs
<1>11. Len(d[2]) = 1 => d = Top(EnvOf(d))
  BY <1>1, <1>2, <1>9 DEF EnvOf
<1>. QED
  BY <1>3, <1>4, <1>5, <1>6, <1>7, <1>8, <1>10, <1>11

\* The datasets above an existing one exist, its parent among them.
LEMMA AboveExists ==
  ASSUME fs \subseteq Datasets, Rooted, NEW d \in fs, NEW x \in Datasets, Covers(x, d)
  PROVE  x \in fs
<1>1. /\ x[2] \in NameSeqs /\ d[2] \in NameSeqs /\ x = Root(x[2])
      /\ Len(x[2]) \in Nat /\ Len(x[2]) >= 1 /\ Len(d[2]) \in Nat
  BY DatasetIs
<1>2. Len(x[2]) <= Len(d[2]) /\ \A i \in 1 .. Len(x[2]) : x[2][i] = d[2][i]
  BY CoversIs
<1>3. ASSUME NEW a \in NameSeqs, NEW b \in NameSeqs, Len(a) <= Len(b),
             \A i \in 1 .. Len(a) : a[i] = b[i]
      PROVE  a = SubSeq(b, 1, Len(a))
  BY <1>3, SMT DEF NameSeqs
<1>4. x[2] = SubSeq(d[2], 1, Len(x[2])) /\ Len(x[2]) \in 1 .. Len(d[2])
  BY <1>1, <1>2, <1>3
<1>5. Root(SubSeq(d[2], 1, Len(x[2]))) \in fs
  BY <1>4 DEF Rooted
<1>. QED
  BY <1>1, <1>4, <1>5

\* The parent of an existing dataset that is not a top dataset exists.
LEMMA ParentExists ==
  ASSUME fs \subseteq Datasets, Rooted, NEW d \in fs, Len(d[2]) > 1
  PROVE  Root(SeqX!Front(d[2])) \in fs
<1>1. Len(d[2]) \in Nat
  BY DatasetIs
<1>2. Len(d[2]) - 1 \in 1 .. Len(d[2])
  BY <1>1
<1>. QED
  BY <1>2 DEF Rooted, SeqX!Front

\* A child of d.
LEMMA ChildFacts ==
  ASSUME fs \subseteq Datasets, NEW d \in Datasets, NEW c \in Children(d)
  PROVE  /\ c \in fs /\ c \in Datasets /\ c # d /\ Covers(d, c) /\ ~Covers(c, d)
         /\ EnvOf(c) = EnvOf(d) /\ PathOf(c) # << >>
         /\ \A x \in Datasets : Covers(x, c) /\ x # c => Covers(x, d)
         /\ \A b \in Children(d) : Covers(b, c) => b = c
<1>1. /\ c \in fs /\ c \in Datasets /\ c # d /\ Covers(d, c) /\ Len(c[2]) = Len(d[2]) + 1
  BY DEF Children, Below, Covers
<1>2. /\ d[2] \in NameSeqs /\ c[2] \in NameSeqs
      /\ Len(d[2]) \in Nat /\ Len(c[2]) \in Nat /\ Len(d[2]) >= 1
  BY <1>1, DatasetIs
<1>3. EnvOf(c) = EnvOf(d) /\ ~Covers(c, d)
  BY <1>1, CoversOrder
<1>4. PathOf(c) # << >>
  <2>1. ASSUME NEW a \in NameSeqs, Len(a) >= 2 PROVE Tail(a) # << >>
    <3>1. PICK t : t = Tail(a)
      OBVIOUS
    <3>2. Len(t) = Len(a) - 1 /\ Len(a) \in Nat
      <4>1. a # << >>
        BY <2>1
      <4>. QED
        BY <3>1, <4>1, HeadTailProperties, LenProperties DEF NameSeqs
    <3>3. t # << >>
      BY <2>1, <3>2
    <3>. QED
      BY <3>1, <3>3
  <2>. QED
    BY <1>1, <1>2, <2>1 DEF PathOf
<1>5. ASSUME NEW x \in Datasets, Covers(x, c), x # c PROVE Covers(x, d)
  <2>1. Len(x[2]) < Len(c[2]) /\ Len(x[2]) \in Nat
    BY <1>1, <1>5, CoversOrder, DatasetIs
  <2>2. Covers(x, d) \/ Covers(d, x)
    BY <1>1, <1>5, CoversOrder
  <2>3. CASE Covers(d, x)
    <3>1. Len(d[2]) <= Len(x[2])
      BY <2>3, CoversOrder
    <3>2. Len(d[2]) = Len(x[2])
      BY <1>1, <1>2, <2>1, <3>1
    <3>. QED
      BY <1>1, <1>5, <3>2, CoversOrder
  <2>. QED
    BY <2>2, <2>3
<1>6. ASSUME NEW b \in Children(d), Covers(b, c) PROVE b = c
  <2>1. b \in Datasets /\ Len(b[2]) = Len(c[2])
    BY <1>1 DEF Children, Below
  <2>. QED
    BY <1>1, <1>6, <2>1, CoversOrder
<1>. QED
  BY <1>1, <1>3, <1>4, <1>5, <1>6

\* What is below d is a child of d or below one.
LEMMA ChildOnTheWay ==
  ASSUME fs \subseteq Datasets, Rooted, NEW d \in Datasets, NEW y \in fs, Covers(d, y), y # d
  PROVE  \E c \in Children(d) : Covers(c, y)
<1>1. /\ d[2] \in NameSeqs /\ y[2] \in NameSeqs /\ y \in Datasets
      /\ Len(d[2]) \in Nat /\ Len(y[2]) \in Nat /\ Len(d[2]) >= 1
  BY DatasetIs
<1>2. Len(d[2]) < Len(y[2])
  BY <1>1, CoversOrder
<1>3. Len(d[2]) + 1 \in 1 .. Len(y[2])
  BY <1>1, <1>2
<1> DEFINE n == SubSeq(y[2], 1, Len(d[2]) + 1)
<1>4. n \in NameSeqs /\ Len(n) = Len(d[2]) + 1 /\ \A i \in 1 .. Len(n) : n[i] = y[2][i]
  <2>1. ASSUME NEW b \in NameSeqs, NEW k \in 1 .. Len(b)
        PROVE  /\ SubSeq(b, 1, k) \in NameSeqs /\ Len(SubSeq(b, 1, k)) = k
               /\ \A i \in 1 .. k : SubSeq(b, 1, k)[i] = b[i]
    BY <2>1, SMT DEF NameSeqs
  <2>. QED
    BY <1>1, <1>3, <2>1
<1>5. Root(n) \in fs /\ Root(n) \in Datasets
  BY <1>3 DEF Rooted
<1>6. Root(n)[2] = n
  BY DEF Root
<1> HIDE DEF n
<1>7. \A i \in 1 .. Len(d[2]) : d[2][i] = y[2][i]
  BY <1>1, CoversIs
<1>8. Len(n) \in Nat /\ \A i \in 1 .. Len(d[2]) : d[2][i] = n[i]
  BY <1>1, <1>4, <1>7
<1>9. Covers(d, Root(n))
  BY <1>1, <1>4, <1>5, <1>6, <1>8, CoversIs
<1>10. Covers(Root(n), y)
  BY <1>1, <1>3, <1>4, <1>5, <1>6, CoversIs
<1>11. Root(n) # d
  BY <1>1, <1>4, <1>6
<1>12. Root(n) \in Children(d)
  BY <1>4, <1>5, <1>6, <1>9, <1>11 DEF Children, Below, Covers
<1>. QED
  BY <1>10, <1>12

(***************************************************************************)
(* The stack.                                                              *)
(***************************************************************************)
LEMMA TaskFacts ==
  /\ \A k \in Calls, d \in Datasets : Task(k, d) \in Tasks
  /\ \A k \in Calls, d \in Datasets, s \in Suffixes : SnapTask(k, d, s) \in Tasks
BY DEF Task, SnapTask, Tasks

\* The module SequencesExt counts with its own instance of Cardinality.
LEMMA SameCardinality ==
  ASSUME NEW S
  PROVE  SeqX!Cardinality(S) = Cardinality(S)
BY Zenon DEF SeqX!Cardinality, Cardinality

\* SetToSeqs: every element once.
LEMMA OrderFacts ==
  ASSUME NEW S, IsFiniteSet(S), NEW f \in SeqX!SetToSeqs(S)
  PROVE  /\ f \in Seq(S)
         /\ \A x \in S : \E i \in 1 .. Len(f) : f[i] = x
         /\ \A i, j \in 1 .. Len(f) : i # j => f[i] # f[j]
<1>1. Cardinality(S) \in Nat
  BY FS_CardinalityType
<1>2. /\ f \in [1 .. Cardinality(S) -> S]
      /\ \A i, j \in 1 .. Cardinality(S) : i # j => f[i] # f[j]
  BY SameCardinality DEF SeqX!SetToSeqs
<1>3. IsFiniteSet(1 .. Cardinality(S)) /\ Cardinality(1 .. Cardinality(S)) = Cardinality(S)
  BY <1>1, FS_Interval
<1>4. f \in Injection(1 .. Cardinality(S), S)
  BY <1>2 DEF Injection, IsInjective
<1>5. f \in Surjection(1 .. Cardinality(S), S)
  BY <1>3, <1>4, FS_Injection
<1>6. f \in Seq(S) /\ Len(f) = Cardinality(S)
  BY <1>1, <1>2
<1>. QED
  BY <1>2, <1>5, <1>6 DEF Surjection

\* One call for each child, in some order.
LEMMA EachChildFacts ==
  ASSUME fs \subseteq Datasets, IsFiniteSet(fs), NEW k \in Calls, NEW d,
         NEW calls \in EachChild(k, d)
  PROVE  /\ calls \in Seq(Tasks) /\ Len(calls) \in Nat
         /\ \A i \in 1 .. Len(calls) : calls[i].ds \in Children(d) /\ calls[i] = Task(k, calls[i].ds)
         /\ \A x \in Children(d) : \E i \in 1 .. Len(calls) : calls[i].ds = x
         /\ \A i, j \in 1 .. Len(calls) : i # j => calls[i].ds # calls[j].ds
         /\ calls = << >> => Children(d) = {}
<1> DEFINE S == {Task(k, x) : x \in Children(d)}
           g == [x \in Children(d) |-> Task(k, x)]
<1>1. Children(d) \subseteq fs
  BY DEF Children, Below
<1>2. IsFiniteSet(Children(d))
  BY <1>1, FS_Subset
<1>3. g \in Surjection(Children(d), S)
  BY DEF Surjection
<1>4. IsFiniteSet(S)
  BY <1>2, <1>3, FS_Surjection
<1>5. S \subseteq Tasks
  BY <1>1, TaskFacts
<1>6. calls \in SeqX!SetToSeqs(S)
  BY DEF EachChild
<1>7. /\ calls \in Seq(S)
      /\ \A t \in S : \E i \in 1 .. Len(calls) : calls[i] = t
      /\ \A i, j \in 1 .. Len(calls) : i # j => calls[i] # calls[j]
  BY <1>4, <1>6, OrderFacts
<1>8. calls \in Seq(Tasks) /\ Len(calls) \in Nat
  BY <1>5, <1>7, SeqMonotonic, LenProperties
<1>9. ASSUME NEW i \in 1 .. Len(calls)
      PROVE  calls[i].ds \in Children(d) /\ calls[i] = Task(k, calls[i].ds)
  <2>1. calls[i] \in S
    BY <1>7, ElementOfSeq
  <2>. QED
    BY <2>1 DEF Task
<1>10. ASSUME NEW x \in Children(d) PROVE \E i \in 1 .. Len(calls) : calls[i].ds = x
  <2>1. Task(k, x) \in S /\ Task(k, x).ds = x
    BY DEF Task
  <2>. QED
    BY <1>7, <2>1
<1>11. ASSUME NEW i \in 1 .. Len(calls), NEW j \in 1 .. Len(calls), i # j
       PROVE  calls[i].ds # calls[j].ds
  BY <1>7, <1>9, <1>11
<1>12. calls = << >> => Children(d) = {}
  <2>1. ASSUME calls = << >>, NEW x \in Children(d) PROVE FALSE
    <3>1. Len(calls) = 0
      BY <2>1
    <3>. QED
      BY <1>10, <3>1
  <2>. QED
    BY <2>1
<1>. QED
  BY <1>8, <1>9, <1>10, <1>11, <1>12

\* Proceed: the new calls, then what was below the first.
LEMMA ProceedFacts ==
  ASSUME todo \in Seq(Tasks), todo # << >>, NEW tasks \in Seq(Tasks), Proceed(tasks)
  PROVE  /\ Len(todo) \in Nat /\ Len(todo) >= 1 /\ Len(tasks) \in Nat
         /\ \/ Ends("ok") /\ tasks = << >> /\ Len(todo) = 1
            \/ /\ UNCHANGED <<cmd, result>> /\ todo' \in Seq(Tasks) /\ todo' # << >>
               /\ Len(todo') = Len(tasks) + Len(todo) - 1
               /\ \A i \in 1 .. Len(tasks) : i \in 1 .. Len(todo') /\ todo'[i] = tasks[i]
               /\ \A i \in 2 .. Len(todo) :
                    Len(tasks) + i - 1 \in 1 .. Len(todo') /\ todo'[Len(tasks) + i - 1] = todo[i]
               /\ \A i \in 1 .. Len(todo') :
                    \/ i \in 1 .. Len(tasks) /\ todo'[i] = tasks[i]
                    \/ /\ i > Len(tasks) /\ i - Len(tasks) + 1 \in 2 .. Len(todo)
                       /\ todo'[i] = todo[i - Len(tasks) + 1]
<1> DEFINE rest == Tail(todo)
           left == tasks \o rest
<1>1. Len(todo) \in Nat /\ Len(todo) >= 1 /\ Len(tasks) \in Nat
  BY EmptySeq, LenProperties
<1>2. rest \in Seq(Tasks) /\ Len(rest) = Len(todo) - 1 /\ \A i \in 1 .. Len(rest) : rest[i] = todo[i + 1]
  BY HeadTailProperties
<1> HIDE DEF rest
<1>3. /\ left \in Seq(Tasks) /\ Len(left) = Len(tasks) + Len(rest)
      /\ \A i \in 1 .. Len(tasks) + Len(rest) :
           left[i] = IF i <= Len(tasks) THEN tasks[i] ELSE rest[i - Len(tasks)]
  BY <1>2, ConcatProperties
<1>4. CASE left = << >>
  <2>1. Ends("ok")
    BY <1>4 DEF Proceed, rest
  <2>2. Len(left) = 0
    BY <1>4
  <2>3. Len(tasks) = 0 /\ Len(todo) = 1
    BY <1>1, <1>2, <1>3, <2>2
  <2>4. tasks = << >>
    BY <2>3, EmptySeq
  <2>. QED
    BY <1>1, <2>1, <2>3, <2>4
<1>5. CASE left # << >>
  <2>1. todo' = left /\ UNCHANGED <<cmd, result>>
    BY <1>5 DEF Proceed, rest
  <2> HIDE DEF left
  <2>2. ASSUME NEW i \in 1 .. Len(tasks) PROVE left[i] = tasks[i]
    <3>1. i \in 1 .. Len(tasks) + Len(rest) /\ i <= Len(tasks)
      BY <1>1, <1>2
    <3>. QED
      BY <1>3, <3>1
  <2>3. ASSUME NEW i \in 2 .. Len(todo) 
        PROVE  Len(tasks) + i - 1 \in 1 .. Len(left) /\ left[Len(tasks) + i - 1] = todo[i]
    <3>1. Len(tasks) + i - 1 \in 1 .. Len(tasks) + Len(rest) /\ ~(Len(tasks) + i - 1 <= Len(tasks))
      BY <1>1, <1>2
    <3>2. (Len(tasks) + i - 1) - Len(tasks) = i - 1 /\ i - 1 \in 1 .. Len(rest) /\ (i - 1) + 1 = i
      BY <1>1, <1>2
    <3>. QED
      BY <1>2, <1>3, <3>1, <3>2
  <2>4. ASSUME NEW i \in 1 .. Len(left), i > Len(tasks)
        PROVE  i - Len(tasks) + 1 \in 2 .. Len(todo) /\ left[i] = todo[i - Len(tasks) + 1]
    <3>1. i - Len(tasks) + 1 \in 2 .. Len(todo) /\ i - Len(tasks) \in 1 .. Len(rest)
      BY <1>1, <1>2, <1>3, <2>4
    <3>2. i \in 1 .. Len(tasks) + Len(rest) /\ ~(i <= Len(tasks))
      BY <1>1, <1>2, <1>3, <2>4
    <3>3. left[i] = rest[i - Len(tasks)]
      BY <1>3, <3>2
    <3>. QED
      BY <1>2, <3>1, <3>3
  <2>5. \A i \in 1 .. Len(left) : i \in 1 .. Len(tasks) \/ i > Len(tasks)
    BY <1>1, <1>2, <1>3
  <2>6. \A i \in 1 .. Len(tasks) : i \in 1 .. Len(left)
    BY <1>1, <1>2, <1>3
  <2>7. Len(left) = Len(tasks) + Len(todo) - 1
    BY <1>1, <1>2, <1>3
  <2>. QED
    BY <1>1, <1>3, <1>5, <2>1, <2>2, <2>3, <2>4, <2>5, <2>6, <2>7
<1>. QED
  BY <1>4, <1>5

(***************************************************************************)
(* What each effect does to the tree.                                      *)
(***************************************************************************)
TreeCore ==
  /\ ZfsTypeOK
  /\ running \in Envs
  /\ tmpmp = {}
  /\ IsFiniteSet(fs)
  /\ Rooted
  /\ Protected
  /\ MountsNested

\* What the types of the pool say of the sets of datasets.
LEMMA CoreTypes ==
  ASSUME ZfsTypeOK
  PROVE  fs \subseteq Datasets /\ mounted \subseteq fs /\ mounted \subseteq Datasets
BY DEF ZfsTypeOK

\* An initial part of a name is above it.
LEMMA SubSeqCovers ==
  ASSUME NEW y \in Datasets, NEW i \in 1 .. Len(y[2]), Root(SubSeq(y[2], 1, i)) \in Datasets
  PROVE  Covers(Root(SubSeq(y[2], 1, i)), y)
<1> DEFINE n == SubSeq(y[2], 1, i)
<1>1. y[2] \in NameSeqs /\ Len(y[2]) \in Nat
  BY DatasetIs
<1>2. Len(n) = i /\ \A j \in 1 .. i : n[j] = y[2][j]
  <2>1. ASSUME NEW b \in NameSeqs, NEW k \in 1 .. Len(b)
        PROVE  Len(SubSeq(b, 1, k)) = k /\ \A j \in 1 .. k : SubSeq(b, 1, k)[j] = b[j]
    BY <2>1, SMT DEF NameSeqs
  <2>. QED
    BY <1>1, <2>1
<1>3. Root(n)[2] = n
  BY DEF Root
<1> HIDE DEF n
<1>4. Root(n) \in Datasets
  BY DEF n
<1>5. Covers(Root(n), y)
  BY <1>1, <1>2, <1>3, <1>4, CoversIs
<1>. QED
  BY <1>5 DEF n

\* A call that changes no dataset, mount or temporary mountpoint, and leaves
\* an existing environment activated.
LEMMA SameTree ==
  ASSUME TreeCore, ZfsTypeOK', UNCHANGED <<fs, mounted, tmpmp, running>>,
         bootfs' = bootfs \/ \E e \in Envs : bootfs' = <<e>> /\ Existing(e)
  PROVE  TreeCore'
<1>1. Rooted' /\ MountsNested' /\ tmpmp' = {} /\ IsFiniteSet(fs')
  BY DEF TreeCore, Rooted, MountsNested
<1>2. Protected'
  BY DEF TreeCore, Protected, Existing
<1>. QED
  BY <1>1, <1>2 DEF TreeCore

\* A dataset is added below an existing one or at the top, mounted where it
\* belongs to the running environment.
LEMMA TreeGrows ==
  ASSUME TreeCore, ZfsTypeOK', NEW d \in Datasets, d \notin fs,
         Len(d[2]) = 1 \/ Root(SeqX!Front(d[2])) \in fs,
         fs' = fs \cup {d}, UNCHANGED <<tmpmp, bootfs, running>>,
         \/ mounted' = mounted /\ (EnvOf(d) # running \/ ~Managed(d))
         \/ mounted' = mounted \cup {d} /\ EnvOf(d) = running
  PROVE  TreeCore'
<1>1. fs \subseteq Datasets /\ mounted \subseteq fs
  BY CoreTypes DEF TreeCore
<1>2. IsFiniteSet(fs')
  BY FS_AddElement DEF TreeCore
<1>3. Rooted'
  <2>1. SUFFICES ASSUME NEW i \in 1 .. Len(d[2]) PROVE Root(SubSeq(d[2], 1, i)) \in fs'
    BY DEF TreeCore, Rooted
  <2>2. d[2] \in NameSeqs /\ Len(d[2]) \in Nat /\ d = Root(d[2])
    BY DatasetIs
  <2>3. CASE i = Len(d[2])
    <3>1. SubSeq(d[2], 1, i) = d[2]
      BY <2>2, <2>3, SubSeqFull DEF NameSeqs
    <3>. QED
      BY <2>2, <3>1
  <2>4. CASE i # Len(d[2])
    <3>0. Len(d[2]) # 1
      <4>1. PICK l : l = Len(d[2])
        OBVIOUS
      <4>2. i \in 1 .. l /\ l \in Nat /\ i # l
        BY <2>1, <2>2, <2>4, <4>1
      <4>3. l # 1
        BY <4>2
      <4>. QED
        BY <4>1, <4>3
    <3>1. Root(SeqX!Front(d[2])) \in fs
      BY <3>0
    <3>2. ASSUME NEW b \in NameSeqs, NEW k \in 1 .. Len(b), k # Len(b)
          PROVE  /\ SubSeq(SubSeq(b, 1, Len(b) - 1), 1, k) = SubSeq(b, 1, k)
                 /\ Len(SubSeq(b, 1, Len(b) - 1)) = Len(b) - 1
                 /\ k \in 1 .. Len(b) - 1
      BY <3>2, SMT DEF NameSeqs
    <3>3. /\ SubSeq(SeqX!Front(d[2]), 1, i) = SubSeq(d[2], 1, i)
          /\ i \in 1 .. Len(SeqX!Front(d[2]))
      BY <2>2, <2>4, <3>2 DEF SeqX!Front
    <3>4. Root(SubSeq(SeqX!Front(d[2]), 1, i)) \in fs
      <4>1. Root(SeqX!Front(d[2]))[2] = SeqX!Front(d[2])
        BY DEF Root
      <4>. QED
        BY <3>1, <3>3, <4>1 DEF TreeCore, Rooted
    <3>. QED
      BY <3>3, <3>4
  <2>. QED
    BY <2>3, <2>4
<1>4. Protected'
  BY DEF TreeCore, Protected, Existing
<1>5. MountsNested'
  <2>1. SUFFICES ASSUME NEW y \in mounted', NEW x \in fs', Covers(x, y), Managed(x)
                 PROVE  x \in mounted'
    BY DEF MountsNested, Covers
  <2>2. CASE y \in mounted /\ x \in fs
    BY <2>1, <2>2 DEF TreeCore, MountsNested, Covers
  <2>3. CASE y \in mounted /\ x = d
    BY <1>1, <2>1, <2>3, AboveExists DEF TreeCore
  <2>4. CASE y = d /\ y \notin mounted
    <3>1. mounted' = mounted \cup {d} /\ EnvOf(d) = running
      BY <2>1, <2>4
    <3>2. x \in Datasets /\ EnvOf(x) = EnvOf(d)
      BY <1>1, <2>1, <2>4, CoversOrder
    <3>. QED
      BY <2>1, <3>1, <3>2 DEF TreeCore, Protected
  <2>. QED
    BY <2>2, <2>3, <2>4
<1>. QED
  BY <1>2, <1>3, <1>4, <1>5 DEF TreeCore

\* A dataset is mounted, after those above it.
LEMMA TreeMounted ==
  ASSUME TreeCore, ZfsTypeOK', NEW d \in fs, UNCHANGED <<fs, tmpmp, bootfs, running>>,
         mounted' = mounted \cup {d},
         \A x \in fs : Covers(x, d) /\ x # d /\ Managed(x) => x \in mounted
  PROVE  TreeCore'
<1>1. Rooted' /\ tmpmp' = {} /\ IsFiniteSet(fs')
  BY DEF TreeCore, Rooted
<1>2. Protected'
  BY DEF TreeCore, Protected, Existing
<1>3. MountsNested'
  BY DEF TreeCore, MountsNested, Covers
<1>. QED
  BY <1>1, <1>2, <1>3 DEF TreeCore

\* A dataset outside the running environment is unmounted, after those below.
LEMMA TreeUnmounted ==
  ASSUME TreeCore, ZfsTypeOK', NEW d \in Datasets, UNCHANGED <<fs, tmpmp, bootfs, running>>,
         mounted' = mounted \ {d}, EnvOf(d) # running, Below(d) \cap mounted = {}
  PROVE  TreeCore'
<1>1. Rooted' /\ tmpmp' = {} /\ IsFiniteSet(fs')
  BY DEF TreeCore, Rooted
<1>2. Protected'
  BY DEF TreeCore, Protected, Existing
<1>3. MountsNested'
  <2>1. SUFFICES ASSUME NEW y \in mounted, y # d, NEW x \in fs, Covers(x, y), Managed(x)
                 PROVE  x \in mounted /\ x # d
    BY DEF MountsNested, Covers
  <2>2. x \in mounted
    BY <2>1 DEF TreeCore, MountsNested, Covers
  <2>3. x = d => y \in Below(d)
    BY <2>1, CoreTypes DEF TreeCore, Below, Covers
  <2>. QED
    BY <2>2, <2>3
<1>. QED
  BY <1>1, <1>2, <1>3 DEF TreeCore

\* A dataset without children is destroyed.
LEMMA TreeShrinks ==
  ASSUME TreeCore, ZfsTypeOK', NEW d \in fs, d \notin mounted, Children(d) = {},
         fs' = fs \ {d}, UNCHANGED <<mounted, bootfs, running>>, tmpmp' = tmpmp \ {d},
         EnvOf(d) # running, <<EnvOf(d)>> # bootfs
  PROVE  TreeCore'
<1>1. fs \subseteq Datasets /\ mounted \subseteq fs /\ d \in Datasets
  BY CoreTypes DEF TreeCore
<1>2. tmpmp' = {} /\ IsFiniteSet(fs')
  BY FS_RemoveElement DEF TreeCore
<1>3. Rooted'
  <2>1. SUFFICES ASSUME NEW y \in fs, y # d, NEW i \in 1 .. Len(y[2])
                 PROVE  Root(SubSeq(y[2], 1, i)) \in fs /\ Root(SubSeq(y[2], 1, i)) # d
    BY DEF Rooted
  <2>2. Root(SubSeq(y[2], 1, i)) \in fs
    BY <2>1 DEF TreeCore, Rooted
  <2>3. Covers(Root(SubSeq(y[2], 1, i)), y)
    BY <1>1, <2>1, <2>2, SubSeqCovers
  <2>4. Covers(d, y) => FALSE
    BY <1>1, <2>1, ChildOnTheWay DEF TreeCore
  <2>. QED
    BY <2>2, <2>3, <2>4
<1>4. Protected'
  <2>1. ASSUME NEW e \in Envs, Top(e) = d PROVE EnvOf(d) = e
    BY <2>1, TopFacts
  <2>2. Existing(running)'
    BY <2>1 DEF TreeCore, Protected, Existing
  <2>3. \E e \in Envs : bootfs' = <<e>> /\ Existing(e)'
    BY <2>1 DEF TreeCore, Protected, Existing
  <2>. QED
    BY <2>2, <2>3 DEF TreeCore, Protected
<1>5. MountsNested'
  BY DEF TreeCore, MountsNested
<1>. QED
  BY <1>2, <1>3, <1>4, <1>5 DEF TreeCore

\* A dataset of the tree of e, in the tree of f.
LEMMA MovedFacts ==
  ASSUME NEW e \in Envs, NEW f \in Envs, NEW x \in Datasets
  PROVE  /\ Moved(x, e, f) \in Datasets
         /\ EnvOf(x) # e => Moved(x, e, f) = x
         /\ EnvOf(x) = e => EnvOf(Moved(x, e, f)) = f /\ Moved(x, e, f) = Root(<<f>> \o PathOf(x))
         /\ x = Top(e) => Moved(x, e, f) = Top(f)
<1>1. EnvOf(x) \in Envs /\ PathOf(x) \in Paths
  BY DatasetIs
<1>2. Root(<<f>> \o PathOf(x)) \in Datasets /\ EnvOf(Root(<<f>> \o PathOf(x))) = f
  BY <1>1, DatasetOf
<1>3. x = Top(e) => EnvOf(x) = e /\ Root(<<f>> \o PathOf(x)) = Top(f)
  BY TopFacts
<1>. QED
  BY <1>1, <1>2, <1>3 DEF Moved

\* The initial part of a moved name is the moved initial part.
LEMMA MovedSubSeq ==
  ASSUME NEW e \in Envs, NEW f \in Envs, NEW x \in Datasets, EnvOf(x) = e,
         NEW i \in 1 .. Len(x[2]), Root(SubSeq(x[2], 1, i)) \in Datasets
  PROVE  /\ Len(Moved(x, e, f)[2]) = Len(x[2])
         /\ Root(SubSeq(Moved(x, e, f)[2], 1, i)) = Moved(Root(SubSeq(x[2], 1, i)), e, f)
<1> DEFINE n == SubSeq(x[2], 1, i)
<1>1. x[2] \in NameSeqs /\ Len(x[2]) \in Nat /\ Len(x[2]) >= 1
  BY DatasetIs
<1>2. ASSUME NEW b \in NameSeqs, NEW k \in 1 .. Len(b)
      PROVE  /\ SubSeq(b, 1, k)[1] = b[1]
             /\ Len(<<f>> \o Tail(b)) = Len(b)
             /\ SubSeq(<<f>> \o Tail(b), 1, k) = <<f>> \o Tail(SubSeq(b, 1, k))
  <2> DEFINE c == SubSeq(b, 1, k)
  <2>1. Len(b) \in Nat /\ b # << >> /\ Tail(b) \in NameSeqs /\ Len(Tail(b)) = Len(b) - 1
        /\ \A j \in 1 .. Len(Tail(b)) : Tail(b)[j] = b[j + 1]
    BY <1>2, HeadTailProperties, EmptySeq DEF NameSeqs
  <2>2. c \in NameSeqs /\ Len(c) = k /\ \A j \in 1 .. k : c[j] = b[j]
    BY <1>2, SMT DEF NameSeqs
  <2> HIDE DEF c
  <2>3. c # << >> /\ Tail(c) \in NameSeqs /\ Len(Tail(c)) = k - 1
        /\ \A j \in 1 .. k - 1 : Tail(c)[j] = b[j + 1]
    <3>1. c # << >>
      BY <2>1, <2>2
    <3>2. Tail(c) \in NameSeqs /\ Len(Tail(c)) = k - 1
          /\ \A j \in 1 .. Len(Tail(c)) : Tail(c)[j] = c[j + 1]
      BY <2>2, <3>1, HeadTailProperties DEF NameSeqs
    <3>. QED
      BY <2>1, <2>2, <3>1, <3>2
  <2>4. ASSUME NEW t \in NameSeqs
        PROVE  /\ <<f>> \o t \in NameSeqs /\ Len(<<f>> \o t) = Len(t) + 1
               /\ (<<f>> \o t)[1] = f
               /\ \A j \in 1 .. Len(t) : (<<f>> \o t)[j + 1] = t[j]
    <3>1. <<f>> \in NameSeqs
      BY DEF NameSeqs
    <3>. QED
      BY <2>4, <3>1, SMT DEF NameSeqs
  <2> DEFINE l == <<f>> \o Tail(b)
             r == <<f>> \o Tail(c)
  <2>5. /\ l \in NameSeqs /\ Len(l) = Len(b) /\ l[1] = f
        /\ \A j \in 1 .. Len(b) - 1 : l[j + 1] = b[j + 1]
    BY <2>1, <2>4
  <2>6. /\ r \in NameSeqs /\ Len(r) = k /\ r[1] = f
        /\ \A j \in 1 .. k - 1 : r[j + 1] = b[j + 1]
    BY <2>1, <2>3, <2>4
  <2> HIDE DEF l, r
  <2>7. SubSeq(l, 1, k) \in NameSeqs /\ Len(SubSeq(l, 1, k)) = k
        /\ \A j \in 1 .. k : SubSeq(l, 1, k)[j] = l[j]
    BY <2>1, <2>5, SMT DEF NameSeqs
  <2>8. \A j \in 1 .. k : l[j] = r[j]
    <3>1. SUFFICES ASSUME NEW j \in 1 .. k, j # 1 PROVE l[j] = r[j]
      BY <2>5, <2>6
    <3>2. j - 1 \in 1 .. Len(b) - 1 /\ j - 1 \in 1 .. k - 1 /\ (j - 1) + 1 = j
      BY <2>1, <3>1
    <3>. QED
      BY <2>5, <2>6, <3>2
  <2>9. SubSeq(l, 1, k) = r
    BY <2>6, <2>7, <2>8, SeqEqual DEF NameSeqs
  <2>10. c[1] = b[1]
    BY <2>1, <2>2
  <2>. QED
    BY <2>5, <2>9, <2>10 DEF c, l, r
<1>3. Root(n)[2] = n /\ EnvOf(Root(n)) = e
  BY <1>1, <1>2 DEF Root, EnvOf
<1>4. Moved(Root(n), e, f) = Root(<<f>> \o Tail(n))
  BY <1>3 DEF Moved, PathOf
<1>5. Moved(x, e, f)[2] = <<f>> \o Tail(x[2])
  BY DEF Moved, PathOf, Root
<1>. QED
  BY <1>1, <1>2, <1>4, <1>5

\* zfs_rename of an environment that is not mounted to a name that is free:
\* its datasets, and no other, have moved.
LEMMA RenamedTree ==
  ASSUME TreeCore, NEW e \in Envs, NEW f \in Envs, MayRename(e, f), RenameTree(e, f)
  PROVE  /\ e # f /\ f # running /\ mounted' = mounted
         /\ \A x \in Datasets : x \in fs' <=> \/ EnvOf(x) \notin {e, f} /\ x \in fs
                                              \/ \E y \in fs : EnvOf(y) = e /\ x = Moved(y, e, f)
         /\ \A x \in fs : EnvOf(x) # f
         /\ \A x \in mounted : EnvOf(x) # e
<1>1. fs \subseteq Datasets /\ mounted \subseteq fs
  BY CoreTypes DEF TreeCore
<1>2. e # f /\ f # running
  BY DEF TreeCore, Protected, MayRename
<1>3. ASSUME NEW x \in fs PROVE EnvOf(x) # f
  <2>1. SUFFICES ASSUME EnvOf(x) = f PROVE FALSE
    OBVIOUS
  <2>2. Covers(Top(f), x) /\ Top(f) \in Datasets
    BY <1>1, <2>1, CoversOrder, TopFacts
  <2>3. Top(f) \in fs
    BY <1>1, <2>2, AboveExists DEF TreeCore
  <2>. QED
    BY <2>3 DEF MayRename, Existing
<1>4. ASSUME NEW x \in mounted PROVE EnvOf(x) # e
  <2>1. SUFFICES ASSUME EnvOf(x) = e PROVE FALSE
    OBVIOUS
  <2>2. Covers(Top(e), x) /\ Managed(Top(e))
    BY <1>1, <2>1, CoversOrder, TopFacts
  <2>3. Top(e) \in mounted
    BY <2>2 DEF TreeCore, MountsNested, Covers, MayRename, Existing
  <2>. QED
    BY <2>3 DEF MayRename
<1>5. \A x \in mounted : Moved(x, e, f) = x
  BY <1>4 DEF Moved
<1>6. mounted' = mounted
  BY <1>5 DEF RenameTree
<1>7. ASSUME NEW x \in Datasets
      PROVE  x \in fs' <=> \/ EnvOf(x) \notin {e, f} /\ x \in fs
                           \/ \E y \in fs : EnvOf(y) = e /\ x = Moved(y, e, f)
  <2>1. x \in fs' <=> \E y \in fs : x = Moved(y, e, f)
    BY DEF RenameTree
  <2>2. \A y \in fs : EnvOf(y) # e => Moved(y, e, f) = y /\ EnvOf(y) # f
    BY <1>1, <1>3, MovedFacts
  <2>. QED
    BY <2>1, <2>2
<1>. QED
  BY <1>2, <1>3, <1>4, <1>6, <1>7

\* zfs_rename of a top dataset with what is below it keeps the types.
LEMMA RenameTreeType ==
  ASSUME ZfsTypeOK, tmpmp = {}, NEW e \in Envs, NEW f \in Envs, RenameTree(e, f)
  PROVE  ZfsTypeOK'
<1>1. fs \subseteq Datasets /\ mounted \subseteq fs /\ \A x \in Datasets : Moved(x, e, f) \in Datasets
  BY CoreTypes, MovedFacts
<1>2. fs' \subseteq Datasets /\ mounted' \subseteq fs'
  BY <1>1 DEF RenameTree
<1>3. snaps' \in [Datasets -> Seq(Suffixes)]
  <2>1. ASSUME NEW x \in Datasets
        PROVE  (CASE EnvOf(x) = e -> << >>
                  [] EnvOf(x) = f -> snaps[Moved(x, f, e)]
                  [] OTHER -> snaps[x]) \in Seq(Suffixes)
    <3>1. << >> \in Seq(Suffixes) /\ Moved(x, f, e) \in Datasets
      BY EmptySeq, MovedFacts
    <3>. QED
      BY <3>1 DEF ZfsTypeOK
  <2>. QED
    BY <2>1 DEF RenameTree
<1>4. origin' \in [Datasets -> Snapshots \cup {NoSnap}]
  <2>1. ASSUME NEW o \in Snapshots \cup {NoSnap}
        PROVE  (IF o = NoSnap THEN NoSnap ELSE <<Moved(o[1], e, f), o[2]>>)
                 \in Snapshots \cup {NoSnap}
    BY <1>1 DEF Snapshots
  <2>2. ASSUME NEW x \in Datasets
        PROVE  (CASE EnvOf(x) = e -> NoSnap
                  [] EnvOf(x) = f -> origin[Moved(x, f, e)]
                  [] OTHER -> origin[x]) \in Snapshots \cup {NoSnap}
    BY MovedFacts DEF ZfsTypeOK
  <2>. QED
    BY <2>1, <2>2 DEF RenameTree
<1>. QED
  BY <1>2, <1>3, <1>4 DEF ZfsTypeOK, RenameTree

\* libze_rename: renaming an environment that is not the running or the activated
\* one to a free name keeps the trees whole and the mounts nested.
LEMMA TreeRenamed ==
  ASSUME TreeCore, NEW e \in Envs, NEW f \in Envs, MayRename(e, f), RenameTree(e, f),
         UNCHANGED running
  PROVE  TreeCore'
<1>1. fs \subseteq Datasets /\ mounted \subseteq fs
  BY CoreTypes DEF TreeCore
<1>2. ZfsTypeOK'
  BY RenameTreeType DEF TreeCore
<1>3. /\ e # f /\ f # running /\ e # running /\ <<e>> # bootfs /\ mounted' = mounted
      /\ \A x \in Datasets : x \in fs' <=> \/ EnvOf(x) \notin {e, f} /\ x \in fs
                                           \/ \E y \in fs : EnvOf(y) = e /\ x = Moved(y, e, f)
      /\ \A x \in fs : EnvOf(x) # f
      /\ \A x \in mounted : EnvOf(x) # e
  BY RenamedTree DEF MayRename, IsRoot, IsActive
<1>4. IsFiniteSet(fs')
  <2> DEFINE g == [x \in fs |-> Moved(x, e, f)]
  <2>1. g \in Surjection(fs, fs')
    BY DEF Surjection, RenameTree
  <2>. QED
    BY <2>1, FS_Surjection DEF TreeCore
<1>5. ASSUME NEW y \in fs, EnvOf(y) = e PROVE EnvOf(Moved(y, e, f)) = f
  <2>1. y \in Datasets
    BY <1>1
  <2>2. PathOf(y) \in Paths /\ Moved(y, e, f) = Root(<<f>> \o PathOf(y))
    BY <1>5, <2>1, DatasetIs DEF Moved
  <2>. QED
    BY <2>2, DatasetOf
<1>6. Rooted'
  <2>1. SUFFICES ASSUME NEW x \in fs', NEW i \in 1 .. Len(x[2])
                 PROVE  Root(SubSeq(x[2], 1, i)) \in fs'
    BY DEF Rooted
  <2>2. x \in Datasets
    BY <1>2, CoreTypes DEF ZfsTypeOK
  <2>3. CASE EnvOf(x) \notin {e, f} /\ x \in fs
    <3>1. Root(SubSeq(x[2], 1, i)) \in fs
      BY <2>1, <2>3 DEF TreeCore, Rooted
    <3>2. EnvOf(Root(SubSeq(x[2], 1, i))) = EnvOf(x)
      BY <1>1, <2>1, <2>2, <3>1, SubSeqCovers, CoversOrder
    <3>. QED
      BY <1>1, <1>3, <2>3, <3>1, <3>2
  <2>4. ASSUME NEW y \in fs, EnvOf(y) = e, x = Moved(y, e, f) PROVE Root(SubSeq(x[2], 1, i)) \in fs'
    <3>1. y \in Datasets /\ Len(y[2]) >= 1 /\ Len(y[2]) \in Nat
      BY <1>1, DatasetIs
    <3>2. Len(x[2]) = Len(y[2])
      <4>1. 1 \in 1 .. Len(y[2])
        BY <3>1
      <4>2. Root(SubSeq(y[2], 1, 1)) \in Datasets
        BY <1>1, <4>1 DEF TreeCore, Rooted
      <4>. QED
        BY <2>4, <3>1, <4>1, <4>2, MovedSubSeq
    <3>3. i \in 1 .. Len(y[2])
      BY <2>1, <3>2
    <3>4. Root(SubSeq(y[2], 1, i)) \in fs /\ Root(SubSeq(y[2], 1, i)) \in Datasets
      BY <1>1, <3>3 DEF TreeCore, Rooted
    <3>5. Root(SubSeq(x[2], 1, i)) = Moved(Root(SubSeq(y[2], 1, i)), e, f)
      BY <2>4, <3>1, <3>3, <3>4, MovedSubSeq
    <3>. QED
      BY <3>4, <3>5 DEF RenameTree
  <2>. QED
    BY <1>3, <2>1, <2>2, <2>3, <2>4
<1>7. Protected'
  <2>1. \A g \in Envs : g # e /\ Top(g) \in fs => Top(g) \in fs'
    BY <1>1, <1>3, TopFacts
  <2>2. Existing(running)' /\ \E g \in Envs : bootfs' = <<g>> /\ Existing(g)'
    BY <1>3, <2>1 DEF TreeCore, Protected, Existing, RenameTree
  <2>3. ASSUME NEW d \in fs', EnvOf(d) = running, Managed(d) PROVE d \in mounted'
    <3>1. d \in Datasets
      BY <1>2 DEF ZfsTypeOK
    <3>2. d \in fs
      BY <1>3, <1>5, <2>3, <3>1
    <3>. QED
      BY <1>3, <2>3, <3>2 DEF TreeCore, Protected
  <2>. QED
    BY <2>2, <2>3 DEF Protected
<1>8. MountsNested'
  <2>1. SUFFICES ASSUME NEW y \in mounted, NEW x \in fs', Covers(x, y), Managed(x)
                 PROVE  x \in mounted
    BY <1>3 DEF MountsNested, Covers
  <2>2. x \in Datasets /\ y \in Datasets
    BY <1>1, <1>2 DEF ZfsTypeOK
  <2>3. EnvOf(x) = EnvOf(y) /\ EnvOf(y) # e /\ EnvOf(y) # f
    BY <1>1, <1>3, <2>1, <2>2, CoversOrder
  <2>4. x \in fs
    BY <1>3, <1>5, <2>2, <2>3
  <2>. QED
    BY <2>1, <2>4 DEF TreeCore, MountsNested, Covers
<1>. QED
  BY <1>2, <1>4, <1>6, <1>7, <1>8 DEF TreeCore, RenameTree

\* A snapshot of a dataset and of all below it.
LEMMA SnapshotTreeType ==
  ASSUME ZfsTypeOK, NEW d, NEW s \in Suffixes, SnapshotTree(d, s)
  PROVE  ZfsTypeOK'
<1>1. \A x \in Datasets : snaps[x] \in Seq(Suffixes) /\ Append(snaps[x], s) \in Seq(Suffixes)
  BY AppendProperties DEF ZfsTypeOK
<1>2. snaps' \in [Datasets -> Seq(Suffixes)]
  BY <1>1 DEF SnapshotTree
<1>. QED
  BY <1>2 DEF ZfsTypeOK, SnapshotTree

\* The machine boots another environment.
LEMMA TreeRebooted ==
  ASSUME TreeCore, NEW e \in Envs, Existing(e), running' = e,
         mounted' = {d \in fs \cap Tree(e) : Managed(d)},
         UNCHANGED <<fs, snaps, origin, tmpmp, bootfs>>
  PROVE  TreeCore'
<1>1. fs \subseteq Datasets
  BY CoreTypes DEF TreeCore
<1>2. \A d \in fs : d \in Tree(e) <=> EnvOf(d) = e
  BY <1>1, TreeIs
<1>3. ZfsTypeOK' /\ IsFiniteSet(fs') /\ Rooted'
  BY DEF TreeCore, ZfsTypeOK, Rooted
<1>4. Protected'
  BY <1>2 DEF TreeCore, Protected, Existing
<1>5. MountsNested'
  <2>1. SUFFICES ASSUME NEW y \in fs, EnvOf(y) = e, NEW x \in fs, Covers(x, y), Managed(x)
                 PROVE  EnvOf(x) = e
    BY <1>2 DEF MountsNested, Covers
  <2>. QED
    BY <1>1, <2>1, CoversOrder
<1>. QED
  BY <1>3, <1>4, <1>5 DEF TreeCore

\* The installed system.
LEMMA TreeInitCore ==
  ASSUME NEW e \in Envs, ZfsInit(<<e>>), running = e
  PROVE  TreeCore
<1>1. Pools \X {<<e>>} = {Top(e)} /\ Top(e) \in Datasets /\ Len(Top(e)[2]) = 1 /\ <<e>> \in Names
  <2>1. ~BootPool
    BY DatasetTreeAssumption
  <2>. QED
    BY <2>1, TopFacts DEF Pools, Top, Root
<1>2. fs = {Top(e)} /\ mounted = {Top(e)}
  BY <1>1 DEF ZfsInit
<1>3. ZfsTypeOK /\ tmpmp = {}
  <2>1. << >> \in Seq(Suffixes)
    BY EmptySeq
  <2>. QED
    BY <1>1, <1>2, <2>1 DEF ZfsTypeOK, ZfsInit
<1>4. IsFiniteSet(fs)
  BY <1>2, FS_Singleton
<1>5. Rooted
  <2>1. SUFFICES ASSUME NEW i \in 1 .. Len(Top(e)[2]) PROVE Root(SubSeq(Top(e)[2], 1, i)) = Top(e)
    BY <1>2 DEF Rooted
  <2>2. i = Len(Top(e)[2])
    BY <1>1
  <2>3. SubSeq(Top(e)[2], 1, i) = Top(e)[2] /\ Top(e) = Root(Top(e)[2])
    BY <1>1, <2>2, DatasetIs, SubSeqFull DEF NameSeqs
  <2>. QED
    BY <2>3
<1>6. Protected
  BY <1>2 DEF Protected, Existing, ZfsInit
<1>7. MountsNested
  BY <1>2 DEF MountsNested
<1>. QED
  BY <1>3, <1>4, <1>5, <1>6, <1>7 DEF TreeCore

(***************************************************************************)
(* The invariant in two parts, and what a call does to the stack.          *)
(***************************************************************************)
StackTypes ==
  /\ cmd \in Commands \cup {NoCommand}
  /\ todo \in Seq(Tasks)
  /\ cmd = NoCommand <=> todo = << >>
  /\ result \in {"none", "ok", "fail", "killed"}
  /\ faults \in 0 .. MaxFaults

\* The invariant in the three parts that the steps are proved by: the tree, the
\* types of the command, and what is on its stack.
LEMMA InvParts == TreeInv <=> TreeCore /\ StackTypes /\ (~Idle => StackOK)
<1>1. TreeInv => TreeCore /\ StackTypes /\ (~Idle => StackOK)
  BY DEF TreeInv, TreeCore, StackTypes, TreeTypeOK
<1>2. ASSUME TreeCore, StackTypes, ~Idle => StackOK PROVE TreeInv
  <2>1. \A d \in fs : Len(d[2]) > 1 => Root(SeqX!Front(d[2])) \in fs
    BY <1>2, CoreTypes, ParentExists DEF TreeCore
  <2>. QED
    BY <1>2, <2>1 DEF TreeInv, TreeCore, StackTypes, TreeTypeOK
<1>. QED
  BY <1>1, <1>2

\* The same of the next state.
LEMMA InvPartsNext == TreeInv' <=> (TreeCore /\ StackTypes /\ (~Idle => StackOK))'
BY InvParts, PTL

\* The fields of a command.
LEMMA CommandFields ==
  ASSUME NEW c \in Commands
  PROVE  /\ c # NoCommand /\ c.be \in Envs
         /\ c.op \in {"activate", "create", "destroy", "mount", "rename", "snapshot", "unmount"}
         /\ c.op = "create" => c.from = NoName \/ c.from \in Envs
         /\ c.op = "create" => c.snap = NoName \/ c.snap \in Suffixes
         /\ c.op = "rename" => c.to \in Envs
         /\ c.op = "snapshot" => c.suffix \in Suffixes
BY DEF Commands, NoCommand

\* The first call of a command.
LEMMA FirstCall ==
  ASSUME TreeInv, ~Idle
  PROVE  /\ cmd \in Commands /\ todo \in Seq(Tasks) /\ todo # << >>
         /\ Len(todo) \in Nat /\ Len(todo) >= 1 /\ 1 \in 1 .. Len(todo)
         /\ todo[1] \in Tasks /\ This \in Datasets
         /\ \A i \in 1 .. Len(todo) : todo[i] \in Tasks /\ todo[i].ds \in Datasets
         /\ todo[1] \in Pending /\ \A t \in Pending : t \in Tasks /\ t.ds \in Datasets
         /\ Fits(todo[1]) /\ TreeCore /\ StackOK
<1>1. TreeCore /\ StackTypes /\ StackOK
  BY InvParts
<1>2. cmd \in Commands /\ todo \in Seq(Tasks) /\ todo # << >>
  BY <1>1 DEF StackTypes, Idle
<1>3. Len(todo) \in Nat /\ Len(todo) >= 1 /\ 1 \in 1 .. Len(todo)
  BY <1>2, EmptySeq, LenProperties
<1>4. \A i \in 1 .. Len(todo) : todo[i] \in Tasks
  BY <1>2, ElementOfSeq
<1>5. \A t \in Tasks : t.ds \in Datasets
  BY DEF Tasks
<1>. QED
  BY <1>1, <1>2, <1>3, <1>4, <1>5 DEF StackOK, This, Pending

\* Which actions a command takes.
LEMMA StepOf ==
  ASSUME TreeInv, CommandStep
  PROVE  /\ ~Idle
         /\ \/ cmd.op = "activate" /\ (SetActive \/ PromoteClones)
            \/ cmd.op = "create" /\ (TakeSnapshot \/ CloneTree)
            \/ cmd.op = "destroy" /\ (DestroyVisit \/ DestroyChildren \/ DestroyDataset)
            \/ cmd.op = "mount" /\ MountDown
            \/ cmd.op = "rename" /\ RenameBE
            \/ cmd.op = "snapshot" /\ TakeSnapshot
            \/ cmd.op = "unmount" /\ (UnmountUp \/ UnmountDataset)
<1>1. ~Idle
  BY DEF CommandStep, SetActive, PromoteClones, TakeSnapshot, CloneTree, RenameBE, DestroyVisit,
         DestroyChildren, DestroyDataset, MountDown, UnmountUp, UnmountDataset, At
<1>2. Fits(todo[1])
  BY <1>1, FirstCall
<1>3. PICK k : k = todo[1].call
  OBVIOUS
<1>4. \/ cmd.op = "activate" /\ k \in {"set_bootfs", "promote"}
      \/ cmd.op = "create" /\ k \in {"snap", "snap_tree", "clone"}
      \/ cmd.op = "destroy" /\ k \in {"destroy", "destroy_children", "destroy_fs", "destroy_snap"}
      \/ cmd.op = "mount" /\ k \in {"mount_top", "mount"}
      \/ cmd.op = "rename" /\ k = "rename"
      \/ cmd.op = "snapshot" /\ k = "snap_tree"
      \/ cmd.op = "unmount" /\ k \in {"unmount", "unmount_fs"}
  BY <1>2, <1>3 DEF Fits, SnapTask
<1>5. /\ SetActive => k = "set_bootfs"
      /\ PromoteClones => k = "promote"
      /\ TakeSnapshot => k \in {"snap", "snap_tree"}
      /\ CloneTree => k = "clone"
      /\ RenameBE => k = "rename"
  BY <1>3 DEF SetActive, PromoteClones, TakeSnapshot, CloneTree, RenameBE, At
<1>6. /\ DestroyVisit => k = "destroy"
      /\ DestroyChildren => k = "destroy_children"
      /\ DestroyDataset => k \in {"destroy_fs", "destroy_snap"}
      /\ MountDown => k \in {"mount_top", "mount"}
      /\ UnmountUp => k = "unmount"
      /\ UnmountDataset => k = "unmount_fs"
  BY <1>3 DEF DestroyVisit, DestroyChildren, DestroyDataset, MountDown, UnmountUp,
              UnmountDataset, At
<1>. QED
  BY <1>1, <1>4, <1>5, <1>6 DEF CommandStep

\* Some calls are put on the stack: those that were below the first stay.
LEMMA StackProceeds ==
  ASSUME TreeInv, ~Idle, NEW tasks \in Seq(Tasks), Proceed(tasks), faults' \in 0 .. MaxFaults
  PROVE  /\ StackTypes'
         /\ ~Idle' => /\ cmd' = cmd /\ Len(todo') \in Nat
                      /\ Len(todo') = Len(tasks) + Len(todo) - 1
                      /\ \A i \in 1 .. Len(tasks) : i \in 1 .. Len(todo') /\ todo'[i] = tasks[i]
                      /\ \A i \in 2 .. Len(todo) : /\ Len(tasks) + i - 1 \in 1 .. Len(todo')
                                                   /\ todo'[Len(tasks) + i - 1] = todo[i]
                      /\ \A i \in 1 .. Len(todo') :
                           \/ i \in 1 .. Len(tasks) /\ todo'[i] = tasks[i]
                           \/ /\ i > Len(tasks) /\ i - Len(tasks) + 1 \in 2 .. Len(todo)
                              /\ todo'[i] = todo[i - Len(tasks) + 1]
                      /\ \A t \in Pending' : t \in Pending \/ \E i \in 1 .. Len(tasks) : t = tasks[i]
                      /\ \A i \in 1 .. Len(tasks) : tasks[i] \in Pending'
         /\ Idle' => Ends("ok") /\ tasks = << >> /\ Len(todo) = 1
         /\ \A t \in Pending : t = todo[1] \/ (~Idle' /\ t \in Pending')
<1>1. /\ cmd \in Commands /\ cmd # NoCommand /\ todo \in Seq(Tasks) /\ todo # << >>
      /\ Len(todo) \in Nat
  BY FirstCall DEF Idle
<1>2. CASE Ends("ok") /\ tasks = << >> /\ Len(todo) = 1
  <2>1. StackTypes' /\ Idle'
    BY <1>2, EmptySeq DEF Ends, StackTypes, Idle
  <2>2. \A t \in Pending : t = todo[1]
    BY <1>2 DEF Pending
  <2>. QED
    BY <1>2, <2>1, <2>2
<1>3. CASE cmd' = cmd /\ result' = result /\ todo' \in Seq(Tasks) /\ todo' # << >>
  <2>1. StackTypes' /\ ~Idle'
    BY <1>1, <1>3, InvParts DEF StackTypes, Idle
  <2>2. Len(todo') \in Nat
    BY <1>3, LenProperties
  <2>3. ~Ends("ok")
    BY <1>3 DEF Ends
  <2>4. /\ Len(todo') = Len(tasks) + Len(todo) - 1
        /\ \A i \in 1 .. Len(tasks) : i \in 1 .. Len(todo') /\ todo'[i] = tasks[i]
        /\ \A i \in 2 .. Len(todo) : /\ Len(tasks) + i - 1 \in 1 .. Len(todo')
                                     /\ todo'[Len(tasks) + i - 1] = todo[i]
        /\ \A i \in 1 .. Len(todo') :
             \/ i \in 1 .. Len(tasks) /\ todo'[i] = tasks[i]
             \/ /\ i > Len(tasks) /\ i - Len(tasks) + 1 \in 2 .. Len(todo)
                /\ todo'[i] = todo[i - Len(tasks) + 1]
    BY <1>1, <2>3, ProceedFacts
  <2>5. ASSUME NEW t \in Pending'
        PROVE  t \in Pending \/ \E i \in 1 .. Len(tasks) : t = tasks[i]
    <3>1. \A i \in 2 .. Len(todo) : todo[i] \in Pending
      BY <1>1 DEF Pending
    <3>2. PICK i \in 1 .. Len(todo') : t = todo'[i]
      BY <2>5 DEF Pending
    <3>. QED
      BY <2>4, <3>1, <3>2
  <2>6. \A i \in 1 .. Len(tasks) : tasks[i] \in Pending'
    BY <2>4 DEF Pending
  <2>7. \A t \in Pending : t = todo[1] \/ t \in Pending'
    <3>1. \A i \in 2 .. Len(todo) : todo[i] \in Pending'
      BY <2>4 DEF Pending
    <3>2. \A i \in 1 .. Len(todo) : i = 1 \/ i \in 2 .. Len(todo)
      BY <1>1
    <3>. QED
      BY <3>1, <3>2 DEF Pending
  <2>. QED
    BY <1>3, <2>1, <2>2, <2>4, <2>5, <2>6, <2>7
<1>. QED
  BY <1>1, <1>2, <1>3, ProceedFacts

\* A call that fails ends the command and leaves the pool alone.
LEMMA CommandFails ==
  ASSUME TreeInv, ~Idle, NEW can, Fails(can), UNCHANGED zfsVars, UNCHANGED running, Ends("fail")
  PROVE  TreeInv' /\ (can => faults' > faults)
<1>1. faults' \in 0 .. MaxFaults /\ (can => faults' > faults)
  BY InvParts, DatasetTreeAssumption DEF Fails, StackTypes
<1>2. StackTypes' /\ Idle'
  BY <1>1, EmptySeq DEF Ends, StackTypes, Idle
<1>3. TreeCore'
  BY InvParts, SameTree DEF TreeCore, zfsVars, ZfsTypeOK
<1>. QED
  BY <1>1, <1>2, <1>3, InvPartsNext

(***************************************************************************)
(* What a step of a command has to be: it keeps the invariant and other    *)
(* environments, and is a step of BootEnvs; a command that ends with       *)
(* success has accomplished what it says.                                  *)
(***************************************************************************)
Kept ==
  \A d \in fs : EnvOf(d) # cmd.be \/ EnvOf(d) = running =>
    d \in fs' /\ (d \in mounted => d \in mounted')
Good(c) ==
  /\ TreeInv'
  /\ Kept
  /\ [BE!BENext]_BE!bevars
  /\ Returns("ok") => Accomplished(c)'

\* The environments are those whose top dataset exists.
LEMMA BEStays ==
  ASSUME UNCHANGED <<bootfs, running>>, \A e \in Envs : Top(e) \in fs' <=> Top(e) \in fs
  PROVE  [BE!BENext]_BE!bevars
BY DEF BE!bevars, Existing

\* A call that fails.
LEMMA FailGood ==
  ASSUME TreeInv, ~Idle, NEW can, Fails(can), UNCHANGED zfsVars, UNCHANGED running, Ends("fail"),
         NEW c
  PROVE  Good(c) /\ (can => faults' > faults)
<1>1. TreeInv' /\ (can => faults' > faults)
  BY CommandFails
<1>2. Kept /\ [BE!BENext]_BE!bevars
  BY BEStays DEF Kept, zfsVars
<1>3. ~Returns("ok")
  BY DEF Returns, Ends
<1>. QED
  BY <1>1, <1>2, <1>3 DEF Good

\* One new call, two, or three.
LEMMA SomeTasks ==
  ASSUME NEW a \in Tasks, NEW b \in Tasks, NEW e \in Tasks
  PROVE  /\ \E s \in Seq(Tasks) : s = <<a>> /\ \A i \in 1 .. Len(s) : s[i] = a
         /\ \E s \in Seq(Tasks) : s = <<a, b>> /\ \A i \in 1 .. Len(s) : s[i] \in {a, b}
         /\ \E s \in Seq(Tasks) : /\ s = <<a, b>> \o <<e>>
                                  /\ \A i \in 1 .. Len(s) : s[i] \in {a, b, e}
                                  /\ \E i \in 1 .. Len(s) : s[i] = b
<1>1. <<a>> \in Seq(Tasks) /\ Len(<<a>>) = 1 /\ <<a>>[1] = a
  OBVIOUS
<1>2. <<a, b>> \in Seq(Tasks) /\ Len(<<a, b>>) = 2 /\ <<a, b>>[1] = a /\ <<a, b>>[2] = b
  OBVIOUS
<1>3. <<e>> \in Seq(Tasks) /\ Len(<<e>>) = 1 /\ <<e>>[1] = e
  OBVIOUS
<1>4. PICK t \in Seq(Tasks) : t = <<a, b>>
  BY <1>2
<1>5. PICK u \in Seq(Tasks) : u = <<e>>
  BY <1>3
<1>6. /\ t \o u \in Seq(Tasks) /\ Len(t \o u) = 3
      /\ (t \o u)[1] = a /\ (t \o u)[2] = b /\ (t \o u)[3] = e
  BY <1>2, <1>3, <1>4, <1>5, ConcatProperties
<1>7. PICK s \in Seq(Tasks) : s = t \o u
  BY <1>6
<1>8. \A i \in 1 .. Len(s) : i = 1 \/ i = 2 \/ i = 3
  BY <1>6, <1>7
<1>9. (\A i \in 1 .. Len(s) : s[i] \in {a, b, e}) /\ 2 \in 1 .. Len(s) /\ s[2] = b
  <2>1. Len(s) = 3 /\ s[1] = a /\ s[2] = b /\ s[3] = e
    BY <1>6, <1>7
  <2>2. 2 \in 1 .. Len(s)
    BY <2>1
  <2>. QED
    BY <1>8, <2>1, <2>2
<1>10. PICK v \in Seq(Tasks) : v = <<a>>
  BY <1>1
<1>11. \A i \in 1 .. Len(v) : v[i] = a
  BY <1>1, <1>10
<1>12. \A i \in 1 .. Len(t) : t[i] \in {a, b}
  BY <1>2, <1>4
<1>. QED
  BY <1>4, <1>5, <1>7, <1>9, <1>10, <1>11, <1>12

\* With no new calls.
LEMMA NoTasks == << >> \in Seq(Tasks) /\ Len(<< >>) = 0 /\ \A i \in 1 .. Len(<< >>) : FALSE
<1>1. Len(<< >>) = 0
  BY EmptySeq
<1>. QED
  BY <1>1, EmptySeq

\* activate, call by call.
LEMMA ActivateStep ==
  ASSUME TreeInv, ~Idle, cmd.op = "activate", SetActive \/ PromoteClones, UNCHANGED running,
         NEW c, c = cmd
  PROVE  Good(c)
<1>1. /\ c \in Commands /\ This \in Datasets /\ Fits(todo[1]) /\ TreeCore /\ StackOK
      /\ todo[1] \in Pending /\ \A t \in Pending : t \in Tasks
  BY FirstCall
<1>2. c.be \in Envs /\ c.op = "activate"
  BY <1>1, CommandFields
<1>3. faults \in 0 .. MaxFaults
  BY InvParts DEF StackTypes
\* What is left when the activated environment is another or the same.
<1>4. ASSUME NEW tasks \in Seq(Tasks), \A i \in 1 .. Len(tasks) : tasks[i].call = "promote",
             Proceed(tasks), UNCHANGED <<fs, mounted, tmpmp, faults>>, ZfsTypeOK',
             \/ bootfs' = bootfs /\ todo[1].call # "set_bootfs"
             \/ bootfs' = <<c.be>> /\ Existing(c.be)
      PROVE  TreeInv' /\ (Idle' => bootfs' = <<c.be>>)
  <2>1. TreeCore'
    BY <1>1, <1>2, <1>4, SameTree
  <2>2. StackTypes'
    BY <1>3, <1>4, StackProceeds
  <2>3. \/ bootfs' = <<c.be>>
        \/ bootfs' = bootfs /\ ~Idle' /\ \E t \in Pending' : t.call = "set_bootfs"
    BY <1>1, <1>2, <1>3, <1>4, StackProceeds DEF StackOK, ActivateRest, IsActive
  <2>4. ASSUME ~Idle' PROVE StackOK'
    <3>1. cmd' = c
      BY <1>3, <1>4, <2>4, StackProceeds
    <3>2. ASSUME NEW t \in Pending' PROVE Fits(t)'
      <4>1. t \in Pending \/ t.call = "promote"
        BY <1>3, <1>4, <2>4, StackProceeds
      <4>2. t \in Pending => Fits(t)
        BY <1>1 DEF StackOK
      <4>. QED
        BY <1>2, <1>4, <3>1, <4>1, <4>2 DEF Fits, Existing
    <3>3. ActivateRest'
      BY <2>3, <2>4, <3>1, <1>1, <1>2 DEF StackOK, ActivateRest, IsActive
    <3>. QED
      BY <1>2, <3>1, <3>2, <3>3 DEF StackOK
  <2>. QED
    BY <2>1, <2>2, <2>3, <2>4, InvPartsNext
<1>5. CASE SetActive
  <2>0. todo[1].call = "set_bootfs"
    BY <1>5 DEF SetActive, At
  <2>1. This = Top(c.be) /\ Existing(c.be) /\ This[2] = <<c.be>> /\ <<c.be>> \in Names
    <3>1. todo[1].ds = Top(cmd.be) /\ Existing(cmd.be)
      BY <1>1, <2>0 DEF Fits
    <3>2. This = Top(c.be) /\ Existing(c.be)
      BY <3>1 DEF This
    <3>3. <<c.be>> \in Names
      BY <1>2, TopFacts
    <3>4. Top(c.be)[2] = <<c.be>>
      BY DEF Top, Root
    <3>. QED
      BY <3>2, <3>3, <3>4
  <2>2. CASE SetBootfs(<<c.be>>) /\ Proceed(<< >>) /\ UNCHANGED faults
    <3>1. ZfsTypeOK'
      BY <1>1, <2>1, <2>2, SetBootfsType DEF TreeCore
    <3>2. TreeInv'
      <4>1. PICK tasks \in Seq(Tasks) : tasks = << >> /\ \A i \in 1 .. Len(tasks) : tasks[i].call = "promote"
        BY NoTasks
      <4>2. UNCHANGED <<fs, mounted, tmpmp, faults>> /\ bootfs' = <<c.be>> /\ Proceed(tasks)
        BY <2>2, <4>1 DEF SetBootfs
      <4>. QED
        BY <1>4, <2>1, <3>1, <4>1, <4>2
    <3>3. Kept
      BY <2>2 DEF Kept, SetBootfs
    <3>4. BE!ActivateBE(c.be)
      BY <1>2, <2>1, <2>2 DEF BE!ActivateBE, SetBootfs, Existing
    <3>5. Accomplished(c)'
      BY <1>2, <2>2 DEF Accomplished, SetBootfs
    <3>. QED
      BY <1>2, <3>2, <3>3, <3>4, <3>5 DEF Good, BE!BENext
  <2>3. CASE Fails(CanSetBootfs(<<c.be>>)) /\ UNCHANGED zfsVars /\ Ends("fail")
    BY <2>3, FailGood
  <2>. QED
    BY <1>5, <2>1, <2>2, <2>3 DEF SetActive, Call
<1>6. CASE PromoteClones
  <2>1. todo[1].call = "promote"
    BY <1>6 DEF PromoteClones, At
  <2>2. ASSUME NEW tasks \in Seq(Tasks), \A i \in 1 .. Len(tasks) : tasks[i].call = "promote",
               Proceed(tasks), UNCHANGED <<fs, mounted, tmpmp, bootfs, faults>>, ZfsTypeOK'
        PROVE  Good(c)
    <3>1. TreeInv' /\ (Idle' => bootfs' = <<c.be>>)
      BY <1>4, <2>1, <2>2
    <3>2. Kept /\ [BE!BENext]_BE!bevars
      BY <2>2, BEStays DEF Kept
    <3>3. Returns("ok") => Accomplished(c)'
      BY <1>2, <3>1 DEF Returns, Idle, Accomplished
    <3>. QED
      BY <3>1, <3>2, <3>3 DEF Good
  <2>3. CASE origin[This] = NoSnap
    <3>1. Proceed(<< >>) /\ UNCHANGED <<zfsVars, faults>>
      BY <1>6, <2>3 DEF PromoteClones
    <3>2. PICK tasks \in Seq(Tasks) : tasks = << >> /\ \A i \in 1 .. Len(tasks) : tasks[i].call = "promote"
      BY NoTasks
    <3>3. ZfsTypeOK'
      BY <1>1, <3>1 DEF TreeCore, ZfsTypeOK, zfsVars
    <3>. QED
      BY <2>2, <3>1, <3>2, <3>3 DEF zfsVars
  <2>4. CASE origin[This] # NoSnap
    <3>1. PICK calls \in EachChild("promote", This) : Call(CanPromote(This), Promote(This), calls)
      BY <1>6, <2>4 DEF PromoteClones
    <3>2. calls \in Seq(Tasks) /\ \A i \in 1 .. Len(calls) : calls[i].call = "promote"
      <4>1. fs \subseteq Datasets /\ IsFiniteSet(fs) /\ "promote" \in Calls
        BY <1>1, CoreTypes DEF TreeCore, Calls
      <4>2. calls \in Seq(Tasks) /\ \A i \in 1 .. Len(calls) : calls[i] = Task("promote", calls[i].ds)
        BY <4>1, EachChildFacts
      <4>3. \A d : Task("promote", d).call = "promote"
        BY DEF Task
      <4>. QED
        BY <4>2, <4>3
    <3>3. CASE CanPromote(This) /\ Promote(This) /\ Proceed(calls) /\ UNCHANGED faults
      <4>1. ZfsTypeOK'
        BY <1>1, <3>3, PromoteType DEF TreeCore
      <4>. QED
        BY <2>2, <3>2, <3>3, <4>1 DEF Promote
    <3>4. CASE Fails(CanPromote(This)) /\ UNCHANGED zfsVars /\ Ends("fail")
      BY <3>4, FailGood
    <3>. QED
      BY <3>1, <3>3, <3>4 DEF Call
  <2>. QED
    BY <2>3, <2>4
<1>. QED
  BY <1>5, <1>6

\* The dataset a new environment is cloned from is the top of an environment.
LEMMA SourceFacts ==
  ASSUME TreeCore, NEW c \in Commands, c.op = "create"
  PROVE  \E e \in Envs : /\ Source(c) = Top(e)
                         /\ e = IF c.from = NoName THEN bootfs[1] ELSE c.from
<1>1. CASE c.from = NoName
  <2>1. PICK e \in Envs : bootfs = <<e>>
    BY DEF TreeCore, Protected
  <2>2. Source(c) = Top(e) /\ bootfs[1] = e
    BY <1>1, <2>1 DEF Source, Top
  <2>. QED
    BY <1>1, <2>2
<1>2. CASE c.from # NoName
  BY <1>2, CommandFields DEF Source
<1>. QED
  BY <1>1, <1>2

\* A call of create that is done: the clones of child datasets come next.
LEMMA CreateProceeds ==
  ASSUME TreeInv, ~Idle, cmd.op = "create", NEW tasks \in Seq(Tasks), Proceed(tasks),
         \A i \in 1 .. Len(tasks) : /\ tasks[i].call = "clone" /\ tasks[i].snap \in Suffixes
                                    /\ PathOf(tasks[i].ds) # << >>,
         TreeCore', UNCHANGED <<bootfs, faults>>
  PROVE  TreeInv' /\ (Idle' => Ends("ok") /\ tasks = << >> /\ todo[1].call = "clone")
<1>1. /\ cmd \in Commands /\ TreeCore /\ StackOK /\ Len(todo) \in Nat /\ Len(todo) >= 1
      /\ Len(tasks) \in Nat
  BY FirstCall, LenProperties
<1>2. faults' \in 0 .. MaxFaults
  BY InvParts DEF StackTypes
<1>3. StackTypes'
  BY <1>2, StackProceeds
<1>4. Idle' => Ends("ok") /\ tasks = << >> /\ todo[1].call = "clone"
  <2>1. Idle' => Ends("ok") /\ tasks = << >> /\ Len(todo) = 1
    BY <1>2, StackProceeds
  <2>2. todo[Len(todo)].call = "clone"
    BY <1>1 DEF StackOK, CreateRest
  <2>. QED
    BY <2>1, <2>2
<1>5. ASSUME ~Idle' PROVE StackOK'
  <2>1. cmd' = cmd /\ Len(todo') \in Nat /\ Len(todo') = Len(tasks) + Len(todo) - 1
    BY <1>2, <1>5, StackProceeds
  <2>2. ASSUME NEW t \in Pending' PROVE Fits(t)'
    <3>1. \/ t \in Pending
          \/ t.call = "clone" /\ t.snap \in Suffixes /\ PathOf(t.ds) # << >>
      BY <1>2, <1>5, StackProceeds
    <3>2. t \in Pending => Fits(t)
      BY <1>1 DEF StackOK
    <3>3. t \in Pending => /\ t.call \in {"snap", "snap_tree", "clone"} /\ t.snap \in Suffixes
                           /\ t.call = "clone" /\ PathOf(t.ds) = << >> => t.ds = Source(cmd)
      BY <3>2 DEF Fits
    <3>4. Source(cmd)' = Source(cmd)
      BY <2>1 DEF Source
    <3>. QED
      BY <2>1, <3>1, <3>3, <3>4 DEF Fits
  <2>3. CreateRest'
    <3>1. CASE Len(todo) >= 2
      <4>1. Len(todo) \in 2 .. Len(todo)
        BY <1>1, <3>1
      <4>2. todo'[Len(tasks) + Len(todo) - 1] = todo[Len(todo)]
        BY <1>2, <1>5, <4>1, StackProceeds
      <4>. QED
        BY <1>1, <2>1, <4>2 DEF StackOK, CreateRest
    <3>2. CASE Len(todo) = 1
      <4>1. Len(todo') = Len(tasks) /\ Len(todo') >= 1
        <5>1. todo' # << >> /\ todo' \in Seq(Tasks)
          BY <1>3, <1>5 DEF StackTypes, Idle
        <5>. QED
          BY <1>1, <2>1, <3>2, <5>1, EmptySeq
      <4>2. Len(tasks) \in 1 .. Len(tasks)
        BY <1>1, <4>1
      <4>3. todo'[Len(tasks)] = tasks[Len(tasks)]
        BY <1>2, <1>5, <4>2, StackProceeds
      <4>4. tasks[Len(tasks)].call = "clone"
        BY <4>2
      <4>5. todo'[Len(todo')].call = "clone"
        BY <4>1, <4>3, <4>4
      <4>. QED
        BY <4>5 DEF CreateRest
    <3>3. ASSUME NEW l \in Nat, l >= 1 PROVE l >= 2 \/ l = 1
      BY <3>3
    <3>4. Len(todo) >= 2 \/ Len(todo) = 1
      BY <1>1, <3>3
    <3>. QED
      BY <3>1, <3>2, <3>4
  <2>. QED
    BY <2>1, <2>2, <2>3 DEF StackOK
<1>. QED
  BY <1>3, <1>4, <1>5, InvPartsNext

\* The snapshots create makes of its source.
LEMMA CreateSnapshots ==
  ASSUME TreeInv, ~Idle, cmd.op = "create", TakeSnapshot, UNCHANGED running, NEW c, c = cmd
  PROVE  Good(c)
<1>1. TreeCore /\ Fits(todo[1]) /\ ZfsTypeOK
  BY FirstCall DEF TreeCore
<1>2. todo[1].snap \in Suffixes
  BY <1>1 DEF Fits
<1>3. todo[1].call # "clone"
  BY DEF TakeSnapshot, At
<1>4. ASSUME ZfsTypeOK', UNCHANGED <<fs, mounted, tmpmp, bootfs, faults>>, Proceed(<< >>)
      PROVE  Good(c)
  <2>1. TreeCore'
    BY <1>1, <1>4, SameTree
  <2>2. PICK tasks \in Seq(Tasks) : tasks = << >> /\ \A i \in 1 .. Len(tasks) : FALSE
    BY NoTasks
  <2>3. Proceed(tasks)
    BY <1>4, <2>2
  <2>4. TreeInv' /\ ~Idle'
    BY <1>3, <1>4, <2>1, <2>2, <2>3, CreateProceeds
  <2>5. Kept /\ [BE!BENext]_BE!bevars
    BY <1>4, BEStays DEF Kept
  <2>. QED
    BY <2>4, <2>5 DEF Good, Returns, Idle
<1>5. ASSUME NEW can, Fails(can), UNCHANGED zfsVars, Ends("fail") PROVE Good(c)
  BY <1>5, FailGood
<1>6. CASE CanSnapshot(This, todo[1].snap) /\ Snapshot(This, todo[1].snap) /\ Proceed(<< >>)
           /\ UNCHANGED faults
  <2>1. ZfsTypeOK'
    BY <1>1, <1>2, <1>6, SnapshotType
  <2>. QED
    BY <1>4, <1>6, <2>1 DEF Snapshot
<1>7. CASE SnapshotTree(This, todo[1].snap) /\ Proceed(<< >>) /\ UNCHANGED faults
  <2>1. ZfsTypeOK'
    BY <1>1, <1>2, <1>7, SnapshotTreeType
  <2>. QED
    BY <1>4, <1>7, <2>1 DEF SnapshotTree
<1>. QED
  BY <1>5, <1>6, <1>7 DEF TakeSnapshot, Call

CallsWith(order, s) == [i \in DOMAIN order |-> [order[i] EXCEPT !.snap = s]]

\* The calls for the clones of child datasets.
LEMMA CloneCalls ==
  ASSUME fs \subseteq Datasets, IsFiniteSet(fs), NEW d \in Datasets, NEW s \in Suffixes,
         NEW r, NEW order \in IF r THEN EachChild("clone", d) ELSE {<< >>},
         NEW calls, calls = CallsWith(order, s)
  PROVE  /\ calls \in Seq(Tasks)
         /\ \A i \in 1 .. Len(calls) : /\ calls[i].call = "clone" /\ calls[i].snap \in Suffixes
                                       /\ PathOf(calls[i].ds) # << >>
         /\ r /\ calls = << >> => Children(d) = {}
<1>1. /\ order \in Seq(Tasks) /\ Len(order) \in Nat
      /\ \A i \in 1 .. Len(order) : order[i].ds \in Children(d) /\ order[i] = Task("clone", order[i].ds)
      /\ r /\ order = << >> => Children(d) = {}
  <2>1. CASE r
    <3>1. "clone" \in Calls
      BY DEF Calls
    <3>2. order \in EachChild("clone", d)
      BY <2>1
    <3>. QED
      BY <3>1, <3>2, EachChildFacts
  <2>2. CASE ~r
    <3>1. order = << >>
      BY <2>2
    <3>. QED
      BY <2>2, <3>1, NoTasks
  <2>. QED
    BY <2>1, <2>2
<1>2. DOMAIN order = 1 .. Len(order)
  BY <1>1, LenProperties
<1>3. ASSUME NEW i \in 1 .. Len(order)
      PROVE  /\ calls[i] \in Tasks /\ calls[i].call = "clone" /\ calls[i].snap = s
             /\ calls[i].ds \in Children(d)
  <2>1. order[i] = Task("clone", order[i].ds) /\ order[i].ds \in Children(d)
    BY <1>1
  <2>2. PICK x : x = order[i].ds
    OBVIOUS
  <2>3. calls[i] = [Task("clone", x) EXCEPT !.snap = s]
    BY <1>2, <2>1, <2>2 DEF CallsWith
  <2>4. calls[i] = SnapTask("clone", x, s)
    BY <2>3 DEF Task, SnapTask
  <2>5. x \in Children(d) /\ x \in Datasets
    BY <2>1, <2>2 DEF Children, Below
  <2>6. "clone" \in Calls
    BY DEF Calls
  <2>7. /\ SnapTask("clone", x, s) \in Tasks /\ SnapTask("clone", x, s).call = "clone"
        /\ SnapTask("clone", x, s).snap = s /\ SnapTask("clone", x, s).ds = x
    BY <2>5, <2>6, TaskFacts DEF SnapTask
  <2>. QED
    BY <2>4, <2>5, <2>7
<1>4. calls \in Seq(Tasks) /\ Len(calls) = Len(order)
  <2>1. calls \in [1 .. Len(order) -> Tasks]
    BY <1>2, <1>3 DEF CallsWith
  <2>2. \A n \in Nat : \A f \in [1 .. n -> Tasks] : f \in Seq(Tasks) /\ Len(f) = n
    OBVIOUS
  <2>. QED
    BY <1>1, <2>1, <2>2
<1>5. r /\ calls = << >> => Children(d) = {}
  <2>1. ASSUME calls = << >> PROVE order = << >>
    <3>1. Len(order) = 0
      BY <1>4, <2>1, EmptySeq
    <3>. QED
      BY <1>1, <3>1, EmptySeq
  <2>. QED
    BY <1>1, <2>1
<1>6. \A x \in Children(d) : PathOf(x) # << >>
  BY ChildFacts
<1>7. \A i \in 1 .. Len(calls) : /\ calls[i].call = "clone" /\ calls[i].snap \in Suffixes
                                 /\ PathOf(calls[i].ds) # << >>
  BY <1>3, <1>4, <1>6
<1>. QED
  BY <1>4, <1>5, <1>7

\* The clones create makes: one, of the top dataset, as the names of the
\* others are refused.
LEMMA CreateClones ==
  ASSUME TreeInv, ~Idle, cmd.op = "create", CloneTree, UNCHANGED running, NEW c, c = cmd
  PROVE  Good(c)
<1>1. /\ c \in Commands /\ TreeCore /\ Fits(todo[1]) /\ ZfsTypeOK /\ This \in Datasets
      /\ fs \subseteq Datasets /\ IsFiniteSet(fs)
  BY FirstCall, CoreTypes DEF TreeCore
<1>2. todo[1].call = "clone"
  BY DEF CloneTree, At
<1>3. todo[1].snap \in Suffixes /\ (PathOf(This) = << >> => This = Source(c))
  BY <1>1, <1>2 DEF Fits, This
<1>4. c.be \in Envs
  BY <1>1, CommandFields
<1> DEFINE n == CloneName(c.be, PathOf(This))
           s == todo[1].snap
           d == Top(c.be)
<1>5. PICK order \in IF c.recursive THEN EachChild("clone", This) ELSE {<< >>} :
        Call(n \in Names /\ CanClone(Root(n), This, s), Clone(Root(n), This, s), CallsWith(order, s))
  BY DEF CloneTree, CallsWith
<1>6. PICK tasks : tasks = CallsWith(order, s)
  OBVIOUS
<1>7. /\ tasks \in Seq(Tasks)
      /\ \A i \in 1 .. Len(tasks) : /\ tasks[i].call = "clone" /\ tasks[i].snap \in Suffixes
                                    /\ PathOf(tasks[i].ds) # << >>
      /\ c.recursive /\ tasks = << >> => Children(This) = {}
  <2>1. order \in IF c.recursive THEN EachChild("clone", This) ELSE {<< >>}
    BY <1>5
  <2>. QED
    BY <1>1, <1>3, <1>6, <2>1, CloneCalls
<1>8. CASE Fails(n \in Names /\ CanClone(Root(n), This, s)) /\ UNCHANGED zfsVars /\ Ends("fail")
  BY <1>8, FailGood
<1>9. CASE /\ n \in Names /\ CanClone(Root(n), This, s) /\ Clone(Root(n), This, s)
           /\ Proceed(tasks) /\ UNCHANGED faults
  <2>1. PathOf(This) = << >> /\ n = <<c.be>>
    BY <1>9, ZfsAssumption DEF CloneName
  <2>2. This = Source(c) /\ Root(n) = d
    BY <1>3, <2>1 DEF Top
  <2>3. d \in Datasets /\ d \notin fs /\ This \in fs /\ Len(d[2]) = 1 /\ EnvOf(d) = c.be
    BY <1>4, <1>9, <2>2, TopFacts DEF CanClone
  <2>4. fs' = fs \cup {d} /\ UNCHANGED <<mounted, tmpmp, bootfs>>
    BY <1>9, <2>2 DEF Clone
  <2>5. ZfsTypeOK'
    BY <1>1, <1>9, <2>2, <2>3, CloneType
  <2>6. c.be # running
    BY <1>1, <2>3 DEF TreeCore, Protected, Existing
  <2>7. TreeCore'
    BY <1>1, <2>3, <2>4, <2>5, <2>6, TreeGrows
  <2>8. TreeInv' /\ (Idle' => Ends("ok") /\ tasks = << >>)
    BY <1>7, <1>9, <2>4, <2>7, CreateProceeds
  <2>9. Kept
    BY <2>4 DEF Kept
  <2>10. BE!CreateBE(c.be)
    <3>1. \A e \in Envs : Top(e) \in fs' <=> Top(e) \in fs \/ e = c.be
      BY <1>4, <2>4, <2>3, TopFacts
    <3>2. c.be \in Envs \ {e \in Envs : Existing(e)}
      BY <1>4, <2>3 DEF Existing
    <3>3. {e \in Envs : Top(e) \in fs'} = {e \in Envs : Top(e) \in fs} \cup {c.be}
      BY <1>4, <3>1
    <3>. QED
      BY <2>4, <3>2, <3>3 DEF BE!CreateBE, Existing
  <2>11. ASSUME Idle' PROVE Accomplished(c)'
    <3>1. \A x \in Tree(c.be) \cap fs' : x = d
      <4>1. SUFFICES ASSUME NEW x \in Datasets, EnvOf(x) = c.be, x \in fs PROVE FALSE
        BY <1>4, <2>4, TreeIs
      <4>2. Covers(d, x)
        BY <4>1, CoversOrder
      <4>. QED
        BY <1>1, <2>3, <4>1, <4>2, AboveExists DEF TreeCore
    <3>2. {PathOf(x) : x \in Tree(c.be) \cap fs'} = {<< >>}
      <4>1. d \in Tree(c.be) \cap fs' /\ PathOf(d) = << >>
        BY <1>4, <2>3, <2>4, TreeIs, TopFacts
      <4>. QED
        BY <3>1, <4>1
    <3>3. CASE ~c.recursive
      BY <3>2, <3>3 DEF Accomplished
    <3>4. CASE c.recursive
      <4>1. PICK e \in Envs : /\ This = Top(e) /\ e = IF c.from = NoName THEN bootfs[1] ELSE c.from
        BY <1>1, <2>2, SourceFacts
      <4>2. \A x \in Tree(e) \cap fs : x = Top(e)
        <5>1. SUFFICES ASSUME NEW x \in Datasets, EnvOf(x) = e, x \in fs, x # Top(e) PROVE FALSE
          BY TreeIs
        <5>2. Covers(Top(e), x)
          BY <5>1, CoversOrder
        <5>3. \E y \in Children(Top(e)) : Covers(y, x)
          BY <1>1, <4>1, <5>1, <5>2, ChildOnTheWay DEF TreeCore
        <5>. QED
          BY <1>7, <2>8, <2>11, <3>4, <4>1, <5>3
      <4>3. \A x \in Tree(e) \cap fs' : PathOf(x) = << >>
        BY <2>4, <3>1, <4>2, TopFacts, <1>4
      <4>4. Top(e) \in Tree(e) \cap fs' /\ PathOf(Top(e)) = << >>
        BY <2>3, <2>4, <4>1, TreeIs, TopFacts
      <4>5. {PathOf(x) : x \in Tree(e) \cap fs'} = {<< >>}
        BY <4>3, <4>4
      <4>. QED
        BY <2>4, <3>2, <3>4, <4>1, <4>5 DEF Accomplished
    <3>. QED
      BY <3>3, <3>4
  <2>. QED
    BY <1>4, <2>8, <2>9, <2>10, <2>11 DEF Good, BE!BENext, Returns, Idle
<1>. QED
  BY <1>5, <1>6, <1>8, <1>9 DEF Call

\* A snapshot is in the list it was appended to.
LEMMA SnapshotMade ==
  ASSUME ZfsTypeOK, NEW d, NEW s \in Suffixes, SnapshotTree(d, s),
         NEW x \in Datasets, x \in {d} \cup Below(d)
  PROVE  s \in SnapsOf(x)'
<1>1. snaps[x] \in Seq(Suffixes) /\ snaps'[x] = Append(snaps[x], s)
  BY DEF ZfsTypeOK, SnapshotTree
<1>2. PICK l : l = snaps[x]
  OBVIOUS
<1>3. PICK n : n = snaps'[x]
  OBVIOUS
<1>4. Len(l) \in Nat /\ Len(n) = Len(l) + 1 /\ n[Len(l) + 1] = s
  BY <1>1, <1>2, <1>3, AppendProperties, LenProperties
<1>5. Len(l) + 1 \in 1 .. Len(n)
  BY <1>4
<1>6. \E i \in 1 .. Len(n) : n[i] = s
  BY <1>4, <1>5
<1>. QED
  BY <1>3, <1>6 DEF SnapsOf

\* snapshot: one call.
LEMMA SnapshotStep ==
  ASSUME TreeInv, ~Idle, cmd.op = "snapshot", TakeSnapshot, UNCHANGED running, NEW c, c = cmd
  PROVE  Good(c)
<1>1. /\ c \in Commands /\ TreeCore /\ StackOK /\ ZfsTypeOK /\ This \in Datasets /\ Fits(todo[1])
      /\ c.op = "snapshot" /\ fs \subseteq Datasets
  BY FirstCall, CoreTypes DEF TreeCore
<1>2. c.be \in Envs /\ c.suffix \in Suffixes
  BY <1>1, CommandFields
<1>3. todo[1].call = "snap_tree" /\ This = Top(c.be) /\ todo[1].snap = c.suffix
  <2>1. todo[1] = SnapTask("snap_tree", Top(c.be), c.suffix)
    BY <1>1 DEF Fits
  <2>. QED
    BY <2>1 DEF SnapTask, This
<1>4. \/ SnapshotTree(Top(c.be), c.suffix) /\ Proceed(<< >>) /\ UNCHANGED faults
      \/ /\ Fails(CanSnapshotTree(Top(c.be), c.suffix)) /\ UNCHANGED zfsVars /\ Ends("fail")
  <2>1. ~At("snap")
    BY <1>3 DEF At
  <2>2. Call(CanSnapshotTree(This, todo[1].snap), SnapshotTree(This, todo[1].snap), << >>)
    BY <2>1 DEF TakeSnapshot
  <2>. QED
    BY <1>3, <2>2 DEF Call
<1>5. CASE SnapshotTree(Top(c.be), c.suffix) /\ Proceed(<< >>) /\ UNCHANGED faults
  <2>1. ZfsTypeOK'
    BY <1>1, <1>2, <1>5, SnapshotTreeType
  <2>2. UNCHANGED <<fs, mounted, tmpmp, bootfs, running, faults>>
    BY <1>5 DEF SnapshotTree
  <2>3. TreeCore'
    BY <1>1, <2>1, <2>2, SameTree
  <2>4. PICK tasks \in Seq(Tasks) : tasks = << >> /\ \A i \in 1 .. Len(tasks) : FALSE
    BY NoTasks
  <2>5. faults' \in 0 .. MaxFaults /\ Proceed(tasks)
    BY <1>5, <2>2, <2>4, InvParts DEF StackTypes
  <2>6. StackTypes'
    BY <2>5, StackProceeds
  <2>7. ASSUME ~Idle' PROVE StackOK'
    <3>1. cmd' = c /\ \A t \in Pending' : t \in Pending
      BY <2>4, <2>5, <2>7, StackProceeds
    <3>2. \A t \in Pending : Fits(t)
      BY <1>1 DEF StackOK
    <3>3. ASSUME NEW t \in Pending' PROVE Fits(t)'
      BY <1>1, <3>1, <3>2, <3>3 DEF Fits
    <3>. QED
      BY <1>1, <3>1, <3>3 DEF StackOK
  <2>8. TreeInv'
    BY <2>3, <2>6, <2>7, InvPartsNext
  <2>9. Kept /\ [BE!BENext]_BE!bevars
    BY <2>2, BEStays DEF Kept
  <2>10. Accomplished(c)'
    <3>1. SUFFICES ASSUME NEW x \in Datasets, EnvOf(x) = c.be, x \in fs
                   PROVE  c.suffix \in SnapsOf(x)'
      BY <1>1, <1>2, <2>2, TreeIs DEF Accomplished
    <3>2. Covers(Top(c.be), x)
      BY <3>1, CoversOrder
    <3>3. x \in {Top(c.be)} \cup Below(Top(c.be))
      BY <3>1, <3>2 DEF Below, Covers
    <3>. QED
      BY <1>1, <1>2, <1>5, <3>3, SnapshotMade
  <2>. QED
    BY <2>8, <2>9, <2>10 DEF Good
<1>6. CASE /\ Fails(CanSnapshotTree(Top(c.be), c.suffix)) /\ UNCHANGED zfsVars /\ Ends("fail")
  BY <1>6, FailGood
<1>. QED
  BY <1>4, <1>5, <1>6

\* rename: one call.
LEMMA RenameStep ==
  ASSUME TreeInv, ~Idle, cmd.op = "rename", RenameBE, UNCHANGED running, NEW c, c = cmd
  PROVE  Good(c)
<1>1. /\ c \in Commands /\ TreeCore /\ ZfsTypeOK /\ Fits(todo[1])
      /\ c.op = "rename" /\ fs \subseteq Datasets /\ mounted \subseteq fs
  BY FirstCall, CoreTypes DEF TreeCore
<1>2. c.be \in Envs /\ c.to \in Envs
  BY <1>1, CommandFields
<1>3. Len(todo) = 1 /\ MayRename(c.be, c.to)
  BY <1>1 DEF Fits
<1>4. \/ RenameTree(c.be, c.to) /\ Proceed(<< >>) /\ UNCHANGED faults
      \/ Fails(TRUE) /\ UNCHANGED zfsVars /\ Ends("fail")
  BY DEF RenameBE, Call
<1>5. CASE RenameTree(c.be, c.to) /\ Proceed(<< >>) /\ UNCHANGED faults
  <2>1. TreeCore'
    BY <1>1, <1>2, <1>3, <1>5, TreeRenamed
  <2>2. /\ c.be # c.to /\ c.to # running /\ mounted' = mounted
        /\ \A x \in Datasets : x \in fs' <=> \/ EnvOf(x) \notin {c.be, c.to} /\ x \in fs
                                             \/ \E y \in fs : EnvOf(y) = c.be /\ x = Moved(y, c.be, c.to)
        /\ \A x \in fs : EnvOf(x) # c.to
        /\ \A x \in mounted : EnvOf(x) # c.be
    BY <1>1, <1>2, <1>3, <1>5, RenamedTree
  <2>3. TreeInv' /\ Idle'
    <3>1. PICK tasks \in Seq(Tasks) : tasks = << >> /\ Len(tasks) = 0
      BY NoTasks
    <3>2. faults' \in 0 .. MaxFaults /\ Proceed(tasks)
      BY <1>5, <3>1, InvParts DEF StackTypes
    <3>3. StackTypes'
      BY <3>2, StackProceeds
    <3>4. Idle'
      <4>1. SUFFICES ASSUME ~Idle' PROVE FALSE
        OBVIOUS
      <4>2. Len(todo') = Len(tasks) + Len(todo) - 1
        BY <3>2, <4>1, StackProceeds
      <4>3. Len(todo') = 0
        BY <1>3, <3>1, <4>2
      <4>4. todo' \in Seq(Tasks) /\ todo' # << >>
        BY <3>3, <4>1 DEF StackTypes, Idle
      <4>. QED
        BY <4>3, <4>4, EmptySeq
    <3>. QED
      BY <2>1, <3>3, <3>4, InvPartsNext
  <2>4. Kept
    <3>1. SUFFICES ASSUME NEW x \in fs, EnvOf(x) # c.be \/ EnvOf(x) = running PROVE x \in fs'
      BY <2>2 DEF Kept
    <3>2. c.be # running
      BY <1>3 DEF MayRename, IsRoot
    <3>. QED
      BY <1>1, <2>2, <3>1, <3>2
  <2>5. ASSUME NEW y \in fs, EnvOf(y) = c.be
        PROVE  EnvOf(Moved(y, c.be, c.to)) = c.to
    <3>1. y \in Datasets
      BY <1>1, <2>5
    <3>2. PathOf(y) \in Paths /\ Moved(y, c.be, c.to) = Root(<<c.to>> \o PathOf(y))
      BY <2>5, <3>1, DatasetIs DEF Moved
    <3>. QED
      BY <1>2, <3>2, DatasetOf
  <2>6. Top(c.to) \in fs' /\ Top(c.be) \in fs
    <3>1. Top(c.be) \in fs
      BY <1>3 DEF MayRename, Existing
    <3>2. Top(c.to) \in Datasets /\ EnvOf(Top(c.be)) = c.be
      BY <1>2, TopFacts
    <3>3. Moved(Top(c.be), c.be, c.to) = Top(c.to)
      <4>1. Moved(Top(c.be), c.be, c.to) = Root(<<c.to>> \o << >>)
        BY <1>2, TopFacts DEF Moved
      <4>. QED
        BY <1>2, <4>1, TopFacts
    <3>. QED
      BY <2>2, <3>1, <3>2, <3>3
  <2>7. \A x \in fs' : EnvOf(x) # c.be
    <3>1. fs' \subseteq Datasets
      BY <2>1 DEF TreeCore, ZfsTypeOK
    <3>. QED
      BY <2>2, <2>5, <3>1
  <2>8. Accomplished(c)'
    <3>1. Tree(c.be) \cap fs' = {}
      BY <1>2, <2>7, TreeIs
    <3>. QED
      BY <1>1, <2>6, <3>1 DEF Accomplished
  <2>9. BE!RenameTo(c.be, c.to)
    <3>1. \A e \in Envs : Top(e) \in fs' <=> (Top(e) \in fs /\ e # c.be) \/ e = c.to
      <4>1. SUFFICES ASSUME NEW e \in Envs, e # c.to, e # c.be PROVE Top(e) \in fs' <=> Top(e) \in fs
        BY <1>2, <2>2, <2>6, <2>7, TopFacts
      <4>2. Top(e) \in Datasets /\ EnvOf(Top(e)) = e
        BY <4>1, TopFacts
      <4>. QED
        BY <2>2, <2>5, <4>1, <4>2
    <3>2. bootfs' = bootfs /\ bootfs[1] # c.be /\ c.be # running
      <4>1. PICK e \in Envs : bootfs = <<e>>
        BY <1>1 DEF TreeCore, Protected
      <4>. QED
        BY <1>3, <1>5, <4>1 DEF MayRename, IsActive, IsRoot, RenameTree
    <3>3. c.to \in Envs \ {e \in Envs : Existing(e)}
      BY <1>2, <1>3 DEF MayRename
    <3>4. {e \in Envs : Top(e) \in fs'} = ({e \in Envs : Top(e) \in fs} \ {c.be}) \cup {c.to}
      BY <1>2, <2>2, <3>1
    <3>. QED
      BY <1>2, <2>6, <3>2, <3>3, <3>4 DEF BE!RenameTo, Existing
  <2>. QED
    BY <1>2, <2>3, <2>4, <2>8, <2>9 DEF Good, BE!BENext
<1>6. CASE Fails(TRUE) /\ UNCHANGED zfsVars /\ Ends("fail")
  BY <1>6, FailGood
<1>. QED
  BY <1>4, <1>5, <1>6

\* An environment whose top dataset is gone has none left.
LEMMA TreeEmpty == TreeInv => \A e \in Envs : Top(e) \notin fs => Tree(e) \cap fs = {}
<1>. SUFFICES ASSUME TreeInv, NEW e \in Envs, Top(e) \notin fs,
                     NEW x \in Datasets, EnvOf(x) = e, x \in fs
              PROVE  FALSE
  BY TreeIs
<1>1. fs \subseteq Datasets /\ Rooted
  BY InvParts, CoreTypes DEF TreeCore
<1>2. Covers(Top(e), x) /\ Top(e) \in Datasets
  BY CoversOrder, TopFacts
<1>. QED
  BY <1>1, <1>2, AboveExists

\* The same of the next state.
LEMMA TreeEmptyNext == (TreeInv => \A e \in Envs : Top(e) \notin fs => Tree(e) \cap fs = {})'
BY TreeEmpty, PTL

\* The calls of destroy.
OfDestroy(t) ==
  /\ t.call \in {"destroy", "destroy_children", "destroy_fs", "destroy_snap"}
  /\ IF t.call = "destroy_snap" THEN t.snap \in Suffixes ELSE EnvOf(t.ds) = cmd.be
OfTop(t) == t.call \in {"destroy", "destroy_fs"} /\ t.ds = Top(cmd.be)

\* A call of destroy is done: others come next, and while there is a top
\* dataset, one for it is among them or below.
LEMMA DestroyProceeds ==
  ASSUME TreeInv, ~Idle, cmd.op = "destroy", NEW c, c = cmd, UNCHANGED <<bootfs, running>>,
         NEW tasks \in Seq(Tasks), Proceed(tasks), faults' \in 0 .. MaxFaults, TreeCore',
         \A i \in 1 .. Len(tasks) : OfDestroy(tasks[i]),
         Existing(c.be)' => \/ \E i \in 1 .. Len(tasks) : OfTop(tasks[i])
                            \/ Existing(c.be) /\ ~OfTop(todo[1]),
         [BE!BENext]_BE!bevars,
         \A d \in fs : EnvOf(d) # c.be => d \in fs' /\ (d \in mounted => d \in mounted')
  PROVE  Good(c)
<1>1. /\ c \in Commands /\ StackOK /\ Fits(todo[1]) /\ c.be \in Envs /\ c.op = "destroy"
  BY FirstCall, CommandFields
<1>2. ~IsActive(c.be) /\ ~IsRoot(c.be)
  BY <1>1 DEF Fits
<1>3. StackTypes'
  BY StackProceeds
<1>4. ASSUME ~Idle' PROVE StackOK'
  <2>1. cmd' = c
    BY <1>4, StackProceeds
  <2>2. ASSUME NEW t \in Pending' PROVE Fits(t)'
    <3>1. t \in Pending \/ \E i \in 1 .. Len(tasks) : t = tasks[i]
      BY <1>4, StackProceeds
    <3>2. t \in Pending => OfDestroy(t)
      BY <1>1 DEF StackOK, Fits, OfDestroy
    <3>3. OfDestroy(t)
      BY <3>1, <3>2
    <3>. QED
      BY <1>1, <1>2, <2>1, <3>3 DEF Fits, OfDestroy, IsActive, IsRoot
  <2>3. ASSUME Existing(c.be)' PROVE \E t \in Pending' : OfTop(t)
    <3>1. CASE \E i \in 1 .. Len(tasks) : OfTop(tasks[i])
      BY <1>4, <3>1, StackProceeds
    <3>2. CASE Existing(c.be) /\ ~OfTop(todo[1])
      <4>1. \E t \in Pending : OfTop(t)
        BY <1>1, <3>2 DEF StackOK, DestroyRest, OfTop
      <4>. QED
        BY <3>2, <4>1, StackProceeds
    <3>. QED
      BY <2>3, <3>1, <3>2
  <2>4. DestroyRest'
    BY <2>1, <2>3 DEF DestroyRest, OfTop
  <2>. QED
    BY <1>1, <2>1, <2>2, <2>4 DEF StackOK
<1>5. TreeInv'
  BY <1>3, <1>4, InvPartsNext
<1>6. Kept
  BY <1>2 DEF Kept, IsRoot
<1>7. ASSUME Idle' PROVE Accomplished(c)'
  <2>1. tasks = << >> /\ \A t \in Pending : t = todo[1]
    BY <1>7, StackProceeds
  <2>2. \A i \in 1 .. Len(tasks) : FALSE
    BY <2>1, NoTasks
  <2>3. ~Existing(c.be)'
    BY <1>1, <2>1, <2>2 DEF StackOK, DestroyRest, OfTop
  <2>4. Tree(c.be) \cap fs' = {}
    BY <1>1, <1>5, <2>3, TreeEmptyNext DEF Existing
  <2>. QED
    BY <1>1, <2>4 DEF Accomplished
<1>. QED
  BY <1>5, <1>6, <1>7 DEF Good, Returns, Idle

\* What holds before a call of destroy.
LEMMA DestroyFacts ==
  ASSUME TreeInv, ~Idle, cmd.op = "destroy", NEW c, c = cmd
  PROVE  /\ c \in Commands /\ c.be \in Envs /\ TreeCore /\ ZfsTypeOK /\ This \in Datasets
         /\ OfDestroy(todo[1]) /\ todo[1] \in Tasks
         /\ c.be # running /\ <<c.be>> # bootfs /\ faults \in 0 .. MaxFaults
         /\ fs \subseteq Datasets
<1>1. /\ c \in Commands /\ c.be \in Envs /\ TreeCore /\ ZfsTypeOK /\ This \in Datasets
      /\ Fits(todo[1]) /\ todo[1] \in Tasks /\ c.op = "destroy"
  BY FirstCall, CommandFields DEF TreeCore
<1>2. OfDestroy(todo[1]) /\ ~IsActive(c.be) /\ ~IsRoot(c.be)
  BY <1>1 DEF Fits, OfDestroy
<1>3. faults \in 0 .. MaxFaults
  BY InvParts DEF StackTypes
<1>. QED
  BY <1>1, <1>2, <1>3, CoreTypes DEF IsActive, IsRoot

\* A call of destroy that changes no dataset of the tree.
LEMMA DestroySame ==
  ASSUME TreeInv, ~Idle, cmd.op = "destroy", NEW c, c = cmd, UNCHANGED <<fs, bootfs, running>>,
         NEW tasks \in Seq(Tasks), Proceed(tasks), faults' \in 0 .. MaxFaults, TreeCore',
         \A i \in 1 .. Len(tasks) : OfDestroy(tasks[i]),
         OfTop(todo[1]) => \E i \in 1 .. Len(tasks) : OfTop(tasks[i]),
         \A d \in fs : EnvOf(d) # c.be => (d \in mounted => d \in mounted')
  PROVE  Good(c)
<1>1. [BE!BENext]_BE!bevars
  BY BEStays
<1>. QED
  BY <1>1, DestroyProceeds DEF Existing

\* libze_destroy_cb itself: it unmounts and puts what comes next on the stack.
LEMMA DestroyVisits ==
  ASSUME TreeInv, ~Idle, cmd.op = "destroy", DestroyVisit, UNCHANGED running, NEW c, c = cmd
  PROVE  Good(c)
<1>1. /\ c \in Commands /\ c.be \in Envs /\ TreeCore /\ ZfsTypeOK /\ This \in Datasets
      /\ OfDestroy(todo[1])
      /\ c.be # running /\ <<c.be>> # bootfs /\ faults \in 0 .. MaxFaults
  BY DestroyFacts
<1>2. todo[1].call = "destroy"
  BY DEF DestroyVisit, At
<1>3. EnvOf(This) = c.be
  BY <1>1, <1>2 DEF OfDestroy, This
<1> DEFINE o == origin[This]
           calls == <<Task("destroy_children", This), Task("destroy_fs", This)>>
                      \o IF o = NoSnap THEN << >> ELSE <<SnapTask("destroy_snap", o[1], o[2])>>
<1>4. PICK tasks : tasks = calls
  OBVIOUS
<1>5. /\ tasks \in Seq(Tasks) /\ \A i \in 1 .. Len(tasks) : OfDestroy(tasks[i])
      /\ \E i \in 1 .. Len(tasks) : tasks[i] = Task("destroy_fs", This)
  <2>1. Task("destroy_children", This) \in Tasks /\ Task("destroy_fs", This) \in Tasks
    <3>1. "destroy_children" \in Calls /\ "destroy_fs" \in Calls
      BY DEF Calls
    <3>. QED
      BY <1>1, <3>1, TaskFacts
  <2>2. OfDestroy(Task("destroy_children", This)) /\ OfDestroy(Task("destroy_fs", This))
    BY <1>3 DEF OfDestroy, Task
  <2>3. PICK a \in Tasks, b \in Tasks :
          a = Task("destroy_children", This) /\ b = Task("destroy_fs", This)
    BY <2>1
  <2>4. CASE o = NoSnap
    <3>1. tasks = <<a, b>> \o << >>
      BY <1>4, <2>3, <2>4
    <3>2. tasks = <<a, b>>
      BY <3>1
    <3>. QED
      BY <2>2, <2>3, <3>2
  <2>5. CASE o # NoSnap
    <3>1. o \in Snapshots
      BY <1>1, <2>5 DEF ZfsTypeOK
    <3>2. o[1] \in Datasets /\ o[2] \in Suffixes
      BY <3>1 DEF Snapshots
    <3>3. "destroy_snap" \in Calls
      BY DEF Calls
    <3>4. SnapTask("destroy_snap", o[1], o[2]) \in Tasks
      BY <3>2, <3>3, TaskFacts
    <3>5. OfDestroy(SnapTask("destroy_snap", o[1], o[2]))
      BY <3>2 DEF OfDestroy, SnapTask
    <3>6. PICK e \in Tasks : e = SnapTask("destroy_snap", o[1], o[2])
      BY <3>4
    <3>7. tasks = <<a, b>> \o <<e>>
      BY <1>4, <2>3, <2>5, <3>6
    <3>8. /\ tasks \in Seq(Tasks) /\ \A i \in 1 .. Len(tasks) : tasks[i] \in {a, b, e}
          /\ \E i \in 1 .. Len(tasks) : tasks[i] = b
      <4>1. PICK s \in Seq(Tasks) : /\ s = <<a, b>> \o <<e>>
                                    /\ \A i \in 1 .. Len(s) : s[i] \in {a, b, e}
                                    /\ \E i \in 1 .. Len(s) : s[i] = b
        BY SomeTasks
      <4>2. tasks = s
        BY <3>7, <4>1
      <4>. QED
        BY <4>1, <4>2
    <3>. QED
      BY <2>2, <2>3, <3>5, <3>6, <3>8
  <2>. QED
    BY <2>4, <2>5
<1>6. OfTop(todo[1]) => \E i \in 1 .. Len(tasks) : OfTop(tasks[i])
  <2>1. OfTop(todo[1]) => OfTop(Task("destroy_fs", This))
    BY DEF OfTop, Task, This
  <2>. QED
    BY <1>5, <2>1
<1>7. ASSUME TreeCore', Proceed(tasks), faults' \in 0 .. MaxFaults, UNCHANGED <<fs, bootfs>>,
             \A d \in fs : EnvOf(d) # c.be => (d \in mounted => d \in mounted')
      PROVE  Good(c)
  BY <1>5, <1>6, <1>7, DestroySame
<1>8. ASSUME Proceed(tasks), faults' \in 0 .. MaxFaults, UNCHANGED zfsVars PROVE Good(c)
  <2>1. TreeCore'
    BY <1>1, <1>8, SameTree DEF zfsVars, TreeCore, ZfsTypeOK
  <2>. QED
    BY <1>7, <1>8, <2>1 DEF zfsVars
<1>9. CASE This \in mounted /\ cmd.force
  <2>1. \/ /\ Proceed(tasks)
           /\ \/ CanUnmountAbove(This) /\ Unmount(This) /\ UNCHANGED faults
              \/ Fails(CanUnmountAbove(This)) /\ UNCHANGED zfsVars
        \/ /\ Fails(TRUE) /\ Ends("fail")
           /\ (CanUnmountAbove(This) /\ Unmount(This)) \/ UNCHANGED zfsVars
    BY <1>4, <1>9 DEF DestroyVisit
  <2>2. ASSUME CanUnmountAbove(This), Unmount(This)
        PROVE  /\ TreeCore' /\ \A d \in fs : EnvOf(d) # c.be => (d \in mounted => d \in mounted')
               /\ UNCHANGED <<fs, bootfs>>
    <3>1. ZfsTypeOK'
      BY <1>1, <2>2, UnmountType
    <3>2. TreeCore'
      BY <1>1, <1>3, <2>2, <3>1, TreeUnmounted DEF Unmount, CanUnmountAbove
    <3>3. \A d \in fs : EnvOf(d) # c.be => (d \in mounted => d \in mounted')
      BY <1>3, <2>2 DEF Unmount
    <3>. QED
      BY <3>2, <3>3, <2>2 DEF Unmount
  <2>3. CASE Proceed(tasks) /\ CanUnmountAbove(This) /\ Unmount(This) /\ UNCHANGED faults
    BY <1>1, <1>7, <2>2, <2>3
  <2>4. CASE Proceed(tasks) /\ Fails(CanUnmountAbove(This)) /\ UNCHANGED zfsVars
    <3>1. faults' \in 0 .. MaxFaults
      BY <1>1, <2>4, DatasetTreeAssumption DEF Fails
    <3>. QED
      BY <1>8, <2>4, <3>1
  <2>5. CASE Fails(TRUE) /\ Ends("fail") /\ CanUnmountAbove(This) /\ Unmount(This)
    <3>1. faults' \in 0 .. MaxFaults
      BY <1>1, <2>5, DatasetTreeAssumption DEF Fails
    <3>2. StackTypes' /\ Idle'
      BY <2>5, <3>1, EmptySeq DEF Ends, StackTypes, Idle
    <3>3. TreeInv'
      BY <2>2, <2>5, <3>2, InvPartsNext
    <3>4. Kept
      BY <1>1, <2>2, <2>5 DEF Kept
    <3>5. [BE!BENext]_BE!bevars
      BY <2>2, <2>5, BEStays
    <3>6. ~Returns("ok")
      BY <2>5 DEF Returns, Ends
    <3>. QED
      BY <3>3, <3>4, <3>5, <3>6 DEF Good
  <2>6. CASE Fails(TRUE) /\ Ends("fail") /\ UNCHANGED zfsVars
    BY <2>6, FailGood
  <2>. QED
    BY <2>1, <2>3, <2>4, <2>5, <2>6
<1>10. CASE ~(This \in mounted /\ cmd.force)
  <2>1. Call(This \notin mounted, UNCHANGED zfsVars, tasks)
    BY <1>4, <1>10 DEF DestroyVisit
  <2>2. CASE UNCHANGED zfsVars /\ Proceed(tasks) /\ UNCHANGED faults
    BY <1>1, <1>8, <2>2
  <2>3. CASE Fails(This \notin mounted) /\ UNCHANGED zfsVars /\ Ends("fail")
    BY <2>3, FailGood
  <2>. QED
    BY <2>1, <2>2, <2>3 DEF Call
<1>. QED
  BY <1>9, <1>10

\* The snapshots and the children of a dataset that is destroyed.
LEMMA DestroyChildrenVisits ==
  ASSUME TreeInv, ~Idle, cmd.op = "destroy", DestroyChildren, UNCHANGED running, NEW c, c = cmd
  PROVE  Good(c)
<1>1. /\ c \in Commands /\ c.be \in Envs /\ TreeCore /\ ZfsTypeOK /\ This \in Datasets
      /\ OfDestroy(todo[1]) /\ todo[1] \in Tasks
      /\ c.be # running /\ <<c.be>> # bootfs /\ faults \in 0 .. MaxFaults /\ fs \subseteq Datasets
  BY DestroyFacts
<1>2. todo[1].call = "destroy_children" /\ ~OfTop(todo[1])
  BY DEF DestroyChildren, At, OfTop
<1>3. EnvOf(This) = c.be
  BY <1>1, <1>2 DEF OfDestroy, This
<1>4. PICK t \in Tasks : t = todo[1]
  BY <1>1
<1>6. ASSUME NEW tasks \in Seq(Tasks), \A i \in 1 .. Len(tasks) : OfDestroy(tasks[i]),
             Proceed(tasks), ZfsTypeOK', UNCHANGED <<fs, mounted, tmpmp, bootfs, faults>>
      PROVE  Good(c)
  <2>1. TreeCore'
    BY <1>1, <1>6, SameTree
  <2>. QED
    BY <1>1, <1>2, <1>6, <2>1, DestroySame
<1>7. ASSUME NEW s \in SnapsOf(This), Call(CanDestroySnap(This, s), DestroySnap(This, s), <<t>>)
      PROVE  Good(c)
  <2>1. CASE CanDestroySnap(This, s) /\ DestroySnap(This, s) /\ Proceed(<<t>>) /\ UNCHANGED faults
    <3>1. ZfsTypeOK'
      BY <1>1, <2>1, DestroySnapType
    <3>2. PICK tasks \in Seq(Tasks) : tasks = <<t>> /\ \A i \in 1 .. Len(tasks) : tasks[i] = t
      BY SomeTasks
    <3>3. \A i \in 1 .. Len(tasks) : OfDestroy(tasks[i])
      BY <1>1, <1>4, <3>2
    <3>. QED
      BY <1>6, <2>1, <3>1, <3>2, <3>3 DEF DestroySnap
  <2>2. CASE Fails(CanDestroySnap(This, s)) /\ UNCHANGED zfsVars /\ Ends("fail")
    BY <2>2, FailGood
  <2>. QED
    BY <1>7, <2>1, <2>2 DEF Call
<1>8. ASSUME UNCHANGED <<zfsVars, faults>> PROVE ZfsTypeOK'
  BY <1>1, <1>8 DEF zfsVars, ZfsTypeOK
<1>9. ASSUME NEW x \in Children(This), Proceed(<<Task("destroy", x), t>>),
             UNCHANGED <<zfsVars, faults>>
      PROVE  Good(c)
  <2>1. x \in Datasets /\ EnvOf(x) = c.be
    BY <1>1, <1>3, ChildFacts
  <2>2. PICK a \in Tasks : a = Task("destroy", x)
    <3>1. "destroy" \in Calls
      BY DEF Calls
    <3>. QED
      BY <2>1, <3>1, TaskFacts
  <2>3. OfDestroy(a)
    BY <2>1, <2>2 DEF OfDestroy, Task
  <2>4. PICK tasks \in Seq(Tasks) : tasks = <<a, t>> /\ \A i \in 1 .. Len(tasks) : tasks[i] \in {a, t}
    BY SomeTasks
  <2>5. \A i \in 1 .. Len(tasks) : OfDestroy(tasks[i])
    BY <1>1, <1>4, <2>3, <2>4
  <2>6. Proceed(tasks)
    BY <1>9, <2>2, <2>4
  <2>. QED
    BY <1>6, <1>8, <1>9, <2>5, <2>6 DEF zfsVars
<1>10. ASSUME Proceed(<< >>), UNCHANGED <<zfsVars, faults>> PROVE Good(c)
  <2>1. PICK tasks \in Seq(Tasks) : tasks = << >> /\ \A i \in 1 .. Len(tasks) : FALSE
    BY NoTasks
  <2>. QED
    BY <1>6, <1>8, <1>10, <2>1 DEF zfsVars
<1>. QED
  BY <1>4, <1>7, <1>9, <1>10 DEF DestroyChildren

\* The dataset itself, and the snapshot it was a clone of.
LEMMA DestroyDatasets ==
  ASSUME TreeInv, ~Idle, cmd.op = "destroy", DestroyDataset, UNCHANGED running, NEW c, c = cmd
  PROVE  Good(c)
<1>1. /\ c \in Commands /\ c.be \in Envs /\ TreeCore /\ ZfsTypeOK /\ This \in Datasets
      /\ OfDestroy(todo[1]) /\ todo[1] \in Tasks
      /\ c.be # running /\ <<c.be>> # bootfs /\ faults \in 0 .. MaxFaults /\ fs \subseteq Datasets
  BY DestroyFacts
<1>2. PICK tasks \in Seq(Tasks) : tasks = << >> /\ \A i \in 1 .. Len(tasks) : FALSE
  BY NoTasks
<1>3. CASE At("destroy_fs") /\ Call(CanDestroyLeaf(This), DestroyFs(This), << >>)
  <2>1. todo[1].call = "destroy_fs"
    BY <1>3 DEF At
  <2>2. EnvOf(This) = c.be
    BY <1>1, <2>1 DEF OfDestroy, This
  <2>3. CASE CanDestroyLeaf(This) /\ DestroyFs(This) /\ Proceed(<< >>) /\ UNCHANGED faults
    <3>1. This \in fs /\ This \notin mounted /\ Children(This) = {}
      BY <2>3 DEF CanDestroyLeaf, CanDestroyFs
    <3>2. PICK a \in Envs : bootfs = <<a>>
      BY <1>1 DEF TreeCore, Protected
    <3>3. This # Root(bootfs)
      <4>1. Root(bootfs) = Top(a) /\ EnvOf(Top(a)) = a
        BY <3>2, TopFacts DEF Top
      <4>. QED
        BY <1>1, <2>2, <3>2, <4>1
    <3>4. fs' = fs \ {This} /\ tmpmp' = tmpmp \ {This} /\ UNCHANGED <<mounted, bootfs>>
      BY <2>3, <3>3 DEF DestroyFs
    <3>5. ZfsTypeOK'
      BY <1>1, <2>3, DestroyFsType DEF CanDestroyLeaf
    <3>6. TreeCore'
      BY <1>1, <2>2, <3>1, <3>4, <3>5, TreeShrinks
    <3>7. \A d \in fs : EnvOf(d) # c.be => d \in fs' /\ (d \in mounted => d \in mounted')
      BY <2>2, <3>4
    <3>8. \A e \in Envs : Top(e) \in fs' <=> Top(e) \in fs /\ Top(e) # This
      BY <3>4
    <3>9. \A e \in Envs : Top(e) = This => e = c.be
      BY <2>2, TopFacts
    <3>10. [BE!BENext]_BE!bevars
      <4>1. CASE This = Top(c.be)
        <5>1. {e \in Envs : Top(e) \in fs'} = {e \in Envs : Top(e) \in fs} \ {c.be}
          BY <3>8, <3>9, <4>1
        <5>2. c.be \in {e \in Envs : Existing(e)} \ {bootfs[1], running}
          BY <1>1, <3>1, <3>2, <4>1 DEF Existing
        <5>3. BE!DestroyBE(c.be)
          BY <3>4, <5>1, <5>2 DEF BE!DestroyBE, Existing
        <5>. QED
          BY <1>1, <5>3 DEF BE!BENext
      <4>2. CASE This # Top(c.be)
        BY <3>4, <3>8, <3>9, <4>2, BEStays
      <4>. QED
        BY <4>1, <4>2
    <3>11. Existing(c.be)' => Existing(c.be) /\ ~OfTop(todo[1])
      BY <1>1, <3>8 DEF Existing, OfTop, This
    <3>12. Proceed(tasks) /\ faults' \in 0 .. MaxFaults
      BY <1>1, <1>2, <2>3
    <3>. QED
      BY <1>2, <3>4, <3>6, <3>7, <3>10, <3>11, <3>12, DestroyProceeds
  <2>4. CASE Fails(CanDestroyLeaf(This)) /\ UNCHANGED zfsVars /\ Ends("fail")
    BY <2>4, FailGood
  <2>. QED
    BY <1>3, <2>3, <2>4 DEF Call
<1>4. CASE /\ At("destroy_snap")
           /\ Call(CanDestroySnap(This, todo[1].snap), DestroySnap(This, todo[1].snap), << >>)
  <2>1. ~OfTop(todo[1])
    BY <1>4 DEF At, OfTop
  <2>2. CASE /\ CanDestroySnap(This, todo[1].snap) /\ DestroySnap(This, todo[1].snap)
             /\ Proceed(<< >>) /\ UNCHANGED faults
    <3>1. ZfsTypeOK'
      BY <1>1, <2>2, DestroySnapType
    <3>2. UNCHANGED <<fs, mounted, tmpmp, bootfs>>
      BY <2>2 DEF DestroySnap
    <3>3. TreeCore'
      BY <1>1, <3>1, <3>2, SameTree
    <3>4. Proceed(tasks) /\ faults' \in 0 .. MaxFaults
      BY <1>1, <1>2, <2>2
    <3>. QED
      BY <1>2, <2>1, <3>2, <3>3, <3>4, DestroySame
  <2>3. CASE Fails(CanDestroySnap(This, todo[1].snap)) /\ UNCHANGED zfsVars /\ Ends("fail")
    BY <2>3, FailGood
  <2>. QED
    BY <1>4, <2>2, <2>3 DEF Call
<1>. QED
  BY <1>3, <1>4 DEF DestroyDataset

\* A command does not fail by itself.
FailsByCall == Returns("fail") => faults' > faults

\* A call of unmount is done: others come next, each after those for what is
\* mounted below its dataset.
LEMMA UnmountProceeds ==
  ASSUME TreeInv, ~Idle, cmd.op = "unmount", NEW c, c = cmd,
         UNCHANGED <<fs, bootfs, running, faults>>,
         NEW tasks \in Seq(Tasks), Proceed(tasks), TreeCore', mounted' \subseteq mounted,
         \A d \in fs : EnvOf(d) # c.be => (d \in mounted => d \in mounted'),
         \A i \in 1 .. Len(tasks) : /\ tasks[i].call \in {"unmount", "unmount_fs"}
                                    /\ EnvOf(tasks[i].ds) = c.be,
         \A x \in mounted' : Unmounts(todo[1], x) => \E i \in 1 .. Len(tasks) : Unmounts(tasks[i], x),
         \A i \in 1 .. Len(tasks), x \in mounted' :
           tasks[i].call = "unmount_fs" /\ Covers(tasks[i].ds, x) /\ x # tasks[i].ds =>
             \E j \in 1 .. i - 1 : Unmounts(tasks[j], x)
  PROVE  Good(c) /\ FailsByCall
<1>1. /\ c \in Commands /\ StackOK /\ Fits(todo[1]) /\ c.be \in Envs /\ c.op = "unmount"
      /\ Len(todo) \in Nat /\ Len(todo) >= 1 /\ Len(tasks) \in Nat
  BY FirstCall, CommandFields, LenProperties
<1>2. ~IsRoot(c.be) /\ UnmountRest
  BY <1>1 DEF Fits, StackOK
<1>3. faults' \in 0 .. MaxFaults
  BY InvParts DEF StackTypes
<1>4. StackTypes'
  BY <1>3, StackProceeds
<1>5. ASSUME ~Idle' PROVE StackOK'
  <2>1. /\ cmd' = c /\ Len(todo') \in Nat
        /\ \A i \in 1 .. Len(tasks) : i \in 1 .. Len(todo') /\ todo'[i] = tasks[i]
        /\ \A i \in 2 .. Len(todo) : /\ Len(tasks) + i - 1 \in 1 .. Len(todo')
                                     /\ todo'[Len(tasks) + i - 1] = todo[i]
        /\ \A i \in 1 .. Len(todo') :
             \/ i \in 1 .. Len(tasks) /\ todo'[i] = tasks[i]
             \/ /\ i > Len(tasks) /\ i - Len(tasks) + 1 \in 2 .. Len(todo)
                /\ todo'[i] = todo[i - Len(tasks) + 1]
    BY <1>3, <1>5, StackProceeds
  <2>2. ASSUME NEW t \in Pending' PROVE Fits(t)'
    <3>1. t \in Pending \/ \E i \in 1 .. Len(tasks) : t = tasks[i]
      BY <1>3, <1>5, StackProceeds
    <3>2. t \in Pending => t.call \in {"unmount", "unmount_fs"} /\ EnvOf(t.ds) = c.be
      BY <1>1 DEF StackOK, Fits
    <3>3. t.call \in {"unmount", "unmount_fs"} /\ EnvOf(t.ds) = c.be
      BY <3>1, <3>2
    <3>. QED
      BY <1>1, <1>2, <2>1, <3>3 DEF Fits, IsRoot
  <2>3. ASSUME NEW x \in mounted', EnvOf(x) = c.be PROVE \E t \in Pending' : Unmounts(t, x)
    <3>1. PICK t \in Pending : Unmounts(t, x)
      BY <1>2, <2>3 DEF UnmountRest
    <3>2. CASE t = todo[1]
      <4>1. PICK i \in 1 .. Len(tasks) : Unmounts(tasks[i], x)
        BY <2>3, <3>1, <3>2
      <4>2. tasks[i] \in Pending'
        BY <1>3, <1>5, StackProceeds
      <4>. QED
        BY <4>1, <4>2
    <3>3. CASE t # todo[1]
      BY <1>3, <3>1, <3>3, StackProceeds
    <3>. QED
      BY <3>2, <3>3
  <2>4. ASSUME NEW i \in 1 .. Len(todo'), NEW x \in mounted', todo'[i].call = "unmount_fs",
               Covers(todo'[i].ds, x), x # todo'[i].ds
        PROVE  \E j \in 1 .. i - 1 : Unmounts(todo'[j], x)
    <3>1. CASE i \in 1 .. Len(tasks) /\ todo'[i] = tasks[i]
      <4>1. PICK j \in 1 .. i - 1 : Unmounts(tasks[j], x)
        BY <2>4, <3>1
      <4>2. j \in 1 .. Len(tasks)
        BY <1>1, <3>1, <4>1
      <4>. QED
        BY <2>1, <4>1, <4>2
    <3>2. CASE /\ i > Len(tasks) /\ i - Len(tasks) + 1 \in 2 .. Len(todo)
               /\ todo'[i] = todo[i - Len(tasks) + 1]
      <4>1. PICK k \in 2 .. Len(todo) : k = i - Len(tasks) + 1 /\ todo'[i] = todo[k]
        BY <3>2
      <4>2. k \in 1 .. Len(todo) /\ i = Len(tasks) + k - 1
        BY <1>1, <4>1
      <4>3. PICK j \in 1 .. k - 1 : Unmounts(todo[j], x)
        BY <1>2, <2>4, <4>1, <4>2 DEF UnmountRest
      <4>4. CASE j = 1
        <5>1. PICK m \in 1 .. Len(tasks) : Unmounts(tasks[m], x)
          BY <2>4, <4>3, <4>4
        <5>2. m \in 1 .. i - 1
          BY <1>1, <3>2, <5>1
        <5>. QED
          BY <2>1, <5>1, <5>2
      <4>5. CASE j # 1
        <5>1. j \in 2 .. Len(todo) /\ Len(tasks) + j - 1 \in 1 .. i - 1
          BY <1>1, <4>1, <4>2, <4>3, <4>5
        <5>2. todo'[Len(tasks) + j - 1] = todo[j]
          BY <2>1, <5>1
        <5>. QED
          BY <4>3, <5>1, <5>2
      <4>. QED
        BY <4>4, <4>5
    <3>. QED
      BY <2>1, <3>1, <3>2
  <2>5. UnmountRest'
    BY <2>1, <2>3, <2>4 DEF UnmountRest, Unmounts, Covers
  <2>. QED
    BY <1>1, <2>1, <2>2, <2>5 DEF StackOK
<1>6. TreeInv'
  BY <1>4, <1>5, InvPartsNext
<1>7. Kept /\ [BE!BENext]_BE!bevars
  BY <1>2, BEStays DEF Kept, IsRoot
<1>8. ASSUME Idle' PROVE Accomplished(c)' /\ result' = "ok"
  <2>1. tasks = << >> /\ (\A t \in Pending : t = todo[1]) /\ Ends("ok")
    BY <1>3, <1>8, StackProceeds
  <2>2. \A i \in 1 .. Len(tasks) : FALSE
    BY <2>1, NoTasks
  <2>3. ASSUME NEW x \in mounted', EnvOf(x) = c.be PROVE FALSE
    BY <1>2, <2>1, <2>2, <2>3 DEF UnmountRest
  <2>4. (Tree(c.be) \cap fs') \cap mounted' = {}
    BY <1>1, <2>3, TreeIs
  <2>. QED
    BY <1>1, <2>1, <2>4 DEF Accomplished, Ends
<1>9. FailsByCall
  BY <1>8 DEF FailsByCall, Returns, Idle
<1>. QED
  BY <1>6, <1>7, <1>8, <1>9 DEF Good, Returns, Idle

ThenItself(order, d) == order \o <<Task("unmount_fs", d)>>

\* One call for each child, and the last for the dataset itself, take care of
\* everything mounted in its tree, from the bottom.
LEMMA UnmountCalls ==
  ASSUME TreeCore, NEW d \in Datasets, NEW order \in EachChild("unmount", d),
         NEW tasks, tasks = ThenItself(order, d)
  PROVE  /\ tasks \in Seq(Tasks)
         /\ \A i \in 1 .. Len(tasks) : /\ tasks[i].call \in {"unmount", "unmount_fs"}
                                       /\ EnvOf(tasks[i].ds) = EnvOf(d)
         /\ \A x \in mounted : Covers(d, x) => \E i \in 1 .. Len(tasks) : Unmounts(tasks[i], x)
         /\ \A i \in 1 .. Len(tasks), x \in mounted :
              tasks[i].call = "unmount_fs" /\ Covers(tasks[i].ds, x) /\ x # tasks[i].ds =>
                \E j \in 1 .. i - 1 : Unmounts(tasks[j], x)
<1>1. fs \subseteq Datasets /\ mounted \subseteq fs /\ IsFiniteSet(fs) /\ Rooted
  BY CoreTypes DEF TreeCore
<1>2. "unmount" \in Calls /\ "unmount_fs" \in Calls
  BY DEF Calls
<1>3. /\ order \in Seq(Tasks) /\ Len(order) \in Nat
      /\ \A i \in 1 .. Len(order) : /\ order[i].ds \in Children(d)
                                    /\ order[i] = Task("unmount", order[i].ds)
      /\ \A x \in Children(d) : \E i \in 1 .. Len(order) : order[i].ds = x
  BY <1>1, <1>2, EachChildFacts
<1>4. PICK last \in Tasks : last = Task("unmount_fs", d)
  BY <1>2, TaskFacts
<1>5. last.call = "unmount_fs" /\ last.ds = d
  BY <1>4 DEF Task
<1>6. /\ tasks \in Seq(Tasks) /\ Len(tasks) = Len(order) + 1
      /\ \A i \in 1 .. Len(order) : tasks[i] = order[i]
      /\ tasks[Len(order) + 1] = last
  <2>0. <<last>> \in Seq(Tasks) /\ Len(<<last>>) = 1 /\ <<last>>[1] = last
    OBVIOUS
  <2>1. PICK one : one = <<last>>
    OBVIOUS
  <2>2. tasks = order \o one /\ one \in Seq(Tasks) /\ Len(one) = 1 /\ one[1] = last
    BY <1>4, <2>0, <2>1 DEF ThenItself
  <2>3. /\ tasks \in Seq(Tasks) /\ Len(tasks) = Len(order) + Len(one)
        /\ \A i \in 1 .. Len(order) + Len(one) :
             tasks[i] = IF i <= Len(order) THEN order[i] ELSE one[i - Len(order)]
    <3>1. order \in Seq(Tasks)
      BY <1>3
    <3>2. one \in Seq(Tasks)
      BY <2>2
    <3>3. /\ order \o one \in Seq(Tasks) /\ Len(order \o one) = Len(order) + Len(one)
          /\ \A i \in 1 .. Len(order) + Len(one) :
               (order \o one)[i] = IF i <= Len(order) THEN order[i] ELSE one[i - Len(order)]
      BY <3>1, <3>2, ConcatProperties, Zenon
    <3>. QED
      BY <2>2, <3>3
  <2>. QED
    BY <1>3, <2>2, <2>3
<1>7. ASSUME NEW i \in 1 .. Len(order)
      PROVE  /\ tasks[i].call = "unmount" /\ tasks[i].ds \in Children(d)
             /\ EnvOf(tasks[i].ds) = EnvOf(d)
  <2>1. PICK y \in Children(d) : tasks[i] = Task("unmount", y)
    BY <1>3, <1>6
  <2>2. tasks[i].call = "unmount" /\ tasks[i].ds = y
    BY <2>1 DEF Task
  <2>. QED
    BY <1>1, <2>2, ChildFacts
<1>8. \A i \in 1 .. Len(tasks) : i \in 1 .. Len(order) \/ i = Len(order) + 1
  BY <1>3, <1>6
<1>9. ASSUME NEW x \in mounted, Covers(d, x), x # d
      PROVE  \E i \in 1 .. Len(order) : Unmounts(tasks[i], x)
  <2>1. PICK y \in Children(d) : Covers(y, x)
    BY <1>1, <1>9, ChildOnTheWay
  <2>2. PICK i \in 1 .. Len(order) : order[i].ds = y
    BY <1>3
  <2>. QED
    BY <1>6, <1>7, <2>1, <2>2 DEF Unmounts
<1>10. \A i \in 1 .. Len(tasks) : /\ tasks[i].call \in {"unmount", "unmount_fs"}
                                  /\ EnvOf(tasks[i].ds) = EnvOf(d)
  BY <1>5, <1>6, <1>7, <1>8
<1>11. ASSUME NEW x \in mounted, Covers(d, x) PROVE \E i \in 1 .. Len(tasks) : Unmounts(tasks[i], x)
  <2>1. CASE x = d
    <3>1. Unmounts(last, x)
      BY <1>5, <2>1 DEF Unmounts
    <3>2. Len(order) + 1 \in 1 .. Len(tasks)
      BY <1>3, <1>6
    <3>. QED
      BY <1>6, <3>1, <3>2
  <2>2. CASE x # d
    <3>1. PICK i \in 1 .. Len(order) : Unmounts(tasks[i], x)
      BY <1>9, <1>11, <2>2
    <3>2. i \in 1 .. Len(tasks)
      BY <1>3, <1>6
    <3>. QED
      BY <3>1, <3>2
  <2>. QED
    BY <2>1, <2>2
<1>12. ASSUME NEW i \in 1 .. Len(tasks), NEW x \in mounted, tasks[i].call = "unmount_fs",
              Covers(tasks[i].ds, x), x # tasks[i].ds
       PROVE  \E j \in 1 .. i - 1 : Unmounts(tasks[j], x)
  <2>1. i = Len(order) + 1
    BY <1>7, <1>8, <1>12
  <2>2. tasks[i].ds = d
    BY <1>5, <1>6, <2>1
  <2>3. PICK j \in 1 .. Len(order) : Unmounts(tasks[j], x)
    BY <1>9, <1>12, <2>2
  <2>4. j \in 1 .. i - 1
    BY <1>3, <2>1
  <2>. QED
    BY <2>3, <2>4
<1>. QED
  BY <1>6, <1>10, <1>11, <1>12

\* unmount, call by call.
LEMMA UnmountStep ==
  ASSUME TreeInv, ~Idle, cmd.op = "unmount", UnmountUp \/ UnmountDataset, UNCHANGED running,
         NEW c, c = cmd
  PROVE  Good(c) /\ FailsByCall
<1>1. /\ c \in Commands /\ c.be \in Envs /\ TreeCore /\ StackOK /\ ZfsTypeOK /\ This \in Datasets
      /\ Fits(todo[1]) /\ todo[1] \in Tasks /\ c.op = "unmount"
      /\ Len(todo) \in Nat /\ Len(todo) >= 1
  BY FirstCall, CommandFields DEF TreeCore
<1>2. EnvOf(This) = c.be /\ c.be # running /\ UnmountRest
  BY <1>1 DEF Fits, This, IsRoot, StackOK
<1>3. ASSUME UNCHANGED zfsVars PROVE TreeCore'
  BY <1>1, <1>3, SameTree DEF zfsVars, TreeCore, ZfsTypeOK
<1>4. PICK none \in Seq(Tasks) : none = << >> /\ \A i \in 1 .. Len(none) : FALSE
  BY NoTasks
<1>5. CASE UnmountUp
  <2>1. todo[1].call = "unmount"
    BY <1>5 DEF UnmountUp, At
  <2>2. PICK order \in EachChild("unmount", This) : Proceed(ThenItself(order, This))
    BY <1>5 DEF UnmountUp, ThenItself
  <2>3. PICK tasks : tasks = ThenItself(order, This)
    OBVIOUS
  <2>4. /\ tasks \in Seq(Tasks)
        /\ \A i \in 1 .. Len(tasks) : /\ tasks[i].call \in {"unmount", "unmount_fs"}
                                      /\ EnvOf(tasks[i].ds) = EnvOf(This)
        /\ \A x \in mounted : Covers(This, x) => \E i \in 1 .. Len(tasks) : Unmounts(tasks[i], x)
        /\ \A i \in 1 .. Len(tasks), x \in mounted :
             tasks[i].call = "unmount_fs" /\ Covers(tasks[i].ds, x) /\ x # tasks[i].ds =>
               \E j \in 1 .. i - 1 : Unmounts(tasks[j], x)
    <3>1. order \in EachChild("unmount", This)
      BY <2>2
    <3>. QED
      BY <1>1, <2>3, <3>1, UnmountCalls
  <2>5. \A x \in mounted : Unmounts(todo[1], x) => Covers(This, x)
    BY <2>1 DEF Unmounts, This
  <2>6. UNCHANGED <<zfsVars, faults>>
    BY <1>5 DEF UnmountUp
  <2>7. TreeCore' /\ UNCHANGED <<fs, bootfs, mounted>>
    BY <1>3, <2>6 DEF zfsVars
  <2>. QED
    BY <1>2, <2>2, <2>3, <2>4, <2>5, <2>6, <2>7, UnmountProceeds
<1>6. CASE UnmountDataset
  <2>1. todo[1].call = "unmount_fs"
    BY <1>6 DEF UnmountDataset, At
  <2>2. \A x : Unmounts(todo[1], x) <=> x = This
    BY <2>1 DEF Unmounts, This
  <2>3. ASSUME Proceed(<< >>), TreeCore', UNCHANGED <<fs, bootfs, faults>>,
               mounted' \subseteq mounted, This \notin mounted',
               \A d \in fs : EnvOf(d) # c.be => (d \in mounted => d \in mounted')
        PROVE  Good(c) /\ FailsByCall
    BY <1>4, <2>2, <2>3, UnmountProceeds
  <2>4. CASE This \notin mounted
    <3>1. Proceed(<< >>) /\ UNCHANGED <<zfsVars, faults>>
      BY <1>6, <2>4 DEF UnmountDataset
    <3>2. TreeCore' /\ UNCHANGED <<fs, bootfs, mounted>>
      BY <1>3, <3>1 DEF zfsVars
    <3>. QED
      BY <2>3, <2>4, <3>1, <3>2
  <2>5. CASE This \in mounted
    <3>1. CanUnmountAbove(This)
      <4>1. ~Busy(This)
        <5>1. mounted \subseteq Datasets
          BY <1>1, CoreTypes
        <5>2. \A n : Boot(n) \notin Datasets
          BY DatasetsAre DEF Boot
        <5>. QED
          BY <5>1, <5>2 DEF Busy
      <4>2. ASSUME NEW x \in mounted, x # This, Covers(This, x) PROVE FALSE
        <5>1. \A y \in mounted : Covers(todo[1].ds, y) /\ y # todo[1].ds =>
                \E j \in 1 .. 1 - 1 : Unmounts(todo[j], y)
          <6>1. 1 \in 1 .. Len(todo)
            BY <1>1
          <6>. QED
            BY <1>2, <2>1, <6>1 DEF UnmountRest
        <5>2. \E j \in 1 .. 1 - 1 : Unmounts(todo[j], x)
          BY <4>2, <5>1 DEF This
        <5>3. \A j \in 1 .. 1 - 1 : FALSE
          OBVIOUS
        <5>. QED
          BY <5>2, <5>3
      <4>. QED
        BY <2>5, <4>1, <4>2 DEF CanUnmountAbove, CanUnmount, Below, Covers
    <3>2. CASE Unmount(This) /\ Proceed(<< >>) /\ UNCHANGED faults
      <4>1. ZfsTypeOK'
        BY <1>1, <3>2, UnmountType
      <4>2. TreeCore'
        BY <1>1, <1>2, <3>1, <3>2, <4>1, TreeUnmounted DEF Unmount, CanUnmountAbove
      <4>3. UNCHANGED <<fs, bootfs>> /\ mounted' = mounted \ {This}
        BY <3>2 DEF Unmount
      <4>. QED
        BY <1>2, <2>3, <3>2, <4>2, <4>3
    <3>3. CASE Fails(CanUnmountAbove(This)) /\ UNCHANGED zfsVars /\ Ends("fail")
      <4>1. Good(c) /\ (CanUnmountAbove(This) => faults' > faults)
        BY <3>3, FailGood
      <4>. QED
        BY <3>1, <4>1 DEF FailsByCall
    <3>. QED
      BY <1>6, <2>5, <3>2, <3>3 DEF UnmountDataset, Call
  <2>. QED
    BY <2>4, <2>5
<1>. QED
  BY <1>5, <1>6

\* A dataset is mounted, or skipped when it has no mountpoint; the calls for
\* its children come next.
LEMMA MountProceeds ==
  ASSUME TreeInv, ~Idle, cmd.op = "mount", NEW c, c = cmd,
         UNCHANGED <<fs, bootfs, running, faults>>, TreeCore',
         NEW calls \in EachChild("mount", This), Proceed(calls),
         mounted' = mounted \cup {This} \/ (mounted' = mounted /\ ~Managed(This))
  PROVE  Good(c) /\ FailsByCall
<1>1. /\ c \in Commands /\ TreeCore /\ StackOK /\ Fits(todo[1]) /\ c.be \in Envs /\ c.op = "mount"
      /\ Len(todo) \in Nat /\ Len(todo) >= 1 /\ This \in Datasets
      /\ fs \subseteq Datasets /\ mounted \subseteq fs /\ Rooted /\ IsFiniteSet(fs)
      /\ \A i \in 1 .. Len(todo) : todo[i].ds \in Datasets
  BY FirstCall, CommandFields, CoreTypes DEF TreeCore
<1>2. /\ ~IsRoot(c.be) /\ This \in fs /\ EnvOf(This) = c.be
      /\ \A x \in fs : Covers(x, This) /\ x # This /\ Managed(x) => x \in mounted
  BY <1>1 DEF Fits, This
<1>3. MountRest
  BY <1>1 DEF StackOK
<1>4. "mount" \in Calls
  BY DEF Calls
<1>5. /\ calls \in Seq(Tasks) /\ Len(calls) \in Nat
      /\ \A i \in 1 .. Len(calls) : calls[i].ds \in Children(This) /\ calls[i] = Task("mount", calls[i].ds)
      /\ \A x \in Children(This) : \E i \in 1 .. Len(calls) : calls[i].ds = x
      /\ \A i, j \in 1 .. Len(calls) : i # j => calls[i].ds # calls[j].ds
      /\ calls = << >> => Children(This) = {}
  BY <1>1, <1>4, EachChildFacts
<1>6. faults' \in 0 .. MaxFaults
  BY InvParts DEF StackTypes
<1>7. StackTypes'
  BY <1>5, <1>6, StackProceeds
<1>8. ASSUME NEW i \in 1 .. Len(calls)
      PROVE  calls[i].call = "mount" /\ calls[i].ds \in Children(This)
  <2>1. PICK y \in Children(This) : calls[i] = Task("mount", y)
    BY <1>5
  <2>. QED
    BY <2>1 DEF Task
\* What is still to be mounted below the dataset is below a child of it.
<1>9. ASSUME NEW x \in fs, Covers(This, x), Managed(x), x \notin mounted'
      PROVE  \E y \in Children(This) : Covers(y, x)
  <2>1. x # This
    BY <1>9
  <2>. QED
    BY <1>1, <1>9, <2>1, ChildOnTheWay
<1>10. ASSUME ~Idle' PROVE StackOK'
  <2>1. /\ cmd' = c /\ Len(todo') \in Nat
        /\ \A i \in 1 .. Len(todo') :
             \/ i \in 1 .. Len(calls) /\ todo'[i] = calls[i]
             \/ /\ i > Len(calls) /\ i - Len(calls) + 1 \in 2 .. Len(todo)
                /\ todo'[i] = todo[i - Len(calls) + 1]
    BY <1>5, <1>6, <1>10, StackProceeds
  <2>2. ASSUME NEW t \in Pending' PROVE t \in Pending \/ (t.call = "mount" /\ t.ds \in Children(This))
    BY <1>5, <1>6, <1>8, <1>10, <2>2, StackProceeds
  <2>3. ASSUME NEW t \in Pending' PROVE Fits(t)'
    <3>1. CASE t \in Pending
      <4>1. Fits(t)
        BY <1>1, <3>1 DEF StackOK
      <4>2. /\ t.call \in {"mount_top", "mount"} /\ t.ds \in fs /\ EnvOf(t.ds) = c.be
            /\ t.call = "mount_top" => t.ds = Top(c.be)
            /\ \A x \in fs : Covers(x, t.ds) /\ x # t.ds /\ Managed(x) => x \in mounted
        BY <1>1, <4>1 DEF Fits
      <4>. QED
        BY <1>1, <1>2, <2>1, <4>2 DEF Fits, IsRoot
    <3>2. CASE t.call = "mount" /\ t.ds \in Children(This)
      <4>1. /\ t.ds \in fs /\ EnvOf(t.ds) = c.be
            /\ \A x \in Datasets : Covers(x, t.ds) /\ x # t.ds => Covers(x, This)
        BY <1>1, <1>2, <3>2, ChildFacts
      <4>2. \A x \in fs : Covers(x, This) /\ Managed(x) => x \in mounted'
        BY <1>2
      <4>3. \A x \in fs : Covers(x, t.ds) /\ x # t.ds /\ Managed(x) => x \in mounted'
        BY <1>1, <4>1, <4>2
      <4>. QED
        BY <1>1, <1>2, <2>1, <3>2, <4>1, <4>3 DEF Fits, IsRoot
    <3>. QED
      BY <2>2, <2>3, <3>1, <3>2
  <2>4. ASSUME NEW x \in fs, EnvOf(x) = c.be, Managed(x), x \notin mounted'
        PROVE  \E t \in Pending' : Covers(t.ds, x)
    <3>1. PICK t \in Pending : Covers(t.ds, x)
      BY <1>3, <2>4 DEF MountRest
    <3>2. CASE t = todo[1]
      <4>1. PICK y \in Children(This) : Covers(y, x)
        BY <1>9, <2>4, <3>1, <3>2 DEF This
      <4>2. PICK i \in 1 .. Len(calls) : calls[i].ds = y
        BY <1>5
      <4>3. calls[i] \in Pending'
        BY <1>5, <1>6, <1>10, StackProceeds
      <4>. QED
        BY <4>1, <4>2, <4>3
    <3>3. CASE t # todo[1]
      <4>1. t \in Pending'
        BY <1>5, <1>6, <3>3, StackProceeds
      <4>. QED
        BY <3>1, <4>1
    <3>. QED
      BY <3>2, <3>3
  <2>5. /\ \A i, j \in 1 .. Len(todo) : i # j => ~Covers(todo[i].ds, todo[j].ds)
        /\ \A t \in Pending, x \in mounted : ~Covers(t.ds, x)
        /\ \A x \in mounted : ~Covers(This, x)
    <3>1. todo[1] \in Pending
      BY <1>1 DEF Pending
    <3>. QED
      BY <1>3, <3>1 DEF MountRest, This
  <2>6. ASSUME NEW k \in 2 .. Len(todo)
        PROVE  /\ ~Covers(todo[k].ds, This) /\ ~Covers(This, todo[k].ds) /\ todo[k].ds \in Datasets
               /\ k \in 1 .. Len(todo) /\ todo[k] \in Pending
    <3>1. k # 1 /\ k \in 1 .. Len(todo) /\ 1 \in 1 .. Len(todo)
      BY <1>1, <2>6
    <3>. QED
      BY <1>1, <2>5, <3>1 DEF This, Pending
  <2>7. ASSUME NEW i \in 1 .. Len(todo'), NEW x \in mounted' PROVE ~Covers(todo'[i].ds, x)
    <3>1. CASE i \in 1 .. Len(calls) /\ todo'[i] = calls[i]
      <4>1. calls[i].ds \in Children(This)
        BY <1>5, <3>1
      <4>2. PICK y \in Children(This) : y = todo'[i].ds
        BY <3>1, <4>1
      <4>3. y \in Datasets /\ Covers(This, y) /\ ~Covers(y, This)
        BY <1>1, <4>2, ChildFacts
      <4>4. x \in Datasets /\ (Covers(This, y) /\ Covers(y, x) => Covers(This, x))
        BY <1>1, <1>2, <4>3, CoversOrder
      <4>. QED
        BY <2>5, <4>2, <4>3, <4>4
    <3>2. CASE /\ i - Len(calls) + 1 \in 2 .. Len(todo)
               /\ todo'[i] = todo[i - Len(calls) + 1]
      BY <2>5, <2>6, <3>2
    <3>. QED
      BY <2>1, <3>1, <3>2
  <2>8. ASSUME NEW i \in 1 .. Len(todo'), NEW j \in 1 .. Len(todo'), i # j
        PROVE  ~Covers(todo'[i].ds, todo'[j].ds)
    <3> DEFINE New(m) == m \in 1 .. Len(calls) /\ todo'[m] = calls[m]
               Old(m) == /\ m > Len(calls) /\ m - Len(calls) + 1 \in 2 .. Len(todo)
                         /\ todo'[m] = todo[m - Len(calls) + 1]
    <3>1. (New(i) \/ Old(i)) /\ (New(j) \/ Old(j))
      BY <2>1
    <3>2. ASSUME NEW m \in 1 .. Len(todo'), New(m)
          PROVE  /\ todo'[m].ds \in Children(This) /\ todo'[m].ds \in Datasets
                 /\ Covers(This, todo'[m].ds)
                 /\ \A x \in Datasets : Covers(x, todo'[m].ds) /\ x # todo'[m].ds => Covers(x, This)
      <4>1. PICK y \in Children(This) : y = todo'[m].ds
        BY <1>5, <3>2
      <4>. QED
        BY <1>1, <4>1, ChildFacts
    <3>3. ASSUME NEW m \in 1 .. Len(todo'), Old(m)
          PROVE  /\ ~Covers(todo'[m].ds, This) /\ ~Covers(This, todo'[m].ds)
                 /\ todo'[m].ds \in Datasets
      BY <2>6, <3>3
    <3>4. CASE New(i) /\ New(j)
      <4>1. todo'[i].ds # todo'[j].ds
        BY <1>5, <2>8, <3>4
      <4>2. todo'[i].ds \in Children(This) /\ todo'[j].ds \in Children(This)
        BY <3>2, <3>4
      <4>. QED
        BY <1>1, <4>1, <4>2, ChildFacts
    <3>5. CASE New(i) /\ Old(j)
      <4>1. /\ todo'[i].ds \in Datasets /\ todo'[j].ds \in Datasets
            /\ Covers(This, todo'[i].ds) /\ ~Covers(This, todo'[j].ds)
        BY <3>2, <3>3, <3>5
      <4>. QED
        BY <1>1, <4>1, CoversOrder
    <3>6. CASE Old(i) /\ New(j)
      <4>1. ~Covers(todo'[i].ds, This) /\ ~Covers(This, todo'[i].ds) /\ todo'[i].ds \in Datasets
        BY <3>3, <3>6
      <4>2. Covers(This, todo'[j].ds) /\ \A x \in Datasets : Covers(x, todo'[j].ds) /\ x # todo'[j].ds => Covers(x, This)
        BY <3>2, <3>6
      <4>. QED
        BY <4>1, <4>2
    <3>7. CASE Old(i) /\ Old(j)
      <4>1. PICK k \in 2 .. Len(todo) : k = i - Len(calls) + 1 /\ todo'[i] = todo[k]
        BY <3>7
      <4>2. PICK l \in 2 .. Len(todo) : l = j - Len(calls) + 1 /\ todo'[j] = todo[l]
        BY <3>7
      <4>3. k # l /\ k \in 1 .. Len(todo) /\ l \in 1 .. Len(todo)
        <5>1. k # l
          BY <1>5, <2>1, <2>8, <4>1, <4>2
        <5>. QED
          BY <2>6, <5>1
      <4>. QED
        BY <2>5, <4>1, <4>2, <4>3
    <3>. QED
      BY <3>1, <3>4, <3>5, <3>6, <3>7
  <2>9. ASSUME NEW t \in Pending', NEW x \in mounted' PROVE ~Covers(t.ds, x)
    <3>1. PICK i \in 1 .. Len(todo') : t = todo'[i]
      BY <2>9 DEF Pending
    <3>. QED
      BY <2>7, <2>9, <3>1
  <2>10. MountRest'
    BY <2>1, <2>4, <2>8, <2>9 DEF MountRest, Covers
  <2>. QED
    BY <1>1, <2>1, <2>3, <2>10 DEF StackOK
<1>11. TreeInv'
  BY <1>7, <1>10, InvPartsNext
<1>12. Kept /\ [BE!BENext]_BE!bevars
  BY BEStays DEF Kept
<1>13. ASSUME Idle' PROVE Accomplished(c)' /\ result' = "ok"
  <2>1. calls = << >> /\ (\A t \in Pending : t = todo[1]) /\ Ends("ok")
    BY <1>5, <1>6, <1>13, StackProceeds
  <2>2. Children(This) = {}
    BY <1>5, <2>1
  <2>3. ASSUME NEW x \in fs, EnvOf(x) = c.be, Managed(x), x \notin mounted' PROVE FALSE
    <3>1. Covers(This, x)
      BY <1>3, <2>1, <2>3 DEF MountRest, This
    <3>. QED
      BY <1>9, <2>2, <2>3, <3>1
  <2>4. {d \in Tree(c.be) \cap fs' : Managed(d)} \subseteq mounted'
    BY <1>1, <2>3, TreeIs
  <2>. QED
    BY <1>1, <2>1, <2>4 DEF Accomplished, Ends
<1>14. FailsByCall
  BY <1>13 DEF FailsByCall, Returns, Idle
<1>. QED
  BY <1>11, <1>12, <1>13, <1>14 DEF Good, Returns, Idle

\* mount, call by call.
LEMMA MountStep ==
  ASSUME TreeInv, ~Idle, cmd.op = "mount", MountDown, UNCHANGED running, NEW c, c = cmd
  PROVE  Good(c) /\ FailsByCall
<1>1. /\ c \in Commands /\ TreeCore /\ StackOK /\ ZfsTypeOK /\ This \in Datasets /\ Fits(todo[1])
      /\ todo[1] \in Pending /\ c.be \in Envs /\ c.op = "mount"
  BY FirstCall, CommandFields DEF TreeCore
<1>2. /\ This \in fs
      /\ todo[1].call \in {"mount_top", "mount"}
      /\ \A x \in fs : Covers(x, This) /\ x # This /\ Managed(x) => x \in mounted
  BY <1>1 DEF Fits, This
<1>3. This \notin mounted
  <2>1. Covers(This, This)
    BY <1>1, CoversOrder
  <2>. QED
    BY <1>1, <2>1 DEF StackOK, MountRest, This
<1>4. PICK calls \in EachChild("mount", This) :
        IF At("mount") /\ ~Managed(This)
        THEN Proceed(calls) /\ UNCHANGED <<zfsVars, faults>>
        ELSE Call(CanMount(This) /\ (At("mount") => This \notin mounted), Mount(This), calls)
  BY DEF MountDown
<1>5. CASE At("mount") /\ ~Managed(This)
  <2>1. Proceed(calls) /\ UNCHANGED <<zfsVars, faults>>
    BY <1>4, <1>5
  <2>2. TreeCore'
    BY <1>1, <2>1, SameTree DEF zfsVars, TreeCore, ZfsTypeOK
  <2>3. UNCHANGED <<fs, bootfs, mounted, faults>>
    BY <2>1 DEF zfsVars
  <2>4. calls \in EachChild("mount", This)
    BY <1>4
  <2>. QED
    BY <1>5, <2>1, <2>2, <2>3, <2>4, MountProceeds
<1>6. CASE ~(At("mount") /\ ~Managed(This))
  <2>0. PICK can : can = (CanMount(This) /\ (At("mount") => This \notin mounted))
    OBVIOUS
  <2>1. can
    BY <1>2, <1>3, <2>0 DEF CanMount
  <2>2. \/ Mount(This) /\ Proceed(calls) /\ UNCHANGED faults
        \/ Fails(can) /\ UNCHANGED zfsVars /\ Ends("fail")
    BY <1>4, <1>6, <2>0 DEF Call
  <2>3. CASE Mount(This) /\ Proceed(calls) /\ UNCHANGED faults
    <3>1. ZfsTypeOK'
      BY <1>1, <1>2, <2>3, MountType DEF CanMount
    <3>2. mounted' = mounted \cup {This} /\ UNCHANGED <<fs, tmpmp, bootfs>>
      BY <2>3 DEF Mount
    <3>3. TreeCore'
      BY <1>1, <1>2, <3>1, <3>2, TreeMounted
    <3>4. calls \in EachChild("mount", This)
      BY <1>4
    <3>. QED
      BY <2>3, <3>2, <3>3, <3>4, MountProceeds
  <2>4. CASE Fails(can) /\ UNCHANGED zfsVars /\ Ends("fail")
    <3>1. Good(c) /\ (can => faults' > faults)
      BY <2>4, FailGood
    <3>. QED
      BY <2>1, <3>1 DEF FailsByCall
  <2>. QED
    BY <2>2, <2>3, <2>4
<1>. QED
  BY <1>5, <1>6

(***************************************************************************)
(* The start of a command.                                                 *)
(***************************************************************************)
LEMMA OneCall ==
  ASSUME NEW a \in Tasks, todo' = <<a>>
  PROVE  /\ todo' \in Seq(Tasks) /\ todo' # << >> /\ Len(todo') = 1 /\ todo'[1] = a
         /\ \A t \in Pending' : t = a
         /\ a \in Pending'
<1>1. <<a>> \in Seq(Tasks) /\ <<a>> # << >> /\ Len(<<a>>) = 1 /\ <<a>>[1] = a
  OBVIOUS
<1>2. PICK s : s = <<a>>
  OBVIOUS
<1>3. s \in Seq(Tasks) /\ s # << >> /\ Len(s) = 1 /\ s[1] = a
  BY <1>1, <1>2
<1>4. todo' = s
  BY <1>2
<1>. QED
  BY <1>3, <1>4 DEF Pending

\* A stack of two calls.
LEMMA TwoCalls ==
  ASSUME NEW a \in Tasks, NEW b \in Tasks, todo' = <<a, b>>
  PROVE  /\ todo' \in Seq(Tasks) /\ todo' # << >> /\ Len(todo') = 2 /\ todo'[2] = b
         /\ \A t \in Pending' : t = a \/ t = b
         /\ a \in Pending'
<1>1. /\ <<a, b>> \in Seq(Tasks) /\ <<a, b>> # << >> /\ Len(<<a, b>>) = 2
      /\ <<a, b>>[1] = a /\ <<a, b>>[2] = b
  OBVIOUS
<1>2. PICK s : s = <<a, b>>
  OBVIOUS
<1>3. s \in Seq(Tasks) /\ s # << >> /\ Len(s) = 2 /\ s[1] = a /\ s[2] = b
  BY <1>1, <1>2
<1>4. todo' = s
  BY <1>2
<1>5. \A i \in 1 .. Len(s) : i = 1 \/ i = 2
  BY <1>3
<1>. QED
  BY <1>3, <1>4, <1>5 DEF Pending

\* With calls that fit and cover what is to be done, the invariant holds.
LEMMA Starts ==
  ASSUME TreeInv, Idle, NEW c \in Commands, cmd' = c, todo' \in Seq(Tasks), todo' # << >>,
         UNCHANGED <<zfsVars, running, faults, result>>,
         \A t \in Pending' : Fits(t)',
         c.op = "activate" => ActivateRest',
         c.op = "create" => CreateRest',
         c.op = "destroy" => DestroyRest',
         c.op = "mount" => MountRest',
         c.op = "unmount" => UnmountRest'
  PROVE  TreeInv'
<1>1. c # NoCommand
  BY CommandFields
<1>2. TreeCore /\ StackTypes
  BY InvParts
<1>3. TreeCore'
  BY <1>2, SameTree DEF zfsVars, TreeCore, ZfsTypeOK
<1>4. StackTypes'
  BY <1>1, <1>2 DEF StackTypes
<1>5. StackOK'
  BY DEF StackOK
<1>. QED
  BY <1>3, <1>4, <1>5, InvPartsNext

\* A command that passes its checks begins with calls that fit.
LEMMA StartStep ==
  ASSUME TreeInv, Start
  PROVE  TreeInv' /\ [BE!BENext]_BE!bevars
<1>1. Idle /\ UNCHANGED <<zfsVars, running, faults>>
  BY DEF Start
<1>0. [BE!BENext]_BE!bevars
  BY <1>1, BEStays DEF zfsVars
<1>. SUFFICES TreeInv'
  BY <1>0
<1>2. PICK c \in Commands : \E calls \in FirstCalls(c) : cmd' = c /\ todo' = calls /\ UNCHANGED result
  BY DEF Start
<1>3. todo' \in FirstCalls(c) /\ cmd' = c /\ UNCHANGED result
  BY <1>2
<1>4. /\ TreeCore /\ fs \subseteq Datasets /\ mounted \subseteq fs /\ c.be \in Envs
      /\ UNCHANGED <<fs, mounted, bootfs>>
  BY <1>1, InvParts, CoreTypes, CommandFields DEF TreeCore, zfsVars
<1> DEFINE d == Top(c.be)
<1>5. d \in Datasets /\ EnvOf(d) = c.be /\ PathOf(d) = << >> /\ Managed(d)
  BY <1>4, TopFacts
<1>6. ASSUME todo' \in Seq(Tasks), todo' # << >>, \A t \in Pending' : Fits(t)',
             c.op = "activate" => ActivateRest',
             c.op = "create" => CreateRest',
             c.op = "destroy" => DestroyRest',
             c.op = "mount" => MountRest',
             c.op = "unmount" => UnmountRest'
      PROVE  TreeInv'
  BY <1>1, <1>3, <1>6, Starts
<1>7. \A x \in fs : EnvOf(x) = c.be => Covers(d, x)
  BY <1>4, CoversOrder
<1>8. CASE c.op = "activate"
  <2>1. Existing(c.be) /\ todo' = <<Task("set_bootfs", d), Task("promote", d)>>
    BY <1>3, <1>8 DEF FirstCalls
  <2>2. PICK a \in Tasks, b \in Tasks : a = Task("set_bootfs", d) /\ b = Task("promote", d)
    <3>1. "set_bootfs" \in Calls /\ "promote" \in Calls
      BY DEF Calls
    <3>. QED
      BY <1>5, <3>1, TaskFacts
  <2>3. a.call = "set_bootfs" /\ a.ds = d /\ b.call = "promote"
    BY <2>2 DEF Task
  <2>4. /\ todo' \in Seq(Tasks) /\ todo' # << >> /\ a \in Pending'
        /\ \A t \in Pending' : t = a \/ t = b
    BY <2>1, <2>2, TwoCalls
  <2>5. \A t \in Pending' : Fits(t)'
    BY <1>3, <1>4, <1>8, <2>1, <2>3, <2>4 DEF Fits, Existing
  <2>6. ActivateRest'
    BY <2>3, <2>4 DEF ActivateRest
  <2>. QED
    BY <1>6, <1>8, <2>4, <2>5, <2>6
<1>9. CASE c.op = "create"
  <2>1. todo' \in CreateCalls(c)
    BY <1>3, <1>9 DEF FirstCalls
  <2>2. PICK e \in Envs : Source(c) = Top(e)
    BY <1>4, <1>9, SourceFacts
  <2>3. Source(c) \in Datasets
    BY <2>2, TopFacts
  <2>4. \E s \in Suffixes : \/ todo' = <<SnapTask("clone", Source(c), s)>>
                            \/ \E k \in {"snap", "snap_tree"} :
                                 todo' = <<SnapTask(k, Source(c), s), SnapTask("clone", Source(c), s)>>
    <3>1. CASE c.snap # NoName
      <4>1. c.snap \in Suffixes
        BY <1>9, <3>1, CommandFields
      <4>. QED
        BY <2>1, <3>1, <4>1 DEF CreateCalls
    <3>2. CASE c.snap = NoName
      BY <2>1, <3>2 DEF CreateCalls
    <3>. QED
      BY <3>1, <3>2
  <2>5. PICK s \in Suffixes : \/ todo' = <<SnapTask("clone", Source(c), s)>>
                              \/ \E k \in {"snap", "snap_tree"} :
                                   todo' = <<SnapTask(k, Source(c), s), SnapTask("clone", Source(c), s)>>
    BY <2>4
  <2>6. Source(c)' = Source(c)
    BY <1>4 DEF Source
  <2>7. PICK b \in Tasks : b = SnapTask("clone", Source(c), s)
    <3>1. "clone" \in Calls
      BY DEF Calls
    <3>. QED
      BY <2>3, <3>1, TaskFacts
  <2>8. b.call = "clone" /\ b.ds = Source(c) /\ b.snap = s
    BY <2>7 DEF SnapTask
  <2>9. CASE todo' = <<SnapTask("clone", Source(c), s)>>
    <3>1. /\ todo' \in Seq(Tasks) /\ todo' # << >> /\ Len(todo') = 1 /\ todo'[1] = b
          /\ \A t \in Pending' : t = b
      BY <2>7, <2>9, OneCall
    <3>2. \A t \in Pending' : Fits(t)'
      BY <1>3, <1>9, <2>6, <2>8, <3>1 DEF Fits
    <3>3. CreateRest'
      BY <2>8, <3>1 DEF CreateRest
    <3>. QED
      BY <1>6, <1>9, <3>1, <3>2, <3>3
  <2>10. ASSUME NEW k \in {"snap", "snap_tree"},
                todo' = <<SnapTask(k, Source(c), s), SnapTask("clone", Source(c), s)>>
         PROVE  TreeInv'
    <3>1. PICK a \in Tasks : a = SnapTask(k, Source(c), s)
      <4>1. k \in Calls
        BY <2>10 DEF Calls
      <4>. QED
        BY <2>3, <4>1, TaskFacts
    <3>2. a.call \in {"snap", "snap_tree"} /\ a.snap = s
      BY <2>10, <3>1 DEF SnapTask
    <3>3. /\ todo' \in Seq(Tasks) /\ todo' # << >> /\ Len(todo') = 2 /\ todo'[2] = b
          /\ \A t \in Pending' : t = a \/ t = b
      BY <2>7, <2>10, <3>1, TwoCalls
    <3>4. \A t \in Pending' : Fits(t)'
      BY <1>3, <1>9, <2>6, <2>8, <3>2, <3>3 DEF Fits
    <3>5. CreateRest'
      BY <2>8, <3>3 DEF CreateRest
    <3>. QED
      BY <1>6, <1>9, <3>3, <3>4, <3>5
  <2>. QED
    BY <2>5, <2>9, <2>10
<1>10. CASE c.op = "destroy"
  <2>1. MayDestroy(c.be) /\ todo' = <<Task("destroy", d)>>
    BY <1>3, <1>10 DEF FirstCalls
  <2>2. PICK a \in Tasks : a = Task("destroy", d)
    <3>1. "destroy" \in Calls
      BY DEF Calls
    <3>. QED
      BY <1>5, <3>1, TaskFacts
  <2>3. a.call = "destroy" /\ a.ds = d
    BY <2>2 DEF Task
  <2>4. todo' \in Seq(Tasks) /\ todo' # << >> /\ a \in Pending' /\ \A t \in Pending' : t = a
    BY <2>1, <2>2, OneCall
  <2>5. \A t \in Pending' : Fits(t)'
    BY <1>1, <1>3, <1>4, <1>5, <1>10, <2>1, <2>3, <2>4 DEF Fits, MayDestroy, IsActive, IsRoot
  <2>6. DestroyRest'
    BY <1>3, <2>3, <2>4 DEF DestroyRest
  <2>. QED
    BY <1>6, <1>10, <2>4, <2>5, <2>6
<1>11. CASE c.op = "rename"
  <2>1. MayRename(c.be, c.to) /\ todo' = <<Task("rename", d)>>
    BY <1>3, <1>11 DEF FirstCalls
  <2>2. PICK a \in Tasks : a = Task("rename", d)
    <3>1. "rename" \in Calls
      BY DEF Calls
    <3>. QED
      BY <1>5, <3>1, TaskFacts
  <2>3. a.call = "rename"
    BY <2>2 DEF Task
  <2>4. todo' \in Seq(Tasks) /\ todo' # << >> /\ Len(todo') = 1 /\ \A t \in Pending' : t = a
    BY <2>1, <2>2, OneCall
  <2>5. MayRename(c.be, c.to)'
    BY <1>1, <1>4, <2>1 DEF MayRename, Existing, IsRoot, IsActive
  <2>6. \A t \in Pending' : Fits(t)'
    BY <1>3, <1>11, <2>3, <2>4, <2>5 DEF Fits
  <2>. QED
    BY <1>6, <1>11, <2>4, <2>6
<1>12. CASE c.op = "snapshot"
  <2>1. todo' = <<SnapTask("snap_tree", d, c.suffix)>>
    BY <1>3, <1>12 DEF FirstCalls
  <2>2. PICK a \in Tasks : a = SnapTask("snap_tree", d, c.suffix)
    <3>1. "snap_tree" \in Calls /\ c.suffix \in Suffixes
      BY <1>12, CommandFields DEF Calls
    <3>. QED
      BY <1>5, <3>1, TaskFacts
  <2>4. todo' \in Seq(Tasks) /\ todo' # << >> /\ \A t \in Pending' : t = a
    BY <2>1, <2>2, OneCall
  <2>5. \A t \in Pending' : Fits(t)'
    BY <1>3, <1>12, <2>2, <2>4 DEF Fits
  <2>. QED
    BY <1>6, <1>12, <2>4, <2>5
<1>13. CASE c.op = "mount"
  <2>1. Existing(c.be) /\ ~IsRoot(c.be) /\ d \notin mounted /\ todo' = <<Task("mount_top", d)>>
    BY <1>3, <1>13 DEF FirstCalls
  <2>2. PICK a \in Tasks : a = Task("mount_top", d)
    <3>1. "mount_top" \in Calls
      BY DEF Calls
    <3>. QED
      BY <1>5, <3>1, TaskFacts
  <2>3. a.call = "mount_top" /\ a.ds = d
    BY <2>2 DEF Task
  <2>4. /\ todo' \in Seq(Tasks) /\ todo' # << >> /\ a \in Pending' /\ \A t \in Pending' : t = a
        /\ Len(todo') = 1
    BY <2>1, <2>2, OneCall
  <2>5. ASSUME NEW x \in fs, Covers(x, d) PROVE x = d
    <3>0. x \in Datasets /\ Len(d[2]) = 1
      BY <1>4, <2>5, TopFacts
    <3>1. Len(x[2]) <= 1 /\ Len(x[2]) >= 1 /\ Len(x[2]) \in Nat /\ EnvOf(x) = c.be /\ x \in Datasets
      <4>1. Len(x[2]) <= Len(d[2]) /\ EnvOf(x) = EnvOf(d)
        BY <1>5, <2>5, <3>0, CoversOrder
      <4>2. Len(x[2]) >= 1 /\ Len(x[2]) \in Nat
        BY <3>0, DatasetIs
      <4>. QED
        BY <1>5, <3>0, <4>1, <4>2
    <3>2. Len(x[2]) = 1
      <4>1. \A l \in Nat : l <= 1 /\ l >= 1 => l = 1
        OBVIOUS
      <4>. QED
        BY <3>1, <4>1
    <3>. QED
      BY <3>1, <3>2, CoversOrder
  <2>6. \A t \in Pending' : Fits(t)'
    <3>1. d \in fs
      BY <2>1 DEF Existing
    <3>. QED
      BY <1>1, <1>3, <1>4, <1>5, <1>13, <2>1, <2>3, <2>4, <2>5, <3>1 DEF Fits, IsRoot
  <2>7. \A x \in mounted : ~Covers(d, x)
    <3>1. SUFFICES ASSUME NEW x \in mounted, Covers(d, x) PROVE FALSE
      OBVIOUS
    <3>. QED
      BY <1>4, <1>5, <2>1, <3>1 DEF TreeCore, MountsNested, Covers, Existing
  <2>8. MountRest'
    <3>1. \A i, j \in 1 .. Len(todo') : i = j
      BY <2>4
    <3>. QED
      BY <1>3, <1>4, <1>7, <2>3, <2>4, <2>7, <3>1 DEF MountRest, Covers
  <2>. QED
    BY <1>6, <1>13, <2>4, <2>6, <2>8
<1>14. CASE c.op = "unmount"
  <2>1. ~IsRoot(c.be) /\ todo' = <<Task("unmount", d)>>
    BY <1>3, <1>14 DEF FirstCalls
  <2>2. PICK a \in Tasks : a = Task("unmount", d)
    <3>1. "unmount" \in Calls
      BY DEF Calls
    <3>. QED
      BY <1>5, <3>1, TaskFacts
  <2>3. a.call = "unmount" /\ a.ds = d
    BY <2>2 DEF Task
  <2>4. /\ todo' \in Seq(Tasks) /\ todo' # << >> /\ a \in Pending' /\ \A t \in Pending' : t = a
        /\ Len(todo') = 1 /\ todo'[1] = a
    BY <2>1, <2>2, OneCall
  <2>5. \A t \in Pending' : Fits(t)'
    BY <1>1, <1>3, <1>5, <1>14, <2>1, <2>3, <2>4 DEF Fits, IsRoot
  <2>6. UnmountRest'
    <3>1. \A i \in 1 .. Len(todo') : todo'[i].call # "unmount_fs"
      BY <2>3, <2>4
    <3>2. \A x \in mounted : EnvOf(x) = c.be => Unmounts(a, x)
      BY <1>4, <1>7, <2>3 DEF Unmounts
    <3>. QED
      BY <1>3, <1>4, <2>4, <3>1, <3>2 DEF UnmountRest, Unmounts, Covers
  <2>. QED
    BY <1>6, <1>14, <2>4, <2>5, <2>6
<1>. QED
  BY <1>8, <1>9, <1>10, <1>11, <1>12, <1>13, <1>14, CommandFields

(***************************************************************************)
(* The steps that are no call of a command.                                *)
(***************************************************************************)
\* A dataset that is no top dataset appears while no command runs.
LEMMA OutsideStep ==
  ASSUME TreeInv, Idle, NEW e \in Envs, NEW k \in Paths, k # << >>, NEW d, d = Root(<<e>> \o k),
         d \notin fs, Root(SeqX!Front(d[2])) \in fs,
         fs' = fs \cup {d}, UNCHANGED <<tmpmp, bootfs, running, cmd, todo, result, faults>>,
         ZfsTypeOK',
         \/ mounted' = mounted /\ (e # running \/ ~Managed(d))
         \/ mounted' = mounted \cup {d} /\ e = running
  PROVE  TreeInv' /\ [BE!BENext]_BE!bevars
<1>1. d \in Datasets /\ EnvOf(d) = e /\ PathOf(d) = k
  BY DatasetOf
<1>2. TreeCore /\ StackTypes
  BY InvParts
<1>3. TreeCore'
  BY <1>1, <1>2, TreeGrows
<1>4. StackTypes' /\ Idle'
  BY <1>2 DEF StackTypes, Idle
<1>5. \A f \in Envs : Top(f) # d
  BY <1>1, TopFacts
<1>6. [BE!BENext]_BE!bevars
  BY <1>5, BEStays
<1>. QED
  BY <1>3, <1>4, <1>6, InvPartsNext

\* zfs create below the running environment, by somebody else.
LEMMA AddStep ==
  ASSUME TreeInv, AddDataset
  PROVE  TreeInv' /\ [BE!BENext]_BE!bevars
<1>1. PICK k \in Kids : LET d == Root(<<running>> \o k) IN
        /\ d \notin fs /\ Root(SeqX!Front(d[2])) \in fs
        /\ fs' = fs \cup {d}
        /\ mounted' = IF Managed(d) THEN mounted \cup {d} ELSE mounted
  BY DEF AddDataset
<1>2. Idle /\ UNCHANGED <<snaps, origin, tmpmp, bootfs, running, cmd, todo, result, faults>>
  BY DEF AddDataset
<1>3. TreeCore /\ ZfsTypeOK /\ running \in Envs
  BY InvParts DEF TreeCore
<1>4. k \in Paths /\ k # << >>
  BY DatasetTreeAssumption DEF Paths
<1>5. PICK d : d = Root(<<running>> \o k)
  OBVIOUS
<1>6. d \in Datasets /\ EnvOf(d) = running
  BY <1>3, <1>4, <1>5, DatasetOf
<1>7. /\ d \notin fs /\ Root(SeqX!Front(d[2])) \in fs /\ fs' = fs \cup {d}
      /\ \/ mounted' = mounted /\ ~Managed(d)
         \/ mounted' = mounted \cup {d}
  BY <1>1, <1>5
<1>8. ZfsTypeOK'
  BY <1>2, <1>3, <1>6, <1>7 DEF ZfsTypeOK
<1>9. PICK e \in Envs : e = running
  BY <1>3
<1>. QED
  BY <1>2, <1>4, <1>5, <1>7, <1>8, <1>9, OutsideStep

\* zfs clone below another environment, by somebody else.
LEMMA CloneStep ==
  ASSUME TreeInv, CloneDataset
  PROVE  TreeInv' /\ [BE!BENext]_BE!bevars
<1>1. PICK e \in Envs, x \in fs : LET d == Root(<<e>> \o PathOf(x)) IN
        /\ e # running /\ PathOf(x) # << >> /\ Root(SeqX!Front(d[2])) \in fs
        /\ \E s \in SnapsOf(x) : CanClone(d, x, s) /\ Clone(d, x, s)
  BY DEF CloneDataset
<1>2. Idle /\ UNCHANGED <<running, cmd, todo, result, faults>>
  BY DEF CloneDataset
<1>3. ZfsTypeOK /\ x \in Datasets
  BY InvParts, CoreTypes DEF TreeCore
<1>4. PICK k \in Paths : k = PathOf(x)
  BY <1>3, DatasetIs
<1>5. PICK d : d = Root(<<e>> \o k)
  OBVIOUS
<1>6. d \in Datasets
  BY <1>5, DatasetOf
<1>7. /\ e # running /\ k # << >> /\ Root(SeqX!Front(d[2])) \in fs
      /\ \E s \in SnapsOf(x) : CanClone(d, x, s) /\ Clone(d, x, s)
  BY <1>1, <1>4, <1>5
<1>8. ZfsTypeOK' /\ d \notin fs /\ fs' = fs \cup {d} /\ UNCHANGED <<mounted, tmpmp, bootfs>>
  <2>1. PICK s \in SnapsOf(x) : CanClone(d, x, s) /\ Clone(d, x, s)
    BY <1>7
  <2>2. ZfsTypeOK'
    BY <1>3, <1>6, <2>1, CloneType
  <2>. QED
    BY <2>1, <2>2 DEF CanClone, Clone
<1>. QED
  BY <1>2, <1>5, <1>7, <1>8, OutsideStep

\* A command is killed between two calls.
LEMMA KillStep ==
  ASSUME TreeInv, Kill
  PROVE  TreeInv' /\ [BE!BENext]_BE!bevars /\ Kept /\ result' = "killed"
<1>1. Ends("killed") /\ UNCHANGED <<zfsVars, running, faults>>
  BY DEF Kill
<1>2. TreeCore'
  BY <1>1, InvParts, SameTree DEF zfsVars, TreeCore, ZfsTypeOK
<1>3. StackTypes' /\ Idle'
  BY <1>1, InvParts, EmptySeq DEF Ends, StackTypes, Idle
<1>4. Kept /\ [BE!BENext]_BE!bevars
  BY <1>1, BEStays DEF Kept, zfsVars
<1>. QED
  BY <1>1, <1>2, <1>3, <1>4, InvPartsNext DEF Ends

\* The machine boots an existing environment.
LEMMA RebootStep ==
  ASSUME TreeInv, Reboot
  PROVE  TreeInv' /\ [BE!BENext]_BE!bevars
<1>1. PICK e \in Envs : /\ Existing(e) /\ running' = e
                        /\ mounted' = {d \in fs \cap Tree(e) : Managed(d)}
  BY DEF Reboot
<1>2. Idle /\ UNCHANGED <<fs, snaps, origin, tmpmp, bootfs, cmd, todo, result, faults>>
  BY DEF Reboot
<1>3. TreeCore'
  BY <1>1, <1>2, InvParts, TreeRebooted
<1>4. StackTypes' /\ Idle'
  BY <1>2, InvParts DEF StackTypes, Idle
<1>5. BE!RebootInto(e)
  BY <1>1, <1>2 DEF BE!RebootInto, Existing
<1>. QED
  BY <1>3, <1>4, <1>5, InvPartsNext DEF BE!BENext

\* The initial states.
LEMMA Initial == TreeInit => TreeInv /\ BE!BEInit
<1>. SUFFICES ASSUME NEW e \in Envs, ZfsInit(<<e>>), running = e, cmd = NoCommand,
                     todo = << >>, result = "none", faults = 0
              PROVE  TreeInv /\ BE!BEInit
  BY DEF TreeInit
<1>1. TreeCore
  BY TreeInitCore
<1>2. StackTypes /\ Idle
  BY EmptySeq, DatasetTreeAssumption DEF StackTypes, Idle
<1>3. \A f \in Envs : Existing(f) <=> f = e
  <2>1. fs = {Top(e)}
    BY DatasetTreeAssumption DEF ZfsInit, Pools, Top, Root
  <2>. QED
    BY <2>1, TopFacts DEF Existing
<1>4. {f \in Envs : Existing(f)} = {e} /\ bootfs[1] = e
  BY <1>3 DEF ZfsInit
<1>. QED
  BY <1>1, <1>2, <1>4, InvParts DEF BE!BEInit

(***************************************************************************)
(* Every step.                                                             *)
(***************************************************************************)
LEMMA TreeStep ==
  ASSUME TreeInv, [TreeNext]_treeVars
  PROVE  /\ TreeInv'
         /\ [BE!BENext]_BE!bevars
         /\ ~Idle => Kept
         /\ \A c \in Commands : cmd = c /\ Returns("ok") => Accomplished(c)'
         /\ ~Idle /\ cmd.op \in {"mount", "unmount"} => FailsByCall
<1>1. PICK c : c = cmd
  OBVIOUS
<1>2. CASE Start
  <2>1. Idle
    BY <1>2 DEF Start
  <2>. QED
    BY <1>2, <2>1, StartStep DEF Returns
<1>3. CASE CommandStep /\ UNCHANGED running
  <2>1. /\ ~Idle
        /\ \/ cmd.op = "activate" /\ (SetActive \/ PromoteClones)
           \/ cmd.op = "create" /\ (TakeSnapshot \/ CloneTree)
           \/ cmd.op = "destroy" /\ (DestroyVisit \/ DestroyChildren \/ DestroyDataset)
           \/ cmd.op = "mount" /\ MountDown
           \/ cmd.op = "rename" /\ RenameBE
           \/ cmd.op = "snapshot" /\ TakeSnapshot
           \/ cmd.op = "unmount" /\ (UnmountUp \/ UnmountDataset)
    BY <1>3, StepOf
  <2>2. ASSUME Good(c), cmd.op \in {"mount", "unmount"} => FailsByCall
        PROVE  /\ TreeInv'
               /\ [BE!BENext]_BE!bevars
               /\ ~Idle => Kept
               /\ \A d \in Commands : cmd = d /\ Returns("ok") => Accomplished(d)'
               /\ ~Idle /\ cmd.op \in {"mount", "unmount"} => FailsByCall
    BY <1>1, <2>2 DEF Good
  <2>3. CASE cmd.op = "activate" /\ (SetActive \/ PromoteClones)
    BY <1>1, <1>3, <2>1, <2>2, <2>3, ActivateStep
  <2>4. CASE cmd.op = "create" /\ (TakeSnapshot \/ CloneTree)
    BY <1>1, <1>3, <2>1, <2>2, <2>4, CreateSnapshots, CreateClones
  <2>5. CASE cmd.op = "destroy" /\ (DestroyVisit \/ DestroyChildren \/ DestroyDataset)
    BY <1>1, <1>3, <2>1, <2>2, <2>5, DestroyVisits, DestroyChildrenVisits, DestroyDatasets
  <2>6. CASE cmd.op = "mount" /\ MountDown
    BY <1>1, <1>3, <2>1, <2>2, <2>6, MountStep
  <2>7. CASE cmd.op = "rename" /\ RenameBE
    BY <1>1, <1>3, <2>1, <2>2, <2>7, RenameStep
  <2>8. CASE cmd.op = "snapshot" /\ TakeSnapshot
    BY <1>1, <1>3, <2>1, <2>2, <2>8, SnapshotStep
  <2>9. CASE cmd.op = "unmount" /\ (UnmountUp \/ UnmountDataset)
    BY <1>1, <1>3, <2>1, <2>2, <2>9, UnmountStep
  <2>. QED
    BY <2>1, <2>3, <2>4, <2>5, <2>6, <2>7, <2>8, <2>9
<1>4. CASE AddDataset
  <2>1. Idle
    BY <1>4 DEF AddDataset
  <2>. QED
    BY <1>4, <2>1, AddStep DEF Returns
<1>5. CASE CloneDataset
  <2>1. Idle
    BY <1>5 DEF CloneDataset
  <2>. QED
    BY <1>5, <2>1, CloneStep DEF Returns
<1>6. CASE Kill
  <2>1. ~Returns("ok") /\ ~Returns("fail")
    BY <1>6, KillStep DEF Returns
  <2>. QED
    BY <1>6, <2>1, KillStep DEF FailsByCall
<1>7. CASE Reboot
  <2>1. Idle
    BY <1>7 DEF Reboot
  <2>. QED
    BY <1>7, <2>1, RebootStep DEF Returns
<1>8. CASE UNCHANGED treeVars
  <2>1. UNCHANGED <<zfsVars, fs, snaps, origin, mounted, tmpmp, bootfs, running, cmd, todo, result, faults>>
    BY <1>8 DEF treeVars, zfsVars
  <2>2. TreeCore'
    BY <2>1, InvParts, SameTree DEF TreeCore, ZfsTypeOK
  <2>3. StackTypes'
    BY <2>1, InvParts DEF StackTypes
  <2>4. ~Idle' => StackOK'
    <3>1. (~Idle => StackOK)'
      BY <2>1, InvParts DEF Idle, StackOK, Pending, Fits, ActivateRest, CreateRest, DestroyRest, MountRest,
         UnmountRest, IsActive, IsRoot, Existing, MayRename, Source, Unmounts, Covers
    <3>. QED
      BY <3>1
  <2>5. TreeInv'
    BY <2>2, <2>3, <2>4, InvPartsNext
  <2>6. ~Returns("ok") /\ ~Returns("fail")
    BY <2>1 DEF Returns, Idle
  <2>7. Kept /\ [BE!BENext]_BE!bevars
    BY <2>1, BEStays DEF Kept
  <2>. QED
    BY <2>5, <2>6, <2>7 DEF FailsByCall
<1>. QED
  BY <1>2, <1>3, <1>4, <1>5, <1>6, <1>7, <1>8 DEF TreeNext

(***************************************************************************)
(* The theorems.                                                           *)
(***************************************************************************)
\* The inductive invariant: the trees, the mounts, and what the calls on the
\* stack of the running command have still to do.
THEOREM TreeInvariant == TreeSpec => []TreeInv
<1>1. TreeInit => TreeInv
  BY Initial
<1>2. TreeInv /\ [TreeNext]_treeVars => TreeInv'
  BY TreeStep
<1>. QED
  BY <1>1, <1>2, PTL DEF TreeSpec

\* The pool, the trees and the stack keep their types.
THEOREM TreeTypeCorrect == TreeSpec => []TreeTypeOK
<1>1. TreeInv => TreeTypeOK
  BY DEF TreeInv
<1>. QED
  BY <1>1, TreeInvariant, PTL

\* mount_callback, unmount_callback and libze_destroy_cb, wherever they stop,
\* leave no dataset mounted below one that is not.
THEOREM MountsStayNested == TreeSpec => []MountsNested
<1>1. TreeInv => MountsNested
  BY DEF TreeInv
<1>. QED
  BY <1>1, TreeInvariant, PTL

\* The callbacks of a command take no dataset and no mount from another
\* environment or from the running one.
THEOREM TreeOthersKept == TreeSpec => OthersKept
<1>1. TreeInv /\ [TreeNext]_treeVars =>
        [~Idle => \A d \in fs :
           EnvOf(d) # cmd.be \/ EnvOf(d) = running =>
             d \in fs' /\ (d \in mounted => d \in mounted')]_treeVars
  BY TreeStep DEF Kept
<1>. QED
  BY <1>1, TreeInvariant, PTL DEF TreeSpec, OthersKept

\* A mount or unmount that was accepted fails only when one of its calls does.
THEOREM TreeWalksComplete == TreeSpec => WalksComplete
<1>1. TreeInv /\ [TreeNext]_treeVars =>
        [cmd # NoCommand /\ cmd.op \in {"mount", "unmount"} /\ Returns("fail") =>
           faults' > faults]_treeVars
  BY TreeStep DEF FailsByCall, Idle
<1>. QED
  BY <1>1, TreeInvariant, PTL DEF TreeSpec, WalksComplete

\* A command that exits with success has dealt with the whole tree.
THEOREM TreeSuccess == TreeSpec => TreeSuccessIsReal
<1>1. TreeInv /\ [TreeNext]_treeVars =>
        [Returns("ok") => \A c \in Commands : cmd = c => Accomplished(c)']_treeVars
  BY TreeStep
<1>. QED
  BY <1>1, TreeInvariant, PTL DEF TreeSpec, TreeSuccessIsReal

\* With child datasets too, each command is one atomic operation of BootEnvs
\* on the top datasets.
THEOREM TreeBERefinement == TreeSpec => TreeImplementsBootEnvs
<1>1. TreeInit => BE!BEInit
  BY Initial
<1>2. TreeInv /\ [TreeNext]_treeVars => [BE!BENext]_BE!bevars
  BY TreeStep
<1>. QED
  BY <1>1, <1>2, TreeInvariant, PTL DEF TreeSpec, TreeImplementsBootEnvs, BE!BESpec
=============================================================================
