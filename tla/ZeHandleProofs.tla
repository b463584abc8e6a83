--------------------------- MODULE ZeHandleProofs ---------------------------
(***************************************************************************)
(* Proofs about handles, for any number of processes, environments,        *)
(* arguments and boot loaders: what set writes is what get shows and what  *)
(* decides about the plugin, and a list has a line for every environment.  *)
(*                                                                         *)
(* The first part is about strings: the name get looks for is the one set  *)
(* has written, different names stay different, and all are in the         *)
(* namespace.                                                              *)
(***************************************************************************)
EXTENDS ZeHistory, TLAPS, SequenceTheorems, WellFoundedInduction

(***************************************************************************)
(* Places in a string.                                                     *)
(***************************************************************************)
\* A set of numbers has a least one.
LEMMA LeastNumber ==
  ASSUME NEW T, T \subseteq Nat, T # {}
  PROVE  \E x \in T : \A y \in T : x <= y
<1>1. PICK x \in T : \A y \in T : <<y, x>> \notin OpToRel(<, Nat)
  BY NatLessThanWellFounded, WFMin
<1>2. \A y \in T : ~(y < x)
  BY <1>1 DEF OpToRel
<1> QED
  BY <1>2

\* A set of numbers up to n has a greatest one.
LEMMA GreatestNumber ==
  ASSUME NEW n \in Nat, NEW T, T \subseteq 0 .. n, T # {}
  PROVE  \E x \in T : \A y \in T : y <= x
<1> DEFINE U == {n - x : x \in T}
<1>1. U \subseteq Nat /\ U # {}
  <2>1. \A x \in T : x \in 0 .. n
    OBVIOUS
  <2>2. \A x \in T : n - x \in Nat
    BY <2>1
  <2> QED
    BY <2>2
<1>2. PICK u \in U : \A v \in U : u <= v
  BY <1>1, LeastNumber
<1>3. PICK x \in T : u = n - x
  BY <1>2
<1>4. \A y \in T : n - x <= n - y
  BY <1>2, <1>3
<1> QED
  BY <1>4

\* The first and the last place of a token that is there.
LEMMA PlaceFacts ==
  ASSUME NEW s \in Seq(Tokens), NEW d, Places(s, d) # {}
  PROVE  /\ First(s, d) \in 1 .. Len(s) /\ s[First(s, d)] = d
         /\ \A i \in 1 .. Len(s) : s[i] = d => First(s, d) <= i
         /\ Last(s, d) \in 1 .. Len(s) /\ s[Last(s, d)] = d
         /\ \A i \in 1 .. Len(s) : s[i] = d => i <= Last(s, d)
<1>1. Len(s) \in Nat /\ Places(s, d) \subseteq 1 .. Len(s)
  BY DEF Places
<1>2. \E i \in Places(s, d) : \A j \in Places(s, d) : i <= j
  <2>1. Places(s, d) \subseteq Nat
    BY <1>1
  <2> QED
    BY <2>1, LeastNumber
<1>3. \E i \in Places(s, d) : \A j \in Places(s, d) : j <= i
  <2>1. Places(s, d) \subseteq 0 .. Len(s)
    BY <1>1
  <2> QED
    BY <1>1, <2>1, GreatestNumber
<1>4. First(s, d) \in Places(s, d) /\ \A j \in Places(s, d) : First(s, d) <= j
  BY <1>2 DEF First
<1>5. Last(s, d) \in Places(s, d) /\ \A j \in Places(s, d) : j <= Last(s, d)
  BY <1>3 DEF Last
<1> QED
  BY <1>4, <1>5 DEF Places

\* What is before a place of a string, and what is after it.
LEMMA PartFacts ==
  ASSUME NEW s \in Seq(Tokens), NEW i \in 1 .. Len(s)
  PROVE  /\ Before(s, i) \in Seq(Tokens) /\ Len(Before(s, i)) = i - 1
         /\ \A j \in 1 .. i - 1 : Before(s, i)[j] = s[j]
         /\ After(s, i) \in Seq(Tokens) /\ Len(After(s, i)) = Len(s) - i
         /\ \A j \in 1 .. Len(s) - i : After(s, i)[j] = s[i + j]
<1>1. Len(s) \in Nat /\ \A j \in 1 .. Len(s) : s[j] \in Tokens
  BY ElementOfSeq
<1>2. /\ \A j \in 1 .. i - 1 : s[j] \in Tokens
      /\ \A j \in i + 1 .. Len(s) : s[j] \in Tokens
  BY <1>1
<1>3. /\ Before(s, i) \in Seq(Tokens) /\ Len(Before(s, i)) = i - 1
      /\ \A j \in 1 .. i - 1 : Before(s, i)[j] = s[j]
  BY <1>1, <1>2, SubSeqProperties DEF Before
<1>4. /\ After(s, i) \in Seq(Tokens) /\ Len(After(s, i)) = Len(s) - i
      /\ \A j \in 1 .. Len(s) - i : After(s, i)[j] = s[i + j]
  BY <1>1, <1>2, SubSeqProperties DEF After
<1> QED
  BY <1>3, <1>4

\* A string is what is before a place of it, what is there, and what is after it.
LEMMA PartsJoin ==
  ASSUME NEW s \in Seq(Tokens), NEW i \in 1 .. Len(s)
  PROVE  Before(s, i) \o <<s[i]>> \o After(s, i) = s
<1> DEFINE b == Before(s, i)
           a == After(s, i)
           t == b \o <<s[i]>>
<1>1. /\ b \in Seq(Tokens) /\ Len(b) = i - 1 /\ \A j \in 1 .. i - 1 : b[j] = s[j]
      /\ a \in Seq(Tokens) /\ Len(a) = Len(s) - i /\ \A j \in 1 .. Len(s) - i : a[j] = s[i + j]
  BY PartFacts
<1>2. <<s[i]>> \in Seq(Tokens) /\ Len(<<s[i]>>) = 1 /\ Len(s) \in Nat
  BY ElementOfSeq
<1> HIDE DEF a, b
<1>3. t \in Seq(Tokens) /\ Len(t) = i /\ \A j \in 1 .. i : t[j] = s[j]
  BY <1>1, <1>2, ConcatProperties
<1> HIDE DEF t
<1>4. /\ t \o a \in Seq(Tokens) /\ Len(t \o a) = Len(s)
      /\ \A j \in 1 .. Len(s) : (t \o a)[j] = IF j <= i THEN t[j] ELSE a[j - i]
  <2>1. /\ t \o a \in Seq(Tokens) /\ Len(t \o a) = Len(t) + Len(a)
        /\ \A j \in 1 .. Len(t) + Len(a) : (t \o a)[j] = IF j <= Len(t) THEN t[j] ELSE a[j - Len(t)]
    BY <1>1, <1>3, ConcatProperties
  <2>2. Len(t) + Len(a) = Len(s)
    BY <1>1, <1>2, <1>3
  <2> QED
    BY <1>3, <2>1, <2>2
<1>5. \A j \in 1 .. Len(s) : (t \o a)[j] = s[j]
  <2>1. ASSUME NEW j \in 1 .. Len(s), j > i
        PROVE  a[j - i] = s[j]
    <3>1. j - i \in 1 .. Len(s) - i /\ i + (j - i) = j
      BY <1>2, <2>1
    <3> QED
      BY <1>1, <3>1
  <2> QED
    BY <1>3, <1>4, <2>1
<1>6. t \o a = s
  BY <1>4, <1>5, SeqEqual
<1> QED
  BY <1>6 DEF t, a, b

\* The first place is the one with none before it.
LEMMA FirstIs ==
  ASSUME NEW s \in Seq(Tokens), NEW d, NEW i \in 1 .. Len(s), s[i] = d,
         \A j \in 1 .. i - 1 : s[j] # d
  PROVE  Places(s, d) # {} /\ First(s, d) = i
<1>1. i \in Places(s, d)
  BY DEF Places
<1>2. /\ First(s, d) \in 1 .. Len(s) /\ s[First(s, d)] = d
      /\ First(s, d) <= i
  BY <1>1, PlaceFacts
<1> QED
  BY <1>1, <1>2

\* A string after a prefix of two tokens.
LEMMA AfterPrefix ==
  ASSUME NEW s \in Seq(Tokens), NEW t \in Seq(Tokens), Len(s) = 2
  PROVE  /\ s \o t \in Seq(Tokens) /\ Len(s \o t) = Len(t) + 2
         /\ (s \o t)[1] = s[1] /\ (s \o t)[2] = s[2]
         /\ \A i \in 1 .. Len(t) : (s \o t)[i + 2] = t[i]
<1> DEFINE g == s \o t
<1>1. /\ g \in Seq(Tokens) /\ Len(g) = 2 + Len(t) /\ Len(t) \in Nat
      /\ \A i \in 1 .. 2 + Len(t) : g[i] = IF i <= 2 THEN s[i] ELSE t[i - 2]
  <2>1. /\ g \in Seq(Tokens) /\ Len(g) = Len(s) + Len(t)
        /\ \A i \in 1 .. Len(s) + Len(t) : g[i] = IF i <= Len(s) THEN s[i] ELSE t[i - Len(s)]
    BY ConcatProperties
  <2> QED
    BY <2>1
<1> HIDE DEF g
<1>2. g[1] = s[1] /\ g[2] = s[2] /\ Len(g) = Len(t) + 2
  BY <1>1
<1>3. \A i \in 1 .. Len(t) : g[i + 2] = t[i]
  <2>1. \A i \in 1 .. Len(t) : i + 2 \in 1 .. 2 + Len(t) /\ ~(i + 2 <= 2) /\ (i + 2) - 2 = i
    BY <1>1
  <2> QED
    BY <1>1, <2>1
<1> QED
  BY <1>1, <1>2, <1>3 DEF g

\* Two strings of one token make one of two.
LEMMA TwoTokens ==
  ASSUME NEW x \in Tokens, NEW y \in Tokens
  PROVE  <<x>> \o <<y>> = <<x, y>>
<1> DEFINE u == <<x>>
           v == <<y>>
           w == <<x, y>>
<1>1. /\ u \in Seq(Tokens) /\ v \in Seq(Tokens) /\ w \in Seq(Tokens)
      /\ Len(u) = 1 /\ Len(v) = 1 /\ Len(w) = 2
      /\ u[1] = x /\ v[1] = y /\ w[1] = x /\ w[2] = y
  OBVIOUS
<1> HIDE DEF u, v, w
<1>2. /\ u \o v \in Seq(Tokens) /\ Len(u \o v) = Len(u) + Len(v)
      /\ \A i \in 1 .. Len(u) + Len(v) : (u \o v)[i] = IF i <= Len(u) THEN u[i] ELSE v[i - Len(u)]
  BY <1>1, ConcatProperties
<1>3. u \o v \in Seq(Tokens) /\ Len(u \o v) = 2 /\ (u \o v)[1] = x /\ (u \o v)[2] = y
  BY <1>1, <1>2
<1>4. \A i \in 1 .. 2 : i = 1 \/ i = 2
  OBVIOUS
<1>5. u \o v = w
  BY <1>1, <1>3, <1>4, SeqEqual
<1> QED
  BY <1>5 DEF u, v, w

\* libze_util_split, get_snap_and_dataset, libze_boot_env_name,
\* libze_get_zpool_name_from_dataset, for every name and every buffer: the two
\* ways to take a snapshot apart, of zectl snapshot and of zectl create -e, agree;
\* what is taken apart and put together is what it was; and what is taken for an
\* environment or a pool has no '/' in it.
THEOREM NamesAgreeAlways ==
  ASSUME NEW s \in Seq(Tokens), NEW n \in Nat
  PROVE  /\ SnapAndDataset(s, n) = Split(s, n, "@")
         /\ Len(s) <= n /\ Places(s, "@") # {} =>
              Concat(Split(s, n, "@")[1], <<"@">>, Split(s, n, "@")[2], n) = s
         /\ Len(s) <= n /\ Places(s, "/") # {} =>
              /\ Places(BootEnvName(s, n), "/") = {}
              /\ Concat(Cut(s, n, "/"), <<"/">>, BootEnvName(s, n), n) = s
         /\ PoolOf(s) # Error => Places(PoolOf(s), "/") = {} /\ PoolOf(s) # << >>
<1>0. Len(s) \in Nat
  OBVIOUS
<1>1. ASSUME NEW d, Places(s, d) # {}
      PROVE  /\ Last(s, d) \in 1 .. Len(s)
             /\ Before(s, Last(s, d)) \o <<d>> \o After(s, Last(s, d)) = s
             /\ Before(s, Last(s, d)) \in Seq(Tokens) /\ Len(Before(s, Last(s, d))) = Last(s, d) - 1
  <2>1. Last(s, d) \in 1 .. Len(s) /\ s[Last(s, d)] = d
    BY <1>1, PlaceFacts
  <2>2. Before(s, Last(s, d)) \o <<(s[Last(s, d)])>> \o After(s, Last(s, d)) = s
    BY <2>1, PartsJoin
  <2>3. Before(s, Last(s, d)) \in Seq(Tokens) /\ Len(Before(s, Last(s, d))) = Last(s, d) - 1
    BY <2>1, PartFacts
  <2> QED
    BY <2>1, <2>2, <2>3
<1>2. SnapAndDataset(s, n) = Split(s, n, "@")
  <2>1. CASE Len(s) > n \/ Places(s, "@") = {}
    BY <2>1 DEF SnapAndDataset, Split, Cut
  <2>2. CASE ~(Len(s) > n) /\ Places(s, "@") # {}
    <3> DEFINE l == Last(s, "@")
               b == Before(s, l)
    <3>1. l \in 1 .. Len(s) /\ b \in Seq(Tokens) /\ Len(b) = l - 1
      BY <1>1, <2>2
    <3>2. Cut(s, n, "@") = b /\ Split(s, n, "@") = <<b, After(s, l)>>
      BY <2>2 DEF Cut, Split
    <3>3. b # Error
      BY <3>1, ZeHandleAssumption
    <3> HIDE DEF b, l
    <3>4. Len(b) + 1 = l /\ ~(Len(b) + 1 > n)
      BY <1>0, <2>2, <3>1
    <3>5. SuffixAfter(b, s, n) = After(s, l)
      BY <2>2, <3>4 DEF SuffixAfter
    <3>6. After(s, l) \in Seq(Tokens)
      BY <3>1, PartFacts
    <3>7. After(s, l) # Error
      BY <3>6, ZeHandleAssumption
    <3> QED
      BY <3>2, <3>3, <3>5, <3>7 DEF SnapAndDataset
  <2> QED
    BY <2>1, <2>2
<1>3. ASSUME Len(s) <= n, Places(s, "@") # {}
      PROVE  Concat(Split(s, n, "@")[1], <<"@">>, Split(s, n, "@")[2], n) = s
  <2> DEFINE l == Last(s, "@")
  <2>1. Split(s, n, "@")[1] = Before(s, l) /\ Split(s, n, "@")[2] = After(s, l)
    BY <1>0, <1>3 DEF Split
  <2>2. Before(s, l) \o <<"@">> \o After(s, l) = s
    BY <1>1, <1>3
  <2> HIDE DEF l
  <2> QED
    BY <1>3, <2>1, <2>2 DEF Concat, Fits
<1>4. ASSUME Len(s) <= n, Places(s, "/") # {}
      PROVE  /\ Places(BootEnvName(s, n), "/") = {}
             /\ Concat(Cut(s, n, "/"), <<"/">>, BootEnvName(s, n), n) = s
  <2> DEFINE l == Last(s, "/")
             a == After(s, l)
  <2>1. BootEnvName(s, n) = a /\ Cut(s, n, "/") = Before(s, l)
    BY <1>0, <1>4 DEF BootEnvName, Cut
  <2>2. Before(s, l) \o <<"/">> \o a = s /\ l \in 1 .. Len(s)
    BY <1>1, <1>4
  <2>3. \A i \in 1 .. Len(s) : s[i] = "/" => i <= l
    BY <1>4, PlaceFacts
  <2>4. Len(a) = Len(s) - l /\ \A i \in 1 .. Len(s) - l : a[i] = s[l + i]
    BY <2>2, PartFacts
  <2> HIDE DEF l, a
  <2>5. Places(a, "/") = {}
    <3>1. \A i \in 1 .. Len(s) - l : l + i \in 1 .. Len(s) /\ ~(l + i <= l)
      BY <1>0, <2>2
    <3>2. \A i \in 1 .. Len(a) : a[i] # "/"
      BY <2>3, <2>4, <3>1
    <3> QED
      BY <3>2 DEF Places
  <2> QED
    BY <1>4, <2>1, <2>2, <2>5 DEF Concat, Fits
<1>5. ASSUME PoolOf(s) # Error
      PROVE  Places(PoolOf(s), "/") = {} /\ PoolOf(s) # << >>
  <2> DEFINE f == First(s, "/")
             b == Before(s, f)
  <2>1. PoolOf(s) = b /\ Places(s, "/") # {} /\ 1 \notin Places(s, "/")
    BY <1>5 DEF PoolOf
  <2>2. f \in 1 .. Len(s) /\ s[f] = "/" /\ \A i \in 1 .. Len(s) : s[i] = "/" => f <= i
    BY <2>1, PlaceFacts
  <2>3. b \in Seq(Tokens) /\ Len(b) = f - 1 /\ \A i \in 1 .. f - 1 : b[i] = s[i]
    BY <2>2, PartFacts
  <2> HIDE DEF f, b
  <2>4. f # 1
    BY <2>1, <2>2 DEF Places
  <2>5. b # << >>
    BY <1>0, <2>2, <2>3, <2>4
  <2>6. Places(b, "/") = {}
    <3>1. \A i \in 1 .. f - 1 : i \in 1 .. Len(s) /\ ~(f <= i)
      BY <1>0, <2>2
    <3>2. \A i \in 1 .. Len(b) : b[i] # "/"
      BY <2>2, <2>3, <3>1
    <3> QED
      BY <3>2 DEF Places
  <2> QED
    BY <2>1, <2>5, <2>6
<1> QED
  BY <1>2, <1>3, <1>4, <1>5

(***************************************************************************)
(* The names of properties.                                                *)
(***************************************************************************)
Prefix(t) == IF Places(t, ":") = {} THEN <<Namespace, ":">> ELSE <<Namespace, ".">>

\* The name get looks for is what is typed, after a prefix.
LEMMA GetName ==
  ASSUME NEW t \in Seq(Tokens)
  PROVE  GetProperty(t) = Prefix(t) \o t
<1> DEFINE N == <<Namespace>>
           D == <<Namespace, ".">>
           C == <<":">>
<1>1. N \in Seq(Tokens) /\ D \in Seq(Tokens) /\ C \in Seq(Tokens)
  BY ZeHandleAssumption
<1>2. CASE Places(t, ":") = {}
  <2>1. ParseProperty(t)[1] = N /\ ParseProperty(t)[2] = t
    BY <1>2 DEF ParseProperty
  <2>2. GetProperty(t) = N \o C \o t
    BY <2>1 DEF GetProperty
  <2>3. N \o C = <<Namespace, ":">>
    BY ZeHandleAssumption, TwoTokens
  <2> QED
    BY <1>2, <2>2, <2>3 DEF Prefix
<1>3. CASE Places(t, ":") # {}
  <2> DEFINE i == First(t, ":")
  <2>1. i \in 1 .. Len(t) /\ t[i] = ":"
    BY <1>3, PlaceFacts
  <2>2. PICK d, b, c, a \in Seq(Tokens) :
          d = D /\ b = Before(t, i) /\ c = C /\ a = After(t, i) /\ b \o c \o a = t
    <3>1. Before(t, i) \in Seq(Tokens) /\ After(t, i) \in Seq(Tokens)
      BY <2>1, PartFacts
    <3>2. Before(t, i) \o C \o After(t, i) = t
      BY <2>1, PartsJoin
    <3> HIDE DEF D, C, i
    <3> QED
      BY <1>1, <3>1, <3>2
  <2>3. ParseProperty(t)[1] = d \o b /\ ParseProperty(t)[2] = a
    BY <1>3, <2>2 DEF ParseProperty
  <2>4. GetProperty(t) = d \o b \o c \o a
    BY <2>2, <2>3 DEF GetProperty
  <2>5. d \o b \o c \o a = d \o (b \o c \o a)
    <3>1. \A w \in Seq(Tokens) : (d \o w) \o a = d \o (w \o a)
      BY ConcatAssociative
    <3>2. b \o c \in Seq(Tokens)
      BY ConcatProperties
    <3>3. (d \o b) \o c = d \o (b \o c)
      BY ConcatAssociative
    <3> QED
      BY <3>1, <3>2, <3>3
  <2>6. GetProperty(t) = d \o t
    BY <2>2, <2>4, <2>5
  <2> QED
    BY <1>3, <2>2, <2>6 DEF Prefix
<1> QED
  BY <1>2, <1>3

\* Where the tokens of that name come from.
LEMMA GetNameParts ==
  ASSUME NEW t \in Seq(Tokens)
  PROVE  /\ GetProperty(t) \in Seq(Tokens) /\ Len(GetProperty(t)) = Len(t) + 2
         /\ GetProperty(t)[1] = Namespace
         /\ GetProperty(t)[2] = IF Places(t, ":") = {} THEN ":" ELSE "."
         /\ \A i \in 1 .. Len(t) : GetProperty(t)[i + 2] = t[i]
<1>1. /\ Prefix(t) \in Seq(Tokens) /\ Len(Prefix(t)) = 2 /\ Prefix(t)[1] = Namespace
      /\ Prefix(t)[2] = IF Places(t, ":") = {} THEN ":" ELSE "."
  BY ZeHandleAssumption DEF Prefix
<1>2. GetProperty(t) = Prefix(t) \o t
  BY GetName
<1> QED
  BY <1>1, <1>2, AfterPrefix

\* Different names stay different.
LEMMA GetNameInjective ==
  ASSUME NEW t \in Seq(Tokens), NEW u \in Seq(Tokens), GetProperty(t) = GetProperty(u)
  PROVE  t = u
<1>1. Len(t) = Len(u)
  <2>1. Len(t) + 2 = Len(u) + 2 /\ Len(t) \in Nat /\ Len(u) \in Nat
    BY GetNameParts
  <2> QED
    BY <2>1
<1>2. \A i \in 1 .. Len(t) : t[i] = u[i]
  BY <1>1, GetNameParts
<1> QED
  BY <1>1, <1>2, SeqEqual

\* Every name that is looked for is in the namespace.
LEMMA GetNameInNamespace ==
  ASSUME NEW t \in Seq(Tokens)
  PROVE  InNamespace(GetProperty(t))
<1> DEFINE g == GetProperty(t)
           l == Last(g, ":")
<1>1. /\ g \in Seq(Tokens) /\ Len(g) = Len(t) + 2 /\ g[1] = Namespace
      /\ Len(t) \in Nat
  BY GetNameParts
<1>2. \E i \in 2 .. Len(g) : g[i] = ":"
  <2>1. CASE Places(t, ":") = {}
    <3>1. g[2] = ":" /\ 2 \in 2 .. Len(g)
      BY <1>1, <2>1, GetNameParts
    <3> QED
      BY <3>1
  <2>2. CASE Places(t, ":") # {}
    <3>1. PICK i \in 1 .. Len(t) : t[i] = ":"
      BY <2>2 DEF Places
    <3>2. g[i + 2] = ":"
      BY <3>1, GetNameParts
    <3>3. i + 2 \in 2 .. Len(g)
      BY <1>1
    <3> QED
      BY <3>2, <3>3
  <2> QED
    BY <2>1, <2>2
<1> HIDE DEF g
<1>3. Places(g, ":") # {}
  BY <1>1, <1>2 DEF Places
<1>4. l \in 1 .. Len(g) /\ \A i \in 1 .. Len(g) : g[i] = ":" => i <= l
  BY <1>1, <1>3, PlaceFacts
<1>5. l \in 2 .. Len(g)
  BY <1>1, <1>2, <1>4
<1>6. /\ Before(g, l) \in Seq(Tokens) /\ Len(Before(g, l)) = l - 1
      /\ \A j \in 1 .. l - 1 : Before(g, l)[j] = g[j]
  BY <1>1, <1>4, PartFacts
<1>7. Before(g, l) # << >> /\ Before(g, l)[1] = Namespace
  BY <1>1, <1>5, <1>6
<1>8. Cut(g, Len(g), ":") = Before(g, l)
  BY <1>1, <1>3 DEF Cut
<1>9. Before(g, l) # Error
  BY <1>6, ZeHandleAssumption
<1> QED
  BY <1>7, <1>8, <1>9 DEF InNamespace, g

\* A string is that name if its tokens are.
LEMMA GetNameIs ==
  ASSUME NEW t \in Seq(Tokens), NEW g \in Seq(Tokens), Len(g) = Len(t) + 2,
         g[1] = Namespace, g[2] = (IF Places(t, ":") = {} THEN ":" ELSE "."),
         \A i \in 1 .. Len(t) : g[i + 2] = t[i]
  PROVE  GetProperty(t) = g
<1> DEFINE h == GetProperty(t)
<1>1. /\ h \in Seq(Tokens) /\ Len(h) = Len(g) /\ h[1] = g[1] /\ h[2] = g[2]
      /\ \A i \in 1 .. Len(t) : h[i + 2] = g[i + 2]
  BY GetNameParts
<1> HIDE DEF h
<1>2. \A j \in 1 .. Len(g) : h[j] = g[j]
  <2>1. ASSUME NEW j \in 1 .. Len(g)
        PROVE  j = 1 \/ j = 2 \/ \E i \in 1 .. Len(t) : j = i + 2
    <3>1. Len(t) \in Nat /\ Len(g) = Len(t) + 2
      OBVIOUS
    <3>2. j = (j - 2) + 2 /\ (j # 1 /\ j # 2 => j - 2 \in 1 .. Len(t))
      BY <3>1
    <3> QED
      BY <3>2
  <2> QED
    BY <1>1, <2>1
<1> QED
  BY <1>1, <1>2, SeqEqual DEF h

\* The names the defaults are for.
LEMMA DefaultNames ==
  /\ <<"bootloader">> \in Seq(Tokens) /\ GetProperty(<<"bootloader">>) = Bootloader
  /\ <<"bootpoolroot">> \in Seq(Tokens) /\ GetProperty(<<"bootpoolroot">>) = BootPoolRoot
  /\ <<"systemdboot", ":", "efi">> \in Seq(Tokens)
  /\ GetProperty(<<"systemdboot", ":", "efi">>) = Efi
<1>1. ASSUME NEW x \in Tokens, x # ":"
      PROVE  <<x>> \in Seq(Tokens) /\ GetProperty(<<x>>) = <<Namespace, ":", x>>
  <2> DEFINE t == <<x>>
             g == <<Namespace, ":", x>>
  <2>1. /\ t \in Seq(Tokens) /\ Len(t) = 1 /\ t[1] = x
        /\ g \in Seq(Tokens) /\ Len(g) = 3 /\ g[1] = Namespace /\ g[2] = ":" /\ g[3] = x
    BY ZeHandleAssumption
  <2> HIDE DEF t, g
  <2>2. Places(t, ":") = {}
    BY <1>1, <2>1 DEF Places
  <2>3. \A i \in 1 .. Len(t) : g[i + 2] = t[i]
    <3>1. \A i \in 1 .. Len(t) : i = 1 /\ i + 2 = 3
      BY <2>1
    <3> QED
      BY <2>1, <3>1
  <2>4. Len(g) = Len(t) + 2 /\ g[2] = IF Places(t, ":") = {} THEN ":" ELSE "."
    BY <2>1, <2>2
  <2>5. GetProperty(t) = g
    BY <2>1, <2>3, <2>4, GetNameIs
  <2> QED
    BY <2>1, <2>5 DEF t, g
<1>2. "bootloader" # ":" /\ "bootpoolroot" # ":" /\ "systemdboot" # ":"
  OBVIOUS
<1> DEFINE t == <<"systemdboot", ":", "efi">>
<1>3. /\ t \in Seq(Tokens) /\ Len(t) = 3 /\ t[1] = "systemdboot" /\ t[2] = ":" /\ t[3] = "efi"
      /\ Efi \in Seq(Tokens) /\ Len(Efi) = 5 /\ Efi[1] = Namespace /\ Efi[2] = "."
      /\ Efi[3] = "systemdboot" /\ Efi[4] = ":" /\ Efi[5] = "efi"
  BY ZeHandleAssumption DEF Efi
<1>4. GetProperty(t) = Efi
  <2> HIDE DEF t
  <2>1. Places(t, ":") # {}
    BY <1>3 DEF Places
  <2>2. \A i \in 1 .. Len(t) : Efi[i + 2] = t[i]
    <3>1. \A i \in 1 .. Len(t) : (i = 1 /\ i + 2 = 3) \/ (i = 2 /\ i + 2 = 4) \/ (i = 3 /\ i + 2 = 5)
      BY <1>3
    <3> QED
      BY <1>3, <3>1
  <2>3. Len(Efi) = Len(t) + 2 /\ Efi[2] = IF Places(t, ":") = {} THEN ":" ELSE "."
    BY <1>3, <2>1
  <2> QED
    BY <1>3, <2>2, <2>3, GetNameIs
<1> QED
  BY <1>1, <1>2, <1>3, <1>4, ZeHandleAssumption DEF Bootloader, BootPoolRoot

\* What is before and after a place, when there is an earlier place.
LEMMA PartsOfParts ==
  ASSUME NEW s \in Seq(Tokens), NEW i \in 1 .. Len(s), NEW j \in 1 .. Len(s), i < j
  PROVE  /\ Before(Before(s, j), i) = Before(s, i)
         /\ After(Before(s, j), i) = Before(After(s, i), j - i)
         /\ After(After(s, i), j - i) = After(s, j)
         /\ Before(s, j)[i] = s[i] /\ After(s, i)[j - i] = s[j]
<1> DEFINE b == Before(s, j)
           a == After(s, i)
<1>1. /\ b \in Seq(Tokens) /\ Len(b) = j - 1 /\ \A k \in 1 .. j - 1 : b[k] = s[k]
      /\ a \in Seq(Tokens) /\ Len(a) = Len(s) - i /\ \A k \in 1 .. Len(s) - i : a[k] = s[i + k]
      /\ Before(s, i) \in Seq(Tokens) /\ Len(Before(s, i)) = i - 1
      /\ \A k \in 1 .. i - 1 : Before(s, i)[k] = s[k]
      /\ After(s, j) \in Seq(Tokens) /\ Len(After(s, j)) = Len(s) - j
      /\ \A k \in 1 .. Len(s) - j : After(s, j)[k] = s[j + k]
  BY PartFacts
<1>2. Len(s) \in Nat
  OBVIOUS
<1> HIDE DEF a, b
<1>3. i \in 1 .. Len(b) /\ j - i \in 1 .. Len(a)
  BY <1>1, <1>2
<1>4. /\ Before(b, i) \in Seq(Tokens) /\ Len(Before(b, i)) = i - 1
      /\ \A k \in 1 .. i - 1 : Before(b, i)[k] = b[k]
      /\ After(b, i) \in Seq(Tokens) /\ Len(After(b, i)) = (j - 1) - i
      /\ \A k \in 1 .. (j - 1) - i : After(b, i)[k] = b[i + k]
  <2>1. i \in 1 .. Len(b) /\ b \in Seq(Tokens)
    BY <1>1, <1>3
  <2>2. /\ Before(b, i) \in Seq(Tokens) /\ Len(Before(b, i)) = i - 1
        /\ \A k \in 1 .. i - 1 : Before(b, i)[k] = b[k]
        /\ After(b, i) \in Seq(Tokens) /\ Len(After(b, i)) = Len(b) - i
        /\ \A k \in 1 .. Len(b) - i : After(b, i)[k] = b[i + k]
    BY <2>1, PartFacts
  <2>3. Len(b) = j - 1
    BY <1>1
  <2> QED
    BY <2>2, <2>3
<1>5. /\ Before(a, j - i) \in Seq(Tokens) /\ Len(Before(a, j - i)) = (j - i) - 1
      /\ \A k \in 1 .. (j - i) - 1 : Before(a, j - i)[k] = a[k]
      /\ After(a, j - i) \in Seq(Tokens) /\ Len(After(a, j - i)) = Len(a) - (j - i)
      /\ \A k \in 1 .. Len(a) - (j - i) : After(a, j - i)[k] = a[(j - i) + k]
  <2>1. j - i \in 1 .. Len(a) /\ a \in Seq(Tokens)
    BY <1>1, <1>3
  <2> QED
    BY <2>1, PartFacts
<1>6. Before(b, i) = Before(s, i)
  <2>1. \A k \in 1 .. i - 1 : k \in 1 .. j - 1
    BY <1>2
  <2>2. \A k \in 1 .. i - 1 : Before(b, i)[k] = Before(s, i)[k]
    BY <1>1, <1>4, <2>1
  <2> QED
    BY <1>1, <1>4, <2>2, SeqEqual
<1>7. After(b, i) = Before(a, j - i)
  <2>1. Len(After(b, i)) = Len(Before(a, j - i)) /\ Len(After(b, i)) = (j - i) - 1
    BY <1>2, <1>4, <1>5
  <2>2. \A k \in 1 .. (j - i) - 1 :
          k \in 1 .. (j - 1) - i /\ i + k \in 1 .. j - 1 /\ k \in 1 .. Len(s) - i
    BY <1>2
  <2>3. \A k \in 1 .. (j - i) - 1 : After(b, i)[k] = s[i + k]
    BY <1>1, <1>4, <2>2
  <2>4. \A k \in 1 .. (j - i) - 1 : Before(a, j - i)[k] = s[i + k]
    BY <1>1, <1>5, <2>2
  <2> QED
    <3>1. \A k \in 1 .. Len(After(b, i)) : After(b, i)[k] = Before(a, j - i)[k]
      BY <2>1, <2>3, <2>4
    <3> QED
      BY <1>4, <1>5, <2>1, <3>1, SeqEqual
<1>8. After(a, j - i) = After(s, j)
  <2>1. Len(After(a, j - i)) = Len(After(s, j)) /\ Len(After(s, j)) = Len(s) - j
    <3>1. Len(a) = Len(s) - i /\ Len(After(a, j - i)) = Len(a) - (j - i) /\ Len(After(s, j)) = Len(s) - j
      BY <1>1, <1>5
    <3>2. (Len(s) - i) - (j - i) = Len(s) - j
      BY <1>2
    <3> QED
      BY <3>1, <3>2
  <2>2. \A k \in 1 .. Len(s) - j :
          /\ k \in 1 .. Len(a) - (j - i) /\ (j - i) + k \in 1 .. Len(s) - i
          /\ i + ((j - i) + k) = j + k
    BY <1>1, <1>2
  <2>3. \A k \in 1 .. Len(s) - j : After(a, j - i)[k] = After(s, j)[k]
    BY <1>1, <1>5, <2>2
  <2> QED
    BY <1>1, <1>5, <2>1, <2>3, SeqEqual
<1>9. b[i] = s[i] /\ a[j - i] = s[j]
  <2>1. i \in 1 .. j - 1 /\ j - i \in 1 .. Len(s) - i /\ i + (j - i) = j
    BY <1>2
  <2> QED
    BY <1>1, <2>1
<1> QED
  BY <1>6, <1>7, <1>8, <1>9 DEF a, b

\* What set writes a property as, and the value: the name get looks for, and what
\* is typed after the first '='.
LEMMA SetIsTyped ==
  ASSUME NEW s \in Seq(Tokens), SetProperty(s) # Error,
         Places(s, ":") = {} \/ First(s, ":") < First(s, "=")
  PROVE  /\ Typed(s).name \in Seq(Tokens) /\ Typed(s).value \in Seq(Tokens)
         /\ SetProperty(s) = [name |-> GetProperty(Typed(s).name), value |-> Typed(s).value]
<1> DEFINE e == First(s, "=")
           c == First(s, ":")
           parsed == ParseProperty(s)
           rest == parsed[2]
<1>0. Len(s) \in Nat
  OBVIOUS
<1>1. Places(rest, "=") # {}
  BY DEF SetProperty
<1>2. SetProperty(s) = [name |-> parsed[1] \o <<":">> \o Before(rest, First(rest, "=")),
                        value |-> After(rest, First(rest, "="))]
  BY <1>1 DEF SetProperty
<1>3. Typed(s).name = Before(s, e) /\ Typed(s).value = After(s, e)
  BY DEF Typed
<1>4. CASE Places(s, ":") = {}
  <2>1. parsed = <<(<<Namespace>>), s>>
    BY <1>4 DEF ParseProperty
  <2>2. rest = s /\ parsed[1] = <<Namespace>>
    BY <2>1
  <2>3. e \in 1 .. Len(s)
    BY <1>1, <2>2, PlaceFacts
  <2>4. /\ Before(s, e) \in Seq(Tokens) /\ After(s, e) \in Seq(Tokens)
        /\ Len(Before(s, e)) = e - 1 /\ \A i \in 1 .. e - 1 : Before(s, e)[i] = s[i]
    BY <2>3, PartFacts
  <2>5. Places(Before(s, e), ":") = {}
    <3>1. \A i \in 1 .. e - 1 : i \in 1 .. Len(s)
      BY <1>0, <2>3
    <3> QED
      BY <1>4, <2>4, <3>1 DEF Places
  <2>6. GetProperty(Before(s, e)) = <<Namespace>> \o <<":">> \o Before(s, e)
    <3>1. /\ ParseProperty(Before(s, e))[1] = <<Namespace>>
          /\ ParseProperty(Before(s, e))[2] = Before(s, e)
      BY <2>5 DEF ParseProperty
    <3> HIDE DEF e
    <3> QED
      BY <3>1 DEF GetProperty
  <2>7. SetProperty(s) = [name |-> <<Namespace>> \o <<":">> \o Before(s, e), value |-> After(s, e)]
    BY <1>2, <2>2
  <2> HIDE DEF e
  <2> QED
    BY <1>3, <2>4, <2>6, <2>7
<1>5. CASE Places(s, ":") # {}
  <2>1. parsed = <<(<<Namespace, ".">>) \o Before(s, c), After(s, c)>>
    BY <1>5 DEF ParseProperty
  <2>2. rest = After(s, c) /\ parsed[1] = <<Namespace, ".">> \o Before(s, c)
    BY <2>1
  <2>3. c \in 1 .. Len(s) /\ s[c] = ":" /\ \A i \in 1 .. Len(s) : s[i] = ":" => c <= i
    BY <1>5, PlaceFacts
  <2>4. /\ rest \in Seq(Tokens) /\ Len(rest) = Len(s) - c
        /\ \A i \in 1 .. Len(s) - c : rest[i] = s[c + i]
    <3>1. /\ After(s, c) \in Seq(Tokens) /\ Len(After(s, c)) = Len(s) - c
          /\ \A i \in 1 .. Len(s) - c : After(s, c)[i] = s[c + i]
      BY <2>3, PartFacts
    <3> HIDE DEF rest
    <3> QED
      BY <2>2, <3>1
  <2>5. e \in 1 .. Len(s) /\ s[e] = "=" /\ \A i \in 1 .. Len(s) : s[i] = "=" => e <= i
    <3>1. PICK k \in 1 .. Len(rest) : rest[k] = "="
      BY <1>1 DEF Places
    <3>2. c + k \in 1 .. Len(s) /\ s[c + k] = "="
      BY <1>0, <2>3, <2>4, <3>1
    <3>3. Places(s, "=") # {}
      BY <3>2 DEF Places
    <3> QED
      BY <3>3, PlaceFacts
  <2>6. c < e
    BY <1>5
  <2>7. /\ Before(Before(s, e), c) = Before(s, c)
        /\ After(Before(s, e), c) = Before(rest, e - c)
        /\ After(rest, e - c) = After(s, e)
        /\ Before(s, e)[c] = ":" /\ rest[e - c] = "="
    BY <2>2, <2>3, <2>5, <2>6, PartsOfParts
  <2>8. /\ Before(s, e) \in Seq(Tokens) /\ After(s, e) \in Seq(Tokens)
        /\ Len(Before(s, e)) = e - 1 /\ \A i \in 1 .. e - 1 : Before(s, e)[i] = s[i]
    BY <2>5, PartFacts
  <2>9. First(rest, "=") = e - c
    <3>1. e - c \in 1 .. Len(rest)
      BY <1>0, <2>3, <2>4, <2>5, <2>6
    <3>2. \A j \in 1 .. (e - c) - 1 : rest[j] # "="
      <4>1. \A j \in 1 .. (e - c) - 1 : j \in 1 .. Len(s) - c /\ c + j \in 1 .. Len(s) /\ ~(e <= c + j)
        BY <1>0, <2>3, <2>5
      <4> QED
        BY <2>4, <2>5, <4>1
    <3> HIDE DEF rest
    <3> QED
      BY <2>4, <2>7, <3>1, <3>2, FirstIs
  <2>10. Places(Before(s, e), ":") # {} /\ First(Before(s, e), ":") = c
    <3>1. c \in 1 .. Len(Before(s, e))
      BY <1>0, <2>3, <2>5, <2>6, <2>8
    <3>2. \A j \in 1 .. c - 1 : Before(s, e)[j] # ":"
      <4>1. \A j \in 1 .. c - 1 : j \in 1 .. e - 1 /\ j \in 1 .. Len(s) /\ ~(c <= j)
        BY <1>0, <2>3, <2>5, <2>6
      <4> QED
        BY <2>3, <2>8, <4>1
    <3> QED
      BY <2>7, <2>8, <3>1, <3>2, FirstIs
  <2>11. GetProperty(Before(s, e)) = <<Namespace, ".">> \o Before(s, c) \o <<":">> \o Before(rest, e - c)
    <3>1. /\ ParseProperty(Before(s, e))[1] = <<Namespace, ".">> \o Before(s, c)
          /\ ParseProperty(Before(s, e))[2] = Before(rest, e - c)
      BY <2>7, <2>10 DEF ParseProperty
    <3> HIDE DEF rest, e, c
    <3> QED
      BY <3>1 DEF GetProperty
  <2>12. SetProperty(s) =
           [name |-> <<Namespace, ".">> \o Before(s, c) \o <<":">> \o Before(rest, e - c),
            value |-> After(s, e)]
    <3> HIDE DEF rest
    <3> QED
      BY <1>2, <2>2, <2>7, <2>9
  <2> HIDE DEF rest, e, c
  <2> QED
    BY <1>3, <2>8, <2>11, <2>12
<1> QED
  BY <1>4, <1>5

(***************************************************************************)
(* The invariant.                                                          *)
(***************************************************************************)
\* The properties ps are what the user has set to k, if every ':' is in a name.
Records(ps, k) ==
  ColonsInNames =>
  /\ \A t \in TypedNames : ps[GetProperty(t)] = k[t]
  /\ \A n \in PropNames : (\A t \in TypedNames : GetProperty(t) # n) => ps[n] = Absent

\* main takes the command that is to be run.
OperatesOK(p) == proc[p].pc \in {"set", "get", "list"} => proc[p].pc = proc[p].cmd.op

\* Only a list that goes on has visited anything.
NotBegun(p) == ~At(p, "iterate") => proc[p].visited = {} /\ proc[p].shown = NoListing

\* A handle that was opened has what was set before.
OpenedOK(p) == At(p, "main") => Records(proc[p].props, knew[p])

\* What main makes of what it has read, ps: the plugin, then the defaults.
Passed(p, ps) ==
  /\ Records(ps, knew[p])
  /\ PropGet(ps, Bootloader) \notin BrokenPlugins
  /\ proc[p].plugin = (PropGet(ps, Bootloader) \in Plugins)
  /\ proc[p].props =
       AddDefaults(IF proc[p].plugin THEN AddDefaults(ps, PluginDefaults) ELSE ps, MainDefaults)
PassedOK(p) ==
  proc[p].pc \in {"set", "get", "list", "iterate"} => \E ps \in Properties : Passed(p, ps)

\* A line of a list says what is true, and an environment that was seen has one,
\* or another of its second.
LinesOK(p) ==
  \A s \in 0 .. MaxSecond :
    LET line == proc[p].shown[s] IN
    line # Absent => /\ line.next = (line.name = proc[p].activated)
                     /\ line.now = (line.name = running)
SeenOK(p) ==
  \A e \in proc[p].visited \cap proc[p].since : proc[p].shown[created[e]] # Absent

HandleOK(p) ==
  NotBegun(p) /\ OpenedOK(p) /\ PassedOK(p) /\ LinesOK(p) /\ SeenOK(p)

\* The inductive invariant behind HandleTypes.
TypeInv == ZeTypeOK /\ \A p \in Procs : OperatesOK(p)

\* And the one behind the other theorems: the pool has what was set last.
HistoryInv == TypeInv /\ Records(props, said) /\ \A p \in Procs : HandleOK(p)

(***************************************************************************)
(* Types.                                                                  *)
(***************************************************************************)
\* A process that is not idle is running a command.
LEMMA RunningType ==
  ASSUME TypeInv, NEW p \in Procs, proc[p].pc # "idle"
  PROVE  /\ proc[p] \in Running
         /\ proc[p].cmd \in Commands /\ proc[p].activated \in Names
         /\ proc[p].props \in Properties /\ proc[p].plugin \in BOOLEAN
         /\ proc[p].visited \in SUBSET Names /\ proc[p].since \in SUBSET Names
         /\ proc[p].shown \in Listing /\ proc[p].since \subseteq bes
<1>1. proc[p] # Idle /\ proc[p] \in Running \cup {Idle}
  BY DEF TypeInv, ZeTypeOK, Idle
<1>2. proc[p] \in Running
  BY <1>1
<1> QED
  BY <1>2 DEF Running, TypeInv, ZeTypeOK

\* A command with a name has the arguments of that command.
LEMMA CommandType ==
  ASSUME NEW c \in Commands
  PROVE  /\ c.op \in {"set", "get", "list"}
         /\ c.op = "set" => c.args \in SetLists
         /\ c.op = "get" => c.arg \in GetArgs
<1>1. CASE c \in [op : {"set"}, args : SetLists]
  BY <1>1
<1>2. CASE c \in [op : {"get"}, arg : GetArgs]
  BY <1>2
<1>3. CASE c = [op |-> "list"]
  BY <1>3
<1> QED
  BY <1>1, <1>2, <1>3 DEF Commands

\* The names and the values of the defaults.
LEMMA DefaultTypes ==
  /\ {Bootloader, BootPoolRoot, Efi} \subseteq PropNames
  /\ << >> \in Values /\ <<"/efi">> \in Values
  /\ DOMAIN MainDefaults = {Bootloader, BootPoolRoot} /\ DOMAIN PluginDefaults = {Efi}
  /\ \A n \in DOMAIN MainDefaults : MainDefaults[n] = << >>
  /\ \A n \in DOMAIN PluginDefaults : PluginDefaults[n] = <<"/efi">>
  BY DEF PropNames, Values, MainDefaults, PluginDefaults

\* Defaults make properties of properties.
LEMMA AddDefaultsType ==
  ASSUME NEW ps \in Properties
  PROVE  AddDefaults(ps, MainDefaults) \in Properties /\ AddDefaults(ps, PluginDefaults) \in Properties
<1>1. ASSUME NEW d, \A n \in DOMAIN d : d[n] \in Values
      PROVE  AddDefaults(ps, d) \in Properties
  <2>1. \A n \in PropNames : ps[n] \in Values \cup {Absent}
    BY DEF Properties
  <2> QED
    BY <1>1, <2>1 DEF AddDefaults, Properties
<1> QED
  BY <1>1, DefaultTypes

\* The states a process goes on in.
LEMMA ContinueType ==
  ASSUME TypeInv, NEW p \in Procs, NEW st \in Running, st.since \subseteq bes, Continue(p, st),
         st.pc \in {"set", "get", "list"} => st.pc = st.cmd.op, OnPool, UNCHANGED faults
  PROVE  TypeInv'
<1>1. bes' = bes /\ active' = active /\ running' = running /\ props' = props /\ created' = created
  BY DEF OnPool, bevars
<1>2. proc' \in [Procs -> Running \cup {Idle}]
  BY DEF Continue, TypeInv, ZeTypeOK
<1>3. \A q \in Procs : proc'[q].since \subseteq bes'
  BY <1>1 DEF Continue, TypeInv, ZeTypeOK
<1>4. out' = Absent
  BY DEF Continue
<1>5. \A q \in Procs : OperatesOK(q)'
  BY DEF Continue, TypeInv, ZeTypeOK, OperatesOK
<1> QED
  BY <1>1, <1>2, <1>3, <1>4, <1>5 DEF TypeInv, ZeTypeOK

\* The end of a command.
LEMMA ExitType ==
  ASSUME TypeInv, NEW p \in Procs, NEW result, NEW shown, Exit(p, result, shown),
         UNCHANGED <<bevars, created>>, props' \in Properties, Fault \/ UNCHANGED faults
  PROVE  TypeInv'
<1>1. bes' = bes /\ active' = active /\ running' = running /\ created' = created
  BY DEF bevars
<1>2. proc' \in [Procs -> Running \cup {Idle}] /\ proc'[p] = Idle
  BY DEF Exit, TypeInv, ZeTypeOK
<1>3. \A q \in Procs : proc'[q].since \subseteq bes'
  <2>1. Idle.since = {}
    BY DEF Idle
  <2> QED
    BY <1>1, <2>1 DEF Exit, TypeInv, ZeTypeOK
<1>4. out'.by = p
  BY DEF Exit, Result
<1>5. faults' \in 0 .. MaxFaults
  BY ZeHandleAssumption DEF Fault, TypeInv, ZeTypeOK
<1>6. \A q \in Procs : OperatesOK(q)'
  <2>1. Idle.pc = "idle"
    BY DEF Idle
  <2> QED
    BY <2>1 DEF Exit, TypeInv, ZeTypeOK, OperatesOK
<1> QED
  BY <1>1, <1>2, <1>3, <1>4, <1>5, <1>6 DEF TypeInv, ZeTypeOK

\* libze_init and main.
LEMMA OpenTypes ==
  ASSUME TypeInv, NEW p \in Procs, Open(p)
  PROVE  TypeInv'
<1> DEFINE ps == [n \in PropNames |-> IF InNamespace(n) THEN props[n] ELSE Absent]
<1>1. PICK c \in Commands :
        Continue(p, [Idle EXCEPT !.pc = "main", !.cmd = c, !.activated = active, !.props = ps])
  BY DEF Open
<1> DEFINE st == [Idle EXCEPT !.pc = "main", !.cmd = c, !.activated = active, !.props = ps]
<1>2. ps \in Properties
  BY DEF TypeInv, ZeTypeOK, Properties
<1>3. NoListing \in Listing /\ active \in Names
  BY DEF NoListing, Listing, TypeInv, ZeTypeOK
<1> HIDE DEF ps
<1>4. st \in Running /\ st.since \subseteq bes /\ st.pc = "main"
  BY <1>2, <1>3 DEF Running, Idle
<1>5. Continue(p, st) /\ OnPool /\ UNCHANGED faults
  BY <1>1 DEF Open
<1> HIDE DEF st
<1> QED
  BY <1>4, <1>5, ContinueType

\* main: the defaults it and the plugin add keep the types.
LEMMA MainTypes ==
  ASSUME TypeInv, NEW p \in Procs, Main(p)
  PROVE  TypeInv'
<1> DEFINE ps == proc[p].props
           plugin == LoaderOf(p) \in Plugins
           loaded == IF plugin THEN AddDefaults(ps, PluginDefaults) ELSE ps
           st == [proc[p] EXCEPT !.pc = proc[p].cmd.op, !.plugin = plugin,
                                 !.props = AddDefaults(loaded, MainDefaults)]
<1>1. At(p, "main") /\ OnPool /\ UNCHANGED faults
  BY DEF Main
<1>2. CASE ~MainPasses(p)
  <2>1. Exit(p, "fail", Absent)
    BY <1>2 DEF Main
  <2>2. props' \in Properties /\ UNCHANGED <<bevars, created>>
    BY <1>1 DEF OnPool, TypeInv, ZeTypeOK
  <2> QED
    BY <1>1, <2>1, <2>2, ExitType
<1>3. CASE MainPasses(p)
  <2>1. Continue(p, st)
    BY <1>3 DEF Main
  <2>2. /\ proc[p] \in Running /\ proc[p].cmd \in Commands /\ ps \in Properties
        /\ proc[p].since \subseteq bes
    BY <1>1, RunningType DEF At
  <2>3. proc[p].cmd.op \in {"set", "get", "list"}
    BY <2>2, CommandType
  <2>4. loaded \in Properties /\ AddDefaults(loaded, MainDefaults) \in Properties
    BY <2>2, AddDefaultsType
  <2>5. plugin \in BOOLEAN
    OBVIOUS
  <2> HIDE DEF loaded, plugin
  <2>6. st \in Running /\ st.since \subseteq bes /\ st.pc = st.cmd.op
    BY <2>2, <2>3, <2>4, <2>5 DEF Running
  <2> HIDE DEF st
  <2> QED
    BY <1>1, <2>1, <2>6, ContinueType
<1> QED
  BY <1>2, <1>3

\* set.
LEMMA SetTypes ==
  ASSUME TypeInv, NEW p \in Procs, Set(p)
  PROVE  TypeInv'
<1> DEFINE args == proc[p].cmd.args
           list == {SetProperty(args[i]) : i \in DOMAIN args}
<1>1. At(p, "set") /\ UNCHANGED <<bevars, created>> /\ (Fault \/ UNCHANGED faults)
  BY DEF Set
<1>2. args \in SetLists
  <2>1. proc[p].cmd \in Commands /\ proc[p].cmd.op = "set"
    BY <1>1, RunningType DEF TypeInv, OperatesOK, At
  <2> QED
    BY <2>1, CommandType
<1>3. ASSUME Error \notin list
      PROVE  Written(p, list) \in Properties
  <2>1. ASSUME NEW s \in list
        PROVE  s.value \in Values
    <3>1. s \in SetProps
      BY <1>2, <1>3 DEF SetProps, SetArgs
    <3> QED
      BY <3>1 DEF Values
  <2> HIDE DEF list
  <2>2. ASSUME NEW n \in PropNames, \E s \in list : s.name = n
        PROVE  (CHOOSE s \in list : s.name = n).value \in Values
    <3>1. (CHOOSE s \in list : s.name = n) \in list
      BY <2>2
    <3> QED
      BY <2>1, <3>1
  <2>3. \A n \in PropNames : props[n] \in Values \cup {Absent}
    BY DEF TypeInv, ZeTypeOK, Properties
  <2> QED
    BY <2>2, <2>3 DEF Written, Properties
<1>4. \E result \in {"fail", "ok"} : Exit(p, result, Absent)
  BY DEF Set
<1>5. props' = props \/ (props' = Written(p, list) /\ Error \notin list)
  BY DEF Set
<1>6. props' \in Properties
  BY <1>3, <1>5 DEF TypeInv, ZeTypeOK
<1> QED
  BY <1>1, <1>4, <1>6, ExitType

\* get, and the end of a list.
LEMMA EndTypes ==
  ASSUME TypeInv, NEW p \in Procs, Get(p) \/ EndList(p)
  PROVE  TypeInv'
<1>1. props' \in Properties /\ UNCHANGED <<bevars, created>> /\ (Fault \/ UNCHANGED faults)
  BY DEF Get, EndList, OnPool, TypeInv, ZeTypeOK
<1>2. \E shown : Exit(p, "ok", shown)
  BY DEF Get, EndList
<1> QED
  BY <1>1, <1>2, ExitType

\* list.
LEMMA StartListTypes ==
  ASSUME TypeInv, NEW p \in Procs, StartList(p)
  PROVE  TypeInv'
<1> DEFINE st == [proc[p] EXCEPT !.pc = "iterate", !.since = bes]
<1>1. At(p, "list") /\ OnPool
  BY DEF StartList
<1>2. CASE \E result \in {"fail", "killed"} : Exit(p, result, Absent) /\ Fault
  <2>1. props' \in Properties /\ UNCHANGED <<bevars, created>>
    BY <1>1 DEF OnPool, TypeInv, ZeTypeOK
  <2> QED
    BY <1>2, <2>1, ExitType
<1>3. CASE Continue(p, st) /\ UNCHANGED faults
  <2>1. proc[p] \in Running /\ bes \subseteq Names
    BY <1>1, RunningType DEF TypeInv, ZeTypeOK, At
  <2>2. st \in Running /\ st.since \subseteq bes /\ st.pc = "iterate"
    BY <2>1 DEF Running
  <2> HIDE DEF st
  <2> QED
    BY <1>1, <1>3, <2>2, ContinueType
<1> QED
  BY <1>2, <1>3 DEF StartList

\* libze_list_cb: a line of the list has the type of one.
LEMMA VisitTypes ==
  ASSUME TypeInv, NEW p \in Procs, Visit(p)
  PROVE  TypeInv'
<1>1. At(p, "iterate") /\ OnPool /\ UNCHANGED faults
  BY DEF Visit
<1>2. PICK e \in bes \ proc[p].visited :
        Continue(p, [proc[p] EXCEPT !.visited = @ \cup {e}, !.shown[KeyOf(e)] =
                       [name |-> e, next |-> e = proc[p].activated, now |-> e = running]])
  BY DEF Visit
<1> DEFINE line == [name |-> e, next |-> e = proc[p].activated, now |-> e = running]
           st == [proc[p] EXCEPT !.visited = @ \cup {e}, !.shown[KeyOf(e)] = line]
           shown == [proc[p].shown EXCEPT ![KeyOf(e)] = line]
           visited == proc[p].visited \cup {e}
<1>3. /\ proc[p] \in Running /\ proc[p].shown \in Listing /\ proc[p].visited \in SUBSET Names
      /\ proc[p].since \subseteq bes
  BY <1>1, RunningType DEF At
<1>4. e \in Names /\ KeyOf(e) \in 0 .. MaxSecond
  BY DEF TypeInv, ZeTypeOK, KeyOf
<1>5. line \in Entries
  BY <1>4 DEF Entries
<1>6. Continue(p, st)
  BY <1>2
<1> HIDE DEF line
<1>7. shown \in Listing /\ visited \in SUBSET Names
  BY <1>3, <1>4, <1>5 DEF Listing
<1>8. st = [proc[p] EXCEPT !.visited = visited, !.shown = shown]
  BY <1>3, <1>4 DEF Running
<1> HIDE DEF st, shown, visited
<1>9. st \in Running /\ st.since \subseteq bes /\ st.pc = "iterate"
  BY <1>1, <1>3, <1>7, <1>8 DEF Running, At
<1> QED
  BY <1>1, <1>6, <1>9, ContinueType

\* The environment.
LEMMA OthersTypes ==
  ASSUME TypeInv, Others
  PROVE  TypeInv'
<1>1. bes' \subseteq Names /\ active' \in bes' /\ running' \in bes'
  BY DEF Others, BENext, CreateBE, DestroyBE, ActivateBE, RebootInto, RenameTo, TypeInv, ZeTypeOK
<1>2. props' = props /\ faults' = faults /\ out' = Absent
  BY DEF Others
<1>3. PICK second \in 0 .. MaxSecond :
        created' = [e \in bes' |->
          IF e \in bes THEN created[e]
          ELSE IF bes \subseteq bes' THEN second ELSE created[CHOOSE x \in bes : x \notin bes']]
  BY DEF Others
<1>4. created' \in [bes' -> 0 .. MaxSecond]
  <2>1. ASSUME NEW e \in bes', e \notin bes, ~(bes \subseteq bes')
        PROVE  created[CHOOSE x \in bes : x \notin bes'] \in 0 .. MaxSecond
    <3>1. \E x \in bes : x \notin bes'
      BY <2>1
    <3>2. (CHOOSE x \in bes : x \notin bes') \in bes
      BY <3>1
    <3> QED
      BY <3>2 DEF TypeInv, ZeTypeOK
  <2>2. \A e \in bes : created[e] \in 0 .. MaxSecond
    BY DEF TypeInv, ZeTypeOK
  <2> QED
    BY <1>3, <2>1, <2>2
<1> DEFINE st(q) == IF running' # running THEN Idle ELSE [proc[q] EXCEPT !.since = @ \cap bes']
<1>5. proc' = [q \in Procs |-> st(q)]
  BY DEF Others
<1>6. ASSUME NEW q \in Procs
      PROVE  /\ st(q) \in Running \cup {Idle} /\ st(q).since \subseteq bes'
             /\ st(q).pc = "idle" \/ (st(q).pc = proc[q].pc /\ st(q).cmd = proc[q].cmd)
  <2>1. CASE running' # running \/ proc[q] = Idle
    <3>1. Idle.since = {} /\ Idle.pc = "idle"
      BY DEF Idle
    <3>2. [Idle EXCEPT !.since = @ \cap bes'] = Idle
      <4>1. Idle.since \cap bes' = Idle.since
        BY <3>1
      <4>2. [Idle EXCEPT !.since = Idle.since] = Idle
        BY DEF Idle
      <4> QED
        BY <4>1, <4>2
    <3>3. st(q) = Idle
      BY <2>1, <3>2
    <3> HIDE DEF st
    <3> QED
      BY <3>1, <3>3
  <2>2. CASE running' = running /\ proc[q] # Idle
    <3>1. proc[q] \in Running
      BY <2>2 DEF TypeInv, ZeTypeOK
    <3>2. st(q) = [proc[q] EXCEPT !.since = proc[q].since \cap bes']
      BY <2>2
    <3> QED
      BY <1>1, <3>1, <3>2 DEF Running
  <2> QED
    BY <2>1, <2>2
<1> HIDE DEF st
<1>7. /\ proc' \in [Procs -> Running \cup {Idle}]
      /\ \A q \in Procs : proc'[q].since \subseteq bes' /\ OperatesOK(q)'
  BY <1>5, <1>6 DEF TypeInv, OperatesOK
<1> QED
  BY <1>1, <1>2, <1>4, <1>7 DEF TypeInv, ZeTypeOK

\* zfs inherit keeps the types.
LEMMA RepairTypes ==
  ASSUME TypeInv, NEW n \in {Bootloader, BootPoolRoot}, Repair(n)
  PROVE  TypeInv'
<1>1. /\ props' = [props EXCEPT ![n] = Absent] /\ out' = Absent
      /\ bes' = bes /\ active' = active /\ running' = running /\ created' = created
      /\ proc' = proc /\ faults' = faults
  BY DEF Repair, bevars
<1>2. props' \in Properties
  BY <1>1 DEF TypeInv, ZeTypeOK, Properties
<1> QED
  BY <1>1, <1>2 DEF TypeInv, ZeTypeOK, OperatesOK

\* Types at the beginning, and in every step.
LEMMA TypesStart ==
  ASSUME ZeInit
  PROVE  TypeInv
<1>1. bes \subseteq Names /\ active \in bes /\ running \in bes
  BY DEF ZeInit, BEInit
<1>2. props \in Properties
  BY DEF ZeInit, Properties
<1>3. faults \in 0 .. MaxFaults
  BY ZeHandleAssumption DEF ZeInit
<1>4. /\ proc \in [Procs -> Running \cup {Idle}] /\ \A p \in Procs : proc[p].since \subseteq bes
      /\ \A p \in Procs : OperatesOK(p)
  BY DEF ZeInit, Idle, OperatesOK
<1> QED
  BY <1>1, <1>2, <1>3, <1>4 DEF TypeInv, ZeTypeOK, ZeInit

\* Every step keeps the types.
LEMMA TypesStep ==
  ASSUME TypeInv, [ZeNext]_zeVars
  PROVE  TypeInv'
<1>1. ASSUME NEW p \in Procs, Step(p)
      PROVE  TypeInv'
  BY <1>1, OpenTypes, MainTypes, SetTypes, StartListTypes, VisitTypes, EndTypes DEF Step
<1>2. CASE UNCHANGED zeVars
  BY <1>2 DEF zeVars, bevars, TypeInv, ZeTypeOK, OperatesOK
<1> QED
  BY <1>1, <1>2, OthersTypes, RepairTypes DEF ZeNext

\* ZeTypeOK, whatever is typed and whatever else runs.
THEOREM HandleTypes == ZeSpec => []ZeTypeOK
<1>1. ZeInit => TypeInv
  BY TypesStart
<1>2. TypeInv /\ [ZeNext]_zeVars => TypeInv'
  BY TypesStep
<1>3. TypeInv => ZeTypeOK
  BY DEF TypeInv
<1> QED
  BY <1>1, <1>2, <1>3, PTL DEF ZeSpec

(***************************************************************************)
(* The steps.                                                              *)
(***************************************************************************)
\* What a step leaves alone stays as it was.
LEMMA Untouched ==
  ASSUME NEW q \in Procs, HandleOK(q), proc'[q] = proc[q], At(q, "idle") \/ knew'[q] = knew[q],
         created' = created, running' = running
  PROVE  HandleOK(q)'
<1>1. NotBegun(q)'
  BY DEF HandleOK, NotBegun, At
<1>2. OpenedOK(q)'
  BY DEF HandleOK, OpenedOK, At
<1>3. PassedOK(q)'
  BY DEF HandleOK, PassedOK, Passed, At
<1>4. LinesOK(q)' /\ SeenOK(q)'
  BY DEF HandleOK, LinesOK, SeenOK
<1> QED
  BY <1>1, <1>2, <1>3, <1>4 DEF HandleOK

\* A process that has ended knows nothing.
LEMMA Ended ==
  ASSUME NEW q \in Procs, proc'[q] = Idle
  PROVE  HandleOK(q)'
<1>1. Idle.pc = "idle" /\ Idle.visited = {} /\ Idle.shown = NoListing
  BY DEF Idle
<1>2. \A s \in 0 .. MaxSecond : NoListing[s] = Absent
  BY DEF NoListing
<1>3. NotBegun(q)' /\ OpenedOK(q)' /\ PassedOK(q)'
  BY <1>1 DEF NotBegun, OpenedOK, PassedOK, At
<1>4. LinesOK(q)' /\ SeenOK(q)'
  BY <1>1, <1>2 DEF LinesOK, SeenOK
<1> QED
  BY <1>3, <1>4 DEF HandleOK

\* What happens to the history when a process makes a step.
StepOf(p) ==
  /\ said' = [t \in TypedNames |-> Says(p, t)]
  /\ knew' = [q \in Procs |-> IF proc'[q].pc = "idle" THEN NothingSaid
                              ELSE IF At(q, "idle") THEN said ELSE knew[q]]

\* A step of a process is nothing to the others.
LEMMA OthersKept ==
  ASSUME HistoryInv, NEW p \in Procs, StepOf(p), UNCHANGED <<bevars, created>>,
         NEW st, proc' = [proc EXCEPT ![p] = st]
  PROVE  \A q \in Procs \ {p} : HandleOK(q)'
<1> TAKE q \in Procs \ {p}
<1>1. proc'[q] = proc[q]
  BY DEF HistoryInv, TypeInv, ZeTypeOK
<1>2. At(q, "idle") \/ knew'[q] = knew[q]
  BY <1>1 DEF StepOf, At
<1> QED
  BY <1>1, <1>2, Untouched DEF HistoryInv, bevars

\* A process that goes on says nothing.
LEMMA GoesOn ==
  ASSUME HistoryInv, NEW p \in Procs, StepOf(p), TypeInv', NEW st, Continue(p, st), OnPool,
         HandleOK(p)'
  PROVE  HistoryInv'
<1>1. \A t \in TypedNames : said'[t] = said[t]
  BY DEF StepOf, Says, Succeeds, Continue
<1>2. Records(props, said)'
  BY <1>1 DEF HistoryInv, Records, OnPool
<1>3. \A q \in Procs \ {p} : HandleOK(q)'
  BY OthersKept DEF Continue, OnPool
<1> QED
  BY <1>2, <1>3 DEF HistoryInv

\* A process that ends without setting anything says nothing.
LEMMA Ends ==
  ASSUME HistoryInv, NEW p \in Procs, StepOf(p), TypeInv', NEW result, NEW shown,
         Exit(p, result, shown), OnPool, ~At(p, "set") \/ result # "ok"
  PROVE  HistoryInv'
<1>1. \A t \in TypedNames : said'[t] = said[t]
  BY DEF StepOf, Says, Succeeds, Exit, Result
<1>2. Records(props, said)'
  BY <1>1 DEF HistoryInv, Records, OnPool
<1>3. \A q \in Procs \ {p} : HandleOK(q)'
  BY OthersKept DEF Exit, OnPool
<1>4. HandleOK(p)'
  BY Ended DEF Exit, HistoryInv, TypeInv, ZeTypeOK
<1> QED
  BY <1>2, <1>3, <1>4 DEF HistoryInv

\* The arguments of set are strings of tokens.
LEMMA SetArgsType == SetArgs \subseteq Seq(Tokens)
<1>1. ASSUME NEW l \in SetLists, NEW i \in DOMAIN l
      PROVE  l[i] \in Seq(Tokens)
  <2>1. l \in Seq(Seq(Tokens))
    BY ZeHandleAssumption
  <2>2. i \in 1 .. Len(l)
    BY <2>1
  <2> QED
    BY <2>1, <2>2, ElementOfSeq
<1> QED
  BY <1>1 DEF SetArgs

\* The name and the value of an argument that is taken.
LEMMA ArgFacts ==
  ASSUME ColonsInNames, NEW a \in SetArgs, SetProperty(a) # Error
  PROVE  /\ Typed(a).name \in TypedNames
         /\ Typed(a).name \in Seq(Tokens) /\ Typed(a).value \in Seq(Tokens)
         /\ SetProperty(a) = [name |-> GetProperty(Typed(a).name), value |-> Typed(a).value]
         /\ GetProperty(Typed(a).name) \in PropNames /\ Typed(a).value \in Values
<1>1. a \in Seq(Tokens)
  BY SetArgsType
<1>2. Places(a, ":") = {} \/ First(a, ":") < First(a, "=")
  BY DEF ColonsInNames
<1>3. /\ Typed(a).name \in Seq(Tokens) /\ Typed(a).value \in Seq(Tokens)
      /\ SetProperty(a) = [name |-> GetProperty(Typed(a).name), value |-> Typed(a).value]
  BY <1>1, <1>2, SetIsTyped
<1>4. Typed(a).name \in TypedNames
  BY DEF TypedNames
<1>5. SetProperty(a) \in SetProps
  BY DEF SetProps
<1>6. SetProperty(a).name \in PropNames /\ SetProperty(a).value \in Values
  BY <1>5 DEF PropNames, Values
<1> QED
  BY <1>3, <1>4, <1>6

\* The names that are typed.
LEMMA TypedNameFacts ==
  ASSUME ColonsInNames, NEW t \in TypedNames
  PROVE  t \in Seq(Tokens) /\ GetProperty(t) \in PropNames /\ InNamespace(GetProperty(t))
<1>1. PICK a \in SetArgs : SetProperty(a) # Error /\ t = Typed(a).name
  BY DEF TypedNames
<1>2. t \in Seq(Tokens) /\ GetProperty(t) \in PropNames
  BY <1>1, ArgFacts
<1> QED
  BY <1>2, GetNameInNamespace

\* libze_init takes what the pool has.
LEMMA OpenStep ==
  ASSUME HistoryInv, NEW p \in Procs, StepOf(p), Open(p)
  PROVE  HistoryInv'
<1> DEFINE ps == [n \in PropNames |-> IF InNamespace(n) THEN props[n] ELSE Absent]
<1>1. PICK c \in Commands :
        Continue(p, [Idle EXCEPT !.pc = "main", !.cmd = c, !.activated = active, !.props = ps])
  BY DEF Open
<1> DEFINE st == [Idle EXCEPT !.pc = "main", !.cmd = c, !.activated = active, !.props = ps]
<1>2. /\ st.pc = "main" /\ st.props = ps /\ st.visited = {} /\ st.since = {} /\ st.shown = NoListing
      /\ st.cmd = c /\ st.activated = active /\ st.plugin = FALSE
  BY DEF Idle
<1> HIDE DEF ps, st
<1>3. proc'[p] = st /\ knew'[p] = said
  BY <1>1, <1>2 DEF Continue, HistoryInv, TypeInv, ZeTypeOK, StepOf, Open, At, st
<1>4. Records(ps, said)
  <2> SUFFICES ASSUME ColonsInNames
               PROVE  Records(ps, said)
    BY DEF Records
  <2>1. ASSUME NEW t \in TypedNames
        PROVE  ps[GetProperty(t)] = said[t]
    <3>1. GetProperty(t) \in PropNames /\ InNamespace(GetProperty(t))
      BY TypedNameFacts
    <3> QED
      BY <3>1 DEF ps, HistoryInv, Records
  <2>2. ASSUME NEW n \in PropNames, \A t \in TypedNames : GetProperty(t) # n
        PROVE  ps[n] = Absent
    BY <2>2 DEF ps, HistoryInv, Records
  <2> QED
    BY <2>1, <2>2 DEF Records
<1>5. HandleOK(p)'
  <2>1. NotBegun(p)' /\ PassedOK(p)'
    BY <1>2, <1>3 DEF NotBegun, PassedOK, At
  <2>2. OpenedOK(p)'
    BY <1>2, <1>3, <1>4 DEF OpenedOK, Records
  <2>3. LinesOK(p)' /\ SeenOK(p)'
    BY <1>2, <1>3 DEF LinesOK, SeenOK, NoListing
  <2> QED
    BY <2>1, <2>2, <2>3 DEF HandleOK
<1>6. OnPool /\ Continue(p, st)
  BY <1>1 DEF Open, st
<1> QED
  BY <1>5, <1>6, OpenTypes, GoesOn DEF HistoryInv

\* main goes on with the plugin of the boot loader it has read, or ends.
LEMMA MainStep ==
  ASSUME HistoryInv, NEW p \in Procs, StepOf(p), Main(p)
  PROVE  HistoryInv'
<1> DEFINE ps == proc[p].props
           plugin == LoaderOf(p) \in Plugins
           loaded == IF plugin THEN AddDefaults(ps, PluginDefaults) ELSE ps
           st == [proc[p] EXCEPT !.pc = proc[p].cmd.op, !.plugin = plugin,
                                 !.props = AddDefaults(loaded, MainDefaults)]
<1>1. At(p, "main") /\ OnPool /\ UNCHANGED faults
  BY DEF Main
<1>2. CASE ~MainPasses(p)
  <2>1. Exit(p, "fail", Absent)
    BY <1>2 DEF Main
  <2> QED
    BY <1>1, <2>1, MainTypes, Ends DEF HistoryInv
<1>3. CASE MainPasses(p)
  <2>1. Continue(p, st)
    BY <1>3 DEF Main
  <2>2. /\ proc[p] \in Running /\ proc[p].cmd \in Commands /\ ps \in Properties
        /\ proc[p].since \subseteq bes
    BY <1>1, RunningType DEF HistoryInv, At
  <2>3. proc[p].cmd.op \in {"set", "get", "list"}
    BY <2>2, CommandType
  <2>4. /\ st.pc = proc[p].cmd.op /\ st.cmd = proc[p].cmd /\ st.plugin = plugin
        /\ st.props = AddDefaults(loaded, MainDefaults) /\ st.activated = proc[p].activated
        /\ st.visited = proc[p].visited /\ st.since = proc[p].since /\ st.shown = proc[p].shown
    BY <2>2 DEF Running
  <2> HIDE DEF st
  <2>5. proc'[p] = st /\ knew'[p] = knew[p]
    <3>1. st.pc # "idle" /\ ~At(p, "idle")
      BY <1>1, <2>3, <2>4 DEF At
    <3> QED
      BY <2>1, <3>1 DEF Continue, HistoryInv, TypeInv, ZeTypeOK, StepOf
  <2>6. proc[p].visited = {} /\ proc[p].shown = NoListing /\ Records(ps, knew[p])
    BY <1>1 DEF HistoryInv, HandleOK, NotBegun, OpenedOK, At
  <2>7. NotBegun(p)' /\ OpenedOK(p)'
    BY <2>3, <2>4, <2>5, <2>6 DEF NotBegun, OpenedOK, At
  <2>8. PassedOK(p)'
    <3>1. PropGet(ps, Bootloader) = LoaderOf(p) /\ LoaderOf(p) \notin BrokenPlugins
      BY <1>3 DEF LoaderOf, MainPasses
    <3> HIDE DEF ps
    <3>2. Records(ps, knew'[p])
      BY <2>5, <2>6
    <3>3. \E r \in Properties :
            /\ Records(r, knew'[p])
            /\ PropGet(r, Bootloader) \notin BrokenPlugins
            /\ proc'[p].plugin = (PropGet(r, Bootloader) \in Plugins)
            /\ proc'[p].props =
                 AddDefaults(IF proc'[p].plugin THEN AddDefaults(r, PluginDefaults) ELSE r, MainDefaults)
      BY <2>2, <2>4, <2>5, <3>1, <3>2
    <3> QED
      BY <3>3 DEF PassedOK, Passed, Records, PropGet, AddDefaults
  <2>9. LinesOK(p)' /\ SeenOK(p)'
    BY <2>4, <2>5, <2>6 DEF LinesOK, SeenOK, NoListing
  <2>10. HandleOK(p)'
    BY <2>7, <2>8, <2>9 DEF HandleOK
  <2> QED
    BY <1>1, <2>1, <2>10, MainTypes, GoesOn DEF HistoryInv
<1> QED
  BY <1>2, <1>3

\* A list that begins takes the environments that are there.
LEMMA StartListStep ==
  ASSUME HistoryInv, NEW p \in Procs, StepOf(p), StartList(p)
  PROVE  HistoryInv'
<1> DEFINE st == [proc[p] EXCEPT !.pc = "iterate", !.since = bes]
<1>1. At(p, "list") /\ OnPool
  BY DEF StartList
<1>2. CASE \E result \in {"fail", "killed"} : Exit(p, result, Absent) /\ Fault
  BY <1>1, <1>2, StartListTypes, Ends DEF HistoryInv
<1>3. CASE Continue(p, st) /\ UNCHANGED faults
  <2>1. proc[p] \in Running
    BY <1>1, RunningType DEF HistoryInv, At
  <2>2. /\ st.pc = "iterate" /\ st.since = bes /\ st.plugin = proc[p].plugin
        /\ st.props = proc[p].props /\ st.visited = proc[p].visited /\ st.shown = proc[p].shown
    BY <2>1 DEF Running
  <2> HIDE DEF st
  <2>3. proc'[p] = st /\ knew'[p] = knew[p]
    BY <1>1, <1>3, <2>2 DEF Continue, HistoryInv, TypeInv, ZeTypeOK, StepOf, At
  <2>4. proc[p].visited = {} /\ proc[p].shown = NoListing
    BY <1>1 DEF HistoryInv, HandleOK, NotBegun, At
  <2>5. NotBegun(p)' /\ OpenedOK(p)'
    BY <2>2, <2>3 DEF NotBegun, OpenedOK, At
  <2>6. PassedOK(p)'
    BY <1>1, <2>2, <2>3 DEF HistoryInv, HandleOK, PassedOK, Passed, At
  <2>7. LinesOK(p)' /\ SeenOK(p)'
    BY <2>2, <2>3, <2>4 DEF LinesOK, SeenOK, NoListing
  <2>8. HandleOK(p)'
    BY <2>5, <2>6, <2>7 DEF HandleOK
  <2> QED
    BY <1>1, <1>3, <2>8, StartListTypes, GoesOn DEF HistoryInv
<1> QED
  BY <1>2, <1>3 DEF StartList

\* A visit adds a line, in the place of any of the same second.
LEMMA VisitStep ==
  ASSUME HistoryInv, NEW p \in Procs, StepOf(p), Visit(p)
  PROVE  HistoryInv'
<1>1. At(p, "iterate") /\ OnPool /\ UNCHANGED faults
  BY DEF Visit
<1>2. PICK e \in bes \ proc[p].visited :
        Continue(p, [proc[p] EXCEPT !.visited = @ \cup {e}, !.shown[KeyOf(e)] =
                       [name |-> e, next |-> e = proc[p].activated, now |-> e = running]])
  BY DEF Visit
<1> DEFINE line == [name |-> e, next |-> e = proc[p].activated, now |-> e = running]
           st == [proc[p] EXCEPT !.visited = @ \cup {e}, !.shown[KeyOf(e)] = line]
<1>3. /\ proc[p] \in Running /\ proc[p].shown \in Listing /\ proc[p].visited \in SUBSET Names
      /\ proc[p].since \subseteq bes
  BY <1>1, RunningType DEF HistoryInv, At
<1>4. e \in Names /\ e \in bes /\ created[e] \in 0 .. MaxSecond /\ KeyOf(e) = created[e]
  BY DEF HistoryInv, TypeInv, ZeTypeOK, KeyOf
<1>5. /\ line \in Entries /\ line.name = e /\ line.next = (e = proc[p].activated)
      /\ line.now = (e = running)
  BY <1>4 DEF Entries
<1> HIDE DEF line
<1>6. /\ st.pc = proc[p].pc /\ st.props = proc[p].props /\ st.plugin = proc[p].plugin
      /\ st.activated = proc[p].activated /\ st.since = proc[p].since
      /\ st.visited = proc[p].visited \cup {e}
      /\ st.shown = [proc[p].shown EXCEPT ![created[e]] = line]
  BY <1>3, <1>4 DEF Running
<1>7. Continue(p, st)
  BY <1>2 DEF line
<1> HIDE DEF st
<1>8. proc'[p] = st /\ knew'[p] = knew[p] /\ created' = created /\ running' = running
  BY <1>1, <1>6, <1>7 DEF Continue, HistoryInv, TypeInv, ZeTypeOK, StepOf, At, OnPool, bevars
<1>9. NotBegun(p)' /\ OpenedOK(p)'
  BY <1>1, <1>6, <1>8 DEF NotBegun, OpenedOK, At
<1>10. PassedOK(p)'
  BY <1>1, <1>6, <1>8 DEF HistoryInv, HandleOK, PassedOK, Passed, At
<1>11. \A s \in 0 .. MaxSecond :
         st.shown[s] = IF s = created[e] THEN line ELSE proc[p].shown[s]
  BY <1>3, <1>4, <1>6 DEF Listing
<1>12. LinesOK(p)'
  <2>1. \A s \in 0 .. MaxSecond : st.shown[s] # Absent =>
          /\ st.shown[s].next = (st.shown[s].name = st.activated)
          /\ st.shown[s].now = (st.shown[s].name = running)
    BY <1>5, <1>6, <1>11 DEF HistoryInv, HandleOK, LinesOK
  <2> QED
    BY <1>8, <2>1 DEF LinesOK
<1>13. SeenOK(p)'
  <2>1. line # Absent
    BY <1>5, AbsentAssumption
  <2>2. \A x \in st.visited \cap st.since : created[x] \in 0 .. MaxSecond
    BY <1>3, <1>6 DEF HistoryInv, TypeInv, ZeTypeOK
  <2>3. \A x \in st.visited \cap st.since : st.shown[created[x]] # Absent
    BY <1>6, <1>11, <2>1, <2>2 DEF HistoryInv, HandleOK, SeenOK
  <2> QED
    BY <1>8, <2>3 DEF SeenOK
<1>14. HandleOK(p)'
  BY <1>9, <1>10, <1>12, <1>13 DEF HandleOK
<1> QED
  BY <1>1, <1>7, <1>14, VisitTypes, GoesOn DEF HistoryInv

\* get and the end of a list.
LEMMA EndStep ==
  ASSUME HistoryInv, NEW p \in Procs, StepOf(p), Get(p) \/ EndList(p)
  PROVE  HistoryInv'
<1>1. OnPool /\ ~At(p, "set")
  BY DEF Get, EndList, At
<1>2. CASE Get(p)
  <2>1. \E shown : Exit(p, "ok", shown)
    BY <1>2 DEF Get
  <2> QED
    BY <1>1, <1>2, <2>1, EndTypes, Ends DEF Get, HistoryInv
<1>3. CASE EndList(p)
  <2>1. Exit(p, "ok", proc[p].shown) /\ (Fault \/ UNCHANGED faults)
    BY <1>3 DEF EndList
  <2> QED
    BY <1>1, <1>3, <2>1, EndTypes, Ends DEF HistoryInv
<1> QED
  BY <1>2, <1>3

\* A set that succeeds has written what was said.
LEMMA SetRecords ==
  ASSUME ColonsInNames, HistoryInv, NEW p \in Procs, StepOf(p), At(p, "set"),
         NEW args, args = proc[p].cmd.args,
         NEW list, list = {SetProperty(args[i]) : i \in DOMAIN args}, Error \notin list,
         \A i, j \in DOMAIN args : i # j => SetProperty(args[i]).name # SetProperty(args[j]).name,
         Exit(p, "ok", Absent), props' = Written(p, list)
  PROVE  Records(props, said)'
<1> DEFINE typed == {Typed(args[i]) : i \in DOMAIN args}
<1>1. args \in SetLists
  <2>1. proc[p].cmd \in Commands /\ proc[p].cmd.op = "set"
    BY RunningType DEF HistoryInv, TypeInv, OperatesOK, At
  <2> QED
    BY <2>1, CommandType
<1>2. ASSUME NEW i \in DOMAIN args
      PROVE  /\ SetProperty(args[i]) \in list /\ Typed(args[i]) \in typed
             /\ Typed(args[i]).name \in TypedNames
             /\ SetProperty(args[i]).name = GetProperty(Typed(args[i]).name)
             /\ SetProperty(args[i]).value = Typed(args[i]).value
             /\ SetProperty(args[i]).name \in PropNames /\ SetProperty(args[i]).value \in Values
  <2>1. args[i] \in SetArgs
    BY <1>1 DEF SetArgs
  <2>2. SetProperty(args[i]) \in list
    OBVIOUS
  <2>3. SetProperty(args[i]) # Error
    BY <2>2
  <2> QED
    BY <2>1, <2>2, <2>3, ArgFacts
<1>3. \A i, j \in DOMAIN args :
        SetProperty(args[i]).name = SetProperty(args[j]).name => i = j
  OBVIOUS
<1> DEFINE written(n) == IF \E s \in list : s.name = n
                         THEN (CHOOSE s \in list : s.name = n).value ELSE props[n]
<1>4. props' = [n \in PropNames |-> written(n)]
  BY DEF Written
<1>5. ASSUME NEW n \in PropNames, NEW i \in DOMAIN args, SetProperty(args[i]).name = n
      PROVE  written(n) = Typed(args[i]).value
  <2>1. \E s \in list : s.name = n
    BY <1>2, <1>5
  <2> DEFINE s == CHOOSE x \in list : x.name = n
  <2>2. s \in list /\ s.name = n
    BY <2>1
  <2>3. PICK j \in DOMAIN args : s = SetProperty(args[j])
    BY <2>2
  <2>4. j = i
    BY <1>3, <1>5, <2>2, <2>3
  <2>5. written(n) = s.value
    BY <2>1
  <2> HIDE DEF s
  <2> QED
    BY <1>2, <2>3, <2>4, <2>5
<1>6. ASSUME NEW n \in PropNames, \A i \in DOMAIN args : SetProperty(args[i]).name # n
      PROVE  written(n) = props[n]
  <2>1. ~ \E s \in list : s.name = n
    BY <1>6
  <2> QED
    BY <2>1
<1>7. ASSUME NEW t \in TypedNames
      PROVE  said'[t] = IF \E a \in typed : a.name = t
                        THEN (CHOOSE a \in typed : a.name = t).value ELSE said[t]
  <2>1. Succeeds(p, "set")
    BY AbsentAssumption DEF Succeeds, Exit, Result
  <2>2. said'[t] = Says(p, t)
    BY DEF StepOf
  <2> QED
    BY <2>1, <2>2 DEF Says
<1>8. ASSUME NEW t \in TypedNames
      PROVE  props'[GetProperty(t)] = said'[t]
  <2>1. t \in Seq(Tokens) /\ GetProperty(t) \in PropNames
    BY TypedNameFacts
  <2>2. props'[GetProperty(t)] = written(GetProperty(t))
    <3> HIDE DEF written
    <3> QED
      BY <1>4, <2>1
  <2>3. \A i \in DOMAIN args : SetProperty(args[i]).name = GetProperty(t) <=> Typed(args[i]).name = t
    <3> TAKE i \in DOMAIN args
    <3>1. Typed(args[i]).name \in Seq(Tokens)
      BY <1>2, TypedNameFacts
    <3>2. GetProperty(Typed(args[i]).name) = GetProperty(t) => Typed(args[i]).name = t
      BY <2>1, <3>1, GetNameInjective
    <3> QED
      BY <1>2, <3>2
  <2>4. CASE \E i \in DOMAIN args : Typed(args[i]).name = t
    <3>1. PICK i \in DOMAIN args : Typed(args[i]).name = t
      BY <2>4
    <3> DEFINE a == CHOOSE x \in typed : x.name = t
    <3>2. \E x \in typed : x.name = t
      BY <3>1
    <3>3. a \in typed /\ a.name = t
      BY <3>2
    <3>4. PICK j \in DOMAIN args : a = Typed(args[j])
      BY <3>3
    <3>5. j = i
      BY <1>3, <2>3, <3>1, <3>3, <3>4
    <3>6. said'[t] = a.value
      BY <1>7, <3>2
    <3>7. written(GetProperty(t)) = Typed(args[i]).value
      BY <1>5, <2>1, <2>3, <3>1
    <3> HIDE DEF a, written
    <3> QED
      BY <2>2, <3>4, <3>5, <3>6, <3>7
  <2>5. CASE \A i \in DOMAIN args : Typed(args[i]).name # t
    <3>1. ~ \E a \in typed : a.name = t
      BY <2>5
    <3>2. said'[t] = said[t]
      BY <1>7, <3>1
    <3>3. written(GetProperty(t)) = props[GetProperty(t)]
      BY <1>6, <2>1, <2>3, <2>5
    <3> HIDE DEF written
    <3> QED
      BY <2>2, <3>2, <3>3 DEF HistoryInv, Records
  <2> QED
    BY <2>4, <2>5
<1>9. ASSUME NEW n \in PropNames, \A t \in TypedNames : GetProperty(t) # n
      PROVE  props'[n] = Absent
  <2>1. written(n) = props[n]
    <3>1. ASSUME NEW i \in DOMAIN args
          PROVE  SetProperty(args[i]).name # n
      <4>1. Typed(args[i]).name \in TypedNames
        BY <1>2
      <4>2. SetProperty(args[i]).name = GetProperty(Typed(args[i]).name)
        BY <1>2
      <4> QED
        BY <1>9, <4>1, <4>2
    <3> QED
      BY <1>6, <3>1
  <2>2. props'[n] = written(n)
    <3> HIDE DEF written
    <3> QED
      BY <1>4
  <2> HIDE DEF written
  <2> QED
    BY <1>9, <2>1, <2>2 DEF HistoryInv, Records
<1> QED
  BY <1>8, <1>9 DEF Records

\* set.
LEMMA SetStep ==
  ASSUME HistoryInv, NEW p \in Procs, StepOf(p), Set(p)
  PROVE  HistoryInv'
<1> DEFINE args == proc[p].cmd.args
           list == {SetProperty(args[i]) : i \in DOMAIN args}
           refused == \/ Error \in list
                      \/ \E i, j \in DOMAIN args :
                           i # j /\ SetProperty(args[i]).name = SetProperty(args[j]).name
<1>1. At(p, "set") /\ UNCHANGED <<bevars, created>>
  BY DEF Set
<1>2. ASSUME Exit(p, "fail", Absent), UNCHANGED props
      PROVE  HistoryInv'
  BY <1>1, <1>2, SetTypes, Ends DEF OnPool, HistoryInv
<1>3. ASSUME ~refused, Exit(p, "ok", Absent), props' = Written(p, list)
      PROVE  HistoryInv'
  <2>1. Records(props, said)'
    <3> SUFFICES ASSUME ColonsInNames
                 PROVE  Records(props, said)'
      BY DEF Records
    <3> QED
      BY <1>1, <1>3, SetRecords
  <2>2. \A q \in Procs \ {p} : HandleOK(q)'
    BY <1>1, <1>3, OthersKept DEF Exit
  <2>3. HandleOK(p)'
    BY <1>3, Ended DEF Exit, HistoryInv, TypeInv, ZeTypeOK
  <2> QED
    BY <2>1, <2>2, <2>3, SetTypes DEF HistoryInv
<1> QED
  <2>1. CASE refused
    BY <1>2, <2>1 DEF Set
  <2>2. CASE ~refused
    BY <1>2, <1>3, <2>2 DEF Set
  <2> QED
    BY <2>1, <2>2

\* Another command, or a reboot: what a list has seen stays where it is.
LEMMA OthersStep ==
  ASSUME HistoryInv, Others, UNCHANGED said,
         knew' = [q \in Procs |-> IF proc'[q].pc = "idle" THEN NothingSaid
                                  ELSE IF At(q, "idle") THEN said ELSE knew[q]]
  PROVE  HistoryInv'
<1>1. props' = props /\ said' = said
  BY DEF Others
<1>2. \A e \in bes \cap bes' : created'[e] = created[e]
  BY DEF Others
<1>3. \A q \in Procs :
        proc'[q] = IF running' # running THEN Idle ELSE [proc[q] EXCEPT !.since = @ \cap bes']
  BY DEF Others
<1>4. ASSUME NEW q \in Procs
      PROVE  HandleOK(q)'
  <2>1. CASE running' # running
    BY <1>3, <2>1, Ended
  <2>2. CASE proc[q].pc = "idle" /\ running' = running
    <3>1. proc[q] = Idle
      BY <2>2 DEF HistoryInv, TypeInv, ZeTypeOK, Running
    <3>2. Idle.since \cap bes' = Idle.since /\ [Idle EXCEPT !.since = Idle.since] = Idle
      BY DEF Idle
    <3>3. proc'[q] = Idle
      BY <1>3, <2>2, <3>1, <3>2
    <3> QED
      BY <3>3, Ended
  <2>3. CASE proc[q].pc # "idle" /\ running' = running
    <3>1. proc[q] \in Running /\ proc[q].since \subseteq bes
      BY <2>3, RunningType DEF HistoryInv
    <3>2. proc'[q] = [proc[q] EXCEPT !.since = proc[q].since \cap bes']
      BY <1>3, <2>3
    <3>3. /\ proc'[q].pc = proc[q].pc /\ proc'[q].activated = proc[q].activated
          /\ proc'[q].props = proc[q].props /\ proc'[q].plugin = proc[q].plugin
          /\ proc'[q].visited = proc[q].visited /\ proc'[q].since = proc[q].since \cap bes'
          /\ proc'[q].shown = proc[q].shown
      BY <3>1, <3>2 DEF Running
    <3>4. knew'[q] = knew[q]
      BY <2>3, <3>3 DEF At
    <3>5. NotBegun(q)'
      BY <3>3 DEF HistoryInv, HandleOK, NotBegun, At
    <3>6. OpenedOK(q)'
      BY <3>3, <3>4 DEF HistoryInv, HandleOK, OpenedOK, At
    <3>7. PassedOK(q)'
      BY <3>3, <3>4 DEF HistoryInv, HandleOK, PassedOK, Passed, At
    <3>8. LinesOK(q)'
      BY <2>3, <3>3 DEF HistoryInv, HandleOK, LinesOK
    <3>9. SeenOK(q)'
      <4>1. \A e \in proc[q].visited \cap (proc[q].since \cap bes') :
              created'[e] = created[e] /\ proc[q].shown[created[e]] # Absent
        BY <1>2, <3>1 DEF HistoryInv, HandleOK, SeenOK
      <4> QED
        BY <3>3, <4>1 DEF SeenOK
    <3> QED
      BY <3>5, <3>6, <3>7, <3>8, <3>9 DEF HandleOK
  <2> QED
    BY <2>1, <2>2, <2>3
<1>5. Records(props, said)'
  BY <1>1 DEF HistoryInv, Records
<1> QED
  BY <1>4, <1>5, OthersTypes DEF HistoryInv

\* The administrator takes a property away.
LEMMA RepairStep ==
  ASSUME HistoryInv, NEW n \in {Bootloader, BootPoolRoot}, Repair(n),
         said' = [t \in TypedNames |-> IF GetProperty(t) = n THEN Absent ELSE said[t]],
         knew' = [q \in Procs |-> IF proc'[q].pc = "idle" THEN NothingSaid
                                  ELSE IF At(q, "idle") THEN said ELSE knew[q]]
  PROVE  HistoryInv'
<1>1. /\ props' = [props EXCEPT ![n] = Absent] /\ out' = Absent
      /\ bes' = bes /\ active' = active /\ running' = running /\ created' = created
      /\ proc' = proc /\ faults' = faults
  BY DEF Repair, bevars
<1>2. \A m \in PropNames : props'[m] = IF m = n THEN Absent ELSE props[m]
  BY <1>1 DEF HistoryInv, TypeInv, ZeTypeOK, Properties
<1>3. Records(props, said)'
  <2> SUFFICES ASSUME ColonsInNames
               PROVE  Records(props, said)'
    BY DEF Records
  <2>1. \A t \in TypedNames : props'[GetProperty(t)] = said'[t]
    BY <1>2, TypedNameFacts DEF HistoryInv, Records
  <2>2. \A m \in PropNames : (\A t \in TypedNames : GetProperty(t) # m) => props'[m] = Absent
    BY <1>2 DEF HistoryInv, Records
  <2> QED
    BY <2>1, <2>2 DEF Records
<1>4. \A q \in Procs : HandleOK(q)'
  <2> TAKE q \in Procs
  <2>1. proc'[q] = proc[q] /\ (At(q, "idle") \/ knew'[q] = knew[q])
    BY <1>1 DEF At
  <2> QED
    BY <1>1, <2>1, Untouched DEF HistoryInv
<1> QED
  BY <1>3, <1>4, RepairTypes DEF HistoryInv

\* In the beginning nothing is set.
LEMMA HistoryStarts ==
  ASSUME HistoryInit
  PROVE  HistoryInv
<1>1. TypeInv
  BY TypesStart DEF HistoryInit
<1>2. Records(props, said)
  BY TypedNameFacts DEF Records, HistoryInit, ZeInit, NothingSaid
<1>3. \A p \in Procs : HandleOK(p)
  <2> TAKE p \in Procs
  <2>1. proc[p].pc = "idle" /\ proc[p].visited = {} /\ proc[p].shown = NoListing
    BY DEF HistoryInit, ZeInit, Idle
  <2>2. NotBegun(p) /\ OpenedOK(p) /\ PassedOK(p)
    BY <2>1 DEF NotBegun, OpenedOK, PassedOK, At
  <2>3. LinesOK(p) /\ SeenOK(p)
    BY <2>1 DEF LinesOK, SeenOK, NoListing
  <2> QED
    BY <2>2, <2>3 DEF HandleOK
<1> QED
  BY <1>1, <1>2, <1>3 DEF HistoryInv

\* Every step keeps the invariant.
LEMMA HistoryStep ==
  ASSUME HistoryInv, [HistoryNext]_historyVars
  PROVE  HistoryInv'
<1>1. ASSUME NEW p \in Procs, Step(p), StepOf(p)
      PROVE  HistoryInv'
  BY <1>1, OpenStep, MainStep, SetStep, StartListStep, VisitStep, EndStep DEF Step
<1>2. CASE UNCHANGED historyVars
  <2>1. /\ bes' = bes /\ active' = active /\ running' = running /\ props' = props
        /\ created' = created /\ proc' = proc /\ out' = out /\ faults' = faults
        /\ said' = said /\ knew' = knew
    BY <1>2 DEF historyVars, zeVars, bevars
  <2>2. TypeInv' /\ Records(props, said)'
    BY <2>1, TypesStep DEF HistoryInv, Records, zeVars, bevars
  <2>3. \A q \in Procs : HandleOK(q)'
    BY <2>1, Untouched DEF HistoryInv
  <2> QED
    BY <2>2, <2>3 DEF HistoryInv
<1> QED
  BY <1>1, <1>2, OthersStep, RepairStep DEF HistoryNext, StepOf

\* The invariant holds.
LEMMA HistoryInvariant == HistorySpec => []HistoryInv
<1>1. HistoryInit => HistoryInv
  BY HistoryStarts
<1>2. HistoryInv /\ [HistoryNext]_historyVars => HistoryInv'
  BY HistoryStep
<1> QED
  BY <1>1, <1>2, PTL DEF HistorySpec

(***************************************************************************)
(* The theorems.                                                           *)
(***************************************************************************)
\* What get and the plugin go by: what a handle has of the property typed as t.
LEMMA KnownFacts ==
  ASSUME ColonsInNames, NEW p \in Procs, NEW ps, Records(ps, knew[p]), NEW t \in Seq(Tokens)
  PROVE  /\ GetProperty(t) \in PropNames => ps[GetProperty(t)] = Known(p, t)
         /\ GetProperty(t) \notin PropNames => Known(p, t) = Absent
<1>1. CASE t \in TypedNames
  BY <1>1, TypedNameFacts DEF Known, Records
<1>2. CASE t \notin TypedNames
  <2>1. \A u \in TypedNames : GetProperty(u) # GetProperty(t)
    BY <1>2, TypedNameFacts, GetNameInjective
  <2> QED
    BY <1>2, <2>1 DEF Known, Records
<1> QED
  BY <1>1, <1>2

\* The plugin of a command that goes on.
LEMMA HandlePlugin ==
  ASSUME ColonsInNames, HistoryInv
  PROVE  PluginFollowsSet
<1> SUFFICES ASSUME NEW p \in Procs, proc[p].pc \in {"set", "get", "list", "iterate"}
             PROVE  LET loader == Known(p, <<"bootloader">>) IN
                    proc[p].plugin = (loader \in Plugins) /\ loader \notin BrokenPlugins
  BY DEF PluginFollowsSet
<1>1. PICK ps \in Properties : Passed(p, ps)
  BY DEF HistoryInv, HandleOK, PassedOK
<1> DEFINE loader == Known(p, <<"bootloader">>)
<1>2. ps[Bootloader] = loader
  <2>1. GetProperty(<<"bootloader">>) = Bootloader /\ <<"bootloader">> \in Seq(Tokens)
    BY DefaultNames
  <2>2. Bootloader \in PropNames
    BY DefaultTypes
  <2>3. Records(ps, knew[p])
    BY <1>1 DEF Passed
  <2> HIDE DEF loader
  <2> QED
    BY <2>1, <2>2, <2>3, KnownFacts DEF loader
<1>3. /\ Absent \notin Plugins /\ << >> \notin Plugins
      /\ Absent \notin BrokenPlugins /\ << >> \notin BrokenPlugins
  BY ZeHandleAssumption, AbsentAssumption
<1>4. /\ proc[p].plugin = (PropGet(ps, Bootloader) \in Plugins)
      /\ PropGet(ps, Bootloader) \notin BrokenPlugins
  BY <1>1 DEF Passed
<1> HIDE DEF loader
<1>5. PropGet(ps, Bootloader) = IF loader = Absent THEN << >> ELSE loader
  BY <1>2 DEF PropGet
<1>6. /\ PropGet(ps, Bootloader) \in Plugins <=> loader \in Plugins
      /\ PropGet(ps, Bootloader) \in BrokenPlugins <=> loader \in BrokenPlugins
  BY <1>3, <1>5
<1>7. proc[p].plugin = (loader \in Plugins)
  <2>1. (PropGet(ps, Bootloader) \in Plugins) = (loader \in Plugins)
    BY <1>6
  <2> HIDE DEF PropGet
  <2> QED
    BY <1>4, <2>1
<1>8. loader \notin BrokenPlugins
  BY <1>4, <1>6
<1> QED
  BY <1>7, <1>8 DEF loader

\* PluginFollowsSet: a command that goes on runs with the plugin of the boot
\* loader that was set last before it began.
THEOREM HandlePluginFollowsSet == ColonsInNames /\ HistorySpec => []PluginFollowsSet
<1> SUFFICES ASSUME ColonsInNames
             PROVE  HistorySpec => []PluginFollowsSet
  OBVIOUS
<1>1. HistoryInv => PluginFollowsSet
  BY HandlePlugin
<1>2. HistorySpec => []HistoryInv
  BY HistoryInvariant
<1> QED
  BY <1>1, <1>2, PTL

\* Only the process itself ends its command.
LEMMA OwnStep ==
  ASSUME [HistoryNext]_historyVars, NEW p \in Procs, NEW op, Succeeds(p, op), op # "idle",
         HistoryInv
  PROVE  Step(p) /\ out'.by = p
<1>1. out' # Absent /\ out'.by = p /\ At(p, op)
  BY DEF Succeeds
<1>2. ~UNCHANGED historyVars
  <2>1. ASSUME UNCHANGED historyVars
        PROVE  FALSE
    <3>1. out' = out /\ proc' = proc
      BY <2>1 DEF historyVars, zeVars
    <3>2. proc[p] = Idle
      BY <1>1, <3>1 DEF HistoryInv, TypeInv, ZeTypeOK
    <3> QED
      BY <1>1, <3>2 DEF At, Idle
  <2> QED
    BY <2>1
<1>3. ~Others /\ \A n \in {Bootloader, BootPoolRoot} : ~Repair(n)
  BY <1>1 DEF Others, Repair
<1>4. PICK q \in Procs : Step(q)
  BY <1>2, <1>3 DEF HistoryNext
<1>5. \E result, shown : Exit(q, result, shown)
  BY <1>1, <1>4 DEF Step, Open, Main, Set, Get, StartList, Visit, EndList, Continue
<1>6. out'.by = q
  BY <1>5 DEF Exit, Result
<1> QED
  BY <1>1, <1>4, <1>6

\* What get shows.
LEMMA GetShows ==
  ASSUME ColonsInNames, HistoryInv, [HistoryNext]_historyVars, NEW p \in Procs, Succeeds(p, "get")
  PROVE  LET arg == proc[p].cmd.arg
             default == CASE arg \in {<<"bootloader">>, <<"bootpoolroot">>} -> << >>
                          [] arg = <<"systemdboot", ":", "efi">> /\ proc[p].plugin -> <<"/efi">>
                          [] OTHER -> <<"-">>
         IN out'.shown = IF Known(p, arg) # Absent THEN Known(p, arg) ELSE default
<1> DEFINE arg == proc[p].cmd.arg
           n == GetProperty(arg)
           loader == <<"bootloader">>
           root == <<"bootpoolroot">>
           efi == <<"systemdboot", ":", "efi">>
           default == CASE arg \in {loader, root} -> << >>
                        [] arg = efi /\ proc[p].plugin -> <<"/efi">>
                        [] OTHER -> <<"-">>
           known == n \in PropNames /\ proc[p].props[n] # Absent
<1>1. At(p, "get") /\ Step(p)
  BY OwnStep DEF Succeeds
<1>2. Get(p)
  BY <1>1 DEF Step, At, Open, Main, Set, StartList, Visit, EndList
<1>3. out'.shown = IF known THEN proc[p].props[n] ELSE <<"-">>
  BY <1>2 DEF Get, Exit, Result
<1>4. arg \in Seq(Tokens)
  <2>1. proc[p].cmd \in Commands /\ proc[p].cmd.op = "get"
    BY <1>1, RunningType DEF HistoryInv, TypeInv, OperatesOK, At
  <2>2. arg \in GetArgs
    BY <2>1, CommandType
  <2> QED
    BY <2>2, ZeHandleAssumption
<1>5. PICK ps \in Properties : Passed(p, ps)
  BY <1>1 DEF HistoryInv, HandleOK, PassedOK, At
<1>6. /\ n \in PropNames => ps[n] = Known(p, arg)
      /\ n \notin PropNames => Known(p, arg) = Absent
  <2>1. Records(ps, knew[p])
    BY <1>5 DEF Passed
  <2> HIDE DEF arg
  <2> QED
    BY <1>4, <2>1, KnownFacts
<1>7. /\ n = Bootloader <=> arg = loader
      /\ n = BootPoolRoot <=> arg = root
      /\ n = Efi <=> arg = efi
  <2> HIDE DEF arg, loader, root, efi
  <2>1. /\ loader \in Seq(Tokens) /\ GetProperty(loader) = Bootloader
        /\ root \in Seq(Tokens) /\ GetProperty(root) = BootPoolRoot
        /\ efi \in Seq(Tokens) /\ GetProperty(efi) = Efi
    BY DefaultNames DEF loader, root, efi
  <2> QED
    BY <1>4, <2>1, GetNameInjective
<1>8. Efi # Bootloader /\ Efi # BootPoolRoot
  BY ZeHandleAssumption DEF Efi, Bootloader, BootPoolRoot
<1>9. << >> # Absent /\ <<"/efi">> # Absent
  <2>1. << >> \in Seq(Tokens) /\ <<"/efi">> \in Seq(Tokens)
    BY ZeHandleAssumption
  <2> QED
    BY <2>1, AbsentAssumption
<1>10. ASSUME n \in PropNames
       PROVE  proc[p].props[n] =
                IF ps[n] # Absent THEN ps[n]
                ELSE IF n = Efi /\ proc[p].plugin THEN <<"/efi">>
                ELSE IF n \in {Bootloader, BootPoolRoot} THEN << >> ELSE Absent
  <2> HIDE DEF n
  <2> DEFINE loaded == IF proc[p].plugin THEN AddDefaults(ps, PluginDefaults) ELSE ps
  <2>1. proc[p].props = AddDefaults(loaded, MainDefaults)
    BY <1>5 DEF Passed
  <2>2. AddDefaults(ps, PluginDefaults)[n] = IF n = Efi /\ ps[n] = Absent THEN <<"/efi">> ELSE ps[n]
    BY <1>10, DefaultTypes DEF AddDefaults
  <2>3. loaded[n] = IF n = Efi /\ proc[p].plugin /\ ps[n] = Absent THEN <<"/efi">> ELSE ps[n]
    BY <2>2
  <2> HIDE DEF loaded
  <2>4. proc[p].props[n] =
          IF n \in {Bootloader, BootPoolRoot} /\ loaded[n] = Absent THEN << >> ELSE loaded[n]
    BY <1>10, <2>1, DefaultTypes DEF AddDefaults
  <2> QED
    BY <1>8, <1>9, <2>3, <2>4
<1>11. default = IF n \in {Bootloader, BootPoolRoot} THEN << >>
                 ELSE IF n = Efi /\ proc[p].plugin THEN <<"/efi">> ELSE <<"-">>
  <2>1. CASE n \in {Bootloader, BootPoolRoot}
    <3>1. arg \in {loader, root} /\ ~(arg = efi /\ proc[p].plugin)
      BY <1>7, <1>8, <2>1
    <3> HIDE DEF arg, loader, root, efi
    <3> QED
      BY <2>1, <3>1
  <2>2. CASE n \notin {Bootloader, BootPoolRoot} /\ n = Efi /\ proc[p].plugin
    <3>1. arg \notin {loader, root} /\ arg = efi /\ proc[p].plugin
      BY <1>7, <2>2
    <3> HIDE DEF arg, loader, root, efi
    <3> QED
      BY <2>2, <3>1
  <2>3. CASE n \notin {Bootloader, BootPoolRoot} /\ ~(n = Efi /\ proc[p].plugin)
    <3>1. arg \notin {loader, root} /\ ~(arg = efi /\ proc[p].plugin)
      BY <1>7, <2>3
    <3> HIDE DEF arg, loader, root, efi
    <3> QED
      BY <2>3, <3>1
  <2> QED
    BY <2>1, <2>2, <2>3
<1>12. {Bootloader, BootPoolRoot, Efi} \subseteq PropNames
  BY DefaultTypes
<1> HIDE DEF default, n, arg
<1>13. out'.shown = IF Known(p, arg) # Absent THEN Known(p, arg) ELSE default
  <2>1. CASE n \notin PropNames
    BY <1>3, <1>6, <1>11, <1>12, <2>1
  <2>2. CASE n \in PropNames
    BY <1>3, <1>6, <1>8, <1>9, <1>10, <1>11, <2>2
  <2> QED
    BY <2>1, <2>2
<1> QED
  BY <1>13 DEF default, arg

\* GetShowsWhatWasSet: get shows what the last set before it began has set, or a
\* default.
THEOREM HandleGetShowsWhatWasSet == ColonsInNames /\ HistorySpec => GetShowsWhatWasSet
<1> SUFFICES ASSUME ColonsInNames
             PROVE  HistorySpec => GetShowsWhatWasSet
  OBVIOUS
<1> DEFINE A == \A p \in Procs : Succeeds(p, "get") =>
       LET arg == proc[p].cmd.arg
           default == CASE arg \in {<<"bootloader">>, <<"bootpoolroot">>} -> << >>
                        [] arg = <<"systemdboot", ":", "efi">> /\ proc[p].plugin -> <<"/efi">>
                        [] OTHER -> <<"-">>
       IN out'.shown = IF Known(p, arg) # Absent THEN Known(p, arg) ELSE default
<1>1. HistoryInv /\ [HistoryNext]_historyVars => [A]_historyVars
  BY GetShows
<1>2. HistorySpec => []HistoryInv
  BY HistoryInvariant
<1> HIDE DEF A
<1>3. HistorySpec => [][A]_historyVars
  BY <1>1, <1>2, PTL DEF HistorySpec
<1> QED
  BY <1>3 DEF A, GetShowsWhatWasSet

\* A list that ends without a fault.
LEMMA ListShows ==
  ASSUME HistoryInv, [HistoryNext]_historyVars, NEW p \in Procs, Succeeds(p, "iterate"),
         faults' = faults, NEW e \in proc[p].since
  PROVE  LET line == out'.shown[created[e]] IN
         /\ line # Absent
         /\ line.name = e => /\ line.next = (e = proc[p].activated)
                             /\ line.now = (e = running)
<1>1. At(p, "iterate") /\ Step(p) /\ out' # Absent
  BY OwnStep DEF Succeeds
<1>2. EndList(p)
  BY <1>1 DEF Step, At, Open, Main, Set, Get, StartList, Visit, Continue
<1>3. out'.shown = proc[p].shown
  BY <1>2 DEF EndList, Exit, Result
<1>4. proc[p].since \subseteq proc[p].visited
  BY <1>2 DEF EndList, Fault, HistoryInv, TypeInv, ZeTypeOK
<1>5. created[e] \in 0 .. MaxSecond
  <2>1. e \in bes
    BY <1>1, RunningType DEF HistoryInv, At
  <2> QED
    BY <2>1 DEF HistoryInv, TypeInv, ZeTypeOK
<1>6. proc[p].shown[created[e]] # Absent
  BY <1>4 DEF HistoryInv, HandleOK, SeenOK
<1>7. /\ proc[p].shown[created[e]].next = (proc[p].shown[created[e]].name = proc[p].activated)
      /\ proc[p].shown[created[e]].now = (proc[p].shown[created[e]].name = running)
  BY <1>5, <1>6 DEF HistoryInv, HandleOK, LinesOK
<1> QED
  BY <1>3, <1>6, <1>7

\* ListComplete: every environment that was there all along has its line, or
\* another of the same second.
THEOREM HandleListComplete == HistorySpec => ListComplete
<1> DEFINE A == \A p \in Procs : Succeeds(p, "iterate") /\ faults' = faults =>
       \A e \in proc[p].since :
         LET line == out'.shown[created[e]] IN
         /\ line # Absent
         /\ line.name = e => /\ line.next = (e = proc[p].activated)
                             /\ line.now = (e = running)
<1>1. HistoryInv /\ [HistoryNext]_historyVars => [A]_historyVars
  BY ListShows
<1>2. HistorySpec => []HistoryInv
  BY HistoryInvariant
<1> HIDE DEF A
<1>3. HistorySpec => [][A]_historyVars
  BY <1>1, <1>2, PTL DEF HistorySpec
<1> QED
  BY <1>3 DEF A, ListComplete
=============================================================================
