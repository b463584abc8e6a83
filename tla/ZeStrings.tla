------------------------------ MODULE ZeStrings ------------------------------
(***************************************************************************)
(* The string functions of libze_util.c and libze.c.                       *)
(*                                                                         *)
(* A string is a sequence of tokens: the delimiters are tokens, and so is  *)
(* any text without them.  A function that fails, because a buffer of n    *)
(* tokens and the NUL is too small or a delimiter is missing, returns      *)
(* Error; what it leaves in its buffer then is not modelled.               *)
(***************************************************************************)
EXTENDS Naturals, Sequences

CONSTANT Error

Namespace == "org.zectl"

Fits(s, n) == IF Len(s) <= n THEN s ELSE Error

Places(s, d) == {i \in 1 .. Len(s) : s[i] = d}
First(s, d) == CHOOSE i \in Places(s, d) : \A j \in Places(s, d) : i <= j
Last(s, d) == CHOOSE i \in Places(s, d) : \A j \in Places(s, d) : j <= i
Before(s, i) == SubSeq(s, 1, i - 1)
After(s, i) == SubSeq(s, i + 1, Len(s))

Concat(prefix, separator, suffix, n) == Fits(prefix \o separator \o suffix, n)

Cut(s, n, d) ==
  IF Len(s) > n \/ Places(s, d) = {} THEN Error ELSE Before(s, Last(s, d))

Split(s, n, d) ==
  IF Len(s) > n \/ Places(s, d) = {} THEN Error
  ELSE <<Before(s, Last(s, d)), After(s, Last(s, d))>>

\* The part of s after `root` and one character, whatever s begins with.
SuffixAfter(root, s, n) ==
  IF Len(s) > n \/ Len(root) + 1 > n THEN Error ELSE After(s, Len(root) + 1)

BootEnvName(s, n) ==
  IF Len(s) > n \/ Places(s, "/") = {} THEN Error ELSE After(s, Last(s, "/"))

\* The search for '/' starts at the second character.
PoolOf(s) ==
  LET slashes == Places(s, "/") IN
  IF slashes = {} \/ 1 \in slashes THEN Error ELSE Before(s, First(s, "/"))

SnapAndDataset(s, n) ==
  LET dataset == Cut(s, n, "@") IN
  IF dataset = Error THEN Error
  ELSE LET suffix == SuffixAfter(dataset, s, n) IN
       IF suffix = Error THEN Error ELSE <<dataset, suffix>>

\* parse_property: the namespace of a property as it is typed, and the rest.
ParseProperty(arg) ==
  IF Places(arg, ":") = {} THEN <<(<<Namespace>>), arg>>
  ELSE <<(<<Namespace, ".">>) \o Before(arg, First(arg, ":")), After(arg, First(arg, ":"))>>

\* The name and the value libze_add_set_property makes of an argument.
SetProperty(arg) ==
  LET parsed == ParseProperty(arg)
      rest == parsed[2]
  IN  IF Places(rest, "=") = {} THEN Error
      ELSE [name |-> parsed[1] \o <<":">> \o Before(rest, First(rest, "=")),
            value |-> After(rest, First(rest, "="))]

\* The name libze_add_get_property looks for.
GetProperty(arg) == LET parsed == ParseProperty(arg) IN parsed[1] \o <<":">> \o parsed[2]

\* libze_filter_be_props: what comes before the last ':' begins with the
\* namespace, and may go on with any character.
InNamespace(name) ==
  LET prefix == Cut(name, Len(name), ":") IN prefix # Error /\ prefix # << >> /\ prefix[1] = Namespace
=============================================================================
