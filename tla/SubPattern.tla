----------------------------- MODULE SubPattern -----------------------------
(***************************************************************************)
(* The subject patterns of internal/authz/authz.go: what a glob matches    *)
(* and when a glob is taken to pin an identity.  A string is a sequence of *)
(* characters, of which the code tells apart the colon that separates ARN  *)
(* fields, the star, the newline ("." does not match it) and the digits.   *)
(*                                                                         *)
(* A sub is [kind |-> "none"] (left empty), [kind |-> "glob", pat |-> p],  *)
(* or, with the "re:" prefix, [kind |-> "re", anchored |-> .., compiles |->*)
(* .., spans |-> S]: S is the set of subjects the regular expression's     *)
(* leftmost match spans, and the expression is opaque otherwise.           *)
(***************************************************************************)
EXTENDS Integers, Sequences, FiniteSets

CONSTANTS
  Colon, Star, Newline,  \* characters
  Digit,                 \* the digits
  AccountField,          \* the ARN field of the account id (5 in the code)
  AccountLen             \* digits of an account id (12 in the code)

ASSUME SubPatternAssumption ==
  /\ AccountField \in Nat \ {0} /\ AccountLen \in Nat \ {0}
  /\ Colon # Star /\ Colon # Newline /\ Star # Newline
  /\ Digit \cap {Colon, Star, Newline} = {}

NoSub == [kind |-> "none"]

\* A string has a length and, at each position up to it, a character.
IsString(p) == Len(p) \in Nat /\ p = [i \in 1..Len(p) |-> p[i]]

-----------------------------------------------------------------------------
\* strings.Split(p, ":"): the position of the nth colon, of the ends of p
\* otherwise, and the nth field.
Cut(p, n) ==
  IF n = 0 THEN 0
  ELSE IF \E i \in 1..Len(p) : p[i] = Colon /\ Cardinality({j \in 1..i : p[j] = Colon}) = n
       THEN CHOOSE i \in 1..Len(p) :
              p[i] = Colon /\ Cardinality({j \in 1..i : p[j] = Colon}) = n
       ELSE Len(p) + 1

Fields(p) == Cardinality({i \in 1..Len(p) : p[i] = Colon}) + 1

Field(p, n) == SubSeq(p, Cut(p, n - 1) + 1, Cut(p, n) - 1)

\* awsAccountID
IsAccount(v) == Len(v) = AccountLen /\ \A i \in 1..Len(v) : v[i] \in Digit

-----------------------------------------------------------------------------
\* One part of the expression, from the ends R of what the parts before it match:
\* ".*" for a star, which does not match a newline, a character quoted otherwise.
Part(p, s, i, R) ==
  IF p[i] = Star
  THEN {j \in 0..Len(s) : \E k \in R : k <= j /\ \A l \in (k + 1)..j : s[l] # Newline}
  ELSE {j \in 1..Len(s) : j - 1 \in R /\ s[j] = p[i]}

\* Mutant of Glob: the expression is not anchored at its start.
GlobUnanchored(p, s) ==
  LET ends[i \in 0..Len(p)] == IF i = 0 THEN 0..Len(s) ELSE Part(p, s, i, ends[i - 1])
  IN  Len(s) \in ends[Len(p)]

\* compileSub and FindStringIndex on a glob: "^", every part, "$".  ends[i]: how
\* much of s the first i characters of p can match.
Glob(p, s) ==
  LET ends[i \in 0..Len(p)] == IF i = 0 THEN {0} ELSE Part(p, s, i, ends[i - 1])
  IN  Len(s) \in ends[Len(p)]

\* compileSub returns no error.
Compiles(sub) == sub.kind = "re" => sub.anchored /\ sub.compiles

\* subMatches, given a compiled sub: the pattern spans the whole subject.
Spans(sub, s) ==
  CASE sub.kind = "none" -> TRUE
    [] sub.kind = "glob" -> Glob(sub.pat, s)
    [] sub.kind = "re"   -> s \in sub.spans

-----------------------------------------------------------------------------
HasStar(p) == \E i \in 1..Len(p) : p[i] = Star

\* subIsExact
subIsExact(sub) == sub.kind = "glob" /\ ~HasStar(sub.pat)

\* Mutant of accountPinnedInARN: only the account field itself is looked at.
PinnedAnywhere(sub) ==
  /\ sub.kind = "glob"
  /\ Fields(sub.pat) >= AccountField
  /\ IsAccount(Field(sub.pat, AccountField))

\* Mutant of accountPinnedInARN: a star after the account counts as well.
PinnedNoStar(sub) ==
  /\ sub.kind = "glob" /\ ~HasStar(sub.pat)
  /\ Fields(sub.pat) >= AccountField
  /\ IsAccount(Field(sub.pat, AccountField))

\* accountPinnedInARN: the fields before the account are literal too, since a
\* star also matches colons.
accountPinnedInARN(sub) ==
  /\ sub.kind = "glob"
  /\ Fields(sub.pat) >= AccountField
  /\ ~HasStar(SubSeq(sub.pat, 1, Cut(sub.pat, AccountField - 1)))
  /\ IsAccount(Field(sub.pat, AccountField))
=============================================================================
