---------------------------- MODULE PolicyProofs ----------------------------
(***************************************************************************)
(* For every set of policies and identities: a grant always comes from the *)
(* first rule all of whose stated conditions hold, its permissions are the *)
(* ones written down, and a rule that is not marked broad is narrow.  The  *)
(* invariant that carries them is Compiled: once validated, every rule has *)
(* exactly the matchers it declares and passed the guardrail.              *)
(*                                                                         *)
(* What the guardrail accepts is narrow because of what globs match: the   *)
(* first part is about those, for patterns and subjects of any length.     *)
(* Induction over the characters is by the least counterexample.           *)
(***************************************************************************)
EXTENDS Policy, MCSubPattern, FiniteSetTheorems, WellFoundedInduction, TLAPS

\* Every non-empty set of naturals has a least element.
LEMMA LeastNat ==
  ASSUME NEW T \in SUBSET Nat, T # {}
  PROVE  \E n \in T : \A k \in T : n <= k
<1> DEFINE R == {ss \in Nat \X Nat : ss[1] < ss[2]}
<1>1. IsWellFoundedOn(R, Nat)
  BY NatLessThanWellFounded DEF OpToRel
<1> HIDE DEF R
<1>2. PICK n \in T : \A k \in T : ~(<<k, n>> \in R)
  BY <1>1, WFMin
<1>3. \A k \in T : ~(k < n)
  BY <1>2 DEF R
<1> QED  BY <1>3

\* What the first n characters of p can match in s, one after the other.
Ends(f, p, s, n) == f[0] = {0} /\ \A i \in 1..n : f[i] = Part(p, s, i, f[i - 1])

\* There is such a function for every pattern.
LEMMA EndsExist ==
  ASSUME NEW p, NEW s, NEW N \in Nat
  PROVE  \E f : f = [i \in 0..N |-> f[i]] /\ Ends(f, p, s, N)
<1> DEFINE Has(n) == \E f : f = [i \in 0..n |-> f[i]] /\ Ends(f, p, s, n)
           T == {n \in Nat : ~Has(n)}
<1>1. SUFFICES ASSUME T # {} PROVE FALSE
  OBVIOUS
<1>2. PICK n \in T : \A k \in T : n <= k
  <2>1. T \in SUBSET Nat
    OBVIOUS
  <2> HIDE DEF T
  <2> QED  BY <1>1, <2>1, LeastNat
<1>3. CASE n = 0
  <2> DEFINE f == [i \in 0..0 |-> {0}]
  <2>1. f = [i \in 0..0 |-> f[i]] /\ Ends(f, p, s, 0)
    BY DEF Ends
  <2> HIDE DEF f
  <2> QED  BY <1>2, <1>3, <2>1
<1>4. CASE n # 0
  <2>1. n \in Nat \ {0} /\ n - 1 \in Nat /\ n - 1 \notin T
    <3> HIDE DEF Has
    <3> QED  BY <1>2, <1>4
  <2>2. PICK f : f = [i \in 0..(n - 1) |-> f[i]] /\ Ends(f, p, s, n - 1)
    BY <2>1
  <2> DEFINE last == Part(p, s, n, f[n - 1])
             h == [i \in 0..n |-> IF i = n THEN last ELSE f[i]]
  <2>3. last = Part(p, s, n, f[n - 1])
    OBVIOUS
  <2> HIDE DEF last
  <2>4. h[n] = last /\ \A i \in 0..(n - 1) : h[i] = f[i]
    BY <2>1
  <2>5. h = [i \in 0..n |-> h[i]]
    OBVIOUS
  <2> HIDE DEF h
  <2>6. ASSUME NEW i \in 1..n
        PROVE  h[i] = Part(p, s, i, h[i - 1])
    <3>1. i - 1 \in 0..(n - 1)
      BY <2>1
    <3>2. h[i - 1] = f[i - 1]
      BY <2>4, <3>1
    <3>3. CASE i = n
      BY <2>3, <2>4, <3>3, <3>2
    <3>4. CASE i # n
      <4>1. i \in 1..(n - 1) /\ i \in 0..(n - 1)
        BY <2>1, <3>4
      <4>2. f[i] = Part(p, s, i, f[i - 1])
        BY <2>2, <4>1 DEF Ends
      <4> QED  BY <2>4, <3>2, <4>1, <4>2
    <3> QED  BY <3>3, <3>4
  <2>7. h[0] = {0}
    <3>1. 0 \in 0..(n - 1)
      BY <2>1
    <3> QED  BY <2>2, <2>4, <3>1 DEF Ends
  <2>8. Ends(h, p, s, n)
    BY <2>6, <2>7 DEF Ends
  <2> QED  BY <1>2, <2>8, <2>5
<1> QED  BY <1>3, <1>4

\* A glob matches when its last character can end where the subject does.
LEMMA GlobIsEnds ==
  ASSUME NEW p, NEW s, Len(p) \in Nat
  PROVE  \E f : Ends(f, p, s, Len(p)) /\ (Glob(p, s) <=> Len(s) \in f[Len(p)])
<1> DEFINE D == 0..Len(p)
           Eq(h) == h = [i \in D |-> IF i = 0 THEN {0} ELSE Part(p, s, i, h[i - 1])]
           c == CHOOSE h : Eq(h)
<1>2. PICK f : f = [i \in D |-> f[i]] /\ Ends(f, p, s, Len(p))
  BY EndsExist
<1>3. Eq(f)
  BY <1>2 DEF Ends
<1>4. Eq(c)
  BY <1>3
<1> HIDE DEF c
<1>5. Ends(c, p, s, Len(p))
  <2>1. c[0] = {0}
    BY <1>4
  <2>2. ASSUME NEW i \in 1..Len(p) PROVE c[i] = Part(p, s, i, c[i - 1])
    <3>1. i \in D /\ i # 0
      OBVIOUS
    <3> QED  BY <1>4, <3>1
  <2> QED  BY <2>1, <2>2 DEF Ends
<1>6. Glob(p, s) <=> Len(s) \in c[Len(p)]
  BY DEF Glob, c
<1> QED  BY <1>5, <1>6

\* The first n characters of p, none of them a star, match the first n of s or
\* nothing.
LEMMA LiteralEnds ==
  ASSUME NEW p, NEW s, NEW N \in Nat, NEW f, Len(s) \in Nat, Ends(f, p, s, N),
         NEW n \in 0..N, \A i \in 1..n : p[i] # Star
  PROVE  \A i \in 0..n : f[i] = IF i <= Len(s) /\ \A k \in 1..i : s[k] = p[k]
                                THEN {i} ELSE {}
<1> DEFINE L(i) == IF i <= Len(s) /\ \A k \in 1..i : s[k] = p[k] THEN {i} ELSE {}
           T == {i \in 0..n : f[i] # L(i)}
<1>1. SUFFICES ASSUME T # {} PROVE FALSE
  OBVIOUS
<1>2. PICK i \in T : \A k \in T : i <= k
  <2>1. T \in SUBSET Nat
    OBVIOUS
  <2> HIDE DEF T
  <2> QED  BY <1>1, <2>1, LeastNat
<1>3. i # 0
  <2>1. L(0) = {0}
    OBVIOUS
  <2> QED  BY <1>2, <2>1 DEF Ends
<1>4. i \in 1..n /\ i \in 1..N /\ i - 1 \in 0..n /\ i - 1 \notin T /\ i \in Nat
  <2> HIDE DEF L
  <2> QED  BY <1>2, <1>3
<1>5. f[i - 1] = L(i - 1)
  BY <1>4
<1>6. f[i] = {j \in 1..Len(s) : j - 1 \in f[i - 1] /\ s[j] = p[i]}
  BY <1>4 DEF Ends, Part
<1>7. f[i] = L(i)
  <2>1. CASE i - 1 <= Len(s) /\ \A k \in 1..(i - 1) : s[k] = p[k]
    <3>1. f[i - 1] = {i - 1}
      BY <1>5, <2>1
    <3>2. f[i] = {j \in 1..Len(s) : j = i /\ s[j] = p[i]}
      BY <1>4, <1>6, <3>1
    <3>3. (\A k \in 1..i : s[k] = p[k]) <=> s[i] = p[i]
      BY <1>4, <2>1
    <3> QED  BY <1>4, <3>2, <3>3
  <2>2. CASE ~(i - 1 <= Len(s) /\ \A k \in 1..(i - 1) : s[k] = p[k])
    <3>1. f[i - 1] = {}
      BY <1>5, <2>2
    <3>2. f[i] = {}
      BY <1>6, <3>1
    <3>3. ~(i <= Len(s) /\ \A k \in 1..i : s[k] = p[k])
      BY <1>4, <2>2
    <3> QED  BY <3>2, <3>3
  <2> QED  BY <2>1, <2>2
<1> QED  BY <1>2, <1>7

\* Once nothing can be matched, nothing is.
LEMMA NoEndsStay ==
  ASSUME NEW p, NEW s, NEW N \in Nat, NEW f, Ends(f, p, s, N), NEW n \in 0..N, f[n] = {}
  PROVE  f[N] = {}
<1> DEFINE T == {i \in n..N : f[i] # {}}
<1>1. SUFFICES ASSUME T # {} PROVE FALSE
  OBVIOUS
<1>2. PICK i \in T : \A k \in T : i <= k
  <2>1. T \in SUBSET Nat
    OBVIOUS
  <2> HIDE DEF T
  <2> QED  BY <1>1, <2>1, LeastNat
<1>3. i \in 1..N /\ i - 1 \in n..N /\ f[i - 1] = {}
  BY <1>2
<1>4. f[i] = Part(p, s, i, {})
  BY <1>3 DEF Ends
<1>5. f[i] = {}
  BY <1>4 DEF Part
<1> QED  BY <1>2, <1>5

\* A subject that a glob matches begins with what the glob begins with, up to
\* its first star; without a star it is the glob.
LEMMA GlobLiteral ==
  ASSUME NEW p, NEW s, Len(p) \in Nat, Len(s) \in Nat, Glob(p, s),
         NEW n \in 0..Len(p), \A i \in 1..n : p[i] # Star
  PROVE  /\ n <= Len(s) /\ \A k \in 1..n : s[k] = p[k]
         /\ n = Len(p) => Len(s) = Len(p)
<1>1. PICK f : Ends(f, p, s, Len(p)) /\ Len(s) \in f[Len(p)]
  BY GlobIsEnds
<1>2. f[n] # {}
  BY <1>1, NoEndsStay
<1>3. n \in 0..n
  OBVIOUS
<1>4. f[n] = IF n <= Len(s) /\ \A k \in 1..n : s[k] = p[k] THEN {n} ELSE {}
  BY <1>1, <1>3, LiteralEnds
<1> QED  BY <1>1, <1>2, <1>4

\* A glob without a star matches itself.
LEMMA GlobOfItself ==
  ASSUME NEW p, Len(p) \in Nat, \A i \in 1..Len(p) : p[i] # Star
  PROVE  Glob(p, p)
<1>1. PICK f : Ends(f, p, p, Len(p)) /\ (Glob(p, p) <=> Len(p) \in f[Len(p)])
  BY GlobIsEnds
<1>2. Len(p) \in 0..Len(p)
  OBVIOUS
<1>3. f[Len(p)] = IF Len(p) <= Len(p) /\ \A k \in 1..Len(p) : p[k] = p[k]
                  THEN {Len(p)} ELSE {}
  BY <1>1, <1>2, LiteralEnds
<1> QED  BY <1>1, <1>3

\* subIsExact: it matches nothing else.
LEMMA ExactMatches ==
  ASSUME NEW p, NEW s, IsString(p), IsString(s), ~HasStar(p)
  PROVE  Glob(p, s) <=> s = p
<1>1. \A i \in 1..Len(p) : p[i] # Star
  BY DEF HasStar
<1>2. ASSUME Glob(p, s) PROVE s = p
  <2>1. Len(p) \in 0..Len(p) /\ Len(p) \in Nat /\ Len(s) \in Nat
    BY DEF IsString
  <2>2. Len(s) = Len(p) /\ \A k \in 1..Len(p) : s[k] = p[k]
    BY <1>1, <1>2, <2>1, GlobLiteral
  <2> QED  BY <2>2 DEF IsString
<1>3. Glob(p, p)
  BY <1>1, GlobOfItself DEF IsString
<1> QED  BY <1>2, <1>3

-----------------------------------------------------------------------------
\* The colons of p up to position i.
Colons(p, i) == {j \in 1..i : p[j] = Colon}

\* Every further colon counts.
LEMMA ColonsGrow ==
  ASSUME NEW p, NEW i \in Nat, NEW k \in Nat, i < k, p[k] = Colon
  PROVE  Cardinality(Colons(p, i)) # Cardinality(Colons(p, k))
<1>1. IsFiniteSet(1..k)
  BY FS_Interval
<1>2. IsFiniteSet(Colons(p, k))
  BY <1>1, FS_Subset DEF Colons
<1>3. Colons(p, i) \subseteq Colons(p, k) /\ k \in Colons(p, k) /\ k \notin Colons(p, i)
  BY DEF Colons
<1> QED  BY <1>2, <1>3, FS_Subset

\* The nth colon of p, where it has one.
IsCut(p, n, i) == i \in 1..Len(p) /\ p[i] = Colon /\ Cardinality(Colons(p, i)) = n

\* There is only one, and Cut finds it.
LEMMA CutIs ==
  ASSUME NEW p, NEW n \in Nat \ {0}, NEW i, Len(p) \in Nat, IsCut(p, n, i)
  PROVE  Cut(p, n) = i
<1>1. \A k : IsCut(p, n, k) => k = i
  BY ColonsGrow DEF IsCut
<1>2. Cut(p, n) = CHOOSE k \in 1..Len(p) :
                    p[k] = Colon /\ Cardinality(Colons(p, k)) = n
  BY DEF Cut, IsCut, Colons
<1>3. \E k \in 1..Len(p) : p[k] = Colon /\ Cardinality(Colons(p, k)) = n
  BY DEF IsCut
<1>4. IsCut(p, n, Cut(p, n))
  BY <1>2, <1>3 DEF IsCut
<1> QED  BY <1>1, <1>4

\* A cut is a colon, or past the end.
LEMMA CutCases ==
  ASSUME NEW p, NEW n \in Nat \ {0}, Len(p) \in Nat
  PROVE  IsCut(p, n, Cut(p, n)) \/ Cut(p, n) = Len(p) + 1
<1>1. CASE \E i : IsCut(p, n, i)
  BY <1>1, CutIs
<1>2. CASE ~\E i : IsCut(p, n, i)
  BY <1>2 DEF Cut, IsCut, Colons
<1> QED  BY <1>1, <1>2

\* Strings that begin alike are cut alike.
LEMMA CutSame ==
  ASSUME NEW p, NEW s, NEW n \in Nat \ {0}, Len(p) \in Nat, Len(s) \in Nat,
         IsCut(p, n, Cut(p, n)), Cut(p, n) <= Len(s),
         \A k \in 1..Cut(p, n) : s[k] = p[k]
  PROVE  Cut(s, n) = Cut(p, n)
<1> DEFINE c == Cut(p, n)
<1>1. c \in 1..Len(p) /\ c \in 1..Len(s)
  BY DEF IsCut
<1>2. Colons(s, c) = Colons(p, c)
  BY <1>1 DEF Colons
<1>3. IsCut(s, n, c)
  BY <1>1, <1>2 DEF IsCut
<1> QED  BY <1>3, CutIs

\* A glob that accountPinnedInARN accepts is literal up to and including the
\* account and what ends it.
LEMMA PinLiteral ==
  ASSUME NEW p, Len(p) \in Nat,
         ~HasStar(SubSeq(p, 1, Cut(p, AccountField - 1))), IsAccount(Field(p, AccountField))
  PROVE  /\ AccountField > 1 => IsCut(p, AccountField - 1, Cut(p, AccountField - 1))
         /\ Cut(p, AccountField - 1) \in 0..Len(p)
         /\ Cut(p, AccountField) \in 1..(Len(p) + 1)
         /\ Cut(p, AccountField - 1) < Cut(p, AccountField)
         /\ \A i \in 1..(Cut(p, AccountField) - 1) : p[i] # Star
<1> DEFINE a == Cut(p, AccountField - 1)
           b == Cut(p, AccountField)
<1>0. AccountField \in Nat \ {0} /\ AccountLen \in Nat \ {0} /\ Star \notin Digit
  BY SubPatternAssumption
<1>1. b \in 1..(Len(p) + 1)
  BY <1>0, CutCases DEF IsCut
<1>2. (a = 0 /\ AccountField = 1) \/ a \in 1..(Len(p) + 1)
  <2>1. CASE AccountField = 1
    BY <2>1 DEF Cut
  <2>2. CASE AccountField # 1
    BY <1>0, <2>2, CutCases DEF IsCut
  <2> QED  BY <2>1, <2>2
<1> HIDE DEF a, b
<1>3. /\ Len(SubSeq(p, a + 1, b - 1)) = AccountLen
      /\ \A i \in 1..AccountLen : SubSeq(p, a + 1, b - 1)[i] \in Digit
  BY DEF IsAccount, Field, a, b
<1>4. Len(SubSeq(p, a + 1, b - 1)) = IF a + 1 <= b - 1 THEN (b - 1) - (a + 1) + 1 ELSE 0
  BY <1>1, <1>2
<1>5. a + 1 <= b - 1 /\ AccountLen = b - 1 - a
  BY <1>0, <1>1, <1>2, <1>3, <1>4
<1>6. a \in 0..Len(p)
  BY <1>1, <1>2, <1>5
<1>7. \A i \in (a + 1)..(b - 1) : p[i] # Star
  <2> SUFFICES ASSUME NEW i \in (a + 1)..(b - 1) PROVE p[i] # Star
    OBVIOUS
  <2>1. i - a \in 1..AccountLen
    BY <1>1, <1>5, <1>6
  <2>2. SubSeq(p, a + 1, b - 1)[i - a] = p[i]
    BY <1>1, <1>5, <1>6, <2>1
  <2> QED  BY <1>0, <1>3, <2>1, <2>2
<1>8. \A i \in 1..a : p[i] # Star
  <2>1. ~HasStar(SubSeq(p, 1, a))
    BY DEF a
  <2>2. Len(SubSeq(p, 1, a)) = a /\ \A i \in 1..a : SubSeq(p, 1, a)[i] = p[i]
    BY <1>6
  <2> QED  BY <2>1, <2>2 DEF HasStar
<1>9. AccountField > 1 => IsCut(p, AccountField - 1, a)
  <2> SUFFICES ASSUME AccountField > 1 PROVE IsCut(p, AccountField - 1, a)
    OBVIOUS
  <2>1. AccountField - 1 \in Nat \ {0} /\ a # Len(p) + 1
    BY <1>0, <1>6
  <2> QED  BY <2>1, CutCases DEF a
<1>10. \A i \in 1..(b - 1) : p[i] # Star
  BY <1>1, <1>6, <1>7, <1>8
<1> QED  BY <1>1, <1>5, <1>6, <1>9, <1>10 DEF a, b

\* accountPinnedInARN: every subject such a glob matches has its account, in the
\* same field.
LEMMA PinnedMatches ==
  ASSUME NEW sub, NEW s, accountPinnedInARN(sub), IsString(sub.pat), IsString(s),
         Glob(sub.pat, s)
  PROVE  Field(s, AccountField) = Field(sub.pat, AccountField)
<1> DEFINE p == sub.pat
           a == Cut(p, AccountField - 1)
           b == Cut(p, AccountField)
<1>0. AccountField \in Nat \ {0} /\ Len(p) \in Nat /\ Len(s) \in Nat
  BY SubPatternAssumption DEF IsString
<1>1. /\ AccountField > 1 => IsCut(p, AccountField - 1, a)
      /\ a \in 0..Len(p) /\ b \in 1..(Len(p) + 1) /\ a < b
      /\ \A i \in 1..(b - 1) : p[i] # Star
  BY <1>0, PinLiteral DEF accountPinnedInARN
<1>2. CASE b = Len(p) + 1
  <2>1. ~HasStar(p)
    BY <1>0, <1>1, <1>2 DEF HasStar
  <2>2. s = p
    BY <2>1, ExactMatches
  <2> QED  BY <2>2
<1>3. CASE b # Len(p) + 1
  <2>1. IsCut(p, AccountField, b)
    BY <1>0, <1>3, CutCases
  <2>2. b \in 1..Len(p) /\ p[b] = Colon
    BY <2>1 DEF IsCut
  <2>3. Colon # Star
    BY SubPatternAssumption
  <2>4. \A i \in 1..b : p[i] # Star
    BY <1>1, <2>2, <2>3
  <2>5. b <= Len(s) /\ \A k \in 1..b : s[k] = p[k]
    <3>1. b \in 0..Len(p)
      BY <2>2
    <3> HIDE DEF b, p
    <3> QED  BY <1>0, <2>4, <3>1, GlobLiteral DEF p
  <2>6. Cut(s, AccountField) = b
    BY <1>0, <2>1, <2>5, CutSame
  <2>7. Cut(s, AccountField - 1) = a
    <3>1. CASE AccountField = 1
      BY <3>1 DEF Cut
    <3>2. CASE AccountField # 1
      <4>1. AccountField - 1 \in Nat \ {0} /\ AccountField > 1
        BY <1>0, <3>2
      <4>2. a <= Len(s) /\ \A k \in 1..a : s[k] = p[k]
        BY <1>0, <1>1, <2>2, <2>5
      <4> QED  BY <1>0, <1>1, <4>1, <4>2, CutSame
    <3> QED  BY <3>1, <3>2
  <2>8. SubSeq(s, a + 1, b - 1) = SubSeq(p, a + 1, b - 1)
    <3>1. \A q : SubSeq(q, a + 1, b - 1) = [i \in 1..(b - 1 - a) |-> q[i + a]]
      <4>1. a \in Int /\ b \in Int
        BY <1>0, <1>1, <2>2
      <4> HIDE DEF a, b
      <4> QED  BY <4>1
    <3>2. \A i \in 1..(b - 1 - a) : i + a \in 1..b
      BY <1>0, <1>1, <2>2
    <3>3. \A i \in 1..(b - 1 - a) : s[i + a] = p[i + a]
      BY <2>5, <3>2
    <3> QED  BY <3>1, <3>3
  <2> QED  BY <2>6, <2>7, <2>8 DEF Field
<1> QED  BY <1>2, <1>3
-----------------------------------------------------------------------------

\* The loop of Evaluate returns 0, or a rule that matches and that no earlier
\* rule's match precedes.
LEMMA FirstMatchIsFirst ==
  ASSUME NEW id, NEW c
  PROVE  \/ FirstMatch(id, c) = 0
         \/ /\ FirstMatch(id, c) \in DOMAIN rules
            /\ Matches(FirstMatch(id, c), id, c)
            /\ \A j \in 1..(FirstMatch(id, c) - 1) : ~Matches(j, id, c)
<1> DEFINE first == {k \in DOMAIN rules : /\ Matches(k, id, c)
                                          /\ \A j \in 1..(k - 1) : ~Matches(j, id, c)}
<1>1. CASE first = {}
  BY <1>1 DEF FirstMatch
<1>2. CASE first # {}
  <2>1. FirstMatch(id, c) = CHOOSE k \in first : TRUE
    BY <1>2 DEF FirstMatch
  <2>2. FirstMatch(id, c) \in first
    BY <1>2, <2>1
  <2> QED  BY <2>2
<1> QED  BY <1>1, <1>2

\* On a compiled rule, what the code tests is what the rule declares.
LEMMA MatchesAsDeclared ==
  ASSUME NEW k, NEW id, NEW c,
         k \in matcher <=> rules[k].match.sub # NoSub,
         k \in program <=> rules[k].match.expr # "none"
  PROVE  Matches(k, id, c) <=> Declared(k, id, c)
<1>1. rules[k].match.sub = NoSub => Spans(rules[k].match.sub, id.sub)
  BY DEF Spans, NoSub
<1> QED  BY <1>1 DEF Matches, Declared

\* A fresh policy satisfies the invariant: nothing is compiled or granted.
LEMMA InitInv == Init => IInv
<1> SUFFICES ASSUME Init PROVE IInv
  OBVIOUS
<1>1. TypeOK
  <2>1. rules \in Rules /\ Len(rules) \in Nat
    BY PolicyAssumption DEF Init
  <2>2. next \in 1..(Len(rules) + 1) /\ decision \in 0..Len(rules)
    BY <2>1 DEF Init
  <2>3. /\ validated \in BOOLEAN
        /\ asked = <<>> \/ \E id \in Identity : asked = <<id>>
        /\ status \in {"decoded", "validating", "failed", "ok"}
    BY DEF Init
  <2>4. matcher \subseteq DOMAIN rules /\ program \subseteq DOMAIN rules
    BY DEF Init
  <2> QED  BY <2>1, <2>2, <2>3, <2>4 DEF TypeOK
<1>2. OnlyDeclared /\ Compiled /\ Decided /\ GrantMatchesRule
  BY DEF Init, OnlyDeclared, Compiled, Decided, GrantMatchesRule
<1> QED  BY <1>1, <1>2 DEF IInv

\* Validate, its loop and Evaluate keep the invariant.
LEMMA StepInv == IInv /\ [Next]_vars => IInv'
<1> SUFFICES ASSUME IInv, [Next]_vars PROVE IInv'
  OBVIOUS
<1>0. TypeOK /\ OnlyDeclared /\ Compiled /\ Decided /\ GrantMatchesRule
  BY DEF IInv
<1>n. Len(rules) \in Nat /\ DOMAIN rules = 1..Len(rules)
  BY <1>0, PolicyAssumption DEF TypeOK
<1> DEFINE Asked == asked = <<>> \/ \E id \in Identity : asked = <<id>>
<1>t. /\ rules \in Rules /\ next \in 1..(Len(rules) + 1) /\ decision \in 0..Len(rules)
      /\ matcher \subseteq DOMAIN rules /\ program \subseteq DOMAIN rules
      /\ Asked
      /\ validated \in BOOLEAN
      /\ status \in {"decoded", "validating", "failed", "ok"}
  BY <1>0 DEF TypeOK
<1> HIDE DEF Asked
<1>1. CASE Validate
  <2>1. TypeOK'
    <3>1. UNCHANGED <<rules, validated, matcher, program, asked, decision>>
      BY <1>1 DEF Validate, askVars
    <3>2. next' \in 1..(Len(rules) + 1)
      BY <1>1, <1>n, <1>t DEF Validate
    <3>3. status' \in {"decoded", "validating", "failed", "ok"}
      BY <1>1 DEF Validate
    <3>4. Asked'
      BY <1>t, <3>1 DEF Asked
    <3> QED  BY <1>t, <3>1, <3>2, <3>3, <3>4 DEF TypeOK, Asked
  <2>2. OnlyDeclared'
    BY <1>0, <1>1 DEF OnlyDeclared, Validate
  <2>3. Compiled'
    <3>1. CASE Len(rules) = 0
      BY <1>n, <1>1, <3>1 DEF Compiled, Validate
    <3>2. CASE Len(rules) # 0
      BY <1>0, <1>n, <1>1, <3>2 DEF Compiled, Validate, Passed
    <3> QED  BY <3>1, <3>2
  <2>4. Decided' /\ GrantMatchesRule'
    BY <1>0, <1>1 DEF Decided, GrantMatchesRule, Declared, Validate, askVars
  <2> QED  BY <2>1, <2>2, <2>3, <2>4 DEF IInv
<1>2. CASE ValidateRule
  <2> DEFINE m == rules[next].match
             subOk == GrantValid(rules[next]) /\ Compiles(m.sub)
             exprOk == subOk /\ ExprValid(m)
             pinOk == exprOk /\ (hasStrongPin(m) \/ m.broad)
  <2>0. /\ status = "validating" /\ next \in DOMAIN rules
        /\ matcher' = IF subOk /\ m.sub # NoSub THEN matcher \cup {next} ELSE matcher
        /\ program' = IF exprOk /\ m.expr # "none" THEN program \cup {next} ELSE program
        /\ IF pinOk THEN next' = next + 1 /\ status' = status
                    ELSE status' = "failed" /\ next' = next
        /\ UNCHANGED <<rules, validated, asked, cel, decision>>
    BY <1>2 DEF ValidateRule, askVars
  <2> HIDE DEF subOk, exprOk, pinOk
  <2>1. TypeOK'
    <3>1. next' \in 1..(Len(rules) + 1)
      BY <1>n, <2>0
    <3>2. matcher' \subseteq DOMAIN rules /\ program' \subseteq DOMAIN rules
      BY <1>t, <2>0
    <3>3. status' \in {"decoded", "validating", "failed", "ok"}
      BY <2>0
    <3>4. Asked'
      BY <1>t, <2>0 DEF Asked
    <3> QED  BY <1>t, <2>0, <3>1, <3>2, <3>3, <3>4 DEF TypeOK, Asked
  <2>2. OnlyDeclared'
    BY <1>0, <2>0 DEF OnlyDeclared
  <2>3. ASSUME NEW k \in DOMAIN rules,
               validated \/ (status' = "validating" /\ k < next')
        PROVE  /\ rules[k].match.sub # NoSub => k \in matcher'
               /\ rules[k].match.expr # "none" => k \in program'
               /\ Passed(k)
    <3>1. CASE validated \/ k < next
      <4>1. /\ rules[k].match.sub # NoSub => k \in matcher
            /\ rules[k].match.expr # "none" => k \in program
            /\ Passed(k)
        BY <1>0, <2>0, <3>1 DEF Compiled
      <4> QED  BY <4>1, <2>0
    <3>2. CASE ~validated /\ ~(k < next)
      <4>1. pinOk /\ k = next
        BY <1>n, <1>t, <2>0, <2>3, <3>2
      <4>2. subOk /\ exprOk /\ Passed(k)
        BY <4>1 DEF pinOk, exprOk, subOk, Passed
      <4> QED  BY <4>1, <4>2, <2>0
    <3> QED  BY <3>1, <3>2
  <2>4. Compiled'
    BY <2>0, <2>3 DEF Compiled, Passed
  <2>5. Decided' /\ GrantMatchesRule'
    BY <1>0, <2>0 DEF Decided, GrantMatchesRule, Declared
  <2> QED  BY <2>1, <2>2, <2>4, <2>5 DEF IInv
<1>3. CASE ValidateDone
  <2>0. /\ status = "validating" /\ next = Len(rules) + 1
        /\ status' = "ok" /\ validated' = TRUE
        /\ UNCHANGED <<rules, next, matcher, program, asked, cel, decision>>
    BY <1>3 DEF ValidateDone, askVars
  <2>1. TypeOK'
    <3>1. Asked'
      BY <1>t, <2>0 DEF Asked
    <3> QED  BY <1>t, <2>0, <3>1 DEF TypeOK, Asked
  <2>2. OnlyDeclared' /\ Decided' /\ GrantMatchesRule'
    BY <1>0, <2>0 DEF OnlyDeclared, Decided, GrantMatchesRule, Declared
  <2>3. Compiled'
    <3>1. \A k \in DOMAIN rules : k < next
      BY <1>n, <2>0
    <3> QED  BY <1>0, <2>0, <3>1 DEF Compiled, Passed
  <2> QED  BY <2>1, <2>2, <2>3 DEF IInv
<1>4. ASSUME NEW id \in Identity, NEW c, Evaluate(id, c)
      PROVE  IInv'
  <2>0. /\ asked' = <<id>> /\ cel' = c
        /\ decision' = IF validated THEN FirstMatch(id, c) ELSE 0
        /\ UNCHANGED <<rules, status, next, validated, matcher, program>>
    BY <1>4 DEF Evaluate, policyVars
  <2>1. OnlyDeclared' /\ Compiled'
    BY <1>0, <2>0 DEF OnlyDeclared, Compiled, Passed
  <2>2. CASE decision' = 0
    <3>1. TypeOK'
      BY <1>n, <1>t, <2>0, <2>2 DEF TypeOK
    <3> QED  BY <2>1, <2>2, <3>1 DEF IInv, Decided, GrantMatchesRule
  <2>3. CASE decision' # 0
    <3>1. /\ validated /\ decision' = FirstMatch(id, c)
          /\ decision' \in DOMAIN rules
          /\ Matches(decision', id, c)
          /\ \A j \in 1..(decision' - 1) : ~Matches(j, id, c)
      BY <2>0, <2>3, FirstMatchIsFirst
    <3>2. \A k \in DOMAIN rules : Matches(k, id, c) <=> Declared(k, id, c)
      <4> SUFFICES ASSUME NEW k \in DOMAIN rules
                   PROVE  Matches(k, id, c) <=> Declared(k, id, c)
        OBVIOUS
      <4>1. /\ k \in matcher <=> rules[k].match.sub # NoSub
            /\ k \in program <=> rules[k].match.expr # "none"
        BY <1>0, <3>1 DEF OnlyDeclared, Compiled
      <4> QED  BY <4>1, MatchesAsDeclared
    <3>3. /\ Declared(decision', id, c)
          /\ \A j \in 1..(decision' - 1) : ~Declared(j, id, c)
      BY <1>n, <3>1, <3>2
    <3>4. asked'[1] = id
      BY <2>0
    <3>5. GrantMatchesRule'
      BY <2>0, <3>3, <3>4 DEF GrantMatchesRule, Declared
    <3>6. TypeOK'
      BY <1>n, <1>t, <2>0, <3>1 DEF TypeOK
    <3> QED  BY <2>0, <2>1, <3>1, <3>5, <3>6 DEF IInv, Decided
  <2> QED  BY <2>2, <2>3
<1>5. CASE UNCHANGED vars
  <2>0. UNCHANGED <<rules, status, next, validated, matcher, program, asked, cel, decision>>
    BY <1>5 DEF vars, policyVars, askVars
  <2>1. TypeOK'
    BY <1>0, <2>0 DEF TypeOK
  <2>2. OnlyDeclared' /\ Compiled' /\ Decided' /\ GrantMatchesRule'
    BY <1>0, <2>0 DEF OnlyDeclared, Compiled, Decided, GrantMatchesRule, Declared, Passed
  <2> QED  BY <2>1, <2>2 DEF IInv
<1> QED  BY <1>1, <1>2, <1>3, <1>4, <1>5 DEF Next

\* The invariant holds of every run of Validate and Evaluate.
THEOREM Invariance == Spec => []IInv
<1> QED  BY InitInv, StepInv, PTL DEF Spec

\* The variables of the policy keep their types, for any rules and identities.
THEOREM TypeCorrect == Spec => []TypeOK
<1>1. IInv => TypeOK
  BY DEF IInv
<1> QED  BY <1>1, Invariance, PTL

\* Evaluate grants by the first rule whose stated conditions all hold, in
\* whatever order Validate and Evaluate are called and wherever Validate stops.
THEOREM GrantsByFirstRule == Spec => []GrantMatchesRule
<1>1. IInv => GrantMatchesRule
  BY DEF IInv
<1> QED  BY <1>1, Invariance, PTL

\* What the NATS server allows a granted user is what the rule's author wrote,
\* for every set of subjects: Validate rejected the one form (a present, empty
\* permission) on which they would differ.
THEOREM PermissionsWritten == Spec => []PermissionsAsWritten
<1>1. IInv => PermissionsAsWritten
  <2> SUFFICES ASSUME IInv, decision # 0, NEW s \in Subject
               PROVE  LET g == rules[decision].grant
                      IN  /\ ServerAllows(jwtPermission(g.publish), s)
                                <=> Intended(g.publish, s)
                          /\ ServerAllows(jwtPermission(g.subscribe), s)
                                <=> Intended(g.subscribe, s)
    BY DEF PermissionsAsWritten, permissionLimits
  <2>1. Passed(decision)
    <3>1. validated /\ decision \in DOMAIN rules
      BY PolicyAssumption DEF IInv, TypeOK, Decided
    <3> QED  BY <3>1 DEF IInv, Compiled
  <2>2. ASSUME NEW perm, PermissionValid(perm)
        PROVE  ServerAllows(jwtPermission(perm), s) <=> Intended(perm, s)
    <3>1. CASE perm.given
      BY <2>2, <3>1 DEF ServerAllows, jwtPermission, Intended, PermissionValid
    <3>2. CASE ~perm.given
      BY <3>2 DEF ServerAllows, jwtPermission, Intended
    <3> QED  BY <3>1, <3>2
  <2> QED  BY <2>1, <2>2 DEF Passed, GrantValid
<1> QED  BY <1>1, Invariance, PTL

\* What a rule without allow_broad, of a validated policy, was accepted for.
LEMMA MatchedAlike ==
  ASSUME IInv, validated, NEW k \in DOMAIN rules, ~rules[k].match.broad,
         NEW a \in Identity, NEW b \in Identity, NEW c,
         Matches(k, a, c), Matches(k, b, c)
  PROVE  \/ a.sub = b.sub
         \/ Field(a.sub, AccountField) = Field(b.sub, AccountField)
              /\ IsAccount(Field(a.sub, AccountField))
         \/ \E key \in DOMAIN a.claims \cap DOMAIN b.claims :
              /\ key \in githubStrongPinKeys
                   \/ (key = AwsAccount /\ IsAccount(a.claims[key]))
              /\ a.claims[key] = b.claims[key]
<1> DEFINE m == rules[k].match
<1>1. hasStrongPin(m) /\ (m.sub # NoSub => k \in matcher)
  BY DEF IInv, Compiled, Passed
<1>2. ASSUME m.sub.kind = "glob"
      PROVE  /\ Glob(m.sub.pat, a.sub) /\ Glob(m.sub.pat, b.sub)
             /\ IsString(m.sub.pat) /\ IsString(a.sub) /\ IsString(b.sub)
  <2>1. k \in matcher
    BY <1>1, <1>2 DEF NoSub
  <2>2. Spans(m.sub, a.sub) /\ Spans(m.sub, b.sub)
    BY <2>1 DEF Matches
  <2>3. Glob(m.sub.pat, a.sub) /\ Glob(m.sub.pat, b.sub)
    BY <1>2, <2>2 DEF Spans
  <2>4. IsString(m.sub.pat) /\ IsString(a.sub) /\ IsString(b.sub)
    BY <1>2, PolicyAssumption DEF IInv, TypeOK
  <2> QED  BY <2>3, <2>4
<1>3. ASSUME NEW key \in DOMAIN m.claims
      PROVE  /\ key \in DOMAIN a.claims \cap DOMAIN b.claims
             /\ a.claims[key] = m.claims[key] /\ b.claims[key] = m.claims[key]
  BY <1>3 DEF Matches
<1>4. CASE subIsExact(m.sub)
  <2>1. m.sub.kind = "glob" /\ ~HasStar(m.sub.pat)
    BY <1>4 DEF subIsExact
  <2>2. a.sub = m.sub.pat /\ b.sub = m.sub.pat
    BY <1>2, <2>1, ExactMatches
  <2> QED  BY <2>2
<1>5. CASE accountPinnedInARN(m.sub)
  <2>1. m.sub.kind = "glob" /\ IsAccount(Field(m.sub.pat, AccountField))
    BY <1>5 DEF accountPinnedInARN
  <2>2. /\ Field(a.sub, AccountField) = Field(m.sub.pat, AccountField)
        /\ Field(b.sub, AccountField) = Field(m.sub.pat, AccountField)
    BY <1>2, <1>5, <2>1, PinnedMatches
  <2> QED  BY <2>1, <2>2
<1>6. CASE AwsAccount \in DOMAIN m.claims /\ IsAccount(m.claims[AwsAccount])
  BY <1>3, <1>6
<1>7. CASE DOMAIN m.claims \cap githubStrongPinKeys # {}
  BY <1>3, <1>7
<1> QED  BY <1>1, <1>4, <1>5, <1>6, <1>7 DEF hasStrongPin

\* The guardrail is sound for every policy and every identity, with subjects and
\* patterns of any length: what a rule without allow_broad admits has a subject,
\* an account or a repository in common.
THEOREM GuardrailSound == Spec => []NarrowUnlessBroad
<1>1. IInv => NarrowUnlessBroad
  BY MatchedAlike DEF NarrowUnlessBroad
<1> QED  BY <1>1, Invariance, PTL

-----------------------------------------------------------------------------
\* A pattern that grows a character at a time is a string over the alphabet.
LEMMA PatternTyped == PatternSpec => []PatternTypeOK
<1>1. PatternInit => PatternTypeOK
  BY DEF PatternInit, PatternTypeOK
<1>2. PatternTypeOK /\ [PatternNext]_pattern => PatternTypeOK'
  <2> SUFFICES ASSUME PatternTypeOK, [PatternNext]_pattern PROVE PatternTypeOK'
    OBVIOUS
  <2>1. ASSUME NEW c \in Alphabet, Extend(c) PROVE PatternTypeOK'
    BY <2>1 DEF Extend, PatternTypeOK
  <2>2. CASE UNCHANGED pattern
    BY <2>2 DEF PatternTypeOK
  <2> QED  BY <2>1, <2>2 DEF PatternNext
<1> QED  BY <1>1, <1>2, PTL DEF PatternSpec

\* Sequences of characters, and the subjects, are strings.
LEMMA SeqIsString ==
  ASSUME NEW C, NEW q \in Seq(C)
  PROVE  IsString(q)
BY DEF IsString

LEMMA SubjectIsString ==
  ASSUME NEW s \in Strings
  PROVE  IsString(s)
<1>1. PICK n \in 0..MaxSubject : s \in [1..n -> Alphabet]
  BY DEF Strings
<1>2. n \in Nat
  BY MCSubPatternAssumption
<1>3. s \in Seq(Alphabet)
  BY <1>1, <1>2
<1> QED  BY <1>3, SeqIsString

\* A glob with a pinned account pins it: no subject of any length that it matches
\* has another account in the account field.
THEOREM PinsAreSound == PatternSpec => []PinSound
<1>1. PatternTypeOK => PinSound
  <2> SUFFICES ASSUME PatternTypeOK, accountPinnedInARN(Sub), NEW s \in Strings,
                      Spans(Sub, s)
               PROVE  Field(s, AccountField) = Field(pattern, AccountField)
    BY DEF PinSound
  <2>1. Sub.pat = pattern /\ Sub.kind = "glob"
    BY DEF Sub
  <2>2. IsString(Sub.pat) /\ IsString(s)
    BY <2>1, SeqIsString, SubjectIsString DEF PatternTypeOK
  <2>3. Glob(Sub.pat, s)
    BY <2>1 DEF Spans
  <2>4. Field(s, AccountField) = Field(Sub.pat, AccountField)
    BY <2>2, <2>3, PinnedMatches
  <2> QED  BY <2>1, <2>4
<1> QED  BY <1>1, PatternTyped, PTL

\* A glob without a star matches itself and nothing else, whatever its length.
THEOREM ExactIsExact == PatternSpec => []ExactOnlyItself
<1>1. PatternTypeOK => ExactOnlyItself
  <2> SUFFICES ASSUME PatternTypeOK, subIsExact(Sub), NEW s \in Strings
               PROVE  Spans(Sub, s) <=> s = pattern
    BY DEF ExactOnlyItself
  <2>1. Sub.pat = pattern /\ Sub.kind = "glob"
    BY DEF Sub
  <2>2. IsString(pattern) /\ IsString(s) /\ ~HasStar(pattern)
    BY <2>1, SeqIsString, SubjectIsString DEF PatternTypeOK, subIsExact
  <2>3. Glob(pattern, s) <=> s = pattern
    BY <2>2, ExactMatches
  <2> QED  BY <2>1, <2>3 DEF Spans
<1> QED  BY <1>1, PatternTyped, PTL

-----------------------------------------------------------------------------
\* The subject that escapes a glob whose star at q precedes the account: colons
\* for that star, every other character for itself.
Escape(p, q) ==
  [i \in 1..(Len(p) + AccountField - 1) |->
     IF i < q THEN p[i]
     ELSE IF i < q + AccountField THEN Colon ELSE p[i - AccountField + 1]]

\* The glob matches it: a star matches the colons, and itself.
LEMMA EscapeMatches ==
  ASSUME NEW p, Len(p) \in Nat, NEW q \in 1..Len(p), p[q] = Star,
         Len(Escape(p, q)) = Len(p) + AccountField - 1
  PROVE  Glob(p, Escape(p, q))
<1> DEFINE s == Escape(p, q)
           At(i) == IF i < q THEN i ELSE i + AccountField - 1
<1>0. /\ AccountField \in Nat \ {0}
      /\ Colon # Newline /\ Star # Newline
  BY SubPatternAssumption
<1>1. PICK f : Ends(f, p, s, Len(p)) /\ (Glob(p, s) <=> Len(s) \in f[Len(p)])
  BY GlobIsEnds
<1>2. /\ \A i \in 1..(q - 1) : s[i] = p[i]
      /\ \A i \in q..(q + AccountField - 1) : s[i] = Colon
      /\ \A i \in (q + 1)..Len(p) : s[i + AccountField - 1] = p[i]
  BY <1>0 DEF Escape
<1> DEFINE n == Len(s)
<1>3. n = Len(p) + AccountField - 1 /\ Len(s) = n
  OBVIOUS
<1> HIDE DEF s, n
<1> DEFINE T == {i \in 0..Len(p) : At(i) \notin f[i]}
<1>4. T = {}
  <2>1. SUFFICES ASSUME T # {} PROVE FALSE
    OBVIOUS
  <2>2. PICK i \in T : \A k \in T : i <= k
    <3>1. T \in SUBSET Nat
      OBVIOUS
    <3> HIDE DEF T
    <3> QED  BY <2>1, <3>1, LeastNat
  <2>3. i # 0
    BY <1>1, <2>2 DEF Ends
  <2>4. i \in 1..Len(p) /\ i - 1 \in 0..Len(p)
    BY <2>2, <2>3
  <2>5. At(i - 1) \in f[i - 1]
    BY <2>2, <2>4
  <2>6. f[i] = Part(p, s, i, f[i - 1])
    BY <1>1, <2>4 DEF Ends
  <2>7. CASE i = q
    <3>1. At(i) \in 0..Len(s) /\ At(i - 1) = q - 1 /\ At(i) = q + AccountField - 1
      BY <1>0, <1>3, <2>4, <2>7
    <3>2. \A l \in (At(i - 1) + 1)..At(i) : s[l] # Newline
      BY <1>0, <1>2, <3>1
    <3>3. At(i - 1) <= At(i)
      BY <1>0, <2>4, <3>1
    <3> HIDE DEF At
    <3>4. At(i) \in Part(p, s, i, f[i - 1])
      BY <2>5, <2>7, <3>1, <3>2, <3>3 DEF Part
    <3> QED  BY <2>2, <2>6, <3>4
  <2>8. CASE i # q
    <3>1. At(i) \in 1..Len(s) /\ At(i - 1) = At(i) - 1 /\ s[At(i)] = p[i]
      <4>1. CASE i < q
        <5>1. i \in 1..(q - 1) /\ i \in 1..n /\ i - 1 < q
          BY <1>0, <1>3, <2>4, <4>1
        <5>2. At(i) = i /\ At(i - 1) = i - 1
          BY <4>1, <5>1
        <5> HIDE DEF At
        <5> QED  BY <1>2, <1>3, <5>1, <5>2
      <4>2. CASE i > q
        BY <1>0, <1>2, <1>3, <2>4, <4>2
      <4> QED  BY <2>4, <2>8, <4>1, <4>2
    <3> HIDE DEF At
    <3>2. CASE p[i] = Star
      <4>1. At(i) \in 0..Len(s) /\ At(i - 1) <= At(i)
        BY <1>3, <3>1
      <4>2. \A l \in (At(i - 1) + 1)..At(i) : l = At(i)
        BY <1>3, <3>1
      <4>3. \A l \in (At(i - 1) + 1)..At(i) : s[l] # Newline
        BY <1>0, <3>1, <3>2, <4>2
      <4>4. At(i) \in Part(p, s, i, f[i - 1])
        BY <2>5, <3>2, <4>1, <4>3 DEF Part
      <4> QED  BY <2>2, <2>6, <4>4
    <3>3. CASE p[i] # Star
      <4>1. At(i) \in Part(p, s, i, f[i - 1])
        BY <2>5, <3>1, <3>3 DEF Part
      <4> QED  BY <2>2, <2>6, <4>1
    <3> QED  BY <3>2, <3>3
  <2> QED  BY <2>7, <2>8
<1>5. At(Len(p)) \in f[Len(p)] /\ At(Len(p)) = Len(s)
  BY <1>3, <1>4
<1> QED  BY <1>1, <1>5 DEF s

\* A run of colons counts one by one.
LEMMA ColonRun ==
  ASSUME NEW s, NEW q \in Nat, NEW r \in Nat, \A i \in (q + 1)..(q + r) : s[i] = Colon
  PROVE  \A j \in 0..r : Cardinality(Colons(s, q + j)) = Cardinality(Colons(s, q)) + j
<1> DEFINE T == {j \in 0..r : Cardinality(Colons(s, q + j)) # Cardinality(Colons(s, q)) + j}
<1>0. \A i \in Nat : IsFiniteSet(Colons(s, i)) /\ Cardinality(Colons(s, i)) \in Nat
  <2> SUFFICES ASSUME NEW i \in Nat
               PROVE  IsFiniteSet(Colons(s, i)) /\ Cardinality(Colons(s, i)) \in Nat
    OBVIOUS
  <2>1. IsFiniteSet(1..i)
    BY FS_Interval
  <2>2. IsFiniteSet(Colons(s, i))
    BY <2>1, FS_Subset DEF Colons
  <2> QED  BY <2>2, FS_CardinalityType
<1>1. SUFFICES ASSUME T # {} PROVE FALSE
  OBVIOUS
<1>2. PICK j \in T : \A k \in T : j <= k
  <2>1. T \in SUBSET Nat
    OBVIOUS
  <2> HIDE DEF T
  <2> QED  BY <1>1, <2>1, LeastNat
<1>3. j # 0
  <2>1. q + 0 = q
    OBVIOUS
  <2>2. Cardinality(Colons(s, q)) + 0 = Cardinality(Colons(s, q))
    BY <1>0
  <2> QED  BY <1>2, <2>1, <2>2
<1>4. j \in 1..r /\ j - 1 \in 0..r /\ q + (j - 1) \in Nat
  BY <1>2, <1>3
<1>5. Cardinality(Colons(s, q + (j - 1))) = Cardinality(Colons(s, q)) + (j - 1)
  BY <1>2, <1>4
<1>6. /\ Colons(s, q + j) = Colons(s, q + (j - 1)) \cup {q + j}
      /\ q + j \notin Colons(s, q + (j - 1))
  BY <1>4 DEF Colons
<1>7. Cardinality(Colons(s, q + j)) = Cardinality(Colons(s, q + (j - 1))) + 1
  BY <1>0, <1>4, <1>6, FS_AddElement
<1> QED  BY <1>0, <1>2, <1>4, <1>5, <1>7

\* The field of the account in it is empty: it lies between two of the colons.
LEMMA EscapeEscapes ==
  ASSUME NEW p, Len(p) \in Nat, NEW q \in 1..Len(p), p[q] = Star,
         IsCut(p, AccountField - 1, Cut(p, AccountField - 1)),
         q <= Cut(p, AccountField - 1), AccountField > 1,
         Len(Escape(p, q)) = Len(p) + AccountField - 1
  PROVE  ~IsAccount(Field(Escape(p, q), AccountField))
<1> DEFINE s == Escape(p, q)
           a == Cut(p, AccountField - 1)
           c == Cardinality(Colons(s, q - 1))
<1>0. AccountField \in Nat \ {0} /\ AccountLen \in Nat \ {0} /\ Colon # Star
  BY SubPatternAssumption
<1>1. /\ \A i \in 1..(q - 1) : s[i] = p[i]
      /\ \A i \in q..(q + AccountField - 1) : s[i] = Colon
  BY <1>0 DEF Escape
<1>2. Len(s) = Len(p) + AccountField - 1
  OBVIOUS
<1> HIDE DEF s
<1>3. c \in Nat /\ c < AccountField - 1
  <2>1. a \in 1..Len(p) /\ p[a] = Colon /\ Cardinality(Colons(p, a)) = AccountField - 1
    BY DEF IsCut
  <2>2. Colons(s, q - 1) = Colons(p, q - 1)
    BY <1>1 DEF Colons
  <2>3. q < a
    BY <1>0, <2>1
  <2>4. /\ Colons(p, q - 1) \subseteq Colons(p, a)
        /\ a \in Colons(p, a) /\ a \notin Colons(p, q - 1)
    BY <2>1, <2>3 DEF Colons
  <2>5. IsFiniteSet(Colons(p, a))
    <3>1. IsFiniteSet(1..a)
      BY <2>1, FS_Interval
    <3> QED  BY <3>1, FS_Subset DEF Colons
  <2> HIDE DEF a
  <2>6. /\ IsFiniteSet(Colons(p, q - 1))
        /\ Cardinality(Colons(p, q - 1)) < Cardinality(Colons(p, a))
    <3>1. /\ IsFiniteSet(Colons(p, q - 1))
          /\ Cardinality(Colons(p, q - 1)) <= Cardinality(Colons(p, a))
      BY <2>4, <2>5, FS_Subset
    <3>2. Cardinality(Colons(p, q - 1)) # Cardinality(Colons(p, a))
      BY <2>4, <2>5, FS_Subset
    <3>3. Cardinality(Colons(p, q - 1)) \in Nat /\ Cardinality(Colons(p, a)) \in Nat
      BY <2>5, <3>1, FS_CardinalityType
    <3> QED  BY <3>1, <3>2, <3>3
  <2>7. Cardinality(Colons(p, q - 1)) \in Nat
    BY <2>6, FS_CardinalityType
  <2> QED  BY <2>1, <2>2, <2>6, <2>7
<1> HIDE DEF c
<1>4. \A j \in 0..AccountField : Cardinality(Colons(s, (q - 1) + j)) = c + j
  <2>1. q - 1 \in Nat
    OBVIOUS
  <2>2. \A i \in ((q - 1) + 1)..((q - 1) + AccountField) : s[i] = Colon
    BY <1>0, <1>1
  <2> QED  BY <1>0, <2>1, <2>2, ColonRun DEF c
<1> DEFINE x == (q - 1) + (AccountField - 1 - c)
<1>5. IsCut(s, AccountField - 1, x) /\ IsCut(s, AccountField, x + 1)
  <2>1. /\ AccountField - 1 - c \in 0..AccountField /\ AccountField - c \in 0..AccountField
        /\ x + 1 = (q - 1) + (AccountField - c)
        /\ c + (AccountField - 1 - c) = AccountField - 1
        /\ c + (AccountField - c) = AccountField
    BY <1>0, <1>3
  <2>2. /\ Cardinality(Colons(s, x)) = AccountField - 1
        /\ Cardinality(Colons(s, x + 1)) = AccountField
    BY <1>4, <2>1
  <2>3. /\ x \in q..(q + AccountField - 1) /\ x + 1 \in q..(q + AccountField - 1)
        /\ x \in 1..Len(s) /\ x + 1 \in 1..Len(s)
    BY <1>0, <1>2, <1>3
  <2> HIDE DEF x
  <2> QED  BY <1>1, <2>2, <2>3 DEF IsCut
<1>6. x \in Nat
  BY <1>0, <1>3
<1> HIDE DEF x
<1>7. Cut(s, AccountField - 1) = x /\ Cut(s, AccountField) = x + 1
  <2>1. AccountField - 1 \in Nat \ {0} /\ Len(s) \in Nat
    BY <1>0, <1>2
  <2> QED  BY <1>0, <1>5, <2>1, CutIs
<1>8. Field(s, AccountField) = SubSeq(s, x + 1, x)
  BY <1>6, <1>7 DEF Field
<1>9. Len(SubSeq(s, x + 1, x)) = 0
  BY <1>6
<1> QED  BY <1>0, <1>8, <1>9 DEF IsAccount, s

\* accountPinnedInARN refuses only globs that some subject escapes, provided the
\* subjects considered are long enough to hold the escape: AccountField colons
\* in the place of a star.
THEOREM PinsAreComplete ==
  ASSUME MaxPattern # 0, MaxSubject >= MaxPattern + AccountField - 1
  PROVE  PatternSpec => []PinComplete
<1> DEFINE Short == PatternTypeOK /\ Len(pattern) <= MaxPattern
<1>0. /\ AccountField \in Nat \ {0} /\ AccountLen \in Nat \ {0}
      /\ MaxPattern \in Nat \ {0} /\ MaxSubject \in Nat
  BY SubPatternAssumption, MCSubPatternAssumption
<1>1. PatternInit => Short
  BY <1>0 DEF PatternInit, PatternTypeOK
<1>2. Short /\ [PatternNext]_pattern => Short'
  <2> SUFFICES ASSUME Short, [PatternNext]_pattern PROVE Short'
    OBVIOUS
  <2>1. ASSUME NEW c \in Alphabet, Extend(c) PROVE Short'
    BY <1>0, <2>1 DEF Extend, PatternTypeOK
  <2>2. CASE UNCHANGED pattern
    BY <2>2 DEF PatternTypeOK
  <2> QED  BY <2>1, <2>2 DEF PatternNext
<1>3. Short => PinComplete
  <2> SUFFICES ASSUME Short, Fields(pattern) >= AccountField,
                      IsAccount(Field(pattern, AccountField)),
                      \A s \in Strings : Spans(Sub, s) =>
                         Field(s, AccountField) = Field(pattern, AccountField),
                      ~accountPinnedInARN(Sub)
               PROVE  FALSE
    BY DEF PinComplete
  <2> DEFINE a == Cut(pattern, AccountField - 1)
  <2>1. Sub.pat = pattern /\ Sub.kind = "glob" /\ Len(pattern) \in Nat
    BY DEF Sub, PatternTypeOK
  <2>2. HasStar(SubSeq(pattern, 1, a))
    BY <2>1 DEF accountPinnedInARN
  <2>3. AccountField > 1 /\ IsCut(pattern, AccountField - 1, a)
    <3>1. CASE AccountField = 1
      <4>1. a = 0
        BY <3>1 DEF Cut
      <4>2. Len(SubSeq(pattern, 1, 0)) = 0
        OBVIOUS
      <4> QED  BY <2>2, <4>1, <4>2 DEF HasStar
    <3>2. CASE AccountField # 1
      <4>1. AccountField - 1 \in Nat \ {0} /\ AccountField > 1
        BY <1>0, <3>2
      <4>2. a # Len(pattern) + 1
        <5>1. SUFFICES ASSUME a = Len(pattern) + 1 PROVE FALSE
          OBVIOUS
        <5> DEFINE b == Cut(pattern, AccountField)
        <5>2. b \in 1..(Len(pattern) + 1)
          BY <1>0, <2>1, CutCases DEF IsCut
        <5>3. Field(pattern, AccountField) = SubSeq(pattern, a + 1, b - 1)
          BY DEF Field
        <5> HIDE DEF a, b
        <5>4. Len(SubSeq(pattern, a + 1, b - 1)) = 0
          BY <2>1, <5>1, <5>2
        <5> QED  BY <1>0, <5>3, <5>4 DEF IsAccount
      <4> QED  BY <2>1, <4>1, <4>2, CutCases
    <3> QED  BY <3>1, <3>2
  <2>4. a \in 1..Len(pattern)
    BY <2>3 DEF IsCut
  <2> HIDE DEF a
  <2>5. PICK q \in 1..a : pattern[q] = Star
    <3>1. /\ Len(SubSeq(pattern, 1, a)) = a
          /\ \A i \in 1..a : SubSeq(pattern, 1, a)[i] = pattern[i]
      BY <2>1, <2>4
    <3> QED  BY <2>2, <3>1 DEF HasStar
  <2>6. q \in 1..Len(pattern) /\ q <= a
    BY <2>1, <2>4
  <2> DEFINE s == Escape(pattern, q)
             n == Len(pattern) + AccountField - 1
  <2>7. n \in 0..MaxSubject
    BY <1>0, <2>1
  <2>8. s \in [1..n -> Alphabet]
    <3>1. ASSUME NEW i \in 1..n
          PROVE  (IF i < q THEN pattern[i]
                  ELSE IF i < q + AccountField THEN Colon
                       ELSE pattern[i - AccountField + 1]) \in Alphabet
      <4>1. Colon \in Alphabet
        BY DEF Alphabet
      <4>2. \A j \in 1..Len(pattern) : pattern[j] \in Alphabet
        BY DEF PatternTypeOK
      <4>3. i < q => i \in 1..Len(pattern)
        BY <1>0, <2>1, <2>6
      <4>4. ~(i < q + AccountField) => i - AccountField + 1 \in 1..Len(pattern)
        BY <1>0, <2>1, <2>6
      <4> QED  BY <4>1, <4>2, <4>3, <4>4
    <3> QED  BY <3>1 DEF Escape
  <2> HIDE DEF s, n
  <2>9. s \in Strings /\ Len(s) = n
    BY <1>0, <2>7, <2>8 DEF Strings
  <2>10. Glob(pattern, s)
    BY <2>1, <2>5, <2>6, <2>9, EscapeMatches DEF s, n
  <2>11. ~IsAccount(Field(s, AccountField))
    BY <2>1, <2>3, <2>5, <2>6, <2>9, EscapeEscapes DEF s, n, a
  <2>12. Spans(Sub, s)
    BY <2>1, <2>10 DEF Spans
  <2> QED  BY <2>9, <2>11, <2>12
<1> QED  BY <1>1, <1>2, <1>3, PTL DEF PatternSpec
=============================================================================
