--------------------------- MODULE IdentityProofs ---------------------------
(***************************************************************************)
(* Claim flattening for every payload: whatever order the members are      *)
(* visited in and however deep they lie, the claims a policy or an issuer  *)
(* binding reads are those of the token, and never a registered one.       *)
(*                                                                         *)
(* A key is the concatenation of the names on a path.  What this recursive *)
(* function computes is shown by a least counterexample.                   *)
(***************************************************************************)
EXTENDS Identity, SequenceTheorems, WellFoundedInduction, TLAPS

\* Every non-empty set of naturals has a least element.
LEMMA LeastNat ==
  ASSUME NEW T \in SUBSET Nat, T # {}
  PROVE  \E n \in T : \A k \in T : n <= k
<1> DEFINE R == {ss \in Nat \X Nat : ss[1] < ss[2]}
<1>1. IsWellFoundedOn(R, Nat)
  BY NatLessThanWellFounded DEF OpToRel
<1> HIDE DEF R
<1>2. PICK n \in T : \A k \in T : ~(<<k, n>> \in R)
  BY <1>1, WFMin
<1>3. \A k \in T : ~(k < n)
  BY <1>2 DEF R
<1> QED
  BY <1>3

\* The names of the first n steps of a path, joined.
Joins(f, path, n) ==
  f[0] = <<>> /\ \A i \in 1..n : f[i] = f[i - 1] \o Part(path, i)

\* The parts of a key are names.
LEMMA PartIsName ==
  ASSUME NEW path \in Path, NEW i \in 1..Len(path)
  PROVE  Part(path, i) \in Name
BY IdentityAssumption DEF Part, Path

\* There is such a function for every path.
LEMMA JoinExists ==
  ASSUME NEW path \in Path, NEW N \in 0..Len(path)
  PROVE  \E f \in [0..N -> Seq(STRING)] : Joins(f, path, N)
<1> DEFINE Has(n) == \E f \in [0..n -> Seq(STRING)] : Joins(f, path, n)
           T == {n \in 0..Len(path) : ~Has(n)}
<1>1. SUFFICES T = {}
  OBVIOUS
<1>2. SUFFICES ASSUME T # {} PROVE FALSE
  OBVIOUS
<1>3. Len(path) \in Nat
  BY DEF Path
<1>4. PICK n \in T : \A k \in T : n <= k
  <2>1. T \in SUBSET Nat
    BY <1>3
  <2> HIDE DEF T
  <2> QED
    BY <1>2, <2>1, LeastNat
<1>5. CASE n = 0
  <2> DEFINE f == [i \in 0..0 |-> <<>>]
  <2>1. f \in [0..0 -> Seq(STRING)] /\ Joins(f, path, 0)
    BY DEF Joins
  <2> QED
    BY <1>4, <1>5, <2>1
<1>6. CASE n # 0
  <2>1. n - 1 \in 0..Len(path) /\ n \in 1..Len(path) /\ n - 1 \notin T
    <3> HIDE DEF Has
    <3> QED
      BY <1>3, <1>4, <1>6
  <2>2. PICK f \in [0..(n - 1) -> Seq(STRING)] : Joins(f, path, n - 1)
    BY <2>1
  <2>3. Part(path, n) \in Seq(STRING)
    BY <2>1, PartIsName DEF Name
  <2>4. f[n - 1] \o Part(path, n) \in Seq(STRING)
    BY <2>1, <2>3
  <2> DEFINE s == f[n - 1] \o Part(path, n)
             h == [i \in 0..n |-> IF i = n THEN s ELSE f[i]]
  <2>5. n \in Nat /\ n - 1 \in 0..(n - 1) /\ n - 1 # n /\ n \in 0..n
    BY <1>3, <2>1
  <2>6. s \in Seq(STRING)
    BY <2>4
  <2>7. f[n - 1] \o Part(path, n) = s
    OBVIOUS
  <2> HIDE DEF s
  <2>8. h \in [0..n -> Seq(STRING)]
    BY <2>5, <2>6
  <2>9. h[n] = s /\ \A i \in 0..(n - 1) : h[i] = f[i]
    BY <2>5
  <2> HIDE DEF h
  <2>10. ASSUME NEW i \in 1..n
         PROVE  h[i] = h[i - 1] \o Part(path, i)
    <3>1. i - 1 \in 0..(n - 1) /\ h[i - 1] = f[i - 1]
      BY <2>5, <2>9
    <3>2. CASE i = n
      BY <2>7, <2>9, <3>1, <3>2
    <3>3. CASE i # n
      <4>1. i \in 1..(n - 1) /\ i \in 0..(n - 1)
        BY <2>5, <3>3
      <4>2. f[i] = f[i - 1] \o Part(path, i)
        BY <2>2, <4>1 DEF Joins
      <4> QED
        BY <2>9, <3>1, <4>1, <4>2
    <3> QED
      BY <3>2, <3>3
  <2>11. h[0] = <<>>
    BY <2>2, <2>5, <2>9 DEF Joins
  <2>12. Joins(h, path, n)
    BY <2>10, <2>11 DEF Joins
  <2> QED
    BY <1>4, <2>8, <2>12
<1> QED
  BY <1>5, <1>6

\* Two paths go by the same parts for n steps.
Alike(a, b, n) == \A i \in 1..n : Part(a, i) = Part(b, i)

\* Paths that begin alike have keys that begin alike.
LEMMA JoinsAgree ==
  ASSUME NEW N \in Nat, NEW a, NEW b, NEW f, NEW g,
         Alike(a, b, N), Joins(f, a, N), Joins(g, b, N)
  PROVE  \A i \in 0..N : f[i] = g[i]
<1> DEFINE T == {i \in 0..N : f[i] # g[i]}
<1>1. SUFFICES ASSUME T # {} PROVE FALSE
  OBVIOUS
<1>2. PICK i \in T : \A k \in T : i <= k
  <2>1. T \in SUBSET Nat
    OBVIOUS
  <2> HIDE DEF T
  <2> QED
    BY <1>1, <2>1, LeastNat
<1>3. i # 0
  BY <1>2 DEF Joins
<1>4. i \in 1..N /\ i - 1 \in 0..N /\ f[i - 1] = g[i - 1]
  BY <1>2, <1>3
<1>5. f[i] = f[i - 1] \o Part(a, i) /\ g[i] = g[i - 1] \o Part(b, i) /\ Part(a, i) = Part(b, i)
  BY <1>4 DEF Joins, Alike
<1>6. f[i] = g[i]
  BY <1>4, <1>5
<1> QED
  BY <1>2, <1>6

\* The key of a path, as the last value of any such function.
LEMMA KeyIsJoin ==
  ASSUME NEW path \in Path
  PROVE  \E f \in [0..Len(path) -> Seq(STRING)] :
           Joins(f, path, Len(path)) /\ Key(path) = f[Len(path)]
<1> DEFINE D == 0..Len(path)
           Eq(h) == h = [i \in D |-> IF i = 0 THEN <<>> ELSE h[i - 1] \o Part(path, i)]
           c == CHOOSE h : Eq(h)
<1>1. Len(path) \in Nat
  BY DEF Path
<1>2. PICK f \in [D -> Seq(STRING)] : Joins(f, path, Len(path))
  BY <1>1, JoinExists
<1>3. Eq(f)
  BY <1>2 DEF Joins
<1>4. Eq(c)
  BY <1>3
<1> HIDE DEF c
<1>5. Joins(c, path, Len(path))
  <2>1. c[0] = <<>>
    BY <1>1, <1>4
  <2>2. ASSUME NEW i \in 1..Len(path) PROVE c[i] = c[i - 1] \o Part(path, i)
    <3>1. i \in D /\ i # 0
      BY <1>1
    <3> QED
      BY <1>4, <3>1
  <2> QED
    BY <2>1, <2>2 DEF Joins
<1>6. c[Len(path)] = f[Len(path)]
  BY <1>1, <1>2, <1>5, JoinsAgree DEF Alike
<1>7. Key(path) = c[Len(path)]
  BY DEF Key, c
<1> QED
  BY <1>2, <1>6, <1>7

\* A member at the top goes by its own name, or by the AWS prefix.
LEMMA KeyTop ==
  ASSUME NEW path \in Path, Len(path) = 1
  PROVE  Key(path) = IF path[1] = Namespace THEN awsPrefix ELSE path[1]
<1>1. PICK f \in [0..1 -> Seq(STRING)] : Joins(f, path, 1) /\ Key(path) = f[1]
  BY KeyIsJoin
<1>2. f[1] = <<>> \o Part(path, 1)
  <2>1. f[0] = <<>> /\ f[1] = f[1 - 1] \o Part(path, 1)
    BY <1>1 DEF Joins
  <2>2. 1 - 1 = 0
    OBVIOUS
  <2> QED
    BY <2>1, <2>2, Zenon
<1>3. Part(path, 1) \in Seq(STRING)
  BY PartIsName DEF Name
<1>4. <<>> \o Part(path, 1) = Part(path, 1)
  BY <1>3
<1> QED
  BY <1>1, <1>2, <1>4 DEF Part

\* A member of an object goes by the object's key, a dot and its own name.
LEMMA KeyBelow ==
  ASSUME NEW path \in Path, NEW q \in Path, Len(q) = Len(path) + 1, Begins(path, q)
  PROVE  Key(q) = Key(path) \o q[Len(q)]
<1>1. PICK n \in Nat \ {0} : n = Len(path)
  BY DEF Path
<1>2. PICK f : Joins(f, path, n) /\ Key(path) = f[n]
  BY <1>1, KeyIsJoin
<1>3. PICK g : Joins(g, q, Len(q)) /\ Key(q) = g[Len(q)]
  BY KeyIsJoin
<1>4. Joins(g, q, n)
  BY <1>1, <1>3 DEF Joins
<1>5. Alike(path, q, n)
  BY <1>1 DEF Alike, Part, Begins
<1>6. Len(q) = n + 1 /\ n + 1 \in 1..Len(q) /\ n \in 0..n /\ (n + 1) - 1 = n
  BY <1>1
<1>7. f[n] = g[n]
  <2>1. n \in Nat /\ Joins(f, path, n) /\ Joins(g, q, n)
    BY <1>1, <1>2, <1>4
  <2>2. \A i \in 0..n : f[i] = g[i]
    BY <1>5, <2>1, JoinsAgree
  <2> QED
    BY <1>6, <2>2
<1>8. g[n + 1] = g[(n + 1) - 1] \o Part(q, n + 1)
  BY <1>3, <1>6 DEF Joins
<1>9. Part(q, n + 1) = q[n + 1]
  BY <1>1 DEF Part
<1> QED
  BY <1>2, <1>3, <1>6, <1>7, <1>8, <1>9

\* A path cut short.
LEMMA CutPath ==
  ASSUME NEW q \in Path, NEW n \in 1..Len(q)
  PROVE  /\ SubSeq(q, 1, n) \in Path /\ Len(SubSeq(q, 1, n)) = n
         /\ Begins(SubSeq(q, 1, n), q)
         /\ \A i \in 1..n : SubSeq(q, 1, n)[i] = q[i]
<1>1. q \in Seq(Name) /\ Len(q) \in Nat
  BY DEF Path
<1>2. /\ SubSeq(q, 1, n) \in Seq(Name) /\ Len(SubSeq(q, 1, n)) = n
      /\ \A i \in 1..n : SubSeq(q, 1, n)[i] = q[i]
  BY <1>1
<1>3. SubSeq(q, 1, n) # <<>>
  BY <1>1, <1>2
<1> QED
  BY <1>1, <1>2, <1>3 DEF Path, Begins

\* The object a member below the top lies in.
LEMMA Parent ==
  ASSUME NEW q \in Path, Len(q) # 1
  PROVE  \E p \in Path : Len(q) = Len(p) + 1 /\ Begins(p, q)
<1>1. Len(q) \in Nat /\ Len(q) # 0
  BY DEF Path
<1>2. PICK n \in 1..Len(q) : Len(q) = n + 1
  <2>1. Len(q) - 1 \in 1..Len(q) /\ Len(q) = (Len(q) - 1) + 1
    BY <1>1
  <2> QED
    BY <2>1, Zenon
<1>3. /\ SubSeq(q, 1, n) \in Path /\ Len(SubSeq(q, 1, n)) = n
      /\ Begins(SubSeq(q, 1, n), q)
  BY CutPath
<1> QED
  BY <1>2, <1>3

\* Keys are names.
LEMMA KeyNotEmpty == ASSUME NEW p \in Path PROVE Key(p) \in Name
<1>1. \A o \in Path : Key(o) \in Seq(STRING)
  <2> SUFFICES ASSUME NEW o \in Path PROVE Key(o) \in Seq(STRING)
    OBVIOUS
  <2>1. Len(o) \in 0..Len(o)
    BY DEF Path
  <2> QED
    BY <2>1, KeyIsJoin
<1>2. CASE Len(p) = 1
  BY <1>2, KeyTop, IdentityAssumption DEF Path
<1>3. CASE Len(p) # 1
  <2>1. PICK o \in Path : Len(p) = Len(o) + 1 /\ Begins(o, p)
    BY <1>3, Parent
  <2>2. Key(o) \in Seq(STRING) /\ Key(p) = Key(o) \o p[Len(p)]
    BY <1>1, <2>1, KeyBelow
  <2>3. p[Len(p)] \in Seq(STRING) /\ p[Len(p)] # <<>>
    BY DEF Path, Name
  <2> QED
    BY <1>1, <2>2, <2>3 DEF Name
<1> QED
  BY <1>2, <1>3

\* A nested member has a dot in its key.
LEMMA KeyDotted == ASSUME NEW p \in Path, Len(p) # 1 PROVE Len(Key(p)) > 1
<1>1. PICK o \in Path : Len(p) = Len(o) + 1 /\ Begins(o, p)
  BY Parent
<1>2. Key(o) \in Seq(STRING) /\ Key(o) # <<>> /\ Key(p) = Key(o) \o p[Len(p)]
  BY <1>1, KeyBelow, KeyNotEmpty DEF Name
<1>3. p[Len(p)] \in Seq(STRING) /\ p[Len(p)] # <<>>
  BY DEF Path, Name
<1> QED
  BY <1>2, <1>3

\* The members of an object lie one name below it.
LEMMA MemberBelow ==
  ASSUME payload \in Payloads, NEW path \in Path \cup {<<>>}, NEW p \in Members(path)
  PROVE  p \in Path /\ Len(p) = Len(path) + 1 /\ Begins(path, p)
<1>1. PICK q \in DOMAIN payload : /\ Len(q) > Len(path) /\ SubSeq(q, 1, Len(path)) = path
                                 /\ p = SubSeq(q, 1, Len(path) + 1)
  BY DEF Members
<1>2. q \in Path /\ Len(q) \in Nat /\ Len(path) \in Nat /\ q \in Seq(Name)
  BY <1>1, IdentityAssumption DEF Path
<1>3. Len(path) + 1 \in 1..Len(q)
  BY <1>1, <1>2
<1>4. p \in Path /\ Len(p) = Len(path) + 1 /\ \A i \in 1..(Len(path) + 1) : p[i] = q[i]
  BY <1>1, <1>2, <1>3, CutPath
<1>5. \A i \in 1..Len(path) : path[i] = q[i]
  <2>1. \A i \in 1..Len(path) : SubSeq(q, 1, Len(path))[i] = q[i]
    BY <1>1, <1>2
  <2> QED
    BY <1>1, <2>1
<1> QED
  BY <1>2, <1>4, <1>5 DEF Begins

\* What lies in an object lies in one of its members.
LEMMA MembersCover ==
  ASSUME payload \in Payloads, NEW path \in Path \cup {<<>>}, NEW q \in DOMAIN payload,
         Begins(path, q), q # path
  PROVE  \E p \in Members(path) : Begins(p, q) /\ p[1] = q[1]
<1>1. /\ q \in Path /\ q \in Seq(Name) /\ Len(q) \in Nat \ {0}
      /\ path \in Seq(Name) /\ Len(path) \in Nat
  <2>1. q \in Path
    BY IdentityAssumption
  <2>2. q \in Seq(Name) /\ Len(q) \in Nat \ {0}
    BY <2>1 DEF Path
  <2>3. path \in Seq(Name)
    <3>1. <<>> \in Seq(Name)
      BY EmptySeq
    <3> QED
      BY <3>1, Zenon DEF Path
  <2>4. Len(path) \in Nat
    BY <2>3
  <2> QED
    BY <2>1, <2>2, <2>3, <2>4
<1>2. SubSeq(q, 1, Len(path)) = path
  <2>1. /\ SubSeq(q, 1, Len(path)) \in Seq(Name) /\ Len(SubSeq(q, 1, Len(path))) = Len(path)
        /\ \A i \in 1..Len(path) : SubSeq(q, 1, Len(path))[i] = path[i]
    BY <1>1 DEF Begins
  <2> QED
    BY <1>1, <2>1, SeqEqual
<1>3. Len(path) < Len(q)
  <2>1. SUFFICES ASSUME Len(q) = Len(path) PROVE FALSE
    BY <1>1 DEF Begins
  <2>2. \A i \in 1..Len(q) : q[i] = path[i]
    BY <1>1, <2>1 DEF Begins
  <2> QED
    BY <1>1, <2>1, <2>2, SeqEqual
<1> DEFINE p == SubSeq(q, 1, Len(path) + 1)
<1>4. Len(path) + 1 \in 1..Len(q) /\ 1 \in 1..(Len(path) + 1)
  BY <1>1, <1>3
<1>5. Begins(p, q) /\ p[1] = q[1]
  BY <1>1, <1>4, CutPath
<1>6. p \in Members(path)
  BY <1>2, <1>3 DEF Members
<1> QED
  BY <1>5, <1>6

-----------------------------------------------------------------------------
\* The loop of Parse hands every matchable member to flatten, under its key.
LEMMA InitInvariant == Init => IInv
<1> SUFFICES ASSUME Init PROVE IInv
  OBVIOUS
<1>1. payload \in Payloads /\ stack = <<TopLevel>> /\ DOMAIN claims = {} /\ verdict = "open"
  BY DEF Init
<1>2. ASSUME NEW m \in TopLevel
      PROVE  /\ m \in [at : Path, prefix : Name]
             /\ m.at[1] \notin reserved /\ m.prefix = Key(m.at)
  <2>1. PICK p \in Members(<<>>) : p[1] \notin reserved /\
          m = [at |-> p, prefix |-> IF p[1] = Namespace THEN awsPrefix ELSE p[1]]
    BY DEF TopLevel
  <2>2. p \in Path /\ Len(p) = 1
    <3>1. <<>> \in Path \cup {<<>>} /\ Len(<<>>) + 1 = 1
      OBVIOUS
    <3>2. p \in Path /\ Len(p) = Len(<<>>) + 1
      BY <1>1, <3>1, MemberBelow, Zenon
    <3> QED
      BY <3>1, <3>2
  <2>3. m.at = p /\ m.prefix = Key(p)
    BY <2>1, <2>2, KeyTop
  <2>4. Key(p) \in Name
    BY <2>2, KeyNotEmpty
  <2> QED
    BY <2>1, <2>2, <2>3, <2>4
<1>3. stack \in Seq(SUBSET [at : Path, prefix : Name])
  BY <1>1, <1>2
<1>4. Called
  BY <1>1, <1>2 DEF Called
<1>5. ASSUME NEW p \in Matchable
      PROVE  \E m \in TopLevel : Begins(m.at, p)
  <2>1. p \in DOMAIN payload /\ p[1] \notin reserved
    BY DEF Matchable
  <2>2. Begins(<<>>, p) /\ p # <<>>
    BY <1>1, <2>1, IdentityAssumption DEF Begins, Path
  <2>3. PICK o \in Members(<<>>) : Begins(o, p) /\ o[1] = p[1]
    BY <1>1, <2>1, <2>2, MembersCover
  <2>4. [at |-> o, prefix |-> IF o[1] = Namespace THEN awsPrefix ELSE o[1]] \in TopLevel
    BY <2>1, <2>3 DEF TopLevel
  <2> QED
    BY <2>3, <2>4
<1>6. Covered
  BY <1>1, <1>5 DEF Covered
<1>7. Sourced /\ Judged
  BY <1>1 DEF Sourced, Judged
<1> QED
  BY <1>1, <1>3, <1>4, <1>6, <1>7 DEF IInv

\* The top call of flatten is done with a member.
LEMMA TakeOff ==
  ASSUME stack \in Seq(SUBSET [at : Path, prefix : Name]), stack # <<>>, NEW m
  PROVE  LET rest == [stack EXCEPT ![Len(stack)] = @ \ {m}]
         IN  /\ rest \in Seq(SUBSET [at : Path, prefix : Name]) /\ Len(rest) = Len(stack)
             /\ \A j \in DOMAIN stack :
                  rest[j] \subseteq stack[j] /\ \A n \in stack[j] : n = m \/ n \in rest[j]
<1>1. Len(stack) \in 1..Len(stack) /\ DOMAIN stack = 1..Len(stack)
  OBVIOUS
<1> QED
  BY <1>1

\* flatten visits an object: its members are visited under the longer prefix.
LEMMA VisitObject ==
  ASSUME IInv, NEW m, Visit(m), IsObject(m.at)
  PROVE  IInv'
<1> DEFINE F == [at : Path, prefix : Name]
           rest == [stack EXCEPT ![Len(stack)] = @ \ {m}]
<1>1. /\ payload \in Payloads /\ stack \in Seq(SUBSET F) /\ stack # <<>>
      /\ m \in stack[Len(stack)] /\ Len(stack) \in DOMAIN stack
  BY DEF IInv, Visit
<1>2. /\ stack' = Append(rest, Nested(m)) /\ UNCHANGED <<claims, payload, require, verdict>>
  BY DEF Visit
<1>3. m.at \in Path /\ m.at[1] \notin reserved /\ m.prefix = Key(m.at)
  BY <1>1 DEF IInv, Called
<1>4. /\ rest \in Seq(SUBSET F) /\ Len(rest) = Len(stack)
      /\ \A j \in DOMAIN stack :
           rest[j] \subseteq stack[j] /\ \A n \in stack[j] : n = m \/ n \in rest[j]
  BY <1>1, TakeOff
<1>5. ASSUME NEW n \in Nested(m)
      PROVE  n \in F /\ n.at[1] \notin reserved /\ n.prefix = Key(n.at)
  <2>1. PICK p \in Members(m.at) : n = [at |-> p, prefix |-> m.prefix \o p[Len(p)]]
    BY DEF Nested
  <2>2. p \in Path /\ Len(p) = Len(m.at) + 1 /\ Begins(m.at, p)
    BY <1>1, <1>3, MemberBelow
  <2>3. Key(p) = m.prefix \o p[Len(p)] /\ Key(p) \in Name
    BY <1>3, <2>2, KeyBelow, KeyNotEmpty
  <2>4. p[1] = m.at[1]
    BY <1>3, <2>2 DEF Begins, Path
  <2> QED
    BY <1>3, <2>1, <2>2, <2>3, <2>4
<1> HIDE DEF rest
<1>6. /\ stack' \in Seq(SUBSET F) /\ Len(stack') = Len(stack) + 1
      /\ DOMAIN stack' = 1..(Len(stack) + 1) /\ DOMAIN stack = 1..Len(stack)
      /\ stack'[Len(stack) + 1] = Nested(m)
      /\ \A j \in DOMAIN stack : j \in DOMAIN stack' /\ stack'[j] = rest[j]
  <2>1. Nested(m) \in SUBSET F
    BY <1>5
  <2> HIDE DEF F
  <2> QED
    BY <1>1, <1>2, <1>4, <2>1
<1>7. Called'
  <2> SUFFICES ASSUME NEW j \in DOMAIN stack', NEW n \in stack'[j]
               PROVE  n.at \in Path /\ n.at[1] \notin reserved /\ n.prefix = Key(n.at)
    BY DEF Called
  <2>1. CASE j = Len(stack) + 1
    BY <1>5, <1>6, <2>1
  <2>2. CASE j # Len(stack) + 1
    <3>1. j \in DOMAIN stack /\ n \in stack[j]
      BY <1>1, <1>4, <1>6, <2>2
    <3> QED
      BY <3>1 DEF IInv, Called
  <2> QED
    BY <2>1, <2>2
<1>8. Covered'
  <2>1. Matchable' = Matchable
    BY <1>2 DEF Matchable
  <2> SUFFICES ASSUME NEW p \in Matchable, Key(p) \notin DOMAIN claims
               PROVE  \E j \in DOMAIN stack' : \E n \in stack'[j] : Begins(n.at, p)
    BY <1>2, <2>1 DEF Covered
  <2>2. PICK j \in DOMAIN stack : \E n \in stack[j] : Begins(n.at, p)
    BY DEF IInv, Covered
  <2>3. PICK n \in stack[j] : Begins(n.at, p)
    BY <2>2
  <2>4. CASE n # m
    BY <1>4, <1>6, <2>3, <2>4
  <2>5. CASE n = m
    <3>1. p \in DOMAIN payload /\ p # m.at
      BY DEF Matchable, IsObject
    <3>2. PICK o \in Members(m.at) : Begins(o, p)
      BY <1>1, <1>3, <2>3, <2>5, <3>1, MembersCover
    <3>3. [at |-> o, prefix |-> m.prefix \o o[Len(o)]] \in Nested(m)
      BY DEF Nested
    <3>4. Len(stack) + 1 \in DOMAIN stack'
      BY <1>1, <1>6
    <3> QED
      BY <1>6, <3>2, <3>3, <3>4
  <2> QED
    BY <2>4, <2>5
<1>9. Sourced'
  BY <1>2 DEF IInv, Sourced, Matchable
<1>10. Judged'
  BY <1>1, <1>2 DEF IInv, Judged
<1> QED
  BY <1>1, <1>2, <1>6, <1>7, <1>8, <1>9, <1>10 DEF IInv

\* flatten reaches a value that is not an object: a scalar is written under the
\* key of its member, and this settles no other member.
LEMMA VisitLeaf ==
  ASSUME IInv, NEW m, Visit(m), ~IsObject(m.at)
  PROVE  IInv'
<1> DEFINE F == [at : Path, prefix : Name]
           rest == [stack EXCEPT ![Len(stack)] = @ \ {m}]
<1>1. /\ payload \in Payloads /\ stack \in Seq(SUBSET F) /\ stack # <<>>
      /\ m \in stack[Len(stack)] /\ Len(stack) \in DOMAIN stack
      /\ m.at \in DOMAIN payload
  BY DEF IInv, Visit, IsObject
<1>2. /\ stack' = rest /\ Write(m) /\ UNCHANGED <<payload, require, verdict>>
  BY DEF Visit
<1>3. m.at \in Path /\ m.at[1] \notin reserved /\ m.prefix = Key(m.at)
  BY <1>1 DEF IInv, Called
<1>4. /\ rest \in Seq(SUBSET F) /\ Len(rest) = Len(stack)
      /\ \A j \in DOMAIN stack :
           rest[j] \subseteq stack[j] /\ \A n \in stack[j] : n = m \/ n \in rest[j]
  BY <1>1, TakeOff
<1> HIDE DEF rest
<1>5. stack' \in Seq(SUBSET F) /\ DOMAIN stack' = DOMAIN stack
  BY <1>1, <1>2, <1>4
<1>6. Called'
  BY <1>2, <1>4, <1>5 DEF IInv, Called
<1>7. CASE payload[m.at].kind \in Scalar
  <2>1. m.at \in Matchable
    BY <1>1, <1>3, <1>7 DEF Matchable
  <2>2. claims' = [k \in DOMAIN claims \cup {m.prefix} |->
                     IF k = m.prefix THEN payload[m.at].text ELSE claims[k]]
    BY <1>2, <1>7 DEF Write
  <2>3. Sourced'
    <3> SUFFICES ASSUME NEW k \in DOMAIN claims'
                 PROVE  \E p \in Matchable : Key(p) = k /\ claims'[k] = payload[p].text
      BY <1>2 DEF Sourced, Matchable
    <3>1. CASE k = m.prefix
      BY <1>3, <2>1, <2>2, <3>1
    <3>2. CASE k # m.prefix
      BY <2>2, <3>2 DEF IInv, Sourced
    <3> QED
      BY <3>1, <3>2
  <2>4. Covered'
    <3>1. Matchable' = Matchable
      BY <1>2 DEF Matchable
    <3> SUFFICES ASSUME NEW p \in Matchable, Key(p) \notin DOMAIN claims'
                 PROVE  \E j \in DOMAIN stack' : \E n \in stack'[j] : Begins(n.at, p)
      BY <3>1 DEF Covered
    <3>2. PICK j \in DOMAIN stack : \E n \in stack[j] : Begins(n.at, p)
      BY <2>2 DEF IInv, Covered
    <3>3. PICK n \in stack[j] : Begins(n.at, p)
      BY <3>2
    <3>4. n # m
      <4>1. SUFFICES ASSUME n = m PROVE FALSE
        OBVIOUS
      <4>2. m.at = p
        BY <1>1, <3>3, <4>1, IdentityAssumption DEF Matchable
      <4> QED
        BY <1>3, <2>2, <4>2
    <3> QED
      BY <1>2, <1>4, <1>5, <3>3, <3>4
  <2>5. Judged'
    BY <1>1, <1>2 DEF IInv, Judged
  <2> QED
    BY <1>1, <1>2, <1>5, <1>6, <2>3, <2>4, <2>5 DEF IInv
<1>8. CASE payload[m.at].kind \notin Scalar
  <2>1. claims' = claims
    BY <1>2, <1>8 DEF Write
  <2>2. Sourced'
    BY <1>2, <2>1 DEF IInv, Sourced, Matchable
  <2>3. Covered'
    <3>1. Matchable' = Matchable
      BY <1>2 DEF Matchable
    <3> SUFFICES ASSUME NEW p \in Matchable, Key(p) \notin DOMAIN claims
                 PROVE  \E j \in DOMAIN stack' : \E n \in stack'[j] : Begins(n.at, p)
      BY <2>1, <3>1 DEF Covered
    <3>2. PICK j \in DOMAIN stack : \E n \in stack[j] : Begins(n.at, p)
      BY DEF IInv, Covered
    <3>3. PICK n \in stack[j] : Begins(n.at, p)
      BY <3>2
    <3>4. n # m
      <4>1. SUFFICES ASSUME n = m PROVE FALSE
        OBVIOUS
      <4>2. m.at = p
        BY <1>1, <3>3, <4>1, IdentityAssumption DEF Matchable
      <4> QED
        BY <1>8, <4>2 DEF Matchable
    <3> QED
      BY <1>2, <1>4, <1>5, <3>3, <3>4
  <2>4. Judged'
    BY <1>1, <1>2 DEF IInv, Judged
  <2> QED
    BY <1>1, <1>2, <1>5, <1>6, <2>2, <2>3, <2>4 DEF IInv
<1> QED
  BY <1>7, <1>8

\* A call returns with nothing left to visit.
LEMMA LeaveStep == ASSUME IInv, Leave PROVE IInv'
<1> DEFINE F == [at : Path, prefix : Name]
           n == Len(stack)
<1>1. /\ stack \in Seq(SUBSET F) /\ n \in Nat \ {0} /\ stack[n] = {}
      /\ stack' = SubSeq(stack, 1, n - 1) /\ UNCHANGED <<payload, require, claims, verdict>>
  BY DEF IInv, Leave
<1> HIDE DEF F
<1>2. /\ stack' \in Seq(SUBSET F) /\ DOMAIN stack' = 1..(n - 1) /\ DOMAIN stack = 1..n
      /\ \A j \in 1..(n - 1) : stack'[j] = stack[j]
  BY <1>1
<1> HIDE DEF n
<1>3. \A j \in DOMAIN stack : j = n \/ (j \in DOMAIN stack' /\ stack'[j] = stack[j])
  BY <1>1, <1>2
<1>4. Called'
  BY <1>1, <1>2 DEF IInv, Called
<1>5. Covered'
  <2>1. Matchable' = Matchable
    BY <1>1 DEF Matchable
  <2> SUFFICES ASSUME NEW p \in Matchable, Key(p) \notin DOMAIN claims
               PROVE  \E j \in DOMAIN stack' : \E m \in stack'[j] : Begins(m.at, p)
    BY <1>1, <2>1 DEF Covered
  <2>2. PICK j \in DOMAIN stack : \E m \in stack[j] : Begins(m.at, p)
    BY DEF IInv, Covered
  <2> QED
    BY <1>1, <1>3, <2>2
<1>6. Sourced'
  BY <1>1 DEF IInv, Sourced, Matchable
<1>7. Judged'
  BY <1>1 DEF IInv, Judged, Leave
<1> QED
  BY <1>1, <1>2, <1>4, <1>5, <1>6, <1>7 DEF IInv, F

\* The binding is checked once, on the finished claims.
LEMMA BindStep == ASSUME IInv, Bind PROVE IInv'
<1>1. UNCHANGED <<payload, require, stack, claims>>
  BY DEF Bind
<1>2. Called' /\ Sourced' /\ Covered'
  BY <1>1 DEF IInv, Called, Sourced, Covered, Matchable
<1>3. Judged'
  BY <1>1 DEF Bind, Judged, Bound
<1> QED
  BY <1>1, <1>2, <1>3 DEF IInv

\* The inductive invariant holds in every reachable state.
THEOREM Invariance == Spec => []IInv
<1>1. IInv /\ UNCHANGED vars => IInv'
  BY DEF IInv, vars, Called, Sourced, Covered, Judged, Matchable, Bound
<1>2. IInv /\ [Next]_vars => IInv'
  BY <1>1, VisitObject, VisitLeaf, LeaveStep, BindStep DEF Next, Flatten
<1> QED
  BY InitInvariant, <1>2, PTL DEF Spec

-----------------------------------------------------------------------------
\* Every claim is a scalar member outside the registered claims, under its key,
\* and every such member has left a claim, whatever order flatten took.
LEMMA Finished ==
  ASSUME IInv, stack = <<>>
  PROVE  DOMAIN claims = {Key(p) : p \in Matchable}
<1>1. \A p \in Matchable : Key(p) \in DOMAIN claims
  BY DEF IInv, Covered
<1>2. \A k \in DOMAIN claims : \E p \in Matchable : Key(p) = k
  BY DEF IInv, Sourced
<1> QED
  BY <1>1, <1>2

\* For every payload and every order of the visits, Parse leaves exactly the
\* claims the member names call for.
THEOREM ClaimsAsNamed == Spec => []FlattenedAsNamed
<1>1. IInv => FlattenedAsNamed
  BY Finished DEF FlattenedAsNamed, IInv, Sourced
<1> QED
  BY <1>1, Invariance, PTL

\* A member whose key has no dot is at the top and goes by its own name there,
\* unless it is named by the AWS prefix.
LEMMA BareKey ==
  ASSUME IInv, NEW p \in Matchable, Len(Key(p)) = 1
  PROVE  Len(p) = 1 /\ Key(p) \in {p[1], awsPrefix} /\ p[1] \notin reserved /\ p \in Path
<1>1. p \in Path /\ p[1] \notin reserved
  BY IdentityAssumption DEF IInv, Matchable
<1>2. Len(p) = 1
  <2>1. ~(1 > 1)
    OBVIOUS
  <2> QED
    BY <1>1, <2>1, KeyDotted, Zenon
<1> QED
  BY <1>1, <1>2, KeyTop

\* Nothing in a payload, at any depth and under any name, is flattened to the
\* name of a registered claim (Parse skips these at the top; flatten's prefixes
\* keep the others apart).
THEOREM RegisteredNeverCopied == Spec => []NoRegisteredCopy
<1>1. IInv => NoRegisteredCopy
  <2> SUFFICES ASSUME IInv, NEW k \in DOMAIN claims, k \in reserved PROVE FALSE
    BY DEF NoRegisteredCopy
  <2>1. PICK p \in Matchable : Key(p) = k
    BY DEF IInv, Sourced
  <2>2. Len(k) = 1 /\ awsPrefix \notin reserved
    BY IdentityAssumption
  <2> QED
    BY <2>1, <2>2, BareKey
<1> QED
  BY <1>1, Invariance, PTL

\* A top-level claim without a dot in its name keeps its value, whatever the AWS
\* object and the others contain.
THEOREM BareNamesSafe == Spec => []BareNamesKept
<1>1. IInv => BareNamesKept
  <2> SUFFICES ASSUME IInv, stack = <<>>, NEW p \in Matchable, Len(p) = 1, Len(p[1]) = 1,
                      p[1] \notin {awsPrefix, Namespace}
               PROVE  claims[p[1]] = payload[p].text
    BY DEF BareNamesKept
  <2>1. p \in Path
    BY IdentityAssumption DEF IInv, Matchable
  <2>2. Key(p) = p[1]
    BY <2>1, KeyTop
  <2>3. PICK q \in Matchable : Key(q) = Key(p) /\ claims[Key(p)] = payload[q].text
    BY Finished DEF IInv, Sourced
  <2>4. q \in Path /\ Len(q) = 1 /\ q[1] = p[1]
    BY <2>2, <2>3, BareKey
  <2>5. q = p
    BY <2>1, <2>4, SeqEqual DEF Path
  <2> QED
    BY <2>2, <2>3, <2>5
<1> QED
  BY <1>1, Invariance, PTL

\* The issuer binding of Verify accepts only what the token itself says, and
\* refuses only what it does not say, or says twice.
THEOREM BindingByToken == Spec => []BoundByToken
<1>1. IInv => BoundByToken
  <2> SUFFICES ASSUME IInv PROVE BoundByToken
    OBVIOUS
  <2> DEFINE holders(k) == {p \in Matchable : Key(p) = k}
  <2>1. ASSUME verdict = "accepted", NEW k \in DOMAIN require
        PROVE  \E p \in holders(k) : payload[p].text = require[k]
    <3>1. k \in DOMAIN claims /\ claims[k] = require[k]
      BY <2>1 DEF IInv, Judged, Bound
    <3> QED
      BY <3>1 DEF IInv, Sourced
  <2>2. ASSUME verdict = "rejected"
        PROVE  \E k \in DOMAIN require :
                 holders(k) = {} \/ \E p \in holders(k) : payload[p].text # require[k]
    <3>1. stack = <<>> /\ ~Bound
      BY <2>2 DEF IInv, Judged
    <3>2. PICK k \in DOMAIN require : k \notin DOMAIN claims \/ claims[k] # require[k]
      BY <3>1 DEF Bound
    <3>3. CASE k \notin DOMAIN claims
      BY <3>1, <3>3, Finished
    <3>4. CASE k \in DOMAIN claims /\ claims[k] # require[k]
      BY <3>4 DEF IInv, Sourced
    <3> QED
      BY <3>2, <3>3, <3>4
  <2> QED
    BY <2>1, <2>2 DEF BoundByToken
<1> QED
  BY <1>1, Invariance, PTL
=============================================================================
