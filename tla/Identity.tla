------------------------------ MODULE Identity ------------------------------
(***************************************************************************)
(* Claim flattening, internal/identity/identity.go, and the issuer binding *)
(* of internal/verifier/verifier.go that reads its result.  Go iterates    *)
(* over a map in any order, so the recursion of flatten is a stack of the  *)
(* members each active call has yet to visit, and any of them is next.     *)
(*                                                                         *)
(* A name is the sequence of its dot-separated parts, so that joining a    *)
(* prefix and a name with a dot is concatenation, and a name that itself   *)
(* contains a dot is a longer sequence.  A payload maps the path of every  *)
(* member that is not an object, a sequence of names, to its value; the    *)
(* objects are the proper prefixes of these paths.  A value has a kind and *)
(* a text, which is what a number or a boolean is written as.              *)
(***************************************************************************)
EXTENDS Integers, Sequences

CONSTANTS
  Payloads,    \* payloads of verified tokens
  Requires,    \* require_claims of an issuer: functions from keys to texts
  Namespace,   \* the name of the AWS claim object
  reserved     \* the names of the registered claims

awsPrefix == <<"aws">>

\* A name has at least one part, and a member at least one name.
Name == Seq(STRING) \ {<<>>}
Path == Seq(Name) \ {<<>>}

\* Path p leads to q, or to an object q is in.
Begins(p, q) == Len(p) <= Len(q) /\ \A i \in 1..Len(p) : p[i] = q[i]

\* A member that is not an object contains no other member.  The registered
\* names contain no dot, and none is the prefix of the AWS claims.
ASSUME IdentityAssumption ==
  /\ \A pl \in Payloads :
       /\ DOMAIN pl \subseteq Path
       /\ \A p, q \in DOMAIN pl : Begins(p, q) => p = q
  /\ \A n \in reserved : Len(n) = 1
  /\ awsPrefix \in Name \ reserved /\ Namespace \in Name

Scalar == {"string", "number", "bool"}

VARIABLES
  payload,     \* the token's claims
  require,     \* entry.requireClaims
  stack,       \* per active call of flatten: members left, [at, prefix]
  claims,      \* id.claims
  verdict      \* of the binding: "open", "accepted" or "rejected"

vars == <<payload, require, stack, claims, verdict>>

\* The members of the object at path.
Members(path) ==
  {SubSeq(p, 1, Len(path) + 1) :
     p \in {q \in DOMAIN payload : Len(q) > Len(path) /\ SubSeq(q, 1, Len(path)) = path}}

IsObject(path) == path \notin DOMAIN payload

\* Mutant of TopLevel: registered claims are flattened as well.
TopLevelAll ==
  {[at |-> p, prefix |-> IF p[1] = Namespace THEN awsPrefix ELSE p[1]] : p \in Members(<<>>)}

\* Mutant of TopLevel: the AWS claims go under their bare names.
TopLevelBare ==
  UNION {IF p[1] = Namespace THEN {[at |-> q, prefix |-> q[2]] : q \in Members(p)}
                             ELSE {[at |-> p, prefix |-> p[1]]} :
           p \in {q \in Members(<<>>) : q[1] \notin reserved}}

\* The loop of Parse: what it hands to flatten.
TopLevel ==
  {[at |-> p, prefix |-> IF p[1] = Namespace THEN awsPrefix ELSE p[1]] :
     p \in {q \in Members(<<>>) : q[1] \notin reserved}}

\* The loop of flatten over an object.
Nested(m) == {[at |-> p, prefix |-> m.prefix \o p[Len(p)]] : p \in Members(m.at)}

Init ==
  /\ payload \in Payloads /\ require \in Requires
  /\ stack = <<TopLevel>>
  /\ claims = <<>>
  /\ verdict = "open"

-----------------------------------------------------------------------------
\* Mutant of Write: only strings are written.
WriteStrings(m) ==
  claims' = IF payload[m.at].kind = "string"
            THEN [k \in DOMAIN claims \cup {m.prefix} |->
                    IF k = m.prefix THEN payload[m.at].text ELSE claims[k]]
            ELSE claims

\* flatten on a value that is not an object: out[prefix] for a scalar, nothing
\* for an array or null.
Write(m) ==
  claims' = IF payload[m.at].kind \in Scalar
            THEN [k \in DOMAIN claims \cup {m.prefix} |->
                    IF k = m.prefix THEN payload[m.at].text ELSE claims[k]]
            ELSE claims

\* flatten visits a member: an object is a call of its own.
Visit(m) ==
  LET rest == [stack EXCEPT ![Len(stack)] = @ \ {m}]
  IN  /\ stack # <<>> /\ m \in stack[Len(stack)]
      /\ IF IsObject(m.at)
         THEN stack' = Append(rest, Nested(m)) /\ UNCHANGED claims
         ELSE stack' = rest /\ Write(m)
      /\ UNCHANGED <<payload, require, verdict>>

\* A call of flatten, or the loop of Parse, is done.
Leave ==
  /\ stack # <<>> /\ stack[Len(stack)] = {}
  /\ stack' = SubSeq(stack, 1, Len(stack) - 1)
  /\ UNCHANGED <<payload, require, claims, verdict>>

\* Mutant of Bound: a claim that is missing reads as the empty string.
BoundOrEmpty ==
  \A k \in DOMAIN require : (IF k \in DOMAIN claims THEN claims[k] ELSE "") = require[k]

\* The check of Verify: every required claim is there and has its value.
Bound == \A k \in DOMAIN require : k \in DOMAIN claims /\ claims[k] = require[k]

Bind ==
  /\ stack = <<>> /\ verdict = "open"
  /\ verdict' = IF Bound THEN "accepted" ELSE "rejected"
  /\ UNCHANGED <<payload, require, stack, claims>>

Flatten == stack # <<>> /\ \E m \in stack[Len(stack)] : Visit(m)

Next == Flatten \/ Leave \/ Bind

Spec == Init /\ [][Next]_vars

-----------------------------------------------------------------------------
\* The key a member is to be found under, straight from its path.
Part(path, i) == IF i = 1 /\ path[1] = Namespace THEN awsPrefix ELSE path[i]

Key(path) ==
  LET join[i \in 0..Len(path)] == IF i = 0 THEN <<>> ELSE join[i - 1] \o Part(path, i)
  IN  join[Len(path)]

Matchable == {p \in DOMAIN payload : payload[p].kind \in Scalar /\ p[1] \notin reserved}

\* Whatever order Go visits the members in, Parse leaves a key for exactly the
\* scalar members outside the registered claims, with the value of a member that
\* has this key.  Only members whose keys coincide can take each other's place.
FlattenedAsNamed ==
  stack = <<>> =>
    /\ DOMAIN claims = {Key(p) : p \in Matchable}
    /\ \A k \in DOMAIN claims :
         \E p \in Matchable : Key(p) = k /\ claims[k] = payload[p].text

\* "a policy can never match an unvalidated copy of, say, the subject": nothing
\* in the payload, at any depth, ends up under the key of a registered claim.
NoRegisteredCopy == DOMAIN claims \cap reserved = {}

\* "its keys cannot collide with a top-level claim of the same bare name": a
\* top-level claim without a dot in its name keeps its own value, whatever the
\* AWS object and other objects contain.  The name that stands for the AWS
\* object itself is the exception.
BareNamesKept ==
  stack = <<>> =>
    \A p \in Matchable :
      Len(p) = 1 /\ Len(p[1]) = 1 /\ p[1] \notin {awsPrefix, Namespace} =>
        claims[p[1]] = payload[p].text

\* The issuer binding rests on claims of the token itself: an accepted token has
\* a scalar member for every required key, with the required value, and a token
\* is refused only if some required value is missing or hidden by another member
\* of the same key.
BoundByToken ==
  LET holders(k) == {p \in Matchable : Key(p) = k}
  IN  /\ verdict = "accepted" =>
           \A k \in DOMAIN require :
             \E p \in holders(k) : payload[p].text = require[k]
      /\ verdict = "rejected" =>
           \E k \in DOMAIN require :
             holders(k) = {} \/ \E p \in holders(k) : payload[p].text # require[k]

-----------------------------------------------------------------------------
\* What the proofs add to make the four properties above inductive.

\* Every call of flatten has the key of its member as prefix.
Called ==
  \A j \in DOMAIN stack : \A m \in stack[j] :
    m.at \in Path /\ m.at[1] \notin reserved /\ m.prefix = Key(m.at)

\* A claim has the value of a member with its key.
Sourced ==
  \A k \in DOMAIN claims : \E p \in Matchable : Key(p) = k /\ claims[k] = payload[p].text

\* What is not written yet lies in a member some call has yet to visit.
Covered ==
  \A p \in Matchable :
    \/ Key(p) \in DOMAIN claims
    \/ \E j \in DOMAIN stack : \E m \in stack[j] : Begins(m.at, p)

Judged ==
  verdict # "open" =>
    stack = <<>> /\ verdict \in {"accepted", "rejected"} /\ (verdict = "accepted" <=> Bound)

IInv ==
  /\ payload \in Payloads
  /\ stack \in Seq(SUBSET [at : Path, prefix : Name])
  /\ Called /\ Sourced /\ Covered /\ Judged
=============================================================================
