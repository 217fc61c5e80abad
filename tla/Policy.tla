------------------------------- MODULE Policy -------------------------------
(***************************************************************************)
(* The authorization policy of internal/authz: Validate compiles the rules *)
(* one after the other and enforces the broad-rule guardrail, stopping at  *)
(* the first error; Evaluate grants by the first rule that matches.  A     *)
(* rule's matchers are nil until Validate reaches it, and a nil matcher    *)
(* matches anything.                                                       *)
(*                                                                         *)
(* A CEL expression is opaque: it is of a kind that compiles to a bool, to *)
(* something else, or not at all, and each evaluation (it may look at the  *)
(* time) yields true, false or an error.                                   *)
(***************************************************************************)
EXTENDS SubPattern

CONSTANTS
  Rules,         \* lists of rules a policy file can hold; a rule is
                 \*   [match: [issuer, sub, claims, expr, broad],
                 \*    grant: [account, publish, subscribe]]
  Identity,      \* [issuer, sub, claims]: a verified identity, claims flattened
  Subject,       \* NATS subjects; ">" is the whole set
  NoIssuer,      \* Match.Issuer left empty
  NoAccount      \* Grant.Account left empty

ASSUME PolicyAssumption ==
  /\ \A p \in Rules :
       /\ Len(p) \in Nat /\ DOMAIN p = 1..Len(p)
       /\ \A k \in DOMAIN p :
            p[k].match.sub.kind = "glob" => IsString(p[k].match.sub.pat)
  /\ \A id \in Identity : IsString(id.sub)

\* The flattened claims the guardrail looks at.
AwsAccount == "aws.aws_account"
githubStrongPinKeys == {"repository", "repository_id", "job_workflow_ref"}

\* A direction of a grant is [given, allow, deny]; this one is omitted (nil).
Omitted == [given |-> FALSE, allow |-> {}, deny |-> {}]

VARIABLES
  rules,       \* p.Rules
  status,      \* control of Validate: "decoded", "validating", "failed", "ok"
  next,        \* the rule Validate looks at next
  validated,   \* p.validated
  matcher,     \* rules whose r.matcher is set by compileSub
  program,     \* rules whose r.celProgram is set
  asked, cel,  \* history: the identity last evaluated and what each CEL
               \* expression yielded
  decision     \* the outcome: a rule's index, or 0 for denied

policyVars == <<rules, status, next, validated, matcher, program>>
askVars == <<asked, cel, decision>>
vars == <<policyVars, askVars>>

Outcome == {"true", "false", "error"}

-----------------------------------------------------------------------------
\* Permission.validate: a present permission lists something.
PermissionValid(perm) ==
  perm.given => perm.allow # {} \/ perm.deny # {}

\* Mutant of hasStrongPin: any value of the account claim pins.
PinnedByClaim(m) ==
  \/ subIsExact(m.sub)
  \/ accountPinnedInARN(m.sub)
  \/ DOMAIN m.claims \cap ({AwsAccount} \cup githubStrongPinKeys) # {}

\* hasStrongPin
hasStrongPin(m) ==
  \/ subIsExact(m.sub)
  \/ accountPinnedInARN(m.sub)
  \/ AwsAccount \in DOMAIN m.claims /\ IsAccount(m.claims[AwsAccount])
  \/ DOMAIN m.claims \cap githubStrongPinKeys # {}

\* What Validate demands of a rule before it compiles the sub, and of the
\* expression after it.
GrantValid(r) ==
  /\ r.grant.account # NoAccount
  /\ PermissionValid(r.grant.publish) /\ PermissionValid(r.grant.subscribe)

ExprValid(m) == m.expr = "none" \/ (m.broad /\ m.expr = "bool")

-----------------------------------------------------------------------------
\* Rule.matches on rule k as it is now: nil matchers match anything, an
\* expression that errs matches nothing.
Matches(k, id, c) ==
  LET m == rules[k].match
  IN  /\ m.issuer \in {NoIssuer, id.issuer}
      /\ k \in matcher => Spans(m.sub, id.sub)
      /\ \A key \in DOMAIN m.claims :
           key \in DOMAIN id.claims /\ id.claims[key] = m.claims[key]
      /\ k \in program => c[k] = "true"

\* The loop of Evaluate: the first rule that matches, 0 if none does.
FirstMatch(id, c) ==
  LET first == {k \in DOMAIN rules : /\ Matches(k, id, c)
                                     /\ \A j \in 1..(k - 1) : ~Matches(j, id, c)}
  IN  IF first = {} THEN 0 ELSE CHOOSE k \in first : TRUE

\* Mutant of jwtPermission: an omitted direction reaches the JWT empty.
JwtPermissionEmpty(perm) ==
  [allow |-> perm.allow, deny |-> perm.deny]

\* jwtPermission: an omitted direction denies ">".
jwtPermission(perm) ==
  IF perm.given THEN [allow |-> perm.allow, deny |-> perm.deny]
                ELSE [allow |-> {}, deny |-> Subject]

\* permissionLimits, the part of it that every grant has.
permissionLimits(g) ==
  [pub |-> jwtPermission(g.publish), sub |-> jwtPermission(g.subscribe)]

\* How the NATS server reads a permission: an empty allow list allows all.
ServerAllows(perm, s) ==
  (perm.allow = {} \/ s \in perm.allow) /\ s \notin perm.deny

-----------------------------------------------------------------------------
\* A freshly decoded policy.
Init ==
  /\ rules \in Rules
  /\ status = "decoded" /\ next = 1
  /\ validated = FALSE
  /\ matcher = {} /\ program = {}
  /\ asked = <<>> /\ cel = <<>> /\ decision = 0

\* Validate is called: by LoadPolicy for a policy file, then by Config.Validate
\* (again, for the policy LoadPolicy returned).
Validate ==
  /\ status \in {"decoded", "ok"} /\ asked = <<>>
  /\ IF Len(rules) = 0
     THEN status' = "failed" /\ UNCHANGED next
     ELSE status' = "validating" /\ next' = 1
  /\ UNCHANGED <<rules, validated, matcher, program, askVars>>

\* One iteration of the loop of Validate.  A rule that fails after its sub or
\* its expression compiled keeps what was compiled.
ValidateRule ==
  LET m == rules[next].match
      grantOk == GrantValid(rules[next])
      subOk == grantOk /\ Compiles(m.sub)
      exprOk == subOk /\ ExprValid(m)
      pinOk == exprOk /\ (hasStrongPin(m) \/ m.broad)
  IN
  /\ status = "validating" /\ next \in DOMAIN rules
  /\ matcher' = IF subOk /\ m.sub # NoSub THEN matcher \cup {next} ELSE matcher
  /\ program' = IF exprOk /\ m.expr # "none" THEN program \cup {next} ELSE program
  /\ IF pinOk THEN next' = next + 1 /\ UNCHANGED status
              ELSE status' = "failed" /\ UNCHANGED next
  /\ UNCHANGED <<rules, validated, askVars>>

ValidateDone ==
  /\ status = "validating" /\ next = Len(rules) + 1
  /\ status' = "ok" /\ validated' = TRUE
  /\ UNCHANGED <<rules, next, matcher, program, askVars>>

\* Mutant of Evaluate: no check that the policy was validated.
EvaluateUnchecked(id, c) ==
  /\ status # "validating" /\ asked = <<>>
  /\ asked' = <<id>> /\ cel' = c
  /\ decision' = FirstMatch(id, c)
  /\ UNCHANGED policyVars

\* Evaluate, at any time Validate is not running: before it too, and after it
\* failed.  It changes nothing in the policy, so one evaluation is enough.
Evaluate(id, c) ==
  /\ status # "validating" /\ asked = <<>>
  /\ asked' = <<id>> /\ cel' = c
  /\ decision' = IF validated THEN FirstMatch(id, c) ELSE 0
  /\ UNCHANGED policyVars

Next ==
  \/ Validate \/ ValidateRule \/ ValidateDone
  \/ \E id \in Identity, c \in [DOMAIN rules -> Outcome] : Evaluate(id, c)

Spec == Init /\ [][Next]_vars

-----------------------------------------------------------------------------
TypeOK ==
  /\ rules \in Rules
  /\ status \in {"decoded", "validating", "failed", "ok"}
  /\ next \in 1..(Len(rules) + 1)
  /\ validated \in BOOLEAN
  /\ matcher \subseteq DOMAIN rules /\ program \subseteq DOMAIN rules
  /\ asked = <<>> \/ \E id \in Identity : asked = <<id>>
  /\ decision \in 0..Len(rules)

\* The conditions rule k states, as its author reads them.
Declared(k, id, c) ==
  LET m == rules[k].match
  IN  /\ m.issuer = NoIssuer \/ m.issuer = id.issuer
      /\ Spans(m.sub, id.sub)
      /\ \A key \in DOMAIN m.claims :
           key \in DOMAIN id.claims /\ id.claims[key] = m.claims[key]
      /\ m.expr # "none" => c[k] = "true"

\* A grant comes from the first rule all of whose stated conditions hold, its
\* subject pattern and its expression included: no half-compiled rule, of a
\* policy that was not or not successfully validated, ever grants.
GrantMatchesRule ==
  decision # 0 =>
    /\ Declared(decision, asked[1], cel)
    /\ \A j \in 1..(decision - 1) : ~Declared(j, asked[1], cel)

\* The guardrail does what it is for: two identities a rule of a validated
\* policy matches without allow_broad have the subject, the account of the
\* subject's ARN, the account claim or a strong GitHub claim in common.
NarrowUnlessBroad ==
  validated =>
    \A k \in DOMAIN rules : ~rules[k].match.broad =>
      LET c == [j \in DOMAIN rules |-> "true"]
          matched == {id \in Identity : Matches(k, id, c)}
      IN  \A a, b \in matched :
            \/ a.sub = b.sub
            \/ Field(a.sub, AccountField) = Field(b.sub, AccountField)
                 /\ IsAccount(Field(a.sub, AccountField))
            \/ \E key \in DOMAIN a.claims \cap DOMAIN b.claims :
                 /\ key \in githubStrongPinKeys
                      \/ (key = AwsAccount /\ IsAccount(a.claims[key]))
                 /\ a.claims[key] = b.claims[key]

\* What a direction of a grant means to its author.
Intended(perm, s) ==
  /\ perm.given
  /\ \/ s \in perm.allow
     \/ perm.allow = {} /\ perm.deny # {}
  /\ s \notin perm.deny

\* What the server lets a granted user publish and subscribe to is what the rule
\* says: an omitted direction denies all, although an empty permission would
\* allow all.
PermissionsAsWritten ==
  decision # 0 =>
    LET g == rules[decision].grant
        lim == permissionLimits(g)
    IN  \A s \in Subject :
          /\ ServerAllows(lim.pub, s) <=> Intended(g.publish, s)
          /\ ServerAllows(lim.sub, s) <=> Intended(g.subscribe, s)

-----------------------------------------------------------------------------
\* What the proofs add: matchers are set only where a rule declares them, and
\* everywhere it does once Validate has passed the rule.
Passed(k) ==
  /\ GrantValid(rules[k]) /\ ExprValid(rules[k].match)
  /\ hasStrongPin(rules[k].match) \/ rules[k].match.broad

OnlyDeclared ==
  /\ \A k \in matcher : rules[k].match.sub # NoSub
  /\ \A k \in program : rules[k].match.expr # "none"

Compiled ==
  \A k \in DOMAIN rules :
    (validated \/ (status = "validating" /\ k < next)) =>
      /\ rules[k].match.sub # NoSub => k \in matcher
      /\ rules[k].match.expr # "none" => k \in program
      /\ Passed(k)

Decided == decision # 0 => validated

IInv == TypeOK /\ OnlyDeclared /\ Compiled /\ Decided /\ GrantMatchesRule
=============================================================================
