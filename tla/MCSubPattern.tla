---------------------------- MODULE MCSubPattern ----------------------------
(***************************************************************************)
(* Every glob over a small alphabet against every subject over it.  The    *)
(* pattern grows one character at a time; the account is one digit in the  *)
(* third field, so that patterns short enough to enumerate still have      *)
(* several fields before it, and a star there to shift them.               *)
(***************************************************************************)
EXTENDS SubPattern

CONSTANTS
  MaxPattern,  \* bound: characters of a pattern
  MaxSubject   \* bound: characters of a subject

ASSUME MCSubPatternAssumption == MaxPattern \in Nat /\ MaxSubject \in Nat

VARIABLE pattern

Alphabet == {Colon, Star, Newline} \cup Digit

Strings == UNION {[1..n -> Alphabet] : n \in 0..MaxSubject}

Sub == [kind |-> "glob", pat |-> pattern]

PatternInit == \E c \in Alphabet : pattern = <<c>>

Extend(c) ==
  /\ Len(pattern) < MaxPattern
  /\ pattern' = Append(pattern, c)

PatternNext == \E c \in Alphabet : Extend(c)

PatternSpec == PatternInit /\ [][PatternNext]_pattern

PatternTypeOK == pattern \in Seq(Alphabet)

-----------------------------------------------------------------------------
\* A glob that accountPinnedInARN accepts really pins the account: every subject
\* it matches has that account, in that field of the ARN, whatever its stars
\* match.  This is the code's claim that a literal prefix cannot be shifted.
PinSound ==
  accountPinnedInARN(Sub) =>
    \A s \in Strings :
      Spans(Sub, s) => Field(s, AccountField) = Field(pattern, AccountField)

\* A glob that subIsExact accepts matches one subject, itself: anchoring holds
\* at both ends and no character of it is special.
ExactOnlyItself ==
  subIsExact(Sub) => \A s \in Strings : Spans(Sub, s) <=> s = pattern

\* accountPinnedInARN refuses no more than it must: a glob with an account in the
\* account field, such that every subject it matches has it there, is accepted,
\* so "allow_broad" is only ever asked for when some subject would escape.
PinComplete ==
  /\ Fields(pattern) >= AccountField
  /\ IsAccount(Field(pattern, AccountField))
  /\ \A s \in Strings :
       Spans(Sub, s) => Field(s, AccountField) = Field(pattern, AccountField)
  => accountPinnedInARN(Sub)
=============================================================================
