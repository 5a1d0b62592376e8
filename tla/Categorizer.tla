---------------------------- MODULE Categorizer ----------------------------
(***************************************************************************)
(* pkg/categorizer: the keyword rules engine that picks the category of a  *)
(* transaction.  Categorize is a loop over the rules of the user; one step *)
(* is one iteration.  Whether the keyword of a rule occurs in the          *)
(* description is part of the input (matches); an empty description, for   *)
(* which the code returns at once, has no matches.                         *)
(***************************************************************************)
EXTENDS Integers, Sequences

CONSTANTS
    RuleIds,     \* primary keys of rules
    Priorities,  \* priorities a rule may have
    MaxRules,    \* bound: rules of a user
    None         \* best == nil

Rule == [id : RuleIds, priority : Priorities, matches : BOOLEAN]

ASSUME CategorizerAssumption ==
    /\ RuleIds \subseteq Nat
    /\ Priorities \subseteq Int
    /\ MaxRules \in Nat
    /\ None \notin Rule

VARIABLES
    rules,  \* the argument
    i,      \* the next rule to look at
    best    \* the best match so far

vars == <<rules, i, best>>

(* Primary keys are unique.                                                *)
Inputs ==
    {r \in UNION {[1 .. n -> Rule] : n \in 0 .. MaxRules} :
        \A j, k \in DOMAIN r : r[j].id = r[k].id => j = k}

TypeOK ==
    /\ rules \in Inputs
    /\ i \in 1 .. Len(rules) + 1
    /\ best \in Rule \union {None}

Init ==
    /\ rules \in Inputs
    /\ i = 1
    /\ best = None

Replaces_LaterWins(r, b) ==
    b = None \/ r.priority >= b.priority

(* First match, or better priority, or same priority but lower id.         *)
Replaces(r, b) ==
    \/ b = None
    \/ r.priority > b.priority
    \/ r.priority = b.priority /\ r.id < b.id

Iterate ==
    /\ i <= Len(rules)
    /\ i' = i + 1
    /\ best' = IF rules[i].matches /\ Replaces(rules[i], best)
               THEN rules[i] ELSE best
    /\ UNCHANGED rules

Next == Iterate

Spec == Init /\ [][Next]_vars

-----------------------------------------------------------------------------
(* The rule that is meant to win among the first n: it matches, has the    *)
(* highest priority of those that match, and of these the lowest id.       *)
Matching(n) == {r \in {rules[k] : k \in 1 .. n} : r.matches}

Wins(b, n) ==
    IF Matching(n) = {} THEN b = None
    ELSE /\ b \in Matching(n)
         /\ \A r \in Matching(n) \ {b} :
              \/ b.priority > r.priority
              \/ b.priority = r.priority /\ b.id < r.id

(* "The one with the highest Priority wins.  Ties are broken by the rule's *)
(* ID (lower ID = created first = higher priority).  If no rule matches",  *)
(* there is no category (categorizer.go:7-10), whatever order the rules    *)
(* come in.                                                                *)
BestRuleWins == i = Len(rules) + 1 => Wins(best, Len(rules))

=============================================================================
