---------------------------- MODULE Permissions ----------------------------
(***************************************************************************)
(* permissions.py: the policy an agent consults before every tool call.    *)
(* How the content of a rule is compared with the arguments of a call is a *)
(* parameter here, as it is of PolicyEngine.  The name of a tool is the    *)
(* sequence of its parts (the gateway puts the target's name in front of   *)
(* the tool's), a term of a rule or of a list is a sequence of parts too.  *)
(* Which of several matching rules the decision names is left out.         *)
(***************************************************************************)
EXTENDS Naturals, Sequences, SequencesExt

CONSTANT ContentMatches(_, _, _)   \* the content_matcher: name, rule, arguments

Behaviors == {"allow", "deny", "ask"}

NoContent == [shape |-> "none", words |-> <<>>]

Rule(behavior, tool, content) ==
    [behavior |-> behavior, tool |-> tool, content |-> content]

(* Substring matching of names, used by rules and by the tool lists.       *)
Covers(term, name) == term \in SubSeqs(name)

Matches(rule, name, args) ==
    /\ Covers(rule.tool, name)
    /\ rule.content = NoContent \/ ContentMatches(name, rule, args)

Matched(policy, behavior, name, args) ==
    \E rule \in policy.rules : rule.behavior = behavior /\ Matches(rule, name, args)

(* Seeded fault of Behavior: the precedence turned round.                  *)
Behavior_AllowFirst(policy, name, args) ==
    IF Matched(policy, "allow", name, args) THEN "allow"
    ELSE IF Matched(policy, "ask", name, args) THEN "ask"
    ELSE IF Matched(policy, "deny", name, args) THEN "deny"
    ELSE policy.default

(* PolicyEngine.evaluate: deny before ask before allow, then the default.  *)
Behavior(policy, name, args) ==
    IF Matched(policy, "deny", name, args) THEN "deny"
    ELSE IF Matched(policy, "ask", name, args) THEN "ask"
    ELSE IF Matched(policy, "allow", name, args) THEN "allow"
    ELSE policy.default

(* NullPolicy when the engine is switched off.  With nobody to ask, an ask *)
(* is resolved as configured.                                              *)
Evaluate(policy, name, args) ==
    LET behavior == IF policy.enabled THEN Behavior(policy, name, args) ELSE "allow"
    IN  [ behavior |-> behavior,
          allowed |-> \/ behavior = "allow"
                      \/ behavior = "ask" /\ policy.ask = "allow" ]
=============================================================================
