------------------------- MODULE ToolPolicy_proofs -------------------------
(***************************************************************************)
(* Proofs about Permissions and ToolAccess, for every policy, every set of *)
(* tools and every way of comparing a content with the arguments; then     *)
(* about ToolPolicy, where the contents are compared as redcell serve      *)
(* compares them.                                                          *)
(***************************************************************************)
EXTENDS ToolPolicy, Selection_proofs, TLAPS

PolicyOver(Rules) ==
    [ enabled : {TRUE}, rules : SUBSET Rules, default : Behaviors, ask : {"allow", "deny"} ]

(* Deny beats ask and allow: whatever the other rules say, a call that a   *)
(* deny rule matches is not allowed (PolicyEngine.evaluate).               *)
THEOREM DenyWins ==
    ASSUME NEW policy, policy.enabled, NEW name, NEW args,
           NEW rule \in policy.rules, rule.behavior = "deny", Matches(rule, name, args)
    PROVE  Evaluate(policy, name, args).allowed = FALSE
<1>1. Matched(policy, "deny", name, args)
  BY DEF Matched
<1>2. Behavior(policy, name, args) = "deny"
  BY <1>1 DEF Behavior
<1> QED
  BY <1>2 DEF Evaluate

(* Rules can be taken back: with more deny rules no call is allowed that   *)
(* was not allowed before (PolicyEngine.evaluate).                         *)
THEOREM DenyingMoreGrantsNoMore ==
    ASSUME NEW Rules, NEW policy \in PolicyOver(Rules), NEW name, NEW args,
           NEW more \in SUBSET Rules, \A rule \in more : rule.behavior = "deny"
    PROVE  Evaluate([policy EXCEPT !.rules = @ \cup more], name, args).allowed
              => Evaluate(policy, name, args).allowed
<1> DEFINE stricter == [policy EXCEPT !.rules = @ \cup more]
<1>1. /\ stricter.enabled = TRUE /\ policy.enabled = TRUE
      /\ stricter.rules = policy.rules \cup more
      /\ stricter.default = policy.default /\ stricter.ask = policy.ask
  BY DEF PolicyOver
<1> HIDE DEF stricter
<1>2. ASSUME Matched(stricter, "deny", name, args)
      PROVE  Evaluate(stricter, name, args).allowed = FALSE
  BY <1>1, <1>2, DenyWins DEF Matched
<1>3. ASSUME ~Matched(stricter, "deny", name, args)
      PROVE  Evaluate(stricter, name, args) = Evaluate(policy, name, args)
  <2>1. ~Matched(policy, "deny", name, args)
    BY <1>1, <1>3 DEF Matched
  <2>2. Matched(stricter, "ask", name, args) <=> Matched(policy, "ask", name, args)
    BY <1>1 DEF Matched
  <2>3. Matched(stricter, "allow", name, args) <=> Matched(policy, "allow", name, args)
    BY <1>1 DEF Matched
  <2>4. Behavior(stricter, name, args) = Behavior(policy, name, args)
    BY <1>1, <1>3, <2>1, <2>2, <2>3 DEF Behavior
  <2> QED
    BY <1>1, <2>4 DEF Evaluate
<1> QED
  BY <1>2, <1>3 DEF stricter

-----------------------------------------------------------------------------
(* The registry of a request is the one its settings call for, no tool is  *)
(* flagged that their list does not cover, and there is no call but in a   *)
(* request.                                                                *)
Shape ==
    /\ stage = "answering" => registry = Registered
    /\ stage # "answering" => outcome = NoCall
    /\ \A name \in flagged : \E term \in ReadOnlyTerms : Covers(term, name)

IInv == Shape /\ DispatchIsGoverned

LEMMA NothingRan == outcome = NoCall => DispatchIsGoverned
  BY DEF DispatchIsGoverned, NoCall, Ran, OnlyReadsShareARun

LEMMA InitInv == Init => IInv
  BY NothingRan DEF Init, IInv, Shape

(* A call that runs is governed, because of the registry and the policy.   *)
LEMMA CallIsGoverned ==
    ASSUME IInv, NEW name, NEW args, CallTool(name, args)
    PROVE  DispatchIsGoverned'
<1> DEFINE policy == settings.policy
           decision == Evaluate(policy, name, args)
           Rules(b) == {rule \in policy.rules : rule.behavior = b /\ Matches(rule, name, args)}
<1>1. /\ settings' = settings /\ discovered' = discovered
      /\ registry = Registered
  BY DEF CallTool, IInv, Shape
<1>2. /\ outcome'.name = name /\ outcome'.args = args
      /\ outcome'.recorded = (decision.behavior # "allow")
      /\ outcome'.to = IF ~decision.allowed THEN "blocked"
                       ELSE IF name \notin DOMAIN registry THEN "unknown" ELSE registry[name]
  BY DEF CallTool
<1>3. \A n \in DOMAIN Registered :
          /\ Registered[n] \in {"builtin", "mcp"}
          /\ Registered[n] = "builtin" <=> n \in Builtins
          /\ Registered[n] = "mcp" =>
                n \in discovered /\ \A term \in settings.denied : ~Covers(term, n)
  BY DEF Registered, Kept
<1>4. Ran' => decision.allowed /\ name \in DOMAIN registry /\ outcome'.to = registry[name]
  BY <1>2 DEF Ran
<1>5. policy.enabled /\ decision.allowed =>
          /\ Rules("deny") = {}
          /\ Rules("ask") # {} => policy.ask = "allow"
          /\ Rules("ask") \cup Rules("allow") = {} =>
                policy.default = "allow" \/ (policy.default = "ask" /\ policy.ask = "allow")
  BY DEF Evaluate, Behavior, Matched
<1>6. outcome'.to = "blocked" => outcome'.recorded
  BY <1>1, <1>2, <1>3 DEF Evaluate
<1>7. OnlyReadsShareARun'
  <2>1. outcome'.parallel = Parallel(name)
    BY DEF CallTool
  <2>2. ReadOnlyTerms' = ReadOnlyTerms
    BY <1>1 DEF ReadOnlyTerms
  <2>3. \A n \in flagged : \E term \in ReadOnlyTerms : Covers(term, n)
    BY DEF IInv, Shape
  <2> QED
    BY <1>1, <1>2, <1>3, <2>1, <2>2, <2>3 DEF OnlyReadsShareARun, Parallel
<1> HIDE DEF decision
<1> QED
  BY <1>1, <1>2, <1>3, <1>4, <1>5, <1>6, <1>7 DEF DispatchIsGoverned, Ran

LEMMA StepInv == IInv /\ [Next]_vars => IInv'
<1> SUFFICES ASSUME IInv, [Next]_vars
             PROVE  IInv'
  OBVIOUS
<1>1. CASE Discover
  <2>1. Shape'
    BY <1>1 DEF IInv, Shape, Discover, ReadOnlyTerms
  <2>2. DispatchIsGoverned'
    BY <1>1 DEF IInv, Shape, Discover, DispatchIsGoverned, NoCall, Ran, OnlyReadsShareARun
  <2> QED
    BY <2>1, <2>2 DEF IInv
<1>2. CASE BuildAgent
  <2>1. Shape'
    BY <1>2 DEF IInv, Shape, BuildAgent, Registered, Kept, ReadOnlyTerms
  <2>2. DispatchIsGoverned'
    BY <1>2 DEF IInv, Shape, BuildAgent, DispatchIsGoverned, NoCall, Ran, OnlyReadsShareARun
  <2> QED
    BY <2>1, <2>2 DEF IInv
<1>3. CASE CallOver
  <2>1. Shape'
    BY <1>3 DEF IInv, Shape, CallOver, Registered, Kept, ReadOnlyTerms
  <2>2. DispatchIsGoverned'
    BY <1>3 DEF CallOver, DispatchIsGoverned, NoCall, Ran, OnlyReadsShareARun
  <2> QED
    BY <2>1, <2>2 DEF IInv
<1>4. CASE EndRequest
  <2>1. Shape'
    BY <1>4 DEF IInv, Shape, EndRequest, ReadOnlyTerms
  <2>2. DispatchIsGoverned'
    BY <1>4 DEF EndRequest, DispatchIsGoverned, NoCall, Ran, OnlyReadsShareARun
  <2> QED
    BY <2>1, <2>2 DEF IInv
<1>5. ASSUME NEW name \in Names, NEW args \in CallsOf(name), CallTool(name, args)
      PROVE  IInv'
  <2>1. DispatchIsGoverned'
    BY <1>5, CallIsGoverned
  <2>2. Shape'
    BY <1>5 DEF IInv, Shape, CallTool, Registered, Kept, ReadOnlyTerms
  <2> QED
    BY <2>1, <2>2 DEF IInv
<1>6. CASE UNCHANGED vars
  <2>1. Shape'
    BY <1>6 DEF IInv, Shape, vars, Registered, Kept, ReadOnlyTerms
  <2>2. DispatchIsGoverned'
    BY <1>6 DEF IInv, vars, DispatchIsGoverned, Ran, OnlyReadsShareARun, ReadOnlyTerms
  <2> QED
    BY <2>1, <2>2 DEF IInv
<1> QED
  BY <1>1, <1>2, <1>3, <1>4, <1>5, <1>6 DEF Next

(* Whatever tools the gateway offers, whatever the settings and whatever   *)
(* the model calls, only governed calls run (build_agent and _run_tool).   *)
THEOREM Governed == Spec => []DispatchIsGoverned
<1>1. IInv => DispatchIsGoverned
  BY DEF IInv
<1> QED
  BY InitInv, StepInv, <1>1, PTL DEF Spec

-----------------------------------------------------------------------------
(* Pieces, tokens and the sequences of them.                               *)
Leads(line, n, whole, opening) ==
    /\ n \in 0..Len(line)
    /\ n = Len(line) \/ Starts(line, n + 1)
    /\ \A k \in 1..n : Starts(line, k) =>
          \/ line[k] \in opening
          \/ line[k] \in whole /\ (k = Len(line) \/ Starts(line, k + 1))

LEMMA LeadIs ==
    ASSUME NEW S, NEW line \in Seq(S), NEW whole, NEW opening
    PROVE  /\ Lead(line, whole, opening) \in 0..Len(line)
           /\ Leads(line, Lead(line, whole, opening), whole, opening)
           /\ \A n : Leads(line, n, whole, opening) => n <= Lead(line, whole, opening)
<1> DEFINE N == Len(line)
           R == {n \in 0..N : Leads(line, n, whole, opening)}
           m == Lead(line, whole, opening)
<1>1. N \in Nat /\ R \in SUBSET (0..N) /\ 0 \in R
  <2>1. N \in Nat /\ 1 = 0 + 1
    OBVIOUS
  <2>2. Starts(line, 1)
    BY DEF Starts
  <2> QED
    BY <2>1, <2>2 DEF Leads
<1>2. m \in R /\ \A n \in R : m >= n
  <2>1. R = {n \in 0..Len(line) :
               /\ n = Len(line) \/ Starts(line, n + 1)
               /\ \A k \in 1..n : Starts(line, k) =>
                     \/ line[k] \in opening
                     \/ line[k] \in whole /\ (k = Len(line) \/ Starts(line, k + 1))}
    BY DEF Leads
  <2>2. m = Max(R)
    BY <2>1, Zenon DEF Lead
  <2>3. \E x \in R : \A y \in R : x >= y
    <3> HIDE DEF R, N
    <3> QED
      BY <1>1, LargestExists
  <2> HIDE DEF R, m
  <2> QED
    BY <2>2, <2>3 DEF Max
<1>3. \A n : Leads(line, n, whole, opening) => n \in R
  BY DEF Leads
<1> HIDE DEF m
<1>4. m \in 0..N /\ Leads(line, m, whole, opening)
  BY <1>2
<1>5. \A n \in R : n <= m
  BY <1>1, <1>2
<1> QED
  BY <1>3, <1>4, <1>5 DEF m

(* More words to lead with lead no less far.                               *)
LEMMA LeadGrows ==
    ASSUME NEW S, NEW line \in Seq(S), NEW whole, NEW opening,
           NEW other, NEW further, whole \subseteq other, opening \subseteq further,
           NEW n, Leads(line, n, whole, opening)
    PROVE  n <= Lead(line, other, further)
<1>1. Leads(line, n, other, further)
  BY DEF Leads
<1> QED
  BY <1>1, LeadIs

(* Without a line break a line is what is joined of it.                    *)
LEMMA JoinedSame ==
    ASSUME NEW S, NEW raw \in Seq(S), ToSet(raw) \cap Breaks = {}
    PROVE  Joined(raw) = raw
<1> DEFINE P == {k \in DOMAIN raw : raw[k] \notin Breaks}
<1>1. 1..Len(raw) \subseteq P
  BY DEF ToSet
<1> HIDE DEF P
<1>2. Select(raw, P) = raw
  BY <1>1, SelectAll
<1> QED
  BY <1>2 DEF Joined, P

LEMMA JoinedIs ==
    ASSUME NEW S, NEW raw \in Seq(S)
    PROVE  Joined(raw) \in Seq(S)
  BY SelectPicks DEF Joined

LEMMA JoinedFront ==
    ASSUME NEW S, NEW front \in Seq(S), NEW raw \in Seq(S), ToSet(front) \cap Breaks = {}
    PROVE  Joined(front \o raw) = front \o Joined(raw)
<1> DEFINE whole == front \o raw
           P == {k \in DOMAIN raw : raw[k] \notin Breaks}
           Q == {k \in DOMAIN whole : whole[k] \notin Breaks}
           n == Len(front)
<1>1. /\ n \in Nat /\ Len(raw) \in Nat /\ DOMAIN whole = 1..(n + Len(raw))
      /\ \A k \in 1..n : whole[k] = front[k]
      /\ \A k \in 1..Len(raw) : whole[n + k] = raw[k]
  OBVIOUS
<1> HIDE DEF whole
<1>2. 1..n \subseteq Q
  BY <1>1 DEF ToSet
<1>3. \A k \in 1..Len(raw) : n + k \in Q <=> k \in P
  BY <1>1
<1> HIDE DEF P, Q
<1>4. Select(front \o raw, Q) = front \o Select(raw, P)
  BY <1>2, <1>3, SelectFront
<1> QED
  BY <1>4, Zenon DEF Joined, P, Q, whole

LEMMA DropIs ==
    ASSUME NEW S, NEW line \in Seq(S), NEW n \in 0..Len(line)
    PROVE  /\ Drop(line, n) \in Seq(S)
           /\ Len(Drop(line, n)) = Len(line) - n
           /\ \A k \in 1..(Len(line) - n) : Drop(line, n)[k] = line[n + k]
  BY DEF Drop

LEMMA DropNone ==
    ASSUME NEW S, NEW line \in Seq(S)
    PROVE  Drop(line, 0) = line
  BY DropIs, SeqEqual

LEMMA DropDrop ==
    ASSUME NEW S, NEW line \in Seq(S), NEW m \in 0..Len(line), NEW n \in 0..(Len(line) - m)
    PROVE  Drop(Drop(line, m), n) = Drop(line, m + n)
<1> DEFINE d == Drop(line, m)
<1>1. /\ d \in Seq(S) /\ Len(d) = Len(line) - m
      /\ \A k \in 1..(Len(line) - m) : d[k] = line[m + k]
  BY DropIs
<1> HIDE DEF d
<1> n \in 0..Len(d) /\ Len(line) \in Nat /\ Len(d) \in Nat
  BY <1>1
<1>2. /\ Drop(d, n) \in Seq(S) /\ Len(Drop(d, n)) = Len(d) - n
      /\ \A k \in 1..(Len(d) - n) : Drop(d, n)[k] = d[n + k]
  BY <1>1, DropIs
<1>3. m + n \in 0..Len(line)
  OBVIOUS
<1>4. /\ Drop(line, m + n) \in Seq(S) /\ Len(Drop(line, m + n)) = Len(line) - (m + n)
      /\ \A k \in 1..(Len(line) - (m + n)) : Drop(line, m + n)[k] = line[(m + n) + k]
  BY <1>3, DropIs
<1>5. Len(Drop(d, n)) = Len(Drop(line, m + n))
  <2>1. Len(Drop(d, n)) = Len(d) - n
    BY <1>2
  <2>2. Len(d) = Len(line) - m
    BY <1>1
  <2>3. Len(Drop(line, m + n)) = Len(line) - (m + n)
    BY <1>4
  <2> QED
    BY <2>1, <2>2, <2>3
<1>6. ASSUME NEW k \in 1..Len(Drop(d, n))
      PROVE  Drop(d, n)[k] = Drop(line, m + n)[k]
  <2>1. k \in 1..(Len(d) - n) /\ n + k \in 1..(Len(line) - m)
    BY <1>1, <1>2
  <2>2. Drop(d, n)[k] = line[m + (n + k)]
    BY <1>1, <1>2, <2>1
  <2>3. k \in 1..(Len(line) - (m + n)) /\ m + (n + k) = (m + n) + k
    BY <1>1, <2>1
  <2> QED
    BY <1>4, <2>2, <2>3
<1> QED
  BY <1>2, <1>4, <1>5, <1>6, SeqEqual DEF d

Peeled == Wrappers \cup Dashed \cup Digits

(* What follows leading tokens has the tokens it had.                      *)
LEMMA StartsRest ==
    ASSUME NEW S, NEW line \in Seq(S), NEW i \in 0..Len(line),
           i = Len(line) \/ Starts(line, i + 1), NEW k \in 1..(Len(line) - i)
    PROVE  Starts(Drop(line, i), k) <=> Starts(line, i + k)
<1> DEFINE rest == Drop(line, i)
<1>1. \A p \in 1..(Len(line) - i) : rest[p] = line[i + p]
  BY DropIs
<1> HIDE DEF rest
<1>2. CASE k = 1
  <2>1. i # Len(line) /\ i + k = i + 1
    BY <1>2
  <2> QED
    BY <1>2, <2>1 DEF Starts
<1>3. CASE k # 1
  <2>1. k - 1 \in 1..(Len(line) - i) /\ i + (k - 1) = (i + k) - 1 /\ i + k # 1
    BY <1>3
  <2>2. rest[k] = line[i + k] /\ rest[k - 1] = line[(i + k) - 1]
    BY <1>1, <2>1
  <2>3. Starts(rest, k) <=> rest[k] \notin GluedBefore /\ rest[k - 1] \notin GluedAfter
    BY <1>3 DEF Starts
  <2>4. Starts(line, i + k) <=>
           line[i + k] \notin GluedBefore /\ line[(i + k) - 1] \notin GluedAfter
    BY <2>1 DEF Starts
  <2> QED
    BY <2>2, <2>3, <2>4 DEF rest
<1> QED
  BY <1>2, <1>3 DEF rest

LEMMA LeadsOn ==
    ASSUME NEW S, NEW line \in Seq(S), NEW i, NEW j, NEW whole, NEW opening, NEW names,
           Leads(line, i, whole, opening), Leads(Drop(line, i), j, {}, names)
    PROVE  /\ i + j \in 0..Len(line)
           /\ Leads(line, i + j, whole, opening \cup names)
           /\ Drop(Drop(line, i), j) = Drop(line, i + j)
<1> DEFINE rest == Drop(line, i)
           N == Len(line)
<1>1. i \in 0..N /\ N \in Nat /\ (i = N \/ Starts(line, i + 1))
  BY DEF Leads
<1>2. /\ rest \in Seq(S) /\ Len(rest) = N - i
      /\ \A k \in 1..(N - i) : rest[k] = line[i + k]
  BY <1>1, DropIs
<1>3. \A k \in 1..(N - i) : Starts(rest, k) <=> Starts(line, i + k)
  BY <1>1, StartsRest
<1> HIDE DEF rest
<1>4. /\ j \in 0..(N - i)
      /\ j = N - i \/ Starts(rest, j + 1)
      /\ \A k \in 1..j : Starts(rest, k) => rest[k] \in names
  BY <1>2 DEF Leads, rest
<1>5. i + j \in 0..N
  BY <1>1, <1>4
<1>6. i + j = N \/ Starts(line, (i + j) + 1)
  <2>1. j # N - i => j + 1 \in 1..(N - i) /\ i + (j + 1) = (i + j) + 1
    BY <1>1, <1>4
  <2>2. j = N - i => i + j = N
    BY <1>1
  <2> QED
    BY <1>3, <1>4, <2>1, <2>2
<1>7. ASSUME NEW k \in 1..(i + j), Starts(line, k)
      PROVE  \/ line[k] \in opening \cup names
             \/ line[k] \in whole /\ (k = N \/ Starts(line, k + 1))
  <2>1. CASE k \in 1..i
    BY <1>7, <2>1 DEF Leads
  <2>2. CASE k \notin 1..i
    <3>1. k - i \in 1..j /\ k - i \in 1..(N - i) /\ i + (k - i) = k
      BY <1>1, <1>4, <2>2
    <3>2. Starts(rest, k - i) /\ rest[k - i] = line[k]
      BY <1>2, <1>3, <1>7, <3>1
    <3> QED
      BY <1>4, <3>1, <3>2
  <2> QED
    BY <2>1, <2>2
<1>8. Drop(Drop(line, i), j) = Drop(line, i + j)
  BY <1>1, <1>4, DropDrop
<1> HIDE DEF N
<1>9. Leads(line, i + j, whole, opening \cup names)
  BY <1>5, <1>6, <1>7 DEF Leads, N
<1> QED
  BY <1>5, <1>8, <1>9 DEF N

(* What the two strips leave of a line is a rest of it.                    *)
LEMMA StripIs ==
    ASSUME NEW S, NEW raw \in Seq(S)
    PROVE  \E n : /\ Leads(Joined(raw), n, Wrappers \cup Digits, Dashed)
                  /\ StripWrappers(raw) = Drop(Joined(raw), n)
<1> DEFINE line == Joined(raw)
           n == Lead(line, Wrappers \cup Digits, Dashed)
<1>1. line \in Seq(S)
  BY JoinedIs
<1>2. StripWrappers(raw) = line \/ StripWrappers(raw) = Drop(line, n)
  BY DEF StripWrappers
<1> HIDE DEF line
<1>3. Leads(line, n, Wrappers \cup Digits, Dashed)
  BY <1>1, LeadIs
<1>4. Leads(line, 0, Wrappers \cup Digits, Dashed) /\ Drop(line, 0) = line
  <2>1. 0 \in 0..Len(line) /\ 1 = 0 + 1 /\ 1..0 = {}
    BY <1>1
  <2> QED
    BY <1>1, <2>1, DropNone DEF Leads, Starts
<1> HIDE DEF n
<1>5. \E m : /\ Leads(line, m, Wrappers \cup Digits, Dashed)
             /\ StripWrappers(raw) = Drop(line, m)
  BY <1>2, <1>3, <1>4
<1> QED
  BY <1>5 DEF line

-----------------------------------------------------------------------------
(* Sub-commands.  Those that end behind the first n words are those of the *)
(* rest of the line, each in its place, the first one perhaps cut.         *)
LEMMA SubIs ==
    ASSUME NEW S, NEW line \in Seq(S), NEW s \in SubCommands(line)
    PROVE  /\ s[1] \in 1..s[2] /\ s[2] \in 1..Len(line)
           /\ Sub(line, s) \in Seq(S) /\ Len(Sub(line, s)) = s[2] - s[1] + 1
           /\ \A k \in 1..(s[2] - s[1] + 1) : Sub(line, s)[k] = line[s[1] + k - 1]
<1>1. s[1] \in 1..Len(line) /\ s[2] \in 1..Len(line) /\ s[1] <= s[2]
  BY DEF SubCommands
<1> QED
  BY <1>1 DEF Sub

LEMMA SubsByEnd ==
    ASSUME NEW S, NEW line \in Seq(S), NEW s \in SubCommands(line), NEW t \in SubCommands(line),
           s[2] = t[2]
    PROVE  s = t
<1>1. /\ s = <<s[1], s[2]>> /\ t = <<t[1], t[2]>>
      /\ s[1] \in 1..s[2] /\ t[1] \in 1..t[2] /\ s[2] \in Nat
  BY DEF SubCommands
<1>2. /\ \A k \in s[1]..s[2] : line[k] \notin Operators
      /\ \A k \in t[1]..t[2] : line[k] \notin Operators
      /\ s[1] = 1 \/ line[s[1] - 1] \in Operators
      /\ t[1] = 1 \/ line[t[1] - 1] \in Operators
  BY DEF SubCommands
<1>3. ~(s[1] < t[1])
  <2>1. s[1] < t[1] => t[1] # 1 /\ t[1] - 1 \in s[1]..s[2]
    BY <1>1
  <2> QED
    BY <1>2, <2>1
<1>4. ~(t[1] < s[1])
  <2>1. t[1] < s[1] => s[1] # 1 /\ s[1] - 1 \in t[1]..t[2]
    BY <1>1
  <2> QED
    BY <1>2, <2>1
<1>5. s[1] = t[1]
  BY <1>1, <1>3, <1>4
<1> QED
  BY <1>1, <1>5, Zenon

LEMMA SubShift ==
    ASSUME NEW S, NEW line \in Seq(S), NEW n \in 0..Len(line), NEW s \in SubCommands(line), n < s[2]
    PROVE  <<IF s[1] <= n THEN 1 ELSE s[1] - n, s[2] - n>> \in SubCommands(Drop(line, n))
<1> DEFINE d == Drop(line, n)
           a == IF s[1] <= n THEN 1 ELSE s[1] - n
           b == s[2] - n
<1>1. /\ d \in Seq(S) /\ Len(d) = Len(line) - n
      /\ \A k \in 1..(Len(line) - n) : d[k] = line[n + k]
  BY DropIs
<1>2. /\ s[1] \in 1..s[2] /\ s[2] \in 1..Len(line)
      /\ \A k \in s[1]..s[2] : line[k] \notin Operators
      /\ s[1] = 1 \/ line[s[1] - 1] \in Operators
      /\ s[2] = Len(line) \/ line[s[2] + 1] \in Operators
  BY DEF SubCommands
<1>3. /\ a \in 1..Len(d) /\ b \in 1..Len(d) /\ a <= b
  BY <1>1, <1>2
<1>4. ASSUME NEW k \in a..b
      PROVE  d[k] \notin Operators
  <2>1. k \in 1..(Len(line) - n) /\ n + k \in s[1]..s[2]
    BY <1>1, <1>2, <1>3
  <2> QED
    BY <1>1, <1>2, <2>1
<1>5. ASSUME a # 1
      PROVE  d[a - 1] \in Operators
  <2>1. s[1] > n + 1 /\ a = s[1] - n
    BY <1>2, <1>5
  <2>2. a - 1 \in 1..(Len(line) - n) /\ n + (a - 1) = s[1] - 1 /\ s[1] # 1
    BY <1>2, <2>1
  <2> HIDE DEF a
  <2> QED
    BY <1>1, <1>2, <2>2
<1>6. ASSUME b # Len(d)
      PROVE  d[b + 1] \in Operators
  <2>1. n + (b + 1) = s[2] + 1 /\ b \in 1..Len(d) /\ b # Len(d) /\ s[2] \in Nat
    BY <1>2, <1>3, <1>6
  <2>2. s[2] # Len(line)
    BY <1>1, <2>1
  <2> HIDE DEF b
  <2>3. b + 1 \in 1..(Len(line) - n)
    <3>1. Len(d) = Len(line) - n
      BY <1>1
    <3>2. Len(d) \in Nat
      BY <1>1
    <3> QED
      BY <2>1, <3>1, <3>2
  <2> QED
    BY <1>1, <1>2, <2>1, <2>2, <2>3
<1> HIDE DEF a, b, d
<1> DEFINE t == <<a, b>>
<1>7. t \in SubCommands(d)
  <2>1. t[1] = a /\ t[2] = b /\ t \in (DOMAIN d) \X (DOMAIN d)
    BY <1>1, <1>3
  <2> HIDE DEF t
  <2>2. /\ t[1] <= t[2]
        /\ \A k \in t[1]..t[2] : d[k] \notin Operators
        /\ t[1] = 1 \/ d[t[1] - 1] \in Operators
        /\ t[2] = Len(d) \/ d[t[2] + 1] \in Operators
    BY <1>3, <1>4, <1>5, <1>6, <2>1
  <2> QED
    BY <2>1, <2>2 DEF SubCommands
<1> QED
  BY <1>7 DEF a, b, d

LEMMA SubSame ==
    ASSUME NEW S, NEW line \in Seq(S), NEW n \in 0..Len(line), NEW s \in SubCommands(line), n < s[1]
    PROVE  /\ <<s[1] - n, s[2] - n>> \in SubCommands(Drop(line, n))
           /\ Sub(Drop(line, n), <<s[1] - n, s[2] - n>>) = Sub(line, s)
<1> DEFINE d == Drop(line, n)
           t == <<s[1] - n, s[2] - n>>
<1>1. /\ s[1] \in 1..s[2] /\ s[2] \in 1..Len(line)
      /\ Sub(line, s) \in Seq(S) /\ Len(Sub(line, s)) = s[2] - s[1] + 1
      /\ \A k \in 1..(s[2] - s[1] + 1) : Sub(line, s)[k] = line[s[1] + k - 1]
  BY SubIs
<1>2. t \in SubCommands(d)
  <2>1. n < s[2] /\ ~(s[1] <= n)
    BY <1>1
  <2> QED
    BY <2>1, SubShift
<1>3. /\ d \in Seq(S) /\ Len(d) = Len(line) - n
      /\ \A k \in 1..(Len(line) - n) : d[k] = line[n + k]
  BY DropIs
<1> HIDE DEF d
<1>4. /\ Sub(d, t) \in Seq(S) /\ Len(Sub(d, t)) = t[2] - t[1] + 1
      /\ \A k \in 1..(t[2] - t[1] + 1) : Sub(d, t)[k] = d[t[1] + k - 1]
  BY <1>2, <1>3, SubIs
<1>5. t[1] = s[1] - n /\ t[2] = s[2] - n
  OBVIOUS
<1> HIDE DEF t
<1>6. Len(Sub(d, t)) = Len(Sub(line, s))
  BY <1>1, <1>4, <1>5
<1>7. ASSUME NEW k \in 1..Len(Sub(d, t))
      PROVE  Sub(d, t)[k] = Sub(line, s)[k]
  <2>1. /\ k \in 1..(t[2] - t[1] + 1) /\ k \in 1..(s[2] - s[1] + 1)
        /\ t[1] + k - 1 \in 1..(Len(line) - n) /\ n + (t[1] + k - 1) = s[1] + k - 1
    <3>1. /\ n \in Nat /\ Len(line) \in Nat /\ s[1] \in Nat /\ s[2] \in Nat
          /\ n < s[1] /\ s[1] <= s[2] /\ s[2] <= Len(line)
      BY <1>1
    <3>2. k \in Nat /\ 1 <= k /\ k <= (s[2] - s[1]) + 1
      BY <1>1, <1>6, <3>1
    <3>3. /\ t[2] - t[1] + 1 = s[2] - s[1] + 1
          /\ n + (t[1] + k - 1) = s[1] + k - 1
      <4> DEFINE p == s[1]
                 q == s[2]
      <4>1. p \in Nat /\ q \in Nat /\ t[1] = p - n /\ t[2] = q - n
        BY <1>5, <3>1
      <4> HIDE DEF p, q
      <4>2. /\ t[2] - t[1] + 1 = q - p + 1
            /\ n + (t[1] + k - 1) = p + k - 1
        BY <3>1, <3>2, <4>1
      <4> QED
        BY <4>2 DEF p, q
    <3>4. t[1] + k - 1 \in 1..(Len(line) - n)
      BY <1>5, <3>1, <3>2
    <3> QED
      BY <3>1, <3>2, <3>3, <3>4
  <2> QED
    BY <1>1, <1>3, <1>4, <2>1
<1>8. Sub(d, t) = Sub(line, s)
  BY <1>1, <1>4, <1>6, <1>7, SeqEqual
<1> QED
  BY <1>2, <1>8 DEF t, d

-----------------------------------------------------------------------------
(* The rules for command lines.                                            *)
LEMMA PrefixFirst ==
    ASSUME NEW P, NEW p \in Seq(P), NEW S, NEW sub \in Seq(S), IsPrefix(p, sub), p # <<>>
    PROVE  sub # <<>> /\ sub[1] = p[1]
<1>1. Len(p) \in Nat \ {0} /\ Len(p) <= Len(sub) /\ Len(sub) \in Nat
  BY DEF IsPrefix
<1>2. SubSeq(p, 1, Len(p))[1] = p[1] /\ SubSeq(sub, 1, Len(p))[1] = sub[1]
  BY <1>1
<1>3. SubSeq(p, 1, Len(p)) = SubSeq(sub, 1, Len(p))
  BY DEF IsPrefix
<1> QED
  BY <1>1, <1>2, <1>3

(* A command that matches begins with the first word of the content.       *)
LEMMA FirstWord ==
    ASSUME NEW content, IsShellContent(content), content.shape \notin {"EXEC", "RM"},
           content.words # <<>> => content.words[1] \notin Starred,
           NEW S, NEW sub \in Seq(S), sub # <<>>,
           MatchCommand(content, sub)
    PROVE  content.words # <<>> /\ sub[1] = content.words[1]
<1> DEFINE words == content.words
           n == Len(words)
<1>1. content.shape \in {"exact", "word", "prefix", "wild"} /\ words \in Seq(ToSet(words))
  BY DEF IsShellContent
<1>2. CASE content.shape = "exact"
  <2>1. sub = words
    BY <1>2 DEF MatchCommand
  <2> QED
    BY <2>1
<1>3. CASE content.shape \in {"word", "prefix"}
  <2>1. words # <<>> /\ IsPrefix(words, sub)
    BY <1>3 DEF MatchCommand
  <2> QED
    BY <1>1, <2>1, PrefixFirst
<1>4. CASE content.shape = "wild"
  <2>1. PICK at \in [1..(n + 1) -> 1..(Len(sub) + 1)] :
            /\ at[1] = 1 /\ at[n + 1] = Len(sub) + 1
            /\ \A i \in 1..n :
                  words[i] \notin Starred => at[i + 1] = at[i] + 1 /\ sub[at[i]] = words[i]
    BY <1>4 DEF MatchCommand
  <2>2. Len(sub) \in Nat \ {0} /\ n \in Nat
    BY <1>1
  <2>3. words # <<>> /\ n # 0
    BY <1>1, <2>1, <2>2
  <2>4. 1 \in 1..n
    BY <2>2, <2>3
  <2> QED
    BY <2>1, <2>3, <2>4
<1> QED
  BY <1>1, <1>2, <1>3, <1>4

LEMMA SubsFinite ==
    ASSUME NEW S, NEW line \in Seq(S)
    PROVE  IsFiniteSet(SubCommands(line))
<1> DEFINE D == 1..Len(line)
<1>1. IsFiniteSet(D \X D)
  <2>1. IsFiniteSet(D)
    BY FS_Interval
  <2> HIDE DEF D
  <2> QED
    BY <2>1, FS_Product
<1>2. SubCommands(line) \subseteq D \X D
  BY DEF SubCommands
<1> QED
  BY <1>1, <1>2, FS_Subset

(* A line that does not begin with an operator begins with a sub-command.  *)
LEMMA FirstSub ==
    ASSUME NEW S, NEW line \in Seq(S), line # <<>>, line[1] \notin Operators
    PROVE  \E t \in SubCommands(line) : t[1] = 1
<1> DEFINE N == Len(line)
           R == {k \in 1..N : k = N \/ line[k + 1] \in Operators}
<1>1. N \in Nat \ {0}
  OBVIOUS
<1>2. N \in R /\ R \in SUBSET (0..N)
  BY <1>1
<1>3. PICK e \in R : \A k \in R : e <= k
  <2> HIDE DEF R, N
  <2> QED
    BY <1>1, <1>2, SmallestExists
<1>4. /\ e \in 1..N /\ (e = N \/ line[e + 1] \in Operators)
      /\ \A k \in 1..N : line[k + 1] \in Operators => e <= k
  BY <1>3
<1>5. ASSUME NEW k \in 1..e
      PROVE  line[k] \notin Operators
  <2>1. CASE k = 1
    BY <2>1
  <2>2. CASE k # 1
    <3>1. k - 1 \in 1..N /\ ~(e <= k - 1) /\ (k - 1) + 1 = k
      BY <1>4, <2>2
    <3> QED
      BY <1>4, <3>1
  <2> QED
    BY <2>1, <2>2
<1> HIDE DEF R
<1> DEFINE t == <<1, e>>
<1>6. t[1] = 1 /\ t[2] = e /\ t \in (DOMAIN line) \X (DOMAIN line)
  BY <1>1, <1>4
<1> HIDE DEF t
<1>7. t \in SubCommands(line)
  BY <1>4, <1>5, <1>6 DEF SubCommands
<1> QED
  BY <1>6, <1>7

(* What an allow rule matches, the same rule matches as a deny rule: the   *)
(* assignments that only the deny rule does not see stand in front of the  *)
(* command that matches.                                                   *)
LEMMA DenySeesIt ==
    ASSUME NEW content, IsShellContent(content),
           content.words # <<>> => content.words[1] \notin Assignments \cup Starred,
           NEW S, NEW raw \in Seq(S), CommandRuleMatches("allow", content, raw)
    PROVE  CommandRuleMatches("deny", content, raw)
<1> DEFINE rest == StripWrappers(raw)
           line == StripEnvAssignments(rest, TRUE)
           all == StripEnvAssignments(rest, FALSE)
           a == Lead(rest, {}, SafeAssignments)
           b == Lead(rest, {}, Assignments)
<1>1. CASE content.shape \in {"EXEC", "RM"}
  BY <1>1 DEF CommandRuleMatches
<1>2. CASE content.shape \notin {"EXEC", "RM"}
  <2>1. /\ Cardinality(SubCommands(line)) = 1
        /\ \E s \in SubCommands(line) : MatchCommand(content, Sub(line, s))
    BY <1>2, Zenon DEF CommandRuleMatches
  <2>2. PICK s \in SubCommands(line) : MatchCommand(content, Sub(line, s))
    BY <2>1
  <2>3. rest \in Seq(S)
    <3>1. PICK n : /\ Leads(Joined(raw), n, Wrappers \cup Digits, Dashed)
                   /\ rest = Drop(Joined(raw), n)
      BY StripIs
    <3>2. Joined(raw) \in Seq(S) /\ n \in 0..Len(Joined(raw))
      BY <3>1, JoinedIs DEF Leads
    <3> HIDE DEF rest
    <3> QED
      BY <3>1, <3>2, DropIs
  <2>4. line = Drop(rest, a) /\ all = Drop(rest, b)
    BY DEF StripEnvAssignments
  <2> HIDE DEF rest, line, all
  <2>5. /\ a \in 0..Len(rest) /\ Leads(rest, a, {}, SafeAssignments)
        /\ b \in 0..Len(rest) /\ Leads(rest, b, {}, Assignments)
        /\ Len(rest) \in Nat
    BY <2>3, LeadIs
  <2>6. a <= b
    BY <2>3, <2>5, ShellAssumption, LeadGrows DEF ShellAssumption
  <2> HIDE DEF a, b
  <2>7. /\ line \in Seq(S) /\ Len(line) = Len(rest) - a
        /\ \A k \in 1..(Len(rest) - a) : line[k] = rest[a + k]
    BY <2>3, <2>4, <2>5, DropIs
  <2>8. b - a \in 0..Len(line) /\ b - a \in 0..(Len(rest) - a)
    <3>1. b - a \in 0..(Len(rest) - a)
      BY <2>5, <2>6
    <3> QED
      BY <2>7, <3>1
  <2>9. all = Drop(line, b - a)
    <3>1. a + (b - a) = b
      BY <2>5
    <3> QED
      BY <2>3, <2>4, <2>5, <2>8, <3>1, DropDrop
  <2>10. /\ s[1] \in 1..Len(line) /\ Sub(line, s) \in Seq(S)
         /\ Sub(line, s) # <<>> /\ Sub(line, s)[1] = line[s[1]]
         /\ s[1] = 1 \/ line[s[1] - 1] \in Operators
    <3>1. /\ s[1] \in 1..s[2] /\ s[2] \in 1..Len(line) /\ Sub(line, s) \in Seq(S)
          /\ Len(Sub(line, s)) = s[2] - s[1] + 1
          /\ \A k \in 1..(s[2] - s[1] + 1) : Sub(line, s)[k] = line[s[1] + k - 1]
      BY <2>7, SubIs
    <3>2. 1 \in 1..(s[2] - s[1] + 1) /\ s[1] + 1 - 1 = s[1]
      BY <3>1
    <3>3. s[1] = 1 \/ line[s[1] - 1] \in Operators
      BY DEF SubCommands
    <3> QED
      BY <3>1, <3>2, <3>3
  <2>11. line[s[1]] \notin Assignments
    <3>1. content.words # <<>> => content.words[1] \notin Starred
      OBVIOUS
    <3>2. content.words # <<>> /\ Sub(line, s)[1] = content.words[1]
      BY <1>2, <2>2, <2>10, <3>1, FirstWord
    <3> QED
      BY <2>10, <3>2
  <2>12. b - a < s[1]
    <3> SUFFICES ASSUME s[1] <= b - a
                 PROVE  FALSE
      BY <2>8, <2>10
    <3>1. a + 1 \in 1..b /\ a # Len(rest) /\ 1 \in 1..(Len(rest) - a)
      BY <2>5, <2>7, <2>10
    <3>2. line[1] \in Assignments
      <4>1. Starts(rest, a + 1)
        BY <2>5, <3>1 DEF Leads
      <4>2. rest[a + 1] \in Assignments
        BY <2>5, <3>1, <4>1 DEF Leads
      <4> QED
        BY <2>7, <3>1, <4>2
    <3>3. s[1] # 1
      BY <2>11, <3>2
    <3>4. line # <<>> /\ line[1] \notin Operators
      BY <2>7, <2>10, <3>2, ShellAssumption DEF ShellAssumption
    <3>5. PICK t \in SubCommands(line) : t[1] = 1
      BY <2>7, <3>4, FirstSub
    <3>6. PICK u : SubCommands(line) = {u}
      <4>1. IsFiniteSet(SubCommands(line))
        BY <2>7, SubsFinite
      <4> QED
        BY <2>1, <4>1, FS_Singleton
    <3> QED
      BY <3>3, <3>5, <3>6
  <2>13. \E t \in SubCommands(all) : Sub(all, t) = Sub(line, s)
    BY <2>7, <2>8, <2>9, <2>12, SubSame
  <2>14. \E t \in SubCommands(all) : MatchCommand(content, Sub(all, t))
    BY <2>2, <2>13, Zenon
  <2> QED
    BY <1>2, <2>14, Zenon DEF CommandRuleMatches, all, rest
<1> QED
  BY <1>1, <1>2

(* The line an allow rule looks at is a rest of the one given.             *)
LEMMA RestIs ==
    ASSUME NEW S, NEW raw \in Seq(S)
    PROVE  \E m : /\ Leads(Joined(raw), m, Wrappers \cup Digits, Dashed \cup Assignments)
                  /\ StripEnvAssignments(StripWrappers(raw), TRUE) = Drop(Joined(raw), m)
<1> DEFINE line == Joined(raw)
           rest == StripWrappers(raw)
           j == Lead(rest, {}, SafeAssignments)
<1>1. line \in Seq(S)
  BY JoinedIs
<1>2. PICK i : Leads(line, i, Wrappers \cup Digits, Dashed) /\ rest = Drop(line, i)
  BY StripIs
<1>3. StripEnvAssignments(rest, TRUE) = Drop(rest, j)
  BY DEF StripEnvAssignments
<1> HIDE DEF line, rest
<1>4. Leads(rest, j, {}, Assignments)
  <2>1. i \in 0..Len(line)
    BY <1>2 DEF Leads
  <2>2. rest \in Seq(S)
    BY <1>1, <1>2, <2>1, DropIs
  <2>3. Leads(rest, j, {}, SafeAssignments)
    BY <2>2, LeadIs
  <2> QED
    BY <2>3, ShellAssumption DEF Leads, ShellAssumption
<1> HIDE DEF j
<1>5. /\ Leads(line, i + j, Wrappers \cup Digits, Dashed \cup Assignments)
      /\ Drop(rest, j) = Drop(line, i + j)
  BY <1>1, <1>2, <1>4, LeadsOn
<1> QED
  BY <1>3, <1>5 DEF line, rest

(* When the rest of a line is one command and no operator is stripped with *)
(* what stands in front, the line holds no more.                           *)
LEMMA OneCommand ==
    ASSUME NEW S, NEW raw \in Seq(S), ToSet(raw) \cap Breaks = {},
           ToSet(Strippable(raw)) \cap Operators = {},
           Cardinality(SubCommands(StripEnvAssignments(StripWrappers(raw), TRUE))) = 1
    PROVE  Cardinality({s \in SubCommands(raw) : Substantial(raw, s)}) <= 1
<1> DEFINE T == {s \in SubCommands(raw) : Substantial(raw, s)}
           L == Lead(raw, Wrappers \cup Digits, Dashed \cup Assignments)
<1>1. PICK m : /\ Leads(raw, m, Wrappers \cup Digits, Dashed \cup Assignments)
               /\ StripEnvAssignments(StripWrappers(raw), TRUE) = Drop(raw, m)
  <2>1. Joined(raw) = raw
    BY JoinedSame
  <2> QED
    BY <2>1, RestIs
<1>2. m \in 0..Len(raw) /\ m <= L /\ L \in 0..Len(raw)
  BY <1>1, LeadIs DEF Leads
<1>3. \A k \in 1..m : raw[k] \in Peeled \cup Assignments
  <2>1. \A k \in 1..m : raw[k] \notin Operators
    <3> SUFFICES ASSUME NEW k \in 1..m
                 PROVE  raw[k] \notin Operators
      OBVIOUS
    <3> HIDE DEF L
    <3>1. k \in 1..L /\ L \in 0..Len(raw)
      BY <1>2
    <3>2. /\ Len(SubSeq(raw, 1, L)) = L
          /\ SubSeq(raw, 1, L)[k] = raw[k]
      BY <3>1
    <3>3. raw[k] \in ToSet(SubSeq(raw, 1, L))
      BY <3>1, <3>2 DEF ToSet
    <3> QED
      BY <3>3 DEF Strippable, L
  <2>2. ASSUME NEW k \in 1..m
        PROVE  Starts(raw, k)
    <3>1. k # 1 => k - 1 \in 1..m
      BY <1>2
    <3> QED
      BY <2>1, <3>1, ShellAssumption DEF Starts, ShellAssumption
  <2> QED
    BY <1>1, <2>2 DEF Leads, Peeled
<1>4. Drop(raw, m) \in Seq(S)
  BY <1>2, DropIs
<1>5. PICK u : SubCommands(Drop(raw, m)) = {u}
  <2>1. IsFiniteSet(SubCommands(Drop(raw, m)))
    BY <1>4, SubsFinite
  <2>2. Cardinality(SubCommands(Drop(raw, m))) = 1
    BY <1>1
  <2> QED
    BY <2>1, <2>2, FS_Singleton
<1>6. ASSUME NEW s \in T
      PROVE  s[2] \in Nat /\ s[2] - m = u[2]
  <2>1. s \in SubCommands(raw) /\ Substantial(raw, s)
    OBVIOUS
  <2>2. /\ s[1] \in 1..s[2] /\ s[2] \in 1..Len(raw)
        /\ Sub(raw, s) \in Seq(S) /\ Len(Sub(raw, s)) = s[2] - s[1] + 1
        /\ \A k \in 1..(s[2] - s[1] + 1) : Sub(raw, s)[k] = raw[s[1] + k - 1]
    BY <2>1, SubIs
  <2>3. m < s[2]
    <3> SUFFICES ASSUME s[2] <= m
                 PROVE  ToSet(Sub(raw, s)) \subseteq Peeled \cup Assignments
      BY <1>2, <2>1, <2>2 DEF Substantial, Peeled
    <3> SUFFICES ASSUME NEW k \in 1..(s[2] - s[1] + 1)
                 PROVE  Sub(raw, s)[k] \in Peeled \cup Assignments
      BY <2>2 DEF ToSet
    <3>1. s[1] + k - 1 \in 1..m
      BY <1>2, <2>2
    <3> QED
      BY <1>2, <1>3, <2>2, <3>1
  <2>4. <<IF s[1] <= m THEN 1 ELSE s[1] - m, s[2] - m>> \in SubCommands(Drop(raw, m))
    BY <1>2, <2>1, <2>3, SubShift
  <2>5. u = <<IF s[1] <= m THEN 1 ELSE s[1] - m, s[2] - m>>
    BY <1>5, <2>4
  <2> QED
    BY <2>2, <2>5
<1>7. \A s, t \in T : s = t
  <2> SUFFICES ASSUME NEW s \in T, NEW t \in T
               PROVE  s = t
    OBVIOUS
  <2>1. s[2] = t[2]
    <3>1. s[2] \in Nat /\ s[2] - m = u[2]
      BY <1>6
    <3>2. t[2] \in Nat /\ t[2] - m = u[2]
      BY <1>6
    <3>3. m \in Nat
      BY <1>2
    <3> QED
      BY <3>1, <3>2, <3>3
  <2> QED
    BY <2>1, SubsByEnd
<1>8. T = {} \/ \E s : T = {s}
  BY <1>7
<1> HIDE DEF T
<1>9. Cardinality(T) <= 1
  <2>1. CASE T = {}
    <3>1. Cardinality({}) = 0 /\ 0 <= 1
      BY FS_EmptySet
    <3> QED
      BY <2>1, <3>1, Zenon
  <2>2. ASSUME NEW s, T = {s}
        PROVE  Cardinality(T) <= 1
    <3>1. Cardinality({s}) = 1
      BY FS_Singleton, Zenon
    <3>2. 1 <= 1
      OBVIOUS
    <3> QED
      BY <2>2, <3>1, <3>2, Zenon
  <2> QED
    BY <1>8, <2>1, <2>2
<1> QED
  BY <1>9 DEF T

(* Tokens put in front of a line leave it the tokens it had.               *)
LEMMA LeadsFront ==
    ASSUME NEW S, NEW line \in Seq(S), line # <<>>, line[1] \notin GluedBefore,
           NEW front \in Seq(Peeled), NEW j \in 0..Len(line)
    PROVE  /\ Leads(front \o line, Len(front) + j, Wrappers \cup Digits, Dashed)
                 <=> Leads(line, j, Wrappers \cup Digits, Dashed)
           /\ \A k \in 1..(Len(front) + 1) : Starts(front \o line, k)
<1> DEFINE n == Len(front)
           N == Len(line)
           text == front \o line
<1>1. /\ n \in Nat /\ N \in Nat \ {0}
      /\ text \in Seq(Peeled \cup S) /\ Len(text) = n + N
      /\ \A k \in 1..n : text[k] = front[k]
      /\ \A k \in 1..N : text[n + k] = line[k]
  <2>1. front \in Seq(Peeled \cup S) /\ line \in Seq(Peeled \cup S)
    OBVIOUS
  <2> QED
    BY <2>1
<1>2. \A k \in 1..n : text[k] \in Peeled /\ text[k] \notin GluedBefore \cup GluedAfter
  BY <1>1, ShellAssumption DEF ShellAssumption, Peeled
<1> HIDE DEF text, n, N
<1>3. ASSUME NEW k \in 1..N
      PROVE  Starts(text, n + k) <=> Starts(line, k)
  <2>1. CASE k = 1
    <3>1. text[n + 1] \notin GluedBefore
      BY <1>1
    <3>2. n = 0 \/ (n \in 1..n /\ (n + 1) - 1 = n)
      BY <1>1
    <3> QED
      BY <1>1, <1>2, <2>1, <3>1, <3>2 DEF Starts
  <2>2. CASE k # 1
    <3>1. k - 1 \in 1..N /\ n + (k - 1) = (n + k) - 1 /\ n + k # 1
      BY <1>1, <2>2
    <3>2. text[n + k] = line[k] /\ text[(n + k) - 1] = line[k - 1]
      BY <1>1, <3>1
    <3> QED
      BY <2>2, <3>1, <3>2 DEF Starts
  <2> QED
    BY <2>1, <2>2
<1>4. \A k \in 1..(n + 1) : Starts(text, k)
  <2> SUFFICES ASSUME NEW k \in 1..(n + 1)
               PROVE  Starts(text, k)
    OBVIOUS
  <2>1. CASE k = n + 1
    <3>1. 1 \in 1..N /\ Starts(line, 1)
      BY <1>1 DEF Starts
    <3> QED
      BY <1>3, <2>1, <3>1
  <2>2. CASE k \in 1..n
    <3>1. k # 1 => k - 1 \in 1..n
      BY <1>1, <2>2
    <3> QED
      BY <1>2, <2>2, <3>1 DEF Starts
  <2> QED
    BY <1>1, <2>1, <2>2
<1> DEFINE Good(k) == Starts(text, k) =>
                         \/ text[k] \in Dashed
                         \/ text[k] \in Wrappers \cup Digits /\ (k = Len(text) \/ Starts(text, k + 1))
           GoodRest(k) == Starts(line, k) =>
                             \/ line[k] \in Dashed
                             \/ line[k] \in Wrappers \cup Digits /\ (k = N \/ Starts(line, k + 1))
<1>5. \A k \in 1..n : Good(k)
  <2> SUFFICES ASSUME NEW k \in 1..n
               PROVE  Good(k)
    OBVIOUS
  <2>1. k + 1 \in 1..(n + 1)
    BY <1>1
  <2> QED
    BY <1>2, <1>4, <2>1 DEF Peeled
<1>6. \A k \in 1..N : Good(n + k) <=> GoodRest(k)
  <2> SUFFICES ASSUME NEW k \in 1..N
               PROVE  Good(n + k) <=> GoodRest(k)
    OBVIOUS
  <2>1. Starts(text, n + k) <=> Starts(line, k)
    BY <1>3
  <2>2. text[n + k] = line[k] /\ (n + k = Len(text) <=> k = N)
    BY <1>1
  <2>3. k # N => (Starts(text, (n + k) + 1) <=> Starts(line, k + 1))
    <3>1. k # N => k + 1 \in 1..N /\ n + (k + 1) = (n + k) + 1
      BY <1>1
    <3> QED
      BY <1>3, <3>1
  <2> QED
    BY <2>1, <2>2, <2>3
<1>7. (n + j = Len(text) \/ Starts(text, (n + j) + 1)) <=> (j = N \/ Starts(line, j + 1))
  <2>1. j \in Nat /\ j <= N
    BY DEF N
  <2>2. n + j = Len(text) <=> j = N
    BY <1>1, <2>1
  <2>3. j # N => j + 1 \in 1..N /\ n + (j + 1) = (n + j) + 1
    BY <1>1, <2>1
  <2> QED
    BY <1>3, <2>2, <2>3
<1>8. (\A k \in 1..(n + j) : Good(k)) <=> (\A k \in 1..j : GoodRest(k))
  <2>1. j \in Nat /\ j <= N
    BY DEF N
  <2>2. \A k \in 1..j : k \in 1..N /\ n + k \in 1..(n + j)
    BY <1>1, <2>1
  <2>3. \A k \in 1..(n + j) : k \in 1..n \/ (k - n \in 1..j /\ n + (k - n) = k)
    BY <1>1, <2>1
  <2> HIDE DEF Good, GoodRest
  <2>4. ASSUME \A k \in 1..(n + j) : Good(k)
        PROVE  \A k \in 1..j : GoodRest(k)
    BY <1>6, <2>2, <2>4
  <2>5. ASSUME \A k \in 1..j : GoodRest(k), NEW k \in 1..(n + j)
        PROVE  Good(k)
    <3>1. CASE k \in 1..n
      BY <1>5, <3>1
    <3>2. CASE k - n \in 1..j /\ n + (k - n) = k
      <4>1. GoodRest(k - n) /\ k - n \in 1..N
        BY <2>2, <2>5, <3>2
      <4>2. Good(n + (k - n))
        BY <1>6, <4>1
      <4> QED
        BY <3>2, <4>2
    <3> QED
      BY <2>3, <3>1, <3>2
  <2> QED
    BY <2>4, <2>5
<1>9. n + j \in 0..Len(text) /\ j \in 0..N
  BY <1>1 DEF N
<1>10. Leads(text, n + j, Wrappers \cup Digits, Dashed) <=> Leads(line, j, Wrappers \cup Digits, Dashed)
  BY <1>7, <1>8, <1>9 DEF Leads, N
<1> QED
  BY <1>4, <1>10 DEF n, text

(* Wrappers, flags and numbers put in front of a line are peeled away.     *)
LEMMA PeelsFront ==
    ASSUME NEW S, NEW raw \in Seq(S), ToSet(Joined(raw)) \cap Expanding = {},
           Lead(Joined(raw), Wrappers \cup Digits, Dashed) < Len(Joined(raw)),
           Joined(raw)[1] \notin Dashed \cup Digits \cup GluedBefore,
           NEW front \in Seq(Peeled \ Expanding), front # <<>>, front[1] \in Wrappers
    PROVE  front \o raw # <<>> /\ StripWrappers(front \o raw) = StripWrappers(raw)
<1> DEFINE n == Len(front)
           line == Joined(raw)
           text == front \o line
           l == Lead(line, Wrappers \cup Digits, Dashed)
<1>1. line \in Seq(S)
  BY JoinedIs
<1>2. Joined(front \o raw) = text /\ front \o raw # <<>>
  <2> DEFINE Q == Peeled \cup S
  <2>1. front \in Seq(Q) /\ raw \in Seq(Q)
    OBVIOUS
  <2>2. ToSet(front) \cap Breaks = {}
    BY ShellAssumption DEF ShellAssumption, Peeled, ToSet
  <2> HIDE DEF Q
  <2>3. Joined(front \o raw) = front \o Joined(raw)
    BY <2>1, <2>2, JoinedFront
  <2>4. front \o raw # <<>>
    BY <2>1
  <2> QED
    BY <2>3, <2>4
<1> HIDE DEF line
<1>3. /\ ToSet(line) \cap Expanding = {} /\ l < Len(line)
      /\ line[1] \notin Dashed \cup Digits \cup GluedBefore
  BY DEF line
<1>4. /\ n \in Nat \ {0} /\ Len(line) \in Nat
      /\ text \in Seq(Peeled \cup S) /\ Len(text) = n + Len(line)
      /\ \A k \in 1..n : text[k] = front[k]
      /\ \A k \in 1..Len(line) : text[n + k] = line[k]
  <2>1. front \in Seq(Peeled \cup S) /\ line \in Seq(Peeled \cup S)
    BY <1>1
  <2> QED
    BY <2>1
<1>5. /\ l \in 0..Len(line) /\ Leads(line, l, Wrappers \cup Digits, Dashed)
      /\ \A j : Leads(line, j, Wrappers \cup Digits, Dashed) => j <= l
  BY <1>1, LeadIs
<1>6. line # <<>> /\ front \in Seq(Peeled)
  BY <1>1, <1>3, <1>5
<1> HIDE DEF l, text, n
<1>7. /\ \A j \in 0..Len(line) :
            Leads(text, n + j, Wrappers \cup Digits, Dashed) <=> Leads(line, j, Wrappers \cup Digits, Dashed)
      /\ \A k \in 1..(n + 1) : Starts(text, k)
  BY <1>1, <1>3, <1>5, <1>6, LeadsFront DEF n, text
<1>8. Lead(text, Wrappers \cup Digits, Dashed) = n + l
  <2> DEFINE m == Lead(text, Wrappers \cup Digits, Dashed)
  <2>1. /\ m \in 0..Len(text) /\ Leads(text, m, Wrappers \cup Digits, Dashed)
        /\ \A j : Leads(text, j, Wrappers \cup Digits, Dashed) => j <= m
    BY <1>4, LeadIs
  <2> HIDE DEF m
  <2>2. n + l <= m
    BY <1>5, <1>7, <2>1
  <2>3. m <= n + l
    <3>1. m - n \in 0..Len(line) /\ n + (m - n) = m
      BY <1>4, <1>5, <2>1, <2>2
    <3>2. Leads(line, m - n, Wrappers \cup Digits, Dashed)
      BY <1>7, <2>1, <3>1
    <3>3. m - n <= l
      BY <1>5, <3>2
    <3> QED
      BY <1>4, <1>5, <2>1, <3>3
  <2>4. m = n + l
    BY <1>4, <1>5, <2>1, <2>2, <2>3
  <2> QED
    BY <2>4 DEF m
<1>9. Lead(text, Wrappers, {}) # 0
  <2>1. Starts(text, 1 + 1) /\ 1 \in 0..Len(text) /\ text[1] \in Wrappers
    <3>1. 1 \in 1..n /\ 1 + 1 \in 1..(n + 1) /\ 1 \in 0..Len(text)
      BY <1>4
    <3> QED
      BY <1>4, <1>7, <3>1
  <2>2. Leads(text, 1, Wrappers, {})
    BY <2>1 DEF Leads
  <2>3. 1 <= Lead(text, Wrappers, {})
    BY <1>4, <2>2, LeadIs
  <2> QED
    BY <2>3
<1>10. Drop(line, l) \in Seq(S) /\ Drop(line, l) # <<>> /\ Len(Drop(line, l)) = Len(line) - l
  <2>1. Drop(line, l) \in Seq(S) /\ Len(Drop(line, l)) = Len(line) - l
    BY <1>1, <1>5, DropIs
  <2>2. Len(Drop(line, l)) # 0
    BY <1>3, <1>4, <1>5, <2>1
  <2> QED
    BY <2>1, <2>2
<1>11. Drop(text, n + l) = Drop(line, l)
  <2> DEFINE i == n + l
             Q == Peeled \cup S
             N == Len(line) - l
  <2>1. i \in 0..Len(text) /\ Len(text) - i = N
    BY <1>4, <1>5
  <2>2. text \in Seq(Q) /\ Drop(line, l) \in Seq(Q)
    BY <1>4, <1>10
  <2>3. \A k \in 1..N : Drop(line, l)[k] = line[l + k]
    BY <1>1, <1>5, DropIs
  <2>4. \A k \in 1..N : text[i + k] = line[l + k]
    <3> SUFFICES ASSUME NEW k \in 1..N
                 PROVE  text[i + k] = line[l + k]
      OBVIOUS
    <3>1. l + k \in 1..Len(line) /\ n + (l + k) = i + k
      BY <1>4, <1>5
    <3> QED
      BY <1>4, <3>1
  <2> HIDE DEF i, Q
  <2>5. /\ Drop(text, i) \in Seq(Q) /\ Len(Drop(text, i)) = Len(text) - i
        /\ \A k \in 1..(Len(text) - i) : Drop(text, i)[k] = text[i + k]
    BY <2>1, <2>2, DropIs
  <2>6. Len(Drop(text, i)) = N /\ Len(Drop(line, l)) = N
    BY <1>10, <2>1, <2>5
  <2>7. \A k \in 1..N : Drop(text, i)[k] = Drop(line, l)[k]
    BY <2>1, <2>3, <2>4, <2>5
  <2> HIDE DEF N
  <2>8. Drop(text, i) = Drop(line, l)
    BY <2>2, <2>5, <2>6, <2>7, SeqEqual
  <2> QED
    BY <2>8 DEF i
<1>12. ToSet(text) \cap Expanding = {}
  <2> SUFFICES ASSUME NEW k \in 1..Len(text)
               PROVE  text[k] \notin Expanding
    BY <1>4 DEF ToSet
  <2>1. CASE k \in 1..n
    BY <1>4, <2>1 DEF n
  <2>2. CASE k \notin 1..n
    <3>1. k - n \in 1..Len(line) /\ n + (k - n) = k
      BY <1>4, <2>2
    <3>2. line[k - n] \in ToSet(line) /\ text[k] = line[k - n]
      BY <1>1, <1>4, <3>1 DEF ToSet
    <3> QED
      BY <1>3, <3>2
  <2> QED
    BY <2>1, <2>2
<1>13. StripWrappers(front \o raw) = Drop(line, l)
  BY <1>2, <1>8, <1>9, <1>10, <1>11, <1>12 DEF StripWrappers
<1>14. StripWrappers(raw) = Drop(line, l)
  <2>1. CASE Lead(line, Wrappers, {}) # 0
    BY <1>3, <1>10, <2>1 DEF StripWrappers, line, l
  <2>2. CASE Lead(line, Wrappers, {}) = 0
    <3>1. l = 0
      <4> SUFFICES ASSUME l # 0
                   PROVE  FALSE
        OBVIOUS
      <4>1. 1 \in 1..l /\ Starts(line, 1)
        BY <1>5 DEF Starts
      <4>2. line[1] \in Wrappers /\ (1 = Len(line) \/ Starts(line, 1 + 1))
        BY <1>3, <1>5, <4>1 DEF Leads
      <4>3. Leads(line, 1, Wrappers, {})
        BY <1>5, <4>1, <4>2 DEF Leads
      <4>4. 1 <= Lead(line, Wrappers, {})
        BY <1>1, <4>3, LeadIs
      <4> QED
        BY <2>2, <4>4
    <3>2. StripWrappers(raw) = line
      BY <2>2 DEF StripWrappers, line
    <3> QED
      BY <1>1, <3>1, <3>2, DropNone
  <2> QED
    BY <2>1, <2>2
<1> QED
  BY <1>2, <1>13, <1>14

-----------------------------------------------------------------------------
(* The command line of a call.                                             *)
LEMMA MinIs ==
    ASSUME NEW N \in Nat, NEW S \in SUBSET (0..N), S # {}
    PROVE  Min(S) \in S /\ \A x \in S : Min(S) <= x
<1>1. \E x \in S : \A y \in S : x <= y
  BY SmallestExists
<1> QED
  BY <1>1 DEF Min

IsCall(args) ==
    /\ args \in Seq(ToSet(args))
    /\ \A p \in DOMAIN args :
          args[p].type = "text" \/ args[p].key = "argv"
             => args[p].words \in Seq(ToSet(args[p].words))

LEMMA CommandIs ==
    ASSUME NEW args, IsCall(args)
    PROVE  ExtractCommand(args) \in Seq(ToSet(ExtractCommand(args)))
<1> DEFINE N == Len(args)
           argv == {p \in DOMAIN args : args[p].key = "argv" /\ args[p].type = "list"}
           names == Named(args, CommandKeys)
           texts == Texts(args)
           Worded(p) == p \in DOMAIN args /\ (args[p].type = "text" \/ args[p].key = "argv")
<1>1. N \in Nat /\ DOMAIN args = 1..N
  BY DEF IsCall
<1>2. names # {} => Min(names) \in names
  <2>1. DOMAIN CommandKeys \subseteq 0..6
    BY DEF CommandKeys
  <2>2. names \in SUBSET (0..6) /\ 6 \in Nat
    BY <2>1 DEF Named
  <2> HIDE DEF names
  <2> QED
    BY <2>2, MinIs
<1>3. texts \in SUBSET (0..N) /\ argv \in SUBSET (0..N)
  BY <1>1 DEF Texts
<1>4. texts # {} => Min(texts) \in texts
  <2> HIDE DEF texts, N
  <2> QED
    BY <1>1, <1>3, MinIs
<1>5. argv # {} => Min(argv) \in argv
  <2> HIDE DEF argv, N
  <2> QED
    BY <1>1, <1>3, MinIs
<1>6. CASE names # {}
  <2> DEFINE key == CommandKeys[Min(names)]
             p == CHOOSE q \in texts : args[q].key = key
  <2>1. \E q \in texts : args[q].key = key
    BY <1>2, <1>6, Zenon DEF Named
  <2>2. p \in texts
    BY <2>1, Zenon
  <2>3. ExtractCommand(args) = args[p].words
    BY <1>6, Zenon DEF ExtractCommand, ValueOf
  <2> HIDE DEF p
  <2>4. args[p].words \in Seq(ToSet(args[p].words))
    BY <2>2 DEF Texts, IsCall
  <2> QED
    BY <2>3, <2>4, Zenon
<1>7. CASE names = {} /\ \E p \in argv : args[p].words # <<>>
  <2> DEFINE p == Min(argv)
  <2>1. ExtractCommand(args) = args[p].words
    BY <1>7, Zenon DEF ExtractCommand
  <2>2. p \in argv
    BY <1>5, <1>7
  <2> HIDE DEF p
  <2>3. args[p].words \in Seq(ToSet(args[p].words))
    BY <2>2 DEF IsCall
  <2> QED
    BY <2>1, <2>3, Zenon
<1>8. CASE names = {} /\ ~(\E p \in argv : args[p].words # <<>>) /\ texts # {}
  <2> DEFINE p == Min(texts)
  <2>1. ExtractCommand(args) = args[p].words
    BY <1>8, Zenon DEF ExtractCommand
  <2>2. p \in texts
    BY <1>4, <1>8
  <2> HIDE DEF p
  <2>3. args[p].words \in Seq(ToSet(args[p].words))
    BY <2>2 DEF Texts, IsCall
  <2> QED
    BY <2>1, <2>3, Zenon
<1>9. CASE names = {} /\ ~(\E p \in argv : args[p].words # <<>>) /\ texts = {}
  <2>1. ExtractCommand(args) = <<>>
    BY <1>9, Zenon DEF ExtractCommand
  <2>2. <<>> \in Seq(ToSet(<<>>))
    OBVIOUS
  <2> QED
    BY <2>1, <2>2, Zenon
<1> QED
  BY <1>6, <1>7, <1>8, <1>9

(* A call with nothing but a command is one of that command.               *)
LEMMA CommandOnly ==
    ASSUME NEW words
    PROVE  ExtractCommand(<<Argument("command", "text", words)>>) = words
<1> DEFINE args == <<Argument("command", "text", words)>>
           names == Named(args, CommandKeys)
<1>1. /\ DOMAIN args = {1} /\ args[1].key = "command"
      /\ args[1].type = "text" /\ args[1].words = words
  BY DEF Argument
<1>2. DOMAIN CommandKeys \subseteq 0..6 /\ 1 \in DOMAIN CommandKeys /\ CommandKeys[1] = "command"
      /\ 0 \notin DOMAIN CommandKeys
  BY DEF CommandKeys
<1> HIDE DEF args
<1>3. Texts(args) = {1}
  BY <1>1 DEF Texts
<1>4. names \in SUBSET (0..6) /\ 1 \in names /\ 0 \notin names
  BY <1>1, <1>2, <1>3 DEF Named
<1>5. Min(names) = 1
  <2> HIDE DEF names
  <2>1. Min(names) \in names /\ Min(names) <= 1
    BY <1>4, MinIs
  <2>2. Min(names) \in 0..6 /\ Min(names) # 0
    BY <1>4, <2>1
  <2> QED
    BY <2>1, <2>2
<1>6. ExtractCommand(args) = ValueOf(args, "command")
  BY <1>2, <1>4, <1>5 DEF ExtractCommand
<1>7. (CHOOSE p \in Texts(args) : args[p].key = "command") = 1
  BY <1>1, <1>3
<1> QED
  BY <1>1, <1>6, <1>7 DEF ValueOf, args

-----------------------------------------------------------------------------
(* The engine of redcell serve compares contents by Matcher.               *)
MatcherInUse ==
    \A name, rule, args : ContentMatches(name, rule, args) = Matcher(name, rule, args)

(* A call under way is one a model can make, and it runs only if the       *)
(* policy of the settings allows it.                                       *)
CallInv ==
    /\ settings \in Settings
    /\ outcome # NoCall =>
          /\ outcome.name \in Names /\ outcome.args \in CallsOf(outcome.name)
          /\ Ran => Evaluate(settings.policy, outcome.name, outcome.args).allowed

LEMMA CallInit == Init => CallInv
  BY DEF Init, CallInv

LEMMA CallStep == CallInv /\ [Next]_vars => CallInv'
<1> SUFFICES ASSUME CallInv, [Next]_vars
             PROVE  CallInv'
  OBVIOUS
<1>1. CASE Discover \/ BuildAgent \/ EndRequest
  <2>1. UNCHANGED <<settings, outcome>>
    BY <1>1 DEF Discover, BuildAgent, EndRequest
  <2> QED
    BY <2>1 DEF CallInv, Ran
<1>2. CASE CallOver
  BY <1>2 DEF CallOver, CallInv
<1>3. ASSUME NEW name \in Names, NEW args \in CallsOf(name), CallTool(name, args)
      PROVE  CallInv'
  <2> DEFINE decision == Evaluate(settings.policy, name, args)
  <2>1. /\ settings' = settings /\ settings' \in Settings
        /\ outcome'.name = name /\ outcome'.args = args
        /\ ~decision.allowed => outcome'.to = "blocked"
    BY <1>3 DEF CallTool, CallInv
  <2>2. Ran' => decision.allowed
    BY <2>1 DEF Ran
  <2> HIDE DEF decision
  <2> QED
    BY <2>1, <2>2 DEF CallInv, decision
<1>4. CASE UNCHANGED vars
  BY <1>4 DEF vars, CallInv, Ran
<1> QED
  BY <1>1, <1>2, <1>3, <1>4 DEF Next

LEMMA CallsAre ==
    ASSUME CallInv, outcome # NoCall
    PROVE  /\ IsCall(outcome.args)
           /\ Policy \in [enabled : BOOLEAN, rules : {Policy.rules},
                          default : Behaviors, ask : {"allow", "deny"}]
           /\ \A rule \in Policy.rules :
                 /\ rule \in [behavior : Behaviors, tool : {rule.tool}, content : {rule.content}]
                 /\ rule.content = NoContent \/ IsShellContent(rule.content)
<1>1. /\ settings \in Settings /\ outcome.name \in Names
      /\ outcome.args \in CallsOf(outcome.name)
  BY DEF CallInv
<1>2. IsCall(outcome.args)
  BY <1>1, PolicyAssumption, Zenon DEF PolicyAssumption, IsCall
<1> QED
  BY <1>1, <1>2, PolicyAssumption, Zenon DEF PolicyAssumption, Policy

(* An allow rule that matches a call matches it as a deny rule too.        *)
LEMMA TwinMatches ==
    ASSUME MatcherInUse, NEW name, NEW args, IsCall(args), NEW rule, NEW twin,
           rule.behavior = "allow", twin.behavior = "deny",
           twin.tool = rule.tool, twin.content = rule.content,
           rule.content = NoContent \/ IsShellContent(rule.content),
           rule.content.words # <<>> =>
              rule.content.words[1] \notin Assignments \cup Starred,
           Matches(rule, name, args)
    PROVE  Matches(twin, name, args)
<1>1. CASE rule.content = NoContent
  BY <1>1 DEF Matches
<1>2. CASE rule.content # NoContent
  <2>1. Covers(twin.tool, name) /\ Matcher(name, rule, args)
    BY <1>2 DEF Matches, MatcherInUse
  <2>2. CASE IsShellTool(name)
    <3> DEFINE command == ExtractCommand(args)
    <3>1. command # <<>> /\ CommandRuleMatches("allow", rule.content, command)
      BY <2>1, <2>2, Zenon DEF Matcher
    <3>2. command \in Seq(ToSet(command))
      BY CommandIs
    <3> HIDE DEF command
    <3>3. CommandRuleMatches("deny", twin.content, command)
      BY <1>2, <3>1, <3>2, DenySeesIt
    <3>4. Matcher(name, twin, args)
      BY <2>2, <3>1, <3>3, Zenon DEF Matcher, command
    <3> QED
      BY <2>1, <3>4 DEF Matches, MatcherInUse
  <2>3. CASE ~IsShellTool(name)
    <3>1. Matcher(name, twin, args)
      BY <2>1, <2>3, Zenon DEF Matcher
    <3> QED
      BY <2>1, <3>1 DEF Matches, MatcherInUse
  <2> QED
    BY <2>2, <2>3
<1> QED
  BY <1>1, <1>2

(* Turned into a deny rule, an allow rule refuses all that it allowed,     *)
(* whatever is stripped from the two (PolicyEngine, command_rule_matches). *)
THEOREM RevokedIsRefusedAlways ==
    ASSUME MatcherInUse
    PROVE  Spec => []RevokedIsRefused
<1>1. ASSUME CallInv
      PROVE  RevokedIsRefused
  <2> SUFFICES ASSUME outcome # NoCall, NEW rule \in Policy.rules,
                      rule.behavior = "allow", Matches(rule, outcome.name, outcome.args),
                      rule.content.words # <<>> =>
                         rule.content.words[1] \notin Assignments \cup Starred
               PROVE  ~Permitted([Policy EXCEPT !.enabled = TRUE,
                                                !.rules = @ \cup {[rule EXCEPT !.behavior = "deny"]}],
                                 outcome.args)
    BY Zenon DEF RevokedIsRefused
  <2> DEFINE twin == [rule EXCEPT !.behavior = "deny"]
             stricter == [Policy EXCEPT !.enabled = TRUE, !.rules = @ \cup {twin}]
  <2>1. /\ twin.behavior = "deny" /\ twin.tool = rule.tool /\ twin.content = rule.content
        /\ IsCall(outcome.args)
        /\ rule.content = NoContent \/ IsShellContent(rule.content)
    BY <1>1, CallsAre
  <2>2. twin \in stricter.rules /\ stricter.enabled
    BY <1>1, CallsAre
  <2> HIDE DEF twin, stricter
  <2>3. Matches(twin, outcome.name, outcome.args)
    BY <2>1, TwinMatches
  <2>4. Evaluate(stricter, outcome.name, outcome.args).allowed = FALSE
    BY <2>1, <2>2, <2>3, DenyWins
  <2> QED
    BY <2>4 DEF Permitted, stricter, twin
<1> QED
  BY CallInit, CallStep, <1>1, PTL DEF Spec

(* With a deny default, a call runs only if some rule vouches for it.      *)
LEMMA RunsByRule ==
    ASSUME CallInv, Ran, Policy.enabled, Policy.default = "deny"
    PROVE  /\ outcome # NoCall
           /\ \A rule \in Policy.rules :
                 rule.behavior = "deny" => ~Matches(rule, outcome.name, outcome.args)
           /\ \E rule \in Policy.rules :
                 /\ rule.behavior \in {"allow", "ask"}
                 /\ Matches(rule, outcome.name, outcome.args)
<1>1. outcome # NoCall
  BY DEF Ran, NoCall
<1>2. Evaluate(Policy, outcome.name, outcome.args).allowed
  BY <1>1 DEF CallInv, Policy
<1>3. Behavior(Policy, outcome.name, outcome.args) \in {"allow", "ask"}
  BY <1>2 DEF Evaluate
<1>4. /\ ~Matched(Policy, "deny", outcome.name, outcome.args)
      /\ \/ Matched(Policy, "ask", outcome.name, outcome.args)
         \/ Matched(Policy, "allow", outcome.name, outcome.args)
  BY <1>3 DEF Behavior
<1> QED
  BY <1>1, <1>4 DEF Matched

(* The compound lines an allow rule lets through are those that the        *)
(* property names: of a line with no substitution and no line break, and   *)
(* with no operator among what may be stripped, all but wrappers, flags    *)
(* and assignments is one command (command_rule_matches).                  *)
THEOREM AllowsOneCommand ==
    ASSUME MatcherInUse
    PROVE  Spec => []AllowCoversOneCommand
<1>1. ASSUME CallInv
      PROVE  AllowCoversOneCommand
  <2> DEFINE name == outcome.name
             args == outcome.args
             line == ExtractCommand(args)
             rest == StripEnvAssignments(StripWrappers(line), TRUE)
  <2> SUFFICES ASSUME RunsByContent, IsShellTool(name),
                      ToSet(line) \cap (Substituting \cup Breaks) = {},
                      ToSet(Strippable(line)) \cap Operators = {}
               PROVE  Cardinality({s \in SubCommands(line) : Substantial(line, s)}) <= 1
    BY Zenon DEF AllowCoversOneCommand
  <2>1. /\ Ran /\ Policy.enabled /\ Policy.default = "deny"
        /\ \A rule \in Policy.rules :
              rule.behavior # "deny" /\ Covers(rule.tool, name) =>
                 /\ rule.behavior = "allow"
                 /\ rule.content.shape \in {"exact", "word", "prefix", "wild"}
    BY DEF RunsByContent
  <2>2. PICK rule \in Policy.rules :
            rule.behavior \in {"allow", "ask"} /\ Matches(rule, name, args)
    BY <1>1, <2>1, RunsByRule
  <2>3. /\ rule.behavior = "allow"
        /\ rule.content.shape \in {"exact", "word", "prefix", "wild"}
    BY <2>1, <2>2 DEF Matches
  <2>4. rule.content # NoContent
    BY <2>3 DEF NoContent
  <2>5. Matcher(name, rule, args)
    BY <2>2, <2>4 DEF Matches, MatcherInUse
  <2>6. CommandRuleMatches("allow", rule.content, line)
    BY <2>3, <2>5, Zenon DEF Matcher
  <2>7. Cardinality(SubCommands(rest)) = 1
    <3>1. rule.content.shape # "EXEC" /\ rule.content.shape # "RM"
      BY <2>3
    <3> QED
      BY <2>6, <3>1, Zenon DEF CommandRuleMatches
  <2>8. line \in Seq(ToSet(line))
    BY <1>1, <2>1, RunsByRule, CallsAre, CommandIs
  <2> HIDE DEF line
  <2>9. ToSet(line) \cap Breaks = {}
    OBVIOUS
  <2> QED
    BY <2>7, <2>8, <2>9, OneCommand
<1> QED
  BY CallInit, CallStep, <1>1, PTL DEF Spec

(* Two calls of a shell tool whose lines are the same to strip_wrappers    *)
(* are the same to the policy.                                             *)
LEMMA SameToPolicy ==
    ASSUME MatcherInUse, NEW policy, NEW name, IsShellTool(name), NEW args, NEW more,
           ExtractCommand(args) # <<>>, ExtractCommand(more) # <<>>,
           StripWrappers(ExtractCommand(args)) = StripWrappers(ExtractCommand(more))
    PROVE  Evaluate(policy, name, args).allowed = Evaluate(policy, name, more).allowed
<1>1. ASSUME NEW rule
      PROVE  Matches(rule, name, args) <=> Matches(rule, name, more)
  <2>1. CommandRuleMatches(rule.behavior, rule.content, ExtractCommand(args))
           = CommandRuleMatches(rule.behavior, rule.content, ExtractCommand(more))
    BY Zenon DEF CommandRuleMatches
  <2>2. Matcher(name, rule, args) <=> Matcher(name, rule, more)
    BY <2>1, Zenon DEF Matcher
  <2> QED
    BY <2>2, Zenon DEF Matches, MatcherInUse
<1>2. ASSUME NEW behavior
      PROVE  Matched(policy, behavior, name, args) <=> Matched(policy, behavior, name, more)
  BY <1>1, Zenon DEF Matched
<1>3. Behavior(policy, name, args) = Behavior(policy, name, more)
  BY <1>2, Zenon DEF Behavior
<1> QED
  BY <1>3, Zenon DEF Evaluate

(* Under timeout, nice, env, ... with a flag or a number a command fares   *)
(* as it does alone (strip_wrappers).                                      *)
THEOREM WrappersAreSeenThrough ==
    ASSUME MatcherInUse
    PROVE  Spec => []WrappersAreTransparent
<1>1. ASSUME CallInv
      PROVE  WrappersAreTransparent
  <2> DEFINE raw == ExtractCommand(outcome.args)
             line == Joined(raw)
             flags == {<<>>} \cup {<<f>> : f \in (Dashed \cup Digits) \ Expanding}
             Wrapped(front) == <<Argument("command", "text", front \o raw)>>
  <2> SUFFICES ASSUME outcome # NoCall, IsShellTool(outcome.name),
                      ToSet(line) \cap Expanding = {},
                      Lead(line, Wrappers \cup Digits, Dashed) < Len(line),
                      line[1] \notin Dashed \cup Digits \cup GluedBefore,
                      NEW wrapper \in Wrappers, NEW f \in flags
               PROVE  Permitted(Policy, Wrapped(<<wrapper>> \o f))
                         = Permitted(Policy, outcome.args)
    BY Zenon DEF WrappersAreTransparent
  <2> DEFINE front == <<wrapper>> \o f
             more == Wrapped(front)
  <2>1. /\ front \in Seq(Peeled \ Expanding) /\ front # <<>>
        /\ front[1] \in Wrappers
    <3>1. wrapper \in Peeled \ Expanding
      BY ShellAssumption DEF ShellAssumption, Peeled
    <3>2. f \in Seq(Peeled \ Expanding)
      <4>1. CASE f = <<>>
        BY <4>1
      <4>2. ASSUME NEW g \in (Dashed \cup Digits) \ Expanding, f = <<g>>
            PROVE  f \in Seq(Peeled \ Expanding)
        <5>1. g \in Peeled \ Expanding
          BY DEF Peeled
        <5> HIDE DEF flags
        <5> QED
          BY <4>2, <5>1
      <4> QED
        BY <4>1, <4>2
    <3> QED
      BY <3>1, <3>2
  <2>2. raw \in Seq(ToSet(raw))
    BY <1>1, CallsAre, CommandIs
  <2>3. ExtractCommand(more) = front \o raw
    BY CommandOnly
  <2> HIDE DEF raw, more, front
  <2>4. raw # <<>>
    <3> SUFFICES ASSUME raw = <<>>
                 PROVE  FALSE
      OBVIOUS
    <3>1. Joined(raw) = raw
      <4>1. ToSet(raw) \cap Breaks = {}
        BY DEF ToSet
      <4> QED
        BY <2>2, <4>1, JoinedSame
    <3>2. Len(line) = 0
      BY <3>1
    <3>3. Lead(line, Wrappers \cup Digits, Dashed) \in 0..Len(line)
      BY <2>2, <3>1, LeadIs
    <3> QED
      BY <3>2, <3>3
  <2>5. front \o raw # <<>> /\ StripWrappers(front \o raw) = StripWrappers(raw)
    BY <2>1, <2>2, PeelsFront
  <2>6. Evaluate(Policy, outcome.name, more).allowed
           = Evaluate(Policy, outcome.name, outcome.args).allowed
    <3>1. /\ ExtractCommand(outcome.args) # <<>> /\ ExtractCommand(more) # <<>>
          /\ StripWrappers(ExtractCommand(more)) = StripWrappers(ExtractCommand(outcome.args))
      BY <2>3, <2>4, <2>5 DEF raw
    <3> QED
      BY <3>1, SameToPolicy
  <2> QED
    BY <2>6 DEF Permitted, more, front
<1> QED
  BY CallInit, CallStep, <1>1, PTL DEF Spec

-----------------------------------------------------------------------------
(* Paths.  Walking a path step by step leads where folding its steps does. *)
Stepped(place, step) ==
    IF step = Up THEN Front(place)
    ELSE IF Append(place, step) \in DOMAIN Links THEN Links[Append(place, step)]
    ELSE Append(place, step)

LEMMA SteppedIs ==
    ASSUME NEW place \in Places, NEW word \in DOMAIN Spelled,
           NEW k \in DOMAIN Spelled[word].steps
    PROVE  LET step == Spelled[word].steps[k]
           IN  /\ Stepped(place, step) \in Places
               /\ place \o <<step>> = Append(place, step)
<1> DEFINE step == Spelled[word].steps[k]
<1>1. PICK A : Places = Seq(A)
  BY Zenon DEF Places
<1>2. Spelled[word].steps \in Seq(A) /\ \A p \in DOMAIN Links : Links[p] \in Seq(A)
  BY <1>1, PathAssumption, Zenon DEF PathAssumption
<1>3. step \in A /\ place \in Seq(A)
  BY <1>1, <1>2
<1> HIDE DEF step
<1>4. /\ Append(place, step) \in Seq(A) /\ Front(place) \in Seq(A)
      /\ place \o <<step>> = Append(place, step)
  BY <1>3 DEF Front
<1>5. Stepped(place, step) \in Seq(A)
  BY <1>2, <1>4, Zenon DEF Stepped
<1> QED
  BY <1>1, <1>4, <1>5 DEF step

LEMMA StartIs ==
    ASSUME NEW word \in DOMAIN Spelled
    PROVE  Start(word) \in Places
<1>1. /\ Spelled[word].start \in {"/", "~", "."}
      /\ Home \in Places /\ Here \in Places
  BY PathAssumption, Zenon DEF PathAssumption
<1>2. <<>> \in Places
  <2>1. PICK A : Places = Seq(A)
    BY Zenon DEF Places
  <2> QED
    BY <2>1
<1> QED
  BY <1>1, <1>2 DEF Start

IsWalk(walk, word) ==
    walk = [k \in 0..Len(Spelled[word].steps) |->
              IF k = 0 THEN Start(word)
              ELSE IF Spelled[word].steps[k] = Up
                   THEN SubSeq(walk[k - 1], 1, Len(walk[k - 1]) - 1)
                   ELSE LET child == walk[k - 1] \o <<Spelled[word].steps[k]>>
                        IN  IF child \in DOMAIN Links THEN Links[child] ELSE child]

LEMMA WalkIs ==
    ASSUME NEW word \in DOMAIN Spelled
    PROVE  LET N == Len(Spelled[word].steps)
           IN  \E walk \in [0..N -> Places] :
                  /\ walk[0] = Start(word)
                  /\ \A k \in 1..N : walk[k] = Stepped(walk[k - 1], Spelled[word].steps[k])
                  /\ Opened(word) = walk[N]
<1> DEFINE steps == Spelled[word].steps
           N == Len(steps)
           Child(w, k) == w[k - 1] \o <<steps[k]>>
           Walked(w, k) == IF steps[k] = Up THEN SubSeq(w[k - 1], 1, Len(w[k - 1]) - 1)
                           ELSE IF Child(w, k) \in DOMAIN Links THEN Links[Child(w, k)]
                           ELSE Child(w, k)
           go == [k \in 1..N |-> [p \in Places |-> Stepped(p, steps[k])]]
           W == CHOOSE w : IsWalk(w, word)
<1>1. N \in Nat /\ DOMAIN steps = 1..N
  <2>1. PICK A : Places = Seq(A)
    BY Zenon DEF Places
  <2>2. steps \in Seq(A)
    BY <2>1, PathAssumption, Zenon DEF PathAssumption
  <2> HIDE DEF steps
  <2> QED
    BY <2>2
<1>2. ASSUME NEW w, NEW k \in 1..N, w[k - 1] \in Places
      PROVE  Walked(w, k) = Stepped(w[k - 1], steps[k]) /\ Stepped(w[k - 1], steps[k]) \in Places
  <2>1. /\ Stepped(w[k - 1], steps[k]) \in Places
        /\ Child(w, k) = Append(w[k - 1], steps[k])
    BY <1>1, <1>2, SteppedIs
  <2> HIDE DEF Child
  <2> QED
    BY <2>1 DEF Stepped, Front
<1>3. PICK f \in [0..N -> Places] : Recurses(f, N, Start(word), go)
  <2>1. go \in [1..N -> [Places -> Places]]
    BY <1>1, SteppedIs
  <2>2. Start(word) \in Places
    BY StartIs
  <2> HIDE DEF go, N
  <2> QED
    BY <1>1, <2>1, <2>2, PrimitiveRecursion
<1>4. IsWalk(f, word)
  <2>1. \A k \in 1..N : f[k - 1] \in Places /\ go[k][f[k - 1]] = Stepped(f[k - 1], steps[k])
    BY <1>1, <1>3
  <2>2. \A k \in 1..N : go[k][f[k - 1]] = Walked(f, k)
    BY <1>2, <2>1
  <2>3. f = [k \in 0..N |-> IF k = 0 THEN Start(word) ELSE Walked(f, k)]
    <3>1. f = [k \in 0..N |-> IF k = 0 THEN Start(word) ELSE go[k][f[k - 1]]]
      BY <1>3 DEF Recurses
    <3> HIDE DEF go, Walked
    <3> QED
      BY <2>2, <3>1, <1>1
  <2> QED
    BY <2>3, Zenon DEF IsWalk
<1>5. IsWalk(W, word)
  BY <1>4, Zenon
<1> HIDE DEF W
<1>6. /\ DOMAIN W = 0..N /\ W = [k \in DOMAIN W |-> W[k]]
      /\ W[0] = Start(word)
      /\ \A k \in 1..N : W[k] = Walked(W, k)
  <2>1. W = [k \in 0..N |-> IF k = 0 THEN Start(word) ELSE Walked(W, k)]
    BY <1>5, Zenon DEF IsWalk
  <2> HIDE DEF Walked
  <2> QED
    BY <1>1, <2>1
<1> DEFINE T == {k \in 0..N : W[k] \in Places}
<1>7. 0..N \subseteq T
  <2>1. 0 \in T
    BY <1>1, <1>6, StartIs
  <2>2. ASSUME NEW k \in 1..N, k - 1 \in T
        PROVE  k \in T
    BY <1>2, <1>6, <2>2
  <2> HIDE DEF T, N
  <2> QED
    BY <1>1, <2>1, <2>2, IntervalInduction
<1>8. W \in [0..N -> Places]
  BY <1>6, <1>7
<1>9. \A k \in 1..N : W[k] = Stepped(W[k - 1], steps[k])
  <2> SUFFICES ASSUME NEW k \in 1..N
               PROVE  W[k] = Stepped(W[k - 1], steps[k])
    OBVIOUS
  <2>1. W[k - 1] \in Places
    BY <1>1, <1>7
  <2> HIDE DEF Walked
  <2> QED
    BY <1>2, <1>6, <2>1
<1>10. Opened(word) = W[N]
  BY Zenon DEF Opened, IsWalk, W
<1> QED
  BY <1>6, <1>8, <1>9, <1>10, Zenon

(* The fold that FoldLeft is takes the last of the steps that are left.    *)
IsFold(g, word) ==
    g = [T \in SUBSET (DOMAIN Spelled[word].steps) |->
           IF T = {} THEN Start(word)
           ELSE Stepped(g[T \ {Max(T)}], Spelled[word].steps[Max(T)])]

LEMMA MaxOfSteps ==
    ASSUME NEW N \in Nat, NEW T \in SUBSET (1..N), T # {}
    PROVE  Max(T) \in T /\ \A x \in T : x <= Max(T)
<1>1. T \in SUBSET (0..N)
  OBVIOUS
<1>2. \E x \in T : \A y \in T : x >= y
  BY <1>1, LargestExists
<1> QED
  BY <1>2 DEF Max

LEMMA FoldIs ==
    ASSUME NEW word \in DOMAIN Spelled
    PROVE  \E g : IsFold(g, word) /\ NormalizePath(word) = g[DOMAIN Spelled[word].steps]
<1> DEFINE steps == Spelled[word].steps
           N == Len(steps)
           D == DOMAIN steps
           pick == [T \in SUBSET D |-> Max(T)]
           go == [T \in SUBSET D |->
                    [p \in Places |-> IF T = {} THEN p ELSE Stepped(p, steps[Max(T)])]]
<1>1. N \in Nat /\ D = 1..N
  <2>1. PICK A : Places = Seq(A)
    BY Zenon DEF Places
  <2>2. steps \in Seq(A)
    BY <2>1, PathAssumption, Zenon DEF PathAssumption
  <2> HIDE DEF steps
  <2> QED
    BY <2>2
<1>2. \A T \in SUBSET D : T # {} => Max(T) \in T
  <2> HIDE DEF N, D
  <2> QED
    BY <1>1, MaxOfSteps
<1>3. go \in [SUBSET D -> [Places -> Places]]
  <2>1. \A T \in SUBSET D, p \in Places :
           (IF T = {} THEN p ELSE Stepped(p, steps[Max(T)])) \in Places
    BY <1>2, SteppedIs
  <2> QED
    BY <2>1
<1>4. PICK g \in [SUBSET D -> Places] : FoldsBy(g, D, Start(word), pick, go)
  <2>1. IsFiniteSet(D) /\ Start(word) \in Places
    BY <1>1, FS_Interval, StartIs
  <2>2. \A T \in SUBSET D : T # {} => pick[T] \in T
    BY <1>2
  <2> HIDE DEF pick, go, D
  <2> QED
    BY <1>3, <2>1, <2>2, FoldRecursion
<1>5. IsFold(g, word)
  <2> DEFINE Value(T) == IF T = {} THEN Start(word) ELSE Stepped(g[T \ {Max(T)}], steps[Max(T)])
  <2>1. \A T \in SUBSET D :
           (IF T = {} THEN Start(word) ELSE go[T][g[T \ {pick[T]}]]) = Value(T)
    <3> SUFFICES ASSUME NEW T \in SUBSET D, T # {}
                 PROVE  go[T][g[T \ {pick[T]}]] = Stepped(g[T \ {Max(T)}], steps[Max(T)])
      OBVIOUS
    <3>1. g[T \ {Max(T)}] \in Places /\ pick[T] = Max(T)
      BY <1>4
    <3> QED
      BY <3>1
  <2>2. g = [T \in SUBSET D |-> Value(T)]
    <3>1. g = [T \in SUBSET D |->
                 IF T = {} THEN Start(word) ELSE go[T][g[T \ {pick[T]}]]]
      BY <1>4, Zenon DEF FoldsBy
    <3> HIDE DEF Value, go, pick, D
    <3> QED
      BY <2>1, <3>1
  <2> QED
    BY <2>2, Zenon DEF IsFold
<1> DEFINE G == CHOOSE f : IsFold(f, word)
<1>6. IsFold(G, word)
  BY <1>5, Zenon
<1>7. NormalizePath(word) = G[D]
  BY Zenon DEF NormalizePath, FoldLeft, MapThenFoldSet, IsFold, Stepped
<1> HIDE DEF G
<1> QED
  BY <1>6, <1>7, Zenon

LEMMA SamePlace ==
    ASSUME NEW word \in DOMAIN Spelled
    PROVE  Opened(word) = NormalizePath(word) /\ Opened(word) \in Places
<1> DEFINE steps == Spelled[word].steps
           N == Len(steps)
<1>1. N \in Nat /\ DOMAIN steps = 1..N
  <2>1. PICK A : Places = Seq(A)
    BY Zenon DEF Places
  <2>2. steps \in Seq(A)
    BY <2>1, PathAssumption, Zenon DEF PathAssumption
  <2> HIDE DEF steps
  <2> QED
    BY <2>2
<1>2. PICK walk \in [0..N -> Places] :
          /\ walk[0] = Start(word)
          /\ \A k \in 1..N : walk[k] = Stepped(walk[k - 1], steps[k])
          /\ Opened(word) = walk[N]
  BY WalkIs, Zenon
<1>3. PICK g : IsFold(g, word) /\ NormalizePath(word) = g[DOMAIN steps]
  BY FoldIs, Zenon
<1>4. \A T \in SUBSET (1..N) :
         g[T] = IF T = {} THEN Start(word) ELSE Stepped(g[T \ {Max(T)}], steps[Max(T)])
  <2> DEFINE Value(T) == IF T = {} THEN Start(word) ELSE Stepped(g[T \ {Max(T)}], steps[Max(T)])
  <2>1. g = [T \in SUBSET (1..N) |-> Value(T)]
    BY <1>1, <1>3, Zenon DEF IsFold
  <2> HIDE DEF Value, N
  <2>2. \A T \in SUBSET (1..N) : g[T] = Value(T)
    BY <2>1
  <2> QED
    BY <2>2 DEF Value, N
<1> HIDE DEF steps, N
<1> DEFINE S == {k \in 0..N : g[1..k] = walk[k]}
<1>5. 0..N \subseteq S
  <2>1. 0 \in S
    <3>1. 1..0 = {} /\ 1..0 \in SUBSET (1..N)
      OBVIOUS
    <3>2. g[1..0] = Start(word)
      BY <1>4, <3>1, Zenon
    <3> QED
      BY <1>1, <1>2, <3>2
  <2>2. ASSUME NEW k \in 1..N, k - 1 \in S
        PROVE  k \in S
    <3> DEFINE T == 1..k
    <3>1. T \in SUBSET (1..N) /\ T # {} /\ k \in T /\ \A x \in T : x <= k
      <4>1. N \in Nat /\ k \in Nat /\ 1 <= k /\ k <= N
        BY <1>1
      <4> QED
        BY <4>1
    <3>2. T \ {k} = 1..(k - 1)
      OBVIOUS
    <3>3. Max(T) = k
      <4>1. Max(T) \in T /\ \A x \in T : x <= Max(T)
        BY <1>1, <3>1, MaxOfSteps
      <4>2. Max(T) <= k /\ k <= Max(T) /\ Max(T) \in Nat
        BY <3>1, <4>1
      <4> QED
        BY <4>2
    <3>4. g[T] = Stepped(g[1..(k - 1)], steps[k])
      <4> HIDE DEF T
      <4> QED
        BY <1>4, <3>1, <3>2, <3>3, Zenon
    <3>5. g[1..(k - 1)] = walk[k - 1]
      BY <2>2
    <3>6. g[T] = walk[k]
      BY <1>2, <3>4, <3>5
    <3> QED
      BY <3>6
  <2> HIDE DEF S
  <2> QED
    BY <1>1, <2>1, <2>2, IntervalInduction
<1>6. g[1..N] = walk[N] /\ walk[N] \in Places
  BY <1>1, <1>2, <1>5
<1> QED
  BY <1>1, <1>2, <1>3, <1>6 DEF steps

(* The one path of a call that extract_path picks lies, when a call of a   *)
(* file tool runs, under the directory of a rule that vouches for it and   *)
(* under that of no deny rule, by whatever ".." and links it is spelled;   *)
(* with expansion syntax in it, it runs under no deny rule at all, and of  *)
(* the allow rules nothing is said (path_rule_matches, within_root).       *)
THEOREM ExaminedPathConfined ==
    ASSUME MatcherInUse
    PROVE  Spec => []ExaminedPathIsConfined
<1>1. ASSUME CallInv
      PROVE  ExaminedPathIsConfined
  <2> DEFINE name == outcome.name
             args == outcome.args
             path == ExtractPath(args)
             Rules(behaviors) == {rule \in Policy.rules :
                 rule.behavior \in behaviors /\ Covers(rule.tool, name)}
             Root(rule) == rule.content.words[1]
             Inside(rule) == \/ rule.content = NoContent
                             \/ IsPrefix(Opened(Root(rule)), Opened(path))
  <2> SUFFICES ASSUME Ran, IsPathTool(name), Policy.enabled, Policy.default = "deny"
               PROVE  /\ path \in PathExpanding => Rules({"deny"}) = {}
                      /\ path \notin PathExpanding \cup {NoPath} =>
                            /\ \E rule \in Rules({"allow", "ask"}) : Inside(rule)
                            /\ \A rule \in Rules({"deny"}) :
                                  /\ rule.content # NoContent
                                  /\ Inside(rule) => Opened(Root(rule)) = <<>>
    BY Zenon DEF ExaminedPathIsConfined
  <2>1. outcome # NoCall
    BY <1>1, RunsByRule
  <2>2. /\ path \in DOMAIN Spelled \cup PathExpanding \cup {NoPath}
        /\ \A rule \in Policy.rules :
              Covers(rule.tool, name) /\ rule.content # NoContent => Root(rule) \in DOMAIN Spelled
    BY <1>1, <2>1, PolicyAssumption DEF CallInv, PolicyAssumption, Policy
  <2>3. ASSUME path \in PathExpanding, NEW rule \in Rules({"deny"})
        PROVE  FALSE
    <3>1. /\ rule \in Policy.rules /\ rule.behavior = "deny" /\ Covers(rule.tool, name)
          /\ ~Matches(rule, name, args)
      BY <1>1, RunsByRule
    <3>2. rule.content # NoContent /\ ~ContentMatches(name, rule, args)
      BY <3>1 DEF Matches
    <3>3. ContentMatches(name, rule, args) <=> PathRuleMatches(Root(rule), args)
      BY Zenon DEF MatcherInUse, Matcher, IsPathTool
    <3>4. PathRuleMatches(Root(rule), args)
      BY <2>3, PathAssumption DEF PathRuleMatches, PathAssumption
    <3> QED
      BY <3>2, <3>3, <3>4
  <2>4. CASE path \notin PathExpanding \cup {NoPath}
    <3>1. path \in DOMAIN Spelled /\ \A rule \in Policy.rules :
             Covers(rule.tool, name) /\ rule.content # NoContent => Root(rule) \in DOMAIN Spelled
      BY <2>2, <2>4
    <3>2. ASSUME NEW rule \in Policy.rules, Covers(rule.tool, name), rule.content # NoContent
          PROVE  /\ Matches(rule, name, args) <=> WithinRoot(path, Root(rule))
                 /\ Opened(path) = NormalizePath(path)
                 /\ Opened(Root(rule)) = NormalizePath(Root(rule))
                 /\ Opened(Root(rule)) \in Places
      <4>1. ContentMatches(name, rule, args) <=> PathRuleMatches(Root(rule), args)
        BY Zenon DEF MatcherInUse, Matcher, IsPathTool
      <4>2. PathRuleMatches(Root(rule), args) <=> WithinRoot(path, Root(rule))
        BY <2>4 DEF PathRuleMatches
      <4> QED
        BY <3>1, <3>2, <4>1, <4>2, SamePlace DEF Matches
    <3> HIDE DEF path, Root
    <3>3. \E rule \in Rules({"allow", "ask"}) : Inside(rule)
      <4>1. PICK rule \in Policy.rules :
                rule.behavior \in {"allow", "ask"} /\ Matches(rule, name, args)
        BY <1>1, RunsByRule
      <4>2. rule \in Rules({"allow", "ask"})
        BY <4>1 DEF Matches
      <4>3. CASE rule.content # NoContent
        <5>1. WithinRoot(path, Root(rule))
          BY <3>2, <4>1, <4>3 DEF Matches
        <5>2. PICK A : Places = Seq(A)
          BY Zenon DEF Places
        <5>3. IsPrefix(Opened(Root(rule)), Opened(path))
          <6> DEFINE base == Opened(Root(rule))
                     target == Opened(path)
          <6>1. target = base \/ IsPrefix(base, target)
            BY <3>2, <4>2, <4>3, <5>1 DEF WithinRoot, IsStrictPrefix
          <6>2. base \in Seq(A)
            BY <3>2, <4>2, <4>3, <5>2
          <6> HIDE DEF base, target
          <6>3. IsPrefix(base, target)
            BY <6>1, <6>2 DEF IsPrefix
          <6> QED
            BY <6>3 DEF base, target
        <5> QED
          BY <4>2, <5>3
      <4> QED
        BY <4>2, <4>3
    <3>4. ASSUME NEW rule \in Rules({"deny"})
          PROVE  /\ rule.content # NoContent
                 /\ Inside(rule) => Opened(Root(rule)) = <<>>
      <4>1. rule \in Policy.rules /\ Covers(rule.tool, name) /\ ~Matches(rule, name, args)
        BY <1>1, RunsByRule
      <4>2. rule.content # NoContent
        BY <4>1 DEF Matches
      <4>3. ~WithinRoot(path, Root(rule))
        BY <3>2, <4>1, <4>2
      <4>4. /\ Opened(path) # Opened(Root(rule))
            /\ \/ Opened(Root(rule)) = <<>>
               \/ ~IsPrefix(Opened(Root(rule)), Opened(path))
        BY <3>2, <4>1, <4>2, <4>3 DEF WithinRoot, IsStrictPrefix
      <4> QED
        BY <4>2, <4>4
    <3> QED
      BY <2>4, <3>3, <3>4, Zenon DEF Root, path
  <2>5. path \in PathExpanding => Rules({"deny"}) = {}
    BY <2>3
  <2>6. CASE path \in PathExpanding \cup {NoPath}
    BY <2>5, <2>6, Zenon
  <2> QED
    BY <2>4, <2>6, Zenon
<1> QED
  BY CallInit, CallStep, <1>1, PTL DEF Spec
=============================================================================
