-------------------------- MODULE AgentLoop_proofs --------------------------
(***************************************************************************)
(* Proofs about AgentLoop, for every limit of rounds, every context        *)
(* window, every caller and every model: what is sent can be read by a     *)
(* chat endpoint, the prompt governs it, the newest message ends it, what  *)
(* is stored is a Conversation, what a run may cost, and how its lists may *)
(* be compacted at any time.                                               *)
(*                                                                         *)
(* The lemmas climb from lists of messages to the loop: pieces of lists,   *)
(* the functions of compaction.py, lists without system messages, turns of *)
(* tool calls, the rounds of a turn, lists fit to be sent, and then one    *)
(* lemma for each step of the loop.                                        *)
(***************************************************************************)
EXTENDS AgentLoop, MCCompaction, Selection_proofs, FiniteSetTheorems, TLAPS

-----------------------------------------------------------------------------
(* Lists in pieces.                                                        *)
LEMMA ConcatIs ==
    ASSUME NEW S, NEW a \in Seq(S), NEW b \in Seq(S)
    PROVE  LET h == a \o b
           IN  /\ h \in Seq(S) /\ Len(h) = Len(a) + Len(b)
               /\ \A p \in 1..Len(a) : h[p] = a[p]
               /\ \A p \in 1..Len(b) : h[Len(a) + p] = b[p]
               /\ \A p \in 1..Len(h) :
                     p \in 1..Len(a) \/ (p - Len(a) \in 1..Len(b) /\ h[p] = b[p - Len(a)])
  OBVIOUS

LEMMA ConcatAssoc ==
    ASSUME NEW S, NEW a \in Seq(S), NEW b \in Seq(S), NEW c \in Seq(S)
    PROVE  (a \o b) \o c = a \o (b \o c)
<1> DEFINE l == (a \o b) \o c
           r == a \o (b \o c)
<1>1. l \in Seq(S) /\ r \in Seq(S) /\ Len(l) = Len(r)
  OBVIOUS
<1>2. \A p \in 1..Len(l) : l[p] = r[p]
  OBVIOUS
<1> QED
  BY <1>1, <1>2, SeqEqual

LEMMA SuffixIs ==
    ASSUME NEW S, NEW h \in Seq(S), NEW k \in 0..Len(h)
    PROVE  LET g == Suffix(h, k)
           IN  /\ g \in Seq(S) /\ Len(g) = Len(h) - k
               /\ \A p \in 1..Len(g) : g[p] = h[k + p]
  BY DEF Suffix

LEMMA PrefixIs ==
    ASSUME NEW S, NEW h \in Seq(S), NEW k \in 0..Len(h)
    PROVE  LET g == Prefix(h, k)
           IN  /\ g \in Seq(S) /\ Len(g) = k
               /\ \A p \in 1..Len(g) : g[p] = h[p]
  BY DEF Prefix

LEMMA PrefixOfConcat ==
    ASSUME NEW S, NEW a \in Seq(S), NEW b \in Seq(S)
    PROVE  IsPrefix(a, a \o b) /\ SubSeq(a \o b, Len(a) + 1, Len(a \o b)) = b
<1> DEFINE h == a \o b
           rest == SubSeq(h, Len(a) + 1, Len(h))
           front == SubSeq(h, 1, Len(a))
<1>1. /\ h \in Seq(S) /\ Len(h) = Len(a) + Len(b)
      /\ \A p \in 1..Len(a) : h[p] = a[p]
      /\ \A p \in 1..Len(b) : h[Len(a) + p] = b[p]
  BY ConcatIs
<1> HIDE DEF h
<1>2. rest \in Seq(S) /\ Len(rest) = Len(b) /\ \A p \in 1..Len(rest) : rest[p] = b[p]
  <2>1. /\ Len(a) \in Nat /\ Len(b) \in Nat
        /\ \A p \in 1..Len(b) : (Len(a) + 1) + p - 1 = Len(a) + p
    OBVIOUS
  <2>2. rest \in Seq(S) /\ Len(rest) = Len(b)
    BY <1>1, <2>1
  <2>3. \A p \in 1..Len(b) : rest[p] = h[(Len(a) + 1) + p - 1]
    BY <1>1, <2>1
  <2> QED
    BY <1>1, <2>1, <2>2, <2>3
<1>3. front \in Seq(S) /\ Len(front) = Len(a) /\ \A p \in 1..Len(front) : front[p] = a[p]
  BY <1>1
<1>4. rest = b /\ front = a
  <2> HIDE DEF rest, front
  <2> QED
    BY <1>2, <1>3, SeqEqual
<1>5. SubSeq(a, 1, Len(a)) = a
  OBVIOUS
<1> QED
  BY <1>1, <1>4, <1>5 DEF IsPrefix, h

(* A piece of a list answers its calls as the list does.                   *)
LEMMA PieceAnswers ==
    ASSUME NEW g, NEW h, NEW d \in Nat, Len(g) \in Nat,
           \A r \in 1..Len(g) : g[r] = h[d + r],
           NEW p \in 1..Len(g), NEW q \in 1..Len(g)
    PROVE  Answers(g, p, q) <=> Answers(h, d + p, d + q)
<1>1. g[p] = h[d + p] /\ g[q] = h[d + q] /\ (q < p <=> d + q < d + p)
  OBVIOUS
<1>2. ASSUME q < p
      PROVE  (\A r \in (q + 1)..(p - 1) : g[r].role = "tool")
             <=> (\A r \in ((d + q) + 1)..((d + p) - 1) : h[r].role = "tool")
  <2>1. ASSUME \A r \in (q + 1)..(p - 1) : g[r].role = "tool",
               NEW r \in ((d + q) + 1)..((d + p) - 1)
        PROVE  h[r].role = "tool"
    <3>1. r - d \in (q + 1)..(p - 1) /\ r - d \in 1..Len(g) /\ d + (r - d) = r
      OBVIOUS
    <3> QED
      BY <2>1, <3>1
  <2>2. ASSUME \A r \in ((d + q) + 1)..((d + p) - 1) : h[r].role = "tool",
               NEW r \in (q + 1)..(p - 1)
        PROVE  g[r].role = "tool"
    <3>1. d + r \in ((d + q) + 1)..((d + p) - 1) /\ r \in 1..Len(g)
      OBVIOUS
    <3> QED
      BY <2>2, <3>1
  <2> QED
    BY <2>1, <2>2
<1> QED
  BY <1>1, <1>2 DEF Answers

(* Of two lists that an endpoint accepts, one behind the other is accepted.*)
LEMMA ConcatPaired ==
    ASSUME NEW S, NEW a \in Seq(S), NEW b \in Seq(S), WellPaired(a), WellPaired(b)
    PROVE  WellPaired(a \o b)
<1> DEFINE h == a \o b
<1>1. /\ h \in Seq(S) /\ Len(h) = Len(a) + Len(b)
      /\ \A p \in 1..Len(a) : a[p] = h[0 + p]
      /\ \A p \in 1..Len(b) : b[p] = h[Len(a) + p]
      /\ \A p \in 1..Len(h) :
            p \in 1..Len(a) \/ (p - Len(a) \in 1..Len(b) /\ h[p] = b[p - Len(a)])
  BY ConcatIs
<1> HIDE DEF h
<1>2. /\ DOMAIN h = 1..Len(h) /\ DOMAIN a = 1..Len(a) /\ DOMAIN b = 1..Len(b)
      /\ Len(a) \in Nat /\ Len(b) \in Nat
  BY <1>1
<1>3. ASSUME NEW p \in 1..Len(a), NEW q \in 1..Len(a), Answers(a, p, q)
      PROVE  Answers(h, p, q)
  <2>1. Answers(h, 0 + p, 0 + q)
    BY <1>1, <1>2, <1>3, PieceAnswers
  <2>2. 0 + p = p /\ 0 + q = q
    OBVIOUS
  <2> QED
    BY <2>1, <2>2
<1>4. \A p, q \in 1..Len(b) : Answers(b, p, q) => Answers(h, Len(a) + p, Len(a) + q)
  BY <1>1, <1>2, PieceAnswers
<1>5. \A q \in 1..Len(b) : Len(a) + q \in DOMAIN h
  BY <1>1, <1>2
<1>6. \A q \in 1..Len(a) : q \in DOMAIN h
  BY <1>1, <1>2
<1>7. ASSUME NEW p \in ToolPositions(h)
      PROVE  \E q \in DOMAIN h : Answers(h, p, q)
  <2>1. CASE p \in 1..Len(a)
    <3>1. p \in ToolPositions(a)
      BY <1>1, <1>2, <2>1 DEF ToolPositions
    <3>2. PICK q \in 1..Len(a) : Answers(a, p, q)
      BY <1>2, <3>1 DEF WellPaired, NoOrphan
    <3> QED
      BY <1>3, <1>6, <2>1, <3>2
  <2>2. CASE p - Len(a) \in 1..Len(b) /\ h[p] = b[p - Len(a)]
    <3>1. p - Len(a) \in ToolPositions(b) /\ Len(a) + (p - Len(a)) = p
      BY <1>1, <1>2, <2>2 DEF ToolPositions
    <3>2. PICK q \in 1..Len(b) : Answers(b, p - Len(a), q)
      BY <1>2, <3>1 DEF WellPaired, NoOrphan
    <3>3. Answers(h, p, Len(a) + q)
      BY <1>4, <2>2, <3>1, <3>2
    <3> QED
      BY <1>5, <3>3
  <2> QED
    BY <1>1, <1>2, <2>1, <2>2 DEF ToolPositions
<1>8. ASSUME NEW q \in DOMAIN h, NEW c \in h[q].calls
      PROVE  \E p \in DOMAIN h : Answers(h, p, q) /\ h[p].id = c
  <2>1. CASE q \in 1..Len(a)
    <3>1. PICK p \in 1..Len(a) : Answers(a, p, q) /\ a[p].id = c
      BY <1>1, <1>2, <2>1 DEF WellPaired, NoUnanswered
    <3>2. Answers(h, p, q) /\ h[p].id = c
      BY <1>1, <1>3, <2>1, <3>1
    <3> QED
      BY <1>6, <3>2
  <2>2. CASE q - Len(a) \in 1..Len(b) /\ h[q] = b[q - Len(a)]
    <3>1. Len(a) + (q - Len(a)) = q
      BY <1>1, <1>2
    <3>2. PICK p \in 1..Len(b) : Answers(b, p, q - Len(a)) /\ b[p].id = c
      BY <1>2, <2>2 DEF WellPaired, NoUnanswered
    <3>3. Answers(h, Len(a) + p, q) /\ h[Len(a) + p].id = c
      BY <1>1, <1>4, <2>2, <3>1, <3>2
    <3> QED
      BY <1>5, <3>3
  <2> QED
    BY <1>1, <1>2, <2>1, <2>2
<1> QED
  BY <1>7, <1>8 DEF WellPaired, NoOrphan, NoUnanswered, h

LEMMA ConcatDiffer ==
    ASSUME NEW S, NEW a \in Seq(S), NEW b \in Seq(S), CallsDiffer(a), CallsDiffer(b),
           CallsOf(a) \cap CallsOf(b) = {}
    PROVE  CallsDiffer(a \o b)
<1> DEFINE h == a \o b
<1>1. /\ h \in Seq(S) /\ Len(h) = Len(a) + Len(b)
      /\ \A p \in 1..Len(a) : h[p] = a[p]
      /\ \A p \in 1..Len(h) :
            p \in 1..Len(a) \/ (p - Len(a) \in 1..Len(b) /\ h[p] = b[p - Len(a)])
  BY ConcatIs
<1> HIDE DEF h
<1>2. DOMAIN h = 1..Len(h) /\ DOMAIN a = 1..Len(a) /\ DOMAIN b = 1..Len(b)
  BY <1>1
<1>3. \A p \in DOMAIN h : \/ p \in DOMAIN a /\ h[p] = a[p]
                          \/ p - Len(a) \in DOMAIN b /\ h[p] = b[p - Len(a)]
  BY <1>1, <1>2
<1>4. \A p \in DOMAIN a : a[p].calls \subseteq CallsOf(a)
  BY DEF CallsOf
<1>5. \A p \in DOMAIN b : b[p].calls \subseteq CallsOf(b)
  BY DEF CallsOf
<1>6. ASSUME NEW p \in DOMAIN h, NEW q \in DOMAIN h, p # q
      PROVE  h[p].calls \cap h[q].calls = {}
  <2>1. CASE p \in DOMAIN a /\ q \in DOMAIN a
    BY <1>1, <1>2, <1>6, <2>1 DEF CallsDiffer
  <2>2. CASE p - Len(a) \in DOMAIN b /\ q - Len(a) \in DOMAIN b /\
             h[p] = b[p - Len(a)] /\ h[q] = b[q - Len(a)]
    <3>1. p - Len(a) # q - Len(a)
      BY <1>2, <1>6
    <3> QED
      BY <2>2, <3>1 DEF CallsDiffer
  <2>3. CASE \/ h[p].calls \subseteq CallsOf(a) /\ h[q].calls \subseteq CallsOf(b)
             \/ h[p].calls \subseteq CallsOf(b) /\ h[q].calls \subseteq CallsOf(a)
    BY <2>3
  <2> QED
    BY <1>3, <1>4, <1>5, <2>1, <2>2, <2>3
<1> QED
  BY <1>6 DEF CallsDiffer, h

LEMMA ConcatCalls ==
    ASSUME NEW S, NEW a \in Seq(S), NEW b \in Seq(S)
    PROVE  CallsOf(a \o b) \subseteq CallsOf(a) \cup CallsOf(b)
<1> DEFINE h == a \o b
<1>1. \A p \in DOMAIN h : \/ p \in DOMAIN a /\ h[p] = a[p]
                          \/ p - Len(a) \in DOMAIN b /\ h[p] = b[p - Len(a)]
  OBVIOUS
<1> HIDE DEF h
<1> QED
  BY <1>1 DEF CallsOf, h

-----------------------------------------------------------------------------
(* The compaction of a list (compaction.py).                               *)

(* What is true of the messages of a list as the list changes: only an     *)
(* assistant makes calls.                                                  *)
OnlyAssistantsCall(h) == \A p \in DOMAIN h : h[p].role # "assistant" => h[p].calls = {}

Proper(h) ==
    h \in Seq(Messages) /\ WellPaired(h) /\ CallsDiffer(h) /\ OnlyAssistantsCall(h)

LEMMA MaxIs ==
    ASSUME NEW N \in Nat, NEW S \in SUBSET (0..N), S # {}
    PROVE  Max(S) \in S /\ \A x \in S : x <= Max(S)
<1>1. \E x \in S : \A y \in S : x >= y
  BY LargestExists
<1> QED
  BY <1>1 DEF Max

(* Clearing results keeps the skeleton of a list.                          *)
LEMMA MicroIs ==
    ASSUME NEW h \in Seq(Messages), NEW keep
    PROVE  LET g == Microcompact(h, keep)
           IN  /\ g \in Seq(Messages) /\ Len(g) = Len(h)
               /\ \A p \in 1..Len(h) :
                     /\ g[p].role = h[p].role /\ g[p].calls = h[p].calls /\ g[p].id = h[p].id
                     /\ h[p].role # "tool" => g[p] = h[p]
<1> DEFINE g == Microcompact(h, keep)
           old == Old(h, keep)
<1>1. DOMAIN h = 1..Len(h) /\ \A p \in 1..Len(h) : h[p] \in Messages
  OBVIOUS
<1>2. \A m \in Messages : /\ Cleared(m) \in Messages /\ Cleared(m).role = m.role
                          /\ Cleared(m).calls = m.calls /\ Cleared(m).id = m.id
  BY DEF Cleared, Messages
<1>3. old \subseteq ToolPositions(h)
  BY DEF Old
<1> HIDE DEF old
<1>4. g = [p \in 1..Len(h) |-> IF p \in old THEN Cleared(h[p]) ELSE h[p]]
  BY <1>1 DEF Microcompact, old
<1> HIDE DEF g
<1>5. \A p \in 1..Len(h) : g[p] \in Messages /\ g[p].role = h[p].role
                           /\ g[p].calls = h[p].calls /\ g[p].id = h[p].id
  BY <1>1, <1>2, <1>4
<1>6. \A p \in 1..Len(h) : h[p].role # "tool" => g[p] = h[p]
  BY <1>3, <1>4 DEF ToolPositions
<1>7. g \in Seq(Messages) /\ Len(g) = Len(h)
  BY <1>4, <1>5
<1> QED
  BY <1>5, <1>6, <1>7 DEF g

LEMMA SameSkeleton ==
    ASSUME NEW h \in Seq(Messages), NEW g \in Seq(Messages), Len(g) = Len(h),
           \A p \in 1..Len(h) :
              g[p].role = h[p].role /\ g[p].calls = h[p].calls /\ g[p].id = h[p].id
    PROVE  /\ WellPaired(h) => WellPaired(g)
           /\ CallsDiffer(h) => CallsDiffer(g)
           /\ OnlyAssistantsCall(h) => OnlyAssistantsCall(g)
           /\ CallsOf(g) = CallsOf(h)
<1>1. DOMAIN h = 1..Len(h) /\ DOMAIN g = 1..Len(h)
  OBVIOUS
<1>2. ToolPositions(g) = ToolPositions(h)
  BY <1>1 DEF ToolPositions
<1>3. ASSUME NEW p \in 1..Len(h), NEW q \in 1..Len(h)
      PROVE  Answers(g, p, q) <=> Answers(h, p, q)
  <2>1. \A r \in (q + 1)..(p - 1) : r \in 1..Len(h)
    OBVIOUS
  <2> QED
    BY <2>1 DEF Answers
<1>4. \A p \in ToolPositions(h) : p \in 1..Len(h)
  BY <1>1 DEF ToolPositions
<1>5. WellPaired(h) => WellPaired(g)
  BY <1>1, <1>2, <1>3, <1>4 DEF WellPaired, NoOrphan, NoUnanswered
<1>6. CallsDiffer(h) => CallsDiffer(g)
  BY <1>1 DEF CallsDiffer
<1>7. OnlyAssistantsCall(h) => OnlyAssistantsCall(g)
  BY <1>1 DEF OnlyAssistantsCall
<1>8. CallsOf(g) = CallsOf(h)
  BY <1>1 DEF CallsOf
<1> QED
  BY <1>5, <1>6, <1>7, <1>8

(* The newest message is not a result to be cleared.                       *)
LEMMA NewestIsKept ==
    ASSUME NEW h \in Seq(Messages), h # <<>>, NEW keep \in Nat
    PROVE  Microcompact(h, keep)[Len(h)] = h[Len(h)]
<1>1. Len(h) \in 1..Len(h) /\ DOMAIN h = 1..Len(h)
  OBVIOUS
<1>2. {q \in ToolPositions(h) : q > Len(h)} = {}
  BY <1>1 DEF ToolPositions
<1>3. Cardinality({q \in ToolPositions(h) : q > Len(h)}) = 0
  BY <1>2, FS_EmptySet
<1>4. Len(h) \notin Old(h, keep)
  BY <1>3 DEF Old
<1> QED
  BY <1>1, <1>4 DEF Microcompact

(* A tail whose results find their calls in it, and what is before it, are *)
(* each acceptable: where ids differ, no answer crosses the boundary.      *)
THEOREM SafeBoundary ==
    ASSUME NEW h, Proper(h), NEW k \in 0..Len(h), SelfConsistent(Suffix(h, k))
    PROVE  WellPaired(Suffix(h, k)) /\ WellPaired(Prefix(h, k))
<1> DEFINE tail == Suffix(h, k)
           head == Prefix(h, k)
<1>1. /\ h \in Seq(Messages) /\ NoOrphan(h) /\ NoUnanswered(h) /\ CallsDiffer(h)
      /\ DOMAIN h = 1..Len(h) /\ k \in Nat
  BY DEF Proper, WellPaired
<1>2. /\ tail \in Seq(Messages) /\ Len(tail) = Len(h) - k
      /\ \A p \in 1..Len(tail) : tail[p] = h[k + p]
  BY <1>1, SuffixIs
<1>3. /\ head \in Seq(Messages) /\ Len(head) = k
      /\ \A p \in 1..Len(head) : head[p] = h[p]
  BY <1>1, PrefixIs
<1>4. SelfConsistent(tail)
  OBVIOUS
<1> HIDE DEF tail, head
<1>5. DOMAIN tail = 1..Len(tail) /\ DOMAIN head = 1..k
  BY <1>2, <1>3
<1>6. \A p \in 1..Len(h) : p \in 1..k \/ (p - k \in 1..Len(tail) /\ k + (p - k) = p)
  BY <1>1, <1>2
<1>7. \A p \in 1..Len(tail) : k + p \in DOMAIN h /\ k + p > k
  BY <1>1, <1>2
<1>8. \A p \in 1..k : p \in DOMAIN h
  BY <1>1
(* The call that a result of the tail answers is in the tail.              *)
<1>9. ASSUME NEW p \in DOMAIN h, p > k, NEW q \in DOMAIN h, Answers(h, p, q)
      PROVE  q - k \in 1..Len(tail) /\ p - k \in 1..Len(tail)
  <2>1. p - k \in 1..Len(tail) /\ k + (p - k) = p
    BY <1>1, <1>6, <1>9
  <2>2. p - k \in ToolPositions(tail) /\ tail[p - k].id \in h[q].calls
    BY <1>2, <1>5, <1>9, <2>1 DEF Answers, ToolPositions
  <2>3. PICK r \in 1..Len(tail) : tail[p - k].id \in tail[r].calls
    BY <1>4, <1>5, <2>2 DEF SelfConsistent
  <2>4. k + r \in DOMAIN h /\ tail[p - k].id \in h[k + r].calls
    BY <1>2, <1>7, <2>3
  <2>5. q = k + r
    BY <1>1, <2>2, <2>4 DEF CallsDiffer
  <2>6. q - k = r
    BY <1>1, <2>5
  <2> QED
    BY <2>1, <2>6
<1>10. ASSUME NEW p \in 1..Len(tail), NEW q \in 1..Len(tail)
       PROVE  Answers(tail, p, q) <=> Answers(h, k + p, k + q)
  <2>1. Len(tail) \in Nat
    BY <1>2
  <2> QED
    BY <1>1, <1>2, <2>1, PieceAnswers
<1>11. ASSUME NEW p \in 1..k, NEW q \in 1..k
       PROVE  Answers(head, p, q) <=> Answers(h, p, q)
  <2>1. Answers(head, p, q) <=> Answers(h, 0 + p, 0 + q)
    <3>1. Len(head) \in Nat /\ \A r \in 1..Len(head) : head[r] = h[0 + r]
      BY <1>3
    <3> QED
      BY <1>3, <3>1, PieceAnswers
  <2>2. 0 + p = p /\ 0 + q = q
    OBVIOUS
  <2> QED
    BY <2>1, <2>2
<1>12. WellPaired(tail)
  <2>1. ASSUME NEW p \in ToolPositions(tail)
        PROVE  \E q \in DOMAIN tail : Answers(tail, p, q)
    <3>1. p \in 1..Len(tail) /\ k + p \in DOMAIN h /\ k + p > k /\ k + p \in ToolPositions(h)
      BY <1>2, <1>5, <1>7 DEF ToolPositions
    <3>2. PICK q \in DOMAIN h : Answers(h, k + p, q)
      BY <1>1, <3>1 DEF NoOrphan
    <3>3. q - k \in 1..Len(tail) /\ k + (q - k) = q
      BY <1>1, <1>9, <3>1, <3>2
    <3>4. Answers(tail, p, q - k)
      BY <1>10, <3>1, <3>2, <3>3
    <3> QED
      BY <1>5, <3>3, <3>4
  <2>2. ASSUME NEW q \in DOMAIN tail, NEW c \in tail[q].calls
        PROVE  \E p \in DOMAIN tail : Answers(tail, p, q) /\ tail[p].id = c
    <3>1. q \in 1..Len(tail) /\ k + q \in DOMAIN h /\ k + q > k /\ c \in h[k + q].calls
      BY <1>2, <1>5, <1>7
    <3>2. PICK p \in DOMAIN h : Answers(h, p, k + q) /\ h[p].id = c
      BY <1>1, <3>1 DEF NoUnanswered
    <3>3. p > k
      BY <1>1, <3>1, <3>2 DEF Answers
    <3>4. p - k \in 1..Len(tail) /\ k + (p - k) = p
      BY <1>1, <1>6, <3>3
    <3>5. Answers(tail, p - k, q) /\ tail[p - k].id = c
      BY <1>2, <1>10, <3>1, <3>2, <3>4
    <3> QED
      BY <1>5, <3>4, <3>5
  <2> QED
    BY <2>1, <2>2 DEF WellPaired, NoOrphan, NoUnanswered
<1>13. WellPaired(head)
  <2>1. ASSUME NEW p \in ToolPositions(head)
        PROVE  \E q \in DOMAIN head : Answers(head, p, q)
    <3>1. p \in 1..k /\ p \in ToolPositions(h)
      BY <1>3, <1>5, <1>8 DEF ToolPositions
    <3>2. PICK q \in DOMAIN h : Answers(h, p, q)
      BY <1>1, <3>1 DEF NoOrphan
    <3>3. q \in 1..k
      BY <1>1, <3>1, <3>2 DEF Answers
    <3> QED
      BY <1>5, <1>11, <3>1, <3>2, <3>3
  <2>2. ASSUME NEW q \in DOMAIN head, NEW c \in head[q].calls
        PROVE  \E p \in DOMAIN head : Answers(head, p, q) /\ head[p].id = c
    <3>1. q \in 1..k /\ q \in DOMAIN h /\ c \in h[q].calls
      BY <1>3, <1>5, <1>8
    <3>2. PICK p \in DOMAIN h : Answers(h, p, q) /\ h[p].id = c
      BY <1>1, <3>1 DEF NoUnanswered
    <3>3. p \in 1..k
      <4> SUFFICES ASSUME p > k PROVE FALSE
        BY <1>1
      <4>1. q - k \in 1..Len(tail)
        BY <1>9, <3>1, <3>2
      <4> QED
        BY <1>1, <1>2, <3>1, <4>1
    <3> QED
      BY <1>3, <1>5, <1>11, <3>1, <3>2, <3>3
  <2> QED
    BY <2>1, <2>2 DEF WellPaired, NoOrphan, NoUnanswered
<1> QED
  BY <1>12, <1>13 DEF tail, head

-----------------------------------------------------------------------------
(* Where a list is split.                                                  *)
Safe(h, k) == SelfConsistent(Suffix(h, k))

IsSnap(f, h, k) ==
    f = [s \in 0..k |-> IF s = 0 \/ SelfConsistent(Suffix(h, s)) THEN s ELSE f[s - 1]]

LEMMA SnapDef ==
    ASSUME NEW h, NEW k \in Nat
    PROVE  \E f : IsSnap(f, h, k) /\ SnapToSafe(h, k) = f[k]
<1> DEFINE step == [n \in 1..k |-> [v \in Nat |-> IF Safe(h, n) THEN n ELSE v]]
           F == CHOOSE f : IsSnap(f, h, k)
<1>1. step \in [1..k -> [Nat -> Nat]]
  OBVIOUS
<1>2. PICK f \in [0..k -> Nat] : Recurses(f, k, 0, step)
  <2> HIDE DEF step
  <2> QED
    BY <1>1, PrimitiveRecursion
<1>3. ASSUME NEW n \in 1..k
      PROVE  step[n][f[n - 1]] = IF Safe(h, n) THEN n ELSE f[n - 1]
  <2>1. f[n - 1] \in Nat
    OBVIOUS
  <2> QED
    BY <2>1
<1>4. IsSnap(f, h, k)
  <2> HIDE DEF step
  <2>1. ASSUME NEW n \in 0..k
        PROVE  (IF n = 0 THEN 0 ELSE step[n][f[n - 1]])
               = IF n = 0 \/ SelfConsistent(Suffix(h, n)) THEN n ELSE f[n - 1]
    BY <1>3 DEF Safe
  <2> QED
    BY <1>2, <2>1 DEF IsSnap, Recurses
<1>5. IsSnap(F, h, k)
  BY <1>4
<1> QED
  BY <1>5 DEF SnapToSafe, IsSnap

(* It is the last boundary up to k at which a tail is safe, or 0.          *)
LEMMA SnapIs ==
    ASSUME NEW h, NEW k \in Nat
    PROVE  LET s == SnapToSafe(h, k)
           IN  /\ s \in 0..k /\ (s = 0 \/ Safe(h, s))
               /\ \A r \in (s + 1)..k : ~Safe(h, r)
<1>1. PICK f : IsSnap(f, h, k) /\ SnapToSafe(h, k) = f[k]
  BY SnapDef
<1> DEFINE Done(n) == /\ f[n] \in 0..n /\ (f[n] = 0 \/ Safe(h, f[n]))
                      /\ \A r \in (f[n] + 1)..n : ~Safe(h, r)
           T == {n \in 0..k : Done(n)}
<1>2. f[0] = 0 /\ \A n \in 1..k : f[n] = IF Safe(h, n) THEN n ELSE f[n - 1]
  BY <1>1 DEF IsSnap, Safe
<1>3. Done(0)
  BY <1>2
<1>4. ASSUME NEW n \in 1..k, Done(n - 1)
      PROVE  Done(n)
  <2>1. CASE Safe(h, n)
    BY <1>2, <2>1
  <2>2. CASE ~Safe(h, n)
    <3>1. f[n] = f[n - 1]
      BY <1>2, <2>2
    <3>2. \A r \in (f[n] + 1)..n : r = n \/ r \in (f[n - 1] + 1)..(n - 1)
      BY <1>4, <3>1
    <3> QED
      BY <1>4, <2>2, <3>1, <3>2
  <2> QED
    BY <2>1, <2>2
<1>5. 0..k \subseteq T
  <2> HIDE DEF Done
  <2>1. 0 \in T /\ \A n \in 1..k : n - 1 \in T => n \in T
    BY <1>3, <1>4
  <2> HIDE DEF T
  <2> QED
    BY <2>1, IntervalInduction
<1> QED
  BY <1>1, <1>5

LEMMA BoundaryIs ==
    ASSUME NEW h \in Seq(Messages), NEW keep
    PROVE  /\ Boundary(h, keep) \in 0..Len(h)
           /\ h # <<>> => Boundary(h, keep) < Len(h)
           /\ Boundary(h, keep) = 0 \/ Tokens(Suffix(h, Boundary(h, keep))) >= keep
           /\ \A k \in 0..(Len(h) - 1) : Tokens(Suffix(h, k)) >= keep => k <= Boundary(h, keep)
<1> DEFINE S == {k \in 0..(Len(h) - 1) : Tokens(Suffix(h, k)) >= keep}
<1>1. Len(h) \in Nat /\ (h # <<>> => Len(h) >= 1)
  OBVIOUS
<1>2. {0} \cup S \in SUBSET (0..Len(h)) /\ {0} \cup S # {}
  BY <1>1
<1>3. /\ Max({0} \cup S) \in {0} \cup S
      /\ \A x \in {0} \cup S : x <= Max({0} \cup S)
  <2> HIDE DEF S
  <2> QED
    BY <1>1, <1>2, MaxIs
<1>4. Boundary(h, keep) = Max({0} \cup S)
  BY DEF Boundary
<1> QED
  BY <1>1, <1>3, <1>4

LEMMA SafeAtZero ==
    ASSUME NEW h, Proper(h)
    PROVE  Safe(h, 0)
<1>1. h \in Seq(Messages) /\ NoOrphan(h)
  BY DEF Proper, WellPaired
<1>2. Suffix(h, 0) = h
  BY <1>1 DEF Suffix
<1> QED
  BY <1>1, <1>2 DEF Safe, SelfConsistent, NoOrphan, Answers

(* A list is split within it, before its newest message, at a safe place.  *)
LEMMA SplitIs ==
    ASSUME NEW h, Proper(h), NEW keep
    PROVE  LET k == SafeSplitIndex(h, keep)
           IN  k \in 0..Len(h) /\ (h # <<>> => k < Len(h)) /\ Safe(h, k)
<1> DEFINE b == Boundary(h, keep)
           k == SafeSplitIndex(h, keep)
<1>1. h \in Seq(Messages)
  BY DEF Proper
<1>2. b \in 0..Len(h) /\ (h # <<>> => b < Len(h))
  BY <1>1, BoundaryIs
<1>3. k = SnapToSafe(h, b)
  BY DEF SafeSplitIndex
<1> HIDE DEF k, b
<1>4. k \in 0..b /\ (k = 0 \/ Safe(h, k))
  BY <1>2, <1>3, SnapIs
<1>5. Safe(h, k)
  BY <1>4, SafeAtZero
<1> QED
  BY <1>1, <1>2, <1>4, <1>5 DEF k

-----------------------------------------------------------------------------
(* One message that neither makes nor answers a call.                      *)
LEMMA LoneMessage ==
    ASSUME NEW m \in Messages, m.role # "tool", m.calls = {}
    PROVE  Proper(<<m>>) /\ CallsOf(<<m>>) = {}
<1> DEFINE h == <<m>>
<1>1. h \in Seq(Messages) /\ DOMAIN h = {1} /\ h[1] = m
  OBVIOUS
<1> HIDE DEF h
<1>2. WellPaired(h)
  BY <1>1 DEF WellPaired, NoOrphan, NoUnanswered, ToolPositions
<1>3. CallsDiffer(h) /\ OnlyAssistantsCall(h) /\ CallsOf(h) = {}
  BY <1>1 DEF CallsDiffer, OnlyAssistantsCall, CallsOf
<1> QED
  BY <1>1, <1>2, <1>3 DEF Proper, h

LEMMA ConcatProper ==
    ASSUME NEW a, NEW b, Proper(a), Proper(b), CallsOf(a) \cap CallsOf(b) = {}
    PROVE  Proper(a \o b) /\ CallsOf(a \o b) \subseteq CallsOf(a) \cup CallsOf(b)
<1>1. a \in Seq(Messages) /\ b \in Seq(Messages)
  BY DEF Proper
<1>2. WellPaired(a \o b) /\ CallsDiffer(a \o b)
  BY <1>1, ConcatPaired, ConcatDiffer DEF Proper
<1>3. OnlyAssistantsCall(a \o b)
  <2> DEFINE h == a \o b
  <2>1. \A p \in DOMAIN h : \/ p \in DOMAIN a /\ h[p] = a[p]
                            \/ p - Len(a) \in DOMAIN b /\ h[p] = b[p - Len(a)]
    BY <1>1
  <2> HIDE DEF h
  <2>2. OnlyAssistantsCall(h)
    BY <2>1 DEF OnlyAssistantsCall, Proper
  <2> QED
    BY <2>2 DEF h
<1>4. CallsOf(a \o b) \subseteq CallsOf(a) \cup CallsOf(b)
  BY <1>1, ConcatCalls
<1>5. a \o b \in Seq(Messages)
  BY <1>1
<1> QED
  BY <1>2, <1>3, <1>4, <1>5 DEF Proper

LEMMA SuffixProper ==
    ASSUME NEW h, Proper(h), NEW k \in 0..Len(h), Safe(h, k)
    PROVE  Proper(Suffix(h, k)) /\ CallsOf(Suffix(h, k)) \subseteq CallsOf(h)
<1> DEFINE g == Suffix(h, k)
<1>1. h \in Seq(Messages) /\ DOMAIN h = 1..Len(h) /\ k \in Nat
  BY DEF Proper
<1>2. g \in Seq(Messages) /\ Len(g) = Len(h) - k /\ \A p \in 1..Len(g) : g[p] = h[k + p]
  BY <1>1, SuffixIs
<1>3. WellPaired(g)
  BY SafeBoundary DEF Safe
<1> HIDE DEF g
<1>4. \A p \in DOMAIN g : p \in Nat /\ k + p \in DOMAIN h /\ g[p] = h[k + p]
  BY <1>1, <1>2
<1>5. CallsDiffer(g)
  <2> SUFFICES ASSUME NEW p \in DOMAIN g, NEW q \in DOMAIN g, p # q
               PROVE  g[p].calls \cap g[q].calls = {}
    BY DEF CallsDiffer
  <2>1. k + p # k + q
    BY <1>1, <1>4
  <2> QED
    BY <1>4, <2>1 DEF Proper, CallsDiffer
<1>6. OnlyAssistantsCall(g) /\ CallsOf(g) \subseteq CallsOf(h)
  BY <1>4 DEF Proper, OnlyAssistantsCall, CallsOf
<1> QED
  BY <1>2, <1>3, <1>5, <1>6 DEF Proper, g

LEMMA SummaryIs ==
    ASSUME NEW chars \in Nat
    PROVE  /\ Summary(chars) \in Messages
           /\ Summary(chars).role = "user" /\ Summary(chars).calls = {}
  BY DEF Summary, Message, Messages, NoId

(* The compacted list is acceptable, keeps a system message at its head    *)
(* and the newest message at its end (build_compacted).                    *)
THEOREM CompactedIsProper ==
    ASSUME NEW h, Proper(h), h # <<>>, NEW chars \in Nat, NEW k \in 0..Len(h), Safe(h, k),
           k < Len(h), StartsWithSystem(h) => k >= 1
    PROVE  LET g == BuildCompacted(h, chars, k)
           IN  /\ Proper(g) /\ CallsOf(g) \subseteq CallsOf(h)
               /\ g # <<>> /\ g[Len(g)] = h[Len(h)]
               /\ StartsWithSystem(h) => g[1] = h[1]
               /\ (\A p \in DOMAIN h : p > 1 => NotSystem(h[p])) =>
                     \A p \in DOMAIN g : p > 1 => NotSystem(g[p])
<1> DEFINE g == BuildCompacted(h, chars, k)
           tail == Suffix(h, k)
           s == Summary(chars)
<1>1. h \in Seq(Messages) /\ DOMAIN h = 1..Len(h) /\ k \in Nat /\ Len(h) \in Nat
  BY DEF Proper
<1>2. Proper(tail) /\ CallsOf(tail) \subseteq CallsOf(h)
  BY SuffixProper
<1>3. tail \in Seq(Messages) /\ Len(tail) = Len(h) - k /\
        \A p \in 1..Len(tail) : tail[p] = h[k + p]
  BY <1>1, SuffixIs
<1>4. s \in Messages /\ s.role = "user" /\ s.calls = {}
  BY SummaryIs
<1>5. StartsWithSystem(h) => Max({k, 1}) = k
  <2> SUFFICES ASSUME k >= 1 PROVE Max({k, 1}) = k
    OBVIOUS
  <2>1. {k, 1} \in SUBSET (0..k) /\ {k, 1} # {}
    BY <1>1
  <2>2. Max({k, 1}) \in {k, 1} /\ k <= Max({k, 1})
    BY <1>1, <2>1, MaxIs
  <2> QED
    BY <1>1, <2>2
<1>6. g = (IF StartsWithSystem(h) THEN <<h[1], s>> ELSE <<s>>) \o tail
  BY <1>5 DEF BuildCompacted
<1> HIDE DEF g, tail, s
<1>7. tail # <<>> /\ tail[Len(tail)] = h[Len(h)] /\ Len(tail) >= 1
  BY <1>1, <1>3
<1>8. Proper(<<s>>) /\ CallsOf(<<s>>) = {} /\ <<s>> \in Seq(Messages)
  BY <1>4, LoneMessage
<1>9. CASE StartsWithSystem(h)
  <2>1. h[1] \in Messages /\ h[1].role = "system" /\ h[1].calls = {}
    BY <1>1, <1>9 DEF StartsWithSystem, Proper, OnlyAssistantsCall
  <2>2. Proper(<<h[1]>>) /\ CallsOf(<<h[1]>>) = {} /\ <<h[1]>> \in Seq(Messages)
    BY <2>1, LoneMessage
  <2>3. <<h[1], s>> = <<h[1]>> \o <<s>>
    OBVIOUS
  <2>4. Proper(<<h[1], s>>) /\ CallsOf(<<h[1], s>>) = {}
    <3>1. CallsOf(<<h[1]>>) \cap CallsOf(<<s>>) = {}
      BY <1>8, <2>2
    <3>2. Proper(<<h[1]>> \o <<s>>) /\ CallsOf(<<h[1]>> \o <<s>>) \subseteq {} \cup {}
      BY <1>8, <2>2, <3>1, ConcatProper
    <3> QED
      BY <2>3, <3>2
  <2>5. CallsOf(<<h[1], s>>) \cap CallsOf(tail) = {}
    BY <2>4
  <2>6. Proper(g) /\ CallsOf(g) \subseteq CallsOf(h)
    <3>1. /\ Proper(<<h[1], s>> \o tail)
          /\ CallsOf(<<h[1], s>> \o tail) \subseteq {} \cup CallsOf(tail)
      BY <1>2, <2>4, <2>5, ConcatProper
    <3> QED
      BY <1>2, <1>6, <1>9, <3>1
  <2>7. g = <<h[1], s>> \o tail
    BY <1>6, <1>9
  <2>8. /\ Len(g) = Len(tail) + 2 /\ g[1] = h[1] /\ g[2] = s
        /\ \A p \in 1..Len(tail) : g[p + 2] = tail[p]
        /\ DOMAIN g = 1..Len(g)
    BY <1>3, <1>4, <2>1, <2>7
  <2>9. g # <<>> /\ g[Len(g)] = h[Len(h)]
    BY <1>3, <1>7, <2>8
  <2>10. ASSUME \A p \in DOMAIN h : p > 1 => NotSystem(h[p]), NEW p \in DOMAIN g, p > 1
         PROVE  NotSystem(g[p])
    <3>1. CASE p = 2
      BY <1>4, <2>8, <3>1 DEF NotSystem
    <3>2. CASE p > 2
      <4>1. p - 2 \in 1..Len(tail) /\ (p - 2) + 2 = p
        BY <1>3, <2>8, <3>2
      <4>2. g[p] = h[k + (p - 2)] /\ k + (p - 2) \in DOMAIN h /\ k + (p - 2) > 1
        BY <1>1, <1>3, <1>9, <2>8, <3>2, <4>1
      <4> QED
        BY <2>10, <4>2
    <3> QED
      BY <2>8, <2>10, <3>1, <3>2
  <2> QED
    BY <1>9, <2>6, <2>8, <2>9, <2>10 DEF g
<1>10. CASE ~StartsWithSystem(h)
  <2>1. g = <<s>> \o tail
    BY <1>6, <1>10
  <2>2. Proper(g) /\ CallsOf(g) \subseteq CallsOf(h)
    <3>1. CallsOf(<<s>>) \cap CallsOf(tail) = {}
      BY <1>8
    <3>2. Proper(<<s>> \o tail) /\ CallsOf(<<s>> \o tail) \subseteq {} \cup CallsOf(tail)
      BY <1>2, <1>8, <3>1, ConcatProper
    <3> QED
      BY <1>2, <2>1, <3>2
  <2>3. /\ Len(g) = Len(tail) + 1
        /\ \A p \in 1..Len(tail) : g[p + 1] = tail[p]
        /\ DOMAIN g = 1..Len(g)
    BY <1>3, <1>4, <2>1
  <2>4. g # <<>> /\ g[Len(g)] = h[Len(h)]
    BY <1>3, <1>7, <2>3
  <2>5. ASSUME \A p \in DOMAIN h : p > 1 => NotSystem(h[p]), NEW p \in DOMAIN g, p > 1
        PROVE  NotSystem(g[p])
    <3>1. p - 1 \in 1..Len(tail) /\ (p - 1) + 1 = p
      BY <1>3, <2>3, <2>5
    <3>2. g[p] = h[k + (p - 1)] /\ k + (p - 1) \in DOMAIN h
      BY <1>1, <1>3, <2>3, <3>1
    <3>3. k + (p - 1) > 1 \/ (k = 0 /\ p = 2)
      BY <1>1, <2>3, <2>5
    <3>4. h[1].role # "system"
      BY <1>10 DEF StartsWithSystem
    <3> QED
      BY <2>5, <3>2, <3>3, <3>4 DEF NotSystem
  <2> QED
    BY <1>10, <2>2, <2>4, <2>5 DEF g
<1> QED
  BY <1>9, <1>10

-----------------------------------------------------------------------------
(* A list without its system messages.                                     *)
LEMMA SpokenIs ==
    ASSUME NEW h, Proper(h)
    PROVE  LET g == Spoken(h)
           IN  /\ Proper(g) /\ CallsOf(g) \subseteq CallsOf(h)
               /\ \A p \in DOMAIN g : NotSystem(g[p]) /\ \E q \in DOMAIN h : g[p] = h[q]
<1> DEFINE P == {p \in DOMAIN h : NotSystem(h[p])}
           g == Spoken(h)
<1>1. h \in Seq(Messages) /\ DOMAIN h = 1..Len(h)
  BY DEF Proper
<1>2. g = Select(h, P)
  BY DEF Spoken
<1>3. \A p \in DOMAIN h : p \in P <=> h[p].role # "system"
  BY DEF NotSystem
<1> HIDE DEF P, g
<1>4. g \in Seq(Messages)
  BY <1>1, <1>2, SelectPicks
<1>5. PICK e : Picks(e, g, h, Len(h), P)
  BY <1>1, <1>2, SelectPicks
<1>6. DOMAIN g = 1..Len(g) /\ Len(g) \in Nat
  BY <1>4
<1>7. \A p \in DOMAIN g : e[p] \in DOMAIN h /\ e[p] \in P /\ g[p] = h[e[p]]
  BY <1>1, <1>5, <1>6 DEF Picks
<1>8. \A p, q \in DOMAIN g : p < q => e[p] < e[q]
  BY <1>5, <1>6 DEF Picks
<1>9. \A q \in DOMAIN h : h[q].role # "system" => \E p \in DOMAIN g : e[p] = q
  BY <1>1, <1>3, <1>5, <1>6 DEF Picks
<1>10. \A p, q \in DOMAIN g : e[p] < e[q] => p < q
  <2> SUFFICES ASSUME NEW p \in DOMAIN g, NEW q \in DOMAIN g, e[p] < e[q], ~(p < q)
               PROVE  FALSE
    OBVIOUS
  <2>1. q < p \/ q = p
    BY <1>6
  <2>2. e[q] < e[p] \/ e[q] = e[p]
    BY <1>8, <2>1
  <2>3. e[p] \in Nat /\ e[q] \in Nat
    BY <1>1, <1>7
  <2> QED
    BY <2>2, <2>3
<1>11. ASSUME NEW p \in DOMAIN g, NEW q \in DOMAIN g, Answers(h, e[p], e[q])
       PROVE  Answers(g, p, q)
  <2>1. q < p
    BY <1>10, <1>11 DEF Answers
  <2>2. ASSUME NEW r \in (q + 1)..(p - 1)
        PROVE  g[r].role = "tool"
    <3>1. r \in DOMAIN g /\ q < r /\ r < p
      BY <1>6
    <3>2. e[q] < e[r] /\ e[r] < e[p]
      BY <1>8, <3>1
    <3>3. e[r] \in (e[q] + 1)..(e[p] - 1)
      BY <1>1, <1>7, <3>1, <3>2
    <3> QED
      BY <1>7, <1>11, <3>1, <3>3 DEF Answers
  <2> QED
    BY <1>7, <1>11, <2>1, <2>2 DEF Answers
<1>12. WellPaired(g)
  <2>1. ASSUME NEW p \in ToolPositions(g)
        PROVE  \E q \in DOMAIN g : Answers(g, p, q)
    <3>1. p \in DOMAIN g /\ e[p] \in ToolPositions(h)
      BY <1>7 DEF ToolPositions
    <3>2. PICK q \in DOMAIN h : Answers(h, e[p], q)
      BY <3>1 DEF Proper, WellPaired, NoOrphan
    <3>3. h[q].role = "assistant"
      BY <3>2 DEF Proper, OnlyAssistantsCall, Answers
    <3>4. PICK r \in DOMAIN g : e[r] = q
      BY <1>9, <3>3
    <3> QED
      BY <1>11, <3>1, <3>2, <3>4
  <2>2. ASSUME NEW q \in DOMAIN g, NEW c \in g[q].calls
        PROVE  \E p \in DOMAIN g : Answers(g, p, q) /\ g[p].id = c
    <3>1. e[q] \in DOMAIN h /\ c \in h[e[q]].calls
      BY <1>7
    <3>2. PICK p \in DOMAIN h : Answers(h, p, e[q]) /\ h[p].id = c
      BY <3>1 DEF Proper, WellPaired, NoUnanswered
    <3>3. h[p].role = "tool"
      BY <3>2 DEF Answers
    <3>4. PICK r \in DOMAIN g : e[r] = p
      BY <1>9, <3>3
    <3> QED
      BY <1>7, <1>11, <3>2, <3>4
  <2> QED
    BY <2>1, <2>2 DEF WellPaired, NoOrphan, NoUnanswered
<1>13. CallsDiffer(g)
  <2> SUFFICES ASSUME NEW p \in DOMAIN g, NEW q \in DOMAIN g, p # q
               PROVE  g[p].calls \cap g[q].calls = {}
    BY DEF CallsDiffer
  <2>1. p < q \/ q < p
    BY <1>6
  <2>2. e[p] # e[q]
    BY <1>1, <1>7, <1>8, <2>1
  <2> QED
    BY <1>7, <2>2 DEF Proper, CallsDiffer
<1>14. OnlyAssistantsCall(g) /\ CallsOf(g) \subseteq CallsOf(h)
  BY <1>7 DEF Proper, OnlyAssistantsCall, CallsOf
<1>15. \A p \in DOMAIN g : NotSystem(g[p]) /\ \E q \in DOMAIN h : g[p] = h[q]
  BY <1>3, <1>7 DEF NotSystem
<1> QED
  BY <1>4, <1>12, <1>13, <1>14, <1>15 DEF Proper, g

LEMMA SpokenAll ==
    ASSUME NEW h \in Seq(Messages), \A p \in DOMAIN h : NotSystem(h[p])
    PROVE  Spoken(h) = h
<1> DEFINE P == {p \in DOMAIN h : NotSystem(h[p])}
<1>1. 1..Len(h) \subseteq P
  OBVIOUS
<1>2. Spoken(h) = Select(h, P)
  BY DEF Spoken
<1> HIDE DEF P
<1> QED
  BY <1>1, <1>2, SelectAll

-----------------------------------------------------------------------------
(* A turn of tool calls and its results.                                   *)
RoundCalls(t, i, n) == {<<t, i, c>> : c \in 1..n}

CallTurn(t, i, n) == ToolCalls(RoundCalls(t, i, n), 20)

ToolTurn(t, i, n, chars) ==
    <<CallTurn(t, i, n)>> \o [c \in 1..n |-> ToolResult(<<t, i, c>>, chars)]

LEMMA RoundCallsCount ==
    ASSUME NEW t \in Nat, NEW i \in Nat, NEW n \in Nat
    PROVE  Cardinality(RoundCalls(t, i, n)) = n
<1> DEFINE S == RoundCalls(t, i, n)
           f == [c \in 1..n |-> <<t, i, c>>]
<1>1. f \in [1..n -> S] /\ \A s \in S : \E c \in 1..n : f[c] = s
  BY DEF RoundCalls
<1>2. \A c, d \in 1..n : f[c] = f[d] => c = d
  OBVIOUS
<1> HIDE DEF f
<1>3. f \in Bijection(1..n, S)
  BY <1>1, <1>2 DEF Bijection, Injection, Surjection, IsInjective
<1>4. ExistsBijection(1..n, S)
  BY <1>3 DEF ExistsBijection
<1> QED
  BY <1>4, FS_CountingElements

LEMMA CallTurnIs ==
    ASSUME NEW t \in Nat, NEW i \in Nat, NEW n \in Nat
    PROVE  LET m == CallTurn(t, i, n)
           IN  /\ m \in Messages /\ m.role = "assistant" /\ m.body = "text"
               /\ m.calls = RoundCalls(t, i, n)
<1>1. RoundCalls(t, i, n) \in SUBSET CallIds
  BY DEF RoundCalls, CallIds
<1> HIDE DEF RoundCalls
<1> QED
  BY <1>1 DEF CallTurn, ToolCalls, Message, Messages, NoId

LEMMA ResultIs ==
    ASSUME NEW id \in CallIds, NEW chars \in Nat
    PROVE  LET m == ToolResult(id, chars)
           IN  /\ m \in Messages /\ m.role = "tool" /\ m.body = "text"
               /\ m.calls = {} /\ m.id = id
  BY DEF ToolResult, Message, Messages, NoId

IsToolTurn(h, t, i, n, chars) ==
    /\ h \in Seq(Messages) /\ Len(h) = n + 1
    /\ h[1] = CallTurn(t, i, n)
    /\ \A p \in 2..(n + 1) : h[p] = ToolResult(<<t, i, p - 1>>, chars)

LEMMA ToolTurnShape ==
    ASSUME NEW t \in Nat, NEW i \in Nat, NEW n \in Nat, NEW chars \in Nat
    PROVE  IsToolTurn(ToolTurn(t, i, n, chars), t, i, n, chars)
<1> DEFINE m == CallTurn(t, i, n)
           res == [c \in 1..n |-> ToolResult(<<t, i, c>>, chars)]
<1>1. m \in Messages
  BY CallTurnIs
<1>2. \A c \in 1..n : ToolResult(<<t, i, c>>, chars) \in Messages
  <2>1. \A c \in 1..n : <<t, i, c>> \in CallIds
    BY DEF CallIds
  <2> QED
    BY <2>1, ResultIs
<1>3. res \in Seq(Messages) /\ Len(res) = n
  <2>1. res \in [1..n -> Messages]
    BY <1>2
  <2> QED
    BY <2>1
<1>4. \A c \in 1..n : res[c] = ToolResult(<<t, i, c>>, chars)
  OBVIOUS
<1> HIDE DEF m, res
<1> DEFINE h == <<m>> \o res
<1>9. h = ToolTurn(t, i, n, chars)
  BY DEF ToolTurn, m, res
<1>5. /\ h \in Seq(Messages) /\ Len(h) = n + 1 /\ h[1] = m
      /\ \A c \in 1..n : h[1 + c] = res[c]
  BY <1>1, <1>3
<1> HIDE DEF h
<1>7. ASSUME NEW p \in 2..(n + 1)
      PROVE  h[p] = ToolResult(<<t, i, p - 1>>, chars)
  <2>1. p - 1 \in 1..n /\ 1 + (p - 1) = p
    OBVIOUS
  <2> QED
    BY <1>4, <1>5, <2>1
<1> QED
  BY <1>5, <1>7, <1>9 DEF m, IsToolTurn

LEMMA ToolTurnIs ==
    ASSUME NEW t \in Nat, NEW i \in Nat, NEW n \in Nat, NEW chars \in Nat,
           NEW h, IsToolTurn(h, t, i, n, chars)
    PROVE  Proper(h) /\ CallsOf(h) = RoundCalls(t, i, n)
<1> DEFINE R == RoundCalls(t, i, n)
<1>1. h \in Seq(Messages) /\ Len(h) = n + 1 /\ DOMAIN h = 1..(n + 1) /\ 1 \in DOMAIN h
  BY DEF IsToolTurn
<1>2. h[1].role = "assistant" /\ h[1].calls = R
  <2>1. h[1] = CallTurn(t, i, n)
    BY DEF IsToolTurn
  <2> QED
    BY <2>1, CallTurnIs
<1>3. ASSUME NEW p \in 2..(n + 1)
      PROVE  h[p].role = "tool" /\ h[p].calls = {} /\ h[p].id \in R
  <2>1. PICK c \in 1..n : c = p - 1
    OBVIOUS
  <2>2. c \in Nat /\ h[p] = ToolResult(<<t, i, c>>, chars)
    BY <2>1 DEF IsToolTurn
  <2> DEFINE id == <<t, i, c>>
  <2>3. id \in CallIds /\ id \in R
    BY <2>2 DEF CallIds, RoundCalls
  <2>4. h[p] = ToolResult(id, chars)
    BY <2>2
  <2> HIDE DEF id, R
  <2> QED
    BY <2>3, <2>4, ResultIs
<1>4. ASSUME NEW r \in R
      PROVE  \E p \in 2..(n + 1) : h[p].id = r
  <2>1. PICK c \in 1..n : r = <<t, i, c>>
    BY DEF RoundCalls
  <2>2. c + 1 \in 2..(n + 1) /\ (c + 1) - 1 = c /\ c \in Nat
    OBVIOUS
  <2>3. h[c + 1] = ToolResult(<<t, i, c>>, chars)
    BY <2>2 DEF IsToolTurn
  <2>4. r \in CallIds /\ h[c + 1] = ToolResult(r, chars)
    BY <2>1, <2>2, <2>3 DEF CallIds
  <2>5. h[c + 1].id = r
    BY <2>4, ResultIs
  <2> QED
    BY <2>2, <2>5
<1> HIDE DEF R
<1>5. \A p \in DOMAIN h : p = 1 \/ p \in 2..(n + 1)
  BY <1>1
<1>6. ASSUME NEW p \in 2..(n + 1)
      PROVE  Answers(h, p, 1)
  <2>1. h[p].role = "tool" /\ h[p].id \in h[1].calls
    BY <1>2, <1>3
  <2>2. \A r \in (1 + 1)..(p - 1) : r \in 2..(n + 1)
    OBVIOUS
  <2>3. \A r \in (1 + 1)..(p - 1) : h[r].role = "tool"
    BY <1>3, <2>2
  <2> QED
    BY <2>1, <2>3 DEF Answers
<1>7. NoOrphan(h)
  BY <1>1, <1>2, <1>5, <1>6 DEF NoOrphan, ToolPositions
<1>8. NoUnanswered(h)
  <2> SUFFICES ASSUME NEW q \in DOMAIN h, NEW r \in h[q].calls
               PROVE  \E p \in DOMAIN h : Answers(h, p, q) /\ h[p].id = r
    BY DEF NoUnanswered
  <2>1. q = 1 /\ r \in R
    BY <1>2, <1>3, <1>5
  <2>2. PICK p \in 2..(n + 1) : h[p].id = r
    BY <1>4, <2>1
  <2>3. p \in DOMAIN h
    BY <1>1
  <2> QED
    BY <1>6, <2>1, <2>2, <2>3
<1>9. CallsDiffer(h) /\ OnlyAssistantsCall(h)
  BY <1>2, <1>3, <1>5 DEF CallsDiffer, OnlyAssistantsCall
<1>10. CallsOf(h) = R
  <2>1. \A p \in DOMAIN h : h[p].calls \subseteq R
    BY <1>2, <1>3, <1>5
  <2> QED
    BY <1>1, <1>2, <2>1 DEF CallsOf
<1> QED
  BY <1>1, <1>7, <1>8, <1>9, <1>10 DEF Proper, WellPaired, R

-----------------------------------------------------------------------------
(* What the loop has recorded of turn t before round i.                    *)
Before(h, t, i) == \A c \in CallsOf(h) : c[1] < t \/ (c[1] = t /\ c[2] < i)

Precedes(a, b) == a[1] = b[1] /\ (a[2] < b[2] \/ (a[2] = b[2] /\ a[3] < b[3]))

OfRound(c, t, i) == c \in CallIds /\ c[1] = t /\ c[2] = i

Earlier(c, t, i) == c \in CallIds /\ c[1] = t /\ c[2] < i

InOrder(h) == \A p, q \in ToolPositions(h) : p < q => Precedes(h[p].id, h[q].id)

OnlyRounds(h) ==
    \A p \in DOMAIN h : /\ h[p].body = "text" /\ h[p].role \in {"assistant", "tool"}
                        /\ h[p].role = "assistant" => h[p].calls # {}

Rounds(h, t, i) ==
    /\ Proper(h) /\ OnlyRounds(h) /\ InOrder(h)
    /\ \A p \in ToolPositions(h) : Earlier(h[p].id, t, i)
    /\ \A c \in CallsOf(h) : Earlier(c, t, i)

LEMMA RoundCallsAre ==
    ASSUME NEW t \in Nat, NEW i \in Nat, NEW n \in Nat
    PROVE  /\ \A c \in RoundCalls(t, i, n) : OfRound(c, t, i)
           /\ n >= 1 => RoundCalls(t, i, n) # {}
<1>1. \A d \in 1..n : OfRound(<<t, i, d>>, t, i)
  BY DEF OfRound, CallIds
<1>2. n >= 1 => 1 \in 1..n
  OBVIOUS
<1> QED
  BY <1>1, <1>2 DEF RoundCalls

LEMMA EarlierThan ==
    ASSUME NEW a, NEW b, NEW t \in Nat, NEW i \in Nat, Earlier(a, t, i), OfRound(b, t, i)
    PROVE  Precedes(a, b) /\ a # b
  BY DEF Earlier, OfRound, Precedes

LEMMA EarlierStays ==
    ASSUME NEW c, NEW t \in Nat, NEW i \in Nat, Earlier(c, t, i) \/ OfRound(c, t, i)
    PROVE  Earlier(c, t, i + 1)
<1>1. c \in CallIds /\ c[2] \in Nat
  BY DEF Earlier, OfRound, CallIds
<1> QED
  BY <1>1 DEF Earlier, OfRound

LEMMA TurnIsRound ==
    ASSUME NEW t \in Nat, NEW i \in Nat, NEW n \in Nat \ {0}, NEW chars \in Nat,
           NEW h, IsToolTurn(h, t, i, n, chars)
    PROVE  /\ OnlyRounds(h) /\ InOrder(h)
           /\ \A p \in ToolPositions(h) : OfRound(h[p].id, t, i)
<1>1. DOMAIN h = 1..(n + 1)
  BY DEF IsToolTurn
<1>2. h[1].role = "assistant" /\ h[1].body = "text" /\ h[1].calls # {}
  <2>1. h[1] = CallTurn(t, i, n)
    BY DEF IsToolTurn
  <2> QED
    BY <2>1, CallTurnIs, RoundCallsAre
<1>3. ASSUME NEW p \in 2..(n + 1)
      PROVE  /\ h[p].role = "tool" /\ h[p].body = "text"
             /\ OfRound(h[p].id, t, i) /\ h[p].id[3] = p - 1
  <2> DEFINE c == p - 1
             id == <<t, i, c>>
  <2>1. c \in 1..n /\ h[p] = ToolResult(id, chars)
    BY DEF IsToolTurn
  <2>2. OfRound(id, t, i) /\ id \in CallIds /\ id[3] = c
    BY <2>1 DEF OfRound, CallIds
  <2> HIDE DEF id
  <2>3. h[p].role = "tool" /\ h[p].body = "text" /\ h[p].id = id
    BY <2>1, <2>2, ResultIs
  <2> QED
    BY <2>2, <2>3
<1>4. \A p \in DOMAIN h : p = 1 \/ p \in 2..(n + 1)
  BY <1>1
<1>5. OnlyRounds(h)
  BY <1>2, <1>3, <1>4 DEF OnlyRounds
<1>6. \A p \in ToolPositions(h) : p \in 2..(n + 1)
  BY <1>2, <1>4 DEF ToolPositions
<1>7. ASSUME NEW p \in 2..(n + 1), NEW q \in 2..(n + 1), p < q
      PROVE  Precedes(h[p].id, h[q].id)
  BY <1>3, <1>7 DEF OfRound, Precedes
<1>8. InOrder(h)
  BY <1>6, <1>7 DEF InOrder
<1> QED
  BY <1>3, <1>5, <1>6, <1>8

(* A round of calls and results can follow those before it.                *)
LEMMA RoundsGrow ==
    ASSUME NEW t \in Nat, NEW i \in Nat, NEW n \in Nat \ {0}, NEW chars \in Nat,
           NEW g, IsToolTurn(g, t, i, n, chars), NEW h, Rounds(h, t, i)
    PROVE  Rounds(h \o g, t, i + 1)
<1> DEFINE r == h \o g
<1>1. /\ h \in Seq(Messages) /\ g \in Seq(Messages)
      /\ Proper(g) /\ CallsOf(g) = RoundCalls(t, i, n)
  BY ToolTurnIs DEF Rounds, Proper
<1>2. \A c \in CallsOf(g) : OfRound(c, t, i)
  BY <1>1, RoundCallsAre
<1>3. CallsOf(h) \cap CallsOf(g) = {}
  BY <1>2, EarlierThan DEF Rounds
<1>4. Proper(r) /\ CallsOf(r) \subseteq CallsOf(h) \cup CallsOf(g)
  BY <1>1, <1>3, ConcatProper DEF Rounds
<1>5. \A c \in CallsOf(r) : Earlier(c, t, i + 1)
  BY <1>2, <1>4, EarlierStays DEF Rounds
<1>6. /\ DOMAIN r = 1..Len(r) /\ DOMAIN h = 1..Len(h) /\ DOMAIN g = 1..Len(g)
      /\ Len(h) \in Nat /\ Len(g) \in Nat
      /\ \A p \in 1..Len(r) : \/ p \in 1..Len(h) /\ r[p] = h[p]
                              \/ p - Len(h) \in 1..Len(g) /\ r[p] = g[p - Len(h)]
  BY <1>1
<1> HIDE DEF r
<1>7. OnlyRounds(r)
  <2>1. OnlyRounds(h) /\ OnlyRounds(g)
    BY TurnIsRound DEF Rounds
  <2>2. \A p \in DOMAIN r : \/ p \in DOMAIN h /\ r[p] = h[p]
                          \/ \E q \in DOMAIN g : r[p] = g[q]
    BY <1>6
  <2> QED
    BY <2>1, <2>2 DEF OnlyRounds
<1>8. \A p \in ToolPositions(r) : \/ p \in ToolPositions(h) /\ r[p] = h[p]
                                  \/ p - Len(h) \in ToolPositions(g) /\ r[p] = g[p - Len(h)]
  BY <1>6 DEF ToolPositions
<1>9. \A p \in ToolPositions(r) : Earlier(r[p].id, t, i) \/ OfRound(r[p].id, t, i)
  BY <1>8, TurnIsRound DEF Rounds
<1>10. ASSUME NEW p \in ToolPositions(r), NEW q \in ToolPositions(r), p < q
       PROVE  Precedes(r[p].id, r[q].id)
  <2>1. p \in 1..Len(r) /\ q \in 1..Len(r) /\ p \in Int /\ q \in Int
    BY <1>6 DEF ToolPositions
  <2>2. CASE q \in ToolPositions(h) /\ r[q] = h[q]
    <3>1. q \in 1..Len(h)
      BY <1>6, <2>2 DEF ToolPositions
    <3>2. ~(p - Len(h) \in ToolPositions(g))
      BY <1>6, <1>10, <2>1, <3>1 DEF ToolPositions
    <3>3. p \in ToolPositions(h) /\ r[p] = h[p]
      BY <1>8, <3>2
    <3> QED
      BY <1>10, <2>2, <3>3 DEF Rounds, InOrder
  <2>3. CASE q - Len(h) \in ToolPositions(g) /\ r[q] = g[q - Len(h)]
    <3>1. OfRound(r[q].id, t, i)
      BY <2>3, TurnIsRound
    <3>2. CASE p \in ToolPositions(h) /\ r[p] = h[p]
      <4>1. Earlier(r[p].id, t, i)
        BY <3>2 DEF Rounds
      <4> QED
        BY <3>1, <4>1, EarlierThan
    <3>3. CASE p - Len(h) \in ToolPositions(g) /\ r[p] = g[p - Len(h)]
      <4>1. p - Len(h) < q - Len(h)
        BY <1>6, <1>10, <2>1
      <4> QED
        BY <2>3, <3>3, <4>1, TurnIsRound DEF InOrder
    <3> QED
      BY <1>8, <3>2, <3>3
  <2> QED
    BY <1>8, <2>2, <2>3
<1>11. InOrder(r) /\ \A p \in ToolPositions(r) : Earlier(r[p].id, t, i + 1)
  BY <1>9, <1>10, EarlierStays DEF InOrder
<1> QED
  BY <1>4, <1>5, <1>7, <1>11 DEF Rounds, r

LEMMA NoRounds ==
    ASSUME NEW t, NEW i
    PROVE  Rounds(<<>>, t, i)
<1> DEFINE h == <<>>
<1>1. h \in Seq(Messages) /\ DOMAIN h = {}
  OBVIOUS
<1> HIDE DEF h
<1>2. CallsOf(h) = {} /\ ToolPositions(h) = {}
  BY <1>1 DEF CallsOf, ToolPositions
<1>3. Proper(h)
  BY <1>1, <1>2 DEF Proper, WellPaired, NoOrphan, NoUnanswered, CallsDiffer, OnlyAssistantsCall
<1> QED
  BY <1>1, <1>2, <1>3 DEF Rounds, OnlyRounds, InOrder, h

(* The rounds of a turn and a message of the assistant are its reply.      *)
LEMMA RoundsReply ==
    ASSUME NEW t, NEW i, NEW h, Rounds(h, t, i), NEW m \in Messages,
           m.role = "assistant", m.body = "text", m.calls = {}
    PROVE  LET r == h \o <<m>>
           IN  /\ IsReplyOfTurn(r) /\ Proper(r) /\ CallsOf(r) \subseteq CallsOf(h)
               /\ r # <<>> /\ r[Len(r)] = m
<1> DEFINE g == <<m>>
           r == h \o g
<1>1. h \in Seq(Messages) /\ g \in Seq(Messages) /\ Proper(g) /\ CallsOf(g) = {}
  BY LoneMessage DEF Rounds, Proper
<1>2. Proper(r) /\ CallsOf(r) \subseteq CallsOf(h)
  BY <1>1, ConcatProper DEF Rounds
<1>3. /\ DOMAIN r = 1..Len(r) /\ DOMAIN h = 1..Len(h) /\ Len(h) \in Nat /\ Len(r) = Len(h) + 1
      /\ r[Len(r)] = m /\ r # <<>>
      /\ \A p \in 1..Len(h) : r[p] = h[p]
  BY <1>1
<1> HIDE DEF r
<1>4. \A p \in DOMAIN r : p = Len(r) \/ (p \in DOMAIN h /\ r[p] = h[p])
  BY <1>3
<1>5. Genuine(r)
  <2>1. \A p \in DOMAIN h : h[p].body = "text" /\ h[p].role # "system"
    BY DEF Rounds, OnlyRounds
  <2>2. \A p \in DOMAIN r : r[p].body = "text" /\ r[p].role # "system"
    BY <1>3, <1>4, <2>1
  <2> QED
    BY <1>2, <2>2 DEF Genuine, NotSystem, Proper
<1>6. Last(r) = m
  BY <1>3 DEF Last
<1>7. ASSUME NEW p \in 1..(Len(r) - 1)
      PROVE  /\ r[p].role \in {"assistant", "tool"}
             /\ r[p].role = "assistant" => r[p].calls # {}
  <2>1. p \in DOMAIN h /\ r[p] = h[p]
    BY <1>3
  <2> QED
    BY <2>1 DEF Rounds, OnlyRounds
<1>8. ASSUME NEW p \in ToolPositions(r), NEW q \in ToolPositions(r), p < q
      PROVE  Precedes(r[p].id, r[q].id)
  <2>1. \A x \in ToolPositions(r) : x \in ToolPositions(h) /\ r[x] = h[x]
    BY <1>3, <1>4 DEF ToolPositions
  <2> QED
    BY <1>8, <2>1 DEF Rounds, InOrder
<1>9. IsReplyOfTurn(r)
  BY <1>3, <1>5, <1>6, <1>7, <1>8 DEF IsReplyOfTurn, Precedes
<1> QED
  BY <1>2, <1>3, <1>9 DEF r

-----------------------------------------------------------------------------
(* The list sent to the model.                                             *)
Governs(h) ==
    HasSystemPrompt /\ EnforceSystemPrompt =>
        /\ h # <<>> /\ h[1] = Prompt
        /\ \A p \in DOMAIN h : p > 1 => NotSystem(h[p])

EndsWith(h, said) == said # <<>> => h # <<>> /\ h[Len(h)] = said[Len(said)]

LEMMA PromptIs == Prompt \in Messages /\ Prompt.role = "system" /\ Prompt.calls = {}
  BY DEF Prompt, Message, Messages, NoId

LEMMA EndOfConcat ==
    ASSUME NEW a \in Seq(Messages), NEW b \in Seq(Messages), b # <<>>
    PROVE  a \o b # <<>> /\ (a \o b)[Len(a \o b)] = b[Len(b)]
  OBVIOUS

LEMMA EndsAlike ==
    ASSUME NEW a \in Seq(Messages), NEW b \in Seq(Messages), NEW c \in Seq(Messages), c # <<>>
    PROVE  EndsWith(a \o c, b \o c)
  BY EndOfConcat DEF EndsWith

(* A list put under the prompt.                                            *)
LEMMA UnderPrompt ==
    ASSUME NEW h, Proper(h)
    PROVE  LET g == <<Prompt>> \o h
           IN  /\ Proper(g) /\ CallsOf(g) \subseteq CallsOf(h) /\ EndsWith(g, h)
               /\ (\A p \in DOMAIN h : NotSystem(h[p])) => Governs(g)
<1> DEFINE a == <<Prompt>>
           g == a \o h
<1>1. a \in Seq(Messages) /\ h \in Seq(Messages) /\ Proper(a) /\ CallsOf(a) = {}
  BY PromptIs, LoneMessage DEF Proper
<1>2. Proper(g) /\ CallsOf(g) \subseteq CallsOf(h)
  BY <1>1, ConcatProper
<1>3. EndsWith(g, h)
  BY <1>1, EndOfConcat DEF EndsWith
<1>4. /\ g # <<>> /\ g[1] = Prompt /\ DOMAIN g = 1..Len(g) /\ DOMAIN h = 1..Len(h)
      /\ Len(g) = Len(h) + 1 /\ Len(h) \in Nat
      /\ \A p \in 1..Len(h) : g[1 + p] = h[p]
  <2>1. a[1] = Prompt /\ Len(a) = 1
    OBVIOUS
  <2> QED
    BY <1>1, <2>1, ConcatIs
<1> HIDE DEF g
<1>5. \A p \in DOMAIN g : p > 1 => p - 1 \in DOMAIN h /\ g[p] = h[p - 1]
  <2> SUFFICES ASSUME NEW p \in DOMAIN g, p > 1
               PROVE  p - 1 \in DOMAIN h /\ g[p] = h[p - 1]
    OBVIOUS
  <2>1. p - 1 \in 1..Len(h) /\ 1 + (p - 1) = p
    BY <1>4
  <2> QED
    BY <1>4, <2>1
<1>6. (\A p \in DOMAIN h : NotSystem(h[p])) => Governs(g)
  BY <1>4, <1>5 DEF Governs
<1> QED
  BY <1>2, <1>3, <1>6 DEF g

LEMMA PromptedIs ==
    ASSUME NEW h, Proper(h)
    PROVE  LET g == WithSystemPrompt(h)
           IN  /\ Proper(g) /\ CallsOf(g) \subseteq CallsOf(h) /\ Governs(g)
               /\ EndsWith(g, IF HasSystemPrompt /\ EnforceSystemPrompt THEN Spoken(h) ELSE h)
<1> DEFINE g == WithSystemPrompt(h)
<1>1. CASE HasSystemPrompt /\ EnforceSystemPrompt
  <2>1. g = <<Prompt>> \o Spoken(h)
    BY <1>1 DEF WithSystemPrompt
  <2>2. /\ Proper(Spoken(h)) /\ CallsOf(Spoken(h)) \subseteq CallsOf(h)
        /\ \A p \in DOMAIN Spoken(h) : NotSystem(Spoken(h)[p])
    BY SpokenIs
  <2> HIDE DEF g
  <2>3. /\ Proper(g) /\ CallsOf(g) \subseteq CallsOf(Spoken(h)) /\ Governs(g)
        /\ EndsWith(g, Spoken(h))
    BY <2>1, <2>2, UnderPrompt
  <2> QED
    BY <1>1, <2>2, <2>3 DEF g
<1>2. CASE ~(HasSystemPrompt /\ EnforceSystemPrompt)
  <2>1. g = h \/ g = <<Prompt>> \o h
    BY <1>2 DEF WithSystemPrompt, WithSystemPrompt_AddWhenAbsent
  <2> HIDE DEF g
  <2>2. Proper(g) /\ CallsOf(g) \subseteq CallsOf(h) /\ EndsWith(g, h)
    <3>1. CASE g = h
      BY <3>1 DEF EndsWith
    <3>2. CASE g = <<Prompt>> \o h
      BY <3>2, UnderPrompt
    <3> QED
      BY <2>1, <3>1, <3>2
  <2> QED
    BY <1>2, <2>2 DEF g, Governs
<1> QED
  BY <1>1, <1>2

(* Clearing old results and summarizing keep the list fit to be sent.      *)
Fit(h, said, t, i) == Proper(h) /\ Before(h, t, i) /\ Governs(h) /\ EndsWith(h, said)

LEMMA FitCleared ==
    ASSUME NEW h, NEW said, NEW t, NEW i, Fit(h, said, t, i)
    PROVE  Fit(Microcompact(h, 3), said, t, i)
<1> DEFINE g == Microcompact(h, 3)
<1>1. h \in Seq(Messages) /\ DOMAIN h = 1..Len(h) /\ Len(h) \in Nat
  BY DEF Fit, Proper
<1>2. /\ g \in Seq(Messages) /\ Len(g) = Len(h)
      /\ \A p \in 1..Len(h) :
            /\ g[p].role = h[p].role /\ g[p].calls = h[p].calls /\ g[p].id = h[p].id
            /\ h[p].role # "tool" => g[p] = h[p]
  BY <1>1, MicroIs
<1>3. h # <<>> => g[Len(h)] = h[Len(h)]
  BY <1>1, NewestIsKept
<1> HIDE DEF g
<1>4. DOMAIN g = 1..Len(g)
  BY <1>2
<1>5. Proper(g) /\ CallsOf(g) = CallsOf(h)
  BY <1>1, <1>2, SameSkeleton DEF Fit, Proper
<1>6. Before(g, t, i)
  BY <1>5 DEF Fit, Before
<1>7. h # <<>> <=> g # <<>>
  BY <1>1, <1>2
<1>8. EndsWith(g, said)
  BY <1>2, <1>3, <1>7 DEF Fit, EndsWith
<1>9. Governs(g)
  <2> SUFFICES ASSUME HasSystemPrompt /\ EnforceSystemPrompt
               PROVE  /\ g # <<>> /\ g[1] = Prompt
                      /\ \A p \in DOMAIN g : p > 1 => NotSystem(g[p])
    BY DEF Governs
  <2>1. /\ h # <<>> /\ h[1] = Prompt
        /\ \A p \in DOMAIN h : p > 1 => NotSystem(h[p])
    BY DEF Fit, Governs
  <2>2. 1 \in 1..Len(h)
    BY <1>1, <2>1
  <2>3. h[1].role # "tool"
    BY <2>1, PromptIs
  <2> QED
    BY <1>1, <1>2, <1>4, <1>7, <2>1, <2>2, <2>3 DEF NotSystem
<1> QED
  BY <1>5, <1>6, <1>8, <1>9 DEF Fit, g

LEMMA FitSummarized ==
    ASSUME NEW h, NEW said, NEW t, NEW i, Fit(h, said, t, i), Summarizable(h),
           NEW chars \in Nat
    PROVE  Fit(BuildCompacted(h, chars, SplitOf(h)), said, t, i)
<1> DEFINE k == SplitOf(h)
           g == BuildCompacted(h, chars, k)
<1>1. h \in Seq(Messages) /\ DOMAIN h = 1..Len(h) /\ Len(h) \in Nat /\ Proper(h)
  BY DEF Fit, Proper
<1>2. k \in 0..Len(h) /\ (h # <<>> => k < Len(h)) /\ Safe(h, k)
  BY <1>1, SplitIs DEF SplitOf
<1>3. k > 0 /\ (StartsWithSystem(h) => k >= 1) /\ h # <<>>
  BY <1>1, <1>2 DEF Summarizable, Floor
<1> HIDE DEF k
<1>4. /\ Proper(g) /\ CallsOf(g) \subseteq CallsOf(h)
      /\ g # <<>> /\ g[Len(g)] = h[Len(h)]
      /\ StartsWithSystem(h) => g[1] = h[1]
      /\ (\A p \in DOMAIN h : p > 1 => NotSystem(h[p])) =>
            \A p \in DOMAIN g : p > 1 => NotSystem(g[p])
  BY <1>1, <1>2, <1>3, CompactedIsProper
<1> HIDE DEF g
<1>5. Before(g, t, i)
  BY <1>4 DEF Fit, Before
<1>6. EndsWith(g, said)
  BY <1>3, <1>4 DEF Fit, EndsWith
<1>7. Governs(g)
  BY <1>4, PromptIs DEF Fit, Governs, StartsWithSystem
<1> QED
  BY <1>4, <1>5, <1>6, <1>7 DEF Fit, g, k

LEMMA FitLonger ==
    ASSUME NEW h, NEW said \in Seq(Messages), NEW t \in Nat, NEW i \in Nat, Fit(h, said, t, i),
           NEW n \in Nat \ {0}, NEW chars \in Nat, NEW g, IsToolTurn(g, t, i, n, chars)
    PROVE  Fit(h \o g, said \o g, t, i + 1)
<1> DEFINE r == h \o g
<1>1. /\ h \in Seq(Messages) /\ g \in Seq(Messages)
      /\ Proper(g) /\ CallsOf(g) = RoundCalls(t, i, n)
  BY ToolTurnIs DEF Fit, Proper
<1>2. \A c \in CallsOf(g) : OfRound(c, t, i)
  BY <1>1, RoundCallsAre
<1>3. CallsOf(h) \cap CallsOf(g) = {}
  BY <1>2 DEF Fit, Before, OfRound
<1>4. Proper(r) /\ CallsOf(r) \subseteq CallsOf(h) \cup CallsOf(g)
  BY <1>1, <1>3, ConcatProper DEF Fit
<1>5. Before(r, t, i + 1)
  <2>1. \A p \in DOMAIN h : h[p] \in Messages
    BY <1>1
  <2>5. \A p \in DOMAIN h : h[p].calls \subseteq CallIds
    BY <2>1 DEF Messages
  <2>6. \A c \in CallsOf(h) : c \in CallIds
    BY <2>5 DEF CallsOf
  <2>2. \A c \in CallIds : c[2] \in Nat
    BY DEF CallIds
  <2>3. \A c \in CallsOf(h) : c[1] < t \/ (c[1] = t /\ c[2] < i + 1)
    BY <2>6, <2>2 DEF Fit, Before
  <2>4. \A c \in CallsOf(g) : c[1] = t /\ c[2] < i + 1
    BY <1>2 DEF OfRound
  <2> QED
    BY <1>4, <2>3, <2>4 DEF Before
<1>6. g # <<>>
  BY DEF IsToolTurn
<1>7. EndsWith(r, said \o g)
  BY <1>1, <1>6, EndsAlike
<1>8. /\ DOMAIN r = 1..Len(r) /\ DOMAIN h = 1..Len(h) /\ DOMAIN g = 1..Len(g)
      /\ Len(h) \in Nat /\ Len(g) \in Nat /\ r # <<>>
      /\ \A p \in 1..Len(r) : \/ p \in 1..Len(h) /\ r[p] = h[p]
                              \/ p - Len(h) \in 1..Len(g) /\ r[p] = g[p - Len(h)]
      /\ h # <<>> => r[1] = h[1]
  BY <1>1, <1>6
<1>9. \A p \in DOMAIN g : NotSystem(g[p])
  BY TurnIsRound DEF OnlyRounds, NotSystem
<1> HIDE DEF r
<1>10. Governs(r)
  BY <1>8, <1>9 DEF Fit, Governs
<1> QED
  BY <1>4, <1>5, <1>7, <1>10 DEF Fit, r

-----------------------------------------------------------------------------
(* What holds between two awaits.                                          *)
InLoop == pc \in {"compacting", "summarizing", "requesting", "retrying"}

(* The calls in the memory are of turns that are over.                     *)
Older(h, t) == \A c \in CallsOf(h) : c[1] < t

NextTurn == IF pc = "idle" \/ pc = "screening_output" THEN turn + 1 ELSE turn

IsReal(h) == \A p \in DOMAIN h : NotSystem(h[p]) /\ h[p].body = "text"

MemoryInv == Proper(memory) /\ IsReal(memory) /\ Older(memory, NextTurn)

CallInv ==
    /\ pc # "idle" => turn >= 1 /\ incoming \in Incoming[entry]
    /\ pc = "screening_input" /\ entry = "session" =>
         CallsOf(incoming) \cap CallsOf(memory) = {}

LoopInv ==
    InLoop => /\ Fit(messages, Taken \o new_turns, turn, iteration)
              /\ Rounds(new_turns, turn, iteration)

SummaryInv == pc = "summarizing" => Summarizable(messages)

(* The last turn recorded is that of the n calls awaited.                  *)
Awaits(n) ==
    /\ messages # <<>> /\ Last(messages) = CallTurn(turn, iteration, n)
    /\ new_turns # <<>> /\ Last(new_turns) = CallTurn(turn, iteration, n)
    /\ Fit(Front(messages), Taken \o Front(new_turns), turn, iteration)
    /\ Rounds(Front(new_turns), turn, iteration)

ToolsInv == pc = "running_tools" => \E n \in 1..MaxCalls : Awaits(n)

ListsInv == TypeOK /\ MemoryInv /\ CallInv /\ LoopInv /\ SummaryInv /\ ToolsInv

-----------------------------------------------------------------------------
LEMMA IdsAreNats ==
    ASSUME NEW h, Proper(h)
    PROVE  \A c \in CallsOf(h) : c \in CallIds /\ c[1] \in Nat
<1>1. \A p \in DOMAIN h : h[p] \in Messages
  BY DEF Proper
<1>2. \A p \in DOMAIN h : h[p].calls \subseteq CallIds
  BY <1>1 DEF Messages
<1>3. \A c \in CallIds : c[1] \in Nat
  BY DEF CallIds
<1> QED
  BY <1>2, <1>3 DEF CallsOf

LEMMA OlderLater ==
    ASSUME NEW h, Proper(h), NEW t \in Nat, Older(h, t)
    PROVE  Older(h, t + 1) /\ \A i : Before(h, t, i)
<1>1. \A c \in CallsOf(h) : c[1] \in Nat
  BY IdsAreNats
<1> QED
  BY <1>1 DEF Older, Before

LEMMA Callers ==
    ASSUME TypeOK, CallInv, pc # "idle"
    PROVE  /\ Proper(incoming)
           /\ \A p \in DOMAIN incoming : incoming[p].body = "text"
           /\ \A c \in CallsOf(incoming) : c[1] = 0
<1>1. incoming \in Incoming["session"] \cup Incoming["messages"]
  BY DEF TypeOK, CallInv
<1>2. /\ incoming \in Seq(Messages) /\ WellPaired(incoming) /\ CallsDiffer(incoming)
      /\ \A p \in DOMAIN incoming :
            /\ incoming[p].body = "text"
            /\ incoming[p].role # "assistant" => incoming[p].calls = {}
            /\ \A c \in incoming[p].calls : c[1] = 0
  BY <1>1, CallersAssumption
<1> QED
  BY <1>2 DEF Proper, OnlyAssistantsCall, CallsOf

LEMMA TakenIs ==
    ASSUME TypeOK
    PROVE  Taken \in Seq(Messages)
<1>1. Proper(incoming)
  <2>1. CASE incoming = <<>>
    BY <2>1, NoRounds DEF Rounds
  <2>2. CASE incoming \in Incoming["session"] \cup Incoming["messages"]
    BY <2>2, CallersAssumption DEF Proper, OnlyAssistantsCall
  <2> QED
    BY <2>1, <2>2 DEF TypeOK
<1>2. Proper(Spoken(incoming))
  BY <1>1, SpokenIs
<1> QED
  BY <1>1, <1>2 DEF Taken, Proper

(* What a session's turn adds to the memory first.                         *)
LEMMA QuestionIs ==
    ASSUME ListsInv, pc = "screening_input"
    PROVE  LET q == Spoken(incoming)
           IN  /\ Proper(q) /\ IsReal(q) /\ Genuine(q)
               /\ \A c \in CallsOf(q) : c[1] = 0
               /\ entry = "session" => CallsOf(q) \cap CallsOf(memory) = {}
<1> DEFINE q == Spoken(incoming)
<1>1. /\ Proper(incoming)
      /\ \A p \in DOMAIN incoming : incoming[p].body = "text"
      /\ \A c \in CallsOf(incoming) : c[1] = 0
  BY Callers DEF ListsInv
<1>2. /\ Proper(q) /\ CallsOf(q) \subseteq CallsOf(incoming)
      /\ \A p \in DOMAIN q : NotSystem(q[p]) /\ \E r \in DOMAIN incoming : q[p] = incoming[r]
  BY <1>1, SpokenIs
<1>3. entry = "session" => CallsOf(incoming) \cap CallsOf(memory) = {}
  BY DEF ListsInv, CallInv
<1> HIDE DEF q
<1>4. IsReal(q)
  BY <1>1, <1>2 DEF IsReal
<1>5. Genuine(q)
  BY <1>2, <1>4 DEF Genuine, IsReal, Proper
<1> QED
  BY <1>1, <1>2, <1>3, <1>4, <1>5 DEF q

LEMMA ConcatReal ==
    ASSUME NEW a \in Seq(Messages), NEW b \in Seq(Messages), IsReal(a), IsReal(b)
    PROVE  IsReal(a \o b)
<1> DEFINE r == a \o b
<1>1. \A p \in DOMAIN r : \/ p \in DOMAIN a /\ r[p] = a[p]
                          \/ \E s \in DOMAIN b : r[p] = b[s]
  OBVIOUS
<1> HIDE DEF r
<1>2. IsReal(r)
  BY <1>1 DEF IsReal
<1> QED
  BY <1>2 DEF r

LEMMA AtRest ==
    /\ 0 \in 0..MaxIterations /\ 0 \in 0..MaxTurns /\ 0 \in Nat
    /\ <<>> \in Seq(Messages) /\ FALSE \in BOOLEAN
  BY LoopAssumption

LEMMA InitLists == Init => ListsInv
<1> SUFFICES ASSUME Init
             PROVE  ListsInv
  OBVIOUS
<1>1. memory = <<>> /\ Proper(memory) /\ DOMAIN memory = {}
  BY NoRounds DEF Init, Rounds
<1>2. MemoryInv
  BY <1>1 DEF MemoryInv, IsReal, Older, CallsOf
<1>3. TypeOK
  BY AtRest, Zenon DEF Init, TypeOK
<1> QED
  BY <1>2, <1>3 DEF Init, ListsInv, CallInv, LoopInv, InLoop, SummaryInv, ToolsInv

LEMMA LeaveLists ==
    ASSUME ListsInv, Leave
    PROVE  ListsInv'
<1>1. TypeOK'
  <2>1. TypeOK
    BY DEF ListsInv
  <2> QED
    BY <2>1, AtRest, Zenon DEF Leave, TypeOK
<1>2. pc' = "idle" /\ UNCHANGED <<memory, turn>> /\ turn \in Nat
  BY DEF Leave, ListsInv, TypeOK
<1>3. Proper(memory) /\ IsReal(memory) /\ Older(memory, NextTurn)
  BY DEF ListsInv, MemoryInv
<1>4. Older(memory, turn + 1)
  BY <1>2, <1>3, OlderLater DEF NextTurn
<1>5. MemoryInv'
  <2>1. NextTurn' = turn + 1
    BY <1>2 DEF NextTurn
  <2> QED
    BY <1>2, <1>3, <1>4, <2>1 DEF MemoryInv
<1> QED
  BY <1>1, <1>2, <1>5 DEF ListsInv, CallInv, LoopInv, InLoop, SummaryInv, ToolsInv

LEMMA BeginLists ==
    ASSUME ListsInv, NEW e \in {"session", "messages"}, NEW inc \in Incoming[e], Begin(e, inc)
    PROVE  ListsInv'
<1>1. /\ pc = "idle" /\ pc' = "screening_input" /\ turn' = turn + 1
      /\ entry' = e /\ incoming' = inc /\ UNCHANGED <<memory, loop, model_calls>>
      /\ e = "session" => CallsOf(inc) \cap CallsOf(memory) = {}
  BY DEF Begin
<1>2. turn \in Nat /\ turn + 1 \in 0..MaxTurns
  BY LoopAssumption DEF Begin, ListsInv, TypeOK
<1>3. TypeOK'
  BY <1>1, <1>2 DEF ListsInv, TypeOK, loop
<1>4. MemoryInv'
  <2>1. NextTurn = turn + 1 /\ NextTurn' = turn + 1
    BY <1>1 DEF NextTurn
  <2> QED
    BY <1>1, <2>1 DEF ListsInv, MemoryInv
<1>5. CallInv'
  BY <1>1, <1>2 DEF CallInv
<1> QED
  BY <1>1, <1>3, <1>4, <1>5 DEF ListsInv, LoopInv, InLoop, SummaryInv, ToolsInv

(* A step of the loop that sends on a list fit to be sent.                 *)
LEMMA MovesOn ==
    ASSUME ListsInv, InLoop, InLoop',
           UNCHANGED <<entry, incoming, memory, new_turns, iteration, turn>>,
           reactive' \in BOOLEAN, force' \in BOOLEAN, model_calls' \in Nat,
           Fit(messages', Taken \o new_turns, turn, iteration),
           pc' = "summarizing" => Summarizable(messages')
    PROVE  ListsInv'
<1>1. pc' \in {"compacting", "summarizing", "requesting", "retrying"}
  BY DEF InLoop
<1>2. messages' \in Seq(Messages)
  BY DEF Fit, Proper
<1>3. TypeOK'
  BY <1>1, <1>2 DEF ListsInv, TypeOK
<1>4. MemoryInv'
  <2>1. NextTurn' = NextTurn
    BY <1>1 DEF NextTurn, InLoop
  <2> QED
    BY <2>1 DEF ListsInv, MemoryInv
<1>5. CallInv'
  BY <1>1 DEF ListsInv, CallInv, InLoop
<1>6. LoopInv'
  <2>1. Taken' = Taken
    BY DEF Taken
  <2>2. Rounds(new_turns, turn, iteration)
    BY DEF ListsInv, LoopInv
  <2> QED
    BY <2>1, <2>2 DEF LoopInv
<1>7. SummaryInv' /\ ToolsInv'
  BY <1>1 DEF SummaryInv, ToolsInv
<1> QED
  BY <1>3, <1>4, <1>5, <1>6, <1>7 DEF ListsInv

LEMMA CompactionLists ==
    ASSUME ListsInv, SendAsIs \/ Compact \/ SendSummarized \/ Overflow
    PROVE  ListsInv'
<1> DEFINE said == Taken \o new_turns
<1>1. /\ InLoop /\ InLoop'
      /\ UNCHANGED <<entry, incoming, memory, new_turns, iteration, turn>>
      /\ reactive' \in BOOLEAN /\ force' \in BOOLEAN /\ model_calls' \in Nat
  <2>1. reactive \in BOOLEAN /\ force \in BOOLEAN /\ model_calls \in Nat
    BY DEF ListsInv, TypeOK
  <2>2. CASE SendAsIs
    BY <2>1, <2>2 DEF SendAsIs, InLoop, NextRequest, loop
  <2>3. CASE Compact
    BY <2>1, <2>3 DEF Compact, InLoop, NextRequest
  <2>4. CASE SendSummarized
    BY <2>1, <2>4 DEF SendSummarized, InLoop, NextRequest
  <2>5. CASE Overflow
    BY <2>1, <2>5 DEF Overflow, InLoop
  <2> QED
    BY <2>2, <2>3, <2>4, <2>5
<1>2. Fit(messages, said, turn, iteration)
  BY <1>1 DEF ListsInv, LoopInv
<1> HIDE DEF said
<1>3. Fit(messages', said, turn, iteration) /\ (pc' = "summarizing" => Summarizable(messages'))
  <2>1. CASE SendAsIs \/ Overflow
    BY <1>2, <2>1 DEF SendAsIs, Overflow, loop, NextRequest
  <2>2. CASE Compact
    <3>1. messages' = Microcompact(messages, 3)
      BY <2>2 DEF Compact, Micro
    <3>2. pc' = "summarizing" => Summarizable(messages')
      BY <2>2 DEF Compact, NextRequest
    <3> QED
      BY <1>2, <3>1, <3>2, FitCleared
  <2>3. CASE SendSummarized
    <3>1. PICK chars \in ReplySizes \cup {44} :
             messages' = BuildCompacted(messages, chars, SplitOf(messages))
      BY <2>3 DEF SendSummarized
    <3>2. chars \in Nat
      BY LoopAssumption
    <3>3. Summarizable(messages) /\ pc' # "summarizing"
      BY <2>3 DEF SendSummarized, ListsInv, SummaryInv, NextRequest
    <3> QED
      BY <1>2, <3>1, <3>2, <3>3, FitSummarized
  <2> QED
    BY <2>1, <2>2, <2>3
<1> QED
  BY <1>1, <1>3, MovesOn DEF said

-----------------------------------------------------------------------------
LEMMA EnterLists ==
    ASSUME ListsInv, EnterLoop
    PROVE  ListsInv'
<1> DEFINE q == Spoken(incoming)
           h == IF entry = "session" THEN memory' ELSE incoming
<1>1. /\ pc = "screening_input" /\ pc' = "compacting"
      /\ messages' = WithSystemPrompt(h)
      /\ new_turns' = <<>> /\ iteration' = 0 /\ reactive' = FALSE /\ force' = FALSE
      /\ UNCHANGED <<entry, incoming, turn, model_calls>>
      /\ memory' = IF entry = "session" THEN memory \o q ELSE memory
  BY DEF EnterLoop
<1>2. /\ Proper(memory) /\ IsReal(memory) /\ Older(memory, turn)
      /\ turn \in Nat /\ turn >= 1 /\ entry \in {"session", "messages"}
  BY <1>1 DEF ListsInv, MemoryInv, CallInv, TypeOK, NextTurn
<1>3. /\ Proper(q) /\ IsReal(q)
      /\ \A c \in CallsOf(q) : c[1] = 0
      /\ entry = "session" => CallsOf(q) \cap CallsOf(memory) = {}
  BY <1>1, QuestionIs
<1>4. Proper(incoming) /\ \A c \in CallsOf(incoming) : c[1] = 0
  BY <1>1, Callers DEF ListsInv
<1>5. Taken = IF entry = "session" \/ (HasSystemPrompt /\ EnforceSystemPrompt)
              THEN q ELSE incoming
  BY DEF Taken
<1> HIDE DEF q, h
<1>6. Proper(memory') /\ IsReal(memory') /\ Older(memory', turn)
  <2>1. CASE entry = "session"
    <3>1. memory' = memory \o q
      BY <1>1, <2>1
    <3>2. Proper(memory') /\ CallsOf(memory') \subseteq CallsOf(memory) \cup CallsOf(q)
      BY <1>2, <1>3, <2>1, <3>1, ConcatProper
    <3>3. IsReal(memory')
      BY <1>2, <1>3, <3>1, ConcatReal DEF Proper
    <3>4. \A c \in CallsOf(q) : c[1] < turn
      BY <1>2, <1>3
    <3> QED
      BY <1>2, <3>2, <3>3, <3>4 DEF Older
  <2>2. CASE entry # "session"
    BY <1>1, <1>2, <2>2
  <2> QED
    BY <2>1, <2>2
<1>7. Proper(h) /\ Older(h, turn)
  <2>1. CASE entry = "session"
    BY <1>6, <2>1 DEF h
  <2>2. CASE entry # "session"
    BY <1>2, <1>4, <2>2 DEF h, Older
  <2> QED
    BY <2>1, <2>2
<1>8. /\ Proper(messages') /\ CallsOf(messages') \subseteq CallsOf(h) /\ Governs(messages')
      /\ EndsWith(messages', IF HasSystemPrompt /\ EnforceSystemPrompt THEN Spoken(h) ELSE h)
  BY <1>1, <1>7, PromptedIs
<1>9. Before(messages', turn, 0)
  BY <1>2, <1>7, <1>8, OlderLater DEF Before
<1>10. EndsWith(messages', Taken)
  <2>1. CASE entry = "session"
    <3>1. h = memory' /\ memory' = memory \o q /\ Taken = q
      BY <1>1, <1>5, <2>1 DEF h
    <3>2. Spoken(h) = h
      BY <1>6, <3>1, SpokenAll DEF IsReal, Proper
    <3>3. EndsWith(messages', h)
      BY <1>8, <3>2
    <3>4. q # <<>> => h # <<>> /\ h[Len(h)] = q[Len(q)]
      BY <1>2, <1>3, <3>1, EndOfConcat DEF Proper
    <3> QED
      BY <3>1, <3>3, <3>4 DEF EndsWith
  <2>2. CASE entry # "session"
    <3>1. h = incoming
      BY <2>2 DEF h
    <3> QED
      BY <1>5, <1>8, <2>2, <3>1 DEF q
  <2> QED
    BY <2>1, <2>2
<1>11. Fit(messages', Taken \o <<>>, turn, 0)
  <2>1. Taken \o <<>> = Taken
    BY TakenIs DEF ListsInv
  <2> QED
    BY <1>8, <1>9, <1>10, <2>1 DEF Fit
<1>12. LoopInv'
  <2>1. Taken' = Taken
    BY <1>1 DEF Taken
  <2> QED
    BY <1>1, <1>11, <2>1, NoRounds DEF LoopInv
<1>13. TypeOK'
  <2>1. memory' \in Seq(Messages) /\ messages' \in Seq(Messages)
    BY <1>6, <1>8 DEF Proper
  <2>2. TypeOK
    BY DEF ListsInv
  <2> QED
    BY <1>1, <2>1, <2>2, AtRest, Zenon DEF TypeOK
<1>14. MemoryInv'
  <2>1. NextTurn' = turn
    BY <1>1 DEF NextTurn
  <2> QED
    BY <1>6, <2>1 DEF MemoryInv
<1>15. CallInv' /\ SummaryInv' /\ ToolsInv'
  BY <1>1 DEF ListsInv, CallInv, SummaryInv, ToolsInv
<1> QED
  BY <1>12, <1>13, <1>14, <1>15 DEF ListsInv

-----------------------------------------------------------------------------
LEMMA FrontOfAppended ==
    ASSUME NEW h \in Seq(Messages), NEW m \in Messages
    PROVE  /\ h \o <<m>> # <<>> /\ Last(h \o <<m>>) = m /\ Front(h \o <<m>>) = h
<1> DEFINE r == h \o <<m>>
           f == SubSeq(r, 1, Len(h))
<1>1. r \in Seq(Messages) /\ Len(r) = Len(h) + 1 /\ r[Len(r)] = m /\
        \A p \in 1..Len(h) : r[p] = h[p]
  OBVIOUS
<1>2. f \in Seq(Messages) /\ Len(f) = Len(h) /\ \A p \in 1..Len(f) : f[p] = h[p]
  BY <1>1
<1>3. f = h
  BY <1>2
<1>4. Len(r) - 1 = Len(h)
  BY <1>1
<1> QED
  BY <1>1, <1>3, <1>4 DEF Last, Front

LEMMA FrontAndLast ==
    ASSUME NEW h \in Seq(Messages), h # <<>>
    PROVE  Front(h) \in Seq(Messages) /\ h = Front(h) \o <<Last(h)>>
<1> DEFINE f == SubSeq(h, 1, Len(h) - 1)
           m == h[Len(h)]
           r == f \o <<m>>
<1>1. Len(h) \in Nat \ {0} /\ m \in Messages
  OBVIOUS
<1>2. f \in Seq(Messages) /\ Len(f) = Len(h) - 1 /\ \A p \in 1..(Len(h) - 1) : f[p] = h[p]
  <2> DEFINE k == Len(h) - 1
  <2>1. k \in 0..Len(h) /\ k = Len(h) - 1
    BY <1>1
  <2>2. f = Prefix(h, k)
    BY DEF Prefix
  <2> HIDE DEF k
  <2> QED
    BY <2>1, <2>2, PrefixIs
<1> HIDE DEF f
<1>3. r \in Seq(Messages) /\ Len(r) = Len(h) /\ r[Len(h)] = m /\
        \A p \in 1..(Len(h) - 1) : r[p] = f[p]
  BY <1>1, <1>2
<1>4. \A p \in 1..Len(h) : r[p] = h[p]
  BY <1>1, <1>2, <1>3
<1>5. r = h
  BY <1>3, <1>4
<1> QED
  BY <1>2, <1>5 DEF f, Front, Last

LEMMA CallToolsLists ==
    ASSUME ListsInv, NEW n \in 1..MaxCalls, CallTools(n)
    PROVE  ListsInv'
<1> DEFINE m == CallTurn(turn, iteration, n)
<1>1. /\ InLoop /\ pc' = "running_tools" /\ force' = FALSE
      /\ messages' = messages \o <<m>> /\ new_turns' = new_turns \o <<m>>
      /\ UNCHANGED <<entry, incoming, memory, iteration, reactive, turn, model_calls>>
  BY DEF CallTools, Requesting, Record, InLoop, CallTurn, RoundCalls
<1>2. turn \in Nat /\ iteration \in Nat /\ n \in Nat /\ messages \in Seq(Messages) /\
        new_turns \in Seq(Messages)
  BY DEF ListsInv, TypeOK
<1>3. m \in Messages
  BY <1>2, CallTurnIs
<1>4. Fit(messages, Taken \o new_turns, turn, iteration) /\ Rounds(new_turns, turn, iteration)
  BY <1>1 DEF ListsInv, LoopInv
<1>5. Taken' = Taken
  BY <1>1 DEF Taken
<1>6. Awaits(n)'
  BY <1>1, <1>2, <1>3, <1>4, <1>5, FrontOfAppended DEF Awaits
<1>7. ToolsInv'
  BY <1>6 DEF ToolsInv
<1>8. TypeOK'
  <2>1. messages' \in Seq(Messages) /\ new_turns' \in Seq(Messages)
    BY <1>1, <1>2, <1>3
  <2>2. TypeOK
    BY DEF ListsInv
  <2> QED
    BY <1>1, <2>1, <2>2, AtRest, Zenon DEF TypeOK
<1>9. MemoryInv'
  <2>1. NextTurn' = NextTurn
    BY <1>1 DEF NextTurn, InLoop
  <2> QED
    BY <1>1, <2>1 DEF ListsInv, MemoryInv
<1>10. CallInv' /\ LoopInv' /\ SummaryInv'
  BY <1>1 DEF ListsInv, CallInv, LoopInv, SummaryInv, InLoop
<1> QED
  BY <1>7, <1>8, <1>9, <1>10 DEF ListsInv

(* The results complete the round.                                         *)
LEMMA RoundDone ==
    ASSUME ListsInv, pc = "running_tools", NEW chars \in Nat
    PROVE  LET R == ResultTurns(chars)
           IN  /\ R \in Seq(Messages)
               /\ Fit(messages \o R, Taken \o (new_turns \o R), turn, iteration + 1)
               /\ Rounds(new_turns \o R, turn, iteration + 1)
<1>1. /\ turn \in Nat /\ iteration \in Nat
      /\ messages \in Seq(Messages) /\ new_turns \in Seq(Messages)
  BY DEF ListsInv, TypeOK
<1>2. PICK n \in 1..MaxCalls : Awaits(n)
  BY DEF ListsInv, ToolsInv
<1>3. n \in Nat \ {0}
  BY LoopAssumption
<1> DEFINE m == CallTurn(turn, iteration, n)
           base == Front(messages)
           done == Front(new_turns)
           R == [c \in 1..n |-> ToolResult(<<turn, iteration, c>>, chars)]
           g == <<m>> \o R
<1>4. /\ base \in Seq(Messages) /\ messages = base \o <<m>>
      /\ done \in Seq(Messages) /\ new_turns = done \o <<m>>
  BY <1>1, <1>2, FrontAndLast DEF Awaits
<1>5. Fit(base, Taken \o done, turn, iteration) /\ Rounds(done, turn, iteration)
  BY <1>2 DEF Awaits
<1>6. m \in Messages /\ m.calls = RoundCalls(turn, iteration, n)
  BY <1>1, <1>3, CallTurnIs
<1>7. ResultTurns(chars) = R
  <2>1. Last(messages) = m
    BY <1>2 DEF Awaits
  <2>2. Cardinality(RoundCalls(turn, iteration, n)) = n
    BY <1>1, <1>3, RoundCallsCount
  <2>3. PendingCalls = n
    BY <1>6, <2>1, <2>2 DEF PendingCalls
  <2> QED
    BY <2>3 DEF ResultTurns
<1>8. IsToolTurn(g, turn, iteration, n, chars)
  BY <1>1, <1>3, ToolTurnShape DEF ToolTurn
<1>9. R \in Seq(Messages)
  <2>1. \A c \in 1..n : <<turn, iteration, c>> \in CallIds
    BY <1>1 DEF CallIds
  <2>2. \A c \in 1..n : ToolResult(<<turn, iteration, c>>, chars) \in Messages
    BY <2>1, ResultIs
  <2>3. R \in [1..n -> Messages]
    BY <2>2
  <2> QED
    BY <1>3, <2>3
<1> HIDE DEF R, m, base, done
<1>10. <<m>> \in Seq(Messages) /\ g \in Seq(Messages)
  BY <1>6, <1>9
<1>11. messages \o R = base \o g /\ new_turns \o R = done \o g
  BY <1>4, <1>9, <1>10, ConcatAssoc
<1>12. Taken \in Seq(Messages)
  BY TakenIs DEF ListsInv
<1> HIDE DEF g
<1>13. (Taken \o done) \o g = Taken \o (done \o g) /\ Taken \o done \in Seq(Messages)
  BY <1>4, <1>10, <1>12, ConcatAssoc
<1>14. Fit(base \o g, (Taken \o done) \o g, turn, iteration + 1)
  BY <1>1, <1>3, <1>5, <1>8, <1>13, FitLonger
<1>15. Rounds(done \o g, turn, iteration + 1)
  BY <1>1, <1>3, <1>5, <1>8, RoundsGrow
<1> QED
  BY <1>7, <1>9, <1>11, <1>13, <1>14, <1>15

-----------------------------------------------------------------------------
(* What the turn's end stores.                                             *)
LEMMA Stores ==
    ASSUME ListsInv, Answer \/ GiveUp
    PROVE  /\ pc \in {"requesting", "retrying", "running_tools"} /\ pc' = "screening_output"
           /\ UNCHANGED <<entry, incoming, turn>>
           /\ memory' = IF entry = "session" THEN memory \o new_turns' ELSE memory
           /\ messages' \in Seq(Messages)
           /\ IsReplyOfTurn(new_turns') /\ Proper(new_turns')
           /\ \A c \in CallsOf(new_turns') : c[1] = turn
<1>1. /\ turn \in Nat /\ iteration \in Nat
      /\ messages \in Seq(Messages) /\ new_turns \in Seq(Messages)
  BY DEF ListsInv, TypeOK
<1>2. CASE Answer
  <2>1. PICK chars \in ReplySizes : Persist(<<Message("assistant", chars)>>)
    BY <1>2 DEF Answer
  <2> DEFINE m == Message("assistant", chars)
  <2>2. chars \in Nat
    BY LoopAssumption
  <2>3. m \in Messages /\ m.role = "assistant" /\ m.body = "text" /\ m.calls = {}
    BY <2>2 DEF Message, Messages, NoId
  <2>4. /\ messages' = messages \o <<m>> /\ new_turns' = new_turns \o <<m>>
        /\ memory' = IF entry = "session" THEN memory \o new_turns' ELSE memory
        /\ pc' = "screening_output"
    BY <2>1 DEF Persist, Record
  <2>5. /\ pc \in {"requesting", "retrying", "running_tools"} /\ InLoop
        /\ UNCHANGED <<entry, incoming, turn>>
    BY <1>2 DEF Answer, Requesting, InLoop
  <2> HIDE DEF m
  <2>6. Rounds(new_turns, turn, iteration)
    BY <2>5 DEF ListsInv, LoopInv
  <2>7. /\ IsReplyOfTurn(new_turns') /\ Proper(new_turns')
        /\ CallsOf(new_turns') \subseteq CallsOf(new_turns)
    BY <2>3, <2>4, <2>6, RoundsReply
  <2>8. \A c \in CallsOf(new_turns') : c[1] = turn
    BY <2>6, <2>7 DEF Rounds, Earlier
  <2>9. messages' \in Seq(Messages)
    BY <1>1, <2>3, <2>4
  <2> QED
    BY <2>4, <2>5, <2>7, <2>8, <2>9
<1>3. CASE GiveUp
  <2>1. PICK chars \in ResultSizes :
           Persist(Append(ResultTurns(chars), Message("assistant", 36)))
    BY <1>3 DEF GiveUp
  <2> DEFINE m == Message("assistant", 36)
             R == ResultTurns(chars)
  <2>2. chars \in Nat
    BY LoopAssumption
  <2>3. m \in Messages /\ m.role = "assistant" /\ m.body = "text" /\ m.calls = {}
    BY DEF Message, Messages, NoId
  <2>4. pc = "running_tools" /\ UNCHANGED <<entry, incoming, turn>>
    BY <1>3 DEF GiveUp
  <2>5. R \in Seq(Messages) /\ Rounds(new_turns \o R, turn, iteration + 1)
    BY <2>2, <2>4, RoundDone
  <2>6. /\ messages' = messages \o Append(R, m) /\ new_turns' = new_turns \o Append(R, m)
        /\ memory' = IF entry = "session" THEN memory \o new_turns' ELSE memory
        /\ pc' = "screening_output"
    BY <2>1 DEF Persist, Record
  <2> HIDE DEF m, R
  <2>7. Append(R, m) = R \o <<m>> /\ Append(R, m) \in Seq(Messages) /\ <<m>> \in Seq(Messages)
    BY <2>3, <2>5
  <2>8. new_turns' = (new_turns \o R) \o <<m>>
    BY <1>1, <2>5, <2>6, <2>7, ConcatAssoc
  <2>9. /\ IsReplyOfTurn(new_turns') /\ Proper(new_turns')
        /\ CallsOf(new_turns') \subseteq CallsOf(new_turns \o R)
    BY <2>3, <2>5, <2>8, RoundsReply
  <2>10. \A c \in CallsOf(new_turns') : c[1] = turn
    BY <2>5, <2>9 DEF Rounds, Earlier
  <2>11. messages' \in Seq(Messages)
    BY <1>1, <2>6, <2>7
  <2> QED
    BY <2>4, <2>6, <2>9, <2>10, <2>11
<1> QED
  BY <1>2, <1>3

LEMMA StoreLists ==
    ASSUME ListsInv, Answer \/ GiveUp
    PROVE  ListsInv'
<1>1. /\ pc \in {"requesting", "retrying", "running_tools"} /\ pc' = "screening_output"
      /\ UNCHANGED <<entry, incoming, turn>>
      /\ memory' = IF entry = "session" THEN memory \o new_turns' ELSE memory
      /\ messages' \in Seq(Messages)
      /\ IsReplyOfTurn(new_turns') /\ Proper(new_turns')
      /\ \A c \in CallsOf(new_turns') : c[1] = turn
  BY Stores
<1>2. turn \in Nat /\ Proper(memory) /\ IsReal(memory) /\ Older(memory, turn)
  BY <1>1 DEF ListsInv, TypeOK, MemoryInv, NextTurn
<1>3. Proper(memory') /\ IsReal(memory') /\ Older(memory', turn + 1)
  <2>1. CASE entry = "session"
    <3>1. memory' = memory \o new_turns'
      BY <1>1, <2>1
    <3>2. CallsOf(memory) \cap CallsOf(new_turns') = {}
      BY <1>1, <1>2 DEF Older
    <3>3. /\ Proper(memory')
          /\ CallsOf(memory') \subseteq CallsOf(memory) \cup CallsOf(new_turns')
      BY <1>1, <1>2, <3>1, <3>2, ConcatProper
    <3>4. IsReal(new_turns')
      BY <1>1 DEF IsReplyOfTurn, Genuine, IsReal
    <3>5. IsReal(memory')
      BY <1>1, <1>2, <3>1, <3>4, ConcatReal DEF Proper
    <3>6. Older(memory, turn + 1)
      BY <1>2, OlderLater
    <3>7. \A c \in CallsOf(new_turns') : c[1] < turn + 1
      BY <1>1, <1>2
    <3> QED
      BY <3>3, <3>5, <3>6, <3>7 DEF Older
  <2>2. CASE entry # "session"
    BY <1>1, <1>2, <2>2, OlderLater
  <2> QED
    BY <2>1, <2>2
<1>4. MemoryInv'
  <2>1. NextTurn' = turn + 1
    BY <1>1 DEF NextTurn
  <2> QED
    BY <1>3, <2>1 DEF MemoryInv
<1>5. TypeOK'
  <2>1. /\ iteration' \in 0..MaxIterations /\ reactive' \in BOOLEAN /\ force' \in BOOLEAN
        /\ model_calls' \in Nat
    <3>1. CASE Answer
      BY <3>1 DEF Answer, ListsInv, TypeOK
    <3>2. CASE GiveUp
      BY <3>2, LoopAssumption DEF GiveUp, ListsInv, TypeOK
    <3> QED
      BY <3>1, <3>2
  <2>2. memory' \in Seq(Messages) /\ new_turns' \in Seq(Messages)
    BY <1>1, <1>3 DEF Proper
  <2>3. TypeOK
    BY DEF ListsInv
  <2> QED
    BY <1>1, <2>1, <2>2, <2>3, Zenon DEF TypeOK
<1>6. CallInv' /\ LoopInv' /\ SummaryInv' /\ ToolsInv'
  BY <1>1 DEF ListsInv, CallInv, LoopInv, InLoop, SummaryInv, ToolsInv
<1> QED
  BY <1>4, <1>5, <1>6 DEF ListsInv

LEMMA ToolsReturnLists ==
    ASSUME ListsInv, ToolsReturn
    PROVE  ListsInv'
<1>1. PICK chars \in ResultSizes : Record(ResultTurns(chars))
  BY DEF ToolsReturn
<1> DEFINE R == ResultTurns(chars)
<1>2. /\ pc = "running_tools" /\ pc' = "compacting"
      /\ iteration' = iteration + 1 /\ iteration + 1 < MaxIterations
      /\ messages' = messages \o R /\ new_turns' = new_turns \o R
      /\ UNCHANGED <<entry, incoming, memory, reactive, force, turn, model_calls>>
  BY <1>1 DEF ToolsReturn, Record
<1>3. chars \in Nat
  BY LoopAssumption
<1>4. /\ Fit(messages \o R, Taken \o (new_turns \o R), turn, iteration + 1)
      /\ Rounds(new_turns \o R, turn, iteration + 1)
  BY <1>2, <1>3, RoundDone
<1> HIDE DEF R
<1>5. LoopInv'
  <2>1. Taken' = Taken
    BY <1>2 DEF Taken
  <2>2. Fit(messages', Taken' \o new_turns', turn', iteration') /\
          Rounds(new_turns', turn', iteration')
    BY <1>2, <1>4, <2>1
  <2> QED
    BY <2>2 DEF LoopInv
<1>6. TypeOK'
  <2>1. messages' \in Seq(Messages) /\ new_turns' \in Seq(Messages)
    BY <1>2, <1>4 DEF Fit, Rounds, Proper
  <2>2. iteration' \in 0..MaxIterations
    BY <1>2, LoopAssumption DEF ListsInv, TypeOK
  <2>3. TypeOK
    BY DEF ListsInv
  <2> QED
    BY <1>2, <2>1, <2>2, <2>3, Zenon DEF TypeOK
<1>7. MemoryInv'
  <2>1. NextTurn' = NextTurn
    BY <1>2 DEF NextTurn
  <2> QED
    BY <1>2, <2>1 DEF ListsInv, MemoryInv
<1>8. CallInv' /\ SummaryInv' /\ ToolsInv'
  BY <1>2 DEF ListsInv, CallInv, SummaryInv, ToolsInv
<1> QED
  BY <1>5, <1>6, <1>7, <1>8 DEF ListsInv

LEMMA StepLists == ListsInv /\ [Next]_vars => ListsInv'
<1> SUFFICES ASSUME ListsInv, [Next]_vars
             PROVE  ListsInv'
  OBVIOUS
<1>1. ASSUME NEW e \in {"session", "messages"}, NEW inc \in Incoming[e], Begin(e, inc)
      PROVE  ListsInv'
  BY <1>1, BeginLists
<1>2. CASE BlockInput \/ Fail \/ Finish
  BY <1>2, LeaveLists DEF BlockInput, Fail, Finish
<1>3. CASE EnterLoop
  BY <1>3, EnterLists
<1>4. CASE SendAsIs \/ Compact \/ SendSummarized \/ Overflow
  BY <1>4, CompactionLists
<1>5. CASE Answer \/ GiveUp
  BY <1>5, StoreLists
<1>6. ASSUME NEW n \in 1..MaxCalls, CallTools(n)
      PROVE  ListsInv'
  BY <1>6, CallToolsLists
<1>7. CASE ToolsReturn
  BY <1>7, ToolsReturnLists
<1>8. CASE UNCHANGED vars
  BY <1>8 DEF vars, loop, ListsInv, TypeOK, MemoryInv, NextTurn, CallInv, LoopInv, InLoop,
              Taken, SummaryInv, ToolsInv, Awaits
<1> QED
  BY <1>1, <1>2, <1>3, <1>4, <1>5, <1>6, <1>7, <1>8 DEF Next, TurnStep

LEMMA ListsAlways == Spec => []ListsInv
  BY InitLists, StepLists, PTL DEF Spec

(* The variables keep their types, the ids of calls and the sizes of       *)
(* messages unbounded.                                                     *)
THEOREM TypeCorrect == Spec => []TypeOK
<1>1. ListsInv => TypeOK
  BY DEF ListsInv
<1> QED
  BY ListsAlways, <1>1, PTL

(* Every list sent to the model, and every prefix sent to be summarized,   *)
(* is one a chat endpoint accepts, through any number of compactions and   *)
(* rounds (_run_loop, _maybe_compact and compaction.py).                   *)
THEOREM RequestsWellPaired == Spec => []RequestsAreWellPaired
<1>1. ListsInv => RequestsAreWellPaired
  <2> SUFFICES ASSUME ListsInv
               PROVE  RequestsAreWellPaired
    OBVIOUS
  <2>1. InLoop => Proper(messages)
    BY DEF ListsInv, LoopInv, Fit
  <2>2. Requesting => WellPaired(messages)
    BY <2>1 DEF Requesting, InLoop, Proper
  <2>3. ASSUME pc = "summarizing"
        PROVE  WellPaired(Prefix(messages, SplitOf(messages)))
    <3>1. Proper(messages)
      BY <2>1, <2>3 DEF InLoop
    <3> DEFINE k == SplitOf(messages)
    <3>2. k \in 0..Len(messages) /\ Safe(messages, k)
      BY <3>1, SplitIs DEF SplitOf
    <3> HIDE DEF k
    <3>3. WellPaired(Prefix(messages, k))
      BY <3>1, <3>2, SafeBoundary DEF Safe
    <3> QED
      BY <3>3 DEF k
  <2> QED
    BY <2>2, <2>3 DEF RequestsAreWellPaired
<1> QED
  BY ListsAlways, <1>1, PTL

(* An enforced system prompt starts every request and is the only system   *)
(* message in it, whatever the caller sends and through any compaction     *)
(* (_with_system_prompt).                                                  *)
THEOREM PromptAlwaysGoverns == Spec => []PromptGoverns
<1>1. ListsInv => PromptGoverns
  BY DEF ListsInv, LoopInv, InLoop, Requesting, Fit, Governs, PromptGoverns
<1> QED
  BY ListsAlways, <1>1, PTL

(* The newest message, of the caller or of the loop, ends every request as *)
(* it was said: no compaction clears or summarizes it.                     *)
THEOREM NewestAlwaysShown == Spec => []NewestIsShown
<1>1. ListsInv => NewestIsShown
  BY DEF ListsInv, LoopInv, InLoop, Requesting, Fit, EndsWith, NewestIsShown, Last
<1> QED
  BY ListsAlways, <1>1, PTL

-----------------------------------------------------------------------------
(* The memory is a Conversation: a question, then a whole reply or none.   *)
IsOpen == entry = "session" /\ pc \notin {"idle", "screening_input", "screening_output"}

LEMMA StepStored == ListsInv /\ [Next]_vars => [Stored!Next]_(Stored!vars)
<1> SUFFICES ASSUME ListsInv, [Next]_vars
             PROVE  [Stored!Next]_(Stored!vars)
  OBVIOUS
<1>a. memory \in Seq(Messages) /\ Proper(memory)
  BY DEF ListsInv, MemoryInv, TypeOK
<1>s. ASSUME UNCHANGED memory, IsOpen' <=> IsOpen
      PROVE  UNCHANGED Stored!vars
  BY <1>s DEF Stored!vars, IsOpen
<1>b. ASSUME UNCHANGED memory, IsOpen, ~IsOpen'
      PROVE  Stored!Abandon
  BY <1>b DEF Stored!Abandon, IsOpen
<1>1. ASSUME NEW e, NEW inc, Begin(e, inc)
      PROVE  UNCHANGED Stored!vars
  <2>1. UNCHANGED memory /\ ~IsOpen /\ ~IsOpen'
    BY <1>1 DEF Begin, IsOpen
  <2> QED
    BY <2>1, <1>s
<1>2. CASE BlockInput \/ Fail \/ Finish
  <2>1. UNCHANGED memory /\ ~IsOpen'
    BY <1>2 DEF BlockInput, Fail, Finish, Leave, IsOpen
  <2> QED
    BY <2>1, <1>s, <1>b DEF Stored!Next
<1>3. CASE EnterLoop
  <2> DEFINE q == Spoken(incoming)
  <2>1. /\ pc = "screening_input" /\ pc' = "compacting" /\ entry' = entry
        /\ memory' = IF entry = "session" THEN memory \o q ELSE memory
    BY <1>3 DEF EnterLoop
  <2>2. Proper(q) /\ Genuine(q)
    BY <2>1, QuestionIs
  <2> HIDE DEF q
  <2>3. CASE entry # "session"
    <3>1. UNCHANGED memory /\ ~IsOpen /\ ~IsOpen'
      BY <2>1, <2>3 DEF IsOpen
    <3> QED
      BY <3>1, <1>s
  <2>4. CASE entry = "session"
    <3>1. ~IsOpen /\ IsOpen' /\ memory' = memory \o q
      BY <2>1, <2>4 DEF IsOpen
    <3>2. IsPrefix(memory, memory') /\ SubSeq(memory', Len(memory) + 1, Len(memory')) = q
      BY <1>a, <2>2, <3>1, PrefixOfConcat DEF Proper
    <3>3. Stored!Ask
      BY <2>2, <3>1, <3>2 DEF Stored!Ask, Stored!Added, Stored!IsPrefix, IsPrefix, IsOpen
    <3> QED
      BY <3>3 DEF Stored!Next
  <2> QED
    BY <2>3, <2>4
<1>4. CASE SendAsIs \/ Compact \/ SendSummarized \/ Overflow \/ ToolsReturn
  <2>1. UNCHANGED <<memory, entry>>
    BY <1>4 DEF SendAsIs, Compact, SendSummarized, Overflow, ToolsReturn
  <2>2. /\ pc \in {"compacting", "summarizing", "requesting", "running_tools"}
        /\ pc' \in {"compacting", "summarizing", "requesting", "retrying"}
    BY <1>4 DEF SendAsIs, Compact, SendSummarized, Overflow, ToolsReturn, NextRequest
  <2>3. IsOpen' <=> IsOpen
    BY <2>1, <2>2 DEF IsOpen
  <2> QED
    BY <2>1, <2>3, <1>s
<1>5. CASE Answer \/ GiveUp
  <2>1. /\ pc \in {"requesting", "retrying", "running_tools"} /\ pc' = "screening_output"
        /\ UNCHANGED entry
        /\ memory' = IF entry = "session" THEN memory \o new_turns' ELSE memory
        /\ IsReplyOfTurn(new_turns') /\ Proper(new_turns')
    BY <1>5, Stores
  <2>2. CASE entry # "session"
    <3>1. UNCHANGED memory /\ ~IsOpen /\ ~IsOpen'
      BY <2>1, <2>2 DEF IsOpen
    <3> QED
      BY <3>1, <1>s
  <2>3. CASE entry = "session"
    <3>1. IsOpen /\ ~IsOpen' /\ memory' = memory \o new_turns'
      BY <2>1, <2>3 DEF IsOpen
    <3>2. /\ IsPrefix(memory, memory')
          /\ SubSeq(memory', Len(memory) + 1, Len(memory')) = new_turns'
      BY <1>a, <2>1, <3>1, PrefixOfConcat DEF Proper
    <3>3. Stored!Reply
      BY <2>1, <3>1, <3>2 DEF Stored!Reply, Stored!Added, Stored!IsPrefix, IsPrefix, IsOpen
    <3> QED
      BY <3>3 DEF Stored!Next
  <2> QED
    BY <2>2, <2>3
<1>6. ASSUME NEW n, CallTools(n)
      PROVE  UNCHANGED Stored!vars
  <2>1. UNCHANGED memory
    BY <1>6 DEF CallTools
  <2>2. IsOpen' <=> IsOpen
    BY <1>6 DEF CallTools, Requesting, IsOpen
  <2> QED
    BY <2>1, <2>2, <1>s
<1>7. CASE UNCHANGED vars
  <2>1. UNCHANGED memory
    BY <1>7 DEF vars
  <2>2. IsOpen' <=> IsOpen
    BY <1>7 DEF vars, IsOpen
  <2> QED
    BY <2>1, <2>2, <1>s
<1> QED
  BY <1>1, <1>2, <1>3, <1>4, <1>5, <1>6, <1>7 DEF Next, TurnStep

(* The loop implements the conversation that its callers rely on: the      *)
(* stored history only grows, by a question and then by one complete reply *)
(* or nothing (run_session), and is left alone for a caller who owns his   *)
(* (run_messages).                                                         *)
THEOREM ImplementsConversation == Spec => ConversationSpec
<1>1. Init => Stored!Init
  BY DEF Init, Stored!Init
<1> QED
  BY ListsAlways, StepStored, <1>1, PTL DEF Spec, ConversationSpec, Stored!Spec

-----------------------------------------------------------------------------
(* What the rounds completed so far, and the reactive compaction, account  *)
(* for: an answer and a summary each.                                      *)
Extra == IF reactive THEN 2 ELSE 0
Spent == 2 * iteration + Extra

(* Where a round stands: the model is asked, or the tools run.             *)
Asking == pc = "requesting" \/ pc = "retrying" \/ pc = "running_tools"

Counters == iteration \in Nat /\ model_calls \in Nat

(* How many calls have been made where the turn stands now.                *)
Cost ==
    /\ (pc = "idle" \/ pc = "screening_input") => model_calls = 0
    /\ (pc = "compacting" \/ pc = "summarizing" \/ Asking) => iteration < MaxIterations
    /\ pc = "compacting" => model_calls <= Spent
    /\ pc = "summarizing" => model_calls <= Spent + 1
    /\ Asking => model_calls <= Spent + 2

CostInv == Counters /\ ModelCallsAreBounded /\ Cost

(* The reactive compaction is accounted for at most once.                  *)
LEMMA ExtraValue == Extra = 0 \/ Extra = 2
  BY DEF Extra

LEMMA ExtraKept == UNCHANGED reactive => UNCHANGED Extra
  BY DEF Extra

LEMMA SpentAtStart == iteration' = 0 /\ Extra' = 0 => Spent' = 0
  BY DEF Spent

LEMMA SpentGrows ==
    iteration \in Nat /\ iteration' = iteration + 1 /\ UNCHANGED Extra => Spent' = Spent + 2
  BY ExtraValue DEF Spent

LEMMA RoundsBound == MaxIterations \in Nat /\ MaxIterations >= 1
  BY LoopAssumption

LEMMA InitCost == Init => CostInv
  BY RoundsBound DEF Init, CostInv, Counters, ModelCallsAreBounded, Cost, Asking

LEMMA LeaveCost == ASSUME Leave PROVE CostInv'
<1>1. pc' = "idle" /\ iteration' = 0 /\ model_calls' = 0
  BY DEF Leave
<1>2. (Counters /\ ModelCallsAreBounded)'
  BY <1>1, RoundsBound DEF Counters, ModelCallsAreBounded
<1>3. Cost'
  BY <1>1 DEF Cost, Asking
<1> QED
  BY <1>2, <1>3 DEF CostInv

(* A step that leaves the counts alone and moves within a round.           *)
LEMMA RoundCost ==
    ASSUME CostInv, Asking, UNCHANGED <<iteration, Extra, model_calls>>,
           pc' = "running_tools" \/ pc' = "screening_output"
    PROVE  CostInv'
<1>1. UNCHANGED Spent
  BY DEF Spent
<1> QED
  BY <1>1 DEF CostInv, Counters, ModelCallsAreBounded, Cost, Asking

LEMMA StepCost == CostInv /\ [Next]_vars => CostInv'
<1> SUFFICES ASSUME CostInv, [Next]_vars
             PROVE  CostInv'
  OBVIOUS
<1> USE DEF Counters, ModelCallsAreBounded, Cost, Asking
<1>1. ASSUME NEW e, NEW inc, Begin(e, inc)
      PROVE  CostInv'
  BY <1>1 DEF Begin, loop, CostInv
<1>2. CASE BlockInput \/ Fail \/ Finish
  BY <1>2, LeaveCost DEF BlockInput, Fail, Finish
<1>3. CASE EnterLoop
  <2> HIDE DEF Cost
  <2>1. /\ pc = "screening_input" /\ pc' = "compacting"
        /\ iteration' = 0 /\ Extra' = 0 /\ UNCHANGED model_calls
    BY <1>3 DEF EnterLoop, Extra
  <2>2. model_calls' = 0
    BY <2>1 DEF CostInv, Cost
  <2>3. Spent' = 0
    BY <2>1, SpentAtStart
  <2>4. model_calls' <= Spent' /\ iteration' < MaxIterations
    BY <2>1, <2>2, <2>3, RoundsBound
  <2>5. Cost'
    BY <2>1, <2>4, Zenon DEF Cost
  <2>6. (Counters /\ ModelCallsAreBounded)'
    BY <2>1, <2>2, RoundsBound
  <2> QED
    BY <2>5, <2>6, Zenon DEF CostInv
<1>4. CASE SendAsIs \/ Compact \/ SendSummarized
  <2>1. UNCHANGED <<iteration, Extra>> /\ model_calls' = model_calls + 1
    BY <1>4, ExtraKept DEF SendAsIs, Compact, SendSummarized, loop
  <2>2. \/ pc = "compacting" /\ pc' = "summarizing"
        \/ (pc = "compacting" \/ pc = "summarizing") /\ Asking'
    BY <1>4 DEF SendAsIs, Compact, SendSummarized, NextRequest
  <2> QED
    BY <2>1, <2>2, RoundsBound, ExtraValue DEF CostInv, Spent
<1>5. CASE Answer
  <2>1. /\ Asking /\ pc' = "screening_output"
        /\ UNCHANGED <<iteration, Extra, model_calls>>
    BY <1>5, ExtraKept DEF Answer, Requesting, Persist
  <2> QED
    BY <2>1, RoundCost
<1>6. ASSUME NEW n, CallTools(n)
      PROVE  CostInv'
  <2>1. /\ Asking /\ pc' = "running_tools"
        /\ UNCHANGED <<iteration, Extra, model_calls>>
    BY <1>6, ExtraKept DEF CallTools, Requesting
  <2> QED
    BY <2>1, RoundCost
<1>7. CASE Overflow
  <2>1. Extra = 0 /\ Extra' = 2
    BY <1>7 DEF Overflow, Extra
  <2> QED
    BY <1>7, <2>1 DEF Overflow, CostInv, Spent
<1>8. CASE ToolsReturn
  <2>1. /\ Asking /\ pc' = "compacting"
        /\ iteration + 1 < MaxIterations /\ iteration' = iteration + 1
        /\ UNCHANGED <<Extra, model_calls>>
    BY <1>8, ExtraKept DEF ToolsReturn
  <2>2. model_calls <= Spent + 2
    BY <2>1 DEF CostInv
  <2>3. Spent' = Spent + 2
    BY <2>1, SpentGrows DEF CostInv
  <2> QED
    BY <2>1, <2>2, <2>3 DEF CostInv
<1>9. CASE GiveUp
  <2>1. /\ pc' = "screening_output" /\ iteration' = iteration + 1
        /\ UNCHANGED model_calls
    BY <1>9 DEF GiveUp, Persist
  <2> QED
    BY <2>1 DEF CostInv
<1>10. CASE UNCHANGED vars
  <2>1. UNCHANGED <<pc, iteration, model_calls, Extra>>
    BY <1>10, ExtraKept DEF vars, loop
  <2> QED
    BY <2>1 DEF CostInv, Spent
<1> QED
  BY <1>1, <1>2, <1>3, <1>4, <1>5, <1>6, <1>7, <1>8, <1>9, <1>10 DEF Next, TurnStep

(* A run calls the model at most twice per round, for an answer and for a  *)
(* summary, and twice more for its one reactive compaction (_run_loop).    *)
THEOREM CostIsBounded == Spec => []ModelCallsAreBounded
<1>1. CostInv => ModelCallsAreBounded
  BY DEF CostInv
<1> QED
  BY InitCost, StepCost, <1>1, PTL DEF Spec

-----------------------------------------------------------------------------
(* How a list may be compacted (compaction.py).                            *)

(* The tokens of a list add up, from either end.                           *)
IsSum(f, h) ==
    f = [k \in 0..Len(h) |-> IF k = 0 THEN 0 ELSE f[k - 1] + EstimateMessage(h[k])]

LEMMA EstimateIs == ASSUME NEW m \in Messages PROVE EstimateMessage(m) \in Nat
<1>1. m.chars \in Nat
  BY DEF Messages
<1> QED
  BY <1>1 DEF EstimateMessage

LEMMA SumType ==
    ASSUME NEW h \in Seq(Messages), NEW f, IsSum(f, h)
    PROVE  /\ f \in [0..Len(h) -> Nat] /\ f[0] = 0
           /\ \A n \in 1..Len(h) : f[n] = f[n - 1] + EstimateMessage(h[n])
<1> DEFINE N == Len(h)
           T == {n \in 0..N : f[n] \in Nat}
<1>1. N \in Nat
  OBVIOUS
<1>2. f[0] = 0
  <2>1. 0 \in 0..Len(h)
    BY <1>1
  <2> QED
    BY <2>1, Zenon DEF IsSum
<1>3. ASSUME NEW n \in 1..N
      PROVE  f[n] = f[n - 1] + EstimateMessage(h[n])
  <2>1. n \in 0..Len(h) /\ n # 0
    OBVIOUS
  <2> QED
    BY <2>1, Zenon DEF IsSum
<1>4. \A n \in 1..N : n - 1 \in T => n \in T
  <2> SUFFICES ASSUME NEW n \in 1..N, f[n - 1] \in Nat
               PROVE  f[n] \in Nat
    OBVIOUS
  <2>1. EstimateMessage(h[n]) \in Nat
    BY EstimateIs
  <2> QED
    BY <1>3, <2>1
<1>5. 0..N \subseteq T
  <2>1. 0 \in T
    BY <1>1, <1>2
  <2> HIDE DEF T, N
  <2> QED
    BY <1>1, <1>4, <2>1, IntervalInduction
<1>6. f \in [0..N -> Nat]
  BY <1>5 DEF IsSum
<1> QED
  BY <1>2, <1>3, <1>6

LEMMA TokensAre ==
    ASSUME NEW h \in Seq(Messages)
    PROVE  \E f \in [0..Len(h) -> Nat] : IsSum(f, h) /\ Tokens(h) = f[Len(h)]
<1> DEFINE N == Len(h)
           step == [n \in 1..N |-> [v \in Nat |-> v + EstimateMessage(h[n])]]
           F == CHOOSE f : IsSum(f, h)
<1>1. N \in Nat
  OBVIOUS
<1>2. step \in [1..N -> [Nat -> Nat]]
  <2>1. \A n \in 1..N : EstimateMessage(h[n]) \in Nat
    BY EstimateIs
  <2> QED
    BY <2>1
<1>3. PICK f \in [0..N -> Nat] : Recurses(f, N, 0, step)
  <2> HIDE DEF step, N
  <2> QED
    BY <1>1, <1>2, PrimitiveRecursion
<1>4. ASSUME NEW n \in 1..N
      PROVE  step[n][f[n - 1]] = f[n - 1] + EstimateMessage(h[n])
  <2>1. f[n - 1] \in Nat
    OBVIOUS
  <2> QED
    BY <2>1
<1>5. IsSum(f, h)
  <2> HIDE DEF step
  <2>1. \A n \in 0..N : n # 0 => n \in 1..N
    BY <1>1
  <2> QED
    BY <1>3, <1>4, <2>1 DEF IsSum, Recurses
<1>6. IsSum(F, h)
  BY <1>5
<1>7. F \in [0..Len(h) -> Nat]
  BY <1>6, SumType
<1> QED
  BY <1>6, <1>7 DEF Tokens, IsSum

LEMMA TokensNat == ASSUME NEW h \in Seq(Messages) PROVE Tokens(h) \in Nat
<1>1. PICK f \in [0..Len(h) -> Nat] : Tokens(h) = f[Len(h)]
  BY TokensAre
<1>2. Len(h) \in 0..Len(h)
  OBVIOUS
<1> QED
  BY <1>1, <1>2

LEMMA TailGrows ==
    ASSUME NEW h \in Seq(Messages), NEW k \in 1..Len(h)
    PROVE  /\ Tokens(Suffix(h, k)) \in Nat
           /\ Tokens(Suffix(h, k - 1)) = EstimateMessage(h[k]) + Tokens(Suffix(h, k))
<1> DEFINE g == Suffix(h, k - 1)
           t == Suffix(h, k)
<1>1. Len(h) \in Nat /\ k \in 0..Len(h) /\ k - 1 \in 0..Len(h)
  OBVIOUS
<1>2. g \in Seq(Messages) /\ Len(g) = Len(h) - (k - 1) /\ \A p \in 1..Len(g) : g[p] = h[(k - 1) + p]
  BY <1>1, SuffixIs
<1>3. t \in Seq(Messages) /\ Len(t) = Len(h) - k /\ \A p \in 1..Len(t) : t[p] = h[k + p]
  BY <1>1, SuffixIs
<1> HIDE DEF g, t
<1> DEFINE N == Len(t)
<1>4. /\ N \in Nat /\ Len(g) = N + 1 /\ g[1] = h[k]
      /\ \A n \in 1..N : g[n + 1] = t[n]
  <2>1. N \in Nat /\ Len(g) = N + 1
    BY <1>1, <1>2, <1>3
  <2>2. g[1] = h[k]
    <3>1. 1 \in 1..Len(g) /\ (k - 1) + 1 = k
      BY <1>1, <2>1
    <3> QED
      BY <1>2, <3>1
  <2>3. ASSUME NEW n \in 1..N
        PROVE  g[n + 1] = t[n]
    <3>1. n + 1 \in 1..Len(g) /\ (k - 1) + (n + 1) = k + n
      BY <1>1, <2>1
    <3> QED
      BY <1>2, <1>3, <3>1
  <2> QED
    BY <2>1, <2>2, <2>3
<1>5. PICK f \in [0..Len(g) -> Nat] : IsSum(f, g) /\ Tokens(g) = f[Len(g)]
  BY <1>2, TokensAre
<1>6. PICK e \in [0..Len(t) -> Nat] : IsSum(e, t) /\ Tokens(t) = e[Len(t)]
  BY <1>3, TokensAre
<1>7. f[0] = 0 /\ \A n \in 1..(N + 1) : f[n] = f[n - 1] + EstimateMessage(g[n])
  <2>1. f[0] = 0 /\ \A n \in 1..Len(g) : f[n] = f[n - 1] + EstimateMessage(g[n])
    BY <1>2, <1>5, SumType
  <2> QED
    BY <1>4, <2>1
<1>8. e[0] = 0 /\ \A n \in 1..N : e[n] = e[n - 1] + EstimateMessage(t[n])
  BY <1>3, <1>6, SumType
<1>9. EstimateMessage(h[k]) \in Nat
  BY EstimateIs
<1> DEFINE first == EstimateMessage(h[k])
           T == {n \in 0..N : f[n + 1] = first + e[n]}
<1> HIDE DEF first
<1>10. 0 \in T
  <2>1. f[1] = f[0] + first
    <3>1. 1 \in 1..(N + 1) /\ 1 - 1 = 0
      BY <1>4
    <3> QED
      BY <1>4, <1>7, <3>1 DEF first
  <2> QED
    BY <1>4, <1>7, <1>8, <1>9, <2>1 DEF first
<1>11. ASSUME NEW n \in 1..N, n - 1 \in T
       PROVE  n \in T
  <2>1. f[n] = first + e[n - 1]
    <3>1. (n - 1) + 1 = n
      OBVIOUS
    <3> QED
      BY <1>11, <3>1
  <2>2. f[n + 1] = f[n] + EstimateMessage(t[n])
    <3>1. n + 1 \in 1..(N + 1) /\ (n + 1) - 1 = n
      BY <1>4
    <3> QED
      BY <1>4, <1>7, <3>1
  <2>3. e[n] = e[n - 1] + EstimateMessage(t[n])
    BY <1>8
  <2>4. e[n - 1] \in Nat /\ EstimateMessage(t[n]) \in Nat /\ first \in Nat
    <3>1. t[n] \in Messages /\ n - 1 \in 0..N
      BY <1>3, <1>4
    <3> QED
      BY <1>6, <1>9, <3>1, EstimateIs DEF first
  <2> QED
    BY <2>1, <2>2, <2>3, <2>4
<1>12. 0..N \subseteq T
  <2> HIDE DEF T, N
  <2> QED
    BY <1>4, <1>10, <1>11, IntervalInduction
<1>13. Tokens(g) = first + Tokens(t) /\ Tokens(t) \in Nat
  <2>1. N \in T
    <3>1. N \in 0..N
      BY <1>4
    <3> HIDE DEF T
    <3> QED
      BY <1>12, <3>1
  <2> QED
    BY <1>4, <1>5, <1>6, <2>1
<1> QED
  BY <1>13 DEF g, t, first

(* The longer tail has no fewer tokens.                                    *)
LEMMA TailsShrink ==
    ASSUME NEW h \in Seq(Messages), NEW b \in 0..Len(h), NEW k \in 0..b
    PROVE  Tokens(Suffix(h, k)) >= Tokens(Suffix(h, b))
<1> DEFINE S(j) == Tokens(Suffix(h, j))
           T == {j \in 0..b : S(b - j) >= S(b)}
<1>1. ASSUME NEW j \in 0..Len(h)
      PROVE  S(j) \in Nat
  <2>1. Suffix(h, j) \in Seq(Messages)
    BY SuffixIs
  <2> QED
    BY <2>1, TokensNat
<1>2. \A j \in 1..Len(h) : S(j - 1) = EstimateMessage(h[j]) + S(j) /\ EstimateMessage(h[j]) \in Nat
  BY TailGrows, EstimateIs
<1>3. b \in Nat /\ b <= Len(h) /\ Len(h) \in Nat
  OBVIOUS
<1> HIDE DEF S
<1>4. 0 \in T
  BY <1>1, <1>3
<1>5. ASSUME NEW j \in 1..b, j - 1 \in T
      PROVE  j \in T
  <2>1. /\ b - (j - 1) \in 1..Len(h) /\ (b - (j - 1)) - 1 = b - j
        /\ b - j \in 0..Len(h) /\ b - (j - 1) \in 0..Len(h) /\ b \in 0..Len(h)
    BY <1>3
  <2>2. S(b - (j - 1)) >= S(b)
    BY <1>5
  <2>3. S(b - j) >= S(b - (j - 1))
    <3> DEFINE n == b - (j - 1)
    <3>1. S(n - 1) = EstimateMessage(h[n]) + S(n) /\ EstimateMessage(h[n]) \in Nat
      BY <1>2, <2>1
    <3>2. S(n) \in Nat
      BY <1>1, <2>1
    <3> QED
      BY <2>1, <3>1, <3>2
  <2>4. S(b - j) >= S(b)
    BY <1>1, <2>1, <2>2, <2>3
  <2> QED
    BY <2>4
<1>6. 0..b \subseteq T
  <2> HIDE DEF T
  <2> QED
    BY <1>3, <1>4, <1>5, IntervalInduction
<1>7. b - k \in T /\ b - (b - k) = k
  <2>1. b - k \in 0..b /\ b - (b - k) = k
    BY <1>3
  <2> HIDE DEF T
  <2> QED
    BY <1>6, <2>1
<1> QED
  BY <1>7 DEF S
(* Where a list is split, its tail is long enough, and none shorter that   *)
(* is safe would be.                                                       *)
LEMMA TightSplit ==
    ASSUME NEW h, Proper(h), NEW keep \in Nat \ {0}
    PROVE  LET k == SafeSplitIndex(h, keep)
           IN  /\ k > 0 => Tokens(Suffix(h, k)) >= keep
               /\ \A later \in (k + 1)..Len(h) :
                     NoOrphan(Suffix(h, later)) => Tokens(Suffix(h, later)) < keep
<1> DEFINE b == Boundary(h, keep)
           k == SafeSplitIndex(h, keep)
           S(j) == Tokens(Suffix(h, j))
<1>1. h \in Seq(Messages) /\ Len(h) \in Nat
  BY DEF Proper
<1>2. /\ b \in 0..Len(h)
      /\ b = 0 \/ S(b) >= keep
      /\ \A j \in 0..(Len(h) - 1) : S(j) >= keep => j <= b
  BY <1>1, BoundaryIs
<1>3. k = SnapToSafe(h, b)
  BY DEF SafeSplitIndex
<1>4. ASSUME NEW j \in 0..Len(h)
      PROVE  S(j) \in Nat
  <2>1. Suffix(h, j) \in Seq(Messages)
    BY <1>1, SuffixIs
  <2> QED
    BY <2>1, TokensNat
<1>5. ASSUME NEW j \in 0..b
      PROVE  S(j) >= S(b)
  BY <1>1, <1>2, TailsShrink
<1>6. S(Len(h)) = 0
  <2>1. Suffix(h, Len(h)) \in Seq(Messages) /\ Len(Suffix(h, Len(h))) = 0
    <3>1. Len(h) \in 0..Len(h)
      BY <1>1
    <3> QED
      BY <1>1, <3>1, SuffixIs
  <2>2. PICK f \in [0..Len(Suffix(h, Len(h))) -> Nat] :
             IsSum(f, Suffix(h, Len(h))) /\ Tokens(Suffix(h, Len(h))) = f[Len(Suffix(h, Len(h)))]
    BY <2>1, TokensAre
  <2>3. f[0] = 0
    BY <2>1, <2>2, SumType
  <2> QED
    BY <2>1, <2>2, <2>3
<1> HIDE DEF S, k, b
<1>7. /\ k \in 0..b
      /\ \A r \in (k + 1)..b : ~Safe(h, r)
  BY <1>2, <1>3, SnapIs
<1>8. k > 0 => S(k) >= keep
  <2>1. SUFFICES ASSUME k > 0 PROVE S(k) >= keep
    OBVIOUS
  <2>2. k \in 0..Len(h) /\ S(b) >= keep
    BY <1>1, <1>2, <1>7, <2>1
  <2>3. S(k) >= S(b)
    BY <1>5, <1>7
  <2> QED
    BY <1>2, <1>4, <2>2, <2>3
<1>9. ASSUME NEW later \in (k + 1)..Len(h), NoOrphan(Suffix(h, later))
      PROVE  S(later) < keep
  <2>1. Safe(h, later)
    BY <1>9 DEF Safe, SelfConsistent, NoOrphan, Answers
  <2>2. later \in 0..Len(h) /\ ~(later <= b)
    BY <1>1, <1>2, <1>7, <2>1
  <2>3. CASE later = Len(h)
    BY <1>6, <2>3
  <2>4. CASE later \in 0..(Len(h) - 1)
    <3>1. ~(S(later) >= keep)
      BY <1>2, <2>2, <2>4
    <3> QED
      BY <1>4, <2>2, <3>1
  <2> QED
    BY <1>1, <2>2, <2>3, <2>4
<1> QED
  BY <1>8, <1>9 DEF S, k

(* Behind a system message a list is safe to split.                        *)
LEMMA SafeBehindSystem ==
    ASSUME NEW h, Proper(h), StartsWithSystem(h)
    PROVE  Safe(h, 1) /\ 1 \in 0..Len(h)
<1> DEFINE g == Suffix(h, 1)
<1>1. h \in Seq(Messages) /\ DOMAIN h = 1..Len(h) /\ Len(h) \in Nat /\ 1 \in 0..Len(h)
  BY DEF Proper, StartsWithSystem
<1>2. g \in Seq(Messages) /\ Len(g) = Len(h) - 1 /\ \A p \in 1..Len(g) : g[p] = h[1 + p]
  BY <1>1, SuffixIs
<1> HIDE DEF g
<1>3. h[1].calls = {} /\ h[1].role = "system"
  BY <1>1 DEF Proper, OnlyAssistantsCall, StartsWithSystem
<1>4. ASSUME NEW p \in ToolPositions(g)
      PROVE  \E q \in DOMAIN g : g[p].id \in g[q].calls
  <2>1. p \in 1..Len(g) /\ 1 + p \in ToolPositions(h) /\ g[p] = h[1 + p]
    BY <1>1, <1>2 DEF ToolPositions
  <2>2. PICK q \in DOMAIN h : Answers(h, 1 + p, q)
    BY <2>1 DEF Proper, WellPaired, NoOrphan
  <2>3. q # 1 /\ g[p].id \in h[q].calls
    BY <1>3, <2>1, <2>2 DEF Answers
  <2>4. q - 1 \in 1..Len(g) /\ 1 + (q - 1) = q
    BY <1>1, <1>2, <2>3
  <2>5. g[q - 1] = h[q] /\ q - 1 \in DOMAIN g
    BY <1>2, <2>4
  <2> QED
    BY <2>3, <2>5
<1> QED
  BY <1>1, <1>4 DEF Safe, SelfConsistent, g

(* What build_compacted puts in front of the tail, and the tail.           *)
Lead(h, chars) == IF StartsWithSystem(h) THEN <<h[1], Summary(chars)>> ELSE <<Summary(chars)>>

LEMMA CompactedIs ==
    ASSUME NEW h \in Seq(Messages), NEW chars, NEW k \in 0..Len(h)
    PROVE  LET j == IF StartsWithSystem(h) /\ k = 0 THEN 1 ELSE k
           IN  BuildCompacted(h, chars, k) = Lead(h, chars) \o Suffix(h, j) /\ j \in 0..Len(h)
<1>1. k \in Nat /\ Len(h) \in Nat /\ (StartsWithSystem(h) => Len(h) >= 1)
  BY DEF StartsWithSystem
<1>2. Max({k, 1}) = IF k = 0 THEN 1 ELSE k
  <2>1. {k, 1} \in SUBSET (0..(k + 1)) /\ {k, 1} # {} /\ k + 1 \in Nat
    BY <1>1
  <2>2. Max({k, 1}) \in {k, 1} /\ k <= Max({k, 1}) /\ 1 <= Max({k, 1})
    BY <2>1, MaxIs
  <2> QED
    BY <1>1, <2>2
<1> DEFINE j == IF StartsWithSystem(h) /\ k = 0 THEN 1 ELSE k
<1>3. j \in 0..Len(h)
  BY <1>1
<1>4. CASE StartsWithSystem(h)
  <2>1. Max({k, 1}) = j
    BY <1>2, <1>4
  <2> QED
    BY <1>3, <1>4, <2>1, Zenon DEF BuildCompacted, Lead
<1>5. CASE ~StartsWithSystem(h)
  <2>1. k = j
    BY <1>5
  <2> QED
    BY <1>3, <1>5, <2>1, Zenon DEF BuildCompacted, Lead
<1> QED
  BY <1>4, <1>5

LEMMA LeadIs ==
    ASSUME NEW h, Proper(h), NEW chars \in Nat
    PROVE  /\ Lead(h, chars) \in Seq(Messages) /\ WellPaired(Lead(h, chars))
           /\ StartsWithSystem(h) => Lead(h, chars)[1] = h[1] /\ Len(Lead(h, chars)) >= 1
<1> DEFINE s == Summary(chars)
<1>1. s \in Messages /\ s.role = "user" /\ s.calls = {}
  BY SummaryIs
<1> HIDE DEF s
<1>2. WellPaired(<<s>>) /\ <<s>> \in Seq(Messages)
  BY <1>1, LoneMessage DEF Proper
<1>3. ASSUME StartsWithSystem(h)
      PROVE  /\ <<h[1], s>> \in Seq(Messages) /\ WellPaired(<<h[1], s>>)
             /\ <<h[1], s>>[1] = h[1] /\ Len(<<h[1], s>>) >= 1
  <2>1. h[1] \in Messages /\ h[1].role = "system" /\ h[1].calls = {}
    BY <1>3 DEF StartsWithSystem, Proper, OnlyAssistantsCall
  <2>2. WellPaired(<<h[1]>>) /\ <<h[1]>> \in Seq(Messages)
    BY <2>1, LoneMessage DEF Proper
  <2>3. <<h[1], s>> = <<h[1]>> \o <<s>>
    OBVIOUS
  <2>4. WellPaired(<<h[1], s>>)
    BY <1>2, <2>2, <2>3, ConcatPaired
  <2> QED
    BY <1>1, <2>1, <2>4
<1> QED
  BY <1>2, <1>3 DEF Lead, s

LEMMA SplitPairs ==
    ASSUME NEW h, Proper(h), NEW keep, NEW chars \in Nat
    PROVE  LET k == SafeSplitIndex(h, keep)
           IN  WellPaired(BuildCompacted(h, chars, k)) /\ WellPaired(Prefix(h, k))
<1> DEFINE k == SafeSplitIndex(h, keep)
           j == IF StartsWithSystem(h) /\ k = 0 THEN 1 ELSE k
<1>1. h \in Seq(Messages)
  BY DEF Proper
<1>2. k \in 0..Len(h) /\ Safe(h, k)
  BY SplitIs
<1> HIDE DEF k
<1>3. BuildCompacted(h, chars, k) = Lead(h, chars) \o Suffix(h, j) /\ j \in 0..Len(h)
  BY <1>1, <1>2, CompactedIs
<1>4. Safe(h, j)
  BY <1>2, SafeBehindSystem
<1> HIDE DEF j
<1>5. WellPaired(Suffix(h, j)) /\ Suffix(h, j) \in Seq(Messages)
  BY <1>1, <1>3, <1>4, SafeBoundary, SuffixIs DEF Safe
<1>6. WellPaired(BuildCompacted(h, chars, k))
  BY <1>3, <1>5, LeadIs, ConcatPaired
<1>7. WellPaired(Prefix(h, k))
  BY <1>2, SafeBoundary DEF Safe
<1> QED
  BY <1>6, <1>7 DEF k

LEMMA EndsStay ==
    ASSUME NEW h, Proper(h), NEW keep, NEW chars \in Nat
    PROVE  LET k == SafeSplitIndex(h, keep)
               g == BuildCompacted(Microcompact(h, 3), chars, k)
           IN  /\ StartsWithSystem(h) => g[1] = h[1]
               /\ h # <<>> /\ (StartsWithSystem(h) => Len(h) > 1) => g[Len(g)] = h[Len(h)]
<1> DEFINE k == SafeSplitIndex(h, keep)
           m == Microcompact(h, 3)
           g == BuildCompacted(m, chars, k)
           j == IF StartsWithSystem(m) /\ k = 0 THEN 1 ELSE k
<1>1. h \in Seq(Messages) /\ Len(h) \in Nat
  BY DEF Proper
<1>2. /\ m \in Seq(Messages) /\ Len(m) = Len(h)
      /\ \A p \in 1..Len(h) :
            /\ m[p].role = h[p].role /\ m[p].calls = h[p].calls /\ m[p].id = h[p].id
            /\ h[p].role # "tool" => m[p] = h[p]
  BY <1>1, MicroIs
<1>3. Proper(m)
  BY <1>1, <1>2, SameSkeleton DEF Proper
<1>4. h # <<>> => m[Len(h)] = h[Len(h)]
  BY <1>1, NewestIsKept
<1>5. k \in 0..Len(h) /\ (h # <<>> => k < Len(h))
  BY SplitIs
<1> HIDE DEF m, k
<1>6. /\ StartsWithSystem(m) <=> StartsWithSystem(h)
      /\ StartsWithSystem(h) => m[1] = h[1]
  BY <1>1, <1>2 DEF StartsWithSystem
<1>7. g = Lead(m, chars) \o Suffix(m, j) /\ j \in 0..Len(m)
  BY <1>2, <1>5, CompactedIs
<1>8. /\ Lead(m, chars) \in Seq(Messages)
      /\ StartsWithSystem(m) => Lead(m, chars)[1] = m[1] /\ Len(Lead(m, chars)) >= 1
  BY <1>3, LeadIs
<1>9. ASSUME StartsWithSystem(h)
      PROVE  g[1] = h[1]
  <2>1. Suffix(m, j) \in Seq(Messages)
    BY <1>2, <1>7, SuffixIs
  <2>2. 1 \in 1..Len(Lead(m, chars)) /\ Lead(m, chars)[1] = h[1]
    BY <1>6, <1>8, <1>9
  <2> HIDE DEF j, g
  <2> QED
    BY <1>7, <1>8, <2>1, <2>2, ConcatIs
<1>10. ASSUME h # <<>>, StartsWithSystem(h) => Len(h) > 1
       PROVE  g[Len(g)] = h[Len(h)]
  <2>1. j \in 0..Len(m) /\ j < Len(m) /\ j \in Nat
    BY <1>1, <1>2, <1>5, <1>6, <1>7, <1>10
  <2> HIDE DEF j
  <2> DEFINE t == Suffix(m, j)
             l == Lead(m, chars)
  <2>2. t \in Seq(Messages) /\ Len(t) = Len(m) - j /\ \A p \in 1..Len(t) : t[p] = m[j + p]
    BY <1>2, <2>1, SuffixIs
  <2>3. g = l \o t /\ l \in Seq(Messages)
    BY <1>7, <1>8
  <2> HIDE DEF t, l, g
  <2>4. Len(t) \in 1..Len(t) /\ j + Len(t) = Len(h) /\ t[Len(t)] = h[Len(h)]
    <3>1. Len(t) \in 1..Len(t) /\ j + Len(t) = Len(h)
      BY <1>1, <1>2, <2>1, <2>2
    <3> QED
      BY <1>4, <1>10, <2>2, <3>1
  <2>5. Len(g) = Len(l) + Len(t) /\ g[Len(l) + Len(t)] = t[Len(t)]
    BY <2>2, <2>3, <2>4, ConcatIs
  <2> QED
    BY <2>4, <2>5
<1> QED
  BY <1>9, <1>10 DEF m, k

(* Clearing keeps the newest results, clears every older one, and does     *)
(* nothing the second time.                                                *)
LEMMA ClearedOnce ==
    ASSUME NEW h, Proper(h), NEW keep \in Nat \ {0}
    PROVE  LET once == Microcompact(h, keep)
               tools == ToolPositions(h)
               newest == {p \in tools : Cardinality({q \in tools : q > p}) < keep}
           IN  /\ WellPaired(once) /\ Microcompact(once, keep) = once
               /\ \A p \in DOMAIN h :
                     once[p].body = IF p \in tools \ newest THEN "cleared" ELSE h[p].body
<1> DEFINE once == Microcompact(h, keep)
           tools == ToolPositions(h)
           old == Old(h, keep)
           newest == {p \in tools : Cardinality({q \in tools : q > p}) < keep}
<1>1. h \in Seq(Messages) /\ DOMAIN h = 1..Len(h) /\ Len(h) \in Nat
  BY DEF Proper
<1>2. /\ once \in Seq(Messages) /\ Len(once) = Len(h)
      /\ \A p \in 1..Len(h) : once[p].role = h[p].role /\ once[p].calls = h[p].calls
                              /\ once[p].id = h[p].id
  BY <1>1, MicroIs
<1>3. WellPaired(once)
  BY <1>1, <1>2, SameSkeleton DEF Proper
<1>4. once = [p \in DOMAIN h |-> IF p \in old THEN Cleared(h[p]) ELSE h[p]]
  BY DEF Microcompact
<1> HIDE DEF once
<1>5. ToolPositions(once) = tools
  BY <1>1, <1>2 DEF ToolPositions
<1>6. Old(once, keep) = old
  BY <1>5 DEF Old
<1>7. Microcompact(once, keep) = once
  <2>1. Microcompact(once, keep)
           = [p \in DOMAIN once |-> IF p \in old THEN Cleared(once[p]) ELSE once[p]]
    BY <1>6 DEF Microcompact
  <2> HIDE DEF old
  <2>2. DOMAIN once = DOMAIN h
    BY <1>4
  <2>3. \A p \in DOMAIN h : p \in old => Cleared(once[p]) = once[p]
    <3>1. \A m \in Messages : Cleared(Cleared(m)) = Cleared(m)
      BY DEF Cleared, Messages
    <3> QED
      BY <1>1, <1>4, <3>1
  <2>4. \A p \in DOMAIN h : (IF p \in old THEN Cleared(once[p]) ELSE once[p]) = once[p]
    BY <2>3
  <2>5. once = [p \in DOMAIN h |-> once[p]]
    BY <1>4
  <2> QED
    BY <2>1, <2>2, <2>4, <2>5
<1>8. tools \ newest = old
  <2>1. ASSUME NEW p \in tools
        PROVE  Cardinality({q \in tools : q > p}) \in Nat
    <3>1. {q \in tools : q > p} \in SUBSET (1..Len(h)) /\ IsFiniteSet(1..Len(h))
      BY <1>1, FS_Interval DEF ToolPositions
    <3> QED
      BY <3>1, FS_Subset, FS_CardinalityType
  <2>2. old = {p \in tools : Cardinality({q \in tools : q > p}) >= keep}
    BY DEF Old
  <2> HIDE DEF tools, old
  <2>3. \A p \in tools : Cardinality({q \in tools : q > p}) >= keep
                         <=> ~(Cardinality({q \in tools : q > p}) < keep)
    BY <2>1
  <2> QED
    BY <2>2, <2>3
<1>9. ASSUME NEW p \in DOMAIN h
      PROVE  once[p].body = IF p \in tools \ newest THEN "cleared" ELSE h[p].body
  <2>1. Cleared(h[p]).body = "cleared"
    <3>1. \A m \in Messages : Cleared(m).body = "cleared"
      BY DEF Cleared, Messages
    <3> QED
      BY <1>1, <3>1
  <2> HIDE DEF old, tools, newest
  <2> QED
    BY <1>4, <1>8, <2>1
<1> QED
  BY <1>3, <1>7, <1>9 DEF once

-----------------------------------------------------------------------------
(* The histories of MCCompaction, of any length, with any number of calls  *)
(* in a turn, for any tail sizes and numbers of results kept.              *)
CallsBehind == \A c \in CallsOf(history) : c \in CallIds /\ c[1] = 0 /\ c[2] <= Len(history)

HistoryInv == Proper(history) /\ CallsBehind

LEMMA GrowInv ==
    ASSUME HistoryInv, NEW added, Grow(added), Proper(added), added # <<>>,
           \A c \in CallsOf(added) : OfRound(c, 0, Len(history) + 1)
    PROVE  HistoryInv'
<1> DEFINE h == history
           N == Len(history)
<1>1. /\ h \in Seq(Messages) /\ added \in Seq(Messages) /\ N \in Nat
      /\ h' = h \o added /\ Len(h') >= N + 1
  BY DEF HistoryInv, Proper, Grow
<1>2. \A c \in CallsOf(h) : c \in CallIds /\ c[1] = 0 /\ c[2] \in Nat /\ c[2] <= N
  BY DEF HistoryInv, CallsBehind, CallIds
<1>3. \A c \in CallsOf(added) : c \in CallIds /\ c[1] = 0 /\ c[2] = N + 1
  BY DEF OfRound
<1> HIDE DEF N
<1>4. CallsOf(h) \cap CallsOf(added) = {}
  BY <1>1, <1>2, <1>3
<1>5. Proper(h \o added) /\ CallsOf(h \o added) \subseteq CallsOf(h) \cup CallsOf(added)
  BY <1>4, ConcatProper DEF HistoryInv
<1>6. ASSUME NEW c \in CallsOf(h \o added)
      PROVE  c \in CallIds /\ c[1] = 0 /\ c[2] <= Len(h')
  <2>1. Len(h') \in Nat
    BY <1>1
  <2> QED
    BY <1>1, <1>2, <1>3, <1>5, <2>1
<1> QED
  BY <1>1, <1>5, <1>6 DEF HistoryInv, CallsBehind

LEMMA TextGrowsInv ==
    ASSUME HistoryInv, NEW role \in {"user", "assistant"}, NEW chars \in Sizes,
           Grow(<<Message(role, chars)>>)
    PROVE  HistoryInv'
<1> DEFINE m == Message(role, chars)
<1>1. m \in Messages /\ m.role # "tool" /\ m.calls = {}
  BY DEF Message, Messages, NoId, Sizes, Small, Large
<1> HIDE DEF m
<1>2. Proper(<<m>>) /\ CallsOf(<<m>>) = {} /\ <<m>> # <<>>
  BY <1>1, LoneMessage
<1>3. Grow(<<m>>)
  BY DEF m
<1> QED
  BY <1>2, <1>3, GrowInv

LEMMA ToolTurnGrowsInv ==
    ASSUME HistoryInv, NEW n \in 1..MaxResults, NEW chars \in Sizes,
           Grow(NewToolTurn(n, chars))
    PROVE  HistoryInv'
<1> DEFINE i == Len(history) + 1
           t == NewToolTurn(n, chars)
<1>1. i \in Nat /\ n \in Nat /\ chars \in Nat
  BY HistoryAssumption DEF HistoryInv, Proper, Sizes, Small, Large
<1>2. t = ToolTurn(0, i, n, chars)
  BY DEF NewToolTurn, ToolTurn, CallTurn, RoundCalls, CallId, Small
<1> HIDE DEF i
<1>3. IsToolTurn(t, 0, i, n, chars)
  BY <1>1, <1>2, ToolTurnShape
<1> HIDE DEF t
<1>4. Proper(t) /\ CallsOf(t) = RoundCalls(0, i, n) /\ t # <<>>
  <2>1. Len(t) = n + 1
    BY <1>3 DEF IsToolTurn
  <2> QED
    BY <1>1, <1>3, <2>1, ToolTurnIs
<1>5. \A c \in CallsOf(t) : OfRound(c, 0, i)
  BY <1>1, <1>4, RoundCallsAre
<1> QED
  BY <1>4, <1>5, GrowInv DEF i, t

LEMMA HistoryAlways == HistorySpec => []HistoryInv
<1>1. HistoryInit => HistoryInv
  <2>1. CASE history = <<>>
    <3>1. DOMAIN history = {} /\ history \in Seq(Messages)
      BY <2>1
    <3> QED
      BY <3>1 DEF HistoryInv, CallsBehind, Proper, WellPaired, NoOrphan, NoUnanswered,
                  ToolPositions, CallsDiffer, OnlyAssistantsCall, CallsOf
  <2>2. CASE history = <<Message("system", Small)>>
    <3> DEFINE m == Message("system", Small)
    <3>1. m \in Messages /\ m.role # "tool" /\ m.calls = {}
      BY DEF Message, Messages, NoId, Small
    <3> HIDE DEF m
    <3>2. Proper(<<m>>) /\ CallsOf(<<m>>) = {}
      BY <3>1, LoneMessage
    <3>3. history = <<m>>
      BY <2>2 DEF m
    <3> QED
      BY <3>2, <3>3 DEF HistoryInv, CallsBehind
  <2> QED
    BY <2>1, <2>2 DEF HistoryInit
<1>2. HistoryInv /\ [HistoryNext]_history => HistoryInv'
  <2> SUFFICES ASSUME HistoryInv, [HistoryNext]_history
               PROVE  HistoryInv'
    OBVIOUS
  <2>1. CASE AddUser
    BY <2>1, TextGrowsInv DEF AddUser
  <2>2. CASE AddAnswer
    BY <2>2, TextGrowsInv DEF AddAnswer
  <2>3. CASE AddToolTurn
    BY <2>3, ToolTurnGrowsInv DEF AddToolTurn
  <2>4. CASE UNCHANGED history
    BY <2>4 DEF HistoryInv, CallsBehind
  <2> QED
    BY <2>1, <2>2, <2>3, <2>4 DEF HistoryNext
<1> QED
  BY <1>1, <1>2, PTL DEF HistorySpec

(* Wherever safe_split_index splits a history, the compacted list and the  *)
(* prefix for the summarizer are ones a chat endpoint accepts.             *)
THEOREM SplitsWellPaired == HistorySpec => []SplitsAreWellPaired
<1>1. HistoryInv => SplitsAreWellPaired
  BY SplitPairs DEF HistoryInv, SplitsAreWellPaired, Splits, Small
<1> QED
  BY HistoryAlways, <1>1, PTL

(* The tail kept reaches the tokens asked for unless everything is kept,   *)
(* and no later boundary that orphans nothing does (safe_split_index).     *)
THEOREM TailsTight == HistorySpec => []TailIsTight
<1>1. HistoryInv => TailIsTight
  <2> SUFFICES ASSUME HistoryInv, NEW keep \in KeepTokens
               PROVE  LET k == SafeSplitIndex(history, keep)
                      IN  /\ k > 0 => Tokens(Suffix(history, k)) >= keep
                          /\ \A later \in (k + 1)..Len(history) :
                                NoOrphan(Suffix(history, later)) =>
                                    Tokens(Suffix(history, later)) < keep
    BY DEF TailIsTight
  <2>1. keep \in Nat \ {0} /\ Proper(history)
    BY HistoryAssumption DEF HistoryInv
  <2> QED
    BY <2>1, TightSplit
<1> QED
  BY HistoryAlways, <1>1, PTL

(* Clearing and summarizing keep the system message first and the newest   *)
(* message last and unchanged (microcompact, build_compacted).             *)
THEOREM EndsAlwaysSurvive == HistorySpec => []EndsSurvive
<1>1. HistoryInv => EndsSurvive
  <2> SUFFICES ASSUME HistoryInv, NEW keep \in KeepTokens
               PROVE  LET k == SafeSplitIndex(history, keep)
                          g == BuildCompacted(Microcompact(history, 3), 20, k)
                      IN  /\ StartsWithSystem(history) => g[1] = history[1]
                          /\ history # <<>> /\ (StartsWithSystem(history) => Len(history) > 1)
                                => g[Len(g)] = history[Len(history)]
    BY DEF EndsSurvive, Splits, Small, Last
  <2> QED
    BY EndsStay DEF HistoryInv
<1> QED
  BY HistoryAlways, <1>1, PTL

(* microcompact clears every result but the newest, nothing else, leaves   *)
(* the pairing alone and does nothing the second time.                     *)
THEOREM MicrocompactStable == HistorySpec => []MicrocompactIsStable
<1>1. HistoryInv => MicrocompactIsStable
  <2> SUFFICES ASSUME HistoryInv PROVE MicrocompactIsStable
    OBVIOUS
  <2>1. Proper(history) /\ \A keep \in KeepResults : keep \in Nat \ {0}
    BY HistoryAssumption DEF HistoryInv
  <2> QED
    BY <2>1, ClearedOnce DEF MicrocompactIsStable
<1> QED
  BY HistoryAlways, <1>1, PTL

-----------------------------------------------------------------------------
(* The same of the lists an agent really holds, compacted any number of    *)
(* times before: the list of the loop, or, where tool calls are open or no *)
(* turn runs, the memory.  Any size of the tail, any number of results     *)
(* kept; MaxLen and MaxResults bound the steps of MCCompaction only.       *)
AtHand == IF InLoop THEN messages ELSE memory

Histories == INSTANCE MCCompaction
    WITH history <- AtHand, MaxLen <- 0, MaxResults <- 0,
         KeepTokens <- Nat \ {0}, KeepResults <- Nat \ {0}

(* The operators of the two instances of Compaction are the same.          *)
LEMMA SamePairing ==
    ASSUME NEW h
    PROVE  /\ Histories!WellPaired(h) <=> WellPaired(h)
           /\ Histories!NoOrphan(h) <=> NoOrphan(h)
  BY DEF Histories!WellPaired, WellPaired, Histories!NoOrphan, NoOrphan,
         Histories!NoUnanswered, NoUnanswered, Histories!Answers, Answers,
         Histories!ToolPositions, ToolPositions

LEMMA SamePieces ==
    ASSUME NEW h, NEW k
    PROVE  /\ Histories!Suffix(h, k) = Suffix(h, k) /\ Histories!Prefix(h, k) = Prefix(h, k)
           /\ Histories!Tokens(h) = Tokens(h)
           /\ Histories!StartsWithSystem(h) <=> StartsWithSystem(h)
           /\ Histories!ToolPositions(h) = ToolPositions(h)
  BY DEF Histories!Suffix, Suffix, Histories!Prefix, Prefix, Histories!Tokens, Tokens,
         Histories!EstimateMessage, EstimateMessage, Histories!StartsWithSystem,
         StartsWithSystem, Histories!ToolPositions, ToolPositions

LEMMA SameSplit ==
    ASSUME NEW h, NEW keep
    PROVE  Histories!SafeSplitIndex(h, keep) = SafeSplitIndex(h, keep)
  BY DEF Histories!SafeSplitIndex, SafeSplitIndex, Histories!SnapToSafe, SnapToSafe,
         Histories!SelfConsistent, SelfConsistent, Histories!ToolPositions, ToolPositions,
         Histories!Boundary, Boundary, Histories!Suffix, Suffix, Histories!Tokens, Tokens,
         Histories!EstimateMessage, EstimateMessage, Histories!Max, Max

LEMMA SameCompacted ==
    ASSUME NEW h, NEW chars, NEW k
    PROVE  Histories!BuildCompacted(h, chars, k) = BuildCompacted(h, chars, k)
  BY DEF Histories!BuildCompacted, BuildCompacted, Histories!StartsWithSystem,
         StartsWithSystem, Histories!Suffix, Suffix, Histories!Summary, Summary,
         Histories!Message, Message, Histories!NoId, NoId, Histories!Max, Max

LEMMA SameCount == ASSUME NEW S PROVE Histories!Cardinality(S) = Cardinality(S)
  BY DEF Histories!Cardinality, Cardinality

LEMMA SameCleared ==
    ASSUME NEW h, NEW keep
    PROVE  Histories!Microcompact(h, keep) = Microcompact(h, keep)
<1>1. Histories!ToolPositions(h) = ToolPositions(h)
  BY SamePieces
<1>2. Histories!Old(h, keep) = Old(h, keep)
  BY <1>1, SameCount DEF Histories!Old, Old
<1> QED
  BY <1>2 DEF Histories!Microcompact, Microcompact, Histories!Cleared, Cleared

LEMMA AtHandIsProper == ListsInv => Proper(AtHand)
  BY DEF ListsInv, LoopInv, MemoryInv, Fit, AtHand

(* Wherever safe_split_index splits a list of the agent, the compacted list *)
(* and the prefix for the summarizer are ones a chat endpoint accepts.     *)
THEOREM SplitsWellPairedInTurns == Spec => []Histories!SplitsAreWellPaired
<1>1. ListsInv => Histories!SplitsAreWellPaired
  <2> SUFFICES ASSUME ListsInv, NEW keep \in Nat \ {0}
               PROVE  LET k == Histories!SafeSplitIndex(AtHand, keep)
                      IN  /\ Histories!WellPaired(Histories!BuildCompacted(AtHand, 20, k))
                          /\ Histories!WellPaired(Histories!Prefix(AtHand, k))
    BY DEF Histories!SplitsAreWellPaired, Histories!Splits, Histories!Small
  <2>1. Proper(AtHand)
    BY AtHandIsProper
  <2>2. LET k == SafeSplitIndex(AtHand, keep)
        IN  WellPaired(BuildCompacted(AtHand, 20, k)) /\ WellPaired(Prefix(AtHand, k))
    BY <2>1, SplitPairs
  <2> QED
    BY <2>2, SamePairing, SamePieces, SameSplit, SameCompacted
<1> QED
  BY ListsAlways, <1>1, PTL

(* The tail kept reaches the tokens asked for unless everything is kept,   *)
(* and no later boundary that orphans nothing does (safe_split_index).     *)
THEOREM TailsTightInTurns == Spec => []Histories!TailIsTight
<1>1. ListsInv => Histories!TailIsTight
  <2> SUFFICES ASSUME ListsInv, NEW keep \in Nat \ {0}
               PROVE  LET k == Histories!SafeSplitIndex(AtHand, keep)
                      IN  /\ k > 0 => Histories!Tokens(Histories!Suffix(AtHand, k)) >= keep
                          /\ \A later \in (k + 1)..Len(AtHand) :
                                Histories!NoOrphan(Histories!Suffix(AtHand, later)) =>
                                    Histories!Tokens(Histories!Suffix(AtHand, later)) < keep
    BY DEF Histories!TailIsTight
  <2>1. Proper(AtHand)
    BY AtHandIsProper
  <2> QED
    BY <2>1, TightSplit, SamePairing, SamePieces, SameSplit
<1> QED
  BY ListsAlways, <1>1, PTL

(* Clearing and summarizing keep the system message first and the newest   *)
(* message last and unchanged (microcompact, build_compacted).             *)
THEOREM EndsAlwaysSurviveInTurns == Spec => []Histories!EndsSurvive
<1>1. ListsInv => Histories!EndsSurvive
  <2> SUFFICES ASSUME ListsInv, NEW keep \in Nat \ {0}
               PROVE  LET k == Histories!SafeSplitIndex(AtHand, keep)
                          g == Histories!BuildCompacted(Histories!Microcompact(AtHand, 3), 20, k)
                      IN  /\ Histories!StartsWithSystem(AtHand) => g[1] = AtHand[1]
                          /\ AtHand # <<>> /\ (Histories!StartsWithSystem(AtHand) => Len(AtHand) > 1)
                                => Histories!Last(g) = Histories!Last(AtHand)
    BY DEF Histories!EndsSurvive, Histories!Splits, Histories!Small
  <2>1. Proper(AtHand)
    BY AtHandIsProper
  <2> DEFINE k == SafeSplitIndex(AtHand, keep)
             g == BuildCompacted(Microcompact(AtHand, 3), 20, k)
  <2>2. /\ StartsWithSystem(AtHand) => g[1] = AtHand[1]
        /\ AtHand # <<>> /\ (StartsWithSystem(AtHand) => Len(AtHand) > 1)
              => g[Len(g)] = AtHand[Len(AtHand)]
    BY <2>1, EndsStay
  <2>3. /\ Histories!SafeSplitIndex(AtHand, keep) = k
        /\ Histories!BuildCompacted(Histories!Microcompact(AtHand, 3), 20, k) = g
        /\ Histories!StartsWithSystem(AtHand) <=> StartsWithSystem(AtHand)
    BY SamePieces, SameSplit, SameCompacted, SameCleared
  <2>4. Histories!Last(g) = g[Len(g)] /\ Histories!Last(AtHand) = AtHand[Len(AtHand)]
    BY DEF Histories!Last
  <2> HIDE DEF g, k
  <2> QED
    BY <2>2, <2>3, <2>4
<1> QED
  BY ListsAlways, <1>1, PTL

(* microcompact clears every result but the newest, nothing else, leaves   *)
(* the pairing alone and does nothing the second time.                     *)
THEOREM MicrocompactStableInTurns == Spec => []Histories!MicrocompactIsStable
<1>1. ListsInv => Histories!MicrocompactIsStable
  <2> SUFFICES ASSUME ListsInv PROVE Histories!MicrocompactIsStable
    OBVIOUS
  <2>1. Proper(AtHand)
    BY AtHandIsProper
  <2> QED
    BY <2>1, ClearedOnce, SamePairing, SamePieces, SameCleared, SameCount
       DEF Histories!MicrocompactIsStable
<1> QED
  BY ListsAlways, <1>1, PTL
=============================================================================
