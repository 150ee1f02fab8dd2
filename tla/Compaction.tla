----------------------------- MODULE Compaction -----------------------------
(***************************************************************************)
(* compaction.py: the pure functions that keep a message list within the   *)
(* model's context window.  A message keeps what they look at: its role,   *)
(* the size of its content, whether the content is the cleared marker, the *)
(* ids of the tool calls it makes and the id of the call it answers.       *)
(* Positions are Python's: a split at k leaves k messages in the prefix.   *)
(***************************************************************************)
EXTENDS Integers, Sequences, SequencesExt

NoId == <<>>

Message(role, chars) ==
    [role |-> role, chars |-> chars, body |-> "text", calls |-> {}, id |-> NoId]

ToolCalls(ids, chars) == [Message("assistant", chars) EXCEPT !.calls = ids]

ToolResult(id, chars) == [Message("tool", chars) EXCEPT !.id = id]

(* estimate_message_tokens: four characters a token and a fixed overhead.  *)
EstimateMessage(m) == m.chars \div 4 + 4

Tokens(h) ==
    LET sum[k \in 0..Len(h)] == IF k = 0 THEN 0 ELSE sum[k - 1] + EstimateMessage(h[k])
    IN  sum[Len(h)]

-----------------------------------------------------------------------------
ToolPositions(h) == {p \in DOMAIN h : h[p].role = "tool"}

(* Seeded fault of Old: one result too many.                               *)
Old_OffByOne(h, keepRecent) ==
    {p \in ToolPositions(h) : Cardinality({q \in ToolPositions(h) : q >= p}) >= keepRecent}

(* tool_positions[:-keep_recent]; a negative keep_recent clears them all,  *)
(* and so -0 as the end of a slice, an empty one, clears none.             *)
Old(h, keepRecent) ==
    IF keepRecent = 0 THEN {}
    ELSE {p \in ToolPositions(h) : Cardinality({q \in ToolPositions(h) : q > p}) >= keepRecent}

(* "[old tool output cleared]" is 25 characters long.                      *)
Cleared(m) == [m EXCEPT !.body = "cleared", !.chars = 25]

Microcompact(h, keepRecent) ==
    LET old == Old(h, keepRecent)
    IN  [p \in DOMAIN h |-> IF p \in old THEN Cleared(h[p]) ELSE h[p]]

-----------------------------------------------------------------------------
Prefix(h, k) == SubSeq(h, 1, k)

Suffix(h, k) == SubSeq(h, k + 1, Len(h))

(* needed <= provided, over the ids of the whole tail.                     *)
SelfConsistent(tail) ==
    \A p \in ToolPositions(tail) : \E q \in DOMAIN tail : tail[p].id \in tail[q].calls

(* Seeded faults of SnapToSafe: the boundary stays where the tokens put    *)
(* it; the boundary is moved later, into the tail, instead of earlier.     *)
SnapToSafe_Never(h, k) == k

SnapToSafe_Later(h, k) ==
    CHOOSE s \in k..Len(h) : /\ SelfConsistent(Suffix(h, s))
                             /\ \A r \in k..(s - 1) : ~SelfConsistent(Suffix(h, r))

(* The last boundary at or before k whose tail is self-consistent, or 0.   *)
SnapToSafe(h, k) ==
    LET snap[s \in 0..k] ==
          IF s = 0 \/ SelfConsistent(Suffix(h, s)) THEN s ELSE snap[s - 1]
    IN  snap[k]

(* The last position from which the history holds keepTokens.              *)
Boundary(h, keepTokens) ==
    Max({0} \cup {k \in 0..(Len(h) - 1) : Tokens(Suffix(h, k)) >= keepTokens})

SafeSplitIndex(h, keepTokens) == SnapToSafe(h, Boundary(h, keepTokens))

StartsWithSystem(h) == h # <<>> /\ h[1].role = "system"

(* The summary is a user turn: a heading of 50 characters and the text.    *)
Summary(chars) == [Message("user", 50 + chars) EXCEPT !.body = "summary"]

(* Seeded fault of BuildCompacted: the leading system message is forgotten *)
BuildCompacted_NoHead(h, chars, k) == <<Summary(chars)>> \o Suffix(h, k)

BuildCompacted(h, chars, k) ==
    IF StartsWithSystem(h)
    THEN <<h[1], Summary(chars)>> \o Suffix(h, Max({k, 1}))
    ELSE <<Summary(chars)>> \o Suffix(h, k)

-----------------------------------------------------------------------------
(* What a chat endpoint accepts: a tool message stands in the block of     *)
(* results right behind the assistant turn that asked for it, and every    *)
(* call of that turn has its result in the block.                          *)
Answers(h, p, q) ==
    /\ q < p
    /\ h[p].role = "tool" /\ h[p].id \in h[q].calls
    /\ \A r \in (q + 1)..(p - 1) : h[r].role = "tool"

NoOrphan(h) == \A p \in ToolPositions(h) : \E q \in DOMAIN h : Answers(h, p, q)

NoUnanswered(h) ==
    \A q \in DOMAIN h : \A c \in h[q].calls :
        \E p \in DOMAIN h : Answers(h, p, q) /\ h[p].id = c

WellPaired(h) == NoOrphan(h) /\ NoUnanswered(h)
=============================================================================
