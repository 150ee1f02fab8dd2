---------------------------- MODULE MCCompaction ----------------------------
(***************************************************************************)
(* The functions of Compaction over every history an agent loop can write, *)
(* up to MaxLen messages: an optional system prompt, then user turns,      *)
(* assistant answers and assistant tool-call turns with their results.     *)
(* Sizes are in characters: Small is worth 9 tokens, Large 304.            *)
(***************************************************************************)
EXTENDS Compaction

CONSTANTS
    MaxLen,       \* messages in a history
    MaxResults,   \* tool calls in one assistant turn
    KeepTokens,   \* the tail sizes tried
    KeepResults   \* the numbers of results left uncleared

ASSUME HistoryAssumption ==
    /\ MaxLen \in Nat /\ MaxResults \in Nat
    /\ KeepTokens \subseteq Nat \ {0} /\ KeepResults \subseteq Nat \ {0}

VARIABLE history

Small == 20
Large == 1200
Sizes == {Small, Large}

(* The id of the c-th call of the turn written at position p: the model    *)
(* gives every call an id of its own.  It is spelt as in AgentLoop.        *)
CallId(p, c) == <<0, p, c>>

NewToolTurn(n, chars) ==
    LET p == Len(history) + 1
    IN  <<ToolCalls({CallId(p, c) : c \in 1..n}, Small)>>
        \o [c \in 1..n |-> ToolResult(CallId(p, c), chars)]

HistoryInit == history \in {<<>>, <<Message("system", Small)>>}

Grow(added) ==
    /\ Len(history) + Len(added) <= MaxLen
    /\ history' = history \o added

AddUser == \E chars \in Sizes : Grow(<<Message("user", chars)>>)
AddAnswer == \E chars \in Sizes : Grow(<<Message("assistant", chars)>>)
AddToolTurn == \E n \in 1..MaxResults, chars \in Sizes : Grow(NewToolTurn(n, chars))

HistoryNext == AddUser \/ AddAnswer \/ AddToolTurn

HistorySpec == HistoryInit /\ [][HistoryNext]_history

-----------------------------------------------------------------------------
Splits == {SafeSplitIndex(history, keep) : keep \in KeepTokens}

(* safe_split_index "without orphaning a tool result from the assistant    *)
(* tool_calls turn that produced it" (compaction.py, module docstring):    *)
(* the compacted list is one a chat endpoint accepts, and so is the prefix *)
(* handed to the summarizer.                                               *)
SplitsAreWellPaired ==
    \A k \in Splits :
        WellPaired(BuildCompacted(history, Small, k)) /\ WellPaired(Prefix(history, k))

(* The tail is as recent as it can be: it reaches keep_recent_tokens       *)
(* unless everything is kept, and any later boundary that orphans nothing  *)
(* falls short of it.                                                      *)
TailIsTight ==
    \A keep \in KeepTokens :
        LET k == SafeSplitIndex(history, keep)
        IN  /\ k > 0 => Tokens(Suffix(history, k)) >= keep
            /\ \A later \in (k + 1)..Len(history) :
                  NoOrphan(Suffix(history, later)) => Tokens(Suffix(history, later)) < keep

(* Compacting keeps the system message first, and the newest message last  *)
(* and unchanged, whatever is cleared or summarized in between.            *)
EndsSurvive ==
    \A k \in Splits :
        LET compacted == BuildCompacted(Microcompact(history, 3), Small, k)
        IN  /\ StartsWithSystem(history) => compacted[1] = history[1]
            /\ history # <<>> /\ (StartsWithSystem(history) => Len(history) > 1)
                  => Last(compacted) = Last(history)

(* Microcompaction keeps the skeleton and the keep_recent newest results,  *)
(* clears every older one, and does nothing the second time.               *)
MicrocompactIsStable ==
    \A keep \in KeepResults :
        LET once == Microcompact(history, keep)
            tools == ToolPositions(history)
            newest == {p \in tools : Cardinality({q \in tools : q > p}) < keep}
        IN  /\ WellPaired(once)
            /\ Microcompact(once, keep) = once
            /\ \A p \in DOMAIN history :
                  once[p].body = IF p \in tools \ newest THEN "cleared" ELSE history[p].body
=============================================================================
