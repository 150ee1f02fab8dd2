---------------------------- MODULE Conversation ----------------------------
(***************************************************************************)
(* What an Agent promises about the history it keeps, without saying how:  *)
(* a turn adds the caller's question, and then, in one go, a complete      *)
(* reply or nothing at all.  Compaction, retries, rounds of tool calls,    *)
(* guardrails and histories owned by the caller are not seen from here.    *)
(***************************************************************************)
EXTENDS Sequences, SequencesExt

CONSTANTS
    IsQuestion(_),   \* the blocks of messages a caller may add
    IsReply(_)       \* the blocks an agent may answer with

VARIABLES
    history,   \* the messages stored
    open       \* a question waits for its reply

vars == <<history, open>>

Init == history = <<>> /\ open = FALSE

Added == SubSeq(history', Len(history) + 1, Len(history'))

Ask ==
    /\ ~open /\ open'
    /\ IsPrefix(history, history') /\ IsQuestion(Added)

Reply ==
    /\ open /\ ~open'
    /\ IsPrefix(history, history') /\ IsReply(Added)

(* The turn failed.                                                        *)
Abandon == open /\ ~open' /\ UNCHANGED history

Next == Ask \/ Reply \/ Abandon

Spec == Init /\ [][Next]_vars
=============================================================================
