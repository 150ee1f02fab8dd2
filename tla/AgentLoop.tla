----------------------------- MODULE AgentLoop -----------------------------
(***************************************************************************)
(* Agent.run, run_session and run_messages (agent.py) around _run_loop and *)
(* _maybe_compact: successive turns against one Memory, or against a       *)
(* history the caller owns.  An action is the code between two awaits: of  *)
(* the guardrail, the model, the summarizer and the tool calls.  The tool  *)
(* calls of a turn are ToolBatch's, seen here from outside: they return    *)
(* one result per call, in order, or raise.                                *)
(***************************************************************************)
EXTENDS Compaction, Selection

CONSTANTS
    MaxIterations,         \* Agent.max_iterations
    ContextWindow,         \* Agent.context_window, 0 disables compaction
    HasSystemPrompt,       \* Agent.system_prompt is not empty
    EnforceSystemPrompt,   \* Agent.enforce_system_prompt
    Incoming,              \* by method, the message lists a caller may send
    MaxTurns,              \* bound: turns driven one after the other
    MaxCalls,              \* bound: tool calls in one assistant turn
    ResultSizes,           \* characters of a tool result
    ReplySizes             \* characters of an answer and of a summary

ASSUME LoopAssumption ==
    /\ MaxIterations \in Nat \ {0} /\ ContextWindow \in Nat
    /\ MaxTurns \in Nat /\ MaxCalls \in Nat
    /\ ResultSizes \subseteq Nat /\ ReplySizes \subseteq Nat

(* A call is known by the turn that made it, its round and its place in    *)
(* it; the calls in what a caller sends are of turn 0.                     *)
CallIds == Nat \X Nat \X Nat

Messages ==
    [role : {"system", "user", "assistant", "tool"}, chars : Nat,
     body : {"text", "cleared", "summary", "prompt"},
     calls : SUBSET CallIds, id : CallIds \cup {NoId}]

CallsOf(h) == UNION {h[p].calls : p \in DOMAIN h}

(* No two turns of a list make a call of the same id.                      *)
CallsDiffer(h) ==
    \A p, q \in DOMAIN h : p # q => h[p].calls \cap h[q].calls = {}

(* Callers send lists that a chat endpoint accepts.                        *)
ASSUME CallersAssumption ==
    \A inc \in Incoming["session"] \cup Incoming["messages"] :
        /\ inc \in Seq(Messages) /\ WellPaired(inc) /\ CallsDiffer(inc)
        /\ \A p \in DOMAIN inc :
              /\ inc[p].body = "text"
              /\ inc[p].role # "assistant" => inc[p].calls = {}
              /\ \A c \in inc[p].calls : c[1] = 0

VARIABLES
    pc,             \* where the running turn awaits, or "idle"
    entry,          \* the method called: "session" or "messages"
    incoming,       \* its argument
    memory,         \* the Memory of run and run_session
    messages,       \* the list sent to the model
    new_turns,      \* what the loop recorded, to be persisted
    iteration,      \* completed rounds of the loop
    reactive,       \* reactive_compacted
    force,          \* the compaction under way is the reactive one
    turn,           \* turns begun
    model_calls     \* calls of LLM.complete in this turn (history variable)

loop == <<messages, new_turns, iteration, reactive, force>>
vars == <<pc, entry, incoming, memory, loop, turn, model_calls>>

Prompt == [Message("system", 20) EXCEPT !.body = "prompt"]

CompactThreshold == (ContextWindow * 8) \div 10
KeepRecentTokens == Max({256, (ContextWindow * 3) \div 10})

NotSystem(m) == m.role # "system"

Spoken(h) == Select(h, {p \in DOMAIN h : NotSystem(h[p])})

(* _with_system_prompt; _messages is the case of a memory without system.  *)
WithSystemPrompt_AddWhenAbsent(h) ==
    IF HasSystemPrompt /\ \A p \in DOMAIN h : NotSystem(h[p]) THEN <<Prompt>> \o h ELSE h

WithSystemPrompt(h) ==
    IF HasSystemPrompt /\ EnforceSystemPrompt
    THEN <<Prompt>> \o Spoken(h)
    ELSE WithSystemPrompt_AddWhenAbsent(h)

(* _latest_user_text is not empty: there is something to screen.           *)
IsScreened(h) ==
    LET users == {p \in DOMAIN h : h[p].role = "user"}
    IN  users # {} /\ h[Max(users)].chars > 0

Init ==
    /\ pc = "idle" /\ entry = "session" /\ incoming = <<>>
    /\ memory = <<>>
    /\ messages = <<>> /\ new_turns = <<>>
    /\ iteration = 0 /\ reactive = FALSE /\ force = FALSE
    /\ turn = 0 /\ model_calls = 0

-----------------------------------------------------------------------------
(* The coroutine ends, with the finally that emits run_end.                *)
Leave ==
    /\ pc' = "idle" /\ incoming' = <<>>
    /\ messages' = <<>> /\ new_turns' = <<>>
    /\ iteration' = 0 /\ reactive' = FALSE /\ force' = FALSE
    /\ model_calls' = 0
    /\ UNCHANGED <<entry, memory, turn>>

(* A turn begins: run_start, then the input guardrail.  A caller that adds *)
(* to a stored history does not use the id of a call in it again.          *)
Begin(e, inc) ==
    /\ pc = "idle" /\ turn < MaxTurns
    /\ e = "session" => CallsOf(inc) \cap CallsOf(memory) = {}
    /\ pc' = "screening_input"
    /\ entry' = e /\ incoming' = inc
    /\ turn' = turn + 1
    /\ UNCHANGED <<memory, loop, model_calls>>

(* A blocked input leaves no trace in the memory.                          *)
BlockInput == pc = "screening_input" /\ IsScreened(incoming) /\ Leave

(* Seeded fault of EnterLoop: the incoming system messages are stored.     *)
EnterLoop_KeepSystem ==
    /\ pc = "screening_input"
    /\ memory' = IF entry = "session" THEN memory \o incoming ELSE memory
    /\ messages' = WithSystemPrompt(IF entry = "session" THEN memory' ELSE incoming)
    /\ new_turns' = <<>> /\ iteration' = 0 /\ reactive' = FALSE /\ force' = FALSE
    /\ pc' = "compacting"
    /\ UNCHANGED <<entry, incoming, turn, model_calls>>

(* The incoming turns are stored before the loop runs, those of a caller   *)
(* who owns the history are not.                                           *)
EnterLoop ==
    /\ pc = "screening_input"
    /\ memory' = IF entry = "session"
                 THEN memory \o Spoken(incoming) ELSE memory
    /\ messages' = WithSystemPrompt(IF entry = "session" THEN memory' ELSE incoming)
    /\ new_turns' = <<>> /\ iteration' = 0 /\ reactive' = FALSE /\ force' = FALSE
    /\ pc' = "compacting"
    /\ UNCHANGED <<entry, incoming, turn, model_calls>>

-----------------------------------------------------------------------------
(* _maybe_compact.  The request that follows is the one of this round, or  *)
(* the retry after an overflow.                                            *)
Fits(h) == Tokens(h) <= CompactThreshold

NextRequest == IF force THEN "retrying" ELSE "requesting"

Floor(h) == IF StartsWithSystem(h) THEN 1 ELSE 0

Micro == Microcompact(messages, 3)
SplitOf(h) == SafeSplitIndex(h, KeepRecentTokens)

Summarizable(h) == SplitOf(h) > Floor(h)

SendAsIs ==
    /\ pc = "compacting"
    /\ ContextWindow = 0 \/ (~force /\ Fits(messages))
    /\ pc' = NextRequest /\ model_calls' = model_calls + 1
    /\ UNCHANGED <<entry, incoming, memory, loop, turn>>

(* Seeded fault of Compact: compacted until it fits, with no request sent  *)
(* that does not.                                                          *)
Compact_UntilItFits ==
    /\ pc = "compacting"
    /\ ContextWindow > 0 /\ (force \/ ~Fits(messages))
    /\ messages' = Micro
    /\ pc' = IF (force \/ ~Fits(messages')) /\ Summarizable(messages') THEN "summarizing"
             ELSE IF Fits(messages') THEN NextRequest ELSE "compacting"
    /\ model_calls' = IF pc' = pc THEN model_calls ELSE model_calls + 1
    /\ UNCHANGED <<entry, incoming, memory, new_turns, iteration, reactive, force, turn>>

(* Clearing old results is enough, or nothing can be summarized safely;    *)
(* otherwise the prefix goes to the model, without tools.                  *)
Compact ==
    /\ pc = "compacting"
    /\ ContextWindow > 0 /\ (force \/ ~Fits(messages))
    /\ messages' = Micro
    /\ pc' = IF (force \/ ~Fits(messages')) /\ Summarizable(messages')
             THEN "summarizing" ELSE NextRequest
    /\ model_calls' = model_calls + 1
    /\ UNCHANGED <<entry, incoming, memory, new_turns, iteration, reactive, force, turn>>

(* The summary came, or the placeholder of 44 characters stands for it.    *)
SendSummarized ==
    /\ pc = "summarizing"
    /\ \E chars \in ReplySizes \cup {44} :
          messages' = BuildCompacted(messages, chars, SplitOf(messages))
    /\ pc' = NextRequest /\ model_calls' = model_calls + 1
    /\ UNCHANGED <<entry, incoming, memory, new_turns, iteration, reactive, force, turn>>

-----------------------------------------------------------------------------
(* The model's side of _run_loop.                                          *)
Requesting == pc \in {"requesting", "retrying"}

Record(turns) ==
    /\ messages' = messages \o turns
    /\ new_turns' = new_turns \o turns

(* Seeded fault of Persist: the compacted view is stored as the history.   *)
Persist_View(turns) ==
    /\ Record(turns)
    /\ memory' = IF entry = "session" THEN messages' ELSE memory
    /\ pc' = "screening_output"

(* The loop returns: run_session stores the new turns in one go.           *)
Persist(turns) ==
    /\ Record(turns)
    /\ memory' = IF entry = "session" THEN memory \o new_turns' ELSE memory
    /\ pc' = "screening_output"

Answer ==
    /\ Requesting
    /\ \E chars \in ReplySizes : Persist(<<Message("assistant", chars)>>)
    /\ UNCHANGED <<entry, incoming, iteration, reactive, force, turn, model_calls>>

(* The assistant turn is recorded, then its calls are awaited.             *)
CallTools(n) ==
    /\ Requesting
    /\ Record(<<ToolCalls({<<turn, iteration, c>> : c \in 1..n}, 20)>>)
    /\ pc' = "running_tools" /\ force' = FALSE
    /\ UNCHANGED <<entry, incoming, memory, iteration, reactive, turn, model_calls>>

(* Seeded fault of Overflow: the run forgets that it has compacted.        *)
Overflow_Again ==
    /\ pc \in {"requesting", "retrying"} /\ ContextWindow > 0
    /\ force' = TRUE /\ pc' = "compacting"
    /\ UNCHANGED <<entry, incoming, memory, messages, new_turns, iteration, reactive,
                   turn, model_calls>>

(* A context overflow is answered once in a run by a forced compaction.    *)
Overflow ==
    /\ pc = "requesting" /\ ContextWindow > 0 /\ ~reactive
    /\ reactive' = TRUE /\ force' = TRUE
    /\ pc' = "compacting"
    /\ UNCHANGED <<entry, incoming, memory, messages, new_turns, iteration, turn, model_calls>>

(* Any other exception leaves the run with the new turns unsaved.          *)
Fail ==
    /\ pc \in {"screening_input", "requesting", "retrying", "running_tools"}
    /\ Leave

-----------------------------------------------------------------------------
PendingCalls == Cardinality(Last(messages).calls)

ResultTurns(chars) ==
    [c \in 1..PendingCalls |-> ToolResult(<<turn, iteration, c>>, chars)]

(* Seeded fault of ToolsReturn: the rounds are not limited.                *)
ToolsReturn_NoLimit ==
    /\ pc = "running_tools"
    /\ \E chars \in ResultSizes : Record(ResultTurns(chars))
    /\ iteration' = iteration + 1
    /\ pc' = "compacting"
    /\ UNCHANGED <<entry, incoming, memory, reactive, force, turn, model_calls>>

(* The results are recorded in the order of the calls.  After the last     *)
(* round the loop gives up with a message of its own.                      *)
ToolsReturn ==
    /\ pc = "running_tools" /\ iteration + 1 < MaxIterations
    /\ \E chars \in ResultSizes : Record(ResultTurns(chars))
    /\ iteration' = iteration + 1
    /\ pc' = "compacting"
    /\ UNCHANGED <<entry, incoming, memory, reactive, force, turn, model_calls>>

GiveUp ==
    /\ pc = "running_tools" /\ iteration + 1 = MaxIterations
    /\ \E chars \in ResultSizes :
          Persist(Append(ResultTurns(chars), Message("assistant", 36)))
    /\ iteration' = iteration + 1
    /\ UNCHANGED <<entry, incoming, reactive, force, turn, model_calls>>

(* The output guardrail answers or raises; the turns are stored already.   *)
Finish == pc = "screening_output" /\ Leave

TurnStep ==
    \/ BlockInput \/ EnterLoop
    \/ SendAsIs \/ Compact \/ SendSummarized
    \/ Answer \/ Overflow \/ Fail
    \/ \E n \in 1..MaxCalls : CallTools(n)
    \/ ToolsReturn \/ GiveUp \/ Finish

Next == TurnStep \/ \E e \in {"session", "messages"} : \E inc \in Incoming[e] : Begin(e, inc)

(* The event loop runs a turn on after every await.  That the model, the   *)
(* tools and the guardrail answer or raise is assumed: agent.py puts no    *)
(* deadline on them.                                                       *)
Spec == Init /\ [][Next]_vars /\ WF_vars(TurnStep)

-----------------------------------------------------------------------------
TypeOK ==
    /\ pc \in {"idle", "screening_input", "compacting", "summarizing", "requesting",
               "retrying", "running_tools", "screening_output"}
    /\ entry \in {"session", "messages"}
    /\ incoming \in Incoming["session"] \cup Incoming["messages"] \cup {<<>>}
    /\ memory \in Seq(Messages) /\ messages \in Seq(Messages) /\ new_turns \in Seq(Messages)
    /\ iteration \in 0..MaxIterations
    /\ reactive \in BOOLEAN /\ force \in BOOLEAN
    /\ turn \in 0..MaxTurns /\ model_calls \in Nat

(* Every list sent to the model is one a chat endpoint accepts, the prefix *)
(* sent to be summarized included: no tool result without its call, no     *)
(* call without its result (compaction.py, "local models hard-error").     *)
RequestsAreWellPaired ==
    /\ Requesting => WellPaired(messages)
    /\ pc = "summarizing" => WellPaired(Prefix(messages, SplitOf(messages)))

(* With enforce_system_prompt "the configured prompt always wins": every   *)
(* request starts with it and holds no other, through any compaction.      *)
PromptGoverns ==
    HasSystemPrompt /\ EnforceSystemPrompt /\ Requesting =>
        /\ messages[1] = Prompt
        /\ \A p \in DOMAIN messages : p > 1 => NotSystem(messages[p])

(* A piece of real history: no system prompt, no summary, no cleared       *)
(* result, and complete tool turns.                                        *)
Genuine(block) ==
    /\ WellPaired(block)
    /\ \A p \in DOMAIN block : NotSystem(block[p]) /\ block[p].body = "text"

(* The reply of a turn ends in an assistant's text, and all before it are  *)
(* the calls of one turn, round by round, and their results in order.      *)
IsReplyOfTurn(block) ==
    /\ Genuine(block)
    /\ block # <<>> /\ Last(block).role = "assistant" /\ Last(block).calls = {}
    /\ \A p \in 1..(Len(block) - 1) :
          /\ block[p].role \in {"assistant", "tool"}
          /\ block[p].role = "assistant" => block[p].calls # {}
    /\ \A p, q \in ToolPositions(block) : p < q =>
          LET a == block[p].id
              b == block[q].id
          IN  a[1] = b[1] /\ (a[2] < b[2] \/ (a[2] = b[2] /\ a[3] < b[3]))

Stored == INSTANCE Conversation WITH
    IsQuestion <- Genuine,
    IsReply <- IsReplyOfTurn,
    history <- memory,
    open <- /\ entry = "session"
            /\ pc \notin {"idle", "screening_input", "screening_output"}

(* The memory is a conversation of real, complete turns (run_session: "the *)
(* next turn sees real history"): stored turns are never rewritten, a turn *)
(* that fails half-way leaves nothing but its question, and a caller's own *)
(* history is never stored ("the agent's own memory is left untouched").   *)
ConversationSpec == Stored!Spec

(* What a turn takes of its argument: a client's system messages are left  *)
(* out of a stored history, and wherever the prompt is enforced.           *)
Taken ==
    IF entry = "session" \/ (HasSystemPrompt /\ EnforceSystemPrompt)
    THEN Spoken(incoming) ELSE incoming

(* The model is always shown the newest message, unabridged.               *)
NewestIsShown ==
    Requesting =>
        LET said == Taken \o new_turns
        IN  said # <<>> => Last(messages) = Last(said)

(* A run costs at most one answer and one summary per round, and one more  *)
(* of each for the single reactive compaction.                             *)
ModelCallsAreBounded == model_calls <= 2 * MaxIterations + 2

(* Every turn ends, whatever the model, the tools and the guardrail do.    *)
TurnsEnd == pc # "idle" ~> pc = "idle"
=============================================================================
