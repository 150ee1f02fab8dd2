# redcell in TLA+

These modules specify the parts of redcell (`src/redcell`) in which order,
concurrency, failure and restarts decide whether the program is right: the agent
loop and the execution of its tool calls, the policy that decides which calls
run, the compaction of its context, the session store, the observers (cost
accounting, tracing), the LLM client's retries, the lifespan of `redcell serve`
and its background document ingestion. TLC checks each module on a small instance;
TLAPS proves every invariant of these runs, and their action properties and
refinements, for every value of the constants.

    tlc -config ToolBatch.cfg ToolBatch      # a run; the table below lists all
    tlapm ToolBatch_proofs.tla               # the proofs

`PROJECT.json` lists the components, runs, findings, hazards and theorems, and
maps every definition to the source lines it stands for.

## 1. The system

redcell is an asyncio program: one process, one thread, control changes hands at
`await` only. An action of these modules is therefore the code between two
awaits, and the interleavings are those of coroutines and tasks.

| component | state | operations | hard behaviour | what makes it correct |
|---|---|---|---|---|
| tool batch execution (`agent.py`, `tools.py`) | results by position, the semaphore, tasks | `_execute_tool_calls`, `_run_tool` | tasks overlap; `gather` without `return_exceptions` leaves siblings behind a failure | a mutating call is a barrier; the pool is bounded; a turn that returns is complete |
| context compaction (`compaction.py`) | none (pure) | `microcompact`, `safe_split_index`, `build_compacted` | a token boundary falls inside a tool turn | the list stays acceptable to a chat endpoint, the newest message and the prompt survive |
| agent loop (`agent.py`, `memory.py`) | `Memory`, `messages`, `new_turns`, the iteration and `reactive_compacted` | `run`, `run_session`, `run_messages`, `_run_loop`, `_maybe_compact` | overflow and forced compaction, failures between storing the input and storing the answer | requests are well formed, stored history is the real one, the cost of a run is bounded, turns end |
| session store (`sessions.py`, `server.py`) | an `OrderedDict` of `(Memory, last_seen)` | `get_or_create` with both evictions | turns hold a memory over awaits while others evict it | isolation, exact LRU and ttl eviction |
| cost accounting (`accounting.py`) | tallies per run, a grand total | `on_llm_end`, `on_tool_end`, `on_guardrail`, `on_run_end` | events of several runs interleave; events after `run_end` | no event lost or counted twice |
| tracing (`tracing.py`) | tables of open spans | callbacks for each event | stray calls, children open at `run_end` | every open span can still be ended, parents end last |
| LLM client (`llm.py`) | the attempt counter | `_complete_with_retry`, `is_retryable`, `backoff_delay` | transient and permanent errors, Retry-After | the retry budget is exact |
| document ingestion (`rag/documents.py`) | the manifest on disk, a copy of it in the coroutine | `ingest_documents` | cancellation, kill, files that change, store calls that fail | the manifest never gets ahead of the store; what it records is not redone |
| serve lifespan (`server.py`, `cli.py`) | an `AsyncExitStack`, the background task | startup, `post_startup`, teardown | any start fails after others succeeded; shutdown during ingestion | orderly teardown, nothing left running, always up or down in the end |
| supervisors (`gateway.py`, `qdrant.py`, `openshell.py`) | `available`, a child process, a container, a sandbox | `start`, `_wait_ready`, `stop` | readiness deadlines, processes that exit, processes left behind by a kill | stopped what was started |
| gateway config (`gatewayconfig.py`), MCP manager (`mcp.py`) | the rendered file; the discovered tools | `render_gateway_config`, `write_effective_config`, discovery, calls | one dead target takes all tools down | sandbox targets only with a sandbox |
| permission policy (`permissions.py`, `toolpolicy.py`, `shellpolicy.py`, `pathpolicy.py`) | the rules (constant) | `evaluate`, the content matchers | compound, wrapped and prefixed command lines, with operators anywhere in the text; links and `..` in paths | an allow rule covers one command, a rule can be revoked, the path examined is confined |
| tool access (`cli.py`, `tools.py`, `mcp.py`, `agent.py`) | discovered tools and their flags, the registry of a request | discovery, `apply_denylist`, `mark_readonly_mcp_tools`, `register`, the gate in `_run_tool` | namespaced names, name collisions, objects shared by requests | only offered, undenied and permitted calls run |
| guardrails, hooks, HTTP API, RAG seeding, config, CLI, prompts, pricing, web search | little or none | | | |

How they interact: an HTTP request (or the CLI) asks the session store for a
`Memory` and runs one turn of the agent loop on it; the loop compacts its list,
calls the LLM client and hands the tool calls of a reply to the batch executor,
which consults the permission policy, invokes the registry (built-in tools, or
MCP tools of the gateway) and screens the results with the guardrail. All of
them emit events through `Hooks.emit`, which calls the accountant and the tracer
synchronously. Around this, the server's lifespan starts Qdrant, the sandbox and
the gateway, discovers the gateway's tools, runs the ingestion in the background
and tears everything down.

## 2. The modules

| module | models | uses |
|---|---|---|
| `Selection`, `Selection_proofs` | the list comprehension with a condition; lemmas by induction that other proofs need | |
| `ToolOrder` | abstract: what executing one turn's tool calls promises | |
| `ToolBatch` | `_execute_tool_calls`, `_run_tool` | implements `ToolOrder` |
| `ToolBatch_proofs` | proofs about `ToolBatch` | `ToolBatch` |
| `Compaction`, `MCCompaction` | `compaction.py` as operators; every history up to a length | |
| `Conversation` | abstract: what an agent's stored history is | |
| `AgentLoop`, `MCAgentLoop` | the loop and its three entries | `Compaction`, `Selection`; implements `Conversation` |
| `AgentLoop_proofs` | proofs about `Compaction`, `MCCompaction` and `AgentLoop` | both, `Selection_proofs` |
| `Sessions`, `MCSessions` | the store under overlapping turns | `Selection` |
| `Sessions_proofs` | proofs about `Sessions` | `Sessions`, `Selection_proofs` |
| `Telemetry`, `MCTelemetry` | accountant and tracer under the events of several runs | |
| `Telemetry_proofs` | proofs about `Telemetry` | `Telemetry`, `Selection_proofs` |
| `Permissions` | rules, their precedence, the resolution of asks | |
| `ToolAccess` | which tools a request has, which calls run | `Permissions` |
| `ShellPolicy`, `PathPolicy` | the matching of command lines and of paths | |
| `ToolPolicy`, `MCToolPolicy` | `ToolAccess` with the matcher of `redcell serve` | `ToolAccess`, `ShellPolicy`, `PathPolicy` |
| `ToolPolicy_proofs` | proofs about `Permissions`, `ToolAccess` and `ToolPolicy` | `ToolPolicy`, `Selection_proofs` |
| `LlmClient`, `LlmClient_proofs` | `LLM.complete` and its proofs | `Selection_proofs` |
| `Ingest` | `ingest_documents`, step by step | `Selection` |
| `Serve`, `MCServe` | lifespan, supervisors, config, discovery, over restarts | extends `Ingest` |
| `Serve_proofs` | proofs about `Ingest` inside `Serve`, and about `Serve` | `Serve`, `Selection_proofs` |

Definitions whose comment starts with "Seeded fault of X" are faulty variants of
the definition X, kept next to it. None is reachable from a specification; each
shows which property would notice that the code had been written so.

**ToolBatch.** `phase`, `i` and `j` are the coroutine's position and the two
cursors of its loop; `call[k]` says how far `run_one(k)` has come; `safe` and
`permitted` are what `is_concurrency_safe` and the policy answer, chosen
initially in every way. `GatherRun` creates the tasks of a maximal run of safe
calls, `RunAlone` awaits one other call, `Start` is a task passing the semaphore
(first-in first-out, as asyncio's is), `ToolReturns`/`ToolRaises` and
`ScreenReturns`/`ScreenRaises` are the two awaits inside a call. `AwaitRaises`
is enabled as soon as one call of the run has raised, which is when `gather`
delivers its exception; the siblings stay where they are and go on. A tool's own
exception is turned into a result by `invoke`; what can raise out of a call is
the policy, a result that is not serialisable, and the guardrail.

**ToolOrder** says the same of no batches, tasks or semaphores: a call takes
effect only after every earlier call it conflicts with has succeeded, and at
most `MaxConcurrentTools` are in flight. `ToolBatch` implements it under the
mapping `AbsState`.

**Compaction.** A message keeps its role, its size, the ids of the calls it
makes or answers, and whether its body is real, cleared or a summary. Positions
are Python's slice positions. `WellPaired` is the reference: what a chat endpoint
accepts. It is stated over adjacency and blocks of results, independently of the
set inclusion the code uses. `HistorySpec` of `MCCompaction` writes histories as an
agent does: `AddUser`, `AddAnswer` and `AddToolTurn`, a turn with all its results.

**AgentLoop.** `pc` names the await the turn is in: guardrail, summarizer,
model (first request or the retry after an overflow), tools. Tool calls are seen
from outside: they return one result per call in order, or raise, which is what
`ToolBatch` establishes. `is_context_overflow`, the guardrail's verdict and the
model's answer are choices. `Leave` is every way out; what has been stored by
then stays.

**Conversation** is what a caller can rely on: a turn adds the question, then a
complete reply in one go, or nothing. `AgentLoop` implements it with its memory
as the history; `open` is a turn of `run` or `run_session` between storing the
question and storing the reply. A turn of `run_messages` is a stutter throughout.
What a reply is (real, every call answered, in order, ending in a text) is
`IsReplyOfTurn`.

**Sessions.** A turn holds the memory `get_or_create` gave it across its awaits;
`entries` is the `OrderedDict` in order, `log` the contents of every memory ever
created (also of evicted ones, which turns may still hold), `raced` the sessions
that have ever had two turns in flight at once.

**Telemetry.** The emitting side is a run reduced to its events: rounds of model
calls, one batch of tool calls whose siblings may report after `run_end`,
guardrail trips. The receiving side are the two observers' tables. Each emit is
part of the emitting step because `Hooks.emit` is synchronous. Runs may have one
id and overlap, as two requests of one session do; `raced` remembers the ids that
have. A run's span is a root (`Root`), the others start under the run span their id
has at that moment (`Under`). The observers add what they are told at once, the
grand total too, and the history variable `emitted` is what they were told.

**Permissions, ToolAccess.** A tool's name is the sequence of its parts, so that
a term can be part of a name, as in a namespaced one. `ContentMatches` is a
parameter, like `PolicyEngine`'s `content_matcher`. `Discover` is the discovery at
startup with any of the gateway's targets up; `BuildAgent` is `build_agent` for one
request (denylist, flags, registry); `CallTool` is `_run_tool` up to the tool,
for any name and arguments a model may come up with. What ran, and how, is in
`outcome`.

**ShellPolicy, PathPolicy, ToolPolicy.** A command line is a sequence of pieces:
words, operators and line breaks. What the code reads off a piece's text (a wrapper,
a flag, a number, an assignment, a substitution, a word with a star) is given by
sets. The code cuts a line twice, at blanks (`str.split`) and at operators wherever
they stand (`_SPLIT`), so an operator may be glued to the piece before it
(`GluedBefore`) or behind it (`GluedAfter`); `Starts` says where a blank-separated
token begins and `Lead` how many pieces the leading tokens of a kind are made of.
`Joined` drops the line breaks, as `str.split` and `" ".join` do. `IsCompound` is
`is_compound`, which the matcher does not call; the properties use it as the code's
own word for a compound line. `ToolPolicy!Matcher` is `make_content_matcher()`. A
path is a word that spells a start and steps; `NormalizePath` follows the links as
`realpath` does. `ExtractPath` picks the one path of a call that the code looks at.
`Opened` is the reference the properties use: the place at which a walk through the
file system ends.

**LlmClient.** An error is a status, the kind of its class name and a
Retry-After; delays are counted in quarters of `retry_base_delay`, so that the
jitter lies between two consecutive integers.

**Ingest.** One action per step of the coroutine: discover, hash, read, one store
call, save. The folder may change between any two. `Cancelled` can happen where
the coroutine awaits, `Killed` anywhere: with a store call under way that may or
may not be carried out, or with the manifest truncated (`write_text` empties the
file before it writes). Any reading of a file may raise. The module has no
specification of its own: `Serve` schedules, cancels and kills the coroutine.

**Serve.** `stage` is the lifespan's position, `stack` the stops pushed on the
exit stack. Starts of a supervisor are one action with every outcome its code can
leave (container up but the deadline missed, sandbox created but without SSH
config, ...), except the gateway's, where `Spawn` and `Probe` are separate
because the process moves between them. A start that raises leaves what it had done
by then: the `openshell` CLI is called several times, so the sandbox and its SSH
config may be there though its stop was never pushed (`StartRaises`). Containers, the generated SSH config and
gateways of killed servers (`orphans`) outlive the server; `Kill` and `Boot`
begin another round. `Ingesting` lets a step of `Ingest` happen while serving,
with the tools that were discovered.

## 3. The runs

| run | what it asks | instance |
|---|---|---|
| `tool_batch` | Is a mutating call a barrier, the pool bounded, a returned turn complete, a failed turn stopped; does it implement `ToolOrder`; does every task end? | 4 calls, pool of 2, every safe/permitted subset |
| `compaction` | Is every compacted list and every summarized prefix acceptable to an endpoint, the tail as recent as it can be, the ends kept, clearing exact and idempotent? | every history of up to 7 messages, up to 4 calls in a turn, five tail sizes, 1 or 3 results kept |
| `agent_loop` | Requests well paired, prompt first, newest message shown, model calls bounded, turns end; does the memory implement `Conversation`? | 2 turns, 2 iterations, up to 2 calls, window 1000 |
| `sessions` | Order and cap of the store, isolation, question and answer adjacent, exact eviction | 3 sessions in a store of 2, 4 turns, clock to 3, ttl 1 |
| `telemetry` | Every event counted once, as it comes; open spans findable, parents end last | 2 runs, overlapping, with equal or different ids, 2 calls, 1 round |
| `permissions` | Do only governed calls run; which compound lines does an allow rule let through; does a deny rule take back what an allow rule of the same content grants; does one more wrapper change nothing; is the path examined confined? | 3 targets, 6 settings, every line of up to 3 pieces out of 10 and some longer, 9 paths |
| `serve` | Ingestion only while serving, nothing left running, sandbox targets need a sandbox, what is recorded is stored and not redone, startup and teardown end | three settings, 1 PDF of two contents (2 chunks, none), 1 edit, 2 starts |
| `llm_client` | The retry budget exact, waits bounded | 4 statuses, up to 3 retries |
| `in_flight`, `tallies`, `without_qdrant`, `literal` | sentences of the documentation that the code does not keep (section 5) | as small as shows it |

Why these bounds are enough. `tool_batch`: four calls are the least in which a
run of safe calls longer than the pool precedes a mutating call; with a pool of
two there is a queued, a running and a finished sibling at once. `compaction`:
seven messages hold a system prompt, a tool turn with four results (one more than
`microcompact` keeps) and a turn on either side; the tail sizes are chosen around
the sizes of a small (9) and a large (304 tokens) message, so the boundary falls
before, inside and behind a tool turn. `agent_loop`: three large results pass the
threshold of 800, the tail is 300, a message of 1004 tokens is over it with nothing
before it to summarize, and two rounds with a reactive retry reach
compaction before the first, between and after. The second turn starts from the
memory a completed, failed or blocked first one left; a caller may bring a tool turn
of its own. `sessions`: three sessions compete for two places and four turns let one
come back after its eviction.
`telemetry`: two runs are the least that interleave, or follow each other under
one id; two calls, the least that leave a sibling behind. One round of model calls
already lets a batch of tools and a trip follow it; with two rounds (3.6 million
states) the properties hold as well. `permissions`: three pieces hold two
commands and an operator (with blanks on both sides or none) or a line break, a
wrapper with an argument and a command, an assignment and a command with an
argument; the fixed lines add operators inside assignments and flags, removals,
substitutions and absolute paths. The settings contain each default, each resolution of asks, each
shape of content, the denylist by target and by tool, and both lists of read-only
terms. `serve`: two starts so that the second meets what a killed, failed or stopped
first one left, a content of two chunks so that the ingestion can be interrupted
half-way and one without text, a change of the folder between any two steps. Lists
of several PDFs are left to the theorems, which hold for every list; two PDFs without
a change of the folder have been checked as well.

Counters are capped by constants named in each module (`MaxTurns`, `MaxClock`,
`MaxEdits`, `MaxStarts`, ...). A behaviour that has used them up has no further
step, and a finished turn or call has none either, so the configurations switch
TLC's deadlock check off; that nothing stops half-way is what the liveness
properties say.

### Fairness

- `ToolBatch`: weak fairness of the loop and of each call. The event loop runs
  every ready task. That a tool and the guardrail answer or raise is an
  assumption: `agent.py` has no deadline of its own.
- `AgentLoop`: weak fairness of the running turn's steps, under the same
  assumption for the model. Beginning another turn is not fair.
- `Serve`: weak fairness of the lifespan, which is one coroutine: of a step of
  startup or teardown. Gateway and Qdrant probes and
  the `openshell` CLI have deadlines. `docker compose` and the discovery have
  none in this code; that they return is assumed. Nothing is assumed of the
  environment, nor that ingestion proceeds.

No other specification states fairness.

### Assumptions of the models

- Tool-call ids are unique within a conversation (`Compaction`, `AgentLoop`) and
  a run (`Telemetry`). In `AgentLoop` the model gives each call an id of its own, a
  list that a caller sends pairs and tells apart its own calls (`CallersAssumption`),
  and `Begin` excludes a list for a session whose memory has its ids already. With an
  id that comes back in a later turn, `_snap_to_safe` takes an orphan for answered
  and the pairing properties fail; nothing in the repository says which ids a provider
  may send.
- Limits and sizes are natural numbers (`LoopAssumption`, `HistoryAssumption`,
  `StoreAssumption`, `LlmAssumption`, `TelemetryAssumption`, `IngestAssumption`);
  where a zero makes no sense (rounds, sessions in a store, the pool, the tail, the
  results kept) they are at least one. The set of ids in `Telemetry` is finite,
  which the sum over it needs. A request or setting has the fields the code gives it
  (`ServeAssumption`, `PolicyAssumption`).
- In `Telemetry` a span may be forgotten if its id has been carried by two runs at
  once (`raced`): overlapping turns of a session overwrite each other's run span,
  and `run_end` of the first ends the spans of both. `NothingIsLost` has no such
  exemption.
- In `ShellPolicy` a wrapper is no assignment, flag, number or operator, and a
  wrapper or a number is spelled without an expansion; an operator is neither a
  line break nor any of these (`ShellAssumption`). Quotes are not modelled, and the
  words of an `argv` need none. An operator at the seam of two others (`;` before
  `;`) is two pieces.
- `AllowCoversOneCommand` is about lines that run by allow rules alone and says
  which of the compound ones do: a substitution, a line break, an operator in a
  stripped assignment or flag, or nothing but wrappers, flags and assignments around
  the operators. It is no statement about deny rules: one for a command behind an
  assignment in a later sub-command does not match it.
- `RevokedIsRefused` exempts contents that begin with an assignment or with a word
  that has a star in it. `WrappersAreTransparent` puts one wrapper, with at most one
  flag or number, in front of a line without an expansion that is more than
  wrappers, flags and numbers; a flag with a value, a number with a unit and
  wrappers in later sub-commands are not covered.
- `ExaminedPathIsConfined` is about the one path that `extract_path` picks, the
  first of a list of argument names. The destination of a move and a list of
  paths are not examined by the code, and no property speaks of them. Of a path with
  expansion syntax it says only that no deny rule was passed by. A deny rule for the
  root directory, which matches that directory alone, is exempt.
- `PathPolicy` knows one file system, which does not change between the check and
  the opening of a path. The program canonicalises on the host; the tool may run
  in the sandbox. What a path spells, and the directory a rule for file tools
  names, is known to the model (`PathAssumption`, `PolicyAssumption`).
- In `Sessions` the property on question and answer exempts sessions that have
  been driven concurrently (`raced`), which the docstring does too.
- In `Serve` the sandbox does not die by itself under a running gateway; Qdrant
  and the gateway may.

## 4. What is proved

`ToolBatch_proofs`, for every number of calls `N` and every pool size
`MaxConcurrentTools` (assumptions `NAssumption`, `CapAssumption`: both at least
one): `TypeCorrect`, `MutatorIsBarrier`, `PoolBound`, `TurnComplete`,
`FailureIsFinal`, and `ImplementsOrder`, that `Spec` implements `ToolOrder`. They
rest on `Invariance`, i.e. that

    IInv == TypeOK /\ Shape /\ Trace /\ PoolIsBounded

is inductive. None of the safety properties is inductive by itself: that a
mutating call runs alone does not say what the cursors are. `Shape` ties the
cursors to the calls: everything before `i` is done, everything from `j` on
waits, the run between them is safe throughout or a single call. `Trace` ties a
call's progress to what it has left in `results` and `ended`, also in the tasks
that outlive their turn. The pool's bound needs a case of its own for
`RunAlone`, which takes a slot without a queue: by `Shape` no call is in flight
then. The step of the refinement is proved action by action; `GatherRun`,
`ToolReturns` and the loop's own steps stutter, the others are a `Start`, a
`SettleAtOnce` or a `Finish`, and `Shape` is what makes a call `Ready`.

`LlmClient_proofs`, for every retry budget, cap, set of statuses and of
Retry-After delays (`LlmAssumption`: natural numbers): `RetryIsRight`, that a
call is tried at most `MaxRetries + 1` times, never after a hopeless error, and
raises only if one of these has happened. Its invariant adds to the property that
the errors so far are as many as the attempts (`TriesAreCounted`) and the range
of the control state (`Shape`); without the count "at most `MaxRetries + 1`
errors" does not survive a step. `WaitsBound`, that `WaitsAreBounded` is an invariant,
adds the wait that each error was followed by (`Waited`); the exponential of the
backoff is the recursive function `Doubled`, which only has to be natural: the cap and
the Retry-After bound the delay.

`ToolPolicy_proofs`, for all settings, built-in tools, targets and arguments. For any
content matcher and without an assumption: `DenyWins` and `DenyingMoreGrantsNoMore`
about one evaluation, and `Governed`, that `DispatchIsGoverned` is an invariant. The
inductive invariant adds `Shape`: while a request is answered the registry is the
one its settings call for, no flag is set that the list of read-only terms does not
cover (flags outlive the request that set them), and outside of a request there
is no call. `CallIsGoverned` derives the property from the registry and the
definition of `Evaluate`; the other actions leave no outcome behind.

For the matcher of `redcell serve` (hypothesis `MatcherInUse`, which `ToolPolicy.cfg`
makes true): `RevokedIsRefusedAlways`, `AllowsOneCommand`, `WrappersAreSeenThrough` and
`ExaminedPathConfined`. The invariant (`CallInv`) is small, that a call is one a model
can make and runs only if the policy allows it; the work is in what the matcher
computes. Command lines: what is stripped off a line leaves a rest of it that begins
with a token (`LeadIs`, `LeadsOn`, `StripIs`, `RestIs`), and the sub-commands of a rest
are those of the line with the same ends (`SubsByEnd`, `SubShift`). So a content that
an allow rule finds in a line is found by a deny rule in some sub-command
(`DenySeesIt`); when the rest is one command and what may be stripped holds no
operator, the line has no second one (`OneCommand`), which leaves the kinds of compound
lines that the property names; and a wrapper with a flag in front leaves the same
rest (`PeelsFront`). Paths: the fold of `NormalizePath`, taken step by step (`FoldIs`),
comes to the place that the walk of `Opened` reaches (`WalkIs`, `SamePlace`), so the
comparison of normalised paths is one of places.

`AgentLoop_proofs` has four parts. The first is about lists of messages. A list is
`Proper` if it pairs, tells its calls apart, and only assistants call. `SafeBoundary`: if
the tail behind a boundary is self-consistent, both halves pair; that is what makes the
code's set inclusion as good as the adjacency of the reference. `CompactedIsProper`:
`build_compacted` makes a proper list of a proper one and keeps its head and its end.

The second is about the loop, for every limit of rounds and turns, context window,
caller and size of message (`LoopAssumption`, `CallersAssumption`): `TypeCorrect`,
`RequestsWellPaired`, `PromptAlwaysGoverns` and `NewestAlwaysShown`. None is inductive
by itself: that a request pairs follows from how its list came about. `ListsInv` says of
every await what the lists are. The memory is proper, real, and of earlier turns
(`MemoryInv`); in the loop `messages` is fit to be sent (`Fit`: proper, older than
the next round, governed by the prompt, ending with what was said last), and
`new_turns` is whole rounds in order (`Rounds`); a list sent to the summarizer is
proper (`SummaryInv`); while the tools run both lists are so but for a last turn of calls
without its results (`ToolsInv`), which the completed round supplies in one go. One
lemma for each step of the loop carries it. `ImplementsConversation` is the refinement
of `Conversation`: with `ListsInv`, what `Leave` and the completed turn store is a reply
in the sense of `IsReplyOfTurn`, and every other step stutters.

The third is about `Compaction`: `SplitsWellPaired`, `TailsTight`, `EndsAlwaysSurvive` and
`MicrocompactStable`, for histories of any length with any number of calls in a turn
(`HistoryInv`: proper, with ids behind the position of the turn to come). Histories of
`HistorySpec` have never been compacted; the theorems whose names end in `InTurns`
show the four properties of the lists that the loop holds, which have been, any
number of times.

The fourth is `CostIsBounded`. The bound on `model_calls` does not survive a step by
itself; the invariant (`CostInv`) says how many calls may have been made where the turn
stands: before a compaction at most `Spent`, two for each completed round and two for
the reactive compaction if it has happened (`Extra`), one more while a summary is
awaited, two more while the model is asked or tools run. `Overflow` goes back to the
compaction without completing a round and pays for it with `Extra`, which it can do
once; the faulty variant that forgets this breaks the property.

`Sessions_proofs`, for any number of sessions and turns, any cap and ttl
(`StoreAssumption`): `TypeCorrect`, `StoreInOrder`, `Isolation`, `AnswersInPlace`, and the
action properties `HistoryIsKept` and `EvictionIsRight`. Isolation needs that a memory has
one owner wherever it is found: in the entries, in the turns that hold it and in what
was written to it (`OneOwner`), also after the store has dropped it. That an answer
follows its question needs that until a turn answers, its question stands at the
end of its memory (`Asked`), and that two turns in flight in one session have put it
among the raced (`Races`). The exactness of the eviction is proved of the request
itself: the selection of the live entries keeps their order, and what is then cut
off the front is the least recently used.

`Serve_proofs`, for all settings and any number of starts, for every list of files,
set of contents and chunking (`IngestAssumption`, `ServeAssumption`). First the
ingestion inside the server: `Invariance`, and from it `NothingRecordedEarly` and
`NothingRedone`. Each step of the coroutine has a lemma; the invariant adds the shape of
its record, `InStep`, that its copy of the manifest is the one on disk, and `Progress`:
while it stores, the chunks before `next` are stored or missed, and before it saves,
all chunks of the digest it hashed. That the text may not be what was hashed makes
`Progress` a disjunction: then all chunks of the digest count as missed. One lemma,
`GoneInv`, covers every way in which the coroutine ends. What is proved of redoing is
about the manifest on disk: a write of it that is cut short empties it, and then
nothing is on record.

Then the server itself: `IngestionInside`, `NothingLeaks` and `TargetsHaveSandbox`. Its
invariant ties the exit stack to what runs: no service is on it twice and the gateway's stop is
on top (`StackShape`); the stack holds what the lifespan has registered where it stands
(`Registered`); what is available, running or kept up has a stop on the stack, or one
that has failed (`Owned`). The stack's order is what makes the sandbox outlive the
gateway: when the sandbox's stop is on top, the gateway's is gone, so by `Owned` the
gateway does not run. `TypeCorrect` adds the types of the coroutine (`JobTypes`) and of
the rest (`Around`); that the stack is of at most three stops follows from `StackShape`.

`Telemetry_proofs`, for any number of runs, concurrent calls and rounds, any finite set
of ids and any overlap (`TelemetryAssumption`): `SpansAreClosed`, that
`SpansCloseInOrder` is an invariant, and `NothingIsLostPerId` and `NothingLost`, of the
tallies per id and of the grand total of every event emitted. That an end event finds its span takes six
conjuncts: the names of spans are behind the control of their run, so that a new span
is new (`Named`); what the tables hold is open and under its own key (`Tables`); an open
span is held, and so is its parent (`Found`, the property itself); behind a held run
or model span there is a run of that id that is active or awaits the model (`Behind`);
two active runs with one id have spoilt it (`Overlaps`). With the last two no
`run_start` can overwrite a span of an id that is not spoilt. `NothingIsLostPerId` needs
only that addition of tallies is associative field by field. The grand total is a sum
over all ids: `Totals` says that it is, and the sum over a finite set grows by what one
of its terms grows.

`Selection_proofs` holds what these proofs need by induction. The library's induction
theorems are parameterised by an operator, which the installed provers cannot
instantiate; here induction is stated for a set of numbers (`NatSetInduction`, from the
well-foundedness of `<`) or of sets (`SubsetInduction`). From them follow the existence of
functions defined by recursion over an interval (`PrimitiveRecursion`) or over a finite
set (`FoldRecursion`), without which nothing can be said of a CHOOSE that defines
one, largest and smallest elements, and what `Select` picks, how long it is and when it
picks everything. `Sessions`, `AgentLoop` and `Ingest` write the comprehensions of the code
with `Select` for that reason: `SelectSeq` takes an operator, and the prover does not
expand it.

Only model-checked: liveness (`TurnSettles`, `TurnsEnd`, `StartsAndStops`), because the
fairness of the specifications speaks of ENABLED, which the prover does not handle; and
the four properties that do not hold (section 5).

## 5. Where code and documentation differ

- `in_flight`: `docs/configuration.md:68` calls the ttl the "idle lifetime of a
  session". `last_seen` is set when a request arrives, so a session can be
  evicted while its turn runs, by ttl or by cap, and the turn's history is lost.
- `tallies`: `accounting.py:9` says tallies are dropped on `run_end` "so memory
  stays bounded". A tool call left behind by a failed `gather` reports afterwards
  and re-creates its run's tally.
- `without_qdrant`: `docs/rag.md:70` says ingestion is skipped while Docker,
  Qdrant or the gateway is not up. With the gateway up and Qdrant down, the store
  tool exists, its calls return error strings, and the file is recorded in the
  manifest with nothing stored; later starts skip it.
- `literal`: `pathpolicy.py:18` says that a path with expansion syntax "can't be
  trusted against a literal allowlist", line 54 that it always matches "so a deny
  rule catches the suspicious call". It matches allow rules as well, so that under
  the confinement of `docs/security.md:128` a call with such a path runs. The same
  property does not hold of shell tools: "an allow rule never matches a compound
  command" (`docs/security.md:120`), and `shellpolicy.py:26` counts a command that
  expands as one, but sub-commands are counted without substitutions, so
  `git:*` allows `git $(x)`.

Disagreements that no run shows because the properties are worded as what the code
does:

- Beside substitutions, an allow rule lets through a line whose second command stands
  behind a line break (joined to the first before the line is cut) or begins at an
  operator inside a leading assignment or flag (stripped with it).
  `AllowCoversOneCommand` names these kinds and says that there are no others.
- `accounting.py:6`, `:10` and `:141` describe the grand total as that of completed
  runs, into which `run_end` folds each. The code adds every event when it comes,
  those of runs still open and of stray calls included, and `NothingIsLost` says so.
- `documents.py:128` promises that an interrupted run "resumes without redoing
  finished files". A kill inside `write_text` leaves an empty manifest and every file
  is done again. `FinishedIsNotRedone` speaks of what the manifest records.
- `tracing.py:170` says every entry for a run is dropped on `run_end`. A tool call
  left behind that starts after `run_end` and then raises leaves its span held, and
  open, for ever. `SpansCloseInOrder` asks that it can still be found.
- `extract_path` picks one path. A second one (the destination of a move) and a list
  of paths are never compared with a rule; `docs/security.md:128` makes no such
  exception.

Beside these, `PROJECT.json` lists among the hazards behaviour that no document
promises otherwise: stale chunks of a changed PDF stay in the store, a PDF that
cannot be parsed keeps those sorted behind it from being ingested, an orphaned
gateway on the port passes for one's own, a deny rule whose content begins with an
assignment matches nothing that begins with one, and a rule for the root directory
matches that directory only. Also, `_maybe_compact` runs right after a turn's
results are recorded and keeps three, so of four large results the first is
blanked before the model has been sent it once; `keep_recent = 0` clears nothing;
`max_retries < 0` makes `complete` fail with an `AttributeError`.

## 6. Not modelled

- Parsing and printing of rules (`parse_rule`, `format_rule`) and which of several
  matching rules a decision names. Quotes in command lines, and changes of the file
  system.
  In `ToolBatch` the decision is a free choice.
- Guardrail detectors, message and schema conversion, result flattening and
  truncation, `is_context_overflow`: text. Their outcomes are choices.
- Prices and tokens in the tallies: all fields are added the same way, and counts
  show a lost or doubled event.
- Authentication, streaming and response objects of the HTTP API; YAML rewriting
  of the gateway config; the CLI's terminal; RAG seeding (a sequential one-shot
  command); the corpus, prompts, price table, web search, preflight, settings.

## 7. Plan

Built, in this order: `ToolOrder`/`ToolBatch` and their proofs, `Compaction`,
`AgentLoop`, `Sessions`, `Telemetry`, `Ingest`, `Serve`, `LlmClient` and its
proofs.

Then `Permissions`, `ToolAccess` and its proofs, `ShellPolicy`, `PathPolicy`,
`ToolPolicy`, overlapping runs in `Telemetry`, and `Conversation`.

Then the proofs about `AgentLoop`, `Compaction`, `Sessions`, `Ingest`, `Serve`,
`Telemetry` and `ToolPolicy`: every invariant and action property of the passing
runs, and both refinements, have a theorem.

Next, the model: tool-call ids that repeat, as a parameter of the histories in
`MCCompaction`; the SSH config of an unsupervised sandbox and the sandbox dying
under a running gateway.
