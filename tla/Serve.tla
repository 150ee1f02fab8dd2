------------------------------- MODULE Serve -------------------------------
(***************************************************************************)
(* The lifespan of `redcell serve` (server.py): the supervisors of Qdrant  *)
(* (qdrant.py), of the OpenShell sandbox (openshell.py) and of             *)
(* AgentGateway (gateway.py), the rendering of the gateway's config        *)
(* (cli.py, gatewayconfig.py), tool discovery (mcp.py), the background     *)
(* ingestion (Ingest) and the teardown, over several starts of the server. *)
(* Containers, files and orphaned processes outlive the server.            *)
(* Targets of the gateway: "store" stands for those that run on the host,  *)
(* "shell" for those launched over SSH into the sandbox.                   *)
(***************************************************************************)
EXTENDS Ingest, SequencesExt

CONSTANTS
    Settings    \* the settings a server may be started with

ASSUME ServeAssumption ==
    Settings \subseteq [qdrant : {"off", "watched", "managed"}, stop_on_exit : BOOLEAN,
                        openshell : BOOLEAN, delete_on_exit : BOOLEAN, gateway : BOOLEAN]

VARIABLES
    stage,      \* where the lifespan is
    settings,   \* Settings() of this server
    stack,      \* the stops pushed on the AsyncExitStack
    available,  \* the supervisors whose available flag is set
    proc,       \* the gateway's process: "none", "launched", "listening", "exited"
    config,     \* the targets in the config it was launched with
    fallback,   \* that config is the source file, unmodified
    tools,      \* the targets whose tools were discovered
    container,  \* Qdrant answers
    sandbox,    \* the sandbox exists
    ssh,        \* the generated SSH config is on disk
    orphans,    \* configs of gateways that a killed server left on the port
    excused     \* services that could not be stopped (history variable)

server == <<stage, settings, stack, available, starts>>
gateway == <<proc, config, fallback, tools>>
world == <<container, sandbox, ssh, orphans, excused>>
vars == <<server, gateway, world, ingest>>

Targets == {"store", "shell"}
Services == {"qdrant", "openshell", "gateway"}
Starting == {"qdrant", "openshell", "gateway", "probing", "mcp"}
Running == proc \in {"launched", "listening"}

Init ==
    /\ IngestInit
    /\ stage = "down" /\ settings \in Settings
    /\ stack = <<>> /\ available = {}
    /\ proc = "none" /\ config = {} /\ fallback = FALSE /\ tools = {}
    /\ container = FALSE /\ sandbox = FALSE /\ ssh = FALSE
    /\ orphans = {} /\ excused = Services

-----------------------------------------------------------------------------
(* Whatever happened to the host meanwhile, a server is started.           *)
Boot ==
    /\ stage = "down" /\ starts < MaxStarts /\ starts' = starts + 1
    /\ stage' = "qdrant" /\ settings' \in Settings
    /\ container' \in BOOLEAN /\ sandbox' \in BOOLEAN
    /\ orphans' \in {orphans, {}} /\ excused' = {}
    /\ proc' = "none" /\ UNCHANGED <<config, fallback, tools>>
    /\ UNCHANGED <<stack, available, ssh, ingest>>

Enter(next) == stage' = next /\ UNCHANGED <<settings, starts>>

(* Seeded fault of Register: a service that is not ready is not stopped.   *)
Register_WhenReady(svc) ==
    stack' = IF svc \in available' THEN Append(stack, svc) ELSE stack

(* Once start() has returned, ready or not, its stop is pushed.            *)
Register(svc) == stack' = Append(stack, svc)

Skip(svc, next) ==
    /\ stage = svc
    /\ Enter(next)
    /\ UNCHANGED <<stack, available, gateway, world, ingest>>

SkipQdrant == settings.qdrant = "off" /\ Skip("qdrant", "openshell")

(* compose up, if managed, which may fail; then wait for the port until    *)
(* the deadline, which an answer may miss.                                 *)
StartQdrant ==
    /\ stage = "qdrant" /\ settings.qdrant # "off"
    /\ container' \in {container} \cup (IF settings.qdrant = "managed" THEN {TRUE} ELSE {})
    /\ \/ UNCHANGED available
       \/ container' /\ available' = available \cup {"qdrant"}
    /\ Register("qdrant") /\ Enter("openshell")
    /\ UNCHANGED <<gateway, sandbox, ssh, orphans, excused, ingest>>

SkipOpenShell == ~settings.openshell /\ Skip("openshell", "gateway")

(* No CLI, no healthy control plane or no sandbox; or a sandbox without a  *)
(* usable SSH config; or both.                                             *)
StartOpenShell ==
    /\ stage = "openshell" /\ settings.openshell
    /\ \/ UNCHANGED <<sandbox, ssh, available>>
       \/ sandbox' = TRUE /\ ssh' \in {ssh, TRUE} /\ UNCHANGED available
       \/ sandbox' = TRUE /\ ssh' = TRUE /\ available' = available \cup {"openshell"}
    /\ Register("openshell") /\ Enter("gateway")
    /\ UNCHANGED <<gateway, container, orphans, excused, ingest>>

SkipGateway == ~settings.gateway /\ Skip("gateway", "mcp")

(* Seeded fault of SandboxUp: it looks at the file only.                   *)
SandboxUp_Written == ssh

(* gateway_command: the supervisor knows; without one, the generated file  *)
(* is taken for the sandbox.                                               *)
SandboxUp == IF settings.openshell THEN "openshell" \in available ELSE ssh

(* render_gateway_config drops the sandbox targets if the sandbox is not   *)
(* up, and any target whose runtime is not on PATH.                        *)
Rendered == SUBSET (IF SandboxUp THEN Targets ELSE Targets \ {"shell"})

(* Render, then spawn.  A config that cannot be parsed or written is       *)
(* launched as it is; a missing binary is no error.                        *)
Spawn ==
    /\ stage = "gateway" /\ settings.gateway
    /\ \/ config' \in Rendered /\ fallback' = FALSE
       \/ config' = Targets /\ fallback' = TRUE
    /\ UNCHANGED <<available, tools, world, ingest>>
    /\ \/ proc' = "launched" /\ Enter("probing") /\ UNCHANGED stack
       \/ proc' = "none" /\ Enter("mcp") /\ Register("gateway")

(* Seeded fault of Probe: the loop has no deadline.                        *)
Probe_NoDeadline ==
    /\ stage = "probing" /\ Enter("mcp")
    /\ UNCHANGED <<config, fallback, tools, world, ingest>>
    /\ \/ proc = "exited" /\ UNCHANGED <<available, proc>>
       \/ /\ proc = "listening" \/ (Running /\ orphans # {})
          /\ available' = available \cup {"gateway"} /\ UNCHANGED proc
    /\ Register("gateway")

(* _wait_ready: the process has exited; or the port answers, whoever       *)
(* listens there; or the deadline passes and start() stops the process.    *)
Probe ==
    /\ stage = "probing" /\ Enter("mcp")
    /\ UNCHANGED <<config, fallback, tools, world, ingest>>
    /\ \/ proc = "exited" /\ UNCHANGED <<available, proc>>
       \/ /\ proc = "listening" \/ (Running /\ orphans # {})
          /\ available' = available \cup {"gateway"} /\ UNCHANGED proc
       \/ Running /\ proc' = "none" /\ UNCHANGED available
    /\ Register("gateway")

(* Who answers at the gateway's address: a gateway run by hand, one left   *)
(* behind, or ours.                                                        *)
Answering == IF ~settings.gateway THEN SUBSET Targets
             ELSE IF proc = "listening" THEN {config} ELSE orphans

(* Tools are discovered once.  A target that cannot start takes every tool *)
(* down.  Then the ingestion is scheduled and the server binds.            *)
EnterManager ==
    /\ stage = "mcp" /\ Enter("serving")
    /\ tools' \in {{}} \cup {c \in Answering : "shell" \in c => sandbox}
    /\ Schedule
    /\ UNCHANGED <<stack, available, proc, config, fallback, world>>

(* A start that raises unwinds what was registered before it; its own stop *)
(* is not pushed.  compose and the gateway's binary raise when they cannot *)
(* be executed, before anything is up; the openshell CLI is called several *)
(* times, and the call that raises may come after the sandbox has been     *)
(* made and the SSH config opened.                                         *)
StartRaises ==
    /\ \/ stage = "qdrant" /\ settings.qdrant # "off" /\ UNCHANGED <<sandbox, ssh>>
       \/ /\ stage = "openshell" /\ settings.openshell
          /\ sandbox' \in {sandbox, TRUE} /\ ssh' \in {ssh, ssh \/ sandbox'}
       \/ stage = "gateway" /\ settings.gateway /\ UNCHANGED <<sandbox, ssh>>
       \/ stage = "mcp" /\ UNCHANGED <<sandbox, ssh>>
    /\ Enter("unwinding")
    /\ excused' = excused \cup (Services \ ToSet(stack))
    /\ UNCHANGED <<stack, available, gateway, container, orphans, ingest>>

-----------------------------------------------------------------------------
(* Serving.                                                                *)
StoreUp == container /\ Answering # {}

Ingesting ==
    /\ stage = "serving"
    /\ IngestStep(tools, StoreUp)
    /\ UNCHANGED <<server, gateway, world>>

(* Seeded fault of Shutdown: the task is not waited for.                   *)
Shutdown_NoWait ==
    /\ stage = "serving" /\ job.at \in {"idle", "scheduled", "store"}
    /\ Enter("unwinding")
    /\ UNCHANGED <<stack, available, gateway, world, ingest>>

(* The lifespan resumes between two steps of the event loop, when the      *)
(* ingestion is over, has not begun, or awaits a store call.               *)
Shutdown ==
    /\ stage = "serving" /\ job.at \in {"idle", "scheduled", "store"}
    /\ Enter(IF Working THEN "cancelling" ELSE "unwinding")
    /\ UNCHANGED <<stack, available, gateway, world, ingest>>

AwaitCancelled ==
    /\ stage = "cancelling" /\ Enter("unwinding")
    /\ Cancelled(StoreUp)
    /\ UNCHANGED <<stack, available, gateway, world>>

Top == Last(stack)

Unwind(svc) ==
    /\ stage = "unwinding" /\ stack # <<>> /\ Top = svc
    /\ stack' = Front(stack)
    /\ available' = available \ {svc}
    /\ UNCHANGED <<stage, settings, starts, config, fallback, tools, ssh, orphans, ingest>>

(* Terminate, and kill after five seconds; nothing if it has exited.       *)
StopGateway ==
    /\ Unwind("gateway")
    /\ proc' = IF Running THEN "none" ELSE proc
    /\ UNCHANGED <<container, sandbox, excused>>

(* compose stop if managed and asked for; its failure is only logged.      *)
StopQdrant ==
    /\ Unwind("qdrant")
    /\ IF settings.qdrant = "managed" /\ settings.stop_on_exit
       THEN \/ container' = FALSE /\ UNCHANGED excused
            \/ excused' = excused \cup {"qdrant"} /\ UNCHANGED container
       ELSE UNCHANGED <<container, excused>>
    /\ UNCHANGED <<proc, sandbox>>

StopOpenShell ==
    /\ Unwind("openshell")
    /\ IF settings.delete_on_exit
       THEN \/ sandbox' = FALSE /\ UNCHANGED excused
            \/ excused' = excused \cup {"openshell"} /\ UNCHANGED sandbox
       ELSE UNCHANGED <<sandbox, excused>>
    /\ UNCHANGED <<proc, container>>

(* What the server knew of its gateway ends with it.                       *)
Forget == config' = {} /\ fallback' = FALSE /\ tools' = {}

Exit ==
    /\ stage = "unwinding" /\ stack = <<>>
    /\ Enter("down") /\ Forget
    /\ UNCHANGED <<stack, available, proc, world, ingest>>

-----------------------------------------------------------------------------
(* The environment.                                                        *)

(* The gateway binds its port, if nobody else has, or exits.               *)
GatewayMoves ==
    /\ \/ proc = "launched" /\ orphans = {} /\ proc' = "listening"
       \/ Running /\ proc' = "exited"
    /\ UNCHANGED <<server, config, fallback, tools, world, ingest>>

QdrantDies ==
    /\ container /\ stage # "down" /\ container' = FALSE
    /\ UNCHANGED <<server, gateway, sandbox, ssh, orphans, excused, ingest>>

(* The server is killed: nothing is unwound, its gateway lives on.         *)
Kill ==
    /\ stage # "down" /\ Enter("down")
    /\ Killed(StoreUp)
    /\ stack' = <<>> /\ available' = {} /\ proc' = "none"
    /\ orphans' = IF Running /\ orphans = {} THEN {config} ELSE orphans
    /\ excused' = Services
    /\ Forget
    /\ UNCHANGED <<container, sandbox, ssh>>

Environment ==
    \/ GatewayMoves \/ QdrantDies \/ Kill \/ Boot \/ Shutdown
    \/ Edit /\ UNCHANGED <<server, gateway, world>>

Startup ==
    \/ SkipQdrant \/ StartQdrant \/ SkipOpenShell \/ StartOpenShell
    \/ SkipGateway \/ Spawn \/ Probe \/ EnterManager \/ StartRaises

Teardown == AwaitCancelled \/ StopGateway \/ StopQdrant \/ StopOpenShell \/ Exit

Next == Startup \/ Ingesting \/ Teardown \/ Environment

Spec == Init /\ [][Next]_vars

(* The event loop runs the lifespan, one coroutine, on.  The probes and    *)
(* the openshell CLI have deadlines; that `docker compose` and the         *)
(* discovery return, which have none here, is assumed.  Nothing is assumed *)
(* of the environment.                                                     *)
FairSpec == Spec /\ WF_vars(Startup \/ Teardown)

-----------------------------------------------------------------------------
TypeOK ==
    /\ IngestTypeOK
    /\ stage \in Starting \cup {"down", "serving", "cancelling", "unwinding"}
    /\ settings \in Settings
    /\ ToSet(stack) \subseteq Services /\ Len(stack) <= 3
    /\ available \subseteq Services
    /\ proc \in {"none", "launched", "listening", "exited"}
    /\ config \subseteq Targets /\ tools \subseteq Targets
    /\ {container, sandbox, ssh, fallback} \subseteq BOOLEAN
    /\ orphans \subseteq SUBSET Targets
    /\ excused \subseteq Services

(* The ingestion stores through tools of the gateway, so it is over, or    *)
(* cancelled, before the gateway is stopped, and never alive while the     *)
(* stack unwinds or the server is down.                                    *)
IngestsOnlyWhileServing ==
    Working => /\ stage \in {"serving", "cancelling"}
               /\ settings.gateway => "gateway" \in ToSet(stack)

(* A failed start "can't leak an earlier one": when an orderly shutdown is *)
(* over, after any failure during startup, the gateway's process is gone   *)
(* and what was to be stopped on exit is stopped, unless its stop failed.  *)
NothingIsLeftRunning ==
    stage = "down" =>
        /\ ~Running
        /\ container /\ settings.qdrant = "managed" /\ settings.stop_on_exit
              => "qdrant" \in excused
        /\ sandbox /\ settings.openshell /\ settings.delete_on_exit
              => "openshell" \in excused

(* "One dead target takes every tool down": no gateway runs on a rendered  *)
(* config with sandbox targets while the supervised sandbox is missing --  *)
(* neither because an earlier start left its SSH config on disk, nor       *)
(* because the sandbox is deleted under the gateway during shutdown.       *)
SandboxTargetsHaveSandbox ==
    Running /\ ~fallback /\ settings.openshell /\ "shell" \in config => sandbox

(* No service can keep the server from coming up or from going down: a     *)
(* start ends with the server serving or down, a shutdown, which serves no *)
(* more, with the server down.                                             *)
Settled == stage \in {"serving", "down"}

StartsAndStops == []<>Settled

(* "if Docker/Qdrant/the gateway aren't up (...), ingestion logs a warning *)
(* and is skipped" (docs/rag.md:70): while Qdrant did not become available *)
(* and is down, no file is recorded as ingested.                           *)
SkippedWithoutQdrant ==
    [][settings.qdrant # "off" /\ "qdrant" \notin available /\ ~container
          => \A f \in FileSet : Get(manifest', f) \in {Get(manifest, f), None}]_vars
=============================================================================
