----------------------------- MODULE ToolAccess -----------------------------
(***************************************************************************)
(* Which tools an agent of redcell serve has and which calls of them run:  *)
(* the discovery of the gateway's tools at startup (mcp.py), the registry  *)
(* each request's agent gets (build_agent in cli.py), and the permission   *)
(* gate before ToolRegistry.invoke (agent.py, tools.py).                   *)
(***************************************************************************)
EXTENDS Permissions

CONSTANTS
    Settings,    \* the settings a server may be started with
    Builtins,    \* the names of default_tools
    Targets,     \* of each target of the gateway, the names of its tools
    CallsOf(_)   \* the arguments a model may call a tool of this name with

VARIABLES
    stage,        \* "starting", "serving" or "answering" a request
    settings,     \* policy, denied and readonly terms; fixed at the start
    discovered,   \* MCPManager._tools
    flagged,      \* those of them marked concurrency-safe
    registry,     \* of the request's agent: name -> where the tool comes from
    outcome       \* what became of its call under way

vars == <<stage, settings, discovered, flagged, registry, outcome>>

NoTools == [name \in {} |-> "builtin"]

NoCall == [name |-> <<>>, to |-> "nothing"]

Init ==
    /\ stage = "starting"
    /\ settings \in Settings
    /\ discovered = {} /\ flagged = {}
    /\ registry = NoTools /\ outcome = NoCall

(* MCPManager.__aenter__: the tools of the targets that are up; none when  *)
(* the discovery fails.                                                    *)
Discover ==
    /\ stage = "starting"
    /\ \E up \in SUBSET DOMAIN Targets : discovered' = UNION {Targets[t] : t \in up}
    /\ stage' = "serving"
    /\ UNCHANGED <<settings, flagged, registry, outcome>>

-----------------------------------------------------------------------------
DefaultReadOnly ==
    { <<"fetch">>, <<"qdrant-find">>, <<"grep">>, <<"read_file">>, <<"read_text_file">>,
      <<"read_media_file">>, <<"read_multiple_files">>, <<"list_directory">>,
      <<"directory_tree">>, <<"search_files">>, <<"get_file_info">>,
      <<"list_allowed_directories">> }

(* The operator's list stands in the place of the default one.             *)
ReadOnlyTerms ==
    IF settings.readonly # {} THEN settings.readonly ELSE DefaultReadOnly

(* Seeded fault of Kept: a term drops the tool of exactly that name.       *)
Kept_Exact == {name \in discovered : name \notin settings.denied}

(* apply_denylist.                                                         *)
Kept == {name \in discovered : ~\E term \in settings.denied : Covers(term, name)}

(* A built-in tool keeps its name (register with overwrite=False).         *)
Registered ==
    [name \in Builtins \cup Kept |-> IF name \in Builtins THEN "builtin" ELSE "mcp"]

(* build_agent, at the start of every request.  The tools are the same     *)
(* objects for all requests, so a flag stays.                              *)
BuildAgent ==
    /\ stage = "serving"
    /\ flagged' = flagged \cup {name \in Kept : \E term \in ReadOnlyTerms : Covers(term, name)}
    /\ registry' = Registered
    /\ stage' = "answering"
    /\ UNCHANGED <<settings, discovered, outcome>>

(* is_concurrency_safe: the built-in tools declare themselves so; a tool   *)
(* nobody knows is not.                                                    *)
Parallel(name) ==
    /\ name \in DOMAIN registry
    /\ registry[name] = "builtin" \/ name \in flagged

(* _run_tool: the policy is asked first, then the registry for the tool.   *)
(* Whatever is not simply allowed is recorded by a permission event.       *)
CallTool(name, args) ==
    /\ stage = "answering" /\ outcome = NoCall
    /\ LET decision == Evaluate(settings.policy, name, args)
       IN  outcome' =
             [ name |-> name, args |-> args,
               recorded |-> decision.behavior # "allow",
               parallel |-> Parallel(name),
               to |-> IF ~decision.allowed THEN "blocked"
                      ELSE IF name \notin DOMAIN registry THEN "unknown"
                      ELSE registry[name] ]
    /\ UNCHANGED <<stage, settings, discovered, flagged, registry>>

(* The next call of the request.                                           *)
CallOver ==
    /\ outcome # NoCall
    /\ outcome' = NoCall
    /\ UNCHANGED <<stage, settings, discovered, flagged, registry>>

EndRequest ==
    /\ stage = "answering" /\ outcome = NoCall
    /\ stage' = "serving"
    /\ registry' = NoTools
    /\ UNCHANGED <<settings, discovered, flagged, outcome>>

(* A model may ask for any tool, also for one it was not offered.          *)
Names == Builtins \cup UNION {Targets[t] : t \in DOMAIN Targets}

Next ==
    \/ Discover \/ BuildAgent \/ CallOver \/ EndRequest
    \/ \E name \in Names : \E args \in CallsOf(name) : CallTool(name, args)

Spec == Init /\ [][Next]_vars

-----------------------------------------------------------------------------
Ran == outcome.to \in {"builtin", "mcp"}

(* Calls of one turn that run together only read, as far as that has been  *)
(* declared: by the built-in tool itself, or by a term of the list in      *)
(* force ("a same-turn write+read can't race", cli.py).                    *)
OnlyReadsShareARun ==
    Ran /\ outcome.parallel =>
        \/ outcome.name \in Builtins
        \/ \E term \in ReadOnlyTerms : Covers(term, outcome.name)

(* "A denied call never reaches the tool" (docs/security.md): what runs is *)
(* a built-in tool or one the gateway offered and no denylist term covers, *)
(* no deny rule covers the call, an ask rule only if asks are granted, and *)
(* without any rule the default must do; a refusal is on record, and what  *)
(* runs beside other calls only reads.                                     *)
DispatchIsGoverned ==
    LET policy == settings.policy
        Rules(behavior) == {rule \in policy.rules :
            rule.behavior = behavior /\ Matches(rule, outcome.name, outcome.args)}
    IN  /\ Ran => (outcome.to = "builtin" <=> outcome.name \in Builtins)
        /\ outcome.to = "mcp" =>
              /\ outcome.name \in discovered
              /\ \A term \in settings.denied : ~Covers(term, outcome.name)
        /\ Ran /\ policy.enabled =>
              /\ Rules("deny") = {}
              /\ Rules("ask") # {} => policy.ask = "allow"
              /\ Rules("ask") \cup Rules("allow") = {} =>
                    policy.default = "allow" \/ (policy.default = "ask" /\ policy.ask = "allow")
        /\ outcome.to = "blocked" => outcome.recorded
        /\ OnlyReadsShareARun
=============================================================================
