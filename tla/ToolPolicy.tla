----------------------------- MODULE ToolPolicy -----------------------------
(***************************************************************************)
(* toolpolicy.py: the content matcher of redcell serve, which compares the *)
(* rules of shell tools as command lines, those of file tools as paths and *)
(* all others as text, and what follows from it for the calls of           *)
(* ToolAccess.                                                             *)
(***************************************************************************)
EXTENDS ToolAccess, ShellPolicy, PathPolicy

DefaultShellTerms ==
    {<<"run_command">>, <<"run_script">>, <<"bash">>, <<"shell">>, <<"powershell">>}

DefaultPathTerms ==
    { <<"read_file">>, <<"read_text_file">>, <<"read_media_file">>,
      <<"read_multiple_files">>, <<"write_file">>, <<"edit_file">>,
      <<"create_directory">>, <<"move_file">>, <<"list_directory">>,
      <<"directory_tree">>, <<"search_files">>, <<"get_file_info">>, <<"filesystem">> }

IsShellTool(name) == \E term \in DefaultShellTerms : Covers(term, name)
IsPathTool(name) == ~IsShellTool(name) /\ \E term \in DefaultPathTerms : Covers(term, name)

(* default_content_match: the content is part of some argument.            *)
DefaultContentMatch(content, args) ==
    \E p \in DOMAIN args : content.words \in SubSeqs(args[p].words)

(* The matcher make_content_matcher returns.                               *)
Matcher(name, rule, args) ==
    IF IsShellTool(name)
    THEN LET command == ExtractCommand(args)
         IN  command # <<>> /\ CommandRuleMatches(rule.behavior, rule.content, command)
    ELSE IF IsPathTool(name) THEN PathRuleMatches(rule.content.words[1], args)
    ELSE DefaultContentMatch(rule.content, args)

(* Settings hold policies whose rules have contents of some shape.  File   *)
(* tools are called with paths, and their rules name directories.          *)
ASSUME PolicyAssumption ==
    /\ \A s \in Settings :
          /\ s.policy \in [enabled : BOOLEAN, rules : {s.policy.rules},
                           default : Behaviors, ask : {"allow", "deny"}]
          /\ \A rule \in s.policy.rules :
                /\ rule \in [behavior : Behaviors, tool : {rule.tool}, content : {rule.content}]
                /\ rule.content = NoContent \/ IsShellContent(rule.content)
    /\ \A name \in Names : \A args \in CallsOf(name) :
          /\ args \in Seq(ToSet(args))
          /\ \A p \in DOMAIN args :
                args[p].type = "text" \/ args[p].key = "argv"
                   => args[p].words \in Seq(ToSet(args[p].words))
          /\ IsPathTool(name) =>
                /\ ExtractPath(args) \in DOMAIN Spelled \cup PathExpanding \cup {NoPath}
                /\ \A s \in Settings : \A rule \in s.policy.rules :
                      Covers(rule.tool, name) /\ rule.content # NoContent
                         => rule.content.words # <<>> /\ rule.content.words[1] \in DOMAIN Spelled

-----------------------------------------------------------------------------
Policy == settings.policy

Permitted(policy, args) == Evaluate(policy, outcome.name, args).allowed

(* A call that runs only because an allow rule with a content matches it.  *)
(* The tokens EXEC and RM are no such contents, and are meant for denying. *)
RunsByContent ==
    /\ Ran /\ Policy.enabled /\ Policy.default = "deny"
    /\ \A rule \in Policy.rules :
          rule.behavior # "deny" /\ Covers(rule.tool, outcome.name) =>
             /\ rule.behavior = "allow"
             /\ rule.content.shape \in {"exact", "word", "prefix", "wild"}

(* A sub-command that is more than wrappers, flags and assignments.        *)
Substantial(line, s) ==
    ~(ToSet(Sub(line, s)) \subseteq Wrappers \cup Dashed \cup Digits \cup Assignments)

(* The leading tokens that may be stripped off.                            *)
Strippable(line) ==
    SubSeq(line, 1, Lead(line, Wrappers \cup Digits, Dashed \cup Assignments))

(* The compound lines (is_compound) that an allow rule lets through are of *)
(* three kinds only: a line with a substitution or a line break in it; one *)
(* with an operator written into a flag or an assignment at its start,     *)
(* which is stripped with it; and one whose operators have nothing but     *)
(* wrappers, flags and assignments on all sides but one.  Every other line *)
(* that runs by an allow rule is one command.  The code does not hold to   *)
(* "an allow rule never matches a compound command": see AllowedIsLiteral. *)
AllowCoversOneCommand ==
    LET line == ExtractCommand(outcome.args)
    IN  RunsByContent /\ IsShellTool(outcome.name) /\ IsCompound(line) =>
            \/ ToSet(line) \cap (Substituting \cup Breaks) # {}
            \/ ToSet(Strippable(line)) \cap Operators # {}
            \/ Cardinality({s \in SubCommands(line) : Substantial(line, s)}) <= 1

(* Whatever an allow rule permits, the same rule as a deny rule refuses,   *)
(* through all that is stripped differently for the two ("deny beats ask   *)
(* beats allow", permissions.py).  Contents that begin with an assignment, *)
(* or with a word with a star that may stand for one, are excepted: a deny *)
(* rule never sees leading assignments.                                    *)
RevokedIsRefused ==
    outcome # NoCall =>
        \A rule \in Policy.rules :
            /\ rule.behavior = "allow" /\ Matches(rule, outcome.name, outcome.args)
            /\ rule.content.words # <<>> =>
                  rule.content.words[1] \notin Assignments \cup Starred
            => LET twin == [rule EXCEPT !.behavior = "deny"]
               IN  ~Permitted([Policy EXCEPT !.enabled = TRUE, !.rules = @ \cup {twin}],
                              outcome.args)

(* Running a command under timeout, nice, env, ... with a flag or a number *)
(* or without does not change what the policy decides about it, whether or *)
(* not it is under wrappers of its own.  A line with an expansion in it,   *)
(* or in the flag, is excepted: strip_wrappers returns it as it is; so is  *)
(* a line of wrappers, flags and numbers alone.                            *)
WrappersAreTransparent ==
    outcome # NoCall /\ IsShellTool(outcome.name) =>
        LET raw == ExtractCommand(outcome.args)
            line == Joined(raw)
            Wrapped(front) == <<Argument("command", "text", front \o raw)>>
            flags == {<<>>} \cup {<<f>> : f \in (Dashed \cup Digits) \ Expanding}
        IN  /\ ToSet(line) \cap Expanding = {}
            /\ Lead(line, Wrappers \cup Digits, Dashed) < Len(line)
            /\ line[1] \notin Dashed \cup Digits \cup GluedBefore
            => \A wrapper \in Wrappers, f \in flags :
                  Permitted(Policy, Wrapped(<<wrapper>> \o f)) = Permitted(Policy, outcome.args)

(* Where the file system leads when a word is walked step by step.         *)
Opened(word) ==
    LET steps == Spelled[word].steps
        walk[k \in 0..Len(steps)] ==
            IF k = 0 THEN Start(word)
            ELSE IF steps[k] = Up
                 THEN SubSeq(walk[k - 1], 1, Len(walk[k - 1]) - 1)
                 ELSE LET child == walk[k - 1] \o <<steps[k]>>
                      IN  IF child \in DOMAIN Links THEN Links[child] ELSE child
    IN  walk[Len(steps)]

(* Of the path of a file tool's call that extract_path picks, under a deny *)
(* default: it lies under the directory of a rule that vouches for it and  *)
(* under that of no deny rule, whatever ".." and links it passes; and if   *)
(* it has expansion syntax, it runs under no deny rule at all ("so a deny  *)
(* rule catches the suspicious call", pathpolicy.py).  What such a path    *)
(* stands for is not known here, nor does the code look at a second path   *)
(* or a list of them, so this is less than the confinement of              *)
(* docs/security.md: see AllowedIsLiteral.  A deny rule for the root       *)
(* directory is excepted, which matches that directory alone.              *)
ExaminedPathIsConfined ==
    LET Rules(behaviors) == {rule \in Policy.rules :
            rule.behavior \in behaviors /\ Covers(rule.tool, outcome.name)}
        path == ExtractPath(outcome.args)
        Inside(rule) == \/ rule.content = NoContent
                        \/ IsPrefix(Opened(rule.content.words[1]), Opened(path))
    IN  Ran /\ IsPathTool(outcome.name) /\ Policy.enabled /\ Policy.default = "deny" =>
            /\ path \in PathExpanding => Rules({"deny"}) = {}
            /\ path \notin PathExpanding \cup {NoPath} =>
                  /\ \E rule \in Rules({"allow", "ask"}) : Inside(rule)
                  /\ \A rule \in Rules({"deny"}) :
                        /\ rule.content # NoContent
                        /\ Inside(rule) => Opened(rule.content.words[1]) = <<>>

(* "An allow rule never matches a compound command" (docs/security.md:120, *)
(* a command that expands being one, shellpolicy.py:26), and a path with   *)
(* expansion syntax "can't be trusted against a literal allowlist"         *)
(* (pathpolicy.py:18): what runs only because an allow rule with a content *)
(* matches it has nothing in it that is yet to be expanded.                *)
AllowedIsLiteral ==
    RunsByContent =>
        /\ IsShellTool(outcome.name) =>
              ToSet(ExtractCommand(outcome.args)) \cap Substituting = {}
        /\ IsPathTool(outcome.name) => ExtractPath(outcome.args) \notin PathExpanding
=============================================================================
