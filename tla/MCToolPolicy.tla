---------------------------- MODULE MCToolPolicy ----------------------------
(***************************************************************************)
(* ToolPolicy with one shell, one file and one other target, a built-in    *)
(* tool a target offers too, all short command lines over a few pieces,    *)
(* paths with "..", "~" and a link, and settings of each kind.             *)
(***************************************************************************)
EXTENDS ToolPolicy

CONSTANT MaxPieces   \* bound: pieces of a command line, but for a few

Run == <<"shell", "run_command">>
Read == <<"filesystem", "read_file">>
Search == <<"web_search">>

MCTargets == [shell |-> {Run}, filesystem |-> {Read}, fetch |-> {<<"fetch">>, Search}]

(* "&&" has blanks around it here, ";" has none, "; " one behind it.       *)
Pieces == {"git", "push", "curl", "timeout", "10", "LANG=C", "MODE=x", "&&", ";", "newline"}

Star == "*"

(* g* stands for git, and for git with words behind it.                    *)
MCStarMatches(word, words) == word = Star \/ words[1] = "git"

MCBasename == [w \in {"/usr/bin/curl"} |-> "curl"]

Lines == {line \in SeqOf(Pieces, MaxPieces) :
            \A k \in 2..Len(line) : {line[k - 1], line[k]} # {";", "newline"}} \cup
    { <<"rm", "-rf", "/etc">>, <<"git", "$x">>, <<"timeout", "git", "$x">>,
      <<"rm", "-rf">>, <<"git", "&&", "rm", "-rf", "/etc">>, <<"/usr/bin/curl", "$x">>,
      <<"git", "$(x)">>, <<"LANG=C", ";", "curl", "git">>, <<"LANG=C", "; ", "curl", "git">>,
      <<"LANG=C", ";", "curl", "; ", "git">>, <<"timeout", "-T", ";", "curl", "git">>,
      <<"git", ";", "-T", ";", "push">> }

(* Place of the working directory and of the sandbox; old is a link out.   *)
Box == <<"home", "box">>
MCHome == <<"home">>
MCBuiltins == {Search}

MCSpelled ==
    [ box     |-> [start |-> "/", steps |-> Box],
      secret  |-> [start |-> "/", steps |-> Box \o <<"secret">>],
      root    |-> [start |-> "/", steps |-> <<>>],
      inside  |-> [start |-> "~", steps |-> <<"box", "a">>],
      hidden  |-> [start |-> ".", steps |-> <<"a", Up, "secret", "key">>],
      outside |-> [start |-> ".", steps |-> <<Up, Up, "etc">>],
      linked  |-> [start |-> ".", steps |-> <<"old", Up, "box", "a">>],
      behind  |-> [start |-> "/", steps |-> Box \o <<"old", "key">>] ]

MCLinks == [place \in {Box \o <<"old">>} |-> <<"var", "old">>]

Text(key, words) == Argument(key, "text", words)

MCCallsOf(name) ==
    CASE name = Run ->
            {<<Text("command", line)>> : line \in Lines}
            \cup {<<Text("cwd", <<"box">>), Text("cmd", <<"git">>)>>,
                  <<Text("cwd", <<"box">>), Argument("argv", "list", <<"curl", "-T">>)>>}
      [] name = Read ->
            {<<Text("path", <<w>>)>> : w \in DOMAIN MCSpelled \cup {"$x"}}
            \cup {<<Text("destination", <<"outside">>), Text("source", <<"inside">>)>>}
            \cup {<<Text("encoding", <<"utf-8">>), Text("file", <<"inside">>)>>, <<>>}
      [] OTHER -> {<<Text("query", <<"git">>)>>, <<Text("query", <<"news">>)>>}

-----------------------------------------------------------------------------
Shell(behavior, shape, words) == Rule(behavior, <<"run_command">>, Content(shape, words))
File(behavior, word) == Rule(behavior, <<"read_file">>, Content("word", <<word>>))

Engine(rules, default, ask) ==
    [enabled |-> TRUE, rules |-> rules, default |-> default, ask |-> ask]

Setting(policy, denied, readonly) ==
    [policy |-> policy, denied |-> denied, readonly |-> readonly]

(* The engine switched off, with a denylist; allow rules with a deny       *)
(* default; the two tokens and a whole target; asks; and the confinement   *)
(* of docs/security.md.                                                    *)
MCSettings ==
    { Setting([Engine({}, "allow", "deny") EXCEPT !.enabled = FALSE], {<<"shell">>}, {}),
      Setting(Engine({Shell("allow", "prefix", <<"git">>),
                      Shell("allow", "exact", <<"MODE=x", "curl">>),
                      File("allow", "box"), File("deny", "secret")}, "deny", "deny"),
              {<<"fetch">>}, {}),
      Setting(Engine({Shell("allow", "wild", <<"git", Star>>),
                      Shell("deny", "exact", <<"git", "push">>),
                      Shell("deny", "wild", <<Star, "curl", Star>>),
                      Rule("ask", <<"web_search">>, Content("word", <<"git">>)),
                      File("allow", "root"), File("deny", "linked")}, "deny", "deny"),
              {}, {<<"read_file">>}),
      Setting(Engine({Shell("deny", "EXEC", <<>>), Shell("deny", "RM", <<>>),
                      Rule("allow", <<"shell">>, NoContent),
                      Rule("ask", <<"read_file">>, NoContent)}, "ask", "allow"), {}, {}),
      Setting(Engine({File("allow", "box")}, "deny", "deny"), {}, {}),
      Setting(Engine({Shell("ask", "word", <<"curl">>),
                      Shell("allow", "wild", <<"g*">>),
                      Rule("allow", <<"read_file">>, NoContent),
                      File("ask", "box")}, "deny", "deny"),
              {<<"web_search">>}, {<<"shell">>}) }
=============================================================================
