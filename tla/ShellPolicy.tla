---------------------------- MODULE ShellPolicy ----------------------------
(***************************************************************************)
(* shellpolicy.py: matching a command line with the content of a rule.  A  *)
(* command line is a sequence of pieces: words, operators and line breaks. *)
(* Words are apart by blanks; an operator may be written without a blank   *)
(* before or behind it, and is then part of the same token, as str.split   *)
(* makes them, as the piece there.  What the code finds out about the text *)
(* of a piece is given by the constants.                                   *)
(***************************************************************************)
EXTENDS Naturals, Sequences, FiniteSets, SequencesExt, FiniteSetsExt, Selection

CONSTANTS
    Operators,         \* what separates sub-commands: && || | ;
    GluedBefore,       \* operators with no blank before them, nor a line break
    GluedAfter,        \* operators with no blank behind them, nor a line break
    Breaks,            \* line breaks
    Expanding,         \* words with a $ or a backtick in them
    Substituting,      \* words with a $( or a backtick in them
    Wrappers,          \* _WRAPPERS
    Dashed,            \* words that begin with "-"
    Digits,            \* words that are numbers
    Assignments,       \* words that begin with NAME=
    SafeAssignments,   \* ... with a NAME in _SAFE_ENV
    DangerousExec,     \* DANGEROUS_EXEC
    Basename,          \* the last component of the words that have a "/"
    Recursive,         \* words with -rf or -fr, and dashed ones with an r
    SensitivePaths,    \* words _is_sensitive_path accepts
    Starred,           \* words of contents with a star in them
    StarMatches(_, _)  \* whether such a word stands for one or more words

ASSUME ShellAssumption ==
    /\ SafeAssignments \subseteq Assignments
    /\ Wrappers \cap (Assignments \cup Dashed \cup Digits) = {}
    /\ Substituting \subseteq Expanding
    /\ Expanding \cap (Wrappers \cup Digits) = {}
    /\ GluedBefore \cup GluedAfter \subseteq Operators
    /\ (Operators \cup Breaks) \cap (Wrappers \cup Dashed \cup Digits \cup Assignments) = {}
    /\ Operators \cap Breaks = {}

(* The content of a rule, by its shape: "exact" as in git status, "word"   *)
(* as in curl, "prefix" as in git:*, "wild" as in git * or g*, and the     *)
(* tokens "EXEC" and "RM".                                                 *)
Content(shape, words) == [shape |-> shape, words |-> words]

IsShellContent(content) ==
    /\ content.shape \in {"exact", "word", "prefix", "wild", "EXEC", "RM"}
    /\ content.words \in Seq(ToSet(content.words))

(* is_compound, which command_rule_matches does not ask.                   *)
IsCompound(raw) == ToSet(raw) \cap (Operators \cup Breaks \cup Substituting) # {}

(* A line break is a blank to str.split, and " ".join puts a blank there.  *)
Joined(raw) == Select(raw, {k \in DOMAIN raw : raw[k] \notin Breaks})

Starts(line, k) ==
    k = 1 \/ (line[k] \notin GluedBefore /\ line[k - 1] \notin GluedAfter)

(* The number of pieces in the leading tokens that are one of the words    *)
(* whole or begin with one of the words opening.                           *)
Lead(line, whole, opening) ==
    Max({n \in 0..Len(line) :
            /\ n = Len(line) \/ Starts(line, n + 1)
            /\ \A k \in 1..n : Starts(line, k) =>
                  \/ line[k] \in opening
                  \/ line[k] \in whole /\ (k = Len(line) \/ Starts(line, k + 1))})

Drop(line, n) == SubSeq(line, n + 1, Len(line))

-----------------------------------------------------------------------------
(* Seeded fault of StripWrappers: only the first wrapper is peeled.        *)
StripWrappers_Once(raw) ==
    LET line == Joined(raw)
        first == Lead(line, Wrappers, {})
        rest == Drop(line, 1 + Lead(Tail(line), Digits, Dashed))
    IN  IF ToSet(line) \cap Expanding # {} \/ first = 0 \/ rest = <<>> THEN line ELSE rest

(* A wrapper, its flags and numbers, the next wrapper, ... are peeled off, *)
(* but not from a line with an expansion in it, nor all of the line.  (A   *)
(* line returned as it came is joined by strip_env_assignments, which is   *)
(* always applied next.)                                                   *)
StripWrappers(raw) ==
    LET line == Joined(raw)
        rest == Drop(line, Lead(line, Wrappers \cup Digits, Dashed))
    IN  IF \/ ToSet(line) \cap Expanding # {}
           \/ Lead(line, Wrappers, {}) = 0
           \/ rest = <<>>
        THEN line ELSE rest

StripEnvAssignments(line, safeOnly) ==
    Drop(line, Lead(line, {}, IF safeOnly THEN SafeAssignments ELSE Assignments))

(* split_commands: where the sub-commands of a line begin and end, the     *)
(* operators being recognised with or without blanks around them.          *)
SubCommands(line) ==
    {s \in (DOMAIN line) \X (DOMAIN line) :
        /\ s[1] <= s[2]
        /\ \A k \in s[1]..s[2] : line[k] \notin Operators
        /\ s[1] = 1 \/ line[s[1] - 1] \in Operators
        /\ s[2] = Len(line) \/ line[s[2] + 1] \in Operators}

Sub(line, s) == SubSeq(line, s[1], s[2])

-----------------------------------------------------------------------------
BaseCommand(sub) == IF sub[1] \in DOMAIN Basename THEN Basename[sub[1]] ELSE sub[1]

IsDangerousCommand(line) ==
    \E s \in SubCommands(line) : BaseCommand(Sub(line, s)) \in DangerousExec

(* A recursive removal of nothing in particular, or one of a path that     *)
(* matters.                                                                *)
IsDangerousRemoval(line) ==
    \E s \in SubCommands(line) :
        LET sub == Sub(line, s)
            targets == {w \in ToSet(Tail(sub)) : w \notin Dashed}
        IN  /\ BaseCommand(sub) \in {"rm", "rmdir"}
            /\ \/ targets \cap SensitivePaths # {}
               \/ targets = {} /\ ToSet(sub) \cap Recursive # {}

(* match_command, for one sub-command.  A word with a star in it matches   *)
(* text with blanks in it too, so one word or more: at says at which word  *)
(* of the command the part for each word of the content begins.            *)
MatchCommand(content, sub) ==
    LET words == content.words
        n == Len(words)
    IN  CASE content.shape = "exact" -> sub = words
          [] content.shape \in {"word", "prefix"} -> words # <<>> /\ IsPrefix(words, sub)
          [] content.shape = "wild" ->
                \E at \in [1..(n + 1) -> 1..(Len(sub) + 1)] :
                    /\ at[1] = 1 /\ at[n + 1] = Len(sub) + 1
                    /\ \A i \in 1..n :
                          IF words[i] \in Starred
                          THEN /\ at[i] < at[i + 1]
                               /\ StarMatches(words[i], SubSeq(sub, at[i], at[i + 1] - 1))
                          ELSE at[i + 1] = at[i] + 1 /\ sub[at[i]] = words[i]

(* Seeded faults of CommandRuleMatches: an allow rule takes a compound     *)
(* line when one of its sub-commands matches; it is the deny rules that    *)
(* keep the assignments they do not know.                                  *)
CommandRuleMatches_Any(behavior, content, raw) ==
    LET line == StripEnvAssignments(StripWrappers(raw), behavior = "allow")
        all == StripEnvAssignments(StripWrappers(raw), FALSE)
    IN  CASE content.shape = "EXEC" -> IsDangerousCommand(all)
          [] content.shape = "RM" -> IsDangerousRemoval(all)
          [] OTHER -> \E s \in SubCommands(line) : MatchCommand(content, Sub(line, s))

CommandRuleMatches_Swapped(behavior, content, raw) ==
    LET line == StripEnvAssignments(StripWrappers(raw), behavior # "allow")
        all == StripEnvAssignments(StripWrappers(raw), FALSE)
        subs == SubCommands(line)
    IN  CASE content.shape = "EXEC" -> IsDangerousCommand(all)
          [] content.shape = "RM" -> IsDangerousRemoval(all)
          [] OTHER -> /\ behavior = "allow" => Cardinality(subs) = 1
                      /\ \E s \in subs : MatchCommand(content, Sub(line, s))

(* An allow rule is for one whole command, a deny or ask rule for any of   *)
(* the sub-commands.  The two tokens do not look at the behavior.          *)
CommandRuleMatches(behavior, content, raw) ==
    LET line == StripEnvAssignments(StripWrappers(raw), behavior = "allow")
        all == StripEnvAssignments(StripWrappers(raw), FALSE)
        subs == SubCommands(line)
    IN  CASE content.shape = "EXEC" -> IsDangerousCommand(all)
          [] content.shape = "RM" -> IsDangerousRemoval(all)
          [] OTHER -> /\ behavior = "allow" => Cardinality(subs) = 1
                      /\ \E s \in subs : MatchCommand(content, Sub(line, s))

-----------------------------------------------------------------------------
(* extract_command.  The arguments of a call are the sequence of its       *)
(* entries in the order given; a value is a text or a list of texts.       *)
Argument(key, type, words) == [key |-> key, type |-> type, words |-> words]

CommandKeys == <<"command", "command_line", "commandLine", "cmd", "script", "commands">>

Texts(args) == {p \in DOMAIN args : args[p].type = "text"}

Named(args, keys) ==
    {k \in DOMAIN keys : \E p \in Texts(args) : args[p].key = keys[k]}

ValueOf(args, key) ==
    args[CHOOSE p \in Texts(args) : args[p].key = key].words

(* A named key first, by priority, then argv, then the first text there is *)
(* (no command is the empty one).  Words of argv need no quoting here.     *)
ExtractCommand(args) ==
    LET argv == {p \in DOMAIN args : args[p].key = "argv" /\ args[p].type = "list"}
    IN  IF Named(args, CommandKeys) # {}
        THEN ValueOf(args, CommandKeys[Min(Named(args, CommandKeys))])
        ELSE IF \E p \in argv : args[p].words # <<>> THEN args[Min(argv)].words
        ELSE IF Texts(args) # {} THEN args[Min(Texts(args))].words
        ELSE <<>>
=============================================================================
