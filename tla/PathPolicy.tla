----------------------------- MODULE PathPolicy -----------------------------
(***************************************************************************)
(* pathpolicy.py: matching the path of a call with the directory of a      *)
(* rule.  A place is the sequence of names that leads to it from the root; *)
(* a path is a word that spells a place: where it starts and the steps it  *)
(* takes.  What stands in the file system is constant.                     *)
(***************************************************************************)
EXTENDS Naturals, Sequences, SequencesExt, FiniteSetsExt

CONSTANTS
    Spelled,         \* of a word, [start, steps]; start is "/", "~" or "."
    Home,            \* the place "~" stands for
    Here,            \* the working directory
    Links,           \* of the place of a symbolic link, the place it leads to
    PathLike,        \* words with a "/" or a leading "~"
    PathExpanding    \* words has_expansion_syntax accepts

Places == Seq(UNION {ToSet(p) : p \in {Home, Here} \cup Range(Links)}
              \cup UNION {ToSet(Spelled[w].steps) : w \in DOMAIN Spelled})

NoPath == "none"

ASSUME PathAssumption ==
    /\ NoPath \notin PathExpanding
    /\ Home \in Places /\ Here \in Places
    /\ \A place \in DOMAIN Links : Links[place] \in Places
    /\ \A w \in DOMAIN Spelled :
          Spelled[w].start \in {"/", "~", "."} /\ Spelled[w].steps \in Places

Up == ".."

Start(word) ==
    CASE Spelled[word].start = "/" -> <<>>
      [] Spelled[word].start = "~" -> Home
      [] Spelled[word].start = "." -> Here

(* Seeded fault of NormalizePath: abspath in the place of realpath.        *)
NormalizePath_Lexical(word) ==
    FoldLeft(LAMBDA place, step : IF step = Up THEN Front(place) ELSE Append(place, step),
             Start(word), Spelled[word].steps)

(* expanduser, then realpath: the links met on the way are followed, and   *)
(* ".." goes up from where they lead.                                      *)
NormalizePath(word) ==
    FoldLeft(LAMBDA place, step :
                IF step = Up THEN Front(place)
                ELSE IF Append(place, step) \in DOMAIN Links THEN Links[Append(place, step)]
                ELSE Append(place, step),
             Start(word), Spelled[word].steps)

(* target == base or target.startswith(base + os.sep): nothing but "/"     *)
(* itself begins with the "//" that the root becomes.                      *)
WithinRoot(word, root) ==
    LET base == NormalizePath(root)
        target == NormalizePath(word)
    IN  target = base \/ (base # <<>> /\ IsStrictPrefix(base, target))

PathKeys == <<"path", "file_path", "filepath", "source", "directory", "dir", "filename">>

(* extract_path, over the arguments of ShellPolicy: the one path of a call *)
(* that is looked at, which is one word.  A second path (the destination   *)
(* of a move) is not, nor is a list of paths.                              *)
ExtractPath(args) ==
    LET texts == {p \in DOMAIN args : args[p].type = "text"}
        named == {k \in DOMAIN PathKeys : \E p \in texts : args[p].key = PathKeys[k]}
        likely == {p \in texts : ToSet(args[p].words) \cap PathLike # {}}
    IN  IF named # {}
        THEN args[CHOOSE p \in texts : args[p].key = PathKeys[Min(named)]].words[1]
        ELSE IF likely # {} THEN args[Min(likely)].words[1]
        ELSE NoPath

(* A path with expansion syntax matches every rule.                        *)
PathRuleMatches(root, args) ==
    LET target == ExtractPath(args)
    IN  /\ target # NoPath
        /\ target \in PathExpanding \/ WithinRoot(target, root)
=============================================================================
