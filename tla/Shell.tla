------------------------------- MODULE Shell --------------------------------
(***************************************************************************)
(* bash_classifier.rs: what the gateway says a shell command does, from    *)
(* its text alone.  Pure operators, no state.                              *)
(*                                                                         *)
(* A command is a sequence of segments (what ; | && || separate); a        *)
(* segment is abstracted to what the classifier tells apart:               *)
(*   exe       the program's base name, or one name of a family whose      *)
(*             members the code never tells apart                          *)
(*   args      the shape of its arguments                                  *)
(*   spelling  "bare" | "trusted" (/bin, /usr/bin, ...) | "path"           *)
(*   env       assignments before it: "none" | "plain" | "inject" (PATH,   *)
(*             LD_*, GIT_CONFIG_*, ...)                                    *)
(*   wrapper   "none" | "plain" (command, env) | "option" (with an option) *)
(*   text      "plain" | "glob" (unquoted * ? [ ]) | "group" (braces) |    *)
(*             "variable" ($) | "nested" ($( ) or backquotes) | "broken"   *)
(*             (does not parse)                                            *)
(*   redir     "none" | "out" | "dup" (>&2) | "in" | "sink" (2>/dev/null)  *)
(*             | "heredoc"                                                 *)
(*   inner     the commands inside it: of $( ), of sh -c, of a here-       *)
(*             document read by a shell; a sequence of segments            *)
(* Quoting, and how the text is cut into tokens, are abstracted: the       *)
(* fields are what is left of a segment once that is done.                 *)
(***************************************************************************)
EXTENDS Naturals, Sequences, FiniteSets, SequencesExt

Classes ==
    {"FileWrite", "FileModify", "FileRead", "ContentSearch", "FileSearch",
     "Destructive", "Network", "GitWrite", "GitRead", "LocalWrite",
     "BoundedLocalExecution", "GitLocalWrite", "SafeOutput", "Opaque", "Passthrough"}

KnownRisk == {"Destructive", "Network", "GitWrite"}
Unresolved == {"Opaque", "Passthrough"}

-----------------------------------------------------------------------------
(* Reading a segment.                                                      *)

\* simple_command_tokens: no redirection and no expansion.  Globs and braces
\* are ordinary characters to it.
SimpleTokens(s) == s.redir = "none" /\ s.text \in {"plain", "glob", "group"}

\* git_command_tokens: follows redirections, refuses globs and braces.
GitTokens(s) == s.text = "plain" /\ s.redir # "heredoc"

\* literal_invocation, when there is one.
literal_invocation(s) == SimpleTokens(s) /\ s.env # "inject" /\ s.wrapper # "option"

has_nested_shell_execution(cmd) ==
    \E i \in DOMAIN cmd : cmd[i].text \in {"nested", "group"}

\* Every > that is not written "2>" counts, >&2 included.
has_output_redirect(cmd) == \E i \in DOMAIN cmd : cmd[i].redir \in {"out", "dup"}

-----------------------------------------------------------------------------
(* Programs.  Families are named by a member.                              *)

Removers == {"rm"}              \* rm rmdir shred truncate unlink
Clients == {"curl", "ssh"}      \* curl wget nc ncat netcat ssh scp sftp
Writers == {"cp", "tee"}        \* tee cp mv install rsync dd
Readers == {"cat", "nl"}        \* cat head tail nl
Runners == {"node", "cargo", "npm", "vite", "rustc"}

\* The arguments of git name the subcommand and, where it matters, how it is
\* used.
\* git_ref_listing_only, of branch and tag: no name and no flag but of a list.
git_ref_listing_only(args) == IF args = "branch list" THEN "GitRead" ELSE "GitWrite"

classify_git_init(args) == IF args = "init" THEN "LocalWrite" ELSE "Passthrough"

classify_git_worktree(args) ==
    CASE args = "worktree list" -> "GitRead"
      [] args = "worktree add" -> "LocalWrite"
      [] args = "worktree remove" -> "Destructive"
      [] OTHER -> "Passthrough"

\* classify_git; git_subcommand_index finds no subcommand in "bad flag".
classify_git(args) ==
    CASE args = "bad flag" -> "Passthrough"
      [] args \in {"branch list", "branch new"} -> git_ref_listing_only(args)
      [] args \in {"init", "init template"} -> classify_git_init(args)
      [] args \in {"worktree list", "worktree add", "worktree remove", "worktree other"} ->
            classify_git_worktree(args)
      [] args \in {"status", "log", "diff", "diff safe", "stash list", "checkout"} -> "GitRead"
      [] args \in {"commit", "stash", "checkout --"} -> "GitWrite"
      [] args = "clean" -> "Destructive"
      [] args = "fetch" -> "Network"
      [] OTHER -> "Passthrough"

\* classify_statewright_git_closeout: outside its grammar the helper is an
\* ordinary write, which no grant of GitLocalWrite covers.
classify_statewright_git_closeout(args) ==
    IF args = "valid" THEN "GitLocalWrite" ELSE "LocalWrite"

\* find_has_action, fd_has_execution.
find_has_action(s) == s.exe \in {"find", "fd"} /\ s.args = "action"

\* classify_tmux; "goal" is the one dispatch is_bounded_tmux_goal_dispatch
\* knows.
classify_tmux(args) ==
    CASE args = "show" -> "FileRead"
      [] args = "capture" -> "LocalWrite"
      [] args = "kill" -> "Destructive"
      [] OTHER -> "Passthrough"

\* bounded_version_probe, for an invocation without assignments.
VersionProbe(s) == s.args = "version" /\ s.spelling = "bare" /\ s.env = "none"

\* bounded_node_local_execution, bounded_cargo_local_execution: repository
\* tests and checks, in any trusted spelling.
bounded_cargo_local_execution(s) == s.exe \in {"node", "cargo"} /\ s.args = "bounded"

\* The conventional test and build scripts of a package, in one spelling.
bounded_package_test_local_execution(s) ==
    /\ s.args = "bounded"
    /\ \/ s.exe \in {"npm", "vite"} /\ s.spelling = "bare"
       \/ s.exe = "vitest" /\ s.spelling = "trusted"    \* node_modules/.bin/vitest

local_execution_intent(s) ==
    bounded_cargo_local_execution(s) \/ bounded_package_test_local_execution(s)

\* rust_format_effect.
rust_format_effect(s) ==
    IF s.spelling # "bare" THEN {}
    ELSE IF s.exe = "cargo" /\ s.args \in {"fmt", "fmt check"} THEN {"BoundedLocalExecution"}
    ELSE IF s.exe = "rustfmt" /\ s.args = "check" THEN {"FileRead"}
    ELSE IF s.exe = "rustfmt" /\ s.args = "files" THEN {"FileModify"}
    ELSE {}

\* The match over the program's name in classify_segment.
ByProgram(s) ==
    CASE s.exe = "echo" /\ s.spelling = "bare" -> "SafeOutput"
      [] s.exe = "printf" /\ s.spelling = "bare" /\ s.args = "text" -> "SafeOutput"
      [] s.exe \in Readers -> "FileRead"
      [] s.exe = "rg" -> "ContentSearch"
      [] s.exe \in {"find", "fd"} -> IF find_has_action(s) THEN "Destructive" ELSE "FileSearch"
      [] s.exe = "sed" -> CASE s.args = "in place" -> "FileModify"
                            [] s.args = "print" -> "FileRead"
                            [] OTHER -> "Passthrough"
      [] s.exe \in {"awk", "perl"} /\ s.args = "in place" -> "FileModify"
      [] s.exe = "patch" -> "FileModify"
      [] s.exe \in Writers -> "FileWrite"
      [] s.exe = "mkdir" -> "LocalWrite"
      [] s.exe \in Removers -> "Destructive"
      [] s.exe \in Clients -> "Network"
      [] s.exe = "git" /\ s.spelling = "bare" -> classify_git(s.args)
      [] s.exe = "closeout" /\ s.spelling = "bare" -> classify_statewright_git_closeout(s.args)
      [] s.exe \in Runners /\ VersionProbe(s) -> "SafeOutput"
      [] rust_format_effect(s) # {} -> CHOOSE c \in rust_format_effect(s) : TRUE
      [] local_execution_intent(s) -> "BoundedLocalExecution"
      [] s.exe = "tmux" -> classify_tmux(s.args)
      [] OTHER -> "Passthrough"

\* classify_nonliteral_segment: a segment with redirections or assignments
\* is read by its base name; one with expansions by its first word.
classify_nonliteral_segment(s) ==
    IF ~ GitTokens(s)
    THEN CASE s.exe \in Removers -> "Destructive"
           [] s.exe \in Clients -> "Network"
           [] s.exe \in Writers -> "FileWrite"
           [] s.exe = "patch" -> "FileModify"
           [] OTHER -> "Opaque"
    ELSE IF s.env = "inject" \/ s.wrapper # "none" THEN "Opaque"
    ELSE LET bare == s.spelling = "bare"
         IN  CASE s.exe \in Removers -> "Destructive"
               [] s.exe \in Clients -> "Network"
               [] bare /\ find_has_action(s) -> "Destructive"
               [] bare /\ s.exe = "sed" /\ s.args = "in place" -> "FileModify"
               [] bare /\ \/ s.exe \in {"echo", "rg", "patch", "mkdir"} \cup Readers \cup Writers
                          \/ s.exe = "printf" /\ s.args = "text" -> ByProgram(s)
               [] bare /\ s.exe = "git" -> classify_git(s.args)
               [] s.exe \in Runners \cup {"vitest"} -> "Passthrough"
               [] OTHER -> "Opaque"

\* A git invocation is read a second time by git_command_tokens; where that
\* refuses, only a known risk stands.
GitConfirmed(s, class) ==
    IF s.exe = "git" /\ s.spelling = "bare" /\ ~ GitTokens(s) /\ class \notin KnownRisk
    THEN "Opaque" ELSE class

\* A path that is not a trusted spelling, or an assignment before anything
\* but bounded execution, leaves only what is known to be a risk (a path), or
\* nothing (an assignment).
Spelled(s, class) == IF s.spelling # "path" \/ class \in KnownRisk THEN class ELSE "Opaque"
Assigned(s, class) == IF s.env # "none" /\ class # "BoundedLocalExecution" THEN "Opaque" ELSE class

\* classify_segment.
classify_segment(s) ==
    IF SimpleTokens(s) /\ s.exe = "command -v" THEN "SafeOutput"
    ELSE IF ~ literal_invocation(s) THEN classify_nonliteral_segment(s)
    ELSE Assigned(s, Spelled(s, GitConfirmed(s, ByProgram(s))))

\* The one dispatch to tmux that counts as a local write.
GoalDispatch(cmd) ==
    /\ Len(cmd) = 1
    /\ SimpleTokens(cmd[1])
    /\ cmd[1].exe = "tmux" /\ cmd[1].args = "goal"
    /\ cmd[1].env = "none" /\ cmd[1].wrapper = "none"

OrPassthrough(classes) == IF classes = {} THEN {"Passthrough"} ELSE classes

\* classify: the classes of the segments, of what is nested in them and of
\* the redirections.
classify(cmd) ==
    OrPassthrough(
        ({classify_segment(cmd[i]) : i \in DOMAIN cmd} \ (IF GoalDispatch(cmd) THEN {"Passthrough"} ELSE {}))
          \cup (IF GoalDispatch(cmd) THEN {"LocalWrite"} ELSE {})
          \cup (IF has_nested_shell_execution(cmd) THEN {"Opaque"} ELSE {})
          \cup (IF has_output_redirect(cmd) THEN {"FileWrite"} ELSE {}))

-----------------------------------------------------------------------------
(* The read-only proof, which is stricter than the classes.                *)

\* readonly_git_capability: subcommands that run nothing a repository can
\* configure.
readonly_git_capability(args) == args \in {"status", "branch list", "diff safe"}

\* readonly_passthrough_capability.
readonly_passthrough_capability(s) ==
    \/ s.exe = "ls"             \* ls pwd stat file wc du jq cut tr which true false ...
    \/ s.exe = "sort" /\ s.args = "alone" /\ s.spelling = "bare"
    \/ s.exe = "test" /\ s.args = "predicate" /\ s.spelling = "bare"
    \/ s.exe = "sha256sum" /\ s.args = "files"

\* The capability a segment of this class needs, as a set; {} is "no proof".
CapabilityOf(s, class) ==
    CASE class \in {"FileRead", "GitRead", "SafeOutput"} -> {"Read"}
      [] class = "ContentSearch" -> {"Grep"}
      [] class = "FileSearch" -> {"Glob"}
      [] class = "Passthrough" /\ s.wrapper = "none" /\ readonly_passthrough_capability(s) -> {"Read"}
      [] OTHER -> {}

\* The stderr sink is stripped; any other redirection refuses the command.
Stripped(s) == IF s.redir = "sink" THEN [s EXCEPT !.redir = "none"] ELSE s

ReadCapability(s) ==
    IF \/ ~ SimpleTokens(s)
       \/ s.env # "none"
       \/ s.exe = "rg" /\ s.args = "hook"
       \/ s.exe \in {"sed", "nl", "git"} /\ s.spelling # "bare"
    THEN {}
    ELSE IF s.exe = "git" /\ s.wrapper = "none"
         THEN IF readonly_git_capability(s.args) THEN {"Read"} ELSE {}
    ELSE CapabilityOf(s, classify_segment(s))

AllOrNothing(capabilities) == IF {} \in capabilities THEN {} ELSE UNION capabilities

\* readonly_capabilities: {} is None.
readonly_capabilities(cmd) ==
    IF \E i \in DOMAIN cmd : cmd[i].text = "nested" THEN {}
    ELSE AllOrNothing({ReadCapability(Stripped(cmd[i])) : i \in DOMAIN cmd})

-----------------------------------------------------------------------------
(* What the interceptors and the assessor take from a command.             *)

\* OpClass::required_tools: any one of them permits the class; a class with
\* none needs nothing, "never" is in no list.
required_tools(class) ==
    CASE class \in {"FileWrite", "FileModify", "LocalWrite"} -> {"Write"}
      [] class \in {"BoundedLocalExecution", "GitLocalWrite"} -> {class}
      [] class \in {"FileRead", "GitRead"} -> {"Read"}
      [] class = "ContentSearch" -> {"Read", "Grep"}
      [] class = "FileSearch" -> {"Read", "Glob"}
      [] class = "Network" -> {"WebFetch"}
      [] class \in {"Destructive", "GitWrite"} -> {"never"}
      [] OTHER -> {}

check_against_allowed(cmd, allowed) ==
    \A class \in classify(cmd) :
        required_tools(class) # {} => required_tools(class) \cap allowed # {}

\* semantic_delegates_unknown_effect.
semantic_delegates_unknown_effect(s) ==
    \/ s.exe \in {"task", "cargo", "npm", "node", "sh", "python"}
    \/ s.exe = "perl"
    \/ s.exe = "tmux" /\ s.args = "goal"
    \/ s.exe = "git" /\ s.args = "add"

\* semantic_operation: does the program have a subcommand that is known?
HasOperation(s) ==
    \/ s.exe = "sed" /\ s.args = "print"
    \/ s.exe = "git" /\ s.args \notin {"bad flag", "unknown"}
    \/ s.exe \in {"cargo", "npm"} /\ s.args \in {"bounded"}
    \/ s.exe = "tmux"

Shape(s) == [operation |-> HasOperation(s), delegates |-> semantic_delegates_unknown_effect(s)]

\* semantic_command_shapes: of the first eight segments; {} is None.
semantic_command_shapes(cmd) ==
    LET head == SubSeq(cmd, 1, IF Len(cmd) < 8 THEN Len(cmd) ELSE 8)
    IN  IF \A i \in DOMAIN head : literal_invocation(head[i])
        THEN {Shape(head[i]) : i \in DOMAIN head} ELSE {}

\* matches_allowed_command: the allowed tokens begin the command's; a
\* command that is not a simple one matches nothing.  args of an entry may
\* be "any".
matches_allowed_command(cmd, entry) ==
    /\ Len(cmd) = 1
    /\ SimpleTokens(cmd[1])
    /\ cmd[1].env = "none" /\ cmd[1].wrapper = "none" /\ cmd[1].spelling = "bare"
    /\ cmd[1].exe = entry.exe
    /\ entry.args \in {"any", cmd[1].args}

\* references_environment_variable, for a name the state blocks: `blocked`
\* says whether the variables of the command (set or read) are such names.
references_environment_variable(cmd, blocked) ==
    blocked /\ \E i \in DOMAIN cmd : cmd[i].text = "variable" \/ cmd[i].env # "none"

=============================================================================
