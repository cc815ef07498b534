---------------------------- MODULE MCAdmission -----------------------------
(***************************************************************************)
(* Admission on a workflow of seven states and a set of calls that reaches  *)
(* every branch of the classifier, one client of the hook server beside    *)
(* the gateway.  Any call is explored alone against every move of the      *)
(* session and every answer of the provider; two requests at once are      *)
(* explored for the calls in Concurrent.                                   *)
(***************************************************************************)
EXTENDS Admission

-----------------------------------------------------------------------------
(* Commands.                                                               *)

Seg(exe, args) == [exe |-> exe, args |-> args, spelling |-> "bare", env |-> "none",
                   wrapper |-> "none", text |-> "plain", redir |-> "none", inner |-> << >>]

Rm == Seg("rm", "files")
Ls == Seg("ls", "files")
Cp == Seg("cp", "files")

Command(cmd, does) ==
    [tool |-> "Bash", command |-> cmd, info |-> None, op |-> "Unknown", selectors |-> {},
     payload |-> "none", path |-> None, lines |-> 0, zsh |-> FALSE, env |-> FALSE,
     evidence |-> None, does |-> does]

Tool(name, op, does) == [Command(<< >>, does) EXCEPT !.tool = name, !.op = op]

Registered(name, op, readOnly, destructive, does) ==
    [Tool(name, op, does) EXCEPT
        !.info = [read_only |-> readOnly, destructive |-> destructive, open_world |-> None]]

Evidence(sound, resolved, same) ==
    [sound |-> sound, units |-> <<[resolved |-> resolved, bound |-> TRUE, same |-> same]>>]

Task == Command(<<Seg("task", "target")>>, {"unknown"})

MCCallOf ==
    [ls |-> Command(<<[Ls EXCEPT !.redir = "sink"]>>, {}),
     cat_copy |-> Command(<<Seg("cat", "files"), Cp>>, {"write"}),
     read_then_rm |-> Command(<<Ls, Rm>>, {"destroy"}),
     rm_then_read |-> Command(<<Rm, Ls>>, {"destroy"}),
     rm_inside |-> Command(<<[Seg("echo", "text") EXCEPT !.text = "nested", !.inner = <<Rm>>]>>, {"destroy"}),
     rm_in_shell |-> Command(<<[Seg("sh", "-c") EXCEPT !.inner = <<Rm>>]>>, {"destroy"}),
     rm_heredoc |-> Command(<<[Seg("sh", "alone") EXCEPT !.redir = "heredoc", !.inner = <<Rm>>]>>, {"destroy"}),
     rm_path |-> Command(<<[Rm EXCEPT !.spelling = "path", !.env = "plain"]>>, {"unknown"}),
     python_rm |-> Command(<<Seg("python", "rmtree")>>, {"destroy"}),
     python_print |-> Command(<<Seg("python", "print")>>, {}),
     python_write |-> Command(<<[Seg("python", "write") EXCEPT !.redir = "heredoc"]>>, {"write"}),
     long |-> Command(<<Ls, Ls, Ls, Rm>>, {"destroy"}),
     broken |-> Command(<<[Rm EXCEPT !.text = "broken"]>>, {"destroy"}),
     fetch |-> Command(<<[Seg("curl", "url") EXCEPT !.redir = "out"]>>, {"remote"}),
     push |-> Command(<<Seg("git", "commit"), Seg("git", "status")>>, {"remote"}),
     status |-> Command(<<[Seg("git", "status") EXCEPT !.text = "variable"]>>, {}),
     diff |-> Command(<<Seg("git", "diff")>>, {}),
     redirected |-> Command(<<[Seg("echo", "text") EXCEPT !.redir = "out"], Ls>>, {"write"}),
     tests |-> Command(<<Seg("cargo", "bounded")>>, {"execute"}),
     tests_copy |-> Command(<<Seg("cargo", "bounded"), Cp>>, {"execute", "write"}),
     tests_env |-> [Command(<<[Seg("cargo", "bounded") EXCEPT !.env = "plain"]>>, {"execute"}) EXCEPT !.env = TRUE],
     closeout |-> Command(<<Seg("closeout", "valid")>>, {"commit"}),
     closeout_copy |-> Command(<<Seg("closeout", "valid"), Cp>>, {"commit", "write"}),
     edit_inject |-> Command(<<[Seg("sed", "in place") EXCEPT !.env = "inject"]>>, {"write"}),
     unknown |-> Command(<<Seg("tool", "x")>>, {"unknown"}),
     grep_glob |-> Command(<<[Seg("rg", "text") EXCEPT !.text = "glob"]>>, {}),
     define |-> Command(<<[Seg("function", "body") EXCEPT !.text = "group"]>>, {"write"}),
     tmux |-> Command(<<Seg("tmux", "goal")>>, {}),
     task_rm |-> [Task EXCEPT !.evidence = Evidence(TRUE, <<Rm>>, TRUE), !.does = {"destroy"}],
     task_fetch |-> [Task EXCEPT !.evidence = Evidence(FALSE, <<Seg("vitest", "bounded")>>, TRUE)],
     task_test |-> [Task EXCEPT !.evidence =
                        Evidence(TRUE, <<[Seg("vitest", "bounded") EXCEPT !.spelling = "trusted"]>>, FALSE),
                    !.does = {"execute"}],
     node_test |-> [Command(<<Seg("node", "entrypoint")>>, {"execute"}) EXCEPT
                        !.evidence = Evidence(TRUE, <<Seg("node", "entrypoint")>>, TRUE)],
     zsh |-> [Command(<<Ls>>, {}) EXCEPT !.zsh = TRUE],
     bare_shell |-> Command(<< >>, {}),
     read |-> Tool("Read", "Read", {}),
     write |-> [Tool("Write", "Write", {"write"}) EXCEPT !.path = "f1", !.lines = 1],
     write_big |-> [Tool("Write", "Write", {"write"}) EXCEPT !.path = "f2", !.lines = 9],
     grep |-> Tool("Grep", "Unknown", {}),
     search_tools |-> Tool("ToolSearch", "Unknown", {}),
     fetch_tool |-> Tool("WebFetch", "Unknown", {}),
     agent |-> Tool("Agent", "Unknown", {"remote"}),
     get |-> Registered("get", "Read", TRUE, None, {}),
     get_open |-> [Registered("get", "Read", None, None, {}) EXCEPT !.info.open_world = TRUE],
     lying |-> Registered("get", "Read", FALSE, None, {}),
     update |-> Registered("Write", "Write", None, None, {"write"}),
     delete |-> Registered("delete", "Destructive", TRUE, None, {"destroy"}),
     wipe |-> Registered("get", "Read", None, TRUE, {"destroy"}),
     manage |-> [Registered("get", "Unknown", None, None, {"destroy"}) EXCEPT !.selectors = {"Read", "Destructive"}],
     manage_write |-> [Registered("get", "Unknown", None, None, {}) EXCEPT !.selectors = {"Write"}],
     manage_any |-> [Registered("get", "Read", None, None, {}) EXCEPT !.payload = "selector"],
     query |-> [Registered("get", "Read", TRUE, None, {}) EXCEPT !.payload = "code"],
     run |-> [Registered("Bash", "Unknown", None, None, {"destroy"}) EXCEPT !.command = <<Ls, Rm>>]]

\* What a command does is never proved to be reading only, nor classified as such by
\* itself: a class that asks for more than reading, or none that is known, remains.
ASSUME EffectsAreNoReads ==
    \A c \in DOMAIN MCCallOf :
        LET cmd == MCCallOf[c].command
        IN cmd # << >> =>
            /\ classify(cmd) # {} /\ classify(cmd) \subseteq Classes
            /\ MCCallOf[c].does # {} =>
                 /\ readonly_capabilities(cmd) = {}
                 /\ ~ classify(cmd) \subseteq {"FileRead", "ContentSearch", "FileSearch", "GitRead",
                                              "SafeOutput"}

-----------------------------------------------------------------------------
(* The workflow.                                                           *)

State(tools, on) ==
    [final |-> FALSE, on |-> on, safe_next |-> None, tools |-> tools, denied |-> {},
     exploratory |-> FALSE, tolerance |-> "assessed", max_iterations |-> None,
     max_edit_lines |-> None, max_files_per_state |-> None, allowed_commands |-> None,
     commands_tool |-> None, blocked_env |-> FALSE]

MCDef ==
    [initial |-> "plan", context |-> {}, guards |-> {}, interrupts |-> [checks |-> "look"],
     states |->
       [plan |-> [State({"Read", "Grep"}, [GO |-> Simple("build"), SHIP |-> Full("ship", {}, TRUE),
                                          ASIDE |-> Simple("aside")])
                    EXCEPT !.tolerance = "moderate_local"],
        build |-> [State({"Read", "Write", "Bash", "BoundedLocalExecution", "get"}, [DONE |-> Simple("done")])
                    EXCEPT !.max_iterations = 1, !.max_edit_lines = 5, !.max_files_per_state = 1,
                           !.allowed_commands = {[exe |-> "cargo", args |-> "any"]}, !.blocked_env = TRUE],
        ship |-> [State({"Bash", "GitLocalWrite"}, [DONE |-> Simple("done")])
                    EXCEPT !.tolerance = "low_local", !.denied = {"get"}],
        look |-> [State(None, [BACK |-> Simple(ReturnTarget), FREE |-> Simple("free")])
                    EXCEPT !.exploratory = TRUE],
        aside |-> [State(None, [DONE |-> Simple("done")])
                    EXCEPT !.exploratory = TRUE, !.commands_tool = "get"],
        free |-> [State(None, [DONE |-> Simple("done")]) EXCEPT !.denied = {"Grep"}],
        done |-> [State(None, [x \in {} |-> None]) EXCEPT !.final = TRUE]]]

Vector(readOnly, mayWrite, reversible, destructive) ==
    [read_only |-> readOnly, may_write |-> mayWrite, reversible |-> reversible,
     destructive |-> destructive, irreversible |-> 5, external |-> 5]

\* A read, a reversible local write, at their thresholds; a destructive act.
MCVectors == {Vector(90, 10, 0, 5), Vector(0, 90, 80, 5), Vector(0, 90, 80, 85)}

\* The calls and the workflow satisfy what the theorem on granted effects asks.
ASSUME MCSoundCatalogue == SoundCatalogue

-----------------------------------------------------------------------------
\* Shadow mode decides as disabled does, and a session without the semantic
\* policy looks at the assessment in two places only: seven of the twelve
\* configurations are explored.
MCInit ==
    /\ AdmissionInit
    /\ config.ast = "shadow" => ~ config.authorized
    /\ ~ session.semantic => config.ast = "authority"

MCSpec == MCInit /\ [][AdmissionNext]_admissionVars /\ AdmissionFairness

=============================================================================
