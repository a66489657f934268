----------------------------- MODULE SmokeScripts -----------------------------
(***************************************************************************)
(* What the acceptance scripts do: scripts/harness/package-smoke.mjs runs  *)
(* the packed and installed command line, scripts/harness/cli-smoke.mjs    *)
(* the generated one.  A script is a sequence of stages; a stage has the   *)
(* fake provider it starts, the configuration it writes, the commands it   *)
(* runs, and what it asserts of them.  Prompts, models, files and the      *)
(* wording of the output are left out.                                     *)
(***************************************************************************)
EXTENDS Naturals, Sequences

(* A command, and what the script asserts of its outcome.  A session is    *)
(* known by the name of the variable that remembers its id.                *)
Command ==
  [do     |-> "other",  (* version, help, npm, ...; "run" and "export"     *)
   sync   |-> TRUE,     (* spawnSync, or spawn that is awaited             *)
   live   |-> FALSE,    (* it asks a server of the script                  *)
   valid  |-> TRUE,     (* model, files and message can be resolved        *)
   how    |-> "new", of |-> "", fork |-> FALSE,
   skip   |-> FALSE,    (* --dangerously-skip-permissions                  *)
   home   |-> FALSE,    (* the first command of another data directory     *)
   as     |-> "",       (* the name its session is remembered by           *)
   status |-> 0,        (* asserted: the exit status                       *)
   is     |-> "",       (*           its session is the one named          *)
   other  |-> "",       (*           its session is not the one named      *)
   turns  |-> 0,        (*           half the messages of the export       *)
   last   |-> FALSE,    (*           the last is of the run before         *)
   parent |-> ""]       (*           the parent of the exported session    *)

Plain   == Command
Refused == [Command EXCEPT !.do = "run", !.valid = FALSE, !.status = 1]
NewRun(name)    == [Command EXCEPT !.do = "run", !.as = name]
Resume(name)    == [Command EXCEPT !.do = "run", !.how = "session", !.of = name, !.is = name]
Continue(name)  == [Command EXCEPT !.do = "run", !.how = "continue", !.is = name]
Fork(how, name) == [Command EXCEPT !.do = "run", !.how = how, !.of = name, !.fork = TRUE,
                                   !.as = "fork", !.other = name]
Export(name, n) == [Command EXCEPT !.do = "export", !.of = name, !.turns = n, !.last = n > 1]
ExportFork(name) == [Export("fork", 1) EXCEPT !.parent = name, !.last = TRUE]
Live(c)   == [c EXCEPT !.live = TRUE, !.sync = FALSE]
AtHome(c) == [c EXCEPT !.home = TRUE]
Skip(c)   == [c EXCEPT !.skip = TRUE]

Quiet(n) == [i \in 1 .. n |-> Plain]

Stage(root, commands) ==
  [root       |-> root,    (* the temporary directory it works in          *)
   server     |-> "none",  (* the fake provider                            *)
   tools      |-> <<>>,    (* the tools it calls, one an answer            *)
   permission |-> "allow", (* permission.edit of the configuration         *)
   requests   |-> 0,       (* asserted: observed.paths.length              *)
   tool       |-> "none",  (*           status of the tool parts           *)
   finish     |-> "stop",  (*           finish of the assistant message    *)
   commands   |-> commands]

Against(server, stage) == [stage EXCEPT !.server = server]

(* A stage with a provider that calls tools, which are to complete.        *)
Calling(root, tools) ==
  [Stage(root, <<Live(NewRun("S")), Export("S", 1)>>) EXCEPT
     !.server = IF Len(tools) = 1 THEN "tool" ELSE "chain", !.tools = tools,
     !.requests = Len(tools) + 1, !.tool = "completed"]

Denied(stage) ==
  [stage EXCEPT !.permission = "deny", !.requests = 1, !.tool = "error"]

(* The run of a stage is given --dangerously-skip-permissions.             *)
Skipping(stage) ==
  [stage EXCEPT !.commands = [i \in DOMAIN @ |-> IF @[i].do = "run" THEN Skip(@[i]) ELSE @[i]]]

Failing(root) ==
  [Against("failing", Stage(root, <<Live(NewRun("S")), Export("S", 1)>>)) EXCEPT !.finish = "error"]

-----------------------------------------------------------------------------
(* package-smoke.mjs                                                       *)

InstalledPackage == Stage("package", Quiet(5))

InstalledDefault ==
  Stage("package",
    <<NewRun("text"), NewRun("json"), Export("json", 1), Resume("json"), Continue(""),
      NewRun("file"), NewRun("mock"), Export("mock", 1)>>)

InstalledLiveRuns ==
  <<Live(NewRun("S")), Export("S", 1),
    Live(Resume("S")), Export("S", 2),
    Live(Continue("S")), Export("S", 3),
    Live(Fork("continue", "S")), ExportFork("S")>>

InstalledConfiguredRuns ==
  <<AtHome(Live(NewRun("configured"))), AtHome(Live(NewRun("agent")))>>

InstalledLive ==
  Against("text", Stage("package", InstalledLiveRuns \o InstalledConfiguredRuns))

InstalledRead  == Calling("package", <<"read">>)
InstalledWrite == Calling("package", <<"write">>)
InstalledEdit  == Calling("package", <<"edit">>)
InstalledPatch == Calling("package", <<"apply_patch">>)
InstalledBash  == Calling("package", <<"bash">>)
InstalledChain == Calling("package", <<"write", "read">>)

InstalledDenied == Denied(Calling("package", <<"write">>))

InstalledSkip ==
  [Skipping(Calling("package", <<"write">>)) EXCEPT !.permission = "ask"]

InstalledSkipDenied == Skipping(Denied(Calling("package", <<"write">>)))

InstalledFailure == Failing("package")

InstalledPersisted ==
  Stage("package",
    <<NewRun("S"), Export("S", 1), NewRun("file"), Export("file", 1),
      Resume("S"), Export("S", 2), Continue("S"), Export("S", 3),
      Fork("session", "S"), ExportFork("S")>>)

InstalledMockPersisted ==
  Stage("package", <<NewRun("S"), Export("S", 1), Resume("S"), Export("S", 2)>>)

InstalledTui == Stage("package", Quiet(2))

(* A request to the installed server; fetchJson tries again until it has   *)
(* an answer of status 200, the other streams once.                        *)
Fetch(effect) == [Command EXCEPT !.do = "fetch", !.as = effect]
Stream == [Command EXCEPT !.do = "stream"]
Start  == [Command EXCEPT !.do = "serve"]

InstalledPty ==
  <<Fetch("pty"), Fetch("read"), Fetch("read"), Stream, Stream, Stream, Fetch("delete")>>

InstalledServe ==
  Stage("package",
    <<Start, Fetch("read"), Stream, Fetch("session"), Stream, Fetch("read"), Fetch("read"),
      Fetch("read"), Fetch("read"), Fetch("read")>> \o InstalledPty)

PackageSmoke ==
  <<InstalledPackage, InstalledDefault, InstalledLive, InstalledRead, InstalledWrite,
    InstalledEdit, InstalledPatch, InstalledBash, InstalledChain, InstalledDenied,
    InstalledSkip, InstalledSkipDenied, InstalledFailure, InstalledPersisted,
    InstalledMockPersisted, InstalledTui, InstalledServe>>

-----------------------------------------------------------------------------
(* cli-smoke.mjs                                                           *)

GeneratedHelp == Stage("none", Quiet(4) \o <<Refused, Plain>>)

GeneratedDefault ==
  Stage("default",
    <<NewRun("text"), NewRun("json"), Export("json", 1), Resume("json"), Continue(""),
      NewRun("mockText"), NewRun("mock"), Refused, Refused>>)

GeneratedFiles == Stage("cli", <<NewRun("file"), Refused>>)

GeneratedPersisted ==
  Stage("cli",
    <<NewRun("S"), Export("S", 1), NewRun("file"), Export("file", 1),
      Resume("S"), Export("S", 2), Fork("session", "S"), ExportFork("S")>>)

GeneratedMockPersisted ==
  Stage("cli", <<NewRun("S"), Export("S", 1), Resume("S"), [Export("S", 2) EXCEPT !.last = FALSE]>>)

GeneratedUnresolved == Stage("cli", <<Refused, Refused, Refused>>)

GeneratedLive ==
  Against("text", Stage("cli",
    <<Live(NewRun("S")), Export("S", 1),
      Live(Resume("S")), Export("S", 2),
      Live(Continue("S")), Export("S", 3),
      Live(Fork("continue", "S")), ExportFork("S"),
      AtHome(Live(NewRun("configured")))>>))

GeneratedRead  == Calling("cli", <<"read">>)
GeneratedWrite == Calling("cli", <<"write">>)
GeneratedEdit  == Calling("cli", <<"edit">>)
GeneratedPatch == Calling("cli", <<"apply_patch">>)
GeneratedBash  == Calling("cli", <<"bash">>)
GeneratedChain == Calling("cli", <<"write", "read">>)

GeneratedDenied == Denied(Calling("cli", <<"write">>))

GeneratedSkip ==
  [Skipping(Calling("cli", <<"write">>)) EXCEPT !.permission = "ask"]

GeneratedSkipDenied == Skipping(Denied(Calling("cli", <<"write">>)))

GeneratedFailure == Failing("cli")

GeneratedRemote == Against("config", Stage("cli", <<Live(Refused), Live(Refused)>>))

GeneratedMissing == Stage("none", <<Refused>>)

CliSmoke ==
  <<GeneratedHelp, GeneratedDefault, GeneratedFiles, GeneratedPersisted,
    GeneratedMockPersisted, GeneratedUnresolved, GeneratedLive, GeneratedRead,
    GeneratedWrite, GeneratedEdit, GeneratedPatch, GeneratedBash, GeneratedChain,
    GeneratedDenied, GeneratedSkip, GeneratedSkipDenied, GeneratedFailure,
    GeneratedRemote, GeneratedMissing>>
=============================================================================
