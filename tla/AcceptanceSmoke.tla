--------------------------- MODULE AcceptanceSmoke ---------------------------
(***************************************************************************)
(* An acceptance script at work (scripts/harness/package-smoke.mjs and     *)
(* cli-smoke.mjs): it starts the command line as child processes, one at a *)
(* time, answers their requests to the provider, compares what they did    *)
(* with what SmokeScripts says, and removes its temporary directory on     *)
(* every way out.  The sessions the children work on are CliSessions.      *)
(*                                                                         *)
(* A fault is a child that dies, one that hangs, or an answer of the       *)
(* installed server that does not arrive; at most MaxFaults happen.        *)
(***************************************************************************)
EXTENDS CliSessions, SmokeScripts

CONSTANTS MaxFaults

(* No data directory sees more than six runs.                              *)
ASSUME SmokeAssumption ==
  /\ MaxFaults \in Nat
  /\ 1 .. 6 \subseteq Clients
  /\ NoSession \notin Clients
  /\ ListLimit > 0

VARIABLES script, stage, step,
          mode,     (* what the script is doing                            *)
          failing,  (* an assertion or a promise has failed                *)
          names,    (* the session ids it remembers                        *)
          served,   (* requests its provider has observed                  *)
          child,    (* the command it runs                                 *)
          daemon,   (* the installed server                                *)
          roots,    (* its temporary directories                           *)
          faults

sessions == vars
place    == <<script, stage, step>>
harness  == <<place, mode, failing, names, roots>>
all      == <<sessions, harness, served, child, daemon, faults>>

Scripts == [package |-> PackageSmoke, cli |-> CliSmoke]
Stages  == Scripts[script]
This    == Stages[stage]
Now     == This.commands[step]

NoChild == [phase |-> "none", run |-> NoSession, hung |-> FALSE, signalled |-> FALSE,
            asking |-> FALSE, rounds |-> 0, tool |-> "none", finish |-> "none", ok |-> FALSE]

NoDaemon == [phase |-> "none", hung |-> FALSE, signalled |-> FALSE,
             sessions |-> 0, removed |-> FALSE]

Names == {"", "text", "json", "file", "mock", "mockText", "S", "fork", "configured", "agent"}

Ended == {"ok", "failed"}

Goto(m) == mode' = m /\ UNCHANGED <<place, failing, names, roots>>

Fails(m) == failing' = TRUE /\ mode' = m /\ UNCHANGED <<place, names, roots>>

Fault == faults < MaxFaults /\ faults' = faults + 1

NewHome ==
  /\ db' = [s \in {} |-> NoSession]
  /\ clock' = 0
  /\ cli' = [p \in Clients |-> Waiting]

-----------------------------------------------------------------------------
(* The child that runs a command.                                          *)

Client == 1 + Cardinality({p \in Clients : cli[p].phase # "waiting"})

Selected(c) ==
  [how |-> c.how, id |-> IF c.how = "session" THEN names[c.of] ELSE NoSession, fork |-> c.fork]

IsRun == Now.do = "run" /\ Now.valid

(* run and runAsync: the child starts, and a run selects its session.      *)
Spawn ==
  /\ mode = "issue"
  /\ step <= Len(This.commands)
  /\ Now.do \in {"other", "run", "export"}
  /\ IF IsRun
       THEN Begin(Client, Selected(Now)) /\ child' = [NoChild EXCEPT !.phase = "running", !.run = Client]
       ELSE UNCHANGED sessions /\ child' = [NoChild EXCEPT !.phase = "running"]
  /\ Goto("wait")
  /\ UNCHANGED <<served, daemon, faults>>

Running == child.phase = "running"

(* A child that hangs may only have been slow: the signal finds it at work. *)
Works == Running /\ (child.hung => child.signalled)

Begun == child.run # NoSession /\ cli[child.run].phase = "running"

(* The permission of the write tools, asked of the configuration; the      *)
(* command line answers what is to be asked (permissionRuntime).           *)
Allowed(tool) ==
  \/ tool \notin {"write", "edit", "apply_patch"}
  \/ This.permission = "allow"
  \/ This.permission = "ask" /\ Now.skip

Asks ==
  /\ Works
  /\ Now.live
  /\ ~child.asking
  /\ child.finish = "none"
  /\ child' = [child EXCEPT !.asking = TRUE]
  /\ UNCHANGED <<sessions, harness, served, daemon, faults>>

(* spawnSync keeps the script from serving until its child has ended.      *)
Blocked == mode = "wait" /\ Now.sync

TextReply == {[call |-> "", failed |-> FALSE]}

(* The first request is answered with the call, all others with the text.  *)
ToolReply(n) == {[call |-> IF n = 1 THEN This.tools[1] ELSE "", failed |-> FALSE]}

ChainReply(n) ==
  {[call |-> IF n <= Len(This.tools) THEN This.tools[n] ELSE "", failed |-> FALSE]}

FailingReply == {[call |-> "", failed |-> TRUE]}

RemoteReply == TextReply

Reply(n) ==
  CASE This.server = "text"    -> TextReply
    [] This.server = "tool"    -> ToolReply(n)
    [] This.server = "chain"   -> ChainReply(n)
    [] This.server = "failing" -> FailingReply
    [] This.server = "config"  -> RemoteReply

(* runAiSdk with an answer: a tool that completes is followed by another   *)
(* request, four of them at most; one that is denied ends the turn.        *)
Took(reply) ==
  CASE reply.failed -> [child EXCEPT !.asking = FALSE, !.finish = "error"]
    [] ~reply.failed /\ reply.call = "" -> [child EXCEPT !.asking = FALSE, !.finish = "stop"]
    [] OTHER ->
         IF ~Allowed(reply.call)
           THEN [child EXCEPT !.asking = FALSE, !.tool = "error", !.finish = "stop"]
           ELSE [child EXCEPT !.asking = FALSE, !.tool = "completed", !.rounds = @ + 1,
                              !.finish = IF child.rounds < 4 THEN "none" ELSE "stop"]

Answer ==
  /\ Works
  /\ child.asking
  /\ mode \notin Ended
  /\ ~Blocked
  /\ served' = served + 1
  /\ \E reply \in Reply(served + 1) : child' = Took(reply)
  /\ UNCHANGED <<sessions, harness, daemon, faults>>

(* The script is gone, and its server with it.                             *)
Disconnected ==
  /\ Works
  /\ child.asking
  /\ mode \in Ended
  /\ child' = [child EXCEPT !.asking = FALSE, !.finish = "error"]
  /\ UNCHANGED <<sessions, harness, served, daemon, faults>>

(* The turn of a run has ended: it is stored, and the child ends well, a   *)
(* turn that ended in an error of the provider included.                   *)
RunEnds ==
  /\ Works
  /\ IsRun
  /\ Begun
  /\ Now.live => child.finish # "none"
  /\ Persist(child.run)
  /\ child' = [child EXCEPT !.phase = "ended", !.ok = TRUE,
                            !.finish = IF Now.live THEN @ ELSE "stop"]
  /\ UNCHANGED <<harness, served, daemon, faults>>

(* A command that is refused, an export, or one that stores nothing.       *)
OtherEnds ==
  /\ Works
  /\ ~(IsRun /\ Begun)
  /\ (Now.live /\ ~IsRun) => child.finish # "none"
  /\ child' = [child EXCEPT !.phase = "ended",
                 !.ok = CASE Now.do = "run"    -> FALSE
                          [] Now.do = "export" -> names[Now.of] \in Stored
                          [] OTHER             -> TRUE]
  /\ UNCHANGED <<sessions, harness, served, daemon, faults>>

Dies ==
  /\ IF Begun THEN Abandon(child.run) ELSE UNCHANGED sessions
  /\ child' = [child EXCEPT !.phase = "ended", !.asking = FALSE]
  /\ UNCHANGED <<harness, served, daemon>>

Crash == Works /\ Fault /\ Dies

Hang ==
  /\ Works
  /\ Fault
  /\ child' = [child EXCEPT !.hung = TRUE]
  /\ UNCHANGED <<sessions, harness, served, daemon>>

Terminated == Running /\ child.signalled /\ Dies /\ UNCHANGED faults

-----------------------------------------------------------------------------
(* The script beside its command.                                          *)

(* TimeoutOfSync and RejectsAlone are forms a defect would give, for the   *)
(* mutation checks only.                                                   *)
TimeoutOfSync ==
  /\ mode = "wait"
  /\ Running
  /\ child.hung
  /\ ~child.signalled
  /\ Now.sync
  /\ child' = [child EXCEPT !.signalled = TRUE]
  /\ UNCHANGED <<harness, sessions, served, daemon, faults>>

(* The timeout of run signals the child and waits for its end; that of     *)
(* runAsync signals it and rejects.                                        *)
Timeout ==
  /\ mode = "wait"
  /\ Running
  /\ child.hung
  /\ ~child.signalled
  /\ child' = [child EXCEPT !.signalled = TRUE]
  /\ IF Now.sync THEN UNCHANGED harness ELSE Fails("close")
  /\ UNCHANGED <<sessions, served, daemon, faults>>

(* The turns of an exported session, as its messages are ordered.          *)
Turns(s) == {db[s].turns[k] : k \in DOMAIN db[s].turns}

LastTurn(s) == {p \in Turns(s) : \A q \in Turns(s) : cli[q].time <= cli[p].time}

RunPasses ==
  LET s == cli[child.run].session IN
  /\ Now.is # "" => s = names[Now.is]
  /\ Now.other # "" => s # names[Now.other]
  /\ Now.live => child.finish = This.finish /\ child.tool = This.tool
  /\ This.requests > 0 => served = This.requests

ExportPasses ==
  LET s == names[Now.of] IN
  /\ Cardinality(Turns(s)) = Now.turns
  /\ Now.last => LastTurn(s) = {Client - 1}
  /\ Now.parent # "" => db[s].parent = names[Now.parent]

Passes ==
  /\ child.ok = (Now.status = 0)
  /\ script = "package" => ~child.signalled
  /\ IsRun => RunPasses
  /\ Now.do = "export" => ExportPasses

(* After the command at step: the next, in another data directory if it    *)
(* says so.                                                                *)
NextCommand ==
  /\ step' = step + 1
  /\ mode' = "issue"
  /\ IF step < Len(This.commands) /\ This.commands[step + 1].home
       THEN NewHome
       ELSE UNCHANGED sessions
  /\ UNCHANGED <<script, stage, failing, roots>>

Check ==
  /\ mode = "wait"
  /\ child.phase = "ended"
  /\ IF Passes
       THEN /\ NextCommand
            /\ names' = IF IsRun /\ Now.as # ""
                          THEN [names EXCEPT ![Now.as] = cli[child.run].session] ELSE names
       ELSE Fails("close") /\ UNCHANGED sessions
  /\ UNCHANGED <<served, child, daemon, faults>>

CommandsDone ==
  /\ mode = "issue"
  /\ step > Len(This.commands)
  /\ Goto(IF daemon.phase = "none" THEN "close" ELSE "stop")
  /\ UNCHANGED <<sessions, served, child, daemon, faults>>

(* server.close waits until no connection is open.                         *)
Closes == mode = "close" /\ ~(Running /\ child.asking)

Leave ==
  /\ Closes
  /\ Goto("leave")
  /\ UNCHANGED <<sessions, served, child, daemon, faults>>

Removed(root) == roots \ {root}

(* The finally of the script: its directory is removed, and the process    *)
(* ends with the error that was thrown.                                    *)
Throw ==
  /\ mode = "leave"
  /\ failing
  /\ roots' = Removed(This.root)
  /\ mode' = "failed"
  /\ UNCHANGED <<place, failing, names, sessions, served, child, daemon, faults>>

(* The next stage begins with a provider and a data directory of its own.  *)
NextStage ==
  /\ mode = "leave"
  /\ ~failing
  /\ stage < Len(Stages)
  /\ LET next == Stages[stage + 1].root IN
     roots' = IF next = This.root THEN roots ELSE Removed(This.root) \cup ({next} \ {"none"})
  /\ stage' = stage + 1
  /\ step' = 1
  /\ mode' = "issue"
  /\ names' = [n \in Names |-> NoSession]
  /\ served' = 0
  /\ child' = NoChild
  /\ NewHome
  /\ UNCHANGED <<script, failing, daemon, faults>>

Finish ==
  /\ mode = "leave"
  /\ ~failing
  /\ stage = Len(Stages)
  /\ roots' = Removed(This.root)
  /\ mode' = "ok"
  /\ UNCHANGED <<place, failing, names, sessions, served, child, daemon, faults>>

-----------------------------------------------------------------------------
(* The installed server, which package-smoke.mjs starts, asks and stops.   *)

DaemonRuns == daemon.phase \in {"starting", "ready"}

DaemonWorks == DaemonRuns /\ (daemon.hung => daemon.signalled)

StartServer ==
  /\ mode = "issue"
  /\ step <= Len(This.commands)
  /\ Now.do = "serve"
  /\ daemon' = [NoDaemon EXCEPT !.phase = "starting"]
  /\ Goto("starting")
  /\ UNCHANGED <<sessions, served, child, faults>>

Listens ==
  /\ DaemonWorks
  /\ daemon.phase = "starting"
  /\ daemon' = [daemon EXCEPT !.phase = "ready"]
  /\ UNCHANGED <<sessions, harness, served, child, faults>>

StartResolves ==
  /\ mode = "starting"
  /\ daemon.phase = "ready"
  /\ NextCommand
  /\ UNCHANGED <<names, served, child, daemon, faults>>

RejectsAlone ==
  /\ mode = "starting"
  /\ daemon.phase = "exited" \/ (daemon.phase = "starting" /\ daemon.hung)
  /\ UNCHANGED daemon
  /\ Fails("leave")
  /\ UNCHANGED <<sessions, served, child, faults>>

(* The server exits or is not ready in time, in which case it is signalled; *)
(* there is nothing to stop yet.                                           *)
StartRejects ==
  /\ mode = "starting"
  /\ \/ daemon.phase = "exited" /\ UNCHANGED daemon
     \/ daemon.phase = "starting" /\ daemon.hung /\ daemon' = [daemon EXCEPT !.signalled = TRUE]
  /\ Fails("leave")
  /\ UNCHANGED <<sessions, served, child, faults>>

FetchStarts ==
  /\ mode = "issue"
  /\ step <= Len(This.commands)
  /\ Now.do = "fetch"
  /\ Goto("fetch")
  /\ UNCHANGED <<sessions, served, child, daemon, faults>>

Handled ==
  CASE Now.as = "session" -> [daemon EXCEPT !.sessions = @ + 1]
    [] Now.as = "delete"  -> [daemon EXCEPT !.removed = TRUE]
    [] OTHER              -> daemon

Refuses == Now.as = "delete" /\ daemon.removed

(* A try of fetchJson: when its answer is lost, it is tried again, whatever *)
(* the server has done; the new session is to be the server's first.       *)
FetchTries ==
  /\ mode = "fetch"
  /\ DaemonWorks
  /\ ~Refuses
  /\ daemon' = Handled
  /\ \/ /\ IF Now.as = "session" /\ daemon'.sessions # 1
              THEN Fails("stop") /\ UNCHANGED sessions
              ELSE NextCommand /\ UNCHANGED names
        /\ UNCHANGED faults
     \/ Fault /\ UNCHANGED <<harness, sessions>>
  /\ UNCHANGED <<served, child>>

Unanswered == daemon.phase = "exited" \/ daemon.hung

FetchGivesUp ==
  /\ mode = "fetch"
  /\ Unanswered \/ Refuses
  /\ Fails("stop")
  /\ UNCHANGED <<sessions, served, child, daemon, faults>>

(* openEventStream, readUntil and ptyWebSocket try once.                   *)
StreamOnce ==
  /\ mode = "issue"
  /\ step <= Len(This.commands)
  /\ Now.do = "stream"
  /\ \/ DaemonWorks /\ NextCommand /\ UNCHANGED names
     \/ Unanswered /\ Fails("stop") /\ UNCHANGED sessions
  /\ UNCHANGED <<served, child, daemon, faults>>

(* stopChild listens for an exit that may be past already.                 *)
StopSignals ==
  /\ mode = "stop"
  /\ daemon' = [daemon EXCEPT !.signalled = TRUE]
  /\ Goto(IF daemon.phase = "exited" THEN "missed" ELSE "stopping")
  /\ UNCHANGED <<sessions, served, child, faults>>

Stopped ==
  /\ mode = "stopping"
  /\ daemon.phase = "exited"
  /\ Goto("leave")
  /\ UNCHANGED <<sessions, served, child, daemon, faults>>

StopTimesOut ==
  /\ mode = "missed" \/ (mode = "stopping" /\ daemon.hung)
  /\ daemon' = [daemon EXCEPT !.phase = "exited"]
  /\ Fails("leave")
  /\ UNCHANGED <<sessions, served, child, faults>>

DaemonExits == daemon' = [daemon EXCEPT !.phase = "exited"]

DaemonCrash ==
  /\ DaemonWorks
  /\ Fault
  /\ DaemonExits
  /\ UNCHANGED <<sessions, harness, served, child>>

DaemonHangs ==
  /\ DaemonWorks
  /\ Fault
  /\ daemon' = [daemon EXCEPT !.hung = TRUE]
  /\ UNCHANGED <<sessions, harness, served, child>>

DaemonTerminated ==
  /\ DaemonRuns
  /\ daemon.signalled
  /\ DaemonExits
  /\ UNCHANGED <<sessions, harness, served, child, faults>>

-----------------------------------------------------------------------------
SmokeInit ==
  /\ Init
  /\ script \in DOMAIN Scripts
  /\ stage = 1
  /\ step = 1
  /\ mode = "issue"
  /\ failing = FALSE
  /\ names = [n \in Names |-> NoSession]
  /\ served = 0
  /\ child = NoChild
  /\ daemon = NoDaemon
  /\ roots = {Scripts[script][1].root} \ {"none"}
  /\ faults = 0

Script ==
  \/ Spawn \/ Timeout \/ Check \/ CommandsDone \/ Leave \/ Throw \/ NextStage \/ Finish
  \/ StartServer \/ StartResolves \/ StartRejects \/ FetchStarts \/ FetchTries
  \/ FetchGivesUp \/ StreamOnce \/ StopSignals \/ Stopped \/ StopTimesOut

Child == Asks \/ Answer \/ Disconnected \/ RunEnds \/ OtherEnds

Faulty == Crash \/ Hang \/ DaemonCrash \/ DaemonHangs

SmokeNext == Script \/ Child \/ Terminated \/ Listens \/ DaemonTerminated \/ Faulty

(* The script goes on when it can, its timers included; a process that     *)
(* does not hang goes on, and one that is signalled ends.                  *)
SmokeSpec ==
  /\ SmokeInit /\ [][SmokeNext]_all
  /\ WF_all(Script) /\ WF_all(Child) /\ WF_all(Terminated)
  /\ WF_all(Listens) /\ WF_all(DaemonTerminated)

-----------------------------------------------------------------------------
(* What the scripts assert is what the command line and the server do: a   *)
(* script fails only after a fault.  The expectations of SmokeScripts,     *)
(* written by hand stage by stage, agree with the selection, the storing   *)
(* and the turn of the command (Check, Passes, FetchTries).                *)
HealthyScriptPasses == failing => faults > 0

(* The script that prints ok leaves nothing behind, and the one that fails *)
(* has at least told what it started to end: its directories are removed,  *)
(* and every process it leaves alive is signalled (Throw, Finish, Timeout, *)
(* StartRejects, StopTimesOut).                                            *)
NothingLeftBehind ==
  /\ mode \in Ended => roots = {}
  /\ mode = "ok" => ~failing /\ ~Running /\ ~DaemonRuns
  /\ mode = "failed" => (Running => child.signalled) /\ (DaemonRuns => daemon.signalled)

(* Every script ends, whatever hangs: each wait of it has a timeout, or is *)
(* for something another one ends (runAsync, fetchJson, stopChild, close). *)
ScriptEnds == <>(mode \in Ended)
=============================================================================
