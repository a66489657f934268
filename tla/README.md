# Verification of OpenCodeHX

OpenCodeHX is a port of OpenCode, an AI coding agent, to Haxe compiled to
JavaScript. This directory holds TLA+ models of the parts of it whose
correctness depends on the order in which things happen, TLC configurations
that check them on small instances, and TLAPS proofs about them.

The program runs on one JavaScript thread. A function runs without
interruption to its end, or to its next `await`; promises, timers, HTTP
requests, model streams and user interfaces call back in between. So an action
of a model is the code from one such point to the next, and the interleavings
that matter are those of callbacks, never of instructions.

Where there are several processes (commands of the command line on one database,
an acceptance script and its children) an action is what one of them does between
two points at which another can see it.

Paths below are relative to `src/src/opencodehx` unless they start with `docs/` or
`scripts/`. `smoke/` holds the repository's tests. Line numbers and every
correspondence between a definition and the source are in `PROJECT.json` ("map").

## 1. The system

| Component | State | Operations | Interacts with |
|---|---|---|---|
| Read/write lock, `util/Lock.hx` | a static map from key to counters and two queues | read, write, dispose | its callers; used by tests only so far |
| Runner, `effect/RunnerRuntime.hx` | the run in progress, its number, the callers waiting for it | ensureRunning, cancel, callbacks of work and onInterrupt | its callers; used by tests only so far |
| Permissions, `permission/` | per directory: pending requests, approvals, an id counter | ask, reply (once, always, reject), disposal | the synchronous runtime answers the tools; the asynchronous service is asked by tests only so far, the server's routes list and reply, the instance's disposal rejects |
| Session turn, `session/SessionProcessor.hx` | events heard, tool history, the message being built, its rows | request, retry, tool call, continuation, abort, persist | provider stream, tools, abort signal, session store |
| Server sessions, `server/OpenCodeServer.hx` | session order, a counter, status registry, abort controllers, session table | POST, abort, DELETE, PATCH of a session, lists and pages | runs turns; tables in SQLite outlive the process |
| Workspace sync, `sync/` | received events per session, background task, one attempt under way | replay, start, history, the loop's timer and awaits | a remote server over HTTP and an event stream |
| Event store, `sync/SyncEventStore.hx` | rows, id counter, SQLite log | run, replay, remove, load | projectors, publisher; used by tests only |
| Workspace restore, `controlplane/` | none of its own | replay of a session in batches | sync routes of a local or remote workspace |
| Terminals, `pty/PtyService.hx` | sessions with a bounded output buffer, cursors, subscribers | create, write, connect, remove, output, exit | WebSockets of the server |
| Snapshots, `snapshot/` | content snapshots in memory | track, patch, revert, restore, diff | the work tree, Git |
| Instances, `project/InstanceRuntime.hx`, and buses, `bus/` | contexts and disposers per directory, listeners, history | boot, reload, dispose, publish, subscribe | permission and question services end with them |
| Questions, `question/` | pending questions per directory, an id counter | ask, list, reply, reject, disposal | question tool, routes, the instance they boot |
| Accounts, `account/` | account rows, the active account, refreshes in flight | token, config, orgs, poll, remove, use | remote account server, SQLite |
| Command line sessions, `cli/Cli.hx` | none of its own: the session table, a random id per session and turn | run with --session, --continue, --fork | other commands, through the database file |
| Acceptance scripts, `scripts/harness/package-smoke.mjs`, `cli-smoke.mjs` | the child or server they started, their fake provider, a temporary directory | stages of commands with assertions, timeouts, cleaning up | the command line, the installed server |
| Share, `share/` | share records, pending diffs | create, queue, flush, remove | remote share server |
| Stores, `storage/` | SQLite tables, JSON files with an update queue | upsert, page, update, migrate | turns and routes |
| Providers, tools, config, plugins, CLI, TUI, utilities | little or none between calls | conversions, input and output | everywhere |

What makes them hard, and what has to hold:

* **Lock.** A wake-up happens only when somebody releases, and the release looks
  up the key's lock object again although its closure captured one. Writers must
  exclude everybody, no wake-up may be lost, later readers must not overtake a
  waiting writer, and two lock objects must never live at once.
* **Runner.** A cancelled run goes on and calls back, perhaps when a new run is
  under way; an asynchronous onInterrupt may answer later still; work and
  onInterrupt may throw instead of returning a promise. Each caller
  must get an answer, once, and that of the run it asked to share, and a run whose
  functions throw must not harm the callers of another.
* **Permissions.** A reply can settle several requests, and approvals change what
  the rules say of the others. A promise must be open exactly while its request
  can be replied to; nothing may be allowed that neither the user nor a rule
  allowed; the user must not be asked what is denied; replies must stay in their
  session and directory, and stray from their instance only when they are late.
* **Session turn.** Aborts, retries and continuations interleave with a message
  that is edited in place and saved row by row. Each request must carry exactly
  the results of the tools before it, an abort must stop requests and be
  recorded, and what is stored must be what was returned.
* **Server sessions.** Handlers await a model while others delete, abort and
  list; rows survive a restart and counters do not. Clients must read the
  messages of their own request, and listing, status and controllers must agree
  with the turns there are.
* **Workspace sync.** Events come by three ways that overlap, late and repeated;
  the task must survive every failure. The rows must be a beginning of the
  remote's log, grow only, and catch up.
* **Terminals.** Sockets close unheard, are recycled for other clients or throw
  while output arrives, the buffer is trimmed, and a removal kills a process whose
  exit is heard later. A client must get one contiguous part of the output, of its
  terminal only, and a terminal must end once.

* **Instances and questions.** Every question and permission route boots the
  instance again, disposers throw, and an instance may go while the body of a reply
  is read. Disposers must run, what is pending must be where the routes look for
  it, and an answer must settle the question it was given for.
* **Accounts.** Calls, logins and removals run beside refreshes they share. An
  account must be refreshed once at a time, a call must get a token of its own
  time and account, and a login must not be undone.
* **Command line sessions.** Commands overlap on one database. No turn may take
  the place of another's, and nothing stored may change.
* **Acceptance scripts.** Children and the installed server die, hang, or answer
  and are not heard. What the scripts assert must be what a healthy program does;
  they must end, and leave no process or directory behind.

Hazards are listed with their lines in `PROJECT.json` ("hazards"); the lesser ones
are in section 6.

## 2. Modules

Each component's module holds its state, Init, one action per operation, the
specification, its properties, and, named for what is wrong with them, a few
variants of definitions that a plausible defect would give, which no
specification uses. The modules with an `MC` prefix only give constants their
values. Theorems are in modules of their own, ending in `Proofs`; a few of these
serve several components, whose names for `Init`, `Next` and the like then differ.

| Module | Source | State and actions |
|---|---|---|
| `RwLock` | `util/Lock.hx` | One key, as keys share nothing. `entry` is the map's object, `lock` the fields of all objects, `obj[c]` the object client `c` captured, so that generations of lock objects can be told apart. `Lock.read` and `Lock.write` are two actions each, granted at once or queued; `Dispose` includes `process`. |
| `Runner` | `effect/RunnerRuntime.hx` | `live` are promises of work that have not called back, `interrupting` those of onInterrupt with the callers they will answer. `joined` and `outcome` record which run each caller asked for and how it was answered, `workThrew` and `interruptThrew` the runs whose work or onInterrupt threw before it returned a promise (`StartThrows`, `CancelThrows`). |
| `PermissionRules` | `permission/PermissionRules.hx` | The last rule that matches decides. A permission and pattern is a target, a wildcard the set of targets it covers. |
| `PermissionService` | `permission/PermissionAsyncRuntime.hx`, reply route | Services are numbered as they are made; `current` is the service each directory has. `pending` is a set per service: the list and the map of the code change together, and the order of the list is that of the ids. A reply is identified as the user interface does it, by directory and request id. It may be late: for a request that is settled, or of an instance that was disposed of. |
| `SessionTurn` | `SessionProcessor.runAiSdk`, `AiSdkProvider` | A request is its number, a text the set of requests it was taken from, a message a sequence of part kinds. An action goes from one await (a stream, a retry's wait) to the next; `Persist` is one statement. |
| `ServerSessions` | session routes of `server/OpenCodeServer.hx`, its status registry and table | A session is the number in its id. `POST` runs in three modes: deterministic (`fake`), injected model (`live`), configured model (`config`), with a phase per request for each await. `Restart` keeps the table alone. |
| `SyncLog` | promise of `sync/` | Abstract: a log, and a copy that is at all times a beginning of it and only grows, until it is forgotten. |
| `WorkspaceSync` | `sync/SyncRouteRuntime.hx`, `WorkspaceSyncRuntime.hx`, `WorkspaceSyncBackgroundTask.hx`, sync routes | One attempt of the loop is `Accept`, `Ask`, `AnswerHistory`, `ApplyHistory`, `StreamEnds`, with `RequestFails` and `StreamBreaks` at each await; `Fire`, `Start`, `Stop` are the task. The remote, which writes and broadcasts, is external. Implements `SyncLog` with `copy <- rows`. |
| `PtyStream` | promise of `pty/` | Abstract: readers attach to a terminal, get its output from a position on, in order and once, and detach. |
| `PtyService` | `pty/PtyService.hx`, PTY routes | Output is its positions, so that the buffer shows which part it holds. `sessions` is the map, `pty` what the closures of a terminal hold after it left the map too. A connection is a key, a socket object has the key of the connection it serves now. `client` is what each connection received, and is forgotten when it ends. Implements `PtyStream` with `written` the cursors and `reader <- client`. |
| `Selection` | `Array.filter` | `Selected(list, set)`: `SelectSeq` with the set of what passes in place of a predicate, so that theorems can be stated of it. `PtyService` filters subscribers with it, `ServerSessions` the order of sessions. No state. |
| `Instances` | `project/InstanceRuntime.hx` | `contexts` are the hooks (services with a disposer) of each directory's instance, in order. `Boot`, `BootFails`, `Dispose` and `Reload` are synchronous; `lost` are hooks nothing refers to any more though nobody disposed of them. |
| `Questions` | `question/QuestionRuntime.hx`, question routes | Extends `Instances`: each route's action begins with `Boot`, each disposal ends with the listener that rejects what is pending, unless a disposer threw. A reply is two actions, as the route awaits the body. `meant` records which question an answer was given for. |
| `AccountService` | `account/AccountService.hx`, `AccountRepo.hx` | A token is a number with the login it descends from. A call is one action up to its first await; `RefreshEnds` and `RefreshFails` are the refresh with all that waited for it; a poll is three requests. `last` and `crossed` record the last login and whether a refresh was in flight when it ended. |
| `CliSessions` | `run` of `cli/Cli.hx`, `persist`, the session table | A command is `Begin` (selection and persistence), then `Persist` or `Abandon`. `db` is the table with the turns of each session by the key of their ids. Random ids are any id not in use. |
| `SmokeScripts` | both acceptance scripts | The scripts as data: stages of commands with what is asserted of them. No state. |
| `AcceptanceSmoke` | both acceptance scripts, the provider's turn, the installed server | Extends `CliSessions` and `SmokeScripts`: a script walks its stages; `child` is the command at work, `daemon` the installed server, `served` the provider's requests. `Crash`, `Hang` and lost answers are the faults. |

How they compose: `PermissionService` extends `PermissionRules`. `Questions`
extends `Instances`, and its actions conjoin theirs. `AcceptanceSmoke` extends
`CliSessions` and `SmokeScripts`: its children take the steps of `CliSessions`.
`PtyService` and `ServerSessions` extend `Selection`. `WorkspaceSync` instantiates `SyncLog`, `PtyService` instantiates `PtyStream`.
`ServerSessions` takes from `SessionTurn` that a turn
ends, answered or failed, after an await, with an abort signal raised or not;
`SessionTurn` takes from `PermissionService` that a tool may be refused, which is
one of the ways a call fails.

Abstractions: identifiers, names and texts are model values or numbers; rows
keep the columns the properties speak of; time is the distance of
`time.updated` from its smallest value (`ServerSessions`) or is absent; the
content of requests to a model is its tool history.

## 3. Runs

A *pass* run has no error; a *violation* run shows a behaviour that contradicts
what a document of the repository says. Type invariants are not checked by runs of
their own: they are part of the inductive invariants of section 4, and were
checked with TLC while those were found.

| Run | Instance | What it shows |
|---|---|---|
| `lock` | 3 clients, 3 lock objects | Exclusion, no lost wake-up, counters and queues that agree with the holders, writer preference as a step property, and service of each waiting writer. |
| `runner` | 3 calls, up to 6 run numbers, with and without onInterrupt, functions that throw or not | Answers come from the run asked for; nobody without an answer is forgotten or owed two, and each call is answered, but for callers of a run whose own work or onInterrupt threw. |
| `permission` | 3 asks of 5 kinds, 2 sessions, 2 directories, 2 services | Open means pending, allowed means justified, denied is never prompted, replies stay in their session and instance, but for late ones, which stray only to the same id in a later instance of the directory. |
| `turn` | 3 call ids, up to 2 continuations, up to 2 attempts, 8 kinds of input | Requests carry the results before them and stop at an abort; the abort is recorded; message and rows show each tool once and in order. |
| `server` | 3 requests, 3 modes, 2 starts, archiving | Own messages and final deletes in one process; exact listing; busy and abortable exactly while a turn runs; cursor pages that add up to the listing. |
| `server_restart` | 2 requests, 2 starts | **Violation**: a session made after a restart takes the id and overwrites the messages of a stored one. |
| `sync` | 2 sessions of up to 2 events, one active, 2 types, 2 faults | The rows implement `SyncLog`; stream and history join; one loop; rows catch up, through histories without any stream ending. |
| `pty` | 2 terminals, 2 sockets, 3 connections, 3 units of output in chunks of 1 and 3, a buffer of 2 | The clients' view implements `PtyStream`; each terminal ends once and lets its clients go. |
| `questions` | 2 directories, 2 hooks, one whose disposer throws, 2 questions, 1 reply, 3 services | Running hooks belong to an instance; what is pending is reachable; answers settle the question they were given for. |
| `account` | 2 accounts, 3 calls, 2 logins | One refresh of an account at a time; tokens and failures of the call's own time; logins hold. |
| `cli` | 4 commands, 4 session ids, a list limit of 2 | However commands overlap, the turn of one that ended well stays under its key. |
| `smoke` | both scripts whole, 4 session ids, 6 children in a data directory, 2 faults | What the scripts assert holds unless a fault happened; nothing is left behind; every script ends. |

### Bounds, and why they suffice

* `lock`: three clients give a holder with two waiters of any kinds, which is
  where `process` has a choice. A client drops its old handle when it asks
  again, so as many objects as clients are enough for a fresh one always to
  exist. Nothing is bounded but the constants, and the theorems hold for any.
* `runner`: each call starts at most one run and each run is cancelled at most
  once, so `MaxRunID` = 2 x calls never binds. Three calls give an abandoned
  run, its successor and a third caller that joins or queues.
* `permission`: two services are two directories at once or one directory
  reopened, where late replies stray. Three asks give the one replied to, one that the reply settles with
  it and one that it must leave alone. `MaxApprovals` bounds an "always" that
  does not cover its own request, leaves it pending and can be repeated for
  ever; three approvals exceed the two targets there are.
* `turn`: `limit` 2 is what the code calls the number of continuations it allows;
  2 and 0 are above and at the edge. Call ids may repeat, as a model's may.
  Two attempts give a failed one and its retry, in the first request and in a
  continuation.
* `server`: three sessions give a grandchild, a sibling, and a cycle of parents
  (a client may name a session that does not exist yet). `MaxUpdated` bounds
  patches, each of which adds one to a time that is first the session's number,
  up to three: older sessions can be patched until they meet the newest one. Two
  starts are a process and its successor.
* `sync`: two events are a gap, a repetition and an order; the second session is
  the one that a failure of the first holds up. Two faults are a failure and
  another while recovering from it; liveness is about what follows the last.
* `pty`: the third connection is the one that gets a recycled socket. A chunk of 3
  overflows the buffer at once, three of 1 do so by steps, and the cursors 0, 1 and
  -1 then lie before, in and behind it. 2^31 is `IntLimit`, above what is written
  here: `parsePtyCursor` takes larger cursors and `Std.int` then wraps them, so past
  2^31 units of output a client gets another part than it asked for. The
  assumption of the run is that no terminal writes as much.
* `questions`: `MaxServices` 3 are two in one directory, an old one and its
  successor, beside the other directory's. Two hooks give an instance with a
  disposer behind the one that throws, and one with it in front. The theorems need
  none of this.
* `account`: three calls are one that refreshes, one that joins it and one that
  comes later; two logins are an account's first and the one that replaces it, or
  two accounts at once.
* `cli`: four commands are a new one, two that resume it at once, and a fork or
  another beside them. With a list limit of 2 a session can be out of the sight of
  `--continue`, which the code's 50 does to the 51st.
* `smoke`: the scripts are not shortened. A stage makes at most four sessions, and
  no data directory sees more than six runs. (The module assumes the latter of
  `Clients`; with fewer, a script would wait for a child that cannot start.) Two faults
  are one and another while the script cleans up; the ids of new sessions are taken
  in every order.

Deadlock is checked for `lock` and `runner`. The other systems may come to rest
(all asks answered, the turn over, all requests or calls answered, the remote
silent and the task stopped, the script ended), and their configurations say so.

### Fairness

* `RwLock`: a client that holds the lock disposes of its handle some day. That is
  a duty of the callers; nothing is assumed of requests. `WriterServed` would be
  false without it, and is true although readers keep coming.
* `Runner`: the promises that work and onInterrupt return settle. Cancels
  and new calls are not fair.
* `WorkspaceSync`: a timer that is set fires, and the remote answers requests in
  the end. Nothing makes a stream end: the event stream of a server that is well
  stays open (`server/ServerEventStream.hx`), and the code applies what a stream
  brings only when it ends. So `CatchesUp` has two parts: what was written before the
  history of an attempt arrives whatever streams do, and what is written later
  arrives unless the stream then stays open for ever. Faults are finitely many;
  writes, replays, starts, stops and ends of streams are not fair.
* `AcceptanceSmoke`: the script takes a step it can take, which includes that its
  timers fire; a child that does not hang goes on; a server that does not hang
  begins to listen; a process that has been signalled ends, as the scripts install
  no handlers in them. `fetchJson` has no timeout for a single try: that a request
  to a server that hangs fails in the end is owed to the limit `fetch` itself has.
  A child that hangs does nothing of its own and is
  under no fairness but that of its signal.

The other modules have safety properties only.

## 4. Theorems

They hold for all values of the constants that satisfy the module's ASSUME.

`CoordinationProofs`, the lock. The inductive invariant joins the type invariant, `OneLiveObject`,
`BookkeepingAgrees`, `MutualExclusion` and `NoLostWakeup`. Exclusion alone is not
inductive: that a writer is granted only when nobody holds follows from the
counters of the object, hence they must agree with the holders; and they agree
only if all holders share one object, hence `OneLiveObject`, which in turn needs
that `process` drops an object only when counters and queues are empty. Proved:
`TypeCorrect`, `WritersExclude`, `WakeupsAreNotLost`, `LockObjectIsUnique`,
`BookkeepingIsRight`, and from the same invariant the step property
`WritersArePreferred` (`WriterPreference`): a release grants readers only when the
queue of writers is empty, and that queue is the waiting writers. Cardinalities of the sets of holders come from
FiniteSetTheorems, for which the set of clients is assumed finite.

`CoordinationProofs`, the runner. `RunnerTypeCorrect`, `AnswersAreOwn` (`AnsweredByOwnRun`), `AnswersAreOwed`
(`NobodyForgotten`) and `IdleIsEmpty` (`IdleHasNoWaiters`). What they lack to be
inductive is that those who wait asked for the run in progress, that each batch
awaiting an onInterrupt is of one earlier run, whose onInterrupt did not throw, and
that who did not call has no answer: without it a batch could answer callers of a
later run. Whom a throwing onInterrupt left without an answer is no exception to
the theorem's proof but a case of its statement: such a caller is owed nothing, ever.

`PermissionProofs`. `OpenArePending` (`OpenIsPending`) rests on services in use being
those not disposed, each in its directory. `AllowedAreJustified` and
`DeniedAreNeverPrompted` rest on lemmas about rules: of the rules that match there
is a last one, which decides; hence more allowing rules behind the others neither
take an allowance back nor deny what was not denied (`AllowingRules`), and
approvals only ever allow. `RepliesSessionWide` is a step property.
`OnlyLateStray` (`OnlyLateRepliesStray`) rests on `Numbered`: ids are distinct within
a service, so a reply that is not late finds its own request; and of the services a
directory had, the one it has now is the last, so a late one finds the request of the
same id in a later instance. All hold for any rules, targets and asks, late replies included.

`SessionTurnProofs`. The inductive invariant describes a turn phase by phase.
`ResultsAreCarried` (`RequestsCarryResults`) rests on `Told`: what the turn has told
the model is the ids of its tools in order while its request is in progress, so the
tools of a round are appended to both or, when one of them failed, end the turn.
`AbortsAreRecorded` (`AbortIsRecorded`) and the step property `AbortsStopRequests` rest
on `Unaware`: a turn that goes on has not learned of an abort. `ToolsAreShown`
(`MessageShowsTools`) rests on `Shown`: while the turn goes on the parts of its message
are the retry marker, the tools so far, the text and the markers, and inserting before
the text keeps that. `StoredIsReturned` (`StoredTurnIsTheReturned`) rests on `Saved`: the
rows written are a prefix of the statements, because no two statements of a
message with distinct call ids have the same key.

`ServerProofs`, the sessions. `ControllersFollowTurns` (`AbortsAreOfRunningTurns`) holds
across restarts: a turn is registered under the id its request got from the
counter, no two requests of a process share one, and every way out of the handler
removes it. `MessagesAreOwnInOneProcess` and `DeletesAreFinalInOneProcess` need
more: in the first process, rows belong to requests, ids beyond the counter have
no rows, and a handler after its await writes only a session that is still there.
`BusyIsRunning` (`BusyMeansRunning`) needs that only requests of the configured mode
wait for their model (`Configured`), and holds across restarts.
`TheListingIsExact` (`ListingIsExact`) compares two walks of one forest: a deletion
cascades in the table along the rows' parents, and in the listing along what it
shows of them. They agree (`SubtreesAgree`) because what is stored and not listed
has no parent (`ListInv`): such a row is of a turn that is still awaited, and gets its
parent when it is answered. None of this needs bounds on the requests or what
parents they name.
`PagesAreTheListing` (`PagesShowTheListing`) has a hypothesis, that every patch
archives. It is the exception the property's comment names: renaming a session moves
it in time, and two sessions of one time may lose one to the seam of two pages. What
is left to show (`FakeInv`) is that a session not archived has its number for its time,
so the order of creation is that of the cursors, and then, by induction over the cursor, that
a page and the pages behind its cursor are what matches.

`ServerProofs`, the terminals. The invariant `PtyInv` joins `PtyTypeOK` with
`Ages` (what `status`, `process`, the events and the map say of a terminal's age is one
and the same), `Followed` and `Listening` (a client that follows a terminal is subscribed
to it by an open socket that still has its key, and every subscriber like that is such
a client) and `KeysAreNew` (a terminal lists a connection once, no two sockets have one
key, and connections to come are in no list). `PtyTypeCorrect` and `TerminalsEndOnce` (`EndsOnce`) follow from it.
`ClientsReadTheStream` (`ReadsTheStream`) is the refinement of `PtyStream`, step by step:
a chunk is its write, a connection attaches, an end, a throw or a recycled socket
detaches, and everything else stutters. `Followed` and `Listening` are what carries a
chunk to everyone who is owed it and to nobody else, once by `KeysAreNew`, though lists
keep subscribers whose socket has been recycled. It assumes that the cursors asked for are below `IntLimit`: larger ones wrap
(section 3), and the theorem is false of them.

`RecursionProofs`. What tlapm takes for granted of no recursive function: that it has
the value its equation says (`UpTo`, `TailRecursion`, `Iteration`), each by induction over
the set of its arguments; that `Selected` keeps order, has what passes and nothing
else (`SelectedInOrder`); and that a list that goes up or down is determined by its
elements (`SameDescent`).

`WorkspaceSyncProofs`. `OneLoopRuns` (`LoopIsAlone`): the property is strengthened
with "a task that does not run was never started, or its signal is aborted",
without which `Start` could set a second timer. The rest is about the rows, with
one invariant `SyncInv`: the rows of each session are a beginning of its log, the known
numbers an answer was asked with are not ahead of the rows, and what the log holds
beyond the rows is in the answer or the stream of the tick (`Covered`), the stream
starting where the answer ends (`Joined`). `NothingMissedBetween`
(`StreamJoinsHistory`) needs all of it: the stream opens before the history is asked
for, so an event written in between is in both or in the stream. `RowsReplicate`
(`Replicates`) is the refinement of `SyncLog`, step by step: a `Write` is its write,
an `ApplyHistory` or a tick's replay of the stream replicates, a restart forgets, and
everything else stutters. Replay is a recursive function; what it does to the rows is
proved by induction along its steps, with the lemmas of `RecursionProofs`. The set of sessions is assumed finite, as the history is put in an order.

`QuestionProofs`. One invariant for instances and questions. `HooksOwned`: the
hooks of two instances are disjoint and running, which needs that a boot starts
only hooks nobody started before. `PendingReachable` rests on the two maps
agreeing (`Mapped`): a service not disposed of is the one its directory has, and
that directory has an instance unless a disposer threw. `AnswersReach` rests on ids being
distinct within a service (`Ids`) and on a request keeping the service it found
(`Taking`), which is why it survives a reload during the await.

`CoordinationProofs`, the tokens of an account. `AccountTypeCorrect`, `RefreshesCoalesce`, `AnswersAreOfTheirTime` and `LoginsAreKept` rest
on what `refreshes` says: it names the refresh of an account in flight and nothing
else (`Flight`); so whoever waits waits for a refresh of its account that is yet to
end (`Waits`), and what is in flight descends from the last login (`Descent`).

`CommandLineProofs`. `TurnsAreKept`: no two turns of a session have one key, as a
new session is nobody else's until it is stored (`Unshared`), a resumed one was
stored before (`Kinds`), and a turn's random key is of the command that took it
(`Written`). `SessionsOnlyGrow` is a step property: of what is stored of any
session a command takes nothing away. Both assume that random ids differ.
`NothingStays` (`NothingLeftBehind`) is about the scripts, whatever is hit by however
many faults: a child runs only while the script waits for it or after its timeout,
the server only in a stage that starts no child, and what a failure leaves has been
signalled (`Attended`); the directories there are belong to the stage at work
(`Housed`). That no stage has both a server and children is shown of the scripts'
36 stages one by one (`ScriptsAre`).

`HealthyPasses` (`HealthyScriptPasses`): no assertion of a script fails before the first
fault, so neither for another order of the random session ids nor for more of them
than TLC has. What a script asserts follows from a ledger (`Ledger`): how many turns
the runs so far have taken, of which sessions by the script's names for them, which
one was last, which one was resumed, and what was forked from what. The proof has
two halves. One is about the scripts alone: every stage has a ledger for
each command that the command fits (`Fits`, `Balances`), and its tools, permission and
asserted requests agree (`Provides`); the 35 stages with children are built from the
same few series of commands, and are walked through with these (`StagesSound`). The
other is the invariant `Healthy`, which holds while `faults = 0`: before each command the
table has exactly the ledger's sessions, turns and parents under the remembered ids,
and those who resumed did so at different times (`Book`); a run at work has picked the
session the ledger says (`AtWork`); the model has come as far as its answers led it
(`Conversed`); and the installed server has made and removed a session when the
script is past those requests (`Ready`). That a resumed session is alone at the top
of the list is what makes `--continue` find it; that no two resumed at one time makes the
last turn of an export the last run's. The theorem assumes that six children can
run in a data directory and that the list limit is not zero.

Only model-checked is liveness (`WriterServed`, `EveryCallAnswered`, `CatchesUp`,
`ScriptEnds`), which rests on ENABLED. Every other property of a passing run is stated
by a theorem, a few of them under the hypotheses named above.

## 5. What was found

One behaviour contradicts a document, and a run shows it:

* Session ids restart with each process while sessions are kept, so a new session
  overwrites the messages of an old one (`server_restart`; the text it contradicts
  is quoted in `PROJECT.json`).

The others were met while modelling. They are cases that a property excepts
explicitly, because with them it is false; the property says what holds beside
them.

* *Runner.* Work that throws before it returns a promise leaves the runner Running,
  and everybody who joins that run waits until a cancel, while
  `docs/effect-runtime-parity.md:58` speaks of failures that reset it. An onInterrupt
  that throws before it returns a promise makes `cancel` throw after it has taken the
  callers from the waiters (`effect/RunnerRuntime.hx:63`): nothing refers to their
  promises any more, while the class comment says that cancellation settles every
  waiting caller. Both are excepted in `EveryCallAnswered` and the second in
  `NobodyForgotten`, for the callers of that run alone.
* *Permissions and questions.* Ids restart at 1 with each instance, so a late reply
  can settle a request that the user was not shown (the second case of
  `OnlyLateRepliesStray`, and `late` in `AnswersReachTheirQuestion`), while
  `docs/permission-model-port.md:33` lists the reply to an unknown request as a no-op.
* *Instances.* A boot over an instance, which every question and permission route
  performs, forgets the disposers of the old one; a disposer that throws skips those
  before it and the event, so pending questions stay open; a factory that throws
  leaves what was started before it running (`lost` and `left`).
* *Session turn.* The text of a turn includes what its failed attempts said
  (`SessionProcessor.hx:494`). `smoke/SessionProcessorSmoke.hx:1326` tests a retry
  whose first attempt fails before any text.
* *Workspace sync.* The loop's history request for an active session without rows
  carries -1, which the remote's route refuses (`sync/SyncRouteRuntime.hx:177`), so
  such a workspace never syncs; neither does one whose remote writes an event type
  that is not known (both excepted in `CatchesUp`, as long as they last). What a stream
  brings is replayed when the stream ends, not as it comes
  (`sync/WorkspaceSyncRuntime.hx:118`), and an attempt whose stream stays open asks for
  no further history: events written after its history may never reach the rows
  (excepted in the second part of `CatchesUp`).
* *Command line.* `--continue` is described as "continue the last session"
  (`cli/CliSurface.hx:62`), and takes the root session that comes first by
  `time.updated` and then by id. A session's first turn has the constant time 1002
  and a random id, so of sessions that were never resumed the choice is random, and
  one that was once resumed comes before all new ones. It looks at 50 rows before
  it drops the forks among them. What the acceptance scripts expect of
  `--continue` nevertheless holds (`HealthyScriptPasses`).
* *Accounts.* A login that ends while a refresh of the account is in flight is
  overwritten with the older grant's tokens (`crossed` in `LoginsHold`). The
  refresh request carries no credentials (`account/AccountService.hx:257`), so what
  a server could answer is open; the model takes the answer to be of the login
  whose row the refresh has read.
* *Pages.* Two sessions may share a `time.updated`, and a page that ends between
  them loses one (excepted in `PagesShowTheListing`).

## 6. Not modelled

Of the modelled components: rule construction (`fromConfig`, `merge`,
`disabled`); the turn's deterministic run, compaction and prompt assembly; the
server's other routes; sync fences, the status list, the growth of the delay and
the parsing of frames; input, resizing and titles of terminals, messages that
arrive before a socket is open, and the split of a replay into pieces (which may
fall between the halves of a surrogate pair); `reset` of the static registries and
`disposeAll`, which tests use; device login before its poll, and the active
organisation; option parsing and output of the command line; in the
acceptance scripts, the assertions on manifests, prompts, headers and wording,
and the bytes of streams. Session ids supplied by the caller of `ask` are left
out (only tests supply them), as is a `retryPolicy.wait` that hides an abort from
`AbortIsRecorded` (no caller passes one). In `AccountService` the settling of a
refresh and the removal of its entry, a microtask apart, are one action; a caller
that comes between them joins the settled promise and gets what the others get.

Of the components without a model, the event store, workspace restore, snapshots,
JSON storage and share publishing are called by smoke tests only: which failures
meet them, and in which order they are called, no program decides yet. The
others are conversions of data or input and output, where the interesting
behaviour is in strings and files and not in the order of steps. Each has its
reason in its "note" in `PROJECT.json`.

Hazards that are not in the list, being of less weight or without effect on
what a property says: the sync stream is opened before the history request and
neither read nor cancelled when that fails; the `syncing` flag is set once and never cleared; a repeated
workspace restore sends again the batches that had arrived; a synchronous child of
an acceptance script blocks the provider in the same process, so a command that
needs the provider must not be run that way (`Blocked`).

## 7. State of the development

All modules named above are written, checked and, where section 4 says so, proved.
What would come next, should the code grow callers for it: the event store's memory
and table after a failed save, with workspace restore on top; and revert of snapshots as
the inverse of a list of patches.
