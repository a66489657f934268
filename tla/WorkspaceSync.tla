--------------------------- MODULE WorkspaceSync ---------------------------
(***************************************************************************)
(* Workspace synchronisation, src/opencodehx/sync: the events a process    *)
(* received (SyncRouteRuntime), the loop that follows a remote workspace   *)
(* (WorkspaceSyncRuntime.runRemoteLoop) and the task that keeps the loop   *)
(* going (WorkspaceSyncBackgroundTask), with the two other ways in which   *)
(* events arrive: POST /sync/replay and /sync/start.  The remote is        *)
(* another server: it writes the log, answers /sync/history and broadcasts *)
(* what it writes on /global/event.                                        *)
(*                                                                         *)
(* One tick of the task is one attempt of the loop: connect to the event   *)
(* stream, ask for the history after what is known, apply it, read the     *)
(* stream to its end and only then apply what it brought.                  *)
(***************************************************************************)
EXTENDS Integers, Sequences, FiniteSets, SequencesExt

CONSTANTS Sessions,
          Active,       (* workspace.activeSessionIDs                      *)
          Types,        (* event types the remote writes                   *)
          KnownTypes,   (* those SyncRouteRuntime was made with            *)
          MaxEvents,    (* bound on the events of a session                *)
          MaxFaults     (* bound on network faults and restarts            *)

ASSUME SyncAssumption ==
  /\ IsFiniteSet(Sessions)
  /\ Active \subseteq Sessions
  /\ KnownTypes \subseteq Types
  /\ MaxEvents \in Nat
  /\ MaxFaults \in Nat

VARIABLES log,       (* the remote's events, by session                    *)
          rows,      (* SyncRouteRuntime.rows, by session                  *)
          task,      (* the fields of the background task                  *)
          tick,      (* where runTickAsync stands                          *)
          stream,    (* what the remote broadcast on this connection       *)
          known,     (* the sequence numbers sent with the history request *)
          answer,    (* the answer to it                                   *)
          gapped,    (* failures has a sequence mismatch of a stream event *)
          faults

vars == <<log, rows, task, tick, stream, known, answer, gapped, faults>>

Event == [session : Sessions, seq : 0 .. MaxEvents - 1, type : Types]

Phase == {"none", "connecting", "accepted", "asking", "answered", "streaming"}

NothingKnown == [s \in Sessions |-> -1]

Latest(r, s) == Max({-1} \cup {r[s][i].seq : i \in DOMAIN r[s]})

Unknown(e) == e.type \notin KnownTypes

Gap(r, e) == e.seq > Latest(r, e.session) + 1

Throws(r, e) == Unknown(e) \/ Gap(r, e)

(* NextOrOld, StopKeepsTimer, EndQuietly and ConnectedLate are forms       *)
(* a defect would give, for the mutation checks only.                      *)
NextOrOld(r, e) == e.seq <= Latest(r, e.session) + 1

IsNext(r, e) == e.seq = Latest(r, e.session) + 1

(* What replay does to the rows: old events are ignored, a gap or a type   *)
(* that is not known throws.                                               *)
Replay(r, e) ==
  IF ~Unknown(e) /\ IsNext(r, e)
  THEN [r EXCEPT ![e.session] = Append(@, e)] ELSE r

Rows == [Sessions -> Seq(Event)]

(* Events replayed up to the first one that throws.                        *)
ReplayAll(r, events) ==
  LET from[at \in [rows : Rows, i : 1 .. Len(events) + 1]] ==
        IF at.i > Len(events) THEN [rows |-> at.rows, ok |-> TRUE]
        ELSE IF Throws(at.rows, events[at.i]) THEN [rows |-> at.rows, ok |-> FALSE]
        ELSE from[[rows |-> Replay(at.rows, events[at.i]), i |-> at.i + 1]]
  IN from[[rows |-> r, i |-> 1]]

(* Events replayed one by one, each failure on its own (applyRemoteEvents).*)
ReplayEach(r, events) ==
  LET from[at \in [rows : Rows, gap : BOOLEAN, i : 1 .. Len(events) + 1]] ==
        IF at.i > Len(events) THEN [rows |-> at.rows, gap |-> at.gap]
        ELSE from[[rows |-> Replay(at.rows, events[at.i]),
                   gap |-> at.gap \/ (~Unknown(events[at.i]) /\ Gap(at.rows, events[at.i])),
                   i |-> at.i + 1]]
  IN from[[rows |-> r, gap |-> FALSE, i |-> 1]]

(* The n-th events of the sessions of which fewer are known.               *)
Due(seqs, n) ==
  {log[s][n] : s \in {x \in Sessions : n <= Len(log[x]) /\ n - 1 > seqs[x]}}

(* The answer of /sync/history: every session's events after the ones      *)
(* known, in the order of their sequence numbers.                          *)
HistoryAfter(seqs) ==
  LET upTo[n \in 0 .. MaxEvents] ==
        IF n = 0 THEN <<>> ELSE upTo[n - 1] \o SetToSeq(Due(seqs, n))
  IN upTo[MaxEvents]

(* knownSeqs is asked about the active sessions alone; the remote takes    *)
(* every other one to be unknown.                                          *)
KnownSeqs == [s \in Sessions |-> IF s \in Active THEN Latest(rows, s) ELSE -1]

-----------------------------------------------------------------------------
ConnectedLate == tick = "streaming"

(* The loop connects before it asks for the history.                       *)
Connected == tick \notin {"none", "connecting"}

(* The remote writes an event and tells those that are connected.          *)
Write(s, t) ==
  /\ Len(log[s]) < MaxEvents
  /\ LET e == [session |-> s, seq |-> Len(log[s]), type |-> t] IN
       /\ log' = [log EXCEPT ![s] = Append(@, e)]
       /\ stream' = IF Connected THEN Append(stream, e) ELSE stream
  /\ UNCHANGED <<rows, task, tick, known, answer, gapped, faults>>

Loop == <<tick, stream, known, answer>>

Signalled == task.aborted

(* start(): schedule(0) sets no timer once the signal was aborted.         *)
Start ==
  /\ ~task.running
  /\ task' = [task EXCEPT !.running = TRUE, !.timer = ~Signalled]
  /\ UNCHANGED <<log, rows, Loop, gapped, faults>>

StopKeepsTimer ==
  /\ ~(~task.running /\ Signalled)
  /\ task' = [task EXCEPT !.running = FALSE, !.aborted = TRUE]
  /\ UNCHANGED <<log, rows, Loop, gapped, faults>>

Stop ==
  /\ ~(~task.running /\ Signalled)
  /\ task' = [running |-> FALSE, timer |-> FALSE, aborted |-> TRUE]
  /\ UNCHANGED <<log, rows, Loop, gapped, faults>>

(* The timer fires: runTick.                                               *)
Fire ==
  /\ task.timer
  /\ task' = [task EXCEPT !.timer = FALSE]
  /\ tick' = IF task.running /\ ~Signalled THEN "connecting" ELSE tick
  /\ UNCHANGED <<log, rows, stream, known, answer, gapped, faults>>

EndQuietly ==
  /\ tick' = "none"
  /\ stream' = <<>>
  /\ known' = NothingKnown
  /\ answer' = <<>>
  /\ UNCHANGED task

(* The loop returns and runTickAsync schedules the next tick.              *)
EndTick ==
  /\ tick' = "none"
  /\ stream' = <<>>
  /\ known' = NothingKnown
  /\ answer' = <<>>
  /\ task' = [task EXCEPT !.timer = @ \/ (task.running /\ ~Signalled)]

(* The remote accepts the connection of connectSse.                        *)
Accept ==
  /\ tick = "connecting"
  /\ tick' = "accepted"
  /\ UNCHANGED <<log, rows, task, stream, known, answer, gapped, faults>>

(* connectSse is done; the history is asked for.                           *)
Ask ==
  /\ tick = "accepted"
  /\ tick' = "asking"
  /\ known' = KnownSeqs
  /\ UNCHANGED <<log, rows, task, stream, answer, gapped, faults>>

(* decodeHistory refuses a sequence number below 0, that is a request that *)
(* names an active session of which there is no event yet.                 *)
Refused == \E s \in Active : known[s] < 0

AnswerHistory ==
  /\ tick = "asking"
  /\ \/ /\ ~Refused
        /\ tick' = "answered"
        /\ answer' = HistoryAfter(known)
        /\ UNCHANGED <<task, stream, known>>
     \/ Refused /\ EndTick
  /\ UNCHANGED <<log, rows, gapped, faults>>

(* The history is applied; if an event of it throws, the catch ends the    *)
(* attempt and the stream is never read.                                   *)
ApplyHistory ==
  /\ tick = "answered"
  /\ LET out == ReplayAll(rows, answer) IN
       /\ rows' = out.rows
       /\ \/ /\ out.ok
             /\ tick' = "streaming"
             /\ known' = NothingKnown
             /\ answer' = <<>>
             /\ UNCHANGED <<task, stream>>
          \/ ~out.ok /\ EndTick
  /\ UNCHANGED <<log, gapped, faults>>

(* The stream ends, with all that was broadcast or, when the connection    *)
(* breaks or the signal cut it off, with less.                             *)
EndStream(k) ==
  /\ tick = "streaming"
  /\ LET out == ReplayEach(rows, SubSeq(stream, 1, k)) IN
       /\ rows' = out.rows
       /\ gapped' = (gapped \/ out.gap)
  /\ EndTick
  /\ UNCHANGED log

StreamEnds == EndStream(Len(stream)) /\ UNCHANGED faults

Fault ==
  \/ Signalled /\ UNCHANGED faults
  \/ faults < MaxFaults /\ faults' = faults + 1

StreamBreaks == \E k \in 0 .. Len(stream) - 1 : EndStream(k) /\ Fault

(* A request of the attempt fails, or is aborted.                          *)
RequestFails ==
  /\ tick \in {"connecting", "accepted", "asking", "answered"}
  /\ EndTick
  /\ Fault
  /\ UNCHANGED <<log, rows, gapped>>

(* POST /sync/replay with events first .. last of a session, as the remote *)
(* or another peer that holds them sends them, once or again.              *)
SyncReplay(s, first, last) ==
  /\ first <= last /\ last <= Len(log[s])
  /\ rows' = ReplayAll(rows, SubSeq(log[s], first, last)).rows
  /\ UNCHANGED <<log, task, Loop, gapped, faults>>

(* POST /sync/start, or syncOnce, with a remote in the same process.       *)
StartWorkspace ==
  /\ rows' = ReplayAll(rows, HistoryAfter(KnownSeqs)).rows
  /\ UNCHANGED <<log, task, Loop, gapped, faults>>

(* The process starts anew: rows and task were in its memory.              *)
Restart ==
  /\ faults < MaxFaults
  /\ faults' = faults + 1
  /\ rows' = [s \in Sessions |-> <<>>]
  /\ task' = [running |-> FALSE, timer |-> FALSE, aborted |-> FALSE]
  /\ tick' = "none"
  /\ stream' = <<>>
  /\ known' = NothingKnown
  /\ answer' = <<>>
  /\ UNCHANGED <<log, gapped>>

Init ==
  /\ log = [s \in Sessions |-> <<>>]
  /\ rows = [s \in Sessions |-> <<>>]
  /\ task = [running |-> FALSE, timer |-> FALSE, aborted |-> FALSE]
  /\ tick = "none"
  /\ stream = <<>>
  /\ known = NothingKnown
  /\ answer = <<>>
  /\ gapped = FALSE
  /\ faults = 0

(* An attempt up to the stream; nothing makes a stream end.                *)
Requests == Accept \/ Ask \/ AnswerHistory \/ ApplyHistory

Attempt == Requests \/ StreamEnds

Next ==
  \/ \E s \in Sessions, t \in Types : Write(s, t)
  \/ Start \/ Stop \/ Fire
  \/ Attempt \/ StreamBreaks \/ RequestFails
  \/ \E s \in Sessions, first, last \in 1 .. MaxEvents : SyncReplay(s, first, last)
  \/ StartWorkspace
  \/ Restart

Spec == Init /\ [][Next]_vars

(* Timers fire, and the remote answers requests in the end.  It need not   *)
(* ever close the event stream.                                            *)
FairSpec == Spec /\ WF_vars(Fire) /\ WF_vars(Requests)

-----------------------------------------------------------------------------
(* Every variable keeps its type.                                          *)
TypeOK ==
  /\ log \in Rows
  /\ rows \in Rows
  /\ task \in [running : BOOLEAN, timer : BOOLEAN, aborted : BOOLEAN]
  /\ tick \in Phase
  /\ stream \in Seq(Event)
  /\ known \in [Sessions -> Nat \cup {-1}]
  /\ answer \in Seq(Event)
  /\ gapped \in BOOLEAN
  /\ faults \in 0 .. MaxFaults

(* Whatever arrives twice, late or in part, from the stream, a history or  *)
(* a replay, the rows of a session are a beginning of the remote's log and *)
(* only grow, until a restart (SyncRouteRuntime.replay).                   *)
Replica == INSTANCE SyncLog WITH copy <- rows, Events <- Event

Replicates == Replica!Spec

AllKnown == \A s \in Sessions : \A i \in DOMAIN log[s] : log[s][i].type \in KnownTypes

(* Because the loop connects before it asks for the history, no event is   *)
(* missing between the history and the stream: unless the remote writes    *)
(* types that are not known, no stream event meets a gap (runRemoteLoop).  *)
StreamJoinsHistory == gapped => ~AllKnown

(* A task that runs and was not stopped has either one timer or one tick   *)
(* under way, so the loop neither dies nor doubles; after stop() no timer  *)
(* is left (WorkspaceSyncBackgroundTask).                                  *)
LoopIsAlone ==
  /\ task.running /\ ~Signalled => task.timer # (tick # "none")
  /\ Signalled \/ ~task.running => ~task.timer

(* The n-th event of s is in the log of the remote and the task runs.      *)
(* Excepted is an active session of which the rows hold nothing: the       *)
(* request for its history is refused, in every attempt, until a replay or *)
(* /sync/start brings its first event.                                     *)
Owed(s, n) ==
  /\ Len(log[s]) >= n /\ task.running
  /\ \A a \in Active : rows[a] # <<>>

(* It is in the rows; or the task was stopped or restarted, or the remote  *)
(* wrote a type that is not known, which makes every history throw.        *)
Arrived(s, n) ==
  \/ Len(rows[s]) >= n
  \/ Signalled \/ ~task.running
  \/ ~AllKnown

(* What the remote has written before it answers the history request of an *)
(* attempt, this one or after finitely many faults the next, reaches the   *)
(* rows, whether or not streams ever end.  What it writes later reaches    *)
(* them too unless the stream stays open for ever: the loop replays what a *)
(* stream brings when it ends, not as it comes (applyRemoteSseStream), and *)
(* while one stays open it neither replays nor asks for a history.         *)
CatchesUp ==
  \A s \in Sessions : \A n \in 1 .. MaxEvents :
    /\ Owed(s, n) /\ tick \in {"none", "connecting", "accepted", "asking"}
         ~> Arrived(s, n)
    /\ Owed(s, n) ~> Arrived(s, n) \/ [](tick = "streaming")

=============================================================================
