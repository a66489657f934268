----------------------------- MODULE ServerProofs -----------------------------
(***************************************************************************)
(* The session routes are correct for any requests, any parents they name  *)
(* and any of the three ways to run a turn: controllers and busy sessions  *)
(* always, the ownership of messages and the finality of a delete until    *)
(* the server is restarted.  All but the busy sessions rest on session ids *)
(* being those of the counter (ActiveIDs, StartedIDs), which the           *)
(* properties do not mention.  The listing is exact in the first process,  *)
(* as what is stored and not listed has no parent (ListInv); and pages add *)
(* up to it in the deterministic mode, as its order is that of the updates *)
(* (FakeInv).                                                              *)
(*                                                                         *)
(* The terminals are, for any terminals, sockets, chunks and buffer: one   *)
(* that ended stays at its end (Ages), and a client follows a terminal     *)
(* exactly while a socket that is open and has still the client's key is   *)
(* subscribed to it (Followed, Listening), although the lists of           *)
(* subscribers keep entries of sockets that are closed or recycled.        *)
(***************************************************************************)
EXTENDS ServerSessions, PtyService, RecursionProofs, FiniteSetTheorems, TLAPS

Active(q) == req[q].phase \in {"resolving", "running", "persisted"}

Typed ==
  /\ created \in Nat
  /\ req \in [Requests -> [phase : Phase, sid : Nat, parent : ParentIDs \cup {NoParent}]]

(* The handlers at work have ids the counter gave, each its own.           *)
ActiveIDs ==
  /\ \A q \in Requests : Active(q) => req[q].sid \in 1 .. created
  /\ \A q, r \in Requests : Active(q) /\ Active(r) /\ req[q].sid = req[r].sid => q = r

ControllerInv == Typed /\ ActiveIDs /\ AbortsAreOfRunningTurns

-----------------------------------------------------------------------------
(* A turn that starts gets its controller, under an id of its own.         *)
LEMMA StartKeepsControllers ==
  ASSUME ControllerInv, NEW q \in Requests, NEW s \in Nat, NEW p \in ParentIDs \cup {NoParent},
         created' \in Nat, created <= created', s \in 1 .. created',
         \A r \in Requests \ {q} : Active(r) => req[r].sid # s,
         ~InFlight(q), LiveStart(q, s, p)
  PROVE  ControllerInv'
<1>. USE DEF ControllerInv, LiveStart, Await
<1>1. req' = [req EXCEPT ![q] = [phase |-> "running", sid |-> s, parent |-> p]]
  OBVIOUS
<1>2. Typed'
  BY <1>1 DEF Typed, Phase
<1>3. ActiveIDs'
  BY <1>1, <1>2 DEF Typed, ActiveIDs, Active
<1>4. AbortsAreOfRunningTurns'
  BY <1>1 DEF Typed, AbortsAreOfRunningTurns, InFlight
<1>. QED  BY <1>2, <1>3, <1>4

(* A request that is answered or waits for its model, without a controller *)
LEMMA AwaitKeepsControllers ==
  ASSUME ControllerInv, NEW q \in Requests, NEW s \in Nat, NEW p \in ParentIDs \cup {NoParent},
         NEW phase \in {"resolving", "answered", "failed"},
         created' \in Nat, created <= created', s \in 1 .. created',
         \A r \in Requests \ {q} : Active(r) => req[r].sid # s,
         ~InFlight(q), aborts' = aborts,
         req' = [req EXCEPT ![q] = [phase |-> phase, sid |-> s, parent |-> p]]
  PROVE  ControllerInv'
<1>. USE DEF ControllerInv
<1>1. Typed'
  BY DEF Typed, Phase
<1>2. ActiveIDs'
  BY <1>1 DEF Typed, ActiveIDs, Active
<1>3. AbortsAreOfRunningTurns'
  BY DEF Typed, AbortsAreOfRunningTurns, InFlight
<1>. QED  BY <1>1, <1>2, <1>3

LEMMA FakeRunKeepsControllers ==
  ASSUME ControllerInv, NEW q \in Requests, NEW s \in Nat, NEW p \in ParentIDs \cup {NoParent},
         NEW count, created' \in Nat, created <= created', s \in 1 .. created',
         \A r \in Requests \ {q} : Active(r) => req[r].sid # s,
         ~InFlight(q), FakeRun(q, s, p, count)
  PROVE  ControllerInv'
<1>1. aborts' = aborts
  BY DEF FakeRun
<1>2. CASE ParentStored(s, p)
  BY <1>1, <1>2, AwaitKeepsControllers DEF FakeRun
<1>3. CASE ~ParentStored(s, p)
  BY <1>1, <1>3, AwaitKeepsControllers DEF FakeRun
<1>. QED  BY <1>2, <1>3

(* A turn that is over gives its controller up.                            *)
LEMMA SettleKeepsControllers ==
  ASSUME ControllerInv, NEW q \in Requests, InFlight(q), NEW phase \in {"answered", "failed"},
         Settle(q, req[q].sid, phase), created' = created
  PROVE  ControllerInv'
<1>. USE DEF ControllerInv, Settle
<1>1. Typed'
  BY DEF Typed, Phase
<1>2. ActiveIDs'
  BY DEF Typed, ActiveIDs, Active
<1>3. AbortsAreOfRunningTurns'
  <2>1. \A r \in Requests : InFlight(r) => Active(r)
    BY DEF InFlight, Active
  <2>2. \A r \in Requests \ {q} : InFlight(r) => req[r].sid # req[q].sid
    BY <2>1 DEF ActiveIDs
  <2>3. \A r \in Requests : InFlight(r)' <=> InFlight(r) /\ r # q
    BY DEF Typed, InFlight
  <2>4. \A r \in Requests : req'[r].sid = req[r].sid
    BY DEF Typed
  <2>. QED  BY <2>2, <2>3, <2>4 DEF AbortsAreOfRunningTurns
<1>. QED  BY <1>1, <1>2, <1>3

LEMMA NextKeepsControllers == ControllerInv /\ [Next]_vars => ControllerInv'
<1>. SUFFICES ASSUME ControllerInv, [Next]_vars PROVE ControllerInv'
  OBVIOUS
<1>1. ASSUME NEW q \in Requests, NEW p \in ParentIDs \cup {NoParent}, Post(q, p)
      PROVE  ControllerInv'
  <2>1. /\ created' = created + 1 /\ created' \in Nat /\ created <= created'
        /\ created' \in 1 .. created'
        /\ \A r \in Requests \ {q} : Active(r) => req[r].sid # created'
        /\ ~InFlight(q)
    BY <1>1 DEF Post, NewCount, ControllerInv, Typed, ActiveIDs, InFlight
  <2>2. CASE FakeRun(q, created', p, created')
    BY <2>1, <2>2, FakeRunKeepsControllers
  <2>3. CASE LiveStart(q, created', p)
    BY <2>1, <2>3, StartKeepsControllers
  <2>4. CASE Await(q, created', p, "resolving") /\ UNCHANGED aborts
    BY <2>1, <2>4, AwaitKeepsControllers DEF Await
  <2>. QED  BY <1>1, <2>2, <2>3, <2>4 DEF Post, NewID
<1>2. ASSUME NEW q \in Requests, Resolve(q)
      PROVE  ControllerInv'
  <2>. DEFINE s == req[q].sid
              p == req[q].parent
  <2>1. /\ created' = created /\ created' \in Nat /\ created <= created'
        /\ s \in Nat /\ s \in 1 .. created' /\ p \in ParentIDs \cup {NoParent}
        /\ \A r \in Requests \ {q} : Active(r) => req[r].sid # s
        /\ ~InFlight(q)
    BY <1>2 DEF Resolve, ControllerInv, Typed, ActiveIDs, Active, InFlight
  <2>2. CASE FakeRun(q, s, p, created)
    BY <2>1, <2>2, FakeRunKeepsControllers
  <2>3. CASE LiveStart(q, s, p)
    BY <2>1, <2>3, StartKeepsControllers
  <2>4. CASE Await(q, s, p, "failed") /\ UNCHANGED aborts
    BY <2>1, <2>4, AwaitKeepsControllers DEF Await
  <2>. QED  BY <1>2, <2>2, <2>3, <2>4 DEF Resolve
<1>3. ASSUME NEW q \in Requests, TurnPersists(q)
      PROVE  ControllerInv'
  <2>1. /\ Typed' /\ ActiveIDs'
    BY <1>3 DEF TurnPersists, ControllerInv, Typed, ActiveIDs, Active, Phase
  <2>2. \A r \in Requests : (InFlight(r)' <=> InFlight(r)) /\ req'[r].sid = req[r].sid
    BY <1>3 DEF TurnPersists, ControllerInv, Typed, InFlight
  <2>3. AbortsAreOfRunningTurns'
    BY <1>3, <2>2 DEF TurnPersists, ControllerInv, AbortsAreOfRunningTurns
  <2>. QED  BY <2>1, <2>3 DEF ControllerInv
<1>4. ASSUME NEW q \in Requests, TurnThrows(q)
      PROVE  ControllerInv'
  BY <1>4, SettleKeepsControllers DEF TurnThrows, InFlight
<1>5. ASSUME NEW q \in Requests, Answer(q)
      PROVE  ControllerInv'
  BY <1>5, SettleKeepsControllers DEF Answer, InFlight
<1>6. ASSUME Restart
      PROVE  ControllerInv'
  <2>1. Typed'
    BY <1>6 DEF Restart, ControllerInv, Typed, Phase
  <2>2. \A q \in Requests : ~Active(q)' /\ ~InFlight(q)'
    BY <1>6 DEF Restart, ControllerInv, Typed, Active, InFlight
  <2>. QED  BY <1>6, <2>1, <2>2 DEF Restart, ControllerInv, ActiveIDs, AbortsAreOfRunningTurns
<1>7. ASSUME UNCHANGED <<created, aborts, req>>
      PROVE  ControllerInv'
  BY <1>7 DEF ControllerInv, Typed, ActiveIDs, Active, AbortsAreOfRunningTurns, InFlight
<1>. QED  BY <1>1, <1>2, <1>3, <1>4, <1>5, <1>6, <1>7
          DEF Next, AbortSession, Delete, UpdateSession, vars

(* liveAborts holds the controllers of the turns in flight and no other,   *)
(* over restarts too: every turn can be aborted, and none leaks one        *)
(* (createSession, createLiveAiSdkSession, createConfiguredLiveAiSdk-      *)
(* Session).                                                               *)
THEOREM ControllersFollowTurns == Spec => []AbortsAreOfRunningTurns
<1>1. Init => ControllerInv
  <2>. SUFFICES ASSUME Init PROVE ControllerInv
    OBVIOUS
  <2>1. \A q \in Requests : ~Active(q) /\ ~InFlight(q)
    BY DEF Init, Active, InFlight
  <2>2. Typed
    BY DEF Init, Typed, Phase
  <2>. QED  BY <2>1, <2>2 DEF Init, ControllerInv, ActiveIDs, AbortsAreOfRunningTurns
<1>2. ControllerInv => AbortsAreOfRunningTurns
  BY DEF ControllerInv
<1>. QED  BY <1>1, <1>2, NextKeepsControllers, PTL DEF Spec

-----------------------------------------------------------------------------
(* Within one process: an id is given once, a row is of the request that   *)
(* has its id, and a deleted session has no turn that could still store it *)
StartedIDs ==
  /\ \A q \in Requests : req[q].phase # "none" => req[q].sid \in 1 .. created
  /\ \A q, r \in Requests :
       req[q].phase # "none" /\ req[r].phase # "none" /\ req[q].sid = req[r].sid => q = r

Past(q) == req[q].phase \in {"persisted", "answered", "failed"}

RowsHaveOwners ==
  \A s \in Stored :
    /\ store[s] \in Row
    /\ Past(store[s].owner)
    /\ req[store[s].owner].sid = s

DeletedArePast ==
  \A s \in deleted : s \notin Stored /\ \E q \in Requests : Past(q) /\ req[q].sid = s

ProcessInv == boots = 1 /\ Typed /\ StartedIDs /\ RowsHaveOwners /\ DeletedArePast

RowOf(q) == [parent : ParentIDs \cup {NoParent}, updated : Nat, archived : BOOLEAN, owner : {q}]

(* The row that persist writes for a request that no other row is of.      *)
LEMMA PersistedRow ==
  ASSUME ProcessInv, NEW q \in Requests, NEW s \in Nat
  PROVE  Persisted(q, s) \in RowOf(q)
<1>1. CASE s \in Stored
  BY <1>1 DEF ProcessInv, RowsHaveOwners, Persisted, Row, RowOf
<1>2. CASE s \notin Stored
  BY <1>2 DEF Persisted, RowOf
<1>. QED  BY <1>1, <1>2

(* Request q, whose id is s and no other's, changes its phase.             *)
Moves(q, s, p, phase) ==
  /\ s \in Nat
  /\ p \in ParentIDs \cup {NoParent}
  /\ phase \in Phase \ {"none"}
  /\ req' = [req EXCEPT ![q] = [phase |-> phase, sid |-> s, parent |-> p]]
  /\ req[q].phase # "none" => req[q].sid = s
  /\ created' \in Nat /\ created <= created' /\ s \in 1 .. created'
  /\ \A r \in Requests \ {q} : req[r].phase # "none" => req[r].sid # s
  /\ Past(q) => phase \in {"persisted", "answered", "failed"}
  /\ boots' = boots
  /\ deleted' = deleted

(* It writes the row of its session.                                       *)
LEMMA WriteKeepsProcess ==
  ASSUME ProcessInv, NEW q \in Requests, NEW s, NEW p, NEW phase, NEW row,
         Moves(q, s, p, phase), store' = Put(s, row), row \in RowOf(q),
         phase \in {"persisted", "answered", "failed"}, s \notin deleted
  PROVE  ProcessInv'
<1>. USE DEF Moves, ProcessInv
<1>1. Typed'
  BY DEF Typed, Phase
<1>2. StartedIDs'
  BY DEF Typed, StartedIDs
<1>3. /\ Past(q)' /\ req'[q].sid = s
      /\ \A r \in Requests : Past(r) => Past(r)' /\ req'[r].sid = req[r].sid
  BY DEF Typed, Past
<1>4. RowsHaveOwners'
  BY <1>3 DEF RowsHaveOwners, Row, RowOf, Put, Stored
<1>5. DeletedArePast'
  BY <1>3 DEF DeletedArePast, Put, Stored
<1>. QED  BY <1>1, <1>2, <1>4, <1>5

(* It writes no row.                                                       *)
LEMMA NoWriteKeepsProcess ==
  ASSUME ProcessInv, NEW q \in Requests, NEW s, NEW p, NEW phase,
         Moves(q, s, p, phase), store' = store
  PROVE  ProcessInv'
<1>. USE DEF Moves, ProcessInv
<1>1. Typed'
  BY DEF Typed, Phase
<1>2. StartedIDs'
  BY DEF Typed, StartedIDs
<1>3. \A r \in Requests : Past(r) => Past(r)' /\ req'[r].sid = req[r].sid
  BY DEF Typed, Past
<1>4. RowsHaveOwners'
  BY <1>3 DEF RowsHaveOwners, Stored, Row
<1>5. DeletedArePast'
  BY <1>3 DEF DeletedArePast, Stored
<1>. QED  BY <1>1, <1>2, <1>4, <1>5

(* A phase that changes alone.                                             *)
LEMMA PhaseAlone ==
  ASSUME ProcessInv, NEW q \in Requests, NEW phase \in Phase \ {"none"},
         req[q].phase # "none", req' = [req EXCEPT ![q].phase = phase],
         Past(q) => phase \in {"persisted", "answered", "failed"},
         UNCHANGED <<created, boots, deleted>>
  PROVE  Moves(q, req[q].sid, req[q].parent, phase)
<1>1. req[q] = [phase |-> req[q].phase, sid |-> req[q].sid, parent |-> req[q].parent]
  BY DEF ProcessInv, Typed
<1>2. [req[q] EXCEPT !.phase = phase] = [phase |-> phase, sid |-> req[q].sid, parent |-> req[q].parent]
  BY <1>1
<1>3. req' = [req EXCEPT ![q] = [phase |-> phase, sid |-> req[q].sid, parent |-> req[q].parent]]
  BY <1>2
<1>4. /\ req[q].sid \in Nat
      /\ req[q].parent \in ParentIDs \cup {NoParent}
  BY DEF ProcessInv, Typed
<1>5. /\ created' \in Nat /\ created <= created' /\ req[q].sid \in 1 .. created'
      /\ \A r \in Requests \ {q} : req[r].phase # "none" => req[r].sid # req[q].sid
  BY DEF ProcessInv, Typed, StartedIDs
<1>. QED  BY <1>3, <1>4, <1>5 DEF Moves

(* No row or turn is left of a session that was deleted.                   *)
LEMMA WorkingIsNotDeleted ==
  ASSUME ProcessInv, NEW q \in Requests, req[q].phase \in {"resolving", "running"}
  PROVE  req[q].sid \notin deleted
BY DEF ProcessInv, DeletedArePast, StartedIDs, Past

LEMMA FakeRunKeepsProcess ==
  ASSUME ProcessInv, NEW q \in Requests, NEW s, NEW p, NEW count \in Nat,
         Moves(q, s, p, IF ParentStored(s, p) THEN "answered" ELSE "failed"),
         FakeRun(q, s, p, count), s \notin deleted
  PROVE  ProcessInv'
<1>1. /\ Persisted(q, s) \in RowOf(q)
      /\ Requested(Persisted(q, s), p, count) \in RowOf(q)
  <2>1. s \in Nat /\ p \in ParentIDs \cup {NoParent}
    BY DEF Moves
  <2>2. Persisted(q, s) \in RowOf(q)
    BY <2>1, PersistedRow
  <2>. QED  BY <2>1, <2>2 DEF Requested, RowOf
<1>2. CASE ParentStored(s, p)
  <2>1. Moves(q, s, p, "answered") /\ store' = Put(s, Requested(Persisted(q, s), p, count))
    BY <1>2 DEF FakeRun
  <2>. QED  BY <1>1, <2>1, WriteKeepsProcess
<1>3. CASE ~ParentStored(s, p)
  <2>1. Moves(q, s, p, "failed") /\ store' = Put(s, Persisted(q, s))
    BY <1>3 DEF FakeRun
  <2>. QED  BY <1>1, <2>1, WriteKeepsProcess
<1>. QED  BY <1>2, <1>3

(* A POST moves its request to a new id.                                   *)
LEMMA PostMoves ==
  ASSUME ProcessInv, NEW q \in Requests, NEW p \in ParentIDs \cup {NoParent}, Post(q, p),
         NEW phase \in Phase \ {"none"},
         req' = [req EXCEPT ![q] = [phase |-> phase, sid |-> created', parent |-> p]]
  PROVE  Moves(q, created', p, phase)
BY DEF Post, NewCount, Moves, ProcessInv, Typed, StartedIDs, Past

LEMMA PostKeepsProcess ==
  ASSUME ProcessInv, NEW q \in Requests, NEW p \in ParentIDs \cup {NoParent}, Post(q, p)
  PROVE  ProcessInv'
<1>1. ASSUME NEW phase \in Phase \ {"none"},
             req' = [req EXCEPT ![q] = [phase |-> phase, sid |-> created', parent |-> p]]
      PROVE  Moves(q, created', p, phase)
  BY <1>1, PostMoves
<1>2. created' \in Nat /\ created' \notin deleted
  BY DEF Post, NewCount, ProcessInv, Typed, DeletedArePast, StartedIDs, Past
<1>3. CASE FakeRun(q, created', p, created')
  <2>1. Moves(q, created', p, IF ParentStored(created', p) THEN "answered" ELSE "failed")
    BY <1>1, <1>3 DEF FakeRun, Phase
  <2>. QED  BY <1>2, <1>3, <2>1, FakeRunKeepsProcess
<1>4. CASE LiveStart(q, created', p)
  <2>1. Moves(q, created', p, "running") /\ store' = store
    BY <1>1, <1>4 DEF LiveStart, Await, Phase
  <2>. QED  BY <2>1, NoWriteKeepsProcess
<1>5. CASE Await(q, created', p, "resolving")
  <2>1. Moves(q, created', p, "resolving") /\ store' = store
    BY <1>1, <1>5 DEF Await, Phase
  <2>. QED  BY <2>1, NoWriteKeepsProcess
<1>. QED  BY <1>3, <1>4, <1>5 DEF Post, NewID

(* A request whose model is resolved keeps its id.                         *)
LEMMA ResolveMoves ==
  ASSUME ProcessInv, NEW q \in Requests, Resolve(q), NEW phase \in Phase \ {"none"},
         req' = [req EXCEPT ![q] = [phase |-> phase, sid |-> req[q].sid, parent |-> req[q].parent]]
  PROVE  Moves(q, req[q].sid, req[q].parent, phase)
BY DEF Resolve, Moves, ProcessInv, Typed, StartedIDs, Past

LEMMA ResolveKeepsProcess ==
  ASSUME ProcessInv, NEW q \in Requests, Resolve(q)
  PROVE  ProcessInv'
<1>. DEFINE s == req[q].sid
            p == req[q].parent
<1>1. ASSUME NEW phase \in Phase \ {"none"},
             req' = [req EXCEPT ![q] = [phase |-> phase, sid |-> s, parent |-> p]]
      PROVE  Moves(q, s, p, phase)
  BY <1>1, ResolveMoves
<1>2. s \notin deleted
  BY WorkingIsNotDeleted DEF Resolve
<1>3. CASE FakeRun(q, s, p, created)
  <2>1. Moves(q, s, p, IF ParentStored(s, p) THEN "answered" ELSE "failed")
    BY <1>1, <1>3 DEF FakeRun, Phase
  <2>2. created \in Nat
    BY DEF ProcessInv, Typed
  <2>. QED  BY <1>2, <1>3, <2>1, <2>2, FakeRunKeepsProcess
<1>4. CASE LiveStart(q, s, p)
  <2>1. Moves(q, s, p, "running") /\ store' = store
    BY <1>1, <1>4 DEF LiveStart, Await, Phase
  <2>. QED  BY <2>1, NoWriteKeepsProcess
<1>5. CASE Await(q, s, p, "failed")
  <2>1. Moves(q, s, p, "failed") /\ store' = store
    BY <1>1, <1>5 DEF Await, Phase
  <2>. QED  BY <2>1, NoWriteKeepsProcess
<1>. QED  BY <1>3, <1>4, <1>5 DEF Resolve

LEMMA TurnKeepsProcess ==
  ASSUME ProcessInv, NEW q \in Requests, TurnPersists(q) \/ TurnThrows(q)
  PROVE  ProcessInv'
<1>1. CASE TurnPersists(q)
  <2>1. Moves(q, req[q].sid, req[q].parent, "persisted")
    BY <1>1, PhaseAlone DEF TurnPersists, Phase
  <2>2. req[q].sid \notin deleted
    BY <1>1, WorkingIsNotDeleted DEF TurnPersists
  <2>3. Persisted(q, req[q].sid) \in RowOf(q)
    BY PersistedRow DEF ProcessInv, Typed
  <2>4. store' = Put(req[q].sid, Persisted(q, req[q].sid))
    BY <1>1 DEF TurnPersists
  <2>. QED  BY <2>1, <2>2, <2>3, <2>4, WriteKeepsProcess
<1>2. CASE TurnThrows(q)
  <2>1. Moves(q, req[q].sid, req[q].parent, "failed")
    BY <1>2, PhaseAlone DEF TurnThrows, Settle, Phase
  <2>2. store' = store
    BY <1>2 DEF TurnThrows
  <2>. QED  BY <2>1, <2>2, NoWriteKeepsProcess
<1>. QED  BY <1>1, <1>2

LEMMA AnswerKeepsProcess ==
  ASSUME ProcessInv, NEW q \in Requests, Answer(q)
  PROVE  ProcessInv'
<1>. DEFINE s == req[q].sid
            p == req[q].parent
<1>1. req[q].phase = "persisted" /\ UNCHANGED <<created, boots, deleted>>
  BY DEF Answer
<1>2. CASE s \in Stored /\ ParentStored(s, p)
  <2>1. req' = [req EXCEPT ![q].phase = "answered"]
    BY <1>2 DEF Answer, Settle
  <2>2. Moves(q, s, p, "answered")
    BY <1>1, <2>1, PhaseAlone DEF Phase
  <2>3. store[s].owner = q
    BY <1>1, <1>2 DEF ProcessInv, RowsHaveOwners, StartedIDs, Past, Row
  <2>4. store[s] \in RowOf(q)
    BY <1>2, <2>3 DEF ProcessInv, RowsHaveOwners, Row, RowOf
  <2>5. Requested(store[s], p, created) \in RowOf(q)
    <3>1. created \in Nat /\ p \in ParentIDs \cup {NoParent}
      BY DEF ProcessInv, Typed
    <3>. QED  BY <2>4, <3>1 DEF Requested, RowOf
  <2>6. store' = Put(s, Requested(store[s], p, created)) /\ s \notin deleted
    BY <1>2 DEF Answer, ProcessInv, DeletedArePast
  <2>. QED  BY <2>2, <2>5, <2>6, WriteKeepsProcess
<1>3. CASE ~(s \in Stored /\ ParentStored(s, p))
  <2>1. req' = [req EXCEPT ![q].phase = "failed"] /\ store' = store
    BY <1>3 DEF Answer, Settle
  <2>2. Moves(q, s, p, "failed")
    BY <1>1, <2>1, PhaseAlone DEF Phase
  <2>. QED  BY <2>1, <2>2, NoWriteKeepsProcess
<1>. QED  BY <1>2, <1>3

(* Rows that go, or change in what clients may patch, keep their owners.   *)
LosesRows(gone) ==
  /\ UNCHANGED <<created, req, boots>>
  /\ deleted' = deleted \cup gone
  /\ gone \subseteq Stored
  /\ gone \cap Stored' = {}
  /\ Stored' \subseteq Stored
  /\ \A x \in Stored' : store'[x] \in Row /\ store'[x].owner = store[x].owner

LEMMA RowsKeepOwners ==
  ASSUME ProcessInv, NEW gone, LosesRows(gone)
  PROVE  ProcessInv'
<1>. USE DEF LosesRows
<1>1. Typed' /\ StartedIDs'
  BY DEF ProcessInv, Typed, StartedIDs
<1>2. RowsHaveOwners'
  BY DEF ProcessInv, RowsHaveOwners, Past
<1>3. DeletedArePast'
  BY DEF ProcessInv, DeletedArePast, RowsHaveOwners, Past, Row
<1>. QED  BY <1>1, <1>2, <1>3 DEF ProcessInv

LEMMA DeleteKeepsProcess ==
  ASSUME ProcessInv, NEW s \in Stored, Delete(s)
  PROVE  ProcessInv'
<1>1. Subtree(s, Stored) \subseteq Stored
  BY DEF Subtree
<1>2. /\ Stored' = Stored \ Subtree(s, Stored)
      /\ \A x \in Stored' : store'[x] = store[x]
  BY DEF Delete, Stored
<1>3. LosesRows(Subtree(s, Stored))
  BY <1>1, <1>2 DEF LosesRows, Delete, ProcessInv, RowsHaveOwners
<1>. QED  BY <1>3, RowsKeepOwners

LEMMA UpdateKeepsProcess ==
  ASSUME ProcessInv, ServerAssumption, NEW s \in Stored, NEW b \in Patches, UpdateSession(s, b)
  PROVE  ProcessInv'
<1>1. \A x \in Stored : store[x] \in Row
  BY DEF ProcessInv, RowsHaveOwners
<1>2. b.title \in BOOLEAN /\ b.archived \in BOOLEAN /\ Touched(store[s], b) \in Nat
  BY <1>1 DEF ServerAssumption, Patch, Touched, Row
<1>3. [store[s] EXCEPT !.updated = Touched(store[s], b),
                       !.archived = store[s].archived \/ b.archived] \in Row
  BY <1>1, <1>2 DEF Row
<1>4. /\ Stored' = Stored
      /\ \A x \in Stored \ {s} : store'[x] = store[x]
      /\ store'[s] = [store[s] EXCEPT !.updated = Touched(store[s], b),
                                      !.archived = store[s].archived \/ b.archived]
  BY DEF UpdateSession, Stored
<1>5. store'[s] \in Row /\ store'[s].owner = store[s].owner
  BY <1>1, <1>3, <1>4 DEF Row
<1>6. LosesRows({})
  BY <1>1, <1>4, <1>5 DEF LosesRows, UpdateSession
<1>. QED  BY <1>6, RowsKeepOwners

LEMMA NextKeepsProcess ==
  ProcessInv /\ [Next]_vars /\ boots' = 1 => ProcessInv'
<1>. SUFFICES ASSUME ProcessInv, [Next]_vars, boots' = 1 PROVE ProcessInv'
  OBVIOUS
<1>1. ASSUME NEW q \in Requests, NEW p \in ParentIDs \cup {NoParent}, Post(q, p)
      PROVE  ProcessInv'
  BY <1>1, PostKeepsProcess
<1>2. ASSUME NEW q \in Requests, Resolve(q)
      PROVE  ProcessInv'
  BY <1>2, ResolveKeepsProcess
<1>3. ASSUME NEW q \in Requests, TurnPersists(q) \/ TurnThrows(q)
      PROVE  ProcessInv'
  BY <1>3, TurnKeepsProcess
<1>4. ASSUME NEW q \in Requests, Answer(q)
      PROVE  ProcessInv'
  BY <1>4, AnswerKeepsProcess
<1>5. ASSUME NEW s \in Stored, Delete(s)
      PROVE  ProcessInv'
  BY <1>5, DeleteKeepsProcess
<1>6. ASSUME NEW s \in Stored, NEW b \in Patches, UpdateSession(s, b)
      PROVE  ProcessInv'
  BY <1>6, UpdateKeepsProcess, ServerAssumption
<1>7. ASSUME UNCHANGED <<created, store, req, boots, deleted>>
      PROVE  ProcessInv'
  BY <1>7 DEF ProcessInv, Typed, StartedIDs, RowsHaveOwners, DeletedArePast, Past, Stored
<1>8. ~Restart
  BY DEF Restart, ProcessInv
<1>. QED  BY <1>1, <1>2, <1>3, <1>4, <1>5, <1>6, <1>7, <1>8
          DEF Next, AbortSession, vars

(* A restart ends the first process for good.                              *)
FirstProcessInv == boots \in Nat \ {0} /\ (boots = 1 => ProcessInv)

LEMMA FirstProcess == Spec => []FirstProcessInv
<1>1. Init => FirstProcessInv
  <2>. SUFFICES ASSUME Init PROVE ProcessInv
    BY DEF Init, FirstProcessInv
  <2>1. Typed
    BY DEF Init, Typed, Phase
  <2>2. StartedIDs
    BY DEF Init, StartedIDs
  <2>3. RowsHaveOwners /\ DeletedArePast
    BY DEF Init, RowsHaveOwners, DeletedArePast, Stored
  <2>. QED  BY <2>1, <2>2, <2>3 DEF Init, ProcessInv
<1>2. FirstProcessInv /\ [Next]_vars => FirstProcessInv'
  <2>. SUFFICES ASSUME FirstProcessInv, [Next]_vars PROVE FirstProcessInv'
    OBVIOUS
  <2>1. boots' = boots \/ boots' = boots + 1
    BY DEF Next, vars, Post, Resolve, TurnPersists, TurnThrows, Answer, AbortSession,
           Delete, UpdateSession, Restart
  <2>2. boots' = 1 => boots = 1
    BY <2>1 DEF FirstProcessInv
  <2>3. boots' = 1 => ProcessInv'
    BY <2>2, NextKeepsProcess DEF FirstProcessInv
  <2>. QED  BY <2>1, <2>3 DEF FirstProcessInv
<1>. QED  BY <1>1, <1>2, PTL DEF Spec

(* In the first process on a database, the messages of an answered session *)
(* are those of the turn its own request asked for (createSession,         *)
(* persist).  Later it is false: see the run server_restart.               *)
THEOREM MessagesAreOwnInOneProcess == Spec => []OwnMessagesInOneProcess
<1>1. ProcessInv => OwnMessages
  <2>. SUFFICES ASSUME ProcessInv, NEW q \in Requests, req[q].phase = "answered", req[q].sid \in Stored
                PROVE  store[req[q].sid].owner = q
    BY DEF OwnMessages
  <2>. DEFINE o == store[req[q].sid].owner
  <2>1. o \in Requests /\ Past(o) /\ req[o].sid = req[q].sid
    BY DEF ProcessInv, RowsHaveOwners, Row
  <2>. QED  BY <2>1 DEF ProcessInv, StartedIDs, Past
<1>2. FirstProcessInv => OwnMessagesInOneProcess
  BY <1>1 DEF FirstProcessInv, OwnMessagesInOneProcess
<1>. QED  BY <1>2, FirstProcess, PTL

(* In the first process on a database, no write of a handler that awaited  *)
(* its turn brings a deleted session back (deleteSession, createSession).  *)
THEOREM DeletesAreFinalInOneProcess == Spec => []DeletedStaysDeleted
<1>1. FirstProcessInv => DeletedStaysDeleted
  BY DEF FirstProcessInv, ProcessInv, DeletedArePast, DeletedStaysDeleted
<1>. QED  BY <1>1, FirstProcess, PTL

-----------------------------------------------------------------------------
(* The listing of the first process.  What is stored and not listed, as    *)
(* its turn is under way or failed, has no parent yet: hence the walk by   *)
(* the listing and the cascade by the rows find the same descendants.      *)
Answered == {s \in Stored : \E q \in Requests : req[q].sid = s /\ req[q].phase = "answered"}

ListInv ==
  /\ order \in Seq(Nat)
  /\ \A i, j \in DOMAIN order : order[i] = order[j] => i = j
  /\ Listed = Answered
  /\ \A s \in Stored \ Listed : store[s].parent = NoParent

(* A session is listed once, however often it is pushed.                   *)
LEMMA PushLists ==
  ASSUME ListInv, NEW s \in Nat, order' = Push(s)
  PROVE  /\ order' \in Seq(Nat)
         /\ (\A i, j \in DOMAIN order : order[i] = order[j] => i = j)'
         /\ Listed' = Listed \cup {s}
<1>1. CASE s \in Listed
  BY <1>1 DEF ListInv, Push, Listed
<1>2. CASE s \notin Listed
  <2>1. order' = Append(order, s) /\ order \in Seq(Nat)
    BY <1>2 DEF Push, ListInv
  <2>2. /\ order' \in Seq(Nat) /\ Len(order) \in Nat
        /\ DOMAIN order = 1 .. Len(order) /\ DOMAIN order' = 1 .. Len(order) + 1
        /\ \A i \in 1 .. Len(order) : order'[i] = order[i]
        /\ order'[Len(order) + 1] = s
    BY <2>1, AppendProperties
  <2>3. Listed' = Listed \cup {s}
    BY <2>2 DEF Listed
  <2>4. \A i, j \in DOMAIN order' : order'[i] = order'[j] => i = j
    BY <1>2, <2>2 DEF Listed, ListInv
  <2>. QED  BY <2>2, <2>3, <2>4
<1>. QED  BY <1>1, <1>2

(* A request goes on without an answer.                                    *)
LEMMA NoAnswerKeepsListing ==
  ASSUME ProcessInv, ListInv, NEW q \in Requests, NEW s, NEW p, NEW phase, NEW row,
         Moves(q, s, p, phase), req[q].phase # "answered", phase # "answered", order' = order,
         \/ store' = store
         \/ s \notin Stored /\ store' = Put(s, row) /\ row.parent = NoParent
  PROVE  ListInv'
<1>1. /\ \A r \in Requests \ {q} : req'[r] = req[r]
      /\ req'[q].phase = phase
      /\ Listed' = Listed
  BY DEF Moves, ProcessInv, Typed, Listed
<1>2. /\ Stored' = Stored \/ (s \notin Stored /\ Stored' = Stored \cup {s} /\ store'[s].parent = NoParent)
      /\ \A x \in Stored : store'[x] = store[x]
  BY DEF Stored, Put
<1>3. s \notin Stored => \A r \in Requests : req'[r].phase = "answered" => req'[r].sid # s
  BY <1>1 DEF Moves
<1>4. Answered' = Answered
  <2>1. \A x \in Stored : (\E r \in Requests : req'[r].sid = x /\ req'[r].phase = "answered")
                         <=> (\E r \in Requests : req[r].sid = x /\ req[r].phase = "answered")
    BY <1>1
  <2>. QED  BY <1>2, <1>3, <2>1 DEF Answered
<1>5. \A x \in Stored' \ Listed' : store'[x].parent = NoParent
  BY <1>1, <1>2 DEF ListInv
<1>. QED  BY <1>1, <1>4, <1>5 DEF ListInv

(* It is answered, and its session listed.                                 *)
LEMMA AnswerKeepsListing ==
  ASSUME ProcessInv, ListInv, NEW q \in Requests, NEW s, NEW p, NEW row,
         Moves(q, s, p, "answered"), order' = Push(s), store' = Put(s, row)
  PROVE  ListInv'
<1>1. /\ \A r \in Requests \ {q} : req'[r] = req[r]
      /\ req'[q].phase = "answered" /\ req'[q].sid = s
      /\ req[q].phase = "answered" => req[q].sid = s
  BY DEF Moves, ProcessInv, Typed
<1>2. /\ order' \in Seq(Nat)
      /\ \A i, j \in DOMAIN order' : order'[i] = order'[j] => i = j
      /\ Listed' = Listed \cup {s}
  BY PushLists DEF Moves
<1>3. /\ Stored' = Stored \cup {s}
      /\ \A x \in Stored \ {s} : store'[x] = store[x]
  BY DEF Stored, Put
<1>4. Answered' = Answered \cup {s}
  <2>1. \A x \in Stored \ {s} :
          (\E r \in Requests : req'[r].sid = x /\ req'[r].phase = "answered")
             <=> (\E r \in Requests : req[r].sid = x /\ req[r].phase = "answered")
    BY <1>1
  <2>. QED  BY <1>1, <1>3, <2>1 DEF Answered
<1>5. \A x \in Stored' \ Listed' : store'[x].parent = NoParent
  BY <1>2, <1>3 DEF ListInv
<1>. QED  BY <1>2, <1>4, <1>5 DEF ListInv

(* No row is stored of a session whose turn is still to be persisted.      *)
LEMMA WorkingIsNotStored ==
  ASSUME ProcessInv, NEW q \in Requests, req[q].phase \in {"resolving", "running"}
  PROVE  req[q].sid \notin Stored
<1>. SUFFICES ASSUME req[q].sid \in Stored PROVE FALSE
  OBVIOUS
<1>. DEFINE o == store[req[q].sid].owner
<1>1. o \in Requests /\ Past(o) /\ req[o].sid = req[q].sid
  BY DEF ProcessInv, RowsHaveOwners, Row
<1>. QED  BY <1>1 DEF ProcessInv, StartedIDs, Past

LEMMA FakeRunKeepsListing ==
  ASSUME ProcessInv, ListInv, NEW q \in Requests, NEW s, NEW p, NEW count,
         Moves(q, s, p, IF ParentStored(s, p) THEN "answered" ELSE "failed"),
         FakeRun(q, s, p, count), s \notin Stored, req[q].phase # "answered"
  PROVE  ListInv'
<1>1. CASE ParentStored(s, p)
  <2>1. /\ Moves(q, s, p, "answered") /\ order' = Push(s)
        /\ store' = Put(s, Requested(Persisted(q, s), p, count))
    BY <1>1 DEF FakeRun
  <2>. QED  BY <2>1, AnswerKeepsListing
<1>2. CASE ~ParentStored(s, p)
  <2>1. /\ Moves(q, s, p, "failed") /\ order' = order
        /\ store' = Put(s, Persisted(q, s)) /\ Persisted(q, s).parent = NoParent
    BY <1>2 DEF FakeRun, Persisted
  <2>. QED  BY <2>1, NoAnswerKeepsListing
<1>. QED  BY <1>1, <1>2

LEMMA PostKeepsListing ==
  ASSUME ProcessInv, ListInv, NEW q \in Requests, NEW p \in ParentIDs \cup {NoParent}, Post(q, p)
  PROVE  ListInv'
<1>1. ASSUME NEW phase \in Phase \ {"none"},
             req' = [req EXCEPT ![q] = [phase |-> phase, sid |-> created', parent |-> p]]
      PROVE  Moves(q, created', p, phase)
  BY <1>1, PostMoves
<1>2. req[q].phase = "none" /\ created' \notin Stored
  BY DEF Post, NewCount, ProcessInv, Typed, RowsHaveOwners, StartedIDs, Past, Row
<1>3. CASE FakeRun(q, created', p, created')
  <2>1. Moves(q, created', p, IF ParentStored(created', p) THEN "answered" ELSE "failed")
    BY <1>1, <1>3 DEF FakeRun, Phase
  <2>. QED  BY <1>2, <1>3, <2>1, FakeRunKeepsListing
<1>4. CASE LiveStart(q, created', p)
  <2>1. Moves(q, created', p, "running") /\ store' = store /\ order' = order
    BY <1>1, <1>4 DEF LiveStart, Await, Phase
  <2>. QED  BY <1>2, <2>1, NoAnswerKeepsListing
<1>5. CASE Await(q, created', p, "resolving")
  <2>1. Moves(q, created', p, "resolving") /\ store' = store /\ order' = order
    BY <1>1, <1>5 DEF Await, Phase
  <2>. QED  BY <1>2, <2>1, NoAnswerKeepsListing
<1>. QED  BY <1>3, <1>4, <1>5 DEF Post, NewID

LEMMA ResolveKeepsListing ==
  ASSUME ProcessInv, ListInv, NEW q \in Requests, Resolve(q)
  PROVE  ListInv'
<1>. DEFINE s == req[q].sid
            p == req[q].parent
<1>1. ASSUME NEW phase \in Phase \ {"none"},
             req' = [req EXCEPT ![q] = [phase |-> phase, sid |-> s, parent |-> p]]
      PROVE  Moves(q, s, p, phase)
  BY <1>1, ResolveMoves
<1>2. req[q].phase = "resolving" /\ s \notin Stored
  BY WorkingIsNotStored DEF Resolve
<1>3. CASE FakeRun(q, s, p, created)
  <2>1. Moves(q, s, p, IF ParentStored(s, p) THEN "answered" ELSE "failed")
    BY <1>1, <1>3 DEF FakeRun, Phase
  <2>. QED  BY <1>2, <1>3, <2>1, FakeRunKeepsListing
<1>4. CASE LiveStart(q, s, p)
  <2>1. Moves(q, s, p, "running") /\ store' = store /\ order' = order
    BY <1>1, <1>4 DEF LiveStart, Await, Phase
  <2>. QED  BY <1>2, <2>1, NoAnswerKeepsListing
<1>5. CASE Await(q, s, p, "failed")
  <2>1. Moves(q, s, p, "failed") /\ store' = store /\ order' = order
    BY <1>1, <1>5 DEF Await, Phase
  <2>. QED  BY <1>2, <2>1, NoAnswerKeepsListing
<1>. QED  BY <1>3, <1>4, <1>5 DEF Resolve

LEMMA TurnKeepsListing ==
  ASSUME ProcessInv, ListInv, NEW q \in Requests, TurnPersists(q) \/ TurnThrows(q) \/ Answer(q)
  PROVE  ListInv'
<1>. DEFINE s == req[q].sid
            p == req[q].parent
<1>1. CASE TurnPersists(q)
  <2>1. Moves(q, s, p, "persisted") /\ req[q].phase = "running" /\ order' = order
    BY <1>1, PhaseAlone DEF TurnPersists, Phase
  <2>2. s \notin Stored
    BY <2>1, WorkingIsNotStored
  <2>3. store' = Put(s, Persisted(q, s)) /\ Persisted(q, s).parent = NoParent
    BY <1>1, <2>2 DEF TurnPersists, Persisted
  <2>. QED  BY <2>1, <2>2, <2>3, NoAnswerKeepsListing
<1>2. CASE TurnThrows(q)
  <2>1. Moves(q, s, p, "failed") /\ req[q].phase = "running" /\ store' = store /\ order' = order
    BY <1>2, PhaseAlone DEF TurnThrows, Settle, Phase
  <2>. QED  BY <2>1, NoAnswerKeepsListing
<1>3. CASE Answer(q) /\ s \in Stored /\ ParentStored(s, p)
  <2>1. /\ req' = [req EXCEPT ![q].phase = "answered"] /\ req[q].phase = "persisted"
        /\ UNCHANGED <<created, boots, deleted>>
        /\ order' = Push(s) /\ store' = Put(s, Requested(store[s], p, created))
    BY <1>3 DEF Answer, Settle
  <2>2. Moves(q, s, p, "answered")
    BY <2>1, PhaseAlone DEF Phase
  <2>. QED  BY <2>1, <2>2, AnswerKeepsListing
<1>4. CASE Answer(q) /\ ~(s \in Stored /\ ParentStored(s, p))
  <2>1. /\ req' = [req EXCEPT ![q].phase = "failed"] /\ req[q].phase = "persisted"
        /\ UNCHANGED <<created, boots, deleted, order, store>>
    BY <1>4 DEF Answer, Settle
  <2>2. Moves(q, s, p, "failed")
    BY <2>1, PhaseAlone DEF Phase
  <2>. QED  BY <2>1, <2>2, NoAnswerKeepsListing
<1>. QED  BY <1>1, <1>2, <1>3, <1>4

(* The walk of descendantSessionIDs by the listing finds what the cascade  *)
(* of the table deletes, unlisted sessions apart.                          *)
LEMMA SubtreesAgree ==
  ASSUME ProcessInv, ListInv, ServerAssumption, NEW s \in Stored
  PROVE  Listed \cap Subtree(s, Stored) = Listed \cap Descendants(s)
<1>. DEFINE L == Listed \cap Stored
            Closed(T, ids) == s \in T /\ \A y \in ids : store[y].parent \in T => y \in T
<1>1. Stored \subseteq Nat /\ NoParent \notin Nat /\ Listed \subseteq Stored
  <2>1. \A x \in Stored : x \in Nat
    <3>. TAKE x \in Stored
    <3>. DEFINE o == store[x].owner
    <3>1. o \in Requests /\ req[o].sid = x
      BY DEF ProcessInv, RowsHaveOwners, Row
    <3>. QED  BY <3>1 DEF ProcessInv, Typed
  <2>. QED  BY <2>1 DEF ServerAssumption, ListInv, Answered
<1>2. \A y \in Stored : store[y].parent # NoParent => y \in L
  BY DEF ListInv
<1>3. ASSUME NEW x \in Listed, x \in Subtree(s, Stored) PROVE x \in Descendants(s)
  <2>. SUFFICES ASSUME NEW T \in SUBSET (L \cup {s}), Closed(T, L)
                PROVE  x \in T
    BY <1>1, <1>3 DEF Descendants, Subtree
  <2>1. T \in SUBSET (Stored \cup {s}) /\ NoParent \notin T
    BY <1>1
  <2>2. Closed(T, Stored)
    BY <1>2, <2>1
  <2>. QED  BY <1>3, <2>1, <2>2 DEF Subtree
<1>4. ASSUME NEW x \in Listed, x \in Descendants(s) PROVE x \in Subtree(s, Stored)
  <2>. SUFFICES ASSUME NEW T \in SUBSET (Stored \cup {s}), Closed(T, Stored)
                PROVE  x \in T
    BY <1>1, <1>4 DEF Subtree
  <2>. DEFINE U == T \cap (L \cup {s})
  <2>1. U \in SUBSET (L \cup {s}) /\ Closed(U, L)
    OBVIOUS
  <2>2. x \in U
    <3>. HIDE DEF U
    <3>. QED  BY <1>4, <2>1 DEF Descendants, Subtree
  <2>. QED  BY <2>2
<1>. QED  BY <1>3, <1>4

LEMMA DeleteKeepsListing ==
  ASSUME ProcessInv, ListInv, ServerAssumption, NEW s \in Stored, Delete(s)
  PROVE  ListInv'
<1>. DEFINE kept == Listed \ Descendants(s)
            f == [x \in Nat |-> x]
<1>1. order \in Seq(Nat) /\ order' = Selected(order, kept) /\ Listed = Elements(order)
  BY DEF ListInv, Delete, Listed, Elements
<1>2. order' \in Seq(Nat) /\ Elements(order') = Listed \cap kept
  BY <1>1, SelectedElements
<1>3. Listed' = Listed \ Descendants(s)
  BY <1>2 DEF Listed, Elements
<1>4. \A i, j \in DOMAIN order' : order'[i] = order'[j] => i = j
  <2>1. \A i \in DOMAIN order : order[i] \in Nat
    BY <1>1
  <2>2. \A i, j \in DOMAIN order : f[order[i]] = f[order[j]] => i = j
    BY <2>1 DEF ListInv
  <2>3. \A i \in DOMAIN order' : order'[i] \in Nat
    BY <1>2
  <2>4. \A i, j \in DOMAIN order' : f[order'[i]] = f[order'[j]] => i = j
    <3>. HIDE DEF f
    <3>. QED  BY <1>1, <2>2, SelectedApart
  <2>. QED  BY <2>3, <2>4
<1>5. /\ Stored' = Stored \ Subtree(s, Stored)
      /\ \A x \in Stored' : store'[x] = store[x]
      /\ req' = req
  BY DEF Delete, Stored
<1>6. Answered' = Listed'
  <2>1. Answered' = Answered \ Subtree(s, Stored)
    BY <1>5 DEF Answered
  <2>. QED  BY <1>3, <2>1, SubtreesAgree DEF ListInv
<1>7. \A x \in Stored' \ Listed' : store'[x].parent = NoParent
  <2>1. \A x \in Stored' : x \notin Listed' => x \notin Listed
    BY <1>3, <1>5, SubtreesAgree
  <2>. QED  BY <1>5, <2>1 DEF ListInv
<1>. QED  BY <1>2, <1>4, <1>6, <1>7 DEF ListInv

LEMMA NextKeepsListing ==
  ASSUME ProcessInv, ListInv, [Next]_vars, boots' = 1
  PROVE  ListInv'
<1>1. ASSUME NEW q \in Requests, NEW p \in ParentIDs \cup {NoParent}, Post(q, p)
      PROVE  ListInv'
  BY <1>1, PostKeepsListing
<1>2. ASSUME NEW q \in Requests, Resolve(q)
      PROVE  ListInv'
  BY <1>2, ResolveKeepsListing
<1>3. ASSUME NEW q \in Requests, TurnPersists(q) \/ TurnThrows(q) \/ Answer(q)
      PROVE  ListInv'
  BY <1>3, TurnKeepsListing
<1>4. ASSUME NEW s \in Stored, Delete(s)
      PROVE  ListInv'
  BY <1>4, DeleteKeepsListing, ServerAssumption
<1>5. ASSUME NEW s \in Stored, NEW b \in Patches, UpdateSession(s, b)
      PROVE  ListInv'
  <2>1. /\ Stored' = Stored /\ Listed' = Listed /\ order' = order /\ req' = req
        /\ \A x \in Stored : store'[x].parent = store[x].parent
    BY <1>5 DEF UpdateSession, Stored, Listed, ProcessInv, RowsHaveOwners, Row
  <2>. QED  BY <2>1 DEF ListInv, Answered
<1>6. ASSUME UNCHANGED <<order, store, req>>
      PROVE  ListInv'
  BY <1>6 DEF ListInv, Answered, Listed, Stored
<1>7. ~Restart
  BY DEF Restart, ProcessInv
<1>. QED  BY <1>1, <1>2, <1>3, <1>4, <1>5, <1>6, <1>7 DEF Next, AbortSession, vars

(* In the first process on a database, GET /session lists each session     *)
(* that was created and not deleted, once (createSession, deleteSession,   *)
(* descendantSessionIDs).                                                  *)
THEOREM TheListingIsExact == Spec => []ListingIsExact
<1>. DEFINE Inv == boots = 1 => ListInv
<1>1. Init => Inv
  BY DEF Init, ListInv, Listed, Answered, Stored
<1>2. FirstProcessInv /\ FirstProcessInv' /\ Inv /\ [Next]_vars => Inv'
  <2>. SUFFICES ASSUME FirstProcessInv, Inv, [Next]_vars, boots' = 1 PROVE ListInv'
    OBVIOUS
  <2>1. boots' = boots \/ boots' = boots + 1
    BY DEF Next, vars, Post, Resolve, TurnPersists, TurnThrows, Answer, AbortSession,
           Delete, UpdateSession, Restart
  <2>2. boots = 1
    BY <2>1 DEF FirstProcessInv
  <2>. QED  BY <2>2, NextKeepsListing DEF FirstProcessInv
<1>3. Inv => ListingIsExact
  BY DEF ListInv, Answered, ListingIsExact
<1>. HIDE DEF Inv
<1>. QED  BY <1>1, <1>2, <1>3, FirstProcess, PTL DEF Spec

-----------------------------------------------------------------------------
(* The sessions on display.                                                *)
OnDisplay == {s \in Listed \cap Stored : ~store[s].archived}

(* In the deterministic mode a session's time.updated is its number, until *)
(* it is archived, so the listing is in the order of updates.              *)
FakeInv ==
  /\ created \in Nat
  /\ req \in [Requests -> [phase : Phase \ {"resolving", "running", "persisted"},
                           sid : Nat, parent : ParentIDs \cup {NoParent}]]
  /\ \A s \in Stored : store[s] \in Row
  /\ order \in Seq(1 .. created)
  /\ Ascends(order)
  /\ \A s \in OnDisplay : store[s].updated = s

(* A list without its first n.                                             *)
Rest(u, n) == SubSeq(u, n + 1, Len(u))

(* What matches a cursor goes down, and is what was updated before it.     *)
LEMMA MatchingIs ==
  ASSUME FakeInv, NEW c \in Nat
  PROVE  /\ Matching(c) \in Seq(Nat)
         /\ Descending(Matching(c))
         /\ Elements(Matching(c)) = {s \in OnDisplay : s < c}
<1>. DEFINE newest == [i \in DOMAIN order |-> order[Len(order) + 1 - i]]
            set == {s \in Stored : ~store[s].archived /\ Older(store[s], c)}
            R == {r \in Nat \X Nat : r[2] < r[1]}
<1>1. /\ order \in Seq(Nat) /\ Len(order) \in Nat /\ DOMAIN order = 1 .. Len(order)
      /\ \A i \in 1 .. Len(order) : order[i] \in Nat
  BY DEF FakeInv
<1>2. \A i \in 1 .. Len(order) : Len(order) + 1 - i \in 1 .. Len(order)
  BY <1>1
<1>3. newest \in Seq(Nat) /\ Len(newest) = Len(order) /\ DOMAIN newest = 1 .. Len(order)
  BY <1>1, <1>2
<1>4. Elements(newest) = Listed
  <2>1. \A i \in 1 .. Len(order) : order[i] = newest[Len(order) + 1 - i]
    BY <1>1, <1>2
  <2>. QED  BY <1>1, <1>2, <1>3, <2>1 DEF Elements, Listed
<1>5. \A i, j \in DOMAIN newest : i < j => <<newest[i], newest[j]>> \in R
  <2>. SUFFICES ASSUME NEW i \in 1 .. Len(order), NEW j \in 1 .. Len(order), i < j
                PROVE  newest[i] \in Nat /\ newest[j] \in Nat /\ newest[j] < newest[i]
    BY <1>3
  <2>1. Len(order) + 1 - j < Len(order) + 1 - i
    BY <1>1
  <2>. QED  BY <1>1, <1>2, <2>1 DEF FakeInv, Ascends
<1>6. Matching(c) = Selected(newest, set)
  BY DEF Matching
<1>. HIDE DEF newest
<1>7. Matching(c) \in Seq(Nat) /\ Elements(Matching(c)) = Elements(newest) \cap set
  <2>. HIDE DEF set
  <2>. QED  BY <1>3, <1>6, SelectedElements
<1>8. \A i, j \in DOMAIN Matching(c) : i < j => <<Matching(c)[i], Matching(c)[j]>> \in R
  <2>. HIDE DEF set, R
  <2>. QED  BY <1>3, <1>5, <1>6, SelectedInOrder
<1>9. Listed \cap set = {s \in OnDisplay : s < c}
  BY DEF OnDisplay, Older, FakeInv
<1>. QED  BY <1>4, <1>7, <1>8, <1>9 DEF Descending

(* What follows a page is what matches its last session's cursor.          *)
LEMMA NextPage ==
  ASSUME FakeInv, NEW c \in Nat, NEW limit \in Nat \ {0}, Len(Matching(c)) > limit
  PROVE  /\ NextCursor(Matching(c), limit) \in Nat
         /\ NextCursor(Matching(c), limit) < c
         /\ Matching(NextCursor(Matching(c), limit)) = Rest(Matching(c), limit)
<1>. DEFINE m == Matching(c)
            e == m[limit]
            rest == Rest(m, limit)
            n == Matching(e)
<1>1. m \in Seq(Nat) /\ Descending(m) /\ Elements(m) = {s \in OnDisplay : s < c}
  BY MatchingIs
<1>. HIDE DEF m
<1>2. /\ Len(m) \in Nat /\ limit \in 1 .. Len(m) /\ DOMAIN m = 1 .. Len(m)
      /\ \A i \in 1 .. Len(m) : m[i] \in Nat
  BY <1>1 DEF m
<1>3. e \in Nat /\ e \in OnDisplay /\ e < c
  BY <1>1, <1>2 DEF Elements
<1>4. NextCursor(m, limit) = e
  BY <1>3 DEF NextCursor, FakeInv
<1>5. /\ rest \in Seq(Nat) /\ Len(rest) = Len(m) - limit /\ DOMAIN rest = 1 .. Len(m) - limit
      /\ \A i \in 1 .. Len(m) - limit : rest[i] = m[limit + i]
  <2>1. limit + 1 \in 1 .. Len(m) /\ Len(m) \in 1 .. Len(m)
    BY <1>2 DEF m
  <2>2. /\ rest \in Seq(Nat) /\ Len(rest) = Len(m) - (limit + 1) + 1
        /\ \A i \in 1 .. Len(m) - (limit + 1) + 1 : rest[i] = m[limit + 1 + i - 1]
    BY <1>1, <1>2, <2>1, SubSeqProperties DEF Rest
  <2>. QED  BY <1>2, <2>2
<1>6. n \in Seq(Nat) /\ Descending(n) /\ Elements(n) = {s \in OnDisplay : s < e}
  BY <1>3, MatchingIs
<1>. HIDE DEF e, rest, n
<1>7. Descending(rest)
  <2>. SUFFICES ASSUME NEW i \in 1 .. Len(m) - limit, NEW j \in 1 .. Len(m) - limit, i < j
                PROVE  rest[j] < rest[i]
    BY <1>5 DEF Descending
  <2>1. limit + i \in 1 .. Len(m) /\ limit + j \in 1 .. Len(m) /\ limit + i < limit + j
    BY <1>2
  <2>2. m[limit + j] < m[limit + i]
    BY <1>1, <1>2, <2>1 DEF Descending
  <2>. QED  BY <1>5, <2>2
<1>8. Elements(rest) = Elements(n)
  <2>1. ASSUME NEW i \in 1 .. Len(m) - limit PROVE rest[i] \in OnDisplay /\ rest[i] < e
    <3>1. limit + i \in 1 .. Len(m) /\ limit < limit + i
      BY <1>2
    <3>. QED  BY <1>1, <1>2, <1>5, <3>1 DEF Elements, Descending, e
  <2>2. ASSUME NEW s \in OnDisplay, s < e, s \in Nat PROVE \E i \in DOMAIN rest : rest[i] = s
    <3>1. PICK k \in 1 .. Len(m) : m[k] = s
      BY <1>1, <1>2, <1>3, <2>2 DEF Elements
    <3>2. k > limit
      BY <1>1, <1>2, <2>2, <3>1 DEF Descending, e
    <3>3. k - limit \in 1 .. Len(m) - limit /\ limit + (k - limit) = k
      BY <1>2, <3>2
    <3>. QED  BY <1>5, <3>1, <3>3
  <2>3. \A s \in OnDisplay : s \in Nat
    BY DEF OnDisplay, Listed, FakeInv
  <2>. QED  BY <1>5, <1>6, <2>1, <2>2, <2>3 DEF Elements
<1>9. n = rest
  BY <1>5, <1>6, <1>7, <1>8, SameDescent
<1>. QED  BY <1>3, <1>4, <1>9 DEF m, n, rest

(* A page and what follows it are the whole.                               *)
LEMMA PageAndRest ==
  ASSUME NEW m \in Seq(Nat), NEW limit \in Nat, Len(m) > limit
  PROVE  SubSeq(m, 1, limit) \o Rest(m, limit) = m
<1>. DEFINE page == SubSeq(m, 1, limit)
            rest == Rest(m, limit)
<1>1. /\ Len(m) \in Nat /\ page \in Seq(Nat) /\ Len(page) = limit
      /\ \A i \in 1 .. limit : page[i] = m[i]
  <2>1. CASE limit = 0
    <3>1. page = <<>>
      BY <2>1
    <3>. QED  BY <2>1, <3>1
  <2>2. CASE limit # 0
    <3>1. 1 \in 1 .. Len(m) + 1 /\ limit \in 0 .. Len(m) /\ 1 \in 1 .. Len(m) /\ limit \in 1 .. Len(m)
      BY <2>2
    <3>2. /\ page \in Seq(Nat) /\ Len(page) = limit - 1 + 1
          /\ \A i \in 1 .. limit - 1 + 1 : page[i] = m[1 + i - 1]
      BY <2>2, <3>1, SubSeqProperties
    <3>. QED  BY <3>2
  <2>. QED  BY <2>1, <2>2
<1>2. /\ rest \in Seq(Nat) /\ Len(rest) = Len(m) - limit
      /\ \A i \in 1 .. Len(m) - limit : rest[i] = m[limit + i]
  <2>1. limit + 1 \in 1 .. Len(m) /\ Len(m) \in 1 .. Len(m)
    OBVIOUS
  <2>2. /\ rest \in Seq(Nat) /\ Len(rest) = Len(m) - (limit + 1) + 1
        /\ \A i \in 1 .. Len(m) - (limit + 1) + 1 : rest[i] = m[limit + 1 + i - 1]
    BY <2>1, SubSeqProperties DEF Rest
  <2>3. Len(m) - (limit + 1) + 1 = Len(m) - limit
    OBVIOUS
  <2>. HIDE DEF rest
  <2>4. \A i \in 1 .. Len(m) - limit : limit + 1 + i - 1 = limit + i
    OBVIOUS
  <2>. QED  BY <2>2, <2>3, <2>4
<1>. HIDE DEF page, rest
<1>3. /\ page \o rest \in Seq(Nat) /\ Len(page \o rest) = Len(m)
      /\ \A i \in 1 .. Len(m) : (page \o rest)[i] = IF i <= limit THEN page[i] ELSE rest[i - limit]
  <2>1. /\ page \o rest \in Seq(Nat) /\ Len(page \o rest) = Len(page) + Len(rest)
        /\ \A i \in 1 .. Len(page) + Len(rest) :
             (page \o rest)[i] = IF i <= Len(page) THEN page[i] ELSE rest[i - Len(page)]
    BY <1>1, <1>2, ConcatProperties
  <2>2. Len(page) = limit /\ Len(page) + Len(rest) = Len(m)
    BY <1>1, <1>2
  <2>. QED  BY <2>1, <2>2
<1>4. ASSUME NEW i \in 1 .. Len(m) PROVE (page \o rest)[i] = m[i]
  <2>1. CASE i <= limit
    <3>1. i \in 1 .. limit
      BY <2>1
    <3>. QED  BY <1>1, <1>3, <2>1, <3>1
  <2>2. CASE ~(i <= limit)
    <3>1. i - limit \in 1 .. Len(m) - limit /\ limit + (i - limit) = i
      BY <1>1, <2>2
    <3>2. (page \o rest)[i] = rest[i - limit]
      BY <1>1, <1>3, <2>2
    <3>. QED  BY <1>2, <3>1, <3>2
  <2>. QED  BY <2>1, <2>2
<1>5. page \o rest = m
  BY <1>3, <1>4, SeqEqual
<1>. QED  BY <1>5 DEF page, rest

(* The recursion along the pages returns all that matches, since that      *)
(* solves its equation and nothing else does.                              *)
LEMMA PagesAre ==
  ASSUME FakeInv, ServerAssumption, NEW limit \in Nat \ {0}
  PROVE  Pages(limit) = Matching(MaxUpdated + 1)
<1>. DEFINE top == MaxUpdated + 1
            M == [c \in 0 .. top |-> Matching(c)]
            from[c \in 0 .. top] ==
              IF Len(Matching(c)) > limit
              THEN Page(c, limit) \o from[NextCursor(Matching(c), limit)]
              ELSE Page(c, limit)
            f == [c \in 0 .. top |->
                   IF Len(Matching(c)) > limit
                   THEN Page(c, limit) \o from[NextCursor(Matching(c), limit)]
                   ELSE Page(c, limit)]
<1>1. top \in Nat /\ limit \in Nat
  BY DEF ServerAssumption
<1>2. ASSUME NEW c \in 0 .. top
      PROVE  /\ Len(Matching(c)) > limit =>
                  /\ NextCursor(Matching(c), limit) \in 0 .. top
                  /\ NextCursor(Matching(c), limit) < c
                  /\ Page(c, limit) \o Matching(NextCursor(Matching(c), limit)) = Matching(c)
             /\ ~(Len(Matching(c)) > limit) => Page(c, limit) = Matching(c)
  <2>. DEFINE m == Matching(c)
  <2>1. c \in Nat /\ m \in Seq(Nat) /\ Len(m) \in Nat
    BY MatchingIs
  <2>. HIDE DEF m, top
  <2>2. CASE Len(m) > limit
    <3>1. Page(c, limit) = SubSeq(m, 1, limit)
      BY <2>2 DEF Page, m
    <3>2. /\ NextCursor(m, limit) \in Nat /\ NextCursor(m, limit) < c
          /\ Matching(NextCursor(m, limit)) = Rest(m, limit)
      BY <2>1, <2>2, NextPage DEF m
    <3>3. SubSeq(m, 1, limit) \o Rest(m, limit) = m
      BY ONLY <1>1, <2>1, <2>2, PageAndRest
    <3>4. NextCursor(m, limit) \in 0 .. top
      BY <1>1, <2>1, <3>2
    <3>. QED  BY <2>2, <3>1, <3>2, <3>3, <3>4 DEF m
  <2>3. CASE ~(Len(m) > limit)
    <3>1. Page(c, limit) = SubSeq(m, 1, Len(m))
      BY <2>3 DEF Page, m
    <3>2. SubSeq(m, 1, Len(m)) = m
      BY <2>1
    <3>. QED  BY <2>3, <3>1, <3>2 DEF m
  <2>. QED  BY <2>2, <2>3 DEF m
<1>3. M = [c \in 0 .. top |->
             IF Len(Matching(c)) > limit
             THEN Page(c, limit) \o M[NextCursor(Matching(c), limit)]
             ELSE Page(c, limit)]
  <2>1. ASSUME NEW c \in 0 .. top
        PROVE  Matching(c) = IF Len(Matching(c)) > limit
                             THEN Page(c, limit) \o M[NextCursor(Matching(c), limit)]
                             ELSE Page(c, limit)
    <3>1. Len(Matching(c)) > limit =>
            M[NextCursor(Matching(c), limit)] = Matching(NextCursor(Matching(c), limit))
      BY <1>2
    <3>. HIDE DEF M, top
    <3>. QED  BY <1>2, <3>1
  <2>. QED  BY <2>1
<1>4. from = f
  BY <1>3
<1>5. Pages(limit) = from[top]
  BY DEF Pages
<1>. HIDE DEF from, M
<1>6. ASSUME NEW c \in 0 .. top
      PROVE  from[c] = IF Len(Matching(c)) > limit
                       THEN Page(c, limit) \o from[NextCursor(Matching(c), limit)]
                       ELSE Page(c, limit)
  <2>1. f[c] = IF Len(Matching(c)) > limit
               THEN Page(c, limit) \o from[NextCursor(Matching(c), limit)]
               ELSE Page(c, limit)
    OBVIOUS
  <2>. HIDE DEF f
  <2>. QED  BY <1>4, <2>1
<1>. HIDE DEF f, top
<1>. DEFINE T == {n \in 0 .. top : \A c \in 0 .. n : from[c] = Matching(c)}
<1>7. ASSUME NEW c \in 0 .. top, \A d \in 0 .. c - 1 : from[d] = Matching(d)
      PROVE  from[c] = Matching(c)
  <2>1. CASE Len(Matching(c)) > limit
    <3>1. /\ NextCursor(Matching(c), limit) \in 0 .. c - 1
          /\ Page(c, limit) \o Matching(NextCursor(Matching(c), limit)) = Matching(c)
      BY <1>1, <1>2, <2>1
    <3>2. from[NextCursor(Matching(c), limit)] = Matching(NextCursor(Matching(c), limit))
      BY <1>7, <3>1
    <3>3. from[c] = Page(c, limit) \o from[NextCursor(Matching(c), limit)]
      BY <1>6, <2>1
    <3>. QED  BY <3>1, <3>2, <3>3
  <2>2. CASE ~(Len(Matching(c)) > limit)
    BY <1>2, <1>6, <2>2
  <2>. QED  BY <2>1, <2>2
<1>8. 0 \in T
  <2>1. 0 \in 0 .. top /\ (\A c \in 0 .. 0 : c = 0) /\ (\A d \in 0 .. 0 - 1 : FALSE)
    BY <1>1
  <2>2. from[0] = Matching(0)
    BY <1>7, <2>1
  <2>. QED  BY <2>1, <2>2
<1>9. ASSUME NEW n \in 1 .. top, n - 1 \in T PROVE n \in T
  <2>1. \A d \in 0 .. n - 1 : from[d] = Matching(d)
    BY <1>9
  <2>2. n \in 0 .. top /\ \A c \in 0 .. n : c \in 0 .. n - 1 \/ c = n
    BY <1>1
  <2>3. from[n] = Matching(n)
    BY <1>7, <2>1, <2>2
  <2>4. \A c \in 0 .. n : from[c] = Matching(c)
    BY <2>1, <2>2, <2>3
  <2>. QED  BY <2>2, <2>4
<1>10. 0 .. top \subseteq T
  <2>. HIDE DEF T
  <2>. QED  BY <1>1, <1>8, <1>9, UpTo
<1>11. top \in T
  <2>. HIDE DEF T
  <2>. QED  BY <1>1, <1>10
<1>12. from[top] = Matching(top)
  <2>1. top \in 0 .. top
    BY <1>1
  <2>. QED  BY <1>11, <2>1
<1>. QED  BY <1>5, <1>12 DEF top

(* In the deterministic mode a POST stores and lists at once, or fails.    *)
LEMMA FakePostKeeps ==
  ASSUME FakeInv, mode = "fake", ServerAssumption,
         NEW q \in Requests, NEW p \in ParentIDs \cup {NoParent}, Post(q, p)
  PROVE  FakeInv'
<1>. DEFINE s == created'
            new == Requested(Persisted(q, s), p, s)
<1>1. /\ created \in Nat /\ s = created + 1 /\ s \in Nat /\ s \notin Listed
      /\ FakeRun(q, s, p, s)
  <2>1. created \in Nat /\ s = created + 1 /\ FakeRun(q, s, p, s)
    BY DEF FakeInv, Post, NewCount, NewID
  <2>2. \A x \in Listed : x \in 1 .. created
    BY DEF FakeInv, Listed
  <2>. QED  BY <2>1, <2>2
<1>. HIDE DEF s
<1>2. req' \in [Requests -> [phase : Phase \ {"resolving", "running", "persisted"},
                             sid : Nat, parent : ParentIDs \cup {NoParent}]]
  <2>1. [phase |-> IF ParentStored(s, p) THEN "answered" ELSE "failed", sid |-> s, parent |-> p]
          \in [phase : Phase \ {"resolving", "running", "persisted"},
               sid : Nat, parent : ParentIDs \cup {NoParent}]
    BY <1>1 DEF Phase
  <2>. QED  BY <1>1, <2>1 DEF FakeRun, FakeInv
<1>3. Persisted(q, s) \in Row
  <2>1. ASSUME NEW row \in Row PROVE [row EXCEPT !.owner = q, !.updated = 0] \in Row
    BY DEF Row
  <2>2. s \in Stored => store[s] \in Row
    BY DEF FakeInv
  <2>3. [parent |-> NoParent, updated |-> 0, archived |-> FALSE, owner |-> q] \in Row
    BY DEF Row
  <2>. QED  BY <2>1, <2>2, <2>3 DEF Persisted
<1>4. new \in Row /\ new.updated = s
  BY <1>1, <1>3 DEF Requested, Row
<1>. HIDE DEF new
<1>5. CASE ParentStored(s, p)
  <2>1. order' = Append(order, s) /\ store' = Put(s, new)
    BY <1>1, <1>5 DEF FakeRun, Push, new
  <2>2. order \in Seq(1 .. created) /\ order \in Seq(1 .. s) /\ s \in 1 .. s
    BY <1>1 DEF FakeInv
  <2>3. /\ order' \in Seq(1 .. s) /\ Len(order) \in Nat
        /\ DOMAIN order = 1 .. Len(order) /\ DOMAIN order' = 1 .. Len(order) + 1
        /\ \A i \in 1 .. Len(order) : order'[i] = order[i]
        /\ order'[Len(order) + 1] = s
    BY <2>1, <2>2, AppendProperties
  <2>4. Listed' = Listed \cup {s}
    BY <2>3 DEF Listed
  <2>5. Ascends(order')
    <3>1. \A i \in 1 .. Len(order) : order[i] \in Nat /\ order[i] < s
      BY <1>1, <2>2
    <3>. QED  BY <2>3, <3>1 DEF Ascends, FakeInv
  <2>6. /\ Stored' = Stored \cup {s}
        /\ \A x \in Stored' : store'[x] = IF x = s THEN new ELSE store[x]
    BY <2>1 DEF Put, Stored
  <2>7. \A x \in Stored' : store'[x] \in Row
    BY <1>4, <2>6 DEF FakeInv
  <2>8. \A x \in OnDisplay' : store'[x].updated = x
    BY <1>4, <2>4, <2>6 DEF OnDisplay, FakeInv
  <2>. QED  BY <1>1, <1>2, <2>3, <2>5, <2>7, <2>8 DEF FakeInv, s
<1>6. CASE ~ParentStored(s, p)
  <2>1. order' = order /\ store' = Put(s, Persisted(q, s))
    BY <1>1, <1>6 DEF FakeRun
  <2>2. /\ Stored' = Stored \cup {s}
        /\ \A x \in Stored' : store'[x] = IF x = s THEN Persisted(q, s) ELSE store[x]
    BY <2>1 DEF Put, Stored
  <2>3. \A x \in Stored' : store'[x] \in Row
    BY <1>3, <2>2 DEF FakeInv
  <2>4. \A x \in OnDisplay' : store'[x].updated = x
    BY <1>1, <2>1, <2>2 DEF OnDisplay, FakeInv, Listed
  <2>5. order' \in Seq(1 .. s) /\ Ascends(order')
    BY <1>1, <2>1 DEF FakeInv, Ascends
  <2>. QED  BY <1>1, <1>2, <2>3, <2>4, <2>5 DEF FakeInv, s
<1>. QED  BY <1>5, <1>6

LEMMA FakeDeleteKeeps ==
  ASSUME FakeInv, NEW s \in Stored, Delete(s)
  PROVE  FakeInv'
<1>. DEFINE kept == Listed \ Descendants(s)
            R == {r \in Nat \X Nat : r[1] < r[2]}
<1>1. order \in Seq(1 .. created) /\ order' = Selected(order, kept) /\ Listed = Elements(order)
  BY DEF FakeInv, Delete, Listed, Elements
<1>2. order' \in Seq(1 .. created) /\ Elements(order') = Listed \cap kept
  BY <1>1, SelectedElements
<1>3. Ascends(order')
  <2>1. created \in Nat /\ \A i \in DOMAIN order : order[i] \in Nat
    BY <1>1 DEF FakeInv
  <2>2. \A i, j \in DOMAIN order : i < j => <<order[i], order[j]>> \in R
    BY <2>1 DEF FakeInv, Ascends
  <2>3. \A i, j \in DOMAIN order' : i < j => <<order'[i], order'[j]>> \in R
    <3>. HIDE DEF R, kept
    <3>. QED  BY <1>1, <2>2, SelectedInOrder
  <2>. QED  BY <2>3 DEF Ascends
<1>4. Listed' \subseteq Listed
  BY <1>2 DEF Listed, Elements
<1>5. /\ Stored' \subseteq Stored
      /\ \A x \in Stored' : store'[x] = store[x]
      /\ req' = req /\ created' = created
  BY DEF Delete, Stored
<1>6. (\A x \in Stored' : store'[x] \in Row) /\ \A x \in OnDisplay' : store'[x].updated = x
  BY <1>4, <1>5 DEF OnDisplay, FakeInv
<1>. QED  BY <1>2, <1>3, <1>5, <1>6 DEF FakeInv

LEMMA FakeUpdateKeeps ==
  ASSUME FakeInv, ServerAssumption, NEW s \in Stored, NEW b \in Patches, b.archived, UpdateSession(s, b)
  PROVE  FakeInv'
<1>1. \A x \in Stored : store[x] \in Row
  BY DEF FakeInv
<1>2. b.title \in BOOLEAN /\ b.archived \in BOOLEAN /\ Touched(store[s], b) \in Nat
  BY <1>1 DEF ServerAssumption, Patch, Touched, Row
<1>. DEFINE row == [store[s] EXCEPT !.updated = Touched(store[s], b),
                                    !.archived = store[s].archived \/ b.archived]
<1>3. row \in Row /\ row.archived
  BY <1>1, <1>2 DEF Row
<1>4. /\ Stored' = Stored /\ order' = order /\ created' = created /\ req' = req
      /\ \A x \in Stored \ {s} : store'[x] = store[x]
      /\ store'[s] = row
  BY DEF UpdateSession, Stored
<1>. HIDE DEF row
<1>5. Listed' = Listed
  BY <1>4 DEF Listed
<1>6. (\A x \in Stored' : store'[x] \in Row) /\ \A x \in OnDisplay' : store'[x].updated = x
  BY <1>1, <1>3, <1>4, <1>5 DEF OnDisplay, FakeInv
<1>. QED  BY <1>4, <1>6 DEF FakeInv, Ascends

LEMMA FakeNextKeeps ==
  ASSUME \A b \in Patches : b.archived, FakeInv, mode = "fake", [Next]_vars
  PROVE  FakeInv'
<1>1. ASSUME NEW q \in Requests, NEW p \in ParentIDs \cup {NoParent}, Post(q, p)
      PROVE  FakeInv'
  BY <1>1, FakePostKeeps, ServerAssumption
<1>2. ~\E q \in Requests : Resolve(q) \/ TurnPersists(q) \/ TurnThrows(q) \/ Answer(q)
  BY DEF FakeInv, Resolve, TurnPersists, TurnThrows, Answer
<1>3. ASSUME NEW s \in Stored, Delete(s)
      PROVE  FakeInv'
  BY <1>3, FakeDeleteKeeps
<1>4. ASSUME NEW s \in Stored, NEW b \in Patches, UpdateSession(s, b)
      PROVE  FakeInv'
  BY <1>4, FakeUpdateKeeps, ServerAssumption
<1>5. ASSUME Restart PROVE FakeInv'
  <2>1. /\ created' = 0 /\ order' = <<>> /\ Listed' = {} /\ Stored' = Stored /\ store' = store
        /\ req' = req
    BY <1>5 DEF Restart, Listed, Stored, FakeInv, InFlight
  <2>2. <<>> \in Seq(1 .. 0) /\ Ascends(<<>>)
    BY DEF Ascends
  <2>. QED  BY <2>1, <2>2 DEF FakeInv, OnDisplay
<1>6. ASSUME UNCHANGED <<created, order, store, req>>
      PROVE  FakeInv'
  BY <1>6 DEF FakeInv, OnDisplay, Listed, Stored, Ascends
<1>. QED  BY <1>1, <1>2, <1>3, <1>4, <1>5, <1>6 DEF Next, AbortSession, vars

(* A client that follows the cursors of GET /experimental/session sees the *)
(* listing, whatever the page size, as long as no listed session is        *)
(* renamed: every patch archives.                                          *)
THEOREM PagesAreTheListing ==
  ASSUME \A b \in Patches : b.archived
  PROVE  Spec => []PagesShowTheListing
<1>. DEFINE Inv == mode = "fake" => FakeInv
<1>1. Init => Inv
  <2>. SUFFICES ASSUME Init PROVE FakeInv
    OBVIOUS
  <2>1. created \in Nat /\ order \in Seq(1 .. created) /\ Ascends(order) /\ Stored = {}
    BY DEF Init, Ascends, Stored
  <2>2. req \in [Requests -> [phase : Phase \ {"resolving", "running", "persisted"},
                              sid : Nat, parent : ParentIDs \cup {NoParent}]]
    BY DEF Init, Phase
  <2>. QED  BY <2>1, <2>2 DEF FakeInv, OnDisplay
<1>2. Inv /\ [Next]_vars => Inv'
  <2>1. [Next]_vars => mode' = mode
    BY DEF Next, vars, Post, Resolve, TurnPersists, TurnThrows, Answer, AbortSession,
           Delete, UpdateSession, Restart
  <2>. QED  BY <2>1, FakeNextKeeps
<1>3. Inv => PagesShowTheListing
  <2>. SUFFICES ASSUME FakeInv, NEW limit \in 1 .. Len(order)
                PROVE  Pages(limit) = Matching(MaxUpdated + 1)
    BY DEF PagesShowTheListing
  <2>1. limit \in Nat \ {0}
    BY DEF FakeInv
  <2>. QED  BY <2>1, PagesAre, ServerAssumption
<1>. HIDE DEF Inv
<1>. QED  BY <1>1, <1>2, <1>3, PTL DEF Spec

-----------------------------------------------------------------------------
(* Why session s may be busy, as far as request q is concerned.            *)
Accounts(q, s) ==
  /\ req[q].sid = s
  /\ InFlight(q) \/ (mode # "live" /\ req[q].phase = "failed" /\ req[q].parent # NoParent)

(* Only requests of the configured mode wait for their model, without      *)
(* which a failure after the wait could be one of the live mode.           *)
Configured == \A q \in Requests : req[q].phase = "resolving" => mode = "config"

BusyInv == Typed /\ Configured /\ \A s \in busy : \E q \in Requests : Accounts(q, s)

(* Request q alone goes on: its session s may become busy if q accounts    *)
(* for it, and must be idle when q does so no longer.                      *)
LEMMA RequestKeepsBusy ==
  ASSUME BusyInv, NEW q \in Requests, NEW s, NEW r, req' = [req EXCEPT ![q] = r], mode' = mode,
         Typed', r.phase = "resolving" => mode = "config",
         \A t \in busy' : t \in busy \/ t = s,
         s \in busy' => Accounts(q, s)',
         \A t \in busy' : Accounts(q, t) => t = s
  PROVE  BusyInv'
<1>1. Configured'
  BY DEF BusyInv, Configured, Typed
<1>2. ASSUME NEW t \in busy' PROVE \E w \in Requests : Accounts(w, t)'
  <2>1. CASE t = s
    BY <1>2, <2>1
  <2>2. CASE t # s
    <3>1. PICK w \in Requests : Accounts(w, t)
      BY <1>2, <2>2 DEF BusyInv
    <3>2. w # q
      BY <1>2, <2>2, <3>1
    <3>3. req'[w] = req[w]
      BY <3>2 DEF BusyInv, Typed
    <3>. QED  BY <3>1, <3>3 DEF Accounts, InFlight
  <2>. QED  BY <2>1, <2>2
<1>. QED  BY <1>1, <1>2 DEF BusyInv

LEMMA StartKeepsBusy ==
  ASSUME BusyInv, NEW q \in Requests, NEW s \in Nat, NEW p \in ParentIDs \cup {NoParent},
         req[q].phase \in {"none", "resolving"}, created' \in Nat, mode' = mode, LiveStart(q, s, p)
  PROVE  BusyInv'
<1>. DEFINE r == [phase |-> "running", sid |-> s, parent |-> p]
<1>1. /\ req' = [req EXCEPT ![q] = r]
      /\ busy' = busy \cup {s}
  BY DEF LiveStart, Await
<1>2. Typed'
  BY <1>1 DEF BusyInv, Typed, Phase
<1>3. Accounts(q, s)'
  BY <1>1 DEF BusyInv, Typed, Accounts, InFlight
<1>4. \A t : ~Accounts(q, t)
  BY DEF Accounts, InFlight
<1>. HIDE DEF r
<1>5. r.phase = "resolving" => mode = "config"
  BY DEF r
<1>. QED  BY <1>1, <1>2, <1>3, <1>4, <1>5, RequestKeepsBusy

LEMMA AwaitKeepsBusy ==
  ASSUME BusyInv, NEW q \in Requests, NEW s \in Nat, NEW p \in ParentIDs \cup {NoParent},
         NEW phase \in {"resolving", "failed"}, phase = "resolving" => mode = "config",
         req[q].phase \in {"none", "resolving"}, created' \in Nat, mode' = mode,
         Await(q, s, p, phase), busy' = busy
  PROVE  BusyInv'
<1>1. req' = [req EXCEPT ![q] = [phase |-> phase, sid |-> s, parent |-> p]]
  BY DEF Await
<1>2. Typed'
  BY <1>1 DEF BusyInv, Typed, Phase
<1>3. Configured'
  BY <1>1 DEF BusyInv, Configured, Typed
<1>4. ASSUME NEW t \in busy' PROVE \E w \in Requests : Accounts(w, t)'
  <2>1. PICK w \in Requests : Accounts(w, t)
    BY <1>4 DEF BusyInv
  <2>2. w # q
    BY <2>1 DEF Accounts, InFlight
  <2>. QED  BY <1>1, <2>1, <2>2 DEF BusyInv, Typed, Accounts, InFlight
<1>. QED  BY <1>2, <1>3, <1>4 DEF BusyInv

LEMMA FakeRunKeepsBusy ==
  ASSUME BusyInv, NEW q \in Requests, NEW s \in Nat, NEW p \in ParentIDs \cup {NoParent},
         NEW count, mode # "live",
         req[q].phase \in {"none", "resolving"}, created' \in Nat, mode' = mode,
         FakeRun(q, s, p, count)
  PROVE  BusyInv'
<1>. DEFINE r == [phase |-> IF ParentStored(s, p) THEN "answered" ELSE "failed", sid |-> s, parent |-> p]
<1>1. req' = [req EXCEPT ![q] = r]
  BY DEF FakeRun
<1>2. Typed'
  BY <1>1 DEF BusyInv, Typed, Phase
<1>3. \A t : ~Accounts(q, t)
  BY DEF Accounts, InFlight
<1>4. /\ \A t \in busy' : t \in busy \/ t = s
      /\ s \in busy' => ~ParentStored(s, p)
  BY DEF FakeRun
<1>5. s \in busy' => Accounts(q, s)'
  BY <1>1, <1>4 DEF BusyInv, Typed, Accounts, ParentStored
<1>6. r.phase = "resolving" => mode = "config"
  OBVIOUS
<1>. HIDE DEF r
<1>. QED  BY <1>1, <1>2, <1>3, <1>4, <1>5, <1>6, RequestKeepsBusy

LEMMA SettleKeepsBusy ==
  ASSUME BusyInv, NEW q \in Requests, NEW phase \in {"answered", "failed"},
         created' = created, mode' = mode, Settle(q, req[q].sid, phase)
  PROVE  BusyInv'
<1>. DEFINE r == [req[q] EXCEPT !.phase = phase]
<1>1. /\ req' = [req EXCEPT ![q] = r]
      /\ busy' = busy \ {req[q].sid}
  BY DEF Settle
<1>2. Typed'
  BY <1>1 DEF BusyInv, Typed, Phase
<1>3. \A t : Accounts(q, t) => t = req[q].sid
  BY DEF Accounts
<1>4. r.phase = "resolving" => mode = "config"
  BY DEF BusyInv, Typed
<1>. HIDE DEF r
<1>. QED  BY <1>1, <1>2, <1>3, <1>4, RequestKeepsBusy

LEMMA NextKeepsBusy == BusyInv /\ [Next]_vars => BusyInv'
<1>. SUFFICES ASSUME BusyInv, [Next]_vars PROVE BusyInv'
  OBVIOUS
<1>1. ASSUME NEW q \in Requests, NEW p \in ParentIDs \cup {NoParent}, Post(q, p)
      PROVE  BusyInv'
  <2>1. /\ created' = created + 1 /\ created' \in Nat /\ mode' = mode
        /\ req[q].phase \in {"none", "resolving"}
    BY <1>1 DEF Post, NewCount, BusyInv, Typed
  <2>2. CASE mode = "fake" /\ FakeRun(q, created', p, created')
    BY <2>1, <2>2, FakeRunKeepsBusy
  <2>3. CASE LiveStart(q, created', p)
    BY <2>1, <2>3, StartKeepsBusy
  <2>4. CASE mode = "config" /\ Await(q, created', p, "resolving") /\ busy' = busy
    BY <2>1, <2>4, AwaitKeepsBusy
  <2>. QED  BY <1>1, <2>2, <2>3, <2>4 DEF Post, NewID
<1>2. ASSUME NEW q \in Requests, Resolve(q)
      PROVE  BusyInv'
  <2>. DEFINE s == req[q].sid
              p == req[q].parent
  <2>1. /\ created' \in Nat /\ mode' = mode /\ mode = "config"
        /\ s \in Nat /\ p \in ParentIDs \cup {NoParent}
        /\ req[q].phase \in {"none", "resolving"}
    BY <1>2 DEF Resolve, BusyInv, Typed, Configured
  <2>2. CASE FakeRun(q, s, p, created)
    BY <2>1, <2>2, FakeRunKeepsBusy
  <2>3. CASE LiveStart(q, s, p)
    BY <2>1, <2>3, StartKeepsBusy
  <2>4. CASE Await(q, s, p, "failed") /\ busy' = busy
    BY <2>1, <2>4, AwaitKeepsBusy
  <2>. QED  BY <1>2, <2>2, <2>3, <2>4 DEF Resolve
<1>3. ASSUME NEW q \in Requests, TurnPersists(q)
      PROVE  BusyInv'
  <2>1. Typed' /\ Configured' /\ busy' = busy
    BY <1>3 DEF TurnPersists, BusyInv, Typed, Configured, Phase
  <2>2. \A r \in Requests : \A s : Accounts(r, s) => Accounts(r, s)'
    BY <1>3 DEF TurnPersists, BusyInv, Typed, Accounts, InFlight
  <2>. QED  BY <2>1, <2>2 DEF BusyInv
<1>4. ASSUME NEW q \in Requests, TurnThrows(q)
      PROVE  BusyInv'
  BY <1>4, SettleKeepsBusy DEF TurnThrows
<1>5. ASSUME NEW q \in Requests, Answer(q)
      PROVE  BusyInv'
  BY <1>5, SettleKeepsBusy DEF Answer
<1>6. ASSUME Restart
      PROVE  BusyInv'
  BY <1>6 DEF Restart, BusyInv, Typed, Configured, Phase
<1>7. ASSUME UNCHANGED <<mode, created, req>>, \A s \in busy' : s \in busy
      PROVE  BusyInv'
  BY <1>7 DEF BusyInv, Typed, Configured, Accounts, InFlight
<1>. QED  BY <1>1, <1>2, <1>3, <1>4, <1>5, <1>6, <1>7
          DEF Next, AbortSession, Delete, UpdateSession, vars

(* A session is shown as busy only while a turn of it runs, over aborts,   *)
(* failures and restarts, unless a deterministic creation threw for its    *)
(* parent (createSession, createLiveAiSdkSession, abortSession).           *)
THEOREM BusyIsRunning == Spec => []BusyMeansRunning
<1>1. Init => BusyInv
  BY DEF Init, BusyInv, Typed, Configured, Phase
<1>2. BusyInv => BusyMeansRunning
  BY DEF BusyInv, Accounts, BusyMeansRunning
<1>. QED  BY <1>1, <1>2, NextKeepsBusy, PTL DEF Spec

-----------------------------------------------------------------------------
(* The terminals: what they consist of.                                    *)
PtyRecord == [status : {"none", "running", "exited"}, cursor : Nat, buffer : Seq(Nat),
              bufferCursor : Nat, subscribers : Seq(Subscriber)]

ClientRecord == [of : 0 .. MaxTerminals, asked : Cursors \cup {0}, end : Nat, got : Seq(Terminals \X Nat)]

(* The connections a terminal sends its output to.                         *)
Subscribed(t) == ToSet(pty[t].subscribers)

KeysDiffer(list) == \A i, j \in DOMAIN list : list[i].key = list[j].key => i = j

(* Subscribers that are selected are subscribers, and still have a         *)
(* connection once.                                                        *)
LEMMA SelectedSubscribers ==
  ASSUME NEW list \in Seq(Subscriber), NEW set
  PROVE  /\ Selected(list, set) \in Seq(Subscriber)
         /\ ToSet(Selected(list, set)) = ToSet(list) \cap set
         /\ KeysDiffer(list) => KeysDiffer(Selected(list, set))
<1>. DEFINE f == [x \in Subscriber |-> x.key]
            sel == Selected(list, set)
<1>1. sel \in Seq(Subscriber)
  BY SelectedElements
<1>2. ToSet(sel) = ToSet(list) \cap set
  <2>1. \A l : ToSet(l) = Elements(l)
    BY DEF ToSet, Elements
  <2>. QED  BY <2>1, SelectedElements
<1>3. ASSUME KeysDiffer(list) PROVE KeysDiffer(sel)
  <2>1. \A i \in DOMAIN list : f[list[i]] = list[i].key
    OBVIOUS
  <2>. HIDE DEF sel
  <2>2. \A i \in DOMAIN sel : f[sel[i]] = sel[i].key
    BY <1>1
  <2>. HIDE DEF f
  <2>3. \A i, j \in DOMAIN list : f[list[i]] = f[list[j]] => i = j
    BY <1>3, <2>1 DEF KeysDiffer
  <2>4. \A i, j \in DOMAIN sel : f[sel[i]] = f[sel[j]] => i = j
    BY <2>3, SelectedApart DEF sel
  <2>. QED  BY <2>2, <2>4 DEF KeysDiffer
<1>. QED  BY <1>1, <1>2, <1>3

(* A key is taken off the list (removeSubscriber).                         *)
LEMMA WithoutIs ==
  ASSUME NEW list \in Seq(Subscriber), NEW k
  PROVE  /\ Without(list, k) \in Seq(Subscriber)
         /\ ToSet(Without(list, k)) = {x \in ToSet(list) : x.key # k}
         /\ KeysDiffer(list) => KeysDiffer(Without(list, k))
  BY SelectedSubscribers DEF Without

(* A connection is put at the end of the list, instead of its entry if it  *)
(* had one.                                                                *)
LEMMA SubscribedAgain ==
  ASSUME NEW list \in Seq(Subscriber), NEW s \in Sockets, NEW k \in Keys
  PROVE  LET new == Append(Without(list, k), [socket |-> s, key |-> k])
         IN  /\ new \in Seq(Subscriber)
             /\ ToSet(new) = {x \in ToSet(list) : x.key # k} \cup {[socket |-> s, key |-> k]}
             /\ KeysDiffer(list) => KeysDiffer(new)
<1>. DEFINE old == Without(list, k)
            x == [socket |-> s, key |-> k]
            new == Append(old, x)
            n == Len(old)
<1>1. /\ old \in Seq(Subscriber)
      /\ ToSet(old) = {y \in ToSet(list) : y.key # k}
      /\ KeysDiffer(list) => KeysDiffer(old)
  BY WithoutIs
<1>2. x \in Subscriber /\ x.key = k
  BY DEF Subscriber
<1>. HIDE DEF old, x
<1>3. /\ new \in Seq(Subscriber) /\ n \in Nat /\ DOMAIN old = 1 .. n /\ DOMAIN new = 1 .. n + 1
      /\ new[n + 1] = x /\ \A i \in 1 .. n : new[i] = old[i]
  BY <1>1, <1>2, AppendProperties
<1>. HIDE DEF new, n
<1>4. \A i \in 1 .. n + 1 : i = n + 1 \/ i \in 1 .. n
  BY <1>3
<1>5. ToSet(new) = ToSet(old) \cup {x}
  <2>1. \A i \in DOMAIN new : new[i] = x \/ new[i] \in ToSet(old)
    BY <1>3, <1>4 DEF ToSet
  <2>2. \A i \in DOMAIN old : i \in DOMAIN new /\ old[i] = new[i]
    BY <1>3
  <2>3. n + 1 \in DOMAIN new
    BY <1>3
  <2>. QED  BY <1>3, <2>1, <2>2, <2>3 DEF ToSet
<1>6. ASSUME KeysDiffer(list) PROVE KeysDiffer(new)
  <2>1. \A i \in 1 .. n : new[i].key # k
    BY <1>1, <1>3 DEF ToSet
  <2>2. ASSUME NEW i \in DOMAIN new, NEW j \in DOMAIN new, new[i].key = new[j].key PROVE i = j
    <3>1. CASE i \in 1 .. n /\ j \in 1 .. n
      BY <1>1, <1>3, <1>6, <2>2, <3>1 DEF KeysDiffer
    <3>2. CASE i = n + 1 \/ j = n + 1
      BY <1>2, <1>3, <1>4, <2>1, <2>2, <3>2
    <3>. QED  BY <1>3, <1>4, <3>1, <3>2
  <2>. QED  BY <2>2 DEF KeysDiffer
<1>. QED  BY <1>1, <1>3, <1>5, <1>6 DEF new, old, x

-----------------------------------------------------------------------------
(* The buffer is the last of the output (onData).                          *)
Kept(p) ==
  /\ p.bufferCursor = AtLeast(0, p.cursor - BufferLimit)
  /\ p.buffer = Positions(p.bufferCursor, p.cursor - p.bufferCursor)

(* Positions counts upwards.                                               *)
LEMMA PositionsAre ==
  ASSUME NEW p \in Nat, NEW n \in Nat
  PROVE  /\ Positions(p, n) \in Seq(Nat)
         /\ Len(Positions(p, n)) = n
         /\ \A i \in 1 .. n : Positions(p, n)[i] = p + i
  BY DEF Positions

LEMMA JoinedPositions ==
  ASSUME NEW p \in Nat, NEW n \in Nat, NEW m \in Nat
  PROVE  Positions(p, n) \o Positions(p + n, m) = Positions(p, n + m)
<1>. DEFINE u == Positions(p, n)
            v == Positions(p + n, m)
            w == Positions(p, n + m)
            all == u \o v
<1>1. p + n \in Nat /\ n + m \in Nat
  OBVIOUS
<1>2. u \in Seq(Nat) /\ Len(u) = n /\ \A i \in 1 .. n : u[i] = p + i
  BY PositionsAre
<1>3. v \in Seq(Nat) /\ Len(v) = m /\ \A i \in 1 .. m : v[i] = p + n + i
  BY <1>1, PositionsAre
<1>4. w \in Seq(Nat) /\ Len(w) = n + m /\ \A i \in 1 .. n + m : w[i] = p + i
  BY <1>1, PositionsAre
<1>. HIDE DEF u, v, w
<1>5. all \in Seq(Nat) /\ Len(all) = n + m
      /\ \A i \in 1 .. n + m : all[i] = IF i <= n THEN u[i] ELSE v[i - n]
  BY <1>2, <1>3, ConcatProperties
<1>. HIDE DEF all
<1>6. ASSUME NEW i \in 1 .. n + m PROVE all[i] = w[i]
  <2>1. CASE i <= n
    BY <1>2, <1>4, <1>5, <2>1
  <2>2. CASE ~(i <= n)
    <3>1. i - n \in 1 .. m
      BY <2>2
    <3>2. v[i - n] = p + i
      BY <1>3, <3>1
    <3>. QED  BY <1>4, <1>5, <2>2, <3>2
  <2>. QED  BY <2>1, <2>2
<1>7. all = w
  BY <1>4, <1>5, <1>6, SeqEqual
<1>. QED  BY <1>7 DEF all, u, v, w

LEMMA LastPositions ==
  ASSUME NEW p \in Nat, NEW n \in Nat, NEW e \in 0 .. n
  PROVE  SubSeq(Positions(p, n), e + 1, n) = Positions(p + e, n - e)
<1>. DEFINE u == Positions(p, n)
            v == Positions(p + e, n - e)
            last == SubSeq(u, e + 1, n)
<1>1. p + e \in Nat /\ n - e \in Nat /\ e \in Nat
  OBVIOUS
<1>2. u \in Seq(Nat) /\ Len(u) = n /\ \A i \in 1 .. n : u[i] = p + i
  BY PositionsAre
<1>3. v \in Seq(Nat) /\ Len(v) = n - e /\ \A i \in 1 .. n - e : v[i] = p + e + i
  BY <1>1, PositionsAre
<1>. HIDE DEF u, v
<1>4. last \in Seq(Nat) /\ Len(last) = n - e /\ \A i \in 1 .. n - e : last[i] = u[e + i]
  BY <1>1, <1>2, SubSeqProperties
<1>. HIDE DEF last
<1>5. ASSUME NEW i \in 1 .. n - e PROVE last[i] = v[i]
  <2>1. e + i \in 1 .. n
    OBVIOUS
  <2>. QED  BY <1>2, <1>3, <1>4, <2>1
<1>6. last = v
  BY <1>3, <1>4, <1>5, SeqEqual
<1>. QED  BY <1>6 DEF last, u, v

(* A chunk joins the buffer, which is cut to its limit.                    *)
LEMMA BufferedKeeps ==
  ASSUME NEW p \in PtyRecord, NEW n \in Nat, Kept(p)
  PROVE  /\ Buffered(p, n).cursor = p.cursor + n
         /\ Buffered(p, n).buffer \in Seq(Nat)
         /\ Buffered(p, n).bufferCursor = AtLeast(0, (p.cursor + n) - BufferLimit)
         /\ Buffered(p, n).buffer =
              Positions(AtLeast(0, (p.cursor + n) - BufferLimit),
                        (p.cursor + n) - AtLeast(0, (p.cursor + n) - BufferLimit))
<1>. DEFINE c == p.cursor
            b == p.bufferCursor
            all == p.buffer \o Positions(c, n)
            excess == AtLeast(0, Len(all) - BufferLimit)
            to == AtLeast(0, (c + n) - BufferLimit)
<1>1. c \in Nat /\ b \in Nat /\ BufferLimit \in Nat /\ b = AtLeast(0, c - BufferLimit) /\ p.buffer = Positions(b, c - b)
  BY PtyAssumption DEF PtyRecord, Kept
<1>2. Buffered(p, n) = [cursor |-> c + n, buffer |-> SubSeq(all, excess + 1, Len(all)),
                        bufferCursor |-> b + excess]
  BY DEF Buffered
<1>. HIDE DEF c, b
<1>. DEFINE m == c - b + n
<1>3. c - b \in Nat /\ b + (c - b) = c /\ m \in Nat
  BY <1>1 DEF AtLeast
<1>4. all = Positions(b, m)
  <2>. DEFINE d == c - b
  <2>1. b \in Nat /\ d \in Nat /\ b + d = c /\ m = d + n /\ all = Positions(b, d) \o Positions(c, n)
    BY <1>1, <1>3
  <2>. HIDE DEF d, all, m
  <2>2. Positions(b, d) \o Positions(b + d, n) = Positions(b, d + n)
    BY ONLY <2>1, n \in Nat, JoinedPositions
  <2>. QED  BY <2>1, <2>2
<1>5. Len(all) = m
  <2>. HIDE DEF all, m
  <2>. QED  BY <1>1, <1>3, <1>4, PositionsAre
<1>. HIDE DEF all
<1>6. excess \in 0 .. m /\ b + excess = to /\ m - excess = (c + n) - to
  BY <1>1, <1>3, <1>5 DEF AtLeast
<1>. HIDE DEF excess, to
<1>7. SubSeq(all, excess + 1, Len(all)) = Positions(to, (c + n) - to)
  <2>. HIDE DEF m
  <2>1. SubSeq(Positions(b, m), excess + 1, m) = Positions(b + excess, m - excess)
    BY <1>1, <1>3, <1>6, LastPositions
  <2>. QED  BY <1>4, <1>5, <1>6, <2>1
<1>8. to \in Nat /\ (c + n) - to \in Nat
  BY <1>1, <1>3, <1>6
<1>9. /\ Buffered(p, n).buffer = Positions(to, (c + n) - to) /\ Buffered(p, n).bufferCursor = to
      /\ Buffered(p, n).cursor = c + n
  BY <1>2, <1>6, <1>7
<1>. QED  BY <1>8, <1>9, PositionsAre DEF to, c

-----------------------------------------------------------------------------
(* The inductive invariant.                                                *)
(* A terminal is yet to be created, listed and running, or at its end; its *)
(* subscribers are let go when it leaves the list.                         *)
Ages ==
  \A t \in Terminals :
    /\ \/ t \notin sessions /\ process[t] = "none" /\ pty[t].status = "none" /\ events[t] = <<>>
       \/ t \in sessions /\ process[t] = "running" /\ pty[t].status = "running" /\ events[t] = <<"created">>
       \/ /\ t \notin sessions /\ process[t] \in {"running", "gone"} /\ pty[t].status = "exited"
          /\ events[t] = <<"created", "exited", "deleted">>
    /\ Subscribed(t) # {} => t \in sessions

(* The socket object of a subscriber is open, and has still its key.       *)
Live(x) == IsOpen(x) /\ SameKey(x)

(* A client that follows a terminal is subscribed to it by a live socket.  *)
Followed ==
  \A k \in Keys : client[k].of # 0 => \E x \in Subscribed(client[k].of) : x.key = k /\ Live(x)

(* A live subscriber is of a client that follows the terminal.             *)
Listening == \A t \in Terminals : \A x \in Subscribed(t) : Live(x) => client[x.key].of = t

(* Every terminal has a connection once; no two sockets have one key; and  *)
(* keys are new.                                                           *)
KeysAreNew ==
  /\ \A t \in Terminals : KeysDiffer(pty[t].subscribers) /\ \A x \in Subscribed(t) : x.key < nextKey
  /\ \A s \in Sockets : socket[s].key < nextKey
  /\ \A s, r \in Sockets : socket[s].key = socket[r].key => s = r

PtyInv == PtyTypeOK /\ Ages /\ Followed /\ Listening /\ KeysAreNew

(* The type invariant, in records and functions.                           *)
LEMMA PtyTypes ==
  ASSUME PtyTypeOK
  PROVE  /\ \A t \in Terminals : pty[t] \in PtyRecord /\ Kept(pty[t]) /\ Subscribed(t) \subseteq Subscriber
         /\ \A k \in Keys : client[k] \in ClientRecord
<1>1. ASSUME NEW t \in Terminals PROVE pty[t] \in PtyRecord /\ Kept(pty[t])
  BY DEF PtyTypeOK, PtyRecord, Kept
<1>2. ASSUME NEW t \in Terminals PROVE Subscribed(t) \subseteq Subscriber
  <2>1. pty[t].subscribers \in Seq(Subscriber)
    BY <1>1 DEF PtyRecord
  <2>. QED  BY <2>1 DEF Subscribed, ToSet
<1>3. ASSUME NEW k \in Keys PROVE client[k] \in ClientRecord
  BY DEF PtyTypeOK, ClientRecord
<1>. QED  BY <1>1, <1>2, <1>3

LEMMA PtyInvInit == PtyInit => PtyInv
<1>. SUFFICES ASSUME PtyInit PROVE PtyInv
  OBVIOUS
<1>1. /\ MaxTerminals \in Nat /\ MaxSockets \in Nat /\ MaxKeys \in Nat /\ MaxKeys >= MaxSockets
      /\ BufferLimit \in Nat /\ Positions(0, 0) = <<>>
  BY PtyAssumption DEF Positions
<1>2. NoClient \in ClientRecord /\ NoClient.of = 0
  BY <1>1 DEF NoClient, ClientRecord
<1>3. NoPty \in PtyRecord /\ Kept(NoPty) /\ NoPty.subscribers = <<>> /\ NoPty.status = "none"
  BY <1>1 DEF NoPty, PtyRecord, Kept, AtLeast
<1>4. \A t \in Terminals : Subscribed(t) = {} /\ KeysDiffer(pty[t].subscribers)
  BY <1>3 DEF PtyInit, Subscribed, ToSet, KeysDiffer
<1>5. PtyTypeOK
  <2>1. /\ sessions \subseteq Terminals /\ handlers \subseteq [terminal : Terminals, key : Keys]
        /\ nextKey \in 1 .. MaxKeys + 1
        /\ socket \in [Sockets -> [open : BOOLEAN, key : Keys]]
        /\ process \in [Terminals -> {"none", "running", "gone"}]
        /\ events \in [Terminals -> Seq({"created", "exited", "deleted"})]
    BY <1>1 DEF PtyInit, Sockets, Keys
  <2>2. client \in [Keys -> ClientRecord]
    BY <1>2 DEF PtyInit
  <2>3. pty \in [Terminals -> PtyRecord] /\ \A t \in Terminals : Kept(pty[t])
    BY <1>3 DEF PtyInit
  <2>. QED  BY <2>1, <2>2, <2>3 DEF PtyTypeOK, PtyRecord, ClientRecord, Kept
<1>6. Ages /\ Followed /\ Listening
  BY <1>2, <1>3, <1>4 DEF PtyInit, Ages, Followed, Listening
<1>7. KeysAreNew
  BY <1>1, <1>4 DEF PtyInit, KeysAreNew, Sockets
<1>. QED  BY <1>5, <1>6, <1>7 DEF PtyInv

LEMMA CreateKeeps == ASSUME PtyInv, NEW t \in Terminals, Create(t) PROVE PtyInv'
<1>. USE DEF PtyInv
<1>1. /\ pty' = [pty EXCEPT ![t].status = "running"]
      /\ \A u \in Terminals : pty[u] \in PtyRecord /\ Kept(pty[u])
      /\ t \notin sessions /\ events[t] = <<>>
  BY PtyTypes DEF Create, Ages
<1>2. ASSUME NEW u \in Terminals
      PROVE  /\ pty'[u] \in PtyRecord /\ pty'[u].subscribers = pty[u].subscribers
             /\ pty'[u].cursor = pty[u].cursor /\ pty'[u].buffer = pty[u].buffer
             /\ pty'[u].bufferCursor = pty[u].bufferCursor
             /\ pty'[u].status = IF u = t THEN "running" ELSE pty[u].status
  BY <1>1 DEF PtyRecord, PtyTypeOK
<1>3. \A u \in Terminals : Subscribed(u)' = Subscribed(u) /\ Kept(pty[u])'
  BY <1>1, <1>2 DEF Subscribed, Kept
<1>4. PtyTypeOK'
  <2>1. pty' \in [Terminals -> PtyRecord]
    BY <1>1, <1>2 DEF PtyTypeOK
  <2>2. events' \in [Terminals -> Seq({"created", "exited", "deleted"})]
    BY <1>1 DEF Create, PtyTypeOK
  <2>. QED  BY <1>3, <2>1, <2>2 DEF PtyTypeOK, Create, Kept, PtyRecord
<1>5. Ages'
  <2>1. \A u \in Terminals : events'[u] = IF u = t THEN <<"created">> ELSE events[u]
    BY <1>1 DEF Create, PtyTypeOK
  <2>. QED  BY <1>1, <1>2, <1>3, <2>1 DEF Ages, Create, PtyTypeOK
<1>6. Followed' /\ Listening'
  <2>1. \A k \in Keys : client[k].of = 0 \/ client[k].of \in Terminals
    BY PtyTypes, PtyAssumption DEF ClientRecord, Terminals
  <2>2. socket' = socket /\ client' = client
    BY DEF Create
  <2>. QED  BY <1>3, <2>1, <2>2 DEF Followed, Listening, Live, IsOpen, SameKey
<1>7. KeysAreNew'
  BY <1>2, <1>3 DEF KeysAreNew, Create, KeysDiffer
<1>. QED  BY <1>4, <1>5, <1>6, <1>7

(* A chunk is sent to those whose socket is open and still theirs          *)
(* (openSubscribers).                                                      *)
LEMMA ReachedIs ==
  ASSUME PtyTypeOK, NEW t \in Terminals, NEW bad
  PROVE  /\ Reached(t, bad) \in Seq(Subscriber)
         /\ ToSet(Reached(t, bad)) = {x \in Subscribed(t) : Live(x) /\ x.socket \notin bad}
         /\ KeysDiffer(pty[t].subscribers) => KeysDiffer(Reached(t, bad))
<1>. DEFINE list == pty[t].subscribers
            set == {x \in ToSet(list) : IsOpen(x) /\ SameKey(x) /\ x.socket \notin bad}
<1>1. list \in Seq(Subscriber)
  BY PtyTypes DEF PtyRecord
<1>2. /\ Selected(list, set) \in Seq(Subscriber)
      /\ ToSet(Selected(list, set)) = ToSet(list) \cap set
      /\ KeysDiffer(list) => KeysDiffer(Selected(list, set))
  <2>. HIDE DEF list, set
  <2>. QED  BY <1>1, SelectedSubscribers
<1>3. ToSet(list) \cap set = {x \in Subscribed(t) : Live(x) /\ x.socket \notin bad}
  BY DEF Subscribed, Live
<1>. QED  BY <1>2, <1>3 DEF Reached

(* Output arrives once at each client that follows, unless its send fails. *)
LEMMA ArrivedIs ==
  ASSUME PtyInv, NEW t \in Terminals, NEW n \in Nat \ {0}, NEW bad, NEW k \in Keys
  PROVE  Arrived(t, n, k, Reached(t, bad)) =
           IF \E x \in Subscribed(t) : x.key = k /\ Live(x) /\ x.socket \notin bad
           THEN [i \in 1 .. n |-> <<t, pty[t].cursor + i>>] ELSE <<>>
<1>. DEFINE reached == Reached(t, bad)
            D == {i \in DOMAIN reached : socket[reached[i].socket].key = k}
            times == Cardinality(D)
            c == pty[t].cursor
            There == \E x \in Subscribed(t) : x.key = k /\ Live(x) /\ x.socket \notin bad
<1>1. Arrived(t, n, k, reached) = [i \in 1 .. times * n |-> <<t, c + ((i - 1) % n) + 1>>]
  BY DEF Arrived
<1>2. c \in Nat
  BY PtyTypes DEF PtyInv, PtyRecord
<1>3. ToSet(reached) = {x \in Subscribed(t) : Live(x) /\ x.socket \notin bad} /\ KeysDiffer(reached)
  BY ReachedIs DEF PtyInv, KeysAreNew
<1>. HIDE DEF reached
<1>4. \A i \in DOMAIN reached : reached[i] \in ToSet(reached) /\ socket[reached[i].socket].key = reached[i].key
  BY <1>3 DEF ToSet, Live, SameKey
<1>5. D = {i \in DOMAIN reached : reached[i].key = k}
  BY <1>4
<1>. HIDE DEF D, c
<1>6. CASE There
  <2>1. PICK x \in ToSet(reached) : x.key = k
    BY <1>3, <1>6
  <2>2. PICK i \in DOMAIN reached : reached[i] = x
    BY <2>1 DEF ToSet
  <2>3. D = {i}
    BY <1>3, <1>5, <2>1, <2>2 DEF KeysDiffer
  <2>4. times = 1
    BY <2>3, FS_Singleton
  <2>. HIDE DEF times
  <2>5. times * n = n
    BY <2>4
  <2>6. \A j \in 1 .. n : c + ((j - 1) % n) + 1 = c + j
    <3>1. \A j \in 1 .. n : (j - 1) % n = j - 1
      OBVIOUS
    <3>. QED  BY <1>2, <3>1
  <2>7. [j \in 1 .. n |-> <<t, c + ((j - 1) % n) + 1>>] = [j \in 1 .. n |-> <<t, c + j>>]
    BY <2>6
  <2>. QED  BY <1>1, <1>6, <2>5, <2>7 DEF reached, c
<1>7. CASE ~There
  <2>1. D = {}
    BY <1>3, <1>4, <1>5, <1>7
  <2>2. times = 0
    BY <2>1, FS_EmptySet
  <2>. HIDE DEF times
  <2>3. 1 .. times * n = {}
    BY <2>2
  <2>4. [j \in 1 .. times * n |-> <<t, c + ((j - 1) % n) + 1>>] = <<>>
    BY <2>3
  <2>. QED  BY <1>1, <1>7, <2>4 DEF reached
<1>. QED  BY <1>6, <1>7

(* What a chunk of output does to a client.                                *)
Failed(t, bad, k) == \E x \in Subscribed(t) : x.key = k /\ Live(x) /\ x.socket \in bad

Hears(t, bad, k) == \E x \in Subscribed(t) : x.key = k /\ Live(x) /\ x.socket \notin bad

Stretch(t, c, n) == [i \in 1 .. n |-> <<t, c + i>>]

Reads(reader, more) == [reader EXCEPT !.got = @ \o more]

LEMMA StretchType == \A t \in Terminals, c \in Nat, n \in Nat : Stretch(t, c, n) \in Seq(Terminals \X Nat)
<1>. SUFFICES ASSUME NEW t \in Terminals, NEW c \in Nat, NEW n \in Nat
              PROVE  Stretch(t, c, n) \in Seq(Terminals \X Nat)
  OBVIOUS
<1>1. \A i \in 1 .. n : <<t, c + i>> \in Terminals \X Nat
  OBVIOUS
<1>. QED  BY <1>1 DEF Stretch

(* To those that hear it the chunk is the next stretch; those whose send   *)
(* fails are let go.                                                       *)
LEMMA OnDataToClients ==
  ASSUME PtyInv, NEW t \in Terminals, NEW n \in Nat \ {0}, NEW bad, OnData(t, n, bad), NEW k \in Keys
  PROVE  /\ client'[k] \in ClientRecord
         /\ Failed(t, bad, k) => client'[k] = NoClient
         /\ ~Failed(t, bad, k) => /\ client'[k].of = client[k].of
                                  /\ ~Hears(t, bad, k) => client'[k] = client[k]
                                  /\ Hears(t, bad, k) =>
                                       client'[k] = Reads(client[k], Stretch(t, pty[t].cursor, n))
<1>. DEFINE arrived == Arrived(t, n, k, Reached(t, bad))
            failed == {x \in ToSet(pty[t].subscribers) : IsOpen(x) /\ SameKey(x) /\ x.socket \in bad}
            new == [client[k] EXCEPT !.got = @ \o arrived]
<1>1. client'[k] = IF \E x \in failed : x.key = k THEN NoClient ELSE new
  BY DEF OnData
<1>2. (\E x \in failed : x.key = k) <=> Failed(t, bad, k)
  BY DEF Failed, Subscribed, Live
<1>3. arrived = IF Hears(t, bad, k) THEN Stretch(t, pty[t].cursor, n) ELSE <<>>
  BY ArrivedIs DEF Hears, Stretch
<1>4. client[k] \in ClientRecord /\ pty[t].cursor \in Nat
  BY PtyTypes DEF PtyInv, PtyRecord
<1>. HIDE DEF arrived, failed
<1>5. arrived \in Seq(Terminals \X Nat)
  <2>1. Stretch(t, pty[t].cursor, n) \in Seq(Terminals \X Nat)
    BY <1>4, StretchType
  <2>2. <<>> \in Seq(Terminals \X Nat)
    OBVIOUS
  <2>. QED  BY <1>3, <2>1, <2>2
<1>6. client[k].got \o arrived \in Seq(Terminals \X Nat) /\ client[k].got \o <<>> = client[k].got
  BY <1>4, <1>5 DEF ClientRecord
<1>7. NoClient \in ClientRecord
  BY PtyAssumption DEF NoClient, ClientRecord
<1>8. new \in ClientRecord /\ new.of = client[k].of
  BY <1>4, <1>6 DEF ClientRecord
<1>9. ASSUME ~Hears(t, bad, k) PROVE new = client[k]
  <2>1. arrived = <<>>
    BY <1>3, <1>9
  <2>. QED  BY <1>4, <1>6, <2>1 DEF ClientRecord
<1>10. ASSUME Hears(t, bad, k) PROVE new = Reads(client[k], Stretch(t, pty[t].cursor, n))
  BY <1>3, <1>10 DEF Reads
<1>. HIDE DEF new
<1>. QED  BY <1>1, <1>2, <1>7, <1>8, <1>9, <1>10

(* The terminal that wrote goes on; its subscribers are those reached.     *)
LEMMA OnDataToTerminals ==
  ASSUME PtyInv, NEW t \in Terminals, NEW n \in Nat \ {0}, NEW bad, OnData(t, n, bad)
  PROVE  /\ pty' \in [Terminals -> PtyRecord]
         /\ \A u \in Terminals : Kept(pty[u])' /\ pty'[u].status = pty[u].status
         /\ \A u \in Terminals : u # t => pty'[u] = pty[u]
         /\ pty'[t].cursor = pty[t].cursor + n
         /\ pty'[t].subscribers = Reached(t, bad)
<1>. DEFINE p == pty[t]
            b == Buffered(p, n)
            c == p.cursor + n
            new == [p EXCEPT !.subscribers = Reached(t, bad), !.cursor = b.cursor,
                             !.buffer = b.buffer, !.bufferCursor = b.bufferCursor]
<1>1. pty' = [pty EXCEPT ![t] = new]
  BY DEF OnData
<1>2. p \in PtyRecord /\ Kept(p) /\ pty \in [Terminals -> PtyRecord]
  BY PtyTypes DEF PtyInv, PtyTypeOK, PtyRecord
<1>3. /\ b.cursor = c /\ b.buffer \in Seq(Nat) /\ b.bufferCursor = AtLeast(0, c - BufferLimit)
      /\ b.buffer = Positions(AtLeast(0, c - BufferLimit), c - AtLeast(0, c - BufferLimit))
  <2>. HIDE DEF p
  <2>1. /\ Buffered(p, n).cursor = p.cursor + n /\ Buffered(p, n).buffer \in Seq(Nat)
        /\ Buffered(p, n).bufferCursor = AtLeast(0, (p.cursor + n) - BufferLimit)
        /\ Buffered(p, n).buffer = Positions(AtLeast(0, (p.cursor + n) - BufferLimit),
                                            (p.cursor + n) - AtLeast(0, (p.cursor + n) - BufferLimit))
    BY <1>2, BufferedKeeps
  <2>. QED  BY <2>1
<1>4. c \in Nat /\ AtLeast(0, c - BufferLimit) \in Nat
  BY <1>2, PtyAssumption DEF PtyRecord, AtLeast
<1>5. Reached(t, bad) \in Seq(Subscriber)
  BY ReachedIs DEF PtyInv
<1>. HIDE DEF b, c
<1>6. new \in PtyRecord /\ new.cursor = c /\ new.subscribers = Reached(t, bad) /\ new.status = p.status
      /\ new.buffer = b.buffer /\ new.bufferCursor = b.bufferCursor
  BY <1>2, <1>3, <1>4, <1>5 DEF PtyRecord
<1>. HIDE DEF new
<1>7. pty'[t] = new /\ \A u \in Terminals : u # t => pty'[u] = pty[u]
  BY <1>1, <1>2
<1>8. pty' \in [Terminals -> PtyRecord]
  BY <1>1, <1>2, <1>6
<1>9. ASSUME NEW u \in Terminals PROVE Kept(pty[u])' /\ pty'[u].status = pty[u].status
  <2>1. CASE u = t
    BY <1>3, <1>6, <1>7, <2>1 DEF Kept
  <2>2. CASE u # t
    BY <1>7, <2>2, PtyTypes DEF Kept, PtyInv
  <2>. QED  BY <2>1, <2>2
<1>. QED  BY <1>6, <1>7, <1>8, <1>9 DEF c

LEMMA OnDataKeeps ==
  ASSUME PtyInv, NEW t \in Terminals, NEW n \in Nat \ {0}, NEW bad, OnData(t, n, bad)
  PROVE  PtyInv'
<1>. USE DEF PtyInv
<1>1. UNCHANGED <<sessions, process, events, socket, nextKey, handlers>> /\ process[t] # "none"
  BY DEF OnData
<1>2. /\ pty' \in [Terminals -> PtyRecord]
      /\ \A u \in Terminals : Kept(pty[u])' /\ pty'[u].status = pty[u].status
      /\ \A u \in Terminals : u # t => pty'[u] = pty[u]
      /\ pty'[t].subscribers = Reached(t, bad)
  BY OnDataToTerminals
<1>3. ASSUME NEW k \in Keys
      PROVE  /\ client'[k] \in ClientRecord
             /\ Failed(t, bad, k) => client'[k] = NoClient
             /\ ~Failed(t, bad, k) => client'[k].of = client[k].of
  BY OnDataToClients
<1>4. /\ ToSet(Reached(t, bad)) = {x \in Subscribed(t) : Live(x) /\ x.socket \notin bad}
      /\ KeysDiffer(Reached(t, bad))
  BY ReachedIs DEF KeysAreNew
<1>5. /\ Subscribed(t)' = {x \in Subscribed(t) : Live(x) /\ x.socket \notin bad}
      /\ \A u \in Terminals : u # t => Subscribed(u)' = Subscribed(u)
      /\ \A u \in Terminals : Subscribed(u)' \subseteq Subscribed(u) /\ Subscribed(u) \subseteq Subscriber
      /\ \A x : Live(x)' = Live(x)
  BY <1>1, <1>2, <1>4, PtyTypes DEF Subscribed, Live, IsOpen, SameKey
<1>6. NoClient.of = 0 /\ \A k \in Keys : client[k].of = 0 \/ client[k].of \in Terminals
  BY PtyTypes, PtyAssumption DEF NoClient, ClientRecord, Terminals
<1>7. PtyTypeOK'
  <2>1. client' \in [Keys -> ClientRecord]
    BY <1>3 DEF OnData
  <2>. QED  BY <1>1, <1>2, <2>1 DEF PtyTypeOK, Kept, PtyRecord, ClientRecord
<1>8. Ages'
  BY <1>1, <1>2, <1>5 DEF Ages
<1>9. Followed'
  <2>. SUFFICES ASSUME NEW k \in Keys, client'[k].of # 0
                PROVE  \E x \in Subscribed(client[k].of)' : x.key = k /\ Live(x)'
    BY DEF Followed
  <2>1. ~Failed(t, bad, k) /\ client'[k].of = client[k].of
    BY <1>3, <1>6
  <2>2. PICK x \in Subscribed(client[k].of) : x.key = k /\ Live(x)
    BY <2>1 DEF Followed
  <2>3. x \in Subscribed(client[k].of)'
    BY <1>5, <1>6, <2>1, <2>2 DEF Failed
  <2>. QED  BY <1>5, <2>1, <2>2, <2>3
<1>10. Listening'
  <2>. SUFFICES ASSUME NEW u \in Terminals, NEW x \in Subscribed(u)', Live(x)'
                PROVE  client'[x.key].of = u
    BY DEF Listening
  <2>1. x \in Subscribed(u) /\ Live(x) /\ x.key \in Keys /\ client[x.key].of = u
    BY <1>5 DEF Listening, Subscriber
  <2>2. ASSUME Failed(t, bad, x.key) PROVE FALSE
    <3>1. PICK y \in Subscribed(t) : y.key = x.key /\ Live(y) /\ y.socket \in bad
      BY <2>2 DEF Failed
    <3>2. u = t
      BY <2>1, <3>1 DEF Listening
    <3>3. x = y
      BY <2>1, <3>1, <3>2 DEF KeysAreNew, KeysDiffer, Subscribed, ToSet
    <3>. QED  BY <1>5, <3>1, <3>2, <3>3
  <2>. QED  BY <1>3, <2>1, <2>2
<1>11. KeysAreNew'
  <2>1. \A u \in Terminals : KeysDiffer(pty[u].subscribers)'
    BY <1>2, <1>4 DEF KeysAreNew, KeysDiffer
  <2>. QED  BY <1>1, <1>5, <2>1 DEF KeysAreNew
<1>. QED  BY <1>7, <1>8, <1>9, <1>10, <1>11

(* Only the subscribers of terminal t change.                              *)
LEMMA SubscribersAlone ==
  ASSUME PtyTypeOK, NEW t \in Terminals, NEW list \in Seq(Subscriber),
         pty' = [pty EXCEPT ![t].subscribers = list]
  PROVE  /\ pty' \in [Terminals -> PtyRecord]
         /\ \A u \in Terminals : Kept(pty[u])' /\ pty'[u].status = pty[u].status /\ pty'[u].cursor = pty[u].cursor
         /\ \A u \in Terminals : u # t => pty'[u] = pty[u] /\ Subscribed(u)' = Subscribed(u)
         /\ pty'[t].subscribers = list /\ Subscribed(t)' = ToSet(list)
<1>1. pty \in [Terminals -> PtyRecord] /\ \A u \in Terminals : pty[u] \in PtyRecord /\ Kept(pty[u])
  BY PtyTypes DEF PtyTypeOK, PtyRecord
<1>2. /\ pty'[t] \in PtyRecord /\ pty'[t].subscribers = list /\ pty'[t].status = pty[t].status
      /\ pty'[t].cursor = pty[t].cursor /\ pty'[t].buffer = pty[t].buffer
      /\ pty'[t].bufferCursor = pty[t].bufferCursor
  BY <1>1 DEF PtyRecord
<1>3. \A u \in Terminals : u # t => pty'[u] = pty[u]
  BY <1>1
<1>4. pty' \in [Terminals -> PtyRecord]
  BY <1>1, <1>2
<1>5. ASSUME NEW u \in Terminals
      PROVE  Kept(pty[u])' /\ pty'[u].status = pty[u].status /\ pty'[u].cursor = pty[u].cursor
  BY <1>1, <1>2, <1>3 DEF Kept
<1>. QED  BY <1>2, <1>3, <1>4, <1>5 DEF Subscribed

(* What is sent at first: the part of the buffer from the position asked   *)
(* for (sendReplay).                                                       *)
LEMMA ReplayIs ==
  ASSUME NEW p \in PtyRecord, Kept(p), NEW asked \in Cursors
  PROVE  /\ Replay(p, asked) \in Seq(Nat)
         /\ asked < IntLimit =>
              Replay(p, asked) =
                LET from == Stream!Start(asked, p.cursor) IN Positions(from, p.cursor - from)
<1>. DEFINE c == p.cursor
            b == p.bufferCursor
            m == c - b
            cursor == Int32(asked)
            from == IF cursor = FromEnd THEN c ELSE AtLeast(0, cursor)
            offset == AtLeast(0, from - b)
<1>1. /\ c \in Nat /\ b = AtLeast(0, c - BufferLimit) /\ p.buffer = Positions(b, m)
      /\ BufferLimit \in Nat \ {0} /\ IntLimit \in Nat \ {0} /\ asked \in Int /\ asked >= FromEnd
  BY PtyAssumption DEF PtyRecord, Kept, FromEnd
<1>2. Replay(p, asked) = IF from >= c THEN <<>> ELSE SubSeq(p.buffer, offset + 1, Len(p.buffer))
  BY DEF Replay
<1>3. cursor \in Int /\ (asked < IntLimit => cursor = asked)
  BY <1>1 DEF Int32, FromEnd
<1>. HIDE DEF c, b, cursor
<1>4. b \in Nat /\ m \in Nat /\ b + m = c /\ from \in Nat
  BY <1>1, <1>3 DEF AtLeast
<1>5. Len(p.buffer) = m
  <2>. HIDE DEF m
  <2>. QED  BY <1>1, <1>4, PositionsAre
<1>. HIDE DEF from
<1>6. CASE from >= c
  <2>1. ASSUME asked < IntLimit PROVE Stream!Start(asked, c) = c
    BY <1>1, <1>3, <1>6, <2>1 DEF Stream!Start, FromEnd, AtLeast, from
  <2>2. c - c = 0 /\ Positions(c, 0) = <<>>
    BY <1>1 DEF Positions
  <2>. QED  BY <1>2, <1>6, <2>1, <2>2 DEF c
<1>7. CASE ~(from >= c)
  <2>1. offset \in 0 .. m /\ b + offset \in Nat
    BY <1>1, <1>4, <1>7 DEF AtLeast
  <2>2. m - offset = c - (b + offset)
    BY <1>1, <1>4, <2>1
  <2>3. ASSUME asked < IntLimit PROVE Stream!Start(asked, c) = b + offset
    BY <1>1, <1>3, <1>4, <1>7, <2>3 DEF Stream!Start, FromEnd, AtLeast, from
  <2>. HIDE DEF offset
  <2>4. SubSeq(p.buffer, offset + 1, Len(p.buffer)) = Positions(b + offset, m - offset)
    <3>. HIDE DEF m
    <3>1. SubSeq(Positions(b, m), offset + 1, m) = Positions(b + offset, m - offset)
      BY <1>4, <2>1, LastPositions
    <3>. QED  BY <1>1, <1>5, <3>1
  <2>5. Replay(p, asked) = Positions(b + offset, m - offset)
    BY <1>2, <1>7, <2>4
  <2>6. Positions(b + offset, m - offset) \in Seq(Nat)
    BY <1>4, <2>1, PositionsAre
  <2>. QED  BY <2>2, <2>3, <2>5, <2>6 DEF c
<1>. QED  BY <1>6, <1>7

LEMMA TaggedType ==
  ASSUME NEW t \in Terminals, NEW positions \in Seq(Nat)
  PROVE  Tagged(t, positions) \in Seq(Terminals \X Nat)
<1>1. \A i \in 1 .. Len(positions) : <<t, positions[i]>> \in Terminals \X Nat
  OBVIOUS
<1>. QED  BY <1>1 DEF Tagged

(* A client follows nothing or a terminal.                                 *)
LEMMA FollowsOne ==
  ASSUME PtyTypeOK
  PROVE  /\ NoClient \in ClientRecord /\ NoClient.of = 0 /\ 0 \notin Terminals
         /\ \A k \in Keys : client[k].of = 0 \/ client[k].of \in Terminals
  BY PtyTypes, PtyAssumption DEF NoClient, ClientRecord, Terminals

(* A connection whose replay is sent (connect).                            *)
LEMMA ConnectKeeps ==
  ASSUME PtyInv, NEW s \in Sockets, NEW t \in Terminals, NEW asked \in Cursors, Connect(s, t, asked)
  PROVE  PtyInv'
<1>. USE DEF PtyInv
<1>. DEFINE k == socket[s].key
            x == [socket |-> s, key |-> k]
            list == Append(Without(pty[t].subscribers, k), x)
            new == [of |-> t, asked |-> asked, end |-> pty[t].cursor, got |-> Tagged(t, Replay(pty[t], asked))]
<1>1. /\ socket[s].open /\ t \in sessions /\ client[k].of \in {0, t} /\ k \in Keys /\ k < nextKey
      /\ pty' = [pty EXCEPT ![t].subscribers = list]
      /\ client' = [client EXCEPT ![k] = new]
      /\ handlers' = handlers \cup {[terminal |-> t, key |-> k]}
      /\ UNCHANGED <<sessions, process, events, socket, nextKey>>
  <2>1. k \in Keys /\ k < nextKey
    BY DEF PtyTypeOK, KeysAreNew
  <2>2. pty' = [pty EXCEPT ![t].subscribers = list]
    BY DEF Connect
  <2>. QED  BY <2>1, <2>2 DEF Connect
<1>2. pty[t] \in PtyRecord /\ Kept(pty[t]) /\ x \in Subscriber
  BY <1>1, PtyTypes DEF Subscriber
<1>3. /\ list \in Seq(Subscriber)
      /\ ToSet(list) = {y \in Subscribed(t) : y.key # k} \cup {x}
      /\ KeysDiffer(list)
  <2>1. pty[t].subscribers \in Seq(Subscriber) /\ KeysDiffer(pty[t].subscribers)
    BY <1>2 DEF PtyRecord, KeysAreNew
  <2>. HIDE DEF k
  <2>. QED  BY <1>1, <2>1, SubscribedAgain DEF Subscribed
<1>4. x.socket = s /\ x.key = k
  OBVIOUS
<1>5. new \in ClientRecord /\ new.of = t
  <2>1. Tagged(t, Replay(pty[t], asked)) \in Seq(Terminals \X Nat)
    BY <1>2, ReplayIs, TaggedType
  <2>. QED  BY <1>2, <2>1, PtyAssumption DEF ClientRecord, PtyRecord, Terminals
<1>. HIDE DEF k, x, list, new
<1>6. /\ pty' \in [Terminals -> PtyRecord]
      /\ \A u \in Terminals : Kept(pty[u])' /\ pty'[u].status = pty[u].status
      /\ \A u \in Terminals : u # t => pty'[u] = pty[u] /\ Subscribed(u)' = Subscribed(u)
      /\ pty'[t].subscribers = list /\ Subscribed(t)' = {y \in Subscribed(t) : y.key # k} \cup {x}
  BY <1>1, <1>3, SubscribersAlone
<1>7. /\ client' \in [Keys -> ClientRecord] /\ client'[k] = new
      /\ \A l \in Keys : l # k => client'[l] = client[l]
  BY <1>1, <1>5 DEF PtyTypeOK, ClientRecord
<1>8. /\ \A y : Live(y)' = Live(y)
      /\ Live(x)
  BY <1>1, <1>4 DEF Live, IsOpen, SameKey, k
<1>9. PtyTypeOK'
  <2>1. handlers' \subseteq [terminal : Terminals, key : Keys]
    BY <1>1 DEF PtyTypeOK
  <2>. QED  BY <1>1, <1>6, <1>7, <2>1 DEF PtyTypeOK, Kept, PtyRecord, ClientRecord
<1>10. Ages'
  BY <1>1, <1>6 DEF Ages
<1>11. Followed'
  <2>. SUFFICES ASSUME NEW l \in Keys, client'[l].of # 0
                PROVE  \E y \in Subscribed(client[l].of)' : y.key = l /\ Live(y)'
    BY DEF Followed
  <2>1. CASE l = k
    BY <1>4, <1>5, <1>6, <1>7, <1>8, <2>1
  <2>2. CASE l # k
    <3>1. client'[l] = client[l] /\ client[l].of \in Terminals
      BY <1>7, <2>2, FollowsOne
    <3>2. PICK y \in Subscribed(client[l].of) : y.key = l /\ Live(y)
      BY <3>1 DEF Followed
    <3>3. y \in Subscribed(client[l].of)'
      BY <1>4, <1>6, <2>2, <3>1, <3>2
    <3>. QED  BY <1>8, <3>1, <3>2, <3>3
  <2>. QED  BY <2>1, <2>2
<1>12. Listening'
  <2>. SUFFICES ASSUME NEW u \in Terminals, NEW y \in Subscribed(u)', Live(y)'
                PROVE  client'[y.key].of = u
    BY DEF Listening
  <2>1. CASE u = t /\ y = x
    BY <1>4, <1>5, <1>7, <2>1
  <2>2. CASE ~(u = t /\ y = x)
    <3>1. y \in Subscribed(u) /\ (u = t => y.key # k)
      BY <1>6, <2>2
    <3>2. y.key \in Keys /\ client[y.key].of = u
      BY <1>8, <3>1, PtyTypes DEF Listening, Subscriber
    <3>3. y.key # k
      BY <1>1, <3>1, <3>2, FollowsOne
    <3>. QED  BY <1>7, <3>2, <3>3
  <2>. QED  BY <2>1, <2>2
<1>13. KeysAreNew'
  <2>1. \A u \in Terminals : KeysDiffer(pty[u].subscribers)'
    BY <1>3, <1>6 DEF KeysAreNew, KeysDiffer
  <2>2. \A u \in Terminals : \A y \in Subscribed(u)' : y.key < nextKey
    BY <1>1, <1>4, <1>6 DEF KeysAreNew
  <2>. QED  BY <1>1, <2>1, <2>2 DEF KeysAreNew
<1>. QED  BY <1>9, <1>10, <1>11, <1>12, <1>13

(* A step that lets clients go: none is gained, subscribers only leave,    *)
(* sockets only close, and those that are let go have no live subscription *)
(* left, and only those.                                                   *)
LEMMA LettingGoKeeps ==
  ASSUME PtyInv, PtyTypeOK', Ages',
         \A k \in Keys : client'[k] = client[k] \/ client'[k] = NoClient,
         \A t \in Terminals : Subscribed(t)' \subseteq Subscribed(t) /\ KeysDiffer(pty[t].subscribers)',
         \A s \in Sockets : socket'[s].key = socket[s].key /\ (socket'[s].open => socket[s].open),
         nextKey' = nextKey,
         \A t \in Terminals : \A x \in Subscribed(t) :
            Live(x) => \/ x \in Subscribed(t)' /\ Live(x)' /\ client'[x.key] = client[x.key]
                       \/ (x \in Subscribed(t)' => ~Live(x)') /\ client'[x.key] = NoClient
  PROVE  PtyInv'
<1>. USE DEF PtyInv
<1>1. Followed'
  <2>. SUFFICES ASSUME NEW k \in Keys, client'[k].of # 0
                PROVE  \E y \in Subscribed(client[k].of)' : y.key = k /\ Live(y)'
    BY DEF Followed
  <2>1. client'[k] = client[k] /\ client[k].of \in Terminals
    BY FollowsOne
  <2>2. PICK y \in Subscribed(client[k].of) : y.key = k /\ Live(y)
    BY <2>1 DEF Followed
  <2>3. y \in Subscribed(client[k].of)' /\ Live(y)'
    BY <2>1, <2>2, FollowsOne
  <2>. QED  BY <2>1, <2>2, <2>3
<1>2. Listening'
  <2>. SUFFICES ASSUME NEW t \in Terminals, NEW x \in Subscribed(t)', Live(x)'
                PROVE  client'[x.key].of = t
    BY DEF Listening
  <2>1. x \in Subscribed(t) /\ x \in Subscriber
    BY PtyTypes
  <2>2. Live(x)
    BY <2>1 DEF Live, IsOpen, SameKey, Subscriber
  <2>. QED  BY <2>1, <2>2 DEF Listening
<1>3. KeysAreNew'
  <2>1. \A t \in Terminals : KeysDiffer(pty[t].subscribers)' /\ \A x \in Subscribed(t)' : x.key < nextKey'
    BY DEF KeysAreNew
  <2>. QED  BY <2>1 DEF KeysAreNew
<1>. QED  BY <1>1, <1>2, <1>3

(* A socket is closed.                                                     *)
LEMMA SocketShut ==
  ASSUME PtyTypeOK, NEW s \in Sockets, socket' = [socket EXCEPT ![s].open = FALSE]
  PROVE  /\ socket' \in [Sockets -> [open : BOOLEAN, key : Keys]]
         /\ ~socket'[s].open
         /\ \A r \in Sockets : /\ socket'[r].key = socket[r].key
                               /\ r # s => socket'[r] = socket[r]
                               /\ socket'[r].open => socket[r].open
<1>1. socket \in [Sockets -> [open : BOOLEAN, key : Keys]]
  BY DEF PtyTypeOK
<1>2. socket'[s] = [open |-> FALSE, key |-> socket[s].key] /\ socket[s].key \in Keys
  BY <1>1
<1>3. \A r \in Sockets : r # s => socket'[r] = socket[r]
  BY <1>1
<1>4. socket' \in [Sockets -> [open : BOOLEAN, key : Keys]]
  BY <1>1, <1>2
<1>5. \A r \in Sockets : socket'[r].key = socket[r].key /\ (socket'[r].open => socket[r].open)
  BY <1>2, <1>3
<1>. QED  BY <1>2, <1>3, <1>4, <1>5

(* A connection whose replay cannot be sent.                               *)
LEMMA ConnectFailsKeeps ==
  ASSUME PtyInv, NEW s \in Sockets, NEW t \in Terminals, ConnectFails(s, t)
  PROVE  PtyInv'
<1>. USE DEF PtyInv
<1>. DEFINE k == socket[s].key
            list == Without(pty[t].subscribers, k)
<1>1. /\ client[k].of \in {0, t} /\ k \in Keys
      /\ pty' = [pty EXCEPT ![t].subscribers = list]
      /\ client' = [client EXCEPT ![k] = NoClient]
      /\ socket' = [socket EXCEPT ![s].open = FALSE]
      /\ UNCHANGED <<sessions, process, events, nextKey, handlers>>
  BY DEF ConnectFails, PtyTypeOK
<1>2. list \in Seq(Subscriber) /\ KeysDiffer(list) /\ ToSet(list) = {x \in Subscribed(t) : x.key # k}
  <2>1. pty[t].subscribers \in Seq(Subscriber) /\ KeysDiffer(pty[t].subscribers)
    BY PtyTypes DEF PtyRecord, KeysAreNew
  <2>. QED  BY <2>1, WithoutIs DEF Subscribed
<1>3. /\ socket' \in [Sockets -> [open : BOOLEAN, key : Keys]]
      /\ \A r \in Sockets : /\ socket'[r].key = socket[r].key
                            /\ r # s => socket'[r] = socket[r]
                            /\ socket'[r].open => socket[r].open
  BY <1>1, SocketShut
<1>. HIDE DEF k, list
<1>4. /\ pty' \in [Terminals -> PtyRecord]
      /\ \A u \in Terminals : Kept(pty[u])' /\ pty'[u].status = pty[u].status
      /\ \A u \in Terminals : u # t => pty'[u] = pty[u] /\ Subscribed(u)' = Subscribed(u)
      /\ pty'[t].subscribers = list /\ Subscribed(t)' = {x \in Subscribed(t) : x.key # k}
  BY <1>1, <1>2, SubscribersAlone
<1>5. /\ client' \in [Keys -> ClientRecord] /\ client'[k] = NoClient
      /\ \A l \in Keys : l # k => client'[l] = client[l]
  BY <1>1, FollowsOne DEF PtyTypeOK, ClientRecord
<1>6. PtyTypeOK'
  BY <1>1, <1>3, <1>4, <1>5 DEF PtyTypeOK, Kept, PtyRecord, ClientRecord
<1>7. Ages'
  BY <1>1, <1>4 DEF Ages
<1>8. \A u \in Terminals : Subscribed(u)' \subseteq Subscribed(u) /\ KeysDiffer(pty[u].subscribers)'
  BY <1>2, <1>4 DEF KeysAreNew, KeysDiffer
<1>9. ASSUME NEW u \in Terminals, NEW x \in Subscribed(u), Live(x)
      PROVE  \/ x \in Subscribed(u)' /\ Live(x)' /\ client'[x.key] = client[x.key]
             \/ (x \in Subscribed(u)' => ~Live(x)') /\ client'[x.key] = NoClient
  <2>1. x \in Subscriber /\ client[x.key].of = u
    BY <1>9, PtyTypes DEF Listening
  <2>2. x.key \in Keys /\ x.socket \in Sockets /\ socket[x.socket].key = x.key /\ socket[x.socket].open
    BY <1>9, <2>1 DEF Subscriber, Live, IsOpen, SameKey
  <2>3. CASE x.key = k
    BY <1>1, <1>4, <1>5, <2>1, <2>3, FollowsOne
  <2>4. CASE x.key # k
    <3>1. x.socket # s
      BY <2>2, <2>4 DEF k
    <3>2. Live(x)'
      <4>1. socket'[x.socket] = socket[x.socket]
        BY <1>3, <2>2, <3>1
      <4>. QED  BY <2>2, <4>1 DEF Live, IsOpen, SameKey
    <3>. QED  BY <1>4, <1>5, <2>2, <2>4, <3>2
  <2>. QED  BY <2>3, <2>4
<1>. QED  BY <1>1, <1>3, <1>5, <1>6, <1>7, <1>8, <1>9, LettingGoKeeps

LEMMA SocketGoneKeeps ==
  ASSUME PtyInv, NEW s \in Sockets, SocketCloses(s) \/ \E t \in Terminals : ConnectUnknown(s, t)
  PROVE  PtyInv'
<1>. USE DEF PtyInv
<1>. DEFINE k == socket[s].key
<1>1. /\ socket' = [socket EXCEPT ![s].open = FALSE] /\ k \in Keys
      /\ \/ client' = [client EXCEPT ![k] = NoClient]
         \/ client' = client /\ client[k].of = 0
      /\ UNCHANGED <<sessions, pty, process, events, nextKey, handlers>>
  BY DEF SocketCloses, ConnectUnknown, PtyTypeOK
<1>2. /\ socket' \in [Sockets -> [open : BOOLEAN, key : Keys]]
      /\ ~socket'[s].open
      /\ \A r \in Sockets : /\ socket'[r].key = socket[r].key
                            /\ r # s => socket'[r] = socket[r]
                            /\ socket'[r].open => socket[r].open
  BY <1>1, SocketShut
<1>. HIDE DEF k
<1>3. /\ client' \in [Keys -> ClientRecord] /\ (client'[k] = NoClient \/ (client'[k] = client[k] /\ client[k].of = 0))
      /\ \A l \in Keys : l # k => client'[l] = client[l]
  <2>1. client \in [Keys -> ClientRecord]
    BY DEF PtyTypeOK, ClientRecord
  <2>2. CASE client' = client /\ client[k].of = 0
    BY <2>1, <2>2
  <2>3. CASE client' = [client EXCEPT ![k] = NoClient]
    <3>1. NoClient \in ClientRecord
      BY FollowsOne
    <3>. QED  BY <1>1, <2>1, <2>3, <3>1
  <2>. QED  BY <1>1, <2>2, <2>3
<1>4. PtyTypeOK'
  BY <1>1, <1>2, <1>3 DEF PtyTypeOK, ClientRecord
<1>5. \A u \in Terminals : Subscribed(u)' = Subscribed(u) /\ KeysDiffer(pty[u].subscribers)'
  BY <1>1 DEF KeysAreNew, KeysDiffer, Subscribed
<1>6. Ages'
  BY <1>1, <1>5 DEF Ages
<1>7. ASSUME NEW u \in Terminals, NEW x \in Subscribed(u), Live(x)
      PROVE  \/ x \in Subscribed(u)' /\ Live(x)' /\ client'[x.key] = client[x.key]
             \/ (x \in Subscribed(u)' => ~Live(x)') /\ client'[x.key] = NoClient
  <2>1. x \in Subscriber /\ client[x.key].of = u
    BY <1>7, PtyTypes DEF Listening
  <2>2. x.key \in Keys /\ x.socket \in Sockets /\ socket[x.socket].key = x.key /\ socket[x.socket].open
    BY <1>7, <2>1 DEF Subscriber, Live, IsOpen, SameKey
  <2>3. CASE x.key = k
    <3>1. x.socket = s
      BY <2>2, <2>3 DEF KeysAreNew, k
    <3>2. client'[k] = NoClient
      BY <1>3, <2>1, <2>3, FollowsOne
    <3>. QED  BY <1>2, <2>3, <3>1, <3>2 DEF Live, IsOpen
  <2>4. CASE x.key # k
    <3>1. x.socket # s
      BY <2>2, <2>4 DEF k
    <3>2. Live(x)'
      <4>1. socket'[x.socket] = socket[x.socket]
        BY <1>2, <2>2, <3>1
      <4>. QED  BY <2>2, <4>1 DEF Live, IsOpen, SameKey
    <3>. QED  BY <1>3, <1>5, <2>2, <2>4, <3>2
  <2>. QED  BY <2>3, <2>4
<1>. QED  BY <1>1, <1>2, <1>3, <1>4, <1>5, <1>6, <1>7, LettingGoKeeps

LEMMA OnCloseKeeps == ASSUME PtyInv, NEW h, OnClose(h) PROVE PtyInv'
<1>. USE DEF PtyInv
<1>. DEFINE t == h.terminal
            k == h.key
            list == Without(pty[t].subscribers, k)
<1>1. /\ t \in Terminals /\ k \in Keys
      /\ pty' = [pty EXCEPT ![t].subscribers = list]
      /\ client' = [client EXCEPT ![k] = IF client[k].of = t THEN NoClient ELSE client[k]]
      /\ UNCHANGED <<sessions, process, events, socket, nextKey>>
  BY DEF OnClose, PtyTypeOK
<1>2. list \in Seq(Subscriber) /\ KeysDiffer(list) /\ ToSet(list) = {x \in Subscribed(t) : x.key # k}
  <2>1. pty[t].subscribers \in Seq(Subscriber) /\ KeysDiffer(pty[t].subscribers)
    BY <1>1, PtyTypes DEF PtyRecord, KeysAreNew
  <2>. QED  BY <2>1, WithoutIs DEF Subscribed
<1>3. handlers' \subseteq [terminal : Terminals, key : Keys]
  BY DEF OnClose, PtyTypeOK
<1>. HIDE DEF t, k, list
<1>4. /\ pty' \in [Terminals -> PtyRecord]
      /\ \A u \in Terminals : Kept(pty[u])' /\ pty'[u].status = pty[u].status
      /\ \A u \in Terminals : u # t => pty'[u] = pty[u] /\ Subscribed(u)' = Subscribed(u)
      /\ pty'[t].subscribers = list /\ Subscribed(t)' = {x \in Subscribed(t) : x.key # k}
  BY <1>1, <1>2, SubscribersAlone
<1>5. /\ client' \in [Keys -> ClientRecord] /\ client'[k] = IF client[k].of = t THEN NoClient ELSE client[k]
      /\ \A l \in Keys : l # k => client'[l] = client[l]
  BY <1>1, FollowsOne DEF PtyTypeOK, ClientRecord
<1>6. PtyTypeOK'
  BY <1>1, <1>3, <1>4, <1>5 DEF PtyTypeOK, Kept, PtyRecord, ClientRecord
<1>7. Ages'
  BY <1>1, <1>4 DEF Ages
<1>8. \A u \in Terminals : Subscribed(u)' \subseteq Subscribed(u) /\ KeysDiffer(pty[u].subscribers)'
  BY <1>2, <1>4 DEF KeysAreNew, KeysDiffer
<1>9. ASSUME NEW u \in Terminals, NEW x \in Subscribed(u), Live(x)
      PROVE  \/ x \in Subscribed(u)' /\ Live(x)' /\ client'[x.key] = client[x.key]
             \/ (x \in Subscribed(u)' => ~Live(x)') /\ client'[x.key] = NoClient
  <2>1. x.key \in Keys /\ client[x.key].of = u
    BY <1>9, PtyTypes DEF Listening, Subscriber
  <2>2. Live(x)'
    BY <1>1, <1>9 DEF Live, IsOpen, SameKey
  <2>3. CASE x.key = k
    BY <1>4, <1>5, <2>1, <2>2, <2>3
  <2>4. CASE x.key # k
    BY <1>4, <1>5, <2>1, <2>2, <2>4
  <2>. QED  BY <2>3, <2>4
<1>. QED  BY <1>1, <1>5, <1>6, <1>7, <1>8, <1>9, LettingGoKeeps

(* A socket object goes over to another connection.                        *)
LEMMA RecycleKeeps == ASSUME PtyInv, NEW s \in Sockets, Recycle(s) PROVE PtyInv'
<1>. USE DEF PtyInv
<1>. DEFINE k == socket[s].key
            new == [open |-> TRUE, key |-> nextKey]
<1>1. /\ k \in Keys /\ nextKey \in Keys /\ MaxKeys \in Nat
      /\ nextKey' = nextKey + 1
      /\ socket' = [socket EXCEPT ![s] = new]
      /\ client' = [client EXCEPT ![k] = NoClient]
      /\ UNCHANGED <<sessions, pty, process, events, handlers>>
  BY PtyAssumption DEF Recycle, PtyTypeOK, Keys
<1>2. new \in [open : BOOLEAN, key : Keys] /\ new.key = nextKey
  BY <1>1
<1>. HIDE DEF k, new
<1>3. /\ socket' \in [Sockets -> [open : BOOLEAN, key : Keys]] /\ socket'[s] = new
      /\ \A r \in Sockets : r # s => socket'[r] = socket[r]
  BY <1>1, <1>2 DEF PtyTypeOK
<1>4. /\ client' \in [Keys -> ClientRecord] /\ client'[k] = NoClient
      /\ \A l \in Keys : l # k => client'[l] = client[l]
  <2>1. client \in [Keys -> ClientRecord] /\ NoClient \in ClientRecord
    BY FollowsOne DEF PtyTypeOK, ClientRecord
  <2>. QED  BY <1>1, <2>1
<1>5. PtyTypeOK'
  <2>1. nextKey' \in 1 .. MaxKeys + 1
    BY <1>1 DEF Keys
  <2>. QED  BY <1>1, <1>3, <1>4, <2>1 DEF PtyTypeOK, ClientRecord
<1>6. \A u \in Terminals : Subscribed(u)' = Subscribed(u) /\ Subscribed(u) \subseteq Subscriber
  BY <1>1, PtyTypes DEF Subscribed
<1>7. Ages'
  BY <1>1, <1>6 DEF Ages
<1>8. Followed'
  <2>. SUFFICES ASSUME NEW l \in Keys, client'[l].of # 0
                PROVE  \E x \in Subscribed(client[l].of)' : x.key = l /\ Live(x)'
    BY DEF Followed
  <2>1. l # k /\ client'[l] = client[l] /\ client[l].of \in Terminals
    BY <1>4, FollowsOne
  <2>2. PICK x \in Subscribed(client[l].of) : x.key = l /\ Live(x)
    BY <2>1 DEF Followed
  <2>3. x.socket \in Sockets /\ socket[x.socket].key = l /\ socket[x.socket].open
    BY <1>6, <2>1, <2>2 DEF Subscriber, Live, IsOpen, SameKey
  <2>4. x.socket # s
    BY <2>1, <2>3 DEF k
  <2>5. socket'[x.socket] = socket[x.socket]
    BY <1>3, <2>3, <2>4
  <2>6. Live(x)'
    BY <2>2, <2>3, <2>5 DEF Live, IsOpen, SameKey
  <2>. QED  BY <1>6, <2>1, <2>2, <2>6
<1>9. Listening'
  <2>. SUFFICES ASSUME NEW u \in Terminals, NEW x \in Subscribed(u)', Live(x)'
                PROVE  client'[x.key].of = u
    BY DEF Listening
  <2>1. x \in Subscribed(u) /\ x.key \in Keys /\ x.socket \in Sockets /\ x.key < nextKey
    BY <1>6 DEF Subscriber, KeysAreNew
  <2>2. x.socket # s
    BY <1>1, <1>2, <1>3, <2>1 DEF Live, SameKey, Keys
  <2>3. socket'[x.socket] = socket[x.socket]
    BY <1>3, <2>1, <2>2
  <2>4. Live(x) /\ socket[x.socket].key = x.key
    BY <2>3 DEF Live, IsOpen, SameKey
  <2>5. x.key # k
    BY <2>1, <2>2, <2>4 DEF KeysAreNew, k
  <2>. QED  BY <1>4, <2>1, <2>4, <2>5 DEF Listening
<1>10. KeysAreNew'
  <2>1. \A t \in Terminals : KeysDiffer(pty[t].subscribers)'
    BY <1>1 DEF KeysAreNew, KeysDiffer
  <2>2. \A t \in Terminals : \A x \in Subscribed(t)' : x.key < nextKey'
    BY <1>1, <1>6 DEF KeysAreNew, Keys, Subscriber
  <2>3. \A r \in Sockets : r # s => socket'[r].key = socket[r].key /\ socket[r].key < nextKey /\ socket[r].key \in Keys
    BY <1>3 DEF KeysAreNew, PtyTypeOK
  <2>4. socket'[s].key = nextKey
    BY <1>2, <1>3
  <2>5. \A r \in Sockets : socket'[r].key < nextKey'
    BY <1>1, <2>3, <2>4 DEF Keys
  <2>6. ASSUME NEW q \in Sockets, NEW r \in Sockets, socket'[q].key = socket'[r].key PROVE q = r
    <3>1. CASE q # s /\ r # s
      BY <2>3, <2>6, <3>1 DEF KeysAreNew
    <3>2. CASE q = s \/ r = s
      BY <1>1, <2>3, <2>4, <2>6, <3>2 DEF Keys
    <3>. QED  BY <3>1, <3>2
  <2>. QED  BY <2>1, <2>2, <2>5, <2>6 DEF KeysAreNew
<1>. QED  BY <1>5, <1>7, <1>8, <1>9, <1>10

(* Terminals are removed, whatever becomes of their processes.             *)
LEMMA RemoveAllKeeps ==
  ASSUME PtyInv, NEW T \in SUBSET sessions, RemoveAll(T),
         process' \in [Terminals -> {"none", "running", "gone"}],
         \A t \in Terminals : process'[t] = process[t] \/ (t \in T /\ process'[t] = "gone")
  PROVE  PtyInv'
<1>. USE DEF PtyInv
<1>1. /\ T \subseteq Terminals /\ sessions' = sessions \ T
      /\ UNCHANGED <<nextKey, handlers>>
  BY DEF RemoveAll, PtyTypeOK
<1>2. \A t \in Terminals : pty[t] \in PtyRecord /\ Kept(pty[t]) /\ Subscribed(t) \subseteq Subscriber
  BY PtyTypes
<1>3. ASSUME NEW t \in Terminals
      PROVE  /\ pty'[t] \in PtyRecord /\ Kept(pty[t])' /\ pty'[t].cursor = pty[t].cursor
             /\ t \notin T => pty'[t] = pty[t]
             /\ t \in T => pty'[t].status = "exited" /\ pty'[t].subscribers = <<>>
  <2>1. CASE t \notin T
    <3>1. pty'[t] = pty[t]
      BY <2>1 DEF RemoveAll
    <3>. QED  BY <1>2, <2>1, <3>1 DEF Kept
  <2>2. CASE t \in T
    <3>1. pty'[t] = [pty[t] EXCEPT !.status = "exited", !.subscribers = <<>>]
      BY <2>2 DEF RemoveAll
    <3>2. /\ pty'[t] \in PtyRecord /\ pty'[t].cursor = pty[t].cursor /\ pty'[t].buffer = pty[t].buffer
          /\ pty'[t].bufferCursor = pty[t].bufferCursor
          /\ pty'[t].status = "exited" /\ pty'[t].subscribers = <<>>
      <4>1. pty[t] \in PtyRecord /\ <<>> \in Seq(Subscriber)
        BY <1>2
      <4>. QED  BY <3>1, <4>1 DEF PtyRecord
    <3>. QED  BY <1>2, <2>2, <3>2 DEF Kept
  <2>. QED  BY <2>1, <2>2
<1>4. pty' \in [Terminals -> PtyRecord]
  <2>1. pty' = [t \in Terminals |-> pty'[t]]
    BY DEF RemoveAll
  <2>. QED  BY <1>3, <2>1
<1>5. ASSUME NEW t \in Terminals
      PROVE  /\ t \in T => Subscribed(t)' = {}
             /\ t \notin T => Subscribed(t)' = Subscribed(t)
             /\ KeysDiffer(pty[t].subscribers)'
  BY <1>3 DEF Subscribed, ToSet, KeysDiffer, KeysAreNew
<1>6. ASSUME NEW s \in Sockets
      PROVE  /\ socket'[s] \in [open : BOOLEAN, key : Keys] /\ socket'[s].key = socket[s].key
             /\ s \notin Closes(T) => socket'[s] = socket[s]
             /\ s \in Closes(T) => ~socket'[s].open
             /\ socket'[s].open => socket[s].open
  <2>. DEFINE b == socket[s].open /\ s \notin Closes(T)
  <2>1. socket'[s] = [socket[s] EXCEPT !.open = b] /\ socket[s] \in [open : BOOLEAN, key : Keys]
    BY DEF RemoveAll, PtyTypeOK
  <2>2. b \in BOOLEAN
    OBVIOUS
  <2>3. /\ s \notin Closes(T) => b = socket[s].open
        /\ s \in Closes(T) => b = FALSE
        /\ b => socket[s].open
    BY <2>1
  <2>. HIDE DEF b
  <2>. QED  BY <2>1, <2>2, <2>3
<1>7. socket' \in [Sockets -> [open : BOOLEAN, key : Keys]]
  <2>1. socket' = [s \in Sockets |-> socket'[s]]
    BY DEF RemoveAll
  <2>. QED  BY <1>6, <2>1
<1>8. ASSUME NEW k \in Keys
      PROVE  /\ client'[k] = NoClient \/ client'[k] = client[k]
             /\ client'[k] = NoClient \/ ~ \E s \in Closes(T) : socket[s].key = k
             /\ (\E s \in Closes(T) : socket[s].key = k) => client'[k] = NoClient
             /\ (~ \E s \in Closes(T) : socket[s].key = k) => client'[k] = client[k]
  BY DEF RemoveAll
<1>9. client' \in [Keys -> ClientRecord]
  <2>1. client' = [k \in Keys |-> client'[k]]
    BY DEF RemoveAll
  <2>2. \A k \in Keys : client[k] \in ClientRecord
    BY PtyTypes
  <2>. QED  BY <1>8, <2>1, <2>2, FollowsOne
<1>10. \A t \in Terminals : events'[t] = IF t \in T THEN <<"created", "exited", "deleted">> ELSE events[t]
  <2>1. \A t \in T : events[t] = <<"created">>
    BY <1>1 DEF Ages
  <2>2. <<"created">> \o <<"exited", "deleted">> = <<"created", "exited", "deleted">>
    <3>. DEFINE S == {"created", "exited", "deleted"}
                a == <<"created">>
                b == <<"exited", "deleted">>
                c == <<"created", "exited", "deleted">>
    <3>1. a \in Seq(S) /\ Len(a) = 1 /\ a[1] = "created"
      OBVIOUS
    <3>2. b \in Seq(S) /\ Len(b) = 2 /\ b[1] = "exited" /\ b[2] = "deleted"
      OBVIOUS
    <3>3. c \in Seq(S) /\ Len(c) = 3 /\ c[1] = "created" /\ c[2] = "exited" /\ c[3] = "deleted"
      OBVIOUS
    <3>. HIDE DEF a, b, c
    <3>4. /\ a \o b \in Seq(S) /\ Len(a \o b) = 3
          /\ (a \o b)[1] = "created" /\ (a \o b)[2] = "exited" /\ (a \o b)[3] = "deleted"
      BY <3>1, <3>2, ConcatProperties
    <3>5. \A i \in 1 .. 3 : i = 1 \/ i = 2 \/ i = 3
      OBVIOUS
    <3>6. a \o b = c
      BY <3>3, <3>4, <3>5, SeqEqual
    <3>. QED  BY <3>6 DEF a, b, c
  <2>. QED  BY <2>1, <2>2 DEF RemoveAll
<1>11. PtyTypeOK'
  <2>1. events' \in [Terminals -> Seq({"created", "exited", "deleted"})]
    <3>1. events' = [t \in Terminals |-> events'[t]]
      BY DEF RemoveAll
    <3>2. <<"created", "exited", "deleted">> \in Seq({"created", "exited", "deleted"})
      OBVIOUS
    <3>. QED  BY <1>10, <3>1, <3>2 DEF PtyTypeOK
  <2>. QED  BY <1>1, <1>3, <1>4, <1>7, <1>9, <2>1 DEF PtyTypeOK, Kept, PtyRecord, ClientRecord
<1>12. Ages'
  <2>. SUFFICES ASSUME NEW t \in Terminals
                PROVE /\ \/ t \notin sessions' /\ process'[t] = "none" /\ pty'[t].status = "none" /\ events'[t] = <<>>
                         \/ t \in sessions' /\ process'[t] = "running" /\ pty'[t].status = "running"
                            /\ events'[t] = <<"created">>
                         \/ /\ t \notin sessions' /\ process'[t] \in {"running", "gone"} /\ pty'[t].status = "exited"
                            /\ events'[t] = <<"created", "exited", "deleted">>
                      /\ Subscribed(t)' # {} => t \in sessions'
    BY DEF Ages
  <2>1. CASE t \in T
    <3>1. process[t] = "running"
      BY <2>1 DEF Ages
    <3>. QED  BY <1>1, <1>3, <1>5, <1>10, <2>1, <3>1
  <2>2. CASE t \notin T
    BY <1>1, <1>3, <1>5, <1>10, <2>2 DEF Ages
  <2>. QED  BY <2>1, <2>2
<1>13. \A x : x \in Closes(T) <=> \E t \in T : \E y \in Subscribed(t) : SameKey(y) /\ y.socket = x
  BY DEF Closes, Subscribed
<1>14. ASSUME NEW t \in Terminals, NEW x \in Subscribed(t), Live(x)
       PROVE  \/ x \in Subscribed(t)' /\ Live(x)' /\ client'[x.key] = client[x.key]
              \/ (x \in Subscribed(t)' => ~Live(x)') /\ client'[x.key] = NoClient
  <2>1. x \in Subscriber
    BY <1>2
  <2>2. x.key \in Keys /\ x.socket \in Sockets /\ socket[x.socket].key = x.key /\ SameKey(x)
    BY <1>14, <2>1 DEF Subscriber, Live, SameKey
  <2>3. CASE x.socket \in Closes(T)
    <3>1. client'[x.key] = NoClient
      BY <1>8, <2>2, <2>3
    <3>2. ~Live(x)'
      BY <1>6, <2>2, <2>3 DEF Live, IsOpen
    <3>. QED  BY <3>1, <3>2
  <2>4. CASE x.socket \notin Closes(T)
    <3>1. t \notin T
      BY <1>13, <2>2, <2>4
    <3>2. ~ \E s \in Closes(T) : socket[s].key = x.key
      <4>. SUFFICES ASSUME NEW s \in Closes(T), socket[s].key = x.key PROVE FALSE
        OBVIOUS
      <4>1. s \in Sockets
        BY <1>1, <1>2, <1>13 DEF Subscriber
      <4>. QED  BY <2>2, <2>4, <4>1 DEF KeysAreNew
    <3>3. socket'[x.socket] = socket[x.socket]
      BY <1>6, <2>2, <2>4
    <3>4. Live(x)'
      BY <1>14, <3>3 DEF Live, IsOpen, SameKey
    <3>. QED  BY <1>5, <1>8, <2>2, <3>1, <3>2, <3>4
  <2>. QED  BY <2>3, <2>4
<1>. QED  BY <1>1, <1>5, <1>6, <1>8, <1>11, <1>12, <1>14, LettingGoKeeps

(* The process exits, of itself or killed (onExit).                        *)
LEMMA ExitKeeps == ASSUME PtyInv, NEW t \in Terminals, OnExit(t) PROVE PtyInv'
<1>. USE DEF PtyInv
<1>1. /\ process[t] = "running" /\ process' = [process EXCEPT ![t] = "gone"]
      /\ process' \in [Terminals -> {"none", "running", "gone"}]
  BY DEF OnExit, PtyTypeOK
<1>2. CASE pty[t].status = "running" /\ RemoveAll({t})
  <2>1. t \in sessions
    BY <1>2 DEF Ages
  <2>2. \A u \in Terminals : process'[u] = process[u] \/ (u \in {t} /\ process'[u] = "gone")
    BY <1>1 DEF PtyTypeOK
  <2>. QED  BY <1>1, <1>2, <2>1, <2>2, RemoveAllKeeps
<1>3. CASE /\ pty[t].status = "exited"
           /\ UNCHANGED <<sessions, pty, events, socket, nextKey, handlers, client>>
  <2>1. \A u \in Terminals : Subscribed(u)' = Subscribed(u) /\ KeysDiffer(pty[u].subscribers)'
    BY <1>3 DEF Subscribed, KeysDiffer, KeysAreNew
  <2>2. PtyTypeOK'
    BY <1>1, <1>3 DEF PtyTypeOK
  <2>3. Ages'
    BY <1>1, <1>3, <2>1 DEF Ages, PtyTypeOK
  <2>4. \A x : Live(x)' = Live(x)
    BY <1>3 DEF Live, IsOpen, SameKey
  <2>. QED  BY <1>3, <2>1, <2>2, <2>3, <2>4, LettingGoKeeps
<1>. QED  BY <1>2, <1>3 DEF OnExit

LEMMA PtyInvNext == PtyInv /\ [PtyNext]_ptyVars => PtyInv'
<1>. SUFFICES ASSUME PtyInv, [PtyNext]_ptyVars PROVE PtyInv'
  OBVIOUS
<1>1. ASSUME NEW t \in Terminals, Create(t) PROVE PtyInv'
  BY <1>1, CreateKeeps
<1>2. ASSUME NEW t \in Terminals, RemovePty(t) PROVE PtyInv'
  <2>1. {t} \in SUBSET sessions /\ RemoveAll({t}) /\ process' = process
    BY <1>2 DEF RemovePty
  <2>. QED  BY <2>1, RemoveAllKeeps DEF PtyInv, PtyTypeOK
<1>3. ASSUME NEW t \in Terminals, OnExit(t) PROVE PtyInv'
  BY <1>3, ExitKeeps
<1>4. CASE Dispose
  <2>1. sessions \in SUBSET sessions /\ RemoveAll(sessions) /\ process' = process
    BY <1>4 DEF Dispose
  <2>. QED  BY <2>1, RemoveAllKeeps DEF PtyInv, PtyTypeOK
<1>5. ASSUME NEW t \in Terminals, NEW n \in Chunks, NEW bad \in SUBSET Sockets, OnData(t, n, bad) PROVE PtyInv'
  <2>1. n \in Nat \ {0}
    BY PtyAssumption
  <2>. QED  BY <1>5, <2>1, OnDataKeeps
<1>6. ASSUME NEW s \in Sockets, NEW t \in Terminals, ConnectUnknown(s, t) \/ ConnectFails(s, t) PROVE PtyInv'
  BY <1>6, SocketGoneKeeps, ConnectFailsKeeps
<1>7. ASSUME NEW s \in Sockets, NEW t \in Terminals, NEW asked \in Cursors, Connect(s, t, asked) PROVE PtyInv'
  BY <1>7, ConnectKeeps
<1>8. ASSUME NEW s \in Sockets, SocketCloses(s) \/ Recycle(s) PROVE PtyInv'
  BY <1>8, SocketGoneKeeps, RecycleKeeps
<1>9. ASSUME NEW h \in handlers, OnClose(h) PROVE PtyInv'
  BY <1>9, OnCloseKeeps
<1>10. CASE UNCHANGED ptyVars
  <2>1. \A u \in Terminals : Subscribed(u)' = Subscribed(u) /\ KeysDiffer(pty[u].subscribers)'
    BY <1>10 DEF Subscribed, KeysDiffer, KeysAreNew, PtyInv, ptyVars
  <2>2. PtyTypeOK'
    BY <1>10 DEF PtyTypeOK, PtyInv, ptyVars
  <2>3. Ages'
    BY <1>10, <2>1 DEF Ages, PtyInv, ptyVars
  <2>4. \A x : Live(x)' = Live(x)
    BY <1>10 DEF Live, IsOpen, SameKey, ptyVars
  <2>. QED  BY <1>10, <2>1, <2>2, <2>3, <2>4, LettingGoKeeps DEF ptyVars
<1>. QED  BY <1>1, <1>2, <1>3, <1>4, <1>5, <1>6, <1>7, <1>8, <1>9, <1>10 DEF PtyNext

LEMMA PtyInvAlways == PtySpec => []PtyInv
  BY PtyInvInit, PtyInvNext, PTL DEF PtySpec

(* Every variable keeps its type, and the buffer of a terminal is the last *)
(* of its output (PtyService.PtyTypeOK).                                   *)
THEOREM PtyTypeCorrect == PtySpec => []PtyTypeOK
<1>1. PtyInv => PtyTypeOK
  BY DEF PtyInv
<1>. QED  BY PtyInvAlways, <1>1, PTL

(* A terminal ends once, however its removal, the disposal of the server   *)
(* and the exit of its process meet, and its clients are let go (remove,   *)
(* onExit, closeSubscribers).                                              *)
THEOREM TerminalsEndOnce == PtySpec => []EndsOnce
<1>1. PtyInv => EndsOnce
  <2>. SUFFICES ASSUME PtyInv, NEW t \in Terminals
                PROVE  /\ IsPrefix(events[t], <<"created", "exited", "deleted">>)
                       /\ t \in sessions <=> events[t] = <<"created">>
                       /\ t \notin sessions => \A k \in Keys : client[k].of # t
    BY DEF EndsOnce
  <2>1. events[t] \in {<<>>, <<"created">>, <<"created", "exited", "deleted">>}
    BY DEF PtyInv, Ages
  <2>2. IsPrefix(events[t], <<"created", "exited", "deleted">>)
    <3>. DEFINE S == {"created", "exited", "deleted"}
                e == <<"created">>
                all == <<"created", "exited", "deleted">>
    <3>1. all \in Seq(S) /\ Len(all) = 3 /\ all[1] = "created"
      OBVIOUS
    <3>2. e \in Seq(S) /\ Len(e) = 1 /\ e[1] = "created"
      OBVIOUS
    <3>. HIDE DEF S, e, all
    <3>3. CASE events[t] = <<>>
      <4>1. SubSeq(<<>>, 1, 0) = <<>> /\ SubSeq(all, 1, 0) = <<>> /\ Len(<<>>) = 0
        BY SubSeqEmpty
      <4>. QED  BY <3>1, <3>3, <4>1 DEF IsPrefix, all
    <3>4. CASE events[t] = e
      <4>1. SubSeq(e, 1, 1) = SubSeq(all, 1, 1)
        <5>1. \A i \in 1 .. 1 : e[i] \in S /\ all[i] \in S
          BY <3>1, <3>2
        <5>2. /\ SubSeq(e, 1, 1) \in Seq(S) /\ Len(SubSeq(e, 1, 1)) = 1
              /\ \A i \in 1 .. 1 : SubSeq(e, 1, 1)[i] = e[i]
          BY <5>1, SubSeqProperties
        <5>3. /\ SubSeq(all, 1, 1) \in Seq(S) /\ Len(SubSeq(all, 1, 1)) = 1
              /\ \A i \in 1 .. 1 : SubSeq(all, 1, 1)[i] = all[i]
          BY <5>1, SubSeqProperties
        <5>4. \A i \in 1 .. 1 : SubSeq(e, 1, 1)[i] = SubSeq(all, 1, 1)[i]
          BY <3>1, <3>2, <5>2, <5>3
        <5>. QED  BY <5>2, <5>3, <5>4, SeqEqual
      <4>2. IsPrefix(e, all)
        BY <3>1, <3>2, <4>1 DEF IsPrefix
      <4>. QED  BY <3>4, <4>2 DEF all
    <3>5. CASE events[t] = all
      BY <3>1, <3>5 DEF IsPrefix, all
    <3>. QED  BY <2>1, <3>3, <3>4, <3>5 DEF e, all
  <2>3. t \in sessions <=> events[t] = <<"created">>
    <3>1. Len(<<"created">>) = 1 /\ Len(<<>>) = 0 /\ Len(<<"created", "exited", "deleted">>) = 3
      OBVIOUS
    <3>. QED  BY <3>1 DEF PtyInv, Ages
  <2>4. ASSUME t \notin sessions, NEW k \in Keys PROVE client[k].of # t
    <3>1. Subscribed(t) = {}
      BY <2>4 DEF PtyInv, Ages
    <3>2. t # 0
      BY FollowsOne DEF PtyInv
    <3>. QED  BY <3>1, <3>2 DEF PtyInv, Followed
  <2>. QED  BY <2>2, <2>3, <2>4
<1>. QED  BY PtyInvAlways, <1>1, PTL

(* Steps after which every client reads on or has detached.                *)
LEMMA DetachingSteps ==
  ASSUME PtyInv, PtyInv', \A t \in Terminals : pty'[t].cursor = pty[t].cursor,
         \A k \in Keys : client'[k] = client[k] \/ client'[k] = NoClient
  PROVE  Stream!Detach
<1>1. [t \in Terminals |-> pty'[t].cursor] = [t \in Terminals |-> pty[t].cursor]
  OBVIOUS
<1>2. NoClient = Stream!Detached
  BY DEF NoClient, Stream!Detached
<1>. QED  BY <1>1, <1>2 DEF Stream!Detach

(* Output is written to the stream.                                        *)
LEMMA OutputIsWritten ==
  ASSUME PtyInv, NEW t \in Terminals, NEW n \in Nat \ {0}, NEW bad, OnData(t, n, bad)
  PROVE  Stream!Write(t)
<1>. DEFINE written == [u \in Terminals |-> pty[u].cursor]
            c == pty[t].cursor
<1>1. c \in Nat /\ n \in Nat /\ n > 0
  BY PtyTypes DEF PtyInv, PtyRecord
<1>2. /\ pty'[t].cursor = c + n
      /\ \A u \in Terminals : u # t => pty'[u].cursor = pty[u].cursor
  BY OnDataToTerminals
<1>3. /\ written'[t] = c + n /\ written[t] = c
      /\ written' = [written EXCEPT ![t] = written'[t]]
  BY <1>2
<1>4. NoClient = Stream!Detached
  BY DEF NoClient, Stream!Detached
<1>5. Stretch(t, c, n) = Stream!Stretch(t, written[t], written'[t])
  <2>1. (c + n) - c = n
    BY <1>1
  <2>2. Stream!Stretch(t, c, c + n) = Stretch(t, c, n)
    BY <2>1 DEF Stretch, Stream!Stretch
  <2>. QED  BY <1>3, <2>2
<1>6. ASSUME NEW k \in Keys
      PROVE  \/ client[k].of # t /\ client'[k] = client[k]
             \/ client[k].of = t /\ client'[k] = Stream!Detached
             \/ client[k].of = t /\ client'[k] = Reads(client[k], Stretch(t, c, n))
  <2>1. /\ Failed(t, bad, k) => client'[k] = NoClient
        /\ ~Failed(t, bad, k) => /\ ~Hears(t, bad, k) => client'[k] = client[k]
                                 /\ Hears(t, bad, k) => client'[k] = Reads(client[k], Stretch(t, c, n))
    BY OnDataToClients
  <2>2. Failed(t, bad, k) \/ Hears(t, bad, k) => client[k].of = t
    BY DEF Failed, Hears, PtyInv, Listening
  <2>3. client[k].of = t => Failed(t, bad, k) \/ Hears(t, bad, k)
    <3>1. t # 0
      BY FollowsOne DEF PtyInv
    <3>. QED  BY <3>1 DEF Failed, Hears, PtyInv, Followed
  <2>. QED  BY <1>4, <2>1, <2>2, <2>3
<1>7. ASSUME NEW k \in Keys, client'[k] = Reads(client[k], Stretch(t, c, n))
      PROVE  client'[k] = [client[k] EXCEPT !.got = @ \o Stream!Stretch(t, written[t], written'[t])]
  BY <1>5, <1>7 DEF Reads
<1>8. written'[t] > written[t]
  BY <1>1, <1>3
<1>. HIDE DEF c
<1>. QED  BY <1>3, <1>6, <1>7, <1>8 DEF Stream!Write

(* A connection attaches its client.                                       *)
LEMMA ConnectionsAttach ==
  ASSUME \A a \in Cursors : a < IntLimit, PtyInv,
         NEW s \in Sockets, NEW t \in Terminals, NEW asked \in Cursors, Connect(s, t, asked)
  PROVE  \E k \in Keys : Stream!Attach(k, t)
<1>. DEFINE written == [u \in Terminals |-> pty[u].cursor]
            k == socket[s].key
            list == Append(Without(pty[t].subscribers, k), [socket |-> s, key |-> k])
            c == pty[t].cursor
            from == Stream!Start(asked, c)
            new == [of |-> t, asked |-> asked, end |-> c, got |-> Tagged(t, Replay(pty[t], asked))]
<1>1. /\ client[k].of \in {0, t} /\ k \in Keys
      /\ pty' = [pty EXCEPT ![t].subscribers = list]
      /\ client' = [client EXCEPT ![k] = new]
  <2>1. k \in Keys
    BY DEF PtyInv, PtyTypeOK
  <2>2. pty' = [pty EXCEPT ![t].subscribers = list]
    BY DEF Connect
  <2>. QED  BY <2>1, <2>2 DEF Connect
<1>2. pty[t] \in PtyRecord /\ Kept(pty[t])
  BY PtyTypes DEF PtyInv
<1>3. written' = written
  <2>1. pty[t].subscribers \in Seq(Subscriber)
    BY <1>2 DEF PtyRecord
  <2>2. list \in Seq(Subscriber)
    <3>. HIDE DEF k
    <3>. QED  BY <1>1, <2>1, SubscribedAgain
  <2>. HIDE DEF list
  <2>3. \A u \in Terminals : pty'[u].cursor = pty[u].cursor
    BY <1>1, <2>2, SubscribersAlone DEF PtyInv
  <2>. QED  BY <2>3
<1>4. Tagged(t, Replay(pty[t], asked)) = Stream!Stretch(t, from, c)
  <2>1. Replay(pty[t], asked) = Positions(from, c - from)
    BY <1>2, ReplayIs
  <2>. HIDE DEF from, c
  <2>2. Tagged(t, Positions(from, c - from)) = [i \in 1 .. c - from |-> <<t, from + i>>]
    BY DEF Tagged, Positions
  <2>. QED  BY <2>1, <2>2 DEF Stream!Stretch
<1>5. written[t] = c
  OBVIOUS
<1>. HIDE DEF written, k, from, c
<1>6. new = [of |-> t, asked |-> asked, end |-> written[t], got |-> Stream!Stretch(t, Stream!Start(asked, written[t]), written[t])]
  BY <1>4, <1>5 DEF from
<1>7. client'[k] = new /\ new.asked = asked
  BY <1>1 DEF PtyInv, PtyTypeOK
<1>. HIDE DEF new
<1>8. Stream!Attach(k, t)
  BY <1>1, <1>3, <1>6, <1>7 DEF Stream!Attach, written
<1>. QED  BY <1>1, <1>8

(* Every step of the service is one of the stream, or none.                *)
LEMMA StepsOfTheStream ==
  ASSUME \A a \in Cursors : a < IntLimit, PtyInv, PtyInv', [PtyNext]_ptyVars
  PROVE  [Stream!Next]_Stream!vars
<1>0. ASSUME \A t \in Terminals : pty'[t].cursor = pty[t].cursor, client' = client
      PROVE  UNCHANGED Stream!vars
  <2>1. [t \in Terminals |-> pty'[t].cursor] = [t \in Terminals |-> pty[t].cursor]
    BY <1>0
  <2>. QED  BY <1>0, <2>1 DEF Stream!vars
<1>1. ASSUME NEW t \in Terminals, Create(t) PROVE UNCHANGED Stream!vars
  <2>1. client' = client
    BY <1>1 DEF Create
  <2>2. pty' = [pty EXCEPT ![t].status = "running"] /\ \A u \in Terminals : pty[u] \in PtyRecord
    BY <1>1, PtyTypes DEF Create, PtyInv
  <2>3. \A u \in Terminals : pty'[u].cursor = pty[u].cursor
    BY <2>2 DEF PtyInv, PtyTypeOK, PtyRecord
  <2>. QED  BY <1>0, <2>1, <2>3
<1>2. ASSUME NEW T \in SUBSET sessions, RemoveAll(T) PROVE Stream!Detach
  <2>1. \A t \in Terminals : pty[t] \in PtyRecord
    BY PtyTypes DEF PtyInv
  <2>2. ASSUME NEW t \in Terminals PROVE pty'[t].cursor = pty[t].cursor
    <3>1. pty'[t] = IF t \in T THEN [pty[t] EXCEPT !.status = "exited", !.subscribers = <<>>] ELSE pty[t]
      BY <1>2 DEF RemoveAll
    <3>. QED  BY <2>1, <3>1 DEF PtyRecord
  <2>3. \A k \in Keys : client'[k] = client[k] \/ client'[k] = NoClient
    BY <1>2 DEF RemoveAll
  <2>. QED  BY <2>2, <2>3, DetachingSteps
<1>3. ASSUME NEW t \in Terminals, RemovePty(t) PROVE Stream!Detach
  BY <1>2, <1>3 DEF RemovePty
<1>4. ASSUME Dispose PROVE Stream!Detach
  BY <1>2, <1>4 DEF Dispose
<1>5. ASSUME NEW t \in Terminals, OnExit(t) PROVE Stream!Detach \/ UNCHANGED Stream!vars
  <2>1. CASE pty[t].status = "running" /\ RemoveAll({t})
    <3>1. t \in sessions
      BY <2>1 DEF PtyInv, Ages
    <3>. QED  BY <1>2, <2>1, <3>1
  <2>2. CASE UNCHANGED <<pty, client>>
    BY <1>0, <2>2
  <2>. QED  BY <1>5, <2>1, <2>2 DEF OnExit
<1>6. ASSUME NEW t \in Terminals, NEW n \in Chunks, NEW bad \in SUBSET Sockets, OnData(t, n, bad)
      PROVE  Stream!Write(t)
  <2>1. n \in Nat \ {0}
    BY PtyAssumption
  <2>. QED  BY <1>6, <2>1, OutputIsWritten
<1>7. ASSUME NEW s \in Sockets, NEW t \in Terminals, ConnectUnknown(s, t) PROVE UNCHANGED Stream!vars
  BY <1>0, <1>7 DEF ConnectUnknown
<1>8. ASSUME NEW s \in Sockets, NEW t \in Terminals, ConnectFails(s, t) PROVE Stream!Detach
  <2>. DEFINE list == Without(pty[t].subscribers, socket[s].key)
  <2>1. /\ pty' = [pty EXCEPT ![t].subscribers = list]
        /\ client' = [client EXCEPT ![socket[s].key] = NoClient]
    BY <1>8 DEF ConnectFails
  <2>2. list \in Seq(Subscriber)
    BY PtyTypes, WithoutIs DEF PtyInv, PtyRecord
  <2>. HIDE DEF list
  <2>3. \A u \in Terminals : pty'[u].cursor = pty[u].cursor
    BY <2>1, <2>2, SubscribersAlone DEF PtyInv
  <2>4. \A k \in Keys : client'[k] = client[k] \/ client'[k] = NoClient
    BY <2>1 DEF PtyInv, PtyTypeOK
  <2>. QED  BY <2>3, <2>4, DetachingSteps
<1>9. ASSUME NEW s \in Sockets, NEW t \in Terminals, NEW asked \in Cursors, Connect(s, t, asked)
      PROVE  \E k \in Keys : Stream!Attach(k, t)
  BY <1>9, ConnectionsAttach
<1>10. ASSUME NEW s \in Sockets, SocketCloses(s) \/ Recycle(s) PROVE Stream!Detach
  <2>1. pty' = pty /\ client' = [client EXCEPT ![socket[s].key] = NoClient]
    BY <1>10 DEF SocketCloses, Recycle
  <2>2. \A k \in Keys : client'[k] = client[k] \/ client'[k] = NoClient
    BY <2>1 DEF PtyInv, PtyTypeOK
  <2>. QED  BY <2>1, <2>2, DetachingSteps
<1>11. ASSUME NEW h \in handlers, OnClose(h) PROVE Stream!Detach
  <2>. DEFINE t == h.terminal
              list == Without(pty[t].subscribers, h.key)
  <2>1. /\ t \in Terminals
        /\ pty' = [pty EXCEPT ![t].subscribers = list]
        /\ client' = [client EXCEPT ![h.key] = IF client[h.key].of = t THEN NoClient ELSE client[h.key]]
    BY <1>11 DEF OnClose, PtyInv, PtyTypeOK
  <2>2. list \in Seq(Subscriber)
    BY <2>1, PtyTypes, WithoutIs DEF PtyInv, PtyRecord
  <2>. HIDE DEF list, t
  <2>3. \A u \in Terminals : pty'[u].cursor = pty[u].cursor
    BY <2>1, <2>2, SubscribersAlone DEF PtyInv
  <2>4. \A k \in Keys : client'[k] = client[k] \/ client'[k] = NoClient
    BY <2>1 DEF PtyInv, PtyTypeOK
  <2>. QED  BY <2>3, <2>4, DetachingSteps
<1>12. ASSUME UNCHANGED ptyVars PROVE UNCHANGED Stream!vars
  BY <1>0, <1>12 DEF ptyVars
<1>. QED  BY <1>1, <1>3, <1>4, <1>5, <1>6, <1>7, <1>8, <1>9, <1>10, <1>11, <1>12 DEF PtyNext, Stream!Next

(* What the clients get is the stream of each terminal, whatever meets of  *)
(* output, replay, sockets that close or are recycled, and the end of the  *)
(* terminal, as long as the cursors asked for are not so large that        *)
(* parsePtyCursor wraps them (connect, sendReplay, onData).                *)
THEOREM ClientsReadTheStream ==
  ASSUME \A a \in Cursors : a < IntLimit
  PROVE  PtySpec => ReadsTheStream
<1>1. PtyInit => Stream!Init
  <2>. SUFFICES ASSUME PtyInit PROVE Stream!Init
    OBVIOUS
  <2>1. client = [k \in Keys |-> Stream!Detached]
    BY DEF PtyInit, NoClient, Stream!Detached
  <2>2. [t \in Terminals |-> pty[t].cursor] = [t \in Terminals |-> 0]
    BY DEF PtyInit, NoPty
  <2>. QED  BY <2>1, <2>2 DEF Stream!Init
<1>2. PtyInv /\ PtyInv' /\ [PtyNext]_ptyVars => [Stream!Next]_Stream!vars
  BY StepsOfTheStream
<1>. QED  BY PtyInvAlways, <1>1, <1>2, PTL DEF PtySpec, ReadsTheStream, Stream!Spec
=============================================================================
