--------------------------- MODULE ServerSessions ---------------------------
(***************************************************************************)
(* The session routes of the server, src/opencodehx/server/OpenCodeServer. *)
(* hx: POST /session with its three ways to run the first turn, abort,     *)
(* delete and patch, over the session table of storage/SqliteSessionStore  *)
(* and the status registry ServerSessionStatusRuntime.  A handler runs     *)
(* without interruption between two awaits; requests interleave there.     *)
(*                                                                         *)
(* The n-th session of a boot is the number n (ses_server_n).  A session   *)
(* row keeps its parent, time.updated (as its distance from 1002), whether *)
(* it is archived, and the request whose turn its messages tell.  How a    *)
(* turn runs, and what an abort signal does to it, is SessionTurn's.       *)
(***************************************************************************)
EXTENDS Naturals, Sequences, FiniteSets, Selection

CONSTANTS Requests,    (* POST /session requests                           *)
          Modes,       (* "fake": no model; "live": liveAiSdk is given;    *)
                       (* "config": liveConfig, as opencodehx serve has it *)
          ParentIDs,   (* parentIDs that clients send, known or not        *)
          NoParent,
          Patches,     (* bodies of PATCH /session/:sessionID              *)
          MaxUpdated,  (* bound on time.updated                            *)
          MaxBoots     (* bound on the starts of the server                *)

Patch == [title : BOOLEAN, archived : BOOLEAN]

ASSUME ServerAssumption ==
  /\ Modes \subseteq {"fake", "live", "config"}
  /\ ParentIDs \subseteq Nat
  /\ NoParent \notin Nat
  /\ Patches \subseteq Patch
  /\ MaxUpdated \in Nat
  /\ MaxBoots \in Nat

VARIABLES mode,
          created,   (* createdCount                                       *)
          order,     (* sessionOrder                                       *)
          busy,      (* ServerSessionStatusRuntime.statuses                *)
          aborts,    (* the keys of liveAborts                             *)
          store,     (* the session table                                  *)
          req,       (* the POST requests                                  *)
          boots,
          deleted    (* sessions deleted in this process; history only     *)

vars == <<mode, created, order, busy, aborts, store, req, boots, deleted>>

Phase == {"none", "resolving", "running", "persisted", "answered", "failed", "lost"}

Stored == DOMAIN store

Listed == {order[i] : i \in DOMAIN order}

InFlight(q) == req[q].phase \in {"running", "persisted"}

Put(s, row) == [x \in Stored \cup {s} |-> IF x = s THEN row ELSE store[x]]

(* SessionProcessor.persist: a row that exists keeps all but its messages. *)
Persisted(q, s) ==
  IF s \in Stored
  THEN [store[s] EXCEPT !.owner = q, !.updated = 0]
  ELSE [parent |-> NoParent, updated |-> 0, archived |-> FALSE, owner |-> q]

(* withCreateRequest, with createdCount as it is now.                      *)
Requested(row, p, count) ==
  [row EXCEPT !.parent = IF p = NoParent THEN @ ELSE p, !.updated = count]

(* The table's parent_id references session(id).                           *)
ParentStored(s, p) == p \in Stored \cup {s, NoParent}

(* ReusedCount, KeepsAbort, KeepsBusy, AnswerUnread, Children and NextOne  *)
(* are forms a defect would give, for the mutation checks only.            *)
ReusedCount == IF created = 0 THEN 1 ELSE created

NewCount == created + 1

NewID(count) == count

KeepsAbort(q, s, phase) ==
  /\ aborts' = IF phase = "failed" THEN aborts ELSE aborts \ {s}
  /\ busy' = busy \ {s}
  /\ req' = [req EXCEPT ![q].phase = phase]

KeepsBusy(q, s, phase) ==
  /\ aborts' = aborts \ {s}
  /\ busy' = IF phase = "failed" THEN busy ELSE busy \ {s}
  /\ req' = [req EXCEPT ![q].phase = phase]

Settle(q, s, phase) ==
  /\ aborts' = aborts \ {s}
  /\ busy' = busy \ {s}
  /\ req' = [req EXCEPT ![q].phase = phase]

Push(s) == IF s \in Listed THEN order ELSE Append(order, s)

(* The deterministic run, from busy to the answer, without an await.  When *)
(* the parent does not exist updateSession throws, out of the handler.     *)
FakeRun(q, s, p, count) ==
  /\ req' = [req EXCEPT ![q] = [phase |-> IF ParentStored(s, p) THEN "answered" ELSE "failed",
                                sid |-> s, parent |-> p]]
  /\ \/ /\ ParentStored(s, p)
        /\ store' = Put(s, Requested(Persisted(q, s), p, count))
        /\ order' = Push(s)
        /\ busy' = busy \ {s}
     \/ /\ ~ParentStored(s, p)
        /\ store' = Put(s, Persisted(q, s))
        /\ busy' = busy \cup {s}
        /\ UNCHANGED order
  /\ UNCHANGED aborts

Await(q, s, p, phase) ==
  /\ req' = [req EXCEPT ![q] = [phase |-> phase, sid |-> s, parent |-> p]]
  /\ UNCHANGED <<order, store>>

LiveStart(q, s, p) ==
  /\ aborts' = aborts \cup {s}
  /\ busy' = busy \cup {s}
  /\ Await(q, s, p, "running")

Post(q, p) ==
  /\ req[q].phase = "none"
  /\ created' = NewCount
  /\ \/ mode = "fake" /\ FakeRun(q, NewID(created'), p, created')
     \/ mode = "live" /\ LiveStart(q, NewID(created'), p)
     \/ mode = "config" /\ Await(q, NewID(created'), p, "resolving") /\ UNCHANGED <<busy, aborts>>
  /\ UNCHANGED <<mode, boots, deleted>>

(* liveResolve answers: a plan, none (the deterministic run), or an error. *)
Resolve(q) ==
  /\ req[q].phase = "resolving"
  /\ LET s == req[q].sid  p == req[q].parent IN
       \/ LiveStart(q, s, p)
       \/ FakeRun(q, s, p, created)
       \/ Await(q, s, p, "failed") /\ UNCHANGED <<busy, aborts>>
  /\ UNCHANGED <<mode, created, boots, deleted>>

(* The live turn stores its messages, or throws; then the handler goes on. *)
TurnPersists(q) ==
  /\ req[q].phase = "running"
  /\ store' = Put(req[q].sid, Persisted(q, req[q].sid))
  /\ req' = [req EXCEPT ![q].phase = "persisted"]
  /\ UNCHANGED <<mode, created, order, busy, aborts, boots, deleted>>

TurnThrows(q) ==
  /\ req[q].phase = "running"
  /\ Settle(q, req[q].sid, "failed")
  /\ UNCHANGED <<mode, created, order, store, boots, deleted>>

AnswerUnread(q) ==
  /\ req[q].phase = "persisted"
  /\ LET s == req[q].sid  p == req[q].parent IN
       /\ store' = Put(s, Requested(Persisted(q, s), p, created))
       /\ order' = Push(s)
       /\ Settle(q, s, "answered")
  /\ UNCHANGED <<mode, created, boots, deleted>>

(* After the await the handler reads the row, which may be gone.           *)
Answer(q) ==
  /\ req[q].phase = "persisted"
  /\ LET s == req[q].sid  p == req[q].parent IN
       \/ /\ s \in Stored /\ ParentStored(s, p)
          /\ store' = Put(s, Requested(store[s], p, created))
          /\ order' = Push(s)
          /\ Settle(q, s, "answered")
       \/ /\ ~(s \in Stored /\ ParentStored(s, p))
          /\ Settle(q, s, "failed")
          /\ UNCHANGED <<store, order>>
  /\ UNCHANGED <<mode, created, boots, deleted>>

(* A running turn is signalled, any other session only told to be idle.    *)
AbortSession(s) ==
  /\ s \in aborts \cup Stored
  /\ busy' = busy \ {s}
  /\ UNCHANGED <<mode, created, order, aborts, store, req, boots, deleted>>

(* s and those of the sessions ids that descend from it by way of ids.     *)
Subtree(s, ids) ==
  {x \in ids \cup {s} :
     \A T \in SUBSET (ids \cup {s}) :
       (s \in T /\ \A y \in ids : store[y].parent \in T => y \in T) => x \in T}

Children(s) == {s} \cup {x \in Listed \cap Stored : store[x].parent = s}

(* descendantSessionIDs goes by sessionOrder, the table's cascade by rows. *)
Descendants(s) == Subtree(s, Listed \cap Stored)

Delete(s) ==
  /\ s \in Stored
  /\ order' = Selected(order, Listed \ Descendants(s))
  /\ store' = [x \in Stored \ Subtree(s, Stored) |-> store[x]]
  /\ deleted' = deleted \cup Subtree(s, Stored)
  /\ UNCHANGED <<mode, created, busy, aborts, req, boots>>

Touched(row, b) ==
  row.updated + (IF b.title THEN 1 ELSE 0) + (IF b.archived THEN 1 ELSE 0)

UpdateSession(s, b) ==
  /\ s \in Stored
  /\ Touched(store[s], b) <= MaxUpdated
  /\ store' = [store EXCEPT ![s].updated = Touched(store[s], b),
                           ![s].archived = @ \/ b.archived]
  /\ UNCHANGED <<mode, created, order, busy, aborts, req, boots, deleted>>

(* The server stops, or dies, and starts again on the same table.          *)
Restart ==
  /\ boots < MaxBoots
  /\ boots' = boots + 1
  /\ created' = 0
  /\ order' = <<>>
  /\ busy' = {}
  /\ aborts' = {}
  /\ req' = [q \in Requests |->
               IF InFlight(q) \/ req[q].phase = "resolving"
               THEN [req[q] EXCEPT !.phase = "lost"] ELSE req[q]]
  /\ deleted' = {}
  /\ UNCHANGED <<mode, store>>

Init ==
  /\ mode \in Modes
  /\ created = 0
  /\ order = <<>>
  /\ busy = {}
  /\ aborts = {}
  /\ store = [x \in {} |-> NoParent]
  /\ req = [q \in Requests |-> [phase |-> "none", sid |-> 0, parent |-> NoParent]]
  /\ boots = 1
  /\ deleted = {}

Next ==
  \/ \E q \in Requests, p \in ParentIDs \cup {NoParent} : Post(q, p)
  \/ \E q \in Requests : Resolve(q) \/ TurnPersists(q) \/ TurnThrows(q) \/ Answer(q)
  \/ \E s \in aborts \cup Stored : AbortSession(s)
  \/ \E s \in Stored : Delete(s)
  \/ \E s \in Stored, b \in Patches : UpdateSession(s, b)
  \/ Restart

Spec == Init /\ [][Next]_vars

-----------------------------------------------------------------------------
Row == [parent : ParentIDs \cup {NoParent}, updated : Nat, archived : BOOLEAN, owner : Requests]

(* Every variable keeps its type, and no session id is beyond the counter. *)
TypeOK ==
  /\ mode \in Modes
  /\ created \in Nat
  /\ Stored \subseteq Nat \ {0}
  /\ \A s \in Stored : store[s] \in Row
  /\ order \in Seq(Stored \cup deleted \cup 1 .. created)
  /\ busy \subseteq 1 .. created
  /\ aborts \subseteq 1 .. created
  /\ req \in [Requests -> [phase : Phase, sid : Nat, parent : ParentIDs \cup {NoParent}]]
  /\ boots \in Nat
  /\ deleted \subseteq Nat

(* The messages a client reads in the session of its request are those of  *)
(* the turn it asked for, never those of another request (createSession,   *)
(* persist).                                                               *)
OwnMessages ==
  \A q \in Requests :
    req[q].phase = "answered" /\ req[q].sid \in Stored => store[req[q].sid].owner = q

(* That is so in the first process on a database: ids are counted anew in  *)
(* the next.                                                               *)
OwnMessagesInOneProcess == boots = 1 => OwnMessages

(* Until a restart, which forgets the order, GET /session lists each       *)
(* session that was created and not deleted, alone or with an ancestor,    *)
(* once, and no other: the cascade of the table and the walk of            *)
(* descendantSessionIDs agree.                                             *)
ListingIsExact ==
  boots = 1 =>
    /\ Listed = {s \in Stored : \E q \in Requests : req[q].sid = s /\ req[q].phase = "answered"}
    /\ \A i, j \in DOMAIN order : order[i] = order[j] => i = j

(* GET /session/status shows no session as busy whose turn is over, except *)
(* when a deterministic creation could not be given its parent: no catch   *)
(* is there to make it idle (line 213).                                    *)
BusyMeansRunning ==
  \A s \in busy : \E q \in Requests :
    /\ req[q].sid = s
    /\ InFlight(q) \/ (mode # "live" /\ req[q].phase = "failed" /\ req[q].parent # NoParent)

(* Every turn in flight can be aborted, and no controller outlives its     *)
(* turn, however the turn ended (liveAborts).                              *)
AbortsAreOfRunningTurns == aborts = {req[q].sid : q \in {r \in Requests : InFlight(r)}}

(* Until a restart, a session that DELETE removed, by name or with an       *)
(* ancestor, does not come back with the writes of a handler that was      *)
(* awaiting its turn meanwhile.                                            *)
DeletedStaysDeleted == boots = 1 => deleted \cap Stored = {}

-----------------------------------------------------------------------------
(* GET /experimental/session: newest first, by sessionOrder; a page that   *)
(* is not the last one gives its last session's time.updated as cursor,    *)
(* and the next page shows what was updated before that.                   *)
Older(row, cursor) == row.updated < cursor

Matching(cursor) ==
  LET newest == [i \in DOMAIN order |-> order[Len(order) + 1 - i]]
  IN Selected(newest, {s \in Stored : ~store[s].archived /\ Older(store[s], cursor)})

Page(cursor, limit) ==
  SubSeq(Matching(cursor), 1, IF Len(Matching(cursor)) > limit THEN limit ELSE Len(Matching(cursor)))

NextOne(found, limit) == store[found[limit + 1]].updated

NextCursor(found, limit) == store[found[limit]].updated

(* The sessions on the pages from cursor on, one after the other.          *)
Pages(limit) ==
  LET from[c \in 0 .. MaxUpdated + 1] ==
        IF Len(Matching(c)) > limit
        THEN Page(c, limit) \o from[NextCursor(Matching(c), limit)]
        ELSE Page(c, limit)
  IN from[MaxUpdated + 1]

(* Whatever the page size, a client that follows the cursors sees every    *)
(* session that is listed and not archived, once and in the order of the   *)
(* listing, as long as no two sessions were updated at the same time: no   *)
(* creation waits for a model, and no listed session is renamed.           *)
PagesShowTheListing ==
  mode = "fake" => \A limit \in 1 .. Len(order) : Pages(limit) = Matching(MaxUpdated + 1)
=============================================================================
