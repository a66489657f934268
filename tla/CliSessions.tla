----------------------------- MODULE CliSessions -----------------------------
(***************************************************************************)
(* The session a command `opencodehx run` works on: how --session,         *)
(* --continue and --fork select it, and what the command leaves in the     *)
(* database when its turn has ended (cli/Cli.hx, SessionProcessor.persist  *)
(* and the listing of storage/SqliteSessionStore).  A command is a process *)
(* of its own; commands share the database file and may overlap.           *)
(*                                                                         *)
(* A turn is stored under the key its message ids are scoped with: none,   *)
(* in a new session, and a random turn id in a session that is resumed.    *)
(* time.updated of a turn without turnTime is the constant 1002, here 0.   *)
(***************************************************************************)
EXTENDS Naturals, FiniteSets

CONSTANTS Clients,    (* the commands, each run at most once               *)
          Ids,        (* session ids, ordered as their texts are           *)
          NoSession,
          NoTurn,     (* turnID is null                                    *)
          Selections, (* the options a command may be given                *)
          ListLimit   (* the sessions --continue looks at, 50 in the code  *)

Selection == [how : {"new", "session", "continue"}, id : Ids \cup {NoSession}, fork : BOOLEAN]

ASSUME CliAssumption ==
  /\ Ids \subseteq Nat
  /\ NoSession \notin Ids
  /\ NoTurn \notin Clients
  /\ Selections \subseteq Selection
  /\ ListLimit \in Nat

VARIABLES db,     (* the session table, with the turns of each session     *)
          clock,  (* Date.now(): later commands start at a later time      *)
          cli     (* the commands                                          *)

vars == <<db, clock, cli>>

Stored == DOMAIN db

(* order by time_updated desc, id desc                                     *)
ListedBefore(s, t) ==
  \/ db[s].updated > db[t].updated
  \/ db[s].updated = db[t].updated /\ s > t

Position(s) == Cardinality({t \in Stored : ListedBefore(t, s)})

Roots == {s \in Stored : db[s].parent = NoSession /\ Position(s) < ListLimit}

Waiting == [phase |-> "waiting", selection |-> [how |-> "new", id |-> NoSession, fork |-> FALSE],
            session |-> NoSession, parent |-> NoSession, key |-> NoTurn, time |-> 0]

(* The ids freshSessionID may give: it is random.                          *)
Fresh == Ids \ (Stored \cup {cli[p].session : p \in Clients})

(* SameTurn and StaleUpdated are forms a defect would give, for the        *)
(* mutation checks only.                                                   *)

(* runSessionSelection: the session a command picks, none when it is new.  *)
Picks(c) ==
  CASE c.how = "new"      -> {NoSession}
    [] c.how = "session"  -> {c.id} \cap Stored
    [] c.how = "continue" -> {s \in Roots : \A t \in Roots : t = s \/ ListedBefore(s, t)}

SameTurn(p) == NoTurn

TurnKey(p) == p

Resumes(c) == c.how # "new" /\ ~c.fork

(* The command once it has picked s; new is the session it works on.       *)
Started(p, c, s, new) ==
  [phase |-> "running", selection |-> c, session |-> new,
   parent |-> IF Resumes(c) THEN NoSession ELSE s,
   key |-> IF Resumes(c) THEN TurnKey(p) ELSE NoTurn,
   time |-> IF Resumes(c) THEN clock + 1 ELSE 0]

(* A command starts: selection and runPersistence, without an await.       *)
Begin(p, c) ==
  /\ cli[p].phase = "waiting"
  /\ clock' = clock + 1
  /\ \/ \E s \in Picks(c), new \in Ids :
          /\ IF Resumes(c) THEN new = s ELSE new \in Fresh
          /\ cli' = [cli EXCEPT ![p] = Started(p, c, s, new)]
     \/ /\ Picks(c) = {}
        /\ cli' = [cli EXCEPT ![p] = [@ EXCEPT !.phase = "failed", !.selection = c]]
  /\ UNCHANGED db

PutIn(f, k, v) == [x \in DOMAIN f \cup {k} |-> IF x = k THEN v ELSE f[x]]

StaleUpdated(p, row) == [row EXCEPT !.turns = PutIn(@, cli[p].key, p)]

(* persistedSessionInfo: a stored session keeps all but time.updated.      *)
Resumed(p, row) ==
  [row EXCEPT !.updated = cli[p].time, !.turns = PutIn(@, cli[p].key, p)]

Created(p) ==
  [parent |-> cli[p].parent, updated |-> cli[p].time,
   turns |-> [k \in {cli[p].key} |-> p]]

(* The turn has ended and SessionProcessor.persist stores it.  What a      *)
(* failure between its statements leaves is SessionTurn's.                 *)
Persist(p) ==
  LET s == cli[p].session IN
  /\ cli[p].phase = "running"
  /\ db' = PutIn(db, s, IF s \in Stored THEN Resumed(p, db[s]) ELSE Created(p))
  /\ cli' = [cli EXCEPT ![p].phase = "done"]
  /\ UNCHANGED clock

(* The turn throws, or the process ends, before anything is stored.        *)
Abandon(p) ==
  /\ cli[p].phase = "running"
  /\ cli' = [cli EXCEPT ![p].phase = "failed"]
  /\ UNCHANGED <<db, clock>>

Init ==
  /\ db = [s \in {} |-> NoSession]
  /\ clock = 0
  /\ cli = [p \in Clients |-> Waiting]

Next == \E p \in Clients :
  \/ \E c \in Selections : Begin(p, c)
  \/ Persist(p)
  \/ Abandon(p)

Spec == Init /\ [][Next]_vars

-----------------------------------------------------------------------------
(* The turn of a command that ended well is in its session, under its own  *)
(* key: no other command, of the same session or of another, has taken     *)
(* its place (the ids scopedFromSession builds).                           *)
TurnsKept ==
  \A p \in Clients : cli[p].phase = "done" =>
    /\ cli[p].session \in Stored
    /\ cli[p].key \in DOMAIN db[cli[p].session].turns
    /\ db[cli[p].session].turns[cli[p].key] = p

(* A command adds its turn to one session and changes nothing else of it:  *)
(* what is stored of any session stays, a fork leaves its parent alone     *)
(* (Persist, runPersistence).                                              *)
SessionsGrow ==
  [][\A s \in Stored :
       /\ s \in DOMAIN db'
       /\ db'[s].parent = db[s].parent
       /\ \A k \in DOMAIN db[s].turns :
            k \in DOMAIN db'[s].turns /\ db'[s].turns[k] = db[s].turns[k]]_vars
=============================================================================
