------------------------- MODULE CommandLineProofs -------------------------
(***************************************************************************)
(* Proofs about the command line, for any commands, session ids and        *)
(* options, and about the scripts that accept it, for any number of        *)
(* faults.                                                                 *)
(*                                                                         *)
(* A turn is kept because two turns of a session never have the same key:  *)
(* a new session is nobody else's until it is stored (Unshared), and a     *)
(* resumed one was stored before (Kinds), where each turn but the first    *)
(* has the key of the command that took it, which takes one turn only      *)
(* (Written).                                                              *)
(*                                                                         *)
(* A script leaves nothing behind because a child runs only while it is    *)
(* waited for, the stage with the server starts no child, and whoever is   *)
(* left by a failure has been signalled (Attended).                        *)
(*                                                                         *)
(* A script in which nothing dies, hangs or is lost passes because what it *)
(* asserts can be read off a ledger (Ledger): which turns the runs of a    *)
(* stage have to leave, in which sessions.  The commands of each stage fit *)
(* its ledger (Fits, StagesSound), which is a walk through the scripts;    *)
(* and the table agrees with it before each command (Book), whatever ids   *)
(* the sessions got, which is an invariant (Healthy).                      *)
(***************************************************************************)
EXTENDS AcceptanceSmoke, SequenceTheorems, FiniteSetTheorems, TLAPS

TurnsOf == UNION {[K -> Clients] : K \in SUBSET (Clients \cup {NoTurn})}

Row == [parent : Ids \cup {NoSession}, updated : Nat, turns : TurnsOf]

CommandState ==
  [phase : {"waiting", "running", "done", "failed"}, selection : Selection,
   session : Ids \cup {NoSession}, parent : Ids \cup {NoSession},
   key : Clients \cup {NoTurn}, time : Nat]

TypeOK ==
  /\ Stored \subseteq Ids
  /\ db \in [Stored -> Row]
  /\ clock \in Nat
  /\ cli \in [Clients -> CommandState]

(* What a running command works on, and the key of its turn.               *)
Kinds ==
  \A p \in Clients :
    /\ cli[p].phase \in {"running", "done"} => cli[p].session \in Ids /\ cli[p].key \in {p, NoTurn}
    /\ cli[p].phase = "running" =>
         (cli[p].session \in Stored <=> cli[p].key = p)

Unshared ==
  \A p, q \in Clients :
    (p # q /\ cli[p].phase = "running" /\ cli[p].key = NoTurn) => cli[q].session # cli[p].session

Written ==
  \A s \in Stored : \A k \in DOMAIN db[s].turns :
    k \in Clients => cli[k].phase = "done"

IInv == TypeOK /\ Kinds /\ Unshared /\ Written /\ TurnsKept

-----------------------------------------------------------------------------
LEMMA InitInv == Init => IInv
<1> SUFFICES ASSUME Init PROVE IInv
  OBVIOUS
<1>1. TypeOK
  BY DEF Init, TypeOK, Stored, Waiting, CommandState, Selection
<1>2. Kinds /\ Unshared /\ Written /\ TurnsKept
  BY DEF Init, Kinds, Unshared, Written, TurnsKept, Stored, Waiting
<1> QED BY <1>1, <1>2 DEF IInv

(* The record of command p changes, and nothing is stored.                 *)
LEMMA CommandKeeps ==
  ASSUME IInv, NEW p \in Clients, NEW w \in CommandState,
         cli' = [cli EXCEPT ![p] = w],
         cli[p].phase \in {"waiting", "running"},
         w.phase \in {"running", "failed"},
         w.phase = "failed" => w.session = cli[p].session,
         w.phase = "running" =>
           /\ w.session \in Ids /\ w.key \in {p, NoTurn}
           /\ w.session \in Stored <=> w.key = p
           /\ w.session \notin Stored => \A q \in Clients : cli[q].session # w.session,
         UNCHANGED db, clock' \in Nat
  PROVE  IInv'
<1>1. /\ cli'[p] = w /\ cli' \in [Clients -> CommandState]
      /\ \A q \in Clients : q # p => cli'[q] = cli[q]
  BY DEF IInv, TypeOK
<1>2. TypeOK'
  BY <1>1 DEF IInv, TypeOK, Stored
<1>3. Kinds'
  BY <1>1 DEF IInv, Kinds, Stored
<1>4. p # NoTurn
  BY CliAssumption
<1>5. Unshared'
  <2> SUFFICES ASSUME NEW o \in Clients, NEW q \in Clients, o # q,
                      cli'[o].phase = "running", cli'[o].key = NoTurn
               PROVE  cli'[q].session # cli'[o].session
    BY DEF Unshared
  <2>1. CASE o = p
    BY <1>1, <1>4, <2>1
  <2>2. CASE o # p /\ q = p
    <3>1. cli[o].phase = "running" /\ cli[o].key = NoTurn /\ cli'[o] = cli[o]
          /\ cli[o].session \notin Stored /\ cli[o].session # cli[p].session
      BY <1>1, <2>2, CliAssumption DEF IInv, Kinds, Unshared
    <3> QED BY <1>1, <2>2, <3>1
  <2>3. CASE o # p /\ q # p
    BY <1>1, <2>3 DEF IInv, Unshared
  <2> QED BY <2>1, <2>2, <2>3
<1>6. Written' /\ TurnsKept'
  BY <1>1 DEF IInv, Written, TurnsKept, Stored
<1> QED BY <1>2, <1>3, <1>5, <1>6 DEF IInv

LEMMA BeginKeeps ==
  ASSUME IInv, NEW p \in Clients, NEW c \in Selection, Begin(p, c)
  PROVE  IInv' /\ db' = db
<1>1. /\ db' = db /\ clock' \in Nat /\ clock \in Nat
      /\ cli[p].phase = "waiting" /\ cli[p] \in CommandState
      /\ c \in Selection /\ p # NoTurn
  BY CliAssumption DEF Begin, IInv, TypeOK
<1>2. ASSUME NEW s \in Picks(c), NEW new \in Ids,
             IF Resumes(c) THEN new = s ELSE new \in Fresh,
             cli' = [cli EXCEPT ![p] = Started(p, c, s, new)]
      PROVE  IInv'
  <2> DEFINE w == Started(p, c, s, new)
  <2>1. /\ w.phase = "running" /\ w.session = new
        /\ w.key = IF Resumes(c) THEN p ELSE NoTurn
    BY DEF Started, TurnKey
  <2>2. s \in Ids \cup {NoSession}
    BY <1>1 DEF Picks, Roots, Stored, Selection, IInv, TypeOK
  <2>3. Resumes(c) => s \in Stored
    BY <1>1 DEF Picks, Roots, Resumes, Selection
  <2>4. w \in CommandState
    <3> DEFINE t == IF Resumes(c) THEN clock + 1 ELSE 0
    <3>1. t \in Nat
      BY <1>1
    <3>2. w = [phase |-> "running", selection |-> c, session |-> new,
               parent |-> IF Resumes(c) THEN NoSession ELSE s,
               key |-> IF Resumes(c) THEN p ELSE NoTurn, time |-> t]
      BY DEF Started, TurnKey
    <3> HIDE DEF w, t
    <3> QED BY <1>1, <2>2, <3>1, <3>2 DEF CommandState, IInv, TypeOK
  <2>5. new \in Stored <=> Resumes(c)
    BY <1>2, <2>3 DEF Fresh
  <2>6. new \notin Stored => \A q \in Clients : cli[q].session # new
    BY <1>2, <2>5 DEF Fresh
  <2>7. cli' = [cli EXCEPT ![p] = w]
    BY <1>2
  <2> HIDE DEF w
  <2> QED BY <1>1, <2>1, <2>4, <2>5, <2>6, <2>7, CommandKeeps
<1>3. ASSUME cli' = [cli EXCEPT ![p] = [@ EXCEPT !.phase = "failed", !.selection = c]]
      PROVE  IInv'
  <2> DEFINE w == [cli[p] EXCEPT !.phase = "failed", !.selection = c]
  <2>1. w \in CommandState /\ w.phase = "failed" /\ w.session = cli[p].session
    BY <1>1 DEF CommandState
  <2>2. cli' = [cli EXCEPT ![p] = w]
    BY <1>3
  <2> HIDE DEF w
  <2> QED BY <1>1, <2>1, <2>2, CommandKeeps
<1> QED BY <1>1, <1>2, <1>3 DEF Begin

LEMMA AbandonKeeps ==
  ASSUME IInv, NEW p \in Clients, Abandon(p)
  PROVE  IInv' /\ db' = db
<1>1. /\ cli[p].phase = "running" /\ cli[p] \in CommandState
      /\ cli' = [cli EXCEPT ![p] = [@ EXCEPT !.phase = "failed"]]
      /\ UNCHANGED db /\ clock' \in Nat
  BY DEF Abandon, IInv, TypeOK
<1> DEFINE w == [cli[p] EXCEPT !.phase = "failed"]
<1>2. w \in CommandState /\ w.phase = "failed" /\ w.session = cli[p].session
  BY <1>1 DEF CommandState
<1>3. cli' = [cli EXCEPT ![p] = w]
  BY <1>1
<1> HIDE DEF w
<1> QED BY <1>1, <1>2, <1>3, CommandKeeps

-----------------------------------------------------------------------------
(* A turn is added under a key that the session does not have yet.         *)
LEMMA AddTurn ==
  ASSUME NEW f \in TurnsOf, NEW k \in Clients \cup {NoTurn}, NEW p \in Clients
  PROVE  /\ PutIn(f, k, p) \in TurnsOf
         /\ DOMAIN PutIn(f, k, p) = DOMAIN f \cup {k}
         /\ PutIn(f, k, p)[k] = p
         /\ \A x \in DOMAIN f : x # k => PutIn(f, k, p)[x] = f[x]
<1>1. PICK K \in SUBSET (Clients \cup {NoTurn}) : f \in [K -> Clients]
  BY DEF TurnsOf
<1>2. PutIn(f, k, p) \in [K \cup {k} -> Clients]
  BY <1>1 DEF PutIn
<1>3. K \cup {k} \in SUBSET (Clients \cup {NoTurn})
  BY <1>1
<1> QED BY <1>1, <1>2, <1>3 DEF TurnsOf, PutIn

(* The row that is stored: its turns are those there were and the new one. *)
LEMMA StoredRow ==
  ASSUME IInv, NEW p \in Clients, Persist(p)
  PROVE  /\ cli[p].session \in Ids /\ cli[p].phase = "running" /\ cli[p].key \in {p, NoTurn}
         /\ Stored' = Stored \cup {cli[p].session}
         /\ db' \in [Stored' -> Row]
         /\ \A s \in Stored : s # cli[p].session => db'[s] = db[s]
         /\ cli[p].session \notin Stored =>
              /\ cli[p].key = NoTurn
              /\ DOMAIN db'[cli[p].session].turns = {cli[p].key}
              /\ db'[cli[p].session].parent = cli[p].parent
         /\ cli[p].session \in Stored =>
              /\ db'[cli[p].session].parent = db[cli[p].session].parent
              /\ cli[p].key = p
              /\ DOMAIN db'[cli[p].session].turns = DOMAIN db[cli[p].session].turns \cup {cli[p].key}
              /\ \A k \in DOMAIN db[cli[p].session].turns :
                   k # cli[p].key => db'[cli[p].session].turns[k] = db[cli[p].session].turns[k]
         /\ db'[cli[p].session].turns[cli[p].key] = p
         /\ db'[cli[p].session].updated = cli[p].time
<1> DEFINE s == cli[p].session
           k == cli[p].key
<1>1. /\ cli[p].phase = "running" /\ cli[p] \in CommandState
      /\ s \in Ids /\ k \in {p, NoTurn} /\ (s \in Stored <=> k = p)
      /\ db \in [Stored -> Row]
  BY DEF Persist, IInv, TypeOK, Kinds
<1>2. db' = PutIn(db, s, IF s \in Stored THEN Resumed(p, db[s]) ELSE Created(p))
  BY DEF Persist
<1> DEFINE row == IF s \in Stored THEN Resumed(p, db[s]) ELSE Created(p)
<1>3. CASE s \in Stored
  <2> DEFINE f == PutIn(db[s].turns, k, p)
  <2>1. db[s] \in Row /\ db[s].turns \in TurnsOf
    BY <1>1, <1>3 DEF Row
  <2>2. /\ f \in TurnsOf /\ DOMAIN f = DOMAIN db[s].turns \cup {k} /\ f[k] = p
        /\ \A x \in DOMAIN db[s].turns : x # k => f[x] = db[s].turns[x]
    <3> DEFINE g == db[s].turns
    <3>1. k \in Clients \cup {NoTurn} /\ g \in TurnsOf /\ f = PutIn(g, k, p)
      BY <1>1, <2>1
    <3> HIDE DEF k, g, f
    <3>2. /\ f \in TurnsOf /\ DOMAIN f = DOMAIN g \cup {k} /\ f[k] = p
          /\ \A x \in DOMAIN g : x # k => f[x] = g[x]
      BY <3>1, AddTurn
    <3> QED BY <3>2 DEF g
  <2>3. row = [db[s] EXCEPT !.updated = cli[p].time, !.turns = f]
    BY <1>3 DEF Resumed
  <2> HIDE DEF f
  <2>4. row \in Row /\ row.parent = db[s].parent /\ row.turns = f /\ row.updated = cli[p].time
    <3> DEFINE n == cli[p].time
    <3>1. n \in Nat /\ row = [db[s] EXCEPT !.updated = n, !.turns = f]
      BY <1>1, <2>3 DEF CommandState
    <3>2. /\ db[s].parent \in Ids \cup {NoSession}
          /\ db[s] = [parent |-> db[s].parent, updated |-> db[s].updated, turns |-> db[s].turns]
      BY <2>1 DEF Row
    <3> HIDE DEF row
    <3>3. row = [parent |-> db[s].parent, updated |-> n, turns |-> f]
      <4> HIDE DEF n
      <4> QED BY <3>1, <3>2
    <3> QED BY <2>2, <3>1, <3>2, <3>3 DEF Row
  <2> HIDE DEF row
  <2>5. /\ Stored' = Stored \cup {s} /\ db' \in [Stored' -> Row] /\ db'[s] = row
        /\ \A t \in Stored : t # s => db'[t] = db[t]
    <3>1. db' = PutIn(db, s, row)
      BY <1>2 DEF row
    <3> QED BY <1>1, <2>4, <3>1 DEF PutIn, Stored
  <2> QED BY <1>1, <1>3, <2>2, <2>4, <2>5
<1>4. CASE s \notin Stored
  <2> DEFINE f == [x \in {k} |-> p]
  <2>1. f \in TurnsOf /\ DOMAIN f = {k} /\ f[k] = p
    <3>1. f \in [{k} -> Clients] /\ {k} \in SUBSET (Clients \cup {NoTurn})
      BY <1>1
    <3> QED BY <3>1 DEF TurnsOf
  <2>2. row = [parent |-> cli[p].parent, updated |-> cli[p].time, turns |-> f]
    BY <1>4 DEF Created
  <2> HIDE DEF f
  <2>3. row \in Row /\ row.turns = f /\ row.parent = cli[p].parent /\ row.updated = cli[p].time
    BY <1>1, <2>1, <2>2 DEF Row, CommandState
  <2> HIDE DEF row
  <2>4. /\ Stored' = Stored \cup {s} /\ db' \in [Stored' -> Row] /\ db'[s] = row
        /\ \A t \in Stored : t # s => db'[t] = db[t]
    <3>1. db' = PutIn(db, s, row)
      BY <1>2 DEF row
    <3> QED BY <1>1, <2>3, <3>1 DEF PutIn, Stored
  <2> QED BY <1>1, <1>4, <2>1, <2>3, <2>4
<1> QED BY <1>3, <1>4

LEMMA PersistKeeps ==
  ASSUME IInv, NEW p \in Clients, Persist(p)
  PROVE  IInv'
<1> DEFINE s == cli[p].session
           k == cli[p].key
           w == [cli[p] EXCEPT !.phase = "done"]
<1>1. /\ cli' = [cli EXCEPT ![p] = w] /\ cli[p] \in CommandState /\ clock' = clock
  BY DEF Persist, IInv, TypeOK
<1>2. w \in CommandState /\ w.phase = "done" /\ w.session = s /\ w.key = k
  BY <1>1 DEF CommandState
<1> HIDE DEF w
<1>3. /\ cli' \in [Clients -> CommandState] /\ cli'[p] = w
      /\ \A q \in Clients : q # p => cli'[q] = cli[q]
  BY <1>1, <1>2 DEF IInv, TypeOK
<1>4. /\ s \in Ids /\ cli[p].phase = "running" /\ k \in {p, NoTurn}
      /\ Stored' = Stored \cup {s} /\ db' \in [Stored' -> Row]
      /\ \A t \in Stored : t # s => db'[t] = db[t]
      /\ db'[s].turns[k] = p
      /\ s \notin Stored => k = NoTurn /\ DOMAIN db'[s].turns = {k}
      /\ s \in Stored =>
           /\ k = p
           /\ DOMAIN db'[s].turns = DOMAIN db[s].turns \cup {k}
           /\ \A x \in DOMAIN db[s].turns : x # k => db'[s].turns[x] = db[s].turns[x]
  BY StoredRow
<1>5. k \in DOMAIN db'[s].turns
  BY <1>4
<1> HIDE DEF s, k
<1>6. TypeOK'
  BY <1>1, <1>3, <1>4 DEF IInv, TypeOK
<1>7. \A q \in Clients : (q # p /\ cli[q].phase = "running") =>
        (cli[q].session \in Stored' <=> cli[q].key = q)
  <2> SUFFICES ASSUME NEW q \in Clients, q # p, cli[q].phase = "running"
               PROVE  cli[q].session \in Stored' <=> cli[q].key = q
    OBVIOUS
  <2>1. cli[q].session \in Stored <=> cli[q].key = q
    BY DEF IInv, Kinds
  <2>2. cli[q].key # q => cli[q].session # s
    BY CliAssumption DEF IInv, Kinds, Unshared, s
  <2> QED BY <1>4, <2>1, <2>2
<1>8. Kinds' /\ Unshared'
  <2>1. Kinds'
    BY <1>2, <1>3, <1>4, <1>7 DEF IInv, Kinds
  <2>2. Unshared'
    BY <1>2, <1>3 DEF IInv, Unshared, s
  <2> QED BY <2>1, <2>2
<1>9. Written'
  <2> SUFFICES ASSUME NEW t \in Stored', NEW x \in DOMAIN db'[t].turns, x \in Clients
               PROVE  cli'[x].phase = "done"
    BY DEF Written
  <2>1. CASE x = p
    BY <1>2, <1>3, <2>1
  <2>2. CASE x # p
    <3>1. x # k
      BY <1>4, <2>2, CliAssumption
    <3>2. t \in Stored /\ x \in DOMAIN db[t].turns
      BY <1>4, <3>1
    <3> QED BY <1>3, <2>2, <3>2 DEF IInv, Written
  <2> QED BY <2>1, <2>2
<1>10. TurnsKept'
  <2> SUFFICES ASSUME NEW q \in Clients, cli'[q].phase = "done"
               PROVE  /\ cli'[q].session \in Stored'
                      /\ cli'[q].key \in DOMAIN db'[cli'[q].session].turns
                      /\ db'[cli'[q].session].turns[cli'[q].key] = q
    BY DEF TurnsKept
  <2>1. CASE q = p
    BY <1>2, <1>3, <1>4, <1>5, <2>1
  <2>2. CASE q # p
    <3> DEFINE t == cli[q].session
               x == cli[q].key
    <3>1. /\ cli'[q] = cli[q] /\ cli[q].phase = "done"
          /\ t \in Stored /\ x \in DOMAIN db[t].turns /\ db[t].turns[x] = q /\ x \in {q, NoTurn}
      BY <1>3, <2>2 DEF IInv, TurnsKept, Kinds
    <3>2. t = s => x # k
      BY <1>4, <2>2, <3>1, CliAssumption
    <3> QED BY <1>4, <3>1, <3>2
  <2> QED BY <2>1, <2>2
<1> QED BY <1>6, <1>8, <1>9, <1>10 DEF IInv

LEMMA StepInv == IInv /\ [Next]_vars => IInv'
<1> SUFFICES ASSUME IInv, [Next]_vars PROVE IInv'
  OBVIOUS
<1>1. ASSUME NEW p \in Clients, NEW c \in Selections, Begin(p, c) PROVE IInv'
  BY <1>1, BeginKeeps, CliAssumption
<1>2. ASSUME NEW p \in Clients, Persist(p) \/ Abandon(p) PROVE IInv'
  BY <1>2, PersistKeeps, AbandonKeeps
<1>3. CASE UNCHANGED vars
  BY <1>3 DEF vars, IInv, TypeOK, Kinds, Unshared, Written, TurnsKept, Stored
<1> QED BY <1>1, <1>2, <1>3 DEF Next

LEMMA Invariance == Spec => []IInv
BY InitInv, StepInv, PTL DEF Spec

(* The session table and the commands keep their types.                    *)
THEOREM TypeCorrect == Spec => []TypeOK
<1>1. IInv => TypeOK
  BY DEF IInv
<1> QED BY <1>1, Invariance, PTL

(* However commands overlap, none takes another's turn away.               *)
THEOREM TurnsAreKept == Spec => []TurnsKept
<1>1. IInv => TurnsKept
  BY DEF IInv
<1> QED BY <1>1, Invariance, PTL

(* A command adds its turn to a session and leaves all else as it was.     *)
THEOREM SessionsOnlyGrow == Spec => SessionsGrow
<1> DEFINE Kept == \A s \in Stored :
             /\ s \in DOMAIN db'
             /\ db'[s].parent = db[s].parent
             /\ \A k \in DOMAIN db[s].turns :
                  k \in DOMAIN db'[s].turns /\ db'[s].turns[k] = db[s].turns[k]
<1>1. ASSUME IInv, [Next]_vars PROVE Kept
  <2>1. ASSUME NEW p \in Clients, Persist(p) PROVE Kept
    <3> SUFFICES ASSUME NEW s \in Stored
                 PROVE  /\ s \in DOMAIN db'
                        /\ db'[s].parent = db[s].parent
                        /\ \A k \in DOMAIN db[s].turns :
                             k \in DOMAIN db'[s].turns /\ db'[s].turns[k] = db[s].turns[k]
      OBVIOUS
    <3>1. CASE s # cli[p].session
      <4>1. s \in Stored' /\ db'[s] = db[s]
        BY <1>1, <2>1, <3>1, StoredRow
      <4> QED BY <4>1 DEF Stored
    <3>2. CASE s = cli[p].session
      <4>1. cli[p].key = p /\ p \notin DOMAIN db[s].turns
        BY <1>1, <2>1, <3>2, StoredRow DEF IInv, Written
      <4>2. /\ s \in Stored' /\ db'[s].parent = db[s].parent
            /\ DOMAIN db'[s].turns = DOMAIN db[s].turns \cup {p}
            /\ \A k \in DOMAIN db[s].turns : k # p => db'[s].turns[k] = db[s].turns[k]
        BY <1>1, <2>1, <3>2, <4>1, StoredRow
      <4> QED BY <4>1, <4>2 DEF Stored
    <3> QED BY <3>1, <3>2
  <2>2. CASE db' = db
    BY <2>2 DEF Stored
  <2>3. ASSUME NEW p \in Clients, Abandon(p) \/ \E c \in Selections : Begin(p, c)
        PROVE  db' = db
    BY <2>3 DEF Abandon, Begin
  <2> QED BY <1>1, <2>1, <2>2, <2>3 DEF Next, vars
<1>2. IInv /\ [Next]_vars => [Kept]_vars
  BY <1>1
<1> QED BY <1>2, Invariance, PTL DEF Spec, SessionsGrow

-----------------------------------------------------------------------------
(* The scripts: what their stages run.                                     *)

Texts == Names \cup {"new", "session", "continue", "read", "delete", "pty"}

CommandOf(do) ==
  [do : do, sync : BOOLEAN, live : BOOLEAN, valid : BOOLEAN, how : Texts, of : Texts,
   fork : BOOLEAN, skip : BOOLEAN, home : BOOLEAN, as : Texts, status : Nat, is : Texts,
   other : Texts, turns : Nat, last : BOOLEAN, parent : Texts]

(* The commands that become a child, and the requests to the server.       *)
Spawned   == CommandOf({"other", "run", "export"})
Requested == CommandOf({"serve", "fetch", "stream"})

LEMMA CommandIs == Command \in Spawned
BY DEF Command, Spawned, CommandOf, Texts, Names

LEMMA TextsHave ==
  /\ {"other", "run", "export"} \cap {"serve", "fetch", "stream"} = {}
  /\ "run" \in {"other", "run", "export"} /\ "export" \in {"other", "run", "export"}
  /\ {"", "S", "fork", "new", "session", "continue"} \subseteq Texts
BY DEF Texts, Names

LEMMA Forms ==
  /\ Plain \in Spawned /\ Refused \in Spawned
  /\ \A n \in Texts : /\ NewRun(n) \in Spawned /\ Resume(n) \in Spawned
                       /\ Continue(n) \in Spawned /\ ExportFork(n) \in Spawned
                       /\ \A how \in Texts : Fork(how, n) \in Spawned
                       /\ \A k \in Nat : Export(n, k) \in Spawned
  /\ \A c \in Spawned : Live(c) \in Spawned /\ AtHome(c) \in Spawned /\ Skip(c) \in Spawned
<1>1. Plain \in Spawned /\ Refused \in Spawned
  BY CommandIs, TextsHave DEF Plain, Refused, Spawned, CommandOf
<1>2. \A n \in Texts : NewRun(n) \in Spawned /\ Resume(n) \in Spawned /\ Continue(n) \in Spawned
  BY CommandIs, TextsHave DEF NewRun, Resume, Continue, Spawned, CommandOf
<1>3. ASSUME NEW n \in Texts, NEW k \in Nat PROVE Export(n, k) \in Spawned
  <2>. DEFINE more == k > 1
  <2>1. more \in BOOLEAN
    OBVIOUS
  <2>2. Export(n, k) = [Command EXCEPT !.do = "export", !.of = n, !.turns = k, !.last = more]
    BY DEF Export
  <2>. HIDE DEF more
  <2>. QED  BY <2>1, <2>2, CommandIs, TextsHave DEF Spawned, CommandOf
<1>4. ASSUME NEW n \in Texts PROVE ExportFork(n) \in Spawned
  <2>1. Export("fork", 1) \in Spawned
    BY <1>3, TextsHave
  <2>. QED  BY <2>1 DEF ExportFork, Spawned, CommandOf
<1>5. ASSUME NEW n \in Texts, NEW how \in Texts PROVE Fork(how, n) \in Spawned
  BY TextsHave DEF Fork, Spawned, CommandOf, Command
<1>6. \A c \in Spawned : Live(c) \in Spawned /\ AtHome(c) \in Spawned /\ Skip(c) \in Spawned
  BY TextsHave DEF Live, AtHome, Skip, Spawned, CommandOf
<1>. QED  BY <1>1, <1>2, <1>3, <1>4, <1>5, <1>6

LEMMA Requests ==
  Start \in Requested /\ Stream \in Requested /\ \A e \in Texts : Fetch(e) \in Requested
BY DEF Start, Stream, Fetch, Command, Requested, CommandOf, Texts, Names

LEMMA QuietIs == \A n \in Nat : Quiet(n) \in Seq(Spawned)
BY Forms DEF Quiet

LEMMA CallingSpawns ==
  <<Live(NewRun("S")), Export("S", 1)>> \in Seq(Spawned)
<1>1. NewRun("S") \in Spawned /\ Export("S", 1) \in Spawned
  BY Forms, TextsHave
<1>2. Live(NewRun("S")) \in Spawned
  BY <1>1, Forms
<1>. QED  BY <1>1, <1>2

LEMMA SkippingSpawns ==
  ASSUME NEW stg, "commands" \in DOMAIN stg, stg.commands \in Seq(Spawned)
  PROVE  Skipping(stg).commands \in Seq(Spawned)
<1>. DEFINE cs == stg.commands
            skips == [i \in DOMAIN cs |-> IF cs[i].do = "run" THEN Skip(cs[i]) ELSE cs[i]]
<1>1. Skipping(stg).commands = skips
  BY DEF Skipping
<1>2. /\ DOMAIN cs = 1..Len(cs) /\ Len(cs) \in Nat
      /\ \A i \in 1..Len(cs) : cs[i] \in Spawned
  OBVIOUS
<1>3. \A i \in 1..Len(cs) : skips[i] \in Spawned
  BY <1>2, Forms
<1>. HIDE DEF cs
<1>4. skips \in Seq(Spawned)
  BY <1>2, <1>3
<1>. QED  BY <1>1, <1>4

(* The commands of a stage: children, or requests to the server.           *)
Issues(stg) == "commands" \in DOMAIN stg /\ stg.commands \in Seq(Spawned)

LEMMA StageIssues == \A root : \A cs \in Seq(Spawned) : Issues(Stage(root, cs))
BY DEF Issues, Stage

LEMMA AgainstIssues == \A stg, server : Issues(stg) => Issues(Against(server, stg))
BY DEF Issues, Against

LEMMA CallingIssues == \A root, tools : Issues(Calling(root, tools))
BY CallingSpawns DEF Issues, Calling, Stage

LEMMA DeniedIssues == \A stg : Issues(stg) => Issues(Denied(stg))
BY DEF Issues, Denied

LEMMA SkippingIssues == \A stg : Issues(stg) => Issues(Skipping(stg))
BY SkippingSpawns DEF Issues, Skipping

LEMMA AskIssues == \A stg : Issues(stg) => Issues([stg EXCEPT !.permission = "ask"])
BY DEF Issues

LEMMA FailingIssues == \A root : Issues(Failing(root))
BY CallingSpawns DEF Issues, Failing, Against, Stage

LEMMA PackageIssues == \A k \in 1..16 : Issues(PackageSmoke[k])
<1>1. Issues(InstalledPackage) /\ Issues(InstalledTui)
  BY QuietIs, StageIssues DEF InstalledPackage, InstalledTui
<1>2. Issues(InstalledDefault)
  <2>1. {"text", "json", "file", "mock"} \subseteq Texts
    BY DEF Texts, Names
  <2>2. /\ NewRun("text") \in Spawned /\ NewRun("json") \in Spawned
        /\ Export("json", 1) \in Spawned /\ Resume("json") \in Spawned
        /\ NewRun("file") \in Spawned
        /\ NewRun("mock") \in Spawned /\ Export("mock", 1) \in Spawned
    BY <2>1, Forms
  <2>3. \A c \in Spawned :
          <<NewRun("text"), NewRun("json"), Export("json", 1), Resume("json"), c,
            NewRun("file"), NewRun("mock"), Export("mock", 1)>> \in Seq(Spawned)
    BY <2>2
  <2>4. Continue("") \in Spawned
    BY Forms, TextsHave, Zenon
  <2>. QED  BY <2>3, <2>4, StageIssues, Zenon DEF InstalledDefault
<1>3. Issues(InstalledLive)
  <2>1. {"S", "configured", "agent", "continue"} \subseteq Texts
    BY DEF Texts, Names
  <2>2. InstalledLiveRuns \in Seq(Spawned)
    BY <2>1, Forms DEF InstalledLiveRuns
  <2>3. InstalledConfiguredRuns \in Seq(Spawned)
    BY <2>1, Forms DEF InstalledConfiguredRuns
  <2>. QED  BY <2>2, <2>3, StageIssues, AgainstIssues, ConcatProperties DEF InstalledLive
<1>4. /\ Issues(InstalledRead) /\ Issues(InstalledWrite) /\ Issues(InstalledEdit)
      /\ Issues(InstalledPatch) /\ Issues(InstalledBash) /\ Issues(InstalledChain)
  BY CallingIssues DEF InstalledRead, InstalledWrite, InstalledEdit, InstalledPatch,
                     InstalledBash, InstalledChain
<1>5. Issues(InstalledDenied) /\ Issues(InstalledSkipDenied)
  BY CallingIssues, DeniedIssues, SkippingIssues DEF InstalledDenied, InstalledSkipDenied
<1>6. Issues(InstalledSkip)
  BY CallingIssues, SkippingIssues, AskIssues DEF InstalledSkip
<1>7. Issues(InstalledFailure)
  BY FailingIssues DEF InstalledFailure
<1>8. Issues(InstalledPersisted) /\ Issues(InstalledMockPersisted)
  <2>1. {"S", "file", "session", ""} \subseteq Texts
    BY DEF Texts, Names
  <2>2. /\ \A n \in {1, 2, 3} : Export("S", n) \in Spawned
        /\ NewRun("S") \in Spawned /\ Resume("S") \in Spawned /\ Continue("S") \in Spawned
        /\ NewRun("file") \in Spawned /\ Export("file", 1) \in Spawned
        /\ Fork("session", "S") \in Spawned /\ ExportFork("S") \in Spawned
    BY <2>1, Forms
  <2>. QED  BY <2>2 DEF Issues, Stage, InstalledPersisted, InstalledMockPersisted
<1>. QED  BY <1>1, <1>2, <1>3, <1>4, <1>5, <1>6, <1>7, <1>8 DEF PackageSmoke

LEMMA ServeRequests == InstalledServe.commands \in Seq(Requested)
<1>1. {"pty", "read", "delete", "session"} \subseteq Texts
  BY DEF Texts, Names
<1>2. InstalledPty \in Seq(Requested)
  BY <1>1, Requests DEF InstalledPty
<1>3. <<Start, Fetch("read"), Stream, Fetch("session"), Stream, Fetch("read"), Fetch("read"),
        Fetch("read"), Fetch("read"), Fetch("read")>> \in Seq(Requested)
  BY <1>1, Requests
<1>. QED  BY <1>2, <1>3, ConcatProperties DEF InstalledServe, Stage

LEMMA CliIssues == \A k \in 1..19 : Issues(CliSmoke[k])
<1>1. Issues(GeneratedHelp)
  <2>1. Quiet(4) \in Seq(Spawned) /\ <<Refused, Plain>> \in Seq(Spawned)
    BY QuietIs, Forms
  <2>. QED  BY <2>1, StageIssues, ConcatProperties DEF GeneratedHelp
<1>2. Issues(GeneratedDefault) /\ Issues(GeneratedFiles)
  <2>1. {"text", "json", "file", "mock", "mockText"} \subseteq Texts
    BY DEF Texts, Names
  <2>2. /\ NewRun("text") \in Spawned /\ NewRun("json") \in Spawned
        /\ NewRun("file") \in Spawned /\ NewRun("mock") \in Spawned
        /\ NewRun("mockText") \in Spawned
        /\ Export("json", 1) \in Spawned /\ Resume("json") \in Spawned
        /\ Refused \in Spawned
    BY <2>1, Forms
  <2>3. \A c \in Spawned :
          <<NewRun("text"), NewRun("json"), Export("json", 1), Resume("json"), c,
            NewRun("mockText"), NewRun("mock"), Refused, Refused>> \in Seq(Spawned)
    BY <2>2
  <2>4. Continue("") \in Spawned
    BY Forms, TextsHave, Zenon
  <2>5. Issues(GeneratedDefault)
    BY <2>3, <2>4, StageIssues, Zenon DEF GeneratedDefault
  <2>6. Issues(GeneratedFiles)
    BY <2>2 DEF Issues, Stage, GeneratedFiles
  <2>. QED  BY <2>5, <2>6
<1>3. Issues(GeneratedPersisted)
  <2>1. {"S", "file", "session", ""} \subseteq Texts
    BY DEF Texts, Names
  <2>2. /\ Export("S", 1) \in Spawned /\ Export("S", 2) \in Spawned
        /\ NewRun("S") \in Spawned /\ Resume("S") \in Spawned
        /\ NewRun("file") \in Spawned /\ Export("file", 1) \in Spawned
        /\ Fork("session", "S") \in Spawned /\ ExportFork("S") \in Spawned
    BY <2>1, Forms
  <2>. QED  BY <2>2 DEF Issues, Stage, GeneratedPersisted
<1>4. Issues(GeneratedMockPersisted)
  <2>1. Export("S", 2) \in Spawned
    BY Forms, TextsHave
  <2>2. [Export("S", 2) EXCEPT !.last = FALSE] \in Spawned
    BY <2>1 DEF Spawned, CommandOf
  <2>3. NewRun("S") \in Spawned /\ Export("S", 1) \in Spawned /\ Resume("S") \in Spawned
    BY Forms, TextsHave
  <2>. QED  BY <2>2, <2>3 DEF Issues, Stage, GeneratedMockPersisted
<1>5. Issues(GeneratedUnresolved) /\ Issues(GeneratedMissing) /\ Issues(GeneratedRemote)
  <2>1. Refused \in Spawned /\ Live(Refused) \in Spawned
    BY Forms
  <2>. QED  BY <2>1 DEF Issues, Stage, Against, GeneratedUnresolved, GeneratedMissing,
                                              GeneratedRemote
<1>6. Issues(GeneratedLive)
  <2>1. {"S", "configured", "continue"} \subseteq Texts
    BY DEF Texts, Names
  <2>2. /\ \A n \in {1, 2, 3} : Export("S", n) \in Spawned
        /\ NewRun("S") \in Spawned /\ Resume("S") \in Spawned /\ Continue("S") \in Spawned
        /\ NewRun("configured") \in Spawned
        /\ Fork("continue", "S") \in Spawned /\ ExportFork("S") \in Spawned
    BY <2>1, Forms
  <2>3. /\ Live(NewRun("S")) \in Spawned /\ Live(Resume("S")) \in Spawned
        /\ Live(Continue("S")) \in Spawned /\ Live(Fork("continue", "S")) \in Spawned
        /\ AtHome(Live(NewRun("configured"))) \in Spawned
    BY <2>2, Forms
  <2>. QED  BY <2>2, <2>3 DEF Issues, Stage, Against, GeneratedLive
<1>7. /\ Issues(GeneratedRead) /\ Issues(GeneratedWrite) /\ Issues(GeneratedEdit)
      /\ Issues(GeneratedPatch) /\ Issues(GeneratedBash) /\ Issues(GeneratedChain)
  BY CallingIssues DEF GeneratedRead, GeneratedWrite, GeneratedEdit, GeneratedPatch,
                     GeneratedBash, GeneratedChain
<1>8. Issues(GeneratedDenied) /\ Issues(GeneratedSkipDenied)
  BY CallingIssues, DeniedIssues, SkippingIssues DEF GeneratedDenied, GeneratedSkipDenied
<1>9. Issues(GeneratedSkip) /\ Issues(GeneratedFailure)
  BY CallingIssues, SkippingIssues, AskIssues, FailingIssues DEF GeneratedSkip, GeneratedFailure
<1>. QED  BY <1>1, <1>2, <1>3, <1>4, <1>5, <1>6, <1>7, <1>8, <1>9 DEF CliSmoke

LEMMA ScriptsAre ==
  ASSUME NEW s \in DOMAIN Scripts
  PROVE  /\ Len(Scripts[s]) \in Nat \ {0}
         /\ \A k \in 1..Len(Scripts[s]) :
              Scripts[s][k].commands \in Seq(Spawned) \cup Seq(Requested)
<1>1. CASE s = "package"
  <2>1. Scripts[s] = PackageSmoke /\ Len(PackageSmoke) = 17
    BY <1>1 DEF Scripts, PackageSmoke
  <2>2. PackageSmoke[17] = InstalledServe
    BY DEF PackageSmoke
  <2>3. \A k \in 1..17 : k \in 1..16 \/ k = 17
    OBVIOUS
  <2>4. \A k \in 1..17 : PackageSmoke[k].commands \in Seq(Spawned) \cup Seq(Requested)
    BY <2>2, <2>3, PackageIssues, ServeRequests DEF Issues
  <2>. QED  BY <2>1, <2>4
<1>2. CASE s = "cli"
  <2>1. Scripts[s] = CliSmoke /\ Len(CliSmoke) = 19
    BY <1>2 DEF Scripts, CliSmoke
  <2>. QED  BY <2>1, CliIssues DEF Issues
<1>. QED  BY <1>1, <1>2 DEF Scripts

-----------------------------------------------------------------------------
(* Where the script is, and the two facts of a process it can see.         *)
Placed ==
  /\ script \in DOMAIN Scripts
  /\ stage \in 1..Len(Stages)
  /\ step \in Nat \ {0}
  /\ failing \in BOOLEAN
  /\ {"phase", "signalled"} \subseteq DOMAIN child /\ child.signalled \in BOOLEAN
  /\ {"phase", "signalled"} \subseteq DOMAIN daemon /\ daemon.signalled \in BOOLEAN

Serving == This.commands \in Seq(Requested)

(* A child runs while the script waits for it, or after its timeout; the   *)
(* server runs in a stage that starts no child, until it is signalled.     *)
Attended ==
  /\ Running => mode = "wait" \/ (failing /\ child.signalled)
  /\ DaemonRuns => daemon.signalled \/ (Serving /\ mode \in {"issue", "starting", "fetch", "stop"})
  /\ mode \in {"close", "leave"} /\ ~failing => ~DaemonRuns

Housed == IF mode \in Ended THEN roots = {} ELSE roots \subseteq {This.root}

SmokeInv == Placed /\ Attended /\ Housed /\ NothingLeftBehind

LEMMA SmokeInitInv == SmokeInit => SmokeInv
<1>. SUFFICES ASSUME SmokeInit PROVE SmokeInv
  OBVIOUS
<1>1. Placed
  <2>1. script \in DOMAIN Scripts /\ 1 \in 1..Len(Scripts[script])
    BY ScriptsAre DEF SmokeInit
  <2>2. /\ {"phase", "signalled"} \subseteq DOMAIN child /\ child.signalled = FALSE
        /\ {"phase", "signalled"} \subseteq DOMAIN daemon /\ daemon.signalled = FALSE
    BY DEF SmokeInit, NoChild, NoDaemon
  <2>3. stage \in 1..Len(Stages)
    BY <2>1 DEF SmokeInit, Stages
  <2>4. step \in Nat \ {0}
    BY DEF SmokeInit
  <2>5. failing \in BOOLEAN
    BY DEF SmokeInit
  <2>. QED  BY <2>1, <2>2, <2>3, <2>4, <2>5 DEF Placed
<1>2. Attended
  BY DEF SmokeInit, Attended, Running, DaemonRuns, NoChild, NoDaemon
<1>3. Housed
  BY <1>1 DEF SmokeInit, Housed, Placed, This, Stages, Ended
<1>4. NothingLeftBehind
  BY DEF SmokeInit, NothingLeftBehind, Ended
<1>. QED  BY <1>1, <1>2, <1>3, <1>4 DEF SmokeInv

(* A child goes on or ends.                                                *)
LEMMA ChildKeeps ==
  ASSUME SmokeInv, UNCHANGED <<harness, daemon>>,
         child'.phase = "running" => child.phase = "running",
         {"phase", "signalled"} \subseteq DOMAIN child', child'.signalled = child.signalled
  PROVE  SmokeInv'
BY DEF SmokeInv, Placed, Attended, Housed, NothingLeftBehind, harness, place, This, Stages,
       Running, DaemonRuns, Serving

LEMMA DaemonKeeps ==
  ASSUME SmokeInv, UNCHANGED <<harness, child>>,
         daemon'.phase \in {"starting", "ready"} => DaemonRuns,
         {"phase", "signalled"} \subseteq DOMAIN daemon', daemon'.signalled = daemon.signalled
  PROVE  SmokeInv'
BY DEF SmokeInv, Placed, Attended, Housed, NothingLeftBehind, harness, place, This, Stages,
       Running, DaemonRuns, Serving

LEMMA TookKeeps ==
  ASSUME SmokeInv, NEW reply
  PROVE  /\ Took(reply).phase = child.phase /\ Took(reply).signalled = child.signalled
         /\ {"phase", "signalled"} \subseteq DOMAIN Took(reply)
<1>. DEFINE more == child.rounds + 1
            ending == IF child.rounds < 4 THEN "none" ELSE "stop"
            allowed == Allowed(reply.call)
            carried == [child EXCEPT !.asking = FALSE, !.tool = "completed", !.rounds = more,
                                     !.finish = ending]
<1>1. Took(reply) \in {[child EXCEPT !.asking = FALSE, !.finish = "error"],
                       [child EXCEPT !.asking = FALSE, !.finish = "stop"],
                       [child EXCEPT !.asking = FALSE, !.tool = "error", !.finish = "stop"],
                       carried}
  BY Zenon DEF Took
<1>. HIDE DEF more, ending, allowed
<1>. QED  BY <1>1 DEF SmokeInv, Placed

LEMMA ChildInv == SmokeInv /\ (Child \/ Terminated \/ Crash \/ Hang) => SmokeInv'
<1>. SUFFICES ASSUME SmokeInv PROVE Child \/ Terminated \/ Crash \/ Hang => SmokeInv'
  OBVIOUS
<1>. USE DEF SmokeInv, Placed
<1>1. CASE Asks
  BY <1>1, ChildKeeps DEF Asks
<1>2. CASE Answer
  BY <1>2, ChildKeeps, TookKeeps DEF Answer, harness
<1>3. CASE Disconnected
  BY <1>3, ChildKeeps DEF Disconnected
<1>4. CASE RunEnds
  BY <1>4, ChildKeeps DEF RunEnds
<1>5. CASE OtherEnds
  BY <1>5, ChildKeeps DEF OtherEnds
<1>6. CASE Dies
  BY <1>6, ChildKeeps DEF Dies
<1>7. CASE Hang
  BY <1>7, ChildKeeps DEF Hang
<1>. QED  BY <1>1, <1>2, <1>3, <1>4, <1>5, <1>6, <1>7 DEF Child, Terminated, Crash

LEMMA DaemonInv ==
  SmokeInv /\ (Listens \/ DaemonTerminated \/ DaemonCrash \/ DaemonHangs) => SmokeInv'
<1>. SUFFICES ASSUME SmokeInv PROVE Listens \/ DaemonTerminated \/ DaemonCrash \/ DaemonHangs => SmokeInv'
  OBVIOUS
<1>. USE DEF SmokeInv, Placed
<1>1. CASE Listens
  BY <1>1, DaemonKeeps DEF Listens, DaemonRuns
<1>2. CASE DaemonTerminated
  BY <1>2, DaemonKeeps DEF DaemonTerminated, DaemonExits
<1>3. CASE DaemonCrash
  BY <1>3, DaemonKeeps DEF DaemonCrash, DaemonExits
<1>4. CASE DaemonHangs
  BY <1>4, DaemonKeeps DEF DaemonHangs, DaemonRuns
<1>. QED  BY <1>1, <1>2, <1>3, <1>4

(* The commands of a stage are all children or all requests.               *)
LEMMA ThisIs ==
  ASSUME SmokeInv
  PROVE  /\ Len(This.commands) \in Nat
         /\ step <= Len(This.commands) =>
              IF Serving THEN Now.do \in {"serve", "fetch", "stream"}
                         ELSE Now.do \in {"other", "run", "export"}
<1>1. This.commands \in Seq(Spawned) \cup Seq(Requested)
  BY ScriptsAre DEF SmokeInv, Placed, This, Stages
<1>2. \A c \in Spawned : c.do \in {"other", "run", "export"}
  BY DEF Spawned, CommandOf
<1>3. \A c \in Requested : c.do \in {"serve", "fetch", "stream"}
  BY DEF Requested, CommandOf
<1>. HIDE DEF This
<1>4. Len(This.commands) \in Nat
  BY <1>1
<1>5. ASSUME step <= Len(This.commands)
      PROVE  IF Serving THEN Now \in Requested ELSE Now \in Spawned
  <2>1. step \in 1..Len(This.commands)
    BY <1>4, <1>5 DEF SmokeInv, Placed
  <2>. QED  BY <1>1, <2>1 DEF Serving, Now
<1>. QED  BY <1>2, <1>3, <1>4, <1>5

(* The script goes on in its stage, or beside a child it has signalled.    *)
LEMMA SpawnInv == SmokeInv /\ Spawn => SmokeInv'
<1>. SUFFICES ASSUME SmokeInv, Spawn PROVE SmokeInv'
  OBVIOUS
<1>1. /\ mode = "issue" /\ mode' = "wait" /\ ~Serving
      /\ UNCHANGED <<script, stage, step, failing, roots, daemon>>
  BY ThisIs DEF Spawn, Goto, place
<1>2. /\ {"phase", "signalled"} \subseteq DOMAIN child' /\ child'.signalled = FALSE
  BY DEF Spawn, NoChild
<1>. QED  BY <1>1, <1>2 DEF SmokeInv, Placed, Attended, Housed, NothingLeftBehind, This, Stages,
                             Running, DaemonRuns, Serving, Ended

LEMMA TimeoutInv == SmokeInv /\ Timeout => SmokeInv'
<1>. SUFFICES ASSUME SmokeInv, Timeout PROVE SmokeInv'
  OBVIOUS
<1>1. /\ mode = "wait" /\ UNCHANGED <<script, stage, step, roots, daemon>>
      /\ (mode' = "wait" /\ failing' = failing) \/ (mode' = "close" /\ failing' = TRUE)
      /\ child' = [child EXCEPT !.signalled = TRUE]
  BY DEF Timeout, harness, place, Fails
<1>. QED  BY <1>1 DEF SmokeInv, Placed, Attended, Housed, NothingLeftBehind, This, Stages,
                      Running, DaemonRuns, Serving, Ended

LEMMA CheckInv == SmokeInv /\ Check => SmokeInv'
<1>. SUFFICES ASSUME SmokeInv, Check PROVE SmokeInv'
  OBVIOUS
<1>1. /\ mode = "wait" /\ child.phase = "ended" /\ UNCHANGED <<script, stage, roots, child, daemon>>
      /\ \/ step' = step + 1 /\ mode' = "issue" /\ failing' = failing
         \/ step' = step /\ mode' = "close" /\ failing' = TRUE
  BY DEF Check, NextCommand, place, Fails
<1>2. Placed'
  <2>1. step' \in Nat \ {0}
    BY <1>1 DEF SmokeInv, Placed
  <2>. QED  BY <1>1, <2>1 DEF SmokeInv, Placed, Stages
<1>3. Attended'
  BY <1>1 DEF SmokeInv, Attended, Running, DaemonRuns, This, Stages, Serving
<1>4. Housed' /\ NothingLeftBehind'
  BY <1>1 DEF SmokeInv, Housed, NothingLeftBehind, This, Stages, Ended
<1>. QED  BY <1>2, <1>3, <1>4 DEF SmokeInv

(* A step that leaves the processes alone and moves within the stage.      *)
Moves(from, to) ==
  /\ mode \in from /\ mode' \in to
  /\ step' \in {step, step + 1}
  /\ UNCHANGED <<script, stage, roots, child>>

LEMMA MovesInv ==
  ASSUME SmokeInv,
         Moves({"issue", "starting", "fetch", "stop", "stopping", "missed", "close"},
               {"issue", "starting", "fetch", "stop", "stopping", "missed", "close", "leave"}),
         failing' \in BOOLEAN, failing => failing',
         {"phase", "signalled"} \subseteq DOMAIN daemon', daemon'.signalled \in BOOLEAN,
         DaemonRuns' => daemon'.signalled \/ (Serving /\ mode' \in {"issue", "starting", "fetch", "stop"}),
         mode' \in {"close", "leave"} /\ ~failing' => ~DaemonRuns'
  PROVE  SmokeInv'
BY DEF Moves, SmokeInv, Placed, Attended, Housed, NothingLeftBehind, This, Stages,
       Running, Serving, Ended

LEMMA ScriptMoves ==
  ASSUME SmokeInv,
         CommandsDone \/ StartServer \/ StartResolves \/ StartRejects \/ FetchStarts
           \/ FetchTries \/ FetchGivesUp \/ StreamOnce \/ StopSignals \/ Stopped
           \/ StopTimesOut \/ Leave
  PROVE  SmokeInv'
<1>. USE DEF Goto, Fails, place, harness, Moves, NextCommand, SmokeInv, Placed, Attended, DaemonRuns
<1>1. CASE CommandsDone
  BY <1>1, MovesInv DEF CommandsDone
<1>2. CASE StartServer
  <2>1. Serving
    BY <1>2, ThisIs DEF StartServer
  <2>2. {"phase", "signalled"} \subseteq DOMAIN daemon' /\ daemon'.signalled = FALSE
    BY <1>2 DEF StartServer, NoDaemon
  <2>3. /\ mode = "issue" /\ mode' = "starting" /\ UNCHANGED <<script, stage, step, failing, roots, child>>
    BY <1>2 DEF StartServer
  <2>4. Moves({"issue"}, {"starting"})
    BY <2>3
  <2>. QED  BY <2>1, <2>2, <2>3, <2>4, MovesInv
<1>3. CASE StartResolves
  BY <1>3, MovesInv DEF StartResolves
<1>4. CASE StartRejects
  BY <1>4, MovesInv DEF StartRejects
<1>5. CASE FetchStarts
  BY <1>5, MovesInv DEF FetchStarts
<1>6. CASE FetchTries
  <2>1. /\ daemon'.phase = daemon.phase /\ daemon'.signalled = daemon.signalled
        /\ {"phase", "signalled"} \subseteq DOMAIN daemon'
    <3>. DEFINE more == daemon.sessions + 1
    <3>1. daemon' \in {[daemon EXCEPT !.sessions = more], [daemon EXCEPT !.removed = TRUE], daemon}
      BY <1>6, Zenon DEF FetchTries, Handled
    <3>. HIDE DEF more
    <3>. QED  BY <3>1
  <2>2. /\ mode = "fetch" /\ UNCHANGED <<script, stage, roots, child>>
        /\ \/ mode' = "stop" /\ failing' = TRUE /\ step' = step
           \/ mode' = "issue" /\ failing' = failing /\ step' = step + 1
           \/ mode' = "fetch" /\ failing' = failing /\ step' = step
    BY <1>6 DEF FetchTries
  <2>3. DaemonRuns' => DaemonRuns
    BY <2>1
  <2>4. failing' \in BOOLEAN /\ (failing => failing')
    BY <2>2
  <2>5. Moves({"fetch"}, {"stop", "issue", "fetch"})
    BY <2>2
  <2>. QED  BY <2>1, <2>2, <2>3, <2>4, <2>5, MovesInv
<1>7. CASE FetchGivesUp
  BY <1>7, MovesInv DEF FetchGivesUp
<1>8. CASE StreamOnce
  <2>1. /\ mode = "issue" /\ UNCHANGED <<script, stage, roots, child, daemon>>
        /\ \/ mode' = "stop" /\ failing' = TRUE /\ step' = step
           \/ mode' = "issue" /\ failing' = failing /\ step' = step + 1
    BY <1>8 DEF StreamOnce
  <2>2. failing' \in BOOLEAN /\ (failing => failing')
    BY <2>1
  <2>3. Moves({"issue"}, {"stop", "issue"})
    BY <2>1
  <2>. QED  BY <2>1, <2>2, <2>3, MovesInv
<1>9. CASE StopSignals
  BY <1>9, MovesInv DEF StopSignals
<1>10. CASE Stopped
  BY <1>10, MovesInv DEF Stopped
<1>11. CASE StopTimesOut
  BY <1>11, MovesInv DEF StopTimesOut
<1>12. CASE Leave
  BY <1>12, MovesInv DEF Leave, Closes
<1>. QED  BY <1>1, <1>2, <1>3, <1>4, <1>5, <1>6, <1>7, <1>8, <1>9, <1>10, <1>11, <1>12

LEMMA ThrowInv == SmokeInv /\ (Throw \/ Finish) => SmokeInv'
<1>. SUFFICES ASSUME SmokeInv, Throw \/ Finish PROVE SmokeInv'
  OBVIOUS
<1>1. /\ mode = "leave" /\ roots' = {} /\ UNCHANGED <<script, stage, step, failing, child, daemon>>
      /\ \/ mode' = "failed" /\ failing
         \/ mode' = "ok" /\ ~failing
  BY DEF SmokeInv, Housed, Ended, Throw, Finish, place, Removed
<1>2. Placed' /\ Housed'
  BY <1>1 DEF SmokeInv, Placed, Stages, Housed, Ended
<1>3. Attended' /\ NothingLeftBehind'
  BY <1>1 DEF SmokeInv, Attended, Running, DaemonRuns, This, Stages, Serving, Ended, NothingLeftBehind
<1>. QED  BY <1>2, <1>3 DEF SmokeInv

LEMMA NextStageInv == SmokeInv /\ NextStage => SmokeInv'
<1>. SUFFICES ASSUME SmokeInv, NextStage PROVE SmokeInv'
  OBVIOUS
<1>1. /\ mode = "leave" /\ mode' = "issue" /\ ~failing /\ stage < Len(Stages)
      /\ stage' = stage + 1 /\ step' = 1 /\ child' = NoChild
      /\ UNCHANGED <<script, failing, daemon>>
  BY DEF NextStage
<1>2. stage' \in 1..Len(Stages')
  BY <1>1, ScriptsAre DEF SmokeInv, Placed, Stages
<1>3. Placed'
  <2>1. step' \in Nat \ {0}
    BY <1>1
  <2>. QED  BY <1>1, <1>2, <2>1 DEF SmokeInv, Placed, NoChild
<1>4. roots' \subseteq {This'.root}
  <2>1. This'.root = Stages[stage + 1].root
    BY <1>1 DEF This, Stages
  <2>2. roots \subseteq {This.root}
    BY <1>1 DEF SmokeInv, Housed, Ended
  <2>. QED  BY <2>1, <2>2 DEF NextStage, Removed
<1>5. Housed' /\ NothingLeftBehind'
  BY <1>1, <1>4 DEF Housed, NothingLeftBehind, Ended
<1>6. Attended'
  BY <1>1 DEF SmokeInv, Attended, Running, DaemonRuns, NoChild
<1>. QED  BY <1>3, <1>5, <1>6 DEF SmokeInv

LEMMA SmokeNextInv == SmokeInv /\ [SmokeNext]_all => SmokeInv'
<1>. SUFFICES ASSUME SmokeInv, [SmokeNext]_all PROVE SmokeInv'
  OBVIOUS
<1>1. CASE UNCHANGED all
  BY <1>1, ChildKeeps DEF all, harness, place, SmokeInv, Placed
<1>2. CASE Script
  BY <1>2, SpawnInv, TimeoutInv, CheckInv, ScriptMoves, ThrowInv, NextStageInv DEF Script
<1>3. CASE Child \/ Terminated \/ Crash \/ Hang
  BY <1>3, ChildInv
<1>4. CASE Listens \/ DaemonTerminated \/ DaemonCrash \/ DaemonHangs
  BY <1>4, DaemonInv
<1>. QED  BY <1>1, <1>2, <1>3, <1>4 DEF SmokeNext, Faulty

(* The script that ends removed its directories; one that succeeded left   *)
(* no process, and one that failed has signalled those it leaves alive     *)
(* (Throw, Finish, Timeout, StartRejects, StopTimesOut).                   *)
THEOREM NothingStays == SmokeSpec => []NothingLeftBehind
<1>1. SmokeInv => NothingLeftBehind
  BY DEF SmokeInv
<1>. QED  BY <1>1, SmokeInitInv, SmokeNextInv, PTL DEF SmokeSpec

-----------------------------------------------------------------------------
(* The ledger of a stage: what its runs have to leave in the table, by the *)
(* names the script gives their sessions.                                  *)
Ledger ==
  [runs   : Nat,               (* the turns there are                      *)
   latest : Names,             (* whose the last one is                    *)
   turns  : [Names -> Nat],    (* how many each session has                *)
   top    : Names,             (* the session that was resumed, if any     *)
   parent : [Names -> Names]]  (* the session each was forked from         *)

Blank == [runs |-> 0, latest |-> "", turns |-> [n \in Names |-> 0],
          top |-> "", parent |-> [n \in Names |-> ""]]

Known(l) == {n \in Names : l.turns[n] > 0}

Runs(c) == c.do = "run" /\ c.valid

(* The session a run picks, and the one it takes a turn of.                *)
Target(l, c) == IF c.how = "session" THEN c.of ELSE l.top

Who(l, c) == IF Resumes(c) THEN Target(l, c) ELSE c.as

Parent(l, c) == IF c.fork THEN Target(l, c) ELSE ""

Entered(l, c) ==
  IF ~Runs(c) THEN l
  ELSE [runs   |-> l.runs + 1,
        latest |-> Who(l, c),
        turns  |-> [n \in Names |-> IF n = Who(l, c) THEN l.turns[n] + 1 ELSE l.turns[n]],
        top    |-> IF Resumes(c) THEN Who(l, c) ELSE l.top,
        parent |-> [n \in Names |-> IF n = Who(l, c) /\ ~Resumes(c) THEN Parent(l, c) ELSE l.parent[n]]]

(* A run that makes a session, by a name that is new, and one that resumes *)
(* the only session that is ever resumed.                                  *)
Makes(l, c) ==
  /\ c.as \in Names \ ({"", l.top} \cup Known(l))
  /\ c.is = ""
  /\ c.other # "" => c.other \in Known(l)

Goes(l, c) ==
  /\ c.as = "" /\ c.other = ""
  /\ c.is \in {"", Target(l, c)}
  /\ l.top \in {"", Target(l, c)}

(* What the script may expect of a command.                                *)
FitsRun(l, c) ==
  /\ l.runs < 6
  /\ c.status = 0
  /\ c.how \in {"new", "session", "continue"}
  /\ c.how = "new" => ~c.fork
  /\ c.how # "new" => Target(l, c) \in Known(l)
  /\ c.how = "continue" => l.parent[l.top] = ""
  /\ IF Resumes(c) THEN Goes(l, c) ELSE Makes(l, c)

FitsExport(l, c) ==
  /\ c.status = 0
  /\ c.of \in Known(l)
  /\ l.turns[c.of] = c.turns
  /\ c.last => l.latest = c.of
  /\ c.parent # "" => l.parent[c.of] = c.parent

Fits(l, c) ==
  \/ Runs(c) /\ FitsRun(l, c)
  \/ c.do = "run" /\ ~c.valid /\ c.status # 0
  \/ c.do = "export" /\ FitsExport(l, c)
  \/ c.do = "other" /\ c.status = 0

(* A ledger before each command, and after the last.                       *)
Balances(cs, book) ==
  /\ book \in [1 .. Len(cs) + 1 -> Ledger]
  /\ book[1] = Blank
  /\ \A i \in 1 .. Len(cs) :
       /\ Fits(book[i], cs[i])
       /\ book[i + 1] = IF i < Len(cs) /\ cs[i + 1].home THEN Blank ELSE Entered(book[i], cs[i])

Balanced(cs) == \E book : Balances(cs, book)

BookOf(cs) == CHOOSE book : Balances(cs, book)

-----------------------------------------------------------------------------
(* What a stage's provider leads the model to, and what is asserted of it. *)
Permits(stg, tool) ==
  \/ tool \notin {"write", "edit", "apply_patch"}
  \/ stg.permission = "allow"
  \/ stg.permission = "ask" /\ stg.commands[1].skip

Tooling(stg) == stg.server \in {"tool", "chain"}

ToolsSucceed(stg) ==
  /\ \A i \in 1 .. Len(stg.tools) : Permits(stg, stg.tools[i])
  /\ stg.requests = Len(stg.tools) + 1
  /\ stg.tool = "completed"

ToolIsDenied(stg) ==
  /\ ~Permits(stg, stg.tools[1])
  /\ stg.requests = 1
  /\ stg.tool = "error"

Provides(stg) ==
  /\ \A i \in 1 .. Len(stg.commands) : stg.commands[i].live => stg.server # "none"
  /\ IF Tooling(stg)
       THEN /\ Len(stg.tools) \in 1 .. 4
            /\ stg.server = "tool" => Len(stg.tools) = 1
            /\ \A i \in 1 .. Len(stg.tools) : stg.tools[i] # ""
            /\ ToolsSucceed(stg) \/ ToolIsDenied(stg)
            /\ stg.finish = "stop"
            /\ Len(stg.commands) = 2 /\ stg.commands[1].live
            /\ ~stg.commands[2].live /\ ~Runs(stg.commands[2])
       ELSE /\ stg.server \in {"none", "text", "failing", "config"}
            /\ stg.requests = 0
            /\ stg.tool = "none"
            /\ stg.finish = IF stg.server = "failing" THEN "error" ELSE "stop"

-----------------------------------------------------------------------------
(* The table, as the ledger has it with the script's names.                *)
Entry(l, nm, n) ==
  LET s == nm[n] IN
  /\ Turns(s) \subseteq 1 .. l.runs
  /\ Cardinality(Turns(s)) = l.turns[n]
  /\ l.runs \in Turns(s) <=> n = l.latest
  /\ db[s].updated > 0 <=> n = l.top
  /\ l.parent[n] \in Known(l) \cup {""}
  /\ db[s].parent = nm[l.parent[n]]

Rows(l, nm) ==
  /\ nm \in [Names -> Ids \cup {NoSession}]
  /\ nm[""] = NoSession
  /\ Stored = {nm[n] : n \in Known(l)}
  /\ \A n, m \in Known(l) : nm[n] = nm[m] => n = m
  /\ \A n \in Known(l) : Entry(l, nm, n)

Taken(n) == {p \in Clients : cli[p].phase # "waiting"} = 1 .. n

(* The commands so far are done, and no two of those that resumed have the *)
(* same time.                                                              *)
Finished(l) ==
  /\ Taken(l.runs)
  /\ \A p \in 1 .. l.runs :
       /\ cli[p].phase = "done" /\ cli[p].time <= clock
       /\ p < l.runs => cli[p].time < clock
  /\ l.runs > 0 /\ l.turns[l.latest] > 1 => cli[l.runs].time = clock

Book(l, nm) == Rows(l, nm) /\ Finished(l)

(* The run at work.                                                        *)
AtWork(l, c) ==
  LET r == l.runs + 1 IN
  /\ Taken(r)
  /\ \A p \in 1 .. l.runs : cli[p].phase = "done" /\ cli[p].time < clock
  /\ cli[r].phase = "running"
  /\ clock > 0
  /\ IF Resumes(c)
       THEN cli[r].session = names[Target(l, c)] /\ cli[r].time = clock
       ELSE /\ cli[r].session \in Ids \ Stored /\ cli[r].time = 0
            /\ cli[r].parent = names[Parent(l, c)]

NewNames == IF Now.as = "" THEN names ELSE [names EXCEPT ![Now.as] = cli[child.run].session]

-----------------------------------------------------------------------------
ChildState ==
  [phase : {"none", "running", "ended"}, run : Clients \cup {NoSession}, hung : BOOLEAN,
   signalled : BOOLEAN, asking : BOOLEAN, rounds : Nat, tool : {"none", "error", "completed"},
   finish : {"none", "stop", "error"}, ok : BOOLEAN]

(* How far the model has come with the provider's answers.                 *)
ToolsDone ==
  /\ child.rounds <= Len(This.tools)
  /\ child.tool = IF child.rounds = 0 THEN "none" ELSE "completed"
  /\ \/ child.finish = "none" /\ served = child.rounds
     \/ child.finish = "stop" /\ child.rounds = Len(This.tools) /\ served = child.rounds + 1

DenialDone ==
  \/ child.finish = "none" /\ child.tool = "none" /\ child.rounds = 0 /\ served = 0
  \/ child.finish = "stop" /\ child.tool = "error" /\ served = 1

Conversed ==
  IF Tooling(This)
    THEN (ToolsSucceed(This) /\ ToolsDone) \/ (ToolIsDenied(This) /\ DenialDone)
    ELSE child.finish \in {"none", This.finish} /\ child.tool = "none"

Conversing ==
  /\ child.asking => Now.live /\ child.finish = "none"
  /\ Now.live => Conversed

(* The ledger before the command at step.                                  *)
Here == BookOf(This.commands)[step]

(* The child at its command, and once it has ended.                        *)
RunChild ==
  /\ child.run = Here.runs + 1
  /\ IF child.phase = "running"
       THEN Rows(Here, names) /\ AtWork(Here, Now)
       ELSE /\ child.ok
            /\ Now.live => child.finish # "none"
            /\ Book(Entered(Here, Now), NewNames)
            /\ Resumes(Now) => cli[child.run].session = names[Target(Here, Now)]
            /\ Now.other # "" => cli[child.run].session # names[Now.other]

PlainChild ==
  /\ Book(Here, names)
  /\ child.phase = "ended" => child.ok = (Now.status = 0)

ChildHealthy ==
  /\ child.phase \in {"running", "ended"}
  /\ Conversing
  /\ IF IsRun THEN RunChild ELSE PlainChild

Ready == daemon = [NoDaemon EXCEPT !.phase = "ready",
                     !.sessions = IF step > 4 THEN 1 ELSE 0, !.removed = step > 17]

(* The installed server, step by step.                                     *)
ServerHealthy ==
  /\ mode \in {"issue", "starting", "fetch", "stop", "stopping", "leave"}
  /\ step <= 18
  /\ mode = "issue" => IF step = 1 THEN daemon = NoDaemon ELSE Ready
  /\ mode = "starting" => step = 1 /\ daemon \in {[NoDaemon EXCEPT !.phase = ph] : ph \in {"starting", "ready"}}
  /\ mode = "fetch" => step \in 2 .. 17 /\ Now.do = "fetch" /\ Ready
  /\ mode = "stop" => daemon.phase = "ready" /\ ~daemon.signalled
  /\ mode \in {"stop", "stopping"} => ~daemon.hung

StageHealthy ==
  /\ mode \in {"issue", "wait", "close", "leave"}
  /\ step <= Len(This.commands) + 1
  /\ daemon = NoDaemon
  /\ mode = "issue" => Book(Here, names) /\ (step = 1 => served = 0)
  /\ mode = "wait" => step <= Len(This.commands) /\ ChildHealthy

Healthy ==
  /\ ~failing
  /\ child \in ChildState /\ ~child.hung /\ ~child.signalled
  /\ mode # "ok" => IF Serving THEN ServerHealthy ELSE StageHealthy

(* A stage whose commands are children, and fit.                           *)
Sound(stg) ==
  /\ Issues(stg)
  /\ stg.commands # <<>>
  /\ Balanced(stg.commands)
  /\ Provides(stg)

-----------------------------------------------------------------------------
(* A run of the script, from its selection to its turn in the table.       *)

(* The session a run picks is the one the ledger says.                     *)
LEMMA PicksAre ==
  ASSUME IInv, NEW l \in Ledger, NEW c \in Spawned, FitsRun(l, c), Rows(l, names), c.how # "new"
  PROVE  Picks(Selected(c)) = {names[Target(l, c)]} /\ names[Target(l, c)] \in Stored
<1>. DEFINE o == Selected(c)
            s == names[Target(l, c)]
<1>1. o.how = c.how /\ o.fork = c.fork /\ (c.how = "session" => o.id = names[c.of])
  BY DEF Selected
<1>2. Target(l, c) \in Known(l) /\ s \in Stored
  BY DEF FitsRun, Rows
<1>3. CASE c.how = "session"
  <2>1. Picks(o) = {o.id} \cap Stored
    BY <1>1, <1>3 DEF Picks
  <2>. QED  BY <1>1, <1>2, <1>3, <2>1 DEF Target
<1>4. CASE c.how = "continue"
  <2>1. Target(l, c) = l.top /\ l.parent[l.top] = "" /\ l.top \in Known(l)
    BY <1>2, <1>4 DEF Target, FitsRun
  <2>2. /\ \A t \in Stored : db[t].updated \in Nat
        /\ Stored \subseteq Nat
    BY CliAssumption DEF IInv, TypeOK, Row
  <2>3. db[s].updated > 0 /\ db[s].parent = NoSession
    <3>1. Entry(l, names, l.top) /\ names[""] = NoSession
      BY <2>1 DEF Rows
    <3>. QED  BY <2>1, <3>1 DEF Entry
  <2>4. \A t \in Stored : t # s => db[t].updated = 0
    <3>. SUFFICES ASSUME NEW t \in Stored, t # s PROVE db[t].updated = 0
      OBVIOUS
    <3>1. PICK n \in Known(l) : t = names[n]
      BY DEF Rows
    <3>2. n # l.top
      BY <2>1, <3>1
    <3>3. ~(db[t].updated > 0)
      BY <3>1, <3>2 DEF Rows, Entry
    <3>. QED  BY <2>2, <3>3
  <2>5. \A t \in Stored : ~ListedBefore(t, s) /\ (t # s => ListedBefore(s, t))
    <3>. SUFFICES ASSUME NEW t \in Stored PROVE ~ListedBefore(t, s) /\ (t # s => ListedBefore(s, t))
      OBVIOUS
    <3>1. CASE t = s
      BY <1>2, <2>2, <3>1 DEF ListedBefore
    <3>2. CASE t # s
      <4>1. db[t].updated = 0 /\ db[s].updated > 0 /\ db[s].updated \in Nat
        BY <1>2, <2>2, <2>3, <2>4, <3>2
      <4>. HIDE DEF s
      <4>. QED  BY <4>1 DEF ListedBefore
    <3>. QED  BY <3>1, <3>2
  <2>6. Position(s) = 0
    <3>1. {t \in Stored : ListedBefore(t, s)} = {}
      BY <2>5
    <3>. QED  BY <3>1, FS_EmptySet DEF Position
  <2>7. s \in Roots
    BY <1>2, <2>3, <2>6, SmokeAssumption, CliAssumption DEF Roots
  <2>8. Picks(o) = {t \in Roots : \A u \in Roots : u = t \/ ListedBefore(t, u)}
    BY <1>1, <1>4 DEF Picks
  <2>9. Roots \subseteq Stored
    BY DEF Roots
  <2>. QED  BY <1>2, <2>1, <2>5, <2>7, <2>8, <2>9
<1>. QED  BY <1>2, <1>3, <1>4 DEF FitsRun

(* The next command.                                                       *)
LEMMA ClientIs ==
  ASSUME NEW n \in Nat, Taken(n)
  PROVE  Client = n + 1
<1>1. Cardinality(1 .. n) = n
  <2>1. 1 \in Int /\ n \in Int
    OBVIOUS
  <2>2. Cardinality(1 .. n) = IF 1 > n THEN 0 ELSE n - 1 + 1
    BY <2>1, FS_Interval
  <2>. QED  BY <2>2
<1>. DEFINE begun == {p \in Clients : cli[p].phase # "waiting"}
<1>2. begun = 1 .. n /\ Client = 1 + Cardinality(begun)
  BY DEF Taken, Client
<1>. HIDE DEF begun
<1>. QED  BY <1>1, <1>2

LEMMA SelectedTyped ==
  ASSUME NEW l \in Ledger, NEW c \in Spawned, FitsRun(l, c), Rows(l, names)
  PROVE  Selected(c) \in Selection
<1>1. names[c.of] \in Ids \cup {NoSession} \/ c.how # "session"
  <2>1. c.how = "session" => c.of \in Names
    BY DEF FitsRun, Target, Known
  <2>. QED  BY <2>1 DEF Rows
<1>2. c.how \in {"new", "session", "continue"} /\ c.fork \in BOOLEAN
  BY DEF FitsRun, Spawned, CommandOf
<1>. QED  BY <1>1, <1>2 DEF Selected, Selection

(* A run begins: it picks what the ledger says, and works alone.           *)
LEMMA RunBegins ==
  ASSUME IInv, NEW l \in Ledger, NEW c \in Spawned, FitsRun(l, c), Book(l, names),
         Begin(Client, Selected(c)), names' = names
  PROVE  IInv' /\ db' = db /\ Client = l.runs + 1 /\ AtWork(l, c)'
<1>. DEFINE r == l.runs + 1
            o == Selected(c)
<1>1. l.runs \in Nat /\ r \in Nat /\ r \in Clients /\ Client = r
  <2>1. l.runs \in Nat /\ Client = r
    BY ClientIs DEF Ledger, Book, Finished
  <2>2. r \in 1 .. 6
    <3>1. l.runs < 6
      BY DEF FitsRun
    <3>. QED  BY <2>1, <3>1
  <2>. QED  BY <2>1, <2>2, SmokeAssumption
<1>2. Begin(r, o) /\ o \in Selection
  BY <1>1, SelectedTyped DEF Book
<1>3. IInv' /\ db' = db
  BY <1>1, <1>2, BeginKeeps
<1>4. clock \in Nat /\ clock' = clock + 1 /\ cli \in [Clients -> CommandState] /\ cli[r].phase = "waiting"
  BY <1>2 DEF Begin, IInv, TypeOK
<1>5. PICK s \in Picks(o), new \in Ids :
           /\ IF Resumes(o) THEN new = s ELSE new \in Fresh
           /\ cli' = [cli EXCEPT ![r] = Started(r, o, s, new)]
  <2>1. Picks(o) # {}
    <3>1. CASE c.how = "new"
      BY <3>1 DEF Picks, Selected
    <3>2. CASE c.how # "new"
      BY <3>2, PicksAre DEF Book
    <3>. QED  BY <3>1, <3>2
  <2>. QED  BY <1>2, <2>1 DEF Begin
<1>6. o.how = c.how /\ o.fork = c.fork /\ (Resumes(o) <=> Resumes(c))
  BY DEF Selected, Resumes
<1>7. /\ cli'[r].phase = "running" /\ cli'[r].session = new
      /\ cli'[r].parent = (IF Resumes(c) THEN NoSession ELSE s)
      /\ cli'[r].time = (IF Resumes(c) THEN clock + 1 ELSE 0)
      /\ \A p \in Clients : p # r => cli'[p] = cli[p]
  <2>. DEFINE w == Started(r, o, s, new)
  <2>1. /\ w.phase = "running" /\ w.session = new
        /\ w.parent = (IF Resumes(c) THEN NoSession ELSE s)
        /\ w.time = (IF Resumes(c) THEN clock + 1 ELSE 0)
    BY <1>6 DEF Started
  <2>2. cli' = [cli EXCEPT ![r] = w]
    BY <1>5
  <2>. HIDE DEF w, r
  <2>3. cli'[r] = w /\ \A p \in Clients : p # r => cli'[p] = cli[p]
    BY <1>1, <1>4, <2>2
  <2>. QED  BY <2>1, <2>3
<1>8. Taken(r)'
  <2>1. {p \in Clients : cli[p].phase # "waiting"} = 1 .. l.runs
    BY DEF Book, Finished, Taken
  <2>2. {p \in Clients : cli'[p].phase # "waiting"} = 1 .. l.runs \cup {r}
    BY <1>1, <1>7, <2>1
  <2>3. 1 .. l.runs \cup {r} = 1 .. r
    BY <1>1
  <2>. QED  BY <2>2, <2>3 DEF Taken
<1>9. \A p \in 1 .. l.runs : cli'[p].phase = "done" /\ cli'[p].time < clock'
  <2>. SUFFICES ASSUME NEW p \in 1 .. l.runs PROVE cli'[p].phase = "done" /\ cli'[p].time < clock'
    OBVIOUS
  <2>1. p # r /\ p \in Clients
    BY <1>1 DEF Book, Finished, Taken
  <2>2. cli[p].phase = "done" /\ cli[p].time <= clock /\ cli[p].time \in Nat
    BY <1>4, <2>1 DEF Book, Finished, CommandState
  <2>. QED  BY <1>4, <1>7, <2>1, <2>2
<1>10. IF Resumes(c)
         THEN cli'[r].session = names'[Target(l, c)] /\ cli'[r].time = clock'
         ELSE /\ cli'[r].session \in Ids \ Stored' /\ cli'[r].time = 0
              /\ cli'[r].parent = names'[Parent(l, c)]
  <2>1. CASE Resumes(c)
    <3>1. new = names[Target(l, c)]
      BY <1>5, <1>6, <2>1, PicksAre DEF Book, Resumes
    <3>. QED  BY <1>4, <1>7, <2>1, <3>1
  <2>2. CASE ~Resumes(c)
    <3>1. new \in Ids \ Stored
      BY <1>5, <1>6, <2>2 DEF Fresh
    <3>2. s = names[Parent(l, c)]
      <4>1. CASE c.how = "new"
        <5>1. s = NoSession
          BY <1>5, <1>6, <4>1 DEF Picks
        <5>2. Parent(l, c) = ""
          BY <4>1 DEF FitsRun, Parent
        <5>. QED  BY <5>1, <5>2 DEF Book, Rows
      <4>2. CASE c.how # "new"
        <5>1. c.fork
          BY <2>2, <4>2 DEF Resumes
        <5>. QED  BY <1>5, <4>2, <5>1, PicksAre DEF Book, Parent
      <4>. QED  BY <4>1, <4>2
    <3>3. Stored' = Stored
      BY <1>3 DEF Stored
    <3>. QED  BY <1>7, <2>2, <3>1, <3>2, <3>3
  <2>. QED  BY <2>1, <2>2
<1>11. clock' > 0
  BY <1>4
<1>. QED  BY <1>1, <1>3, <1>7, <1>8, <1>9, <1>10, <1>11 DEF AtWork

(* The turns of a session when one is added.                               *)
LEMMA TurnAdded ==
  ASSUME IInv, NEW p \in Clients, Persist(p), NEW s, s = cli[p].session
  PROVE  /\ \A t \in Stored : t # s => Turns(t)' = Turns(t)
         /\ s \notin Stored => Turns(s)' = {p}
         /\ s \in Stored => Turns(s)' = Turns(s) \cup {p}
<1>. DEFINE k == cli[p].key
<1>1. \A t \in Stored : t # s => Turns(t)' = Turns(t)
  BY StoredRow DEF Turns
<1>2. ASSUME s \notin Stored PROVE Turns(s)' = {p}
  <2>1. DOMAIN db'[s].turns = {k} /\ db'[s].turns[k] = p
    BY <1>2, StoredRow
  <2>. QED  BY <2>1 DEF Turns
<1>3. ASSUME s \in Stored PROVE Turns(s)' = Turns(s) \cup {p}
  <2>. DEFINE f == db[s].turns
              g == db'[s].turns
  <2>1. /\ k = p /\ cli[p].phase = "running" /\ DOMAIN g = DOMAIN f \cup {p} /\ g[p] = p
        /\ \A x \in DOMAIN f : x # p => g[x] = f[x]
    BY <1>3, StoredRow
  <2>2. p \notin DOMAIN f
    BY <1>3, <2>1 DEF IInv, Written
  <2>3. Turns(s) = {f[x] : x \in DOMAIN f} /\ Turns(s)' = {g[x] : x \in DOMAIN g}
    BY DEF Turns
  <2>. HIDE DEF f, g
  <2>. QED  BY <2>1, <2>2, <2>3
<1>. QED  BY <1>1, <1>2, <1>3

(* The ledger of a run that is entered.                                    *)
LEMMA EnteredIs ==
  ASSUME NEW l \in Ledger, NEW c \in Spawned, Runs(c), FitsRun(l, c),
         NEW m, m = Entered(l, c), NEW who, who = Who(l, c)
  PROVE  /\ m \in Ledger /\ who \in Names
         /\ m.runs = l.runs + 1 /\ m.latest = who
         /\ m.turns[who] = l.turns[who] + 1
         /\ \A n \in Names : n # who => m.turns[n] = l.turns[n] /\ m.parent[n] = l.parent[n]
         /\ Known(m) = Known(l) \cup {who}
         /\ Resumes(c) => m.top = who /\ m.parent[who] = l.parent[who]
         /\ ~Resumes(c) => m.top = l.top /\ m.parent[who] = Parent(l, c)
<1>. DEFINE runs == l.runs + 1
            turns == [n \in Names |-> IF n = who THEN l.turns[n] + 1 ELSE l.turns[n]]
            top == IF Resumes(c) THEN who ELSE l.top
            parent == [n \in Names |-> IF n = who /\ ~Resumes(c) THEN Parent(l, c) ELSE l.parent[n]]
<1>1. m = [runs |-> runs, latest |-> who, turns |-> turns, top |-> top, parent |-> parent]
  BY DEF Entered
<1>2. l.runs \in Nat /\ l.turns \in [Names -> Nat] /\ l.top \in Names /\ l.parent \in [Names -> Names]
  BY DEF Ledger
<1>3. "" \in Names
  BY DEF Names
<1>4. Resumes(c) \/ c.fork => Target(l, c) \in Names
  BY DEF FitsRun, Known, Resumes
<1>5. who \in Names /\ Parent(l, c) \in Names
  <2>1. ~Resumes(c) => c.as \in Names
    BY DEF FitsRun, Makes
  <2>. QED  BY <1>3, <1>4, <2>1 DEF Who, Parent
<1>6. runs \in Nat /\ turns \in [Names -> Nat] /\ top \in Names /\ parent \in [Names -> Names]
  BY <1>2, <1>5
<1>7. /\ turns[who] = l.turns[who] + 1
      /\ \A n \in Names : n # who => turns[n] = l.turns[n] /\ parent[n] = l.parent[n]
      /\ Resumes(c) => parent[who] = l.parent[who]
      /\ ~Resumes(c) => parent[who] = Parent(l, c)
  BY <1>5
<1>. HIDE DEF turns, parent, top, runs
<1>8. /\ m \in Ledger /\ m.runs = runs /\ m.latest = who /\ m.turns = turns
      /\ m.top = top /\ m.parent = parent
  BY <1>1, <1>5, <1>6 DEF Ledger
<1>9. Known(m) = Known(l) \cup {who}
  <2>1. \A n \in Names : m.turns[n] > 0 <=> l.turns[n] > 0 \/ n = who
    <3>. SUFFICES ASSUME NEW n \in Names PROVE m.turns[n] > 0 <=> l.turns[n] > 0 \/ n = who
      OBVIOUS
    <3>1. l.turns[n] \in Nat
      BY <1>2
    <3>2. CASE n = who
      BY <1>7, <1>8, <3>1, <3>2
    <3>3. CASE n # who
      BY <1>7, <1>8, <3>3
    <3>. QED  BY <3>2, <3>3
  <2>. QED  BY <1>5, <2>1 DEF Known
<1>. QED  BY <1>5, <1>7, <1>8, <1>9 DEF runs, top

(* The commands once the run at work has stored its turn.                  *)
LEMMA RunFinishes ==
  ASSUME IInv, NEW l \in Ledger, NEW c \in Spawned, Runs(c), FitsRun(l, c), AtWork(l, c),
         Persist(l.runs + 1), NEW m, m = Entered(l, c)
  PROVE  Finished(m)'
<1>. DEFINE r == l.runs + 1
<1>1. /\ m \in Ledger /\ m.runs = r /\ l.runs \in Nat /\ m.turns[m.latest] = l.turns[m.latest] + 1
      /\ m.latest = Who(l, c)
  BY EnteredIs DEF Ledger
<1>2. /\ Taken(r) /\ r \in Clients /\ clock' = clock /\ clock \in Nat /\ clock > 0
      /\ cli \in [Clients -> CommandState] /\ cli' = [cli EXCEPT ![r].phase = "done"]
  <2>1. Taken(r) /\ r \in 1 .. r
    BY <1>1 DEF AtWork
  <2>. QED  BY <2>1 DEF Taken, AtWork, Persist, IInv, TypeOK
<1>. HIDE DEF r
<1>3. /\ cli'[r].phase = "done" /\ cli'[r].time = cli[r].time
      /\ \A p \in Clients : p # r => cli'[p] = cli[p]
  BY <1>2 DEF CommandState
<1>4. Taken(r)'
  <2>1. r \in {p \in Clients : cli[p].phase # "waiting"}
    BY <1>1, <1>2 DEF Taken, r
  <2>2. {p \in Clients : cli'[p].phase # "waiting"} = {p \in Clients : cli[p].phase # "waiting"}
    BY <1>2, <1>3, <2>1
  <2>. QED  BY <1>2, <2>2 DEF Taken
<1>5. \A p \in 1 .. r :
        cli'[p].phase = "done" /\ cli'[p].time <= clock' /\ (p < r => cli'[p].time < clock')
  <2>. SUFFICES ASSUME NEW p \in 1 .. r
                PROVE  /\ cli'[p].phase = "done" /\ cli'[p].time <= clock'
                       /\ p < r => cli'[p].time < clock'
    OBVIOUS
  <2>1. CASE p = r
    <3>1. cli[r].time \in {0, clock}
      BY <1>2 DEF AtWork, r
    <3>. QED  BY <1>2, <1>3, <2>1, <3>1
  <2>2. CASE p # r
    <3>1. p \in Clients
      BY <1>2 DEF Taken
    <3>2. p \in 1 .. l.runs
      BY <1>1, <2>2 DEF r
    <3>3. cli[p].phase = "done" /\ cli[p].time < clock /\ cli[p].time \in Nat
      BY <1>2, <3>1, <3>2 DEF AtWork, CommandState
    <3>. QED  BY <1>2, <1>3, <2>2, <3>1, <3>3
  <2>. QED  BY <2>1, <2>2
<1>6. m.turns[m.latest] > 1 => cli'[r].time = clock'
  <2>1. CASE Resumes(c)
    BY <1>2, <1>3, <2>1 DEF AtWork, r
  <2>2. CASE ~Resumes(c)
    <3>1. m.latest = c.as
      BY <1>1, <2>2 DEF Who
    <3>2. c.as \in Names \ Known(l)
      BY <2>2 DEF FitsRun, Makes
    <3>3. l.turns[c.as] = 0
      BY <3>2 DEF Known, Ledger
    <3>. QED  BY <1>1, <3>1, <3>3
  <2>. QED  BY <2>1, <2>2
<1>7. Taken(m.runs)' /\ m.runs = r
  BY <1>1, <1>4 DEF Taken
<1>8. \A p \in 1 .. m.runs :
        cli'[p].phase = "done" /\ cli'[p].time <= clock' /\ (p < m.runs => cli'[p].time < clock')
  BY <1>5, <1>7
<1>9. m.turns[m.latest] > 1 => cli'[m.runs].time = clock'
  BY <1>6, <1>7
<1>. QED  BY <1>7, <1>8, <1>9 DEF Finished

(* The row of a session that a run has left alone.                         *)
LEMMA EntryStays ==
  ASSUME NEW l \in Ledger, NEW m \in Ledger, NEW nm, NEW om, NEW n \in Known(l), Entry(l, nm, n),
         m.runs = l.runs + 1, m.latest # n, m.turns[n] = l.turns[n], m.parent[n] = l.parent[n],
         m.top = n <=> l.top = n, Known(l) \subseteq Known(m),
         om[n] = nm[n], om[l.parent[n]] = nm[l.parent[n]],
         db'[nm[n]] = db[nm[n]], Turns(nm[n])' = Turns(nm[n])
  PROVE  Entry(m, om, n)'
<1>. DEFINE s == nm[n]
<1>1. l.runs \in Nat
  BY DEF Ledger
<1>2. /\ Turns(s) \subseteq 1 .. l.runs /\ Cardinality(Turns(s)) = l.turns[n]
      /\ db[s].updated > 0 <=> n = l.top
      /\ l.parent[n] \in Known(l) \cup {""} /\ db[s].parent = nm[l.parent[n]]
  BY DEF Entry
<1>. DEFINE ts == Turns(s)
            ts2 == Turns(s)'
<1>3. ts2 = ts /\ ts2 \subseteq 1 .. m.runs /\ m.runs \notin ts2
  <2>1. ts2 = ts
    OBVIOUS
  <2>. HIDE DEF ts, ts2
  <2>2. ts \subseteq 1 .. l.runs
    BY <1>2 DEF ts
  <2>. QED  BY <1>1, <2>1, <2>2
<1>. QED  BY <1>2, <1>3 DEF Entry

(* The run at work stores its turn: a resumed session has one more.        *)
LEMMA ResumedRows ==
  ASSUME IInv, NEW l \in Ledger, NEW c \in Spawned, Runs(c), FitsRun(l, c), Resumes(c),
         NEW nm, Rows(l, nm), nm = names, AtWork(l, c), NEW r, r = l.runs + 1, Persist(r),
         NEW m, m = Entered(l, c), NEW w, w = Target(l, c), NEW s, s = nm[w]
  PROVE  Rows(m, nm)'
<1>1. /\ w \in Known(l) /\ w \in Names /\ Who(l, c) = w /\ l.top \in {"", w}
  BY DEF FitsRun, Resumes, Who, Goes, Known
<1>2. /\ m \in Ledger /\ m.runs = r /\ m.latest = w /\ m.turns[w] = l.turns[w] + 1
      /\ \A n \in Names : n # w => m.turns[n] = l.turns[n] /\ m.parent[n] = l.parent[n]
      /\ Known(m) = Known(l) /\ m.top = w /\ m.parent[w] = l.parent[w]
  <2>1. w = Who(l, c)
    BY <1>1
  <2>2. Known(m) = Known(l) \cup {w}
    BY <2>1, EnteredIs
  <2>3. Known(m) = Known(l)
    BY ONLY <1>1, <2>2
  <2>. QED  BY <2>1, <2>3, EnteredIs
<1>3. l.runs \in Nat /\ r \in Nat /\ r \in Clients /\ r = l.runs + 1
  <2>1. l.runs \in Nat /\ r \in 1 .. r
    BY DEF Ledger
  <2>. QED  BY <2>1 DEF AtWork, Taken
<1>4. cli[r].session = s /\ cli[r].time = clock /\ clock > 0 /\ s \in Stored
  BY <1>1 DEF AtWork, Rows
<1>5. /\ Stored' = Stored
      /\ \A t \in Stored : t # s => db'[t] = db[t]
      /\ db'[s].parent = db[s].parent /\ db'[s].updated = clock
  <2>1. Stored' = Stored \cup {s}
    BY <1>3, <1>4, StoredRow
  <2>2. Stored' = Stored
    BY ONLY <1>4, <2>1
  <2>. QED  BY <1>3, <1>4, <2>2, StoredRow
<1>6. /\ \A t \in Stored : t # s => Turns(t)' = Turns(t)
      /\ Turns(s)' = Turns(s) \cup {r}
  BY <1>3, <1>4, TurnAdded
<1>7. ASSUME NEW n \in Known(m), n # w PROVE Entry(m, nm, n)'
  <2>1. n \in Known(l) /\ n \in Names /\ Entry(l, nm, n) /\ nm[n] \in Stored /\ nm[n] # s
    BY <1>1, <1>2, <1>7 DEF Rows, Known
  <2>2. nm[""] = NoSession /\ NoSession \notin Stored
    BY CliAssumption DEF Rows, IInv, TypeOK
  <2>3. n # "" /\ l.top # n /\ m.top # n
    BY <1>1, <1>2, <1>7, <2>1, <2>2
  <2>. QED  BY <1>2, <1>3, <1>5, <1>6, <1>7, <2>1, <2>3, EntryStays
<1>8. Entry(m, nm, w)'
  <2>1. /\ Turns(s) \subseteq 1 .. l.runs /\ Cardinality(Turns(s)) = l.turns[w]
        /\ l.parent[w] \in Known(l) \cup {""} /\ db[s].parent = nm[l.parent[w]]
    BY <1>1 DEF Rows, Entry
  <2>. DEFINE ts == Turns(s)
              ts2 == Turns(s)'
  <2>2. ts \subseteq 1 .. l.runs /\ Cardinality(ts) = l.turns[w] /\ ts2 = ts \cup {r}
    BY <1>6, <2>1
  <2>. HIDE DEF ts, ts2
  <2>3. IsFiniteSet(ts) /\ r \notin ts
    <3>1. IsFiniteSet(1 .. l.runs)
      BY <1>3, FS_Interval
    <3>. QED  BY <1>3, <2>2, <3>1, FS_Subset
  <2>4. ts2 \subseteq 1 .. r /\ r \in ts2
    <3>1. r \in 1 .. r /\ \A x \in 1 .. l.runs : x \in 1 .. r
      BY ONLY <1>3
    <3>. QED  BY ONLY <2>2, <3>1
  <2>5. Cardinality(ts2) = Cardinality(ts) + 1
    BY <2>2, <2>3, FS_AddElement
  <2>6. Turns(nm[w])' = ts2
    BY DEF ts2
  <2>7. db'[nm[w]].updated > 0 /\ db'[nm[w]].parent = nm[m.parent[w]]
    BY <1>2, <1>4, <1>5, <2>1
  <2>8. Cardinality(Turns(nm[w])') = m.turns[w]
    BY <1>2, <2>2, <2>5, <2>6
  <2>9. Turns(nm[w])' \subseteq 1 .. m.runs /\ m.runs \in Turns(nm[w])' /\ w = m.latest
    BY <1>2, <2>4, <2>6
  <2>10. w = m.top /\ m.parent[w] \in Known(m) \cup {""}
    BY <1>2, <2>1
  <2>. QED  BY <2>7, <2>8, <2>9, <2>10 DEF Entry
<1>9. Stored' = {nm[n] : n \in Known(m)} /\ \A n, k \in Known(m) : nm[n] = nm[k] => n = k
  BY <1>2, <1>5 DEF Rows
<1>10. nm \in [Names -> Ids \cup {NoSession}] /\ nm[""] = NoSession
  BY DEF Rows
<1>11. \A n \in Known(m) : Entry(m, nm, n)'
  BY <1>7, <1>8
<1>. QED  BY <1>9, <1>10, <1>11 DEF Rows

(* A new session has one turn and a name.                                  *)
LEMMA CreatedRows ==
  ASSUME IInv, NEW l \in Ledger, NEW c \in Spawned, Runs(c), FitsRun(l, c), ~Resumes(c),
         NEW nm, Rows(l, nm), nm = names, AtWork(l, c), NEW r, r = l.runs + 1, Persist(r),
         NEW m, m = Entered(l, c), NEW w, w = c.as, NEW s, s = cli[r].session,
         NEW om, om = [nm EXCEPT ![w] = s]
  PROVE  Rows(m, om)'
<1>. DEFINE up == Parent(l, c)
<1>1. /\ w \in Names /\ w \notin Known(l) /\ w # "" /\ w # l.top /\ Who(l, c) = w
      /\ up \in Known(l) \cup {""}
  <2>1. c.fork => c.how # "new"
    BY DEF FitsRun
  <2>. QED  BY <2>1 DEF FitsRun, Who, Makes, Parent
<1>2. /\ m \in Ledger /\ m.runs = r /\ m.latest = w /\ m.turns[w] = l.turns[w] + 1
      /\ \A n \in Names : n # w => m.turns[n] = l.turns[n] /\ m.parent[n] = l.parent[n]
      /\ Known(m) = Known(l) \cup {w} /\ m.top = l.top /\ m.parent[w] = up
  <2>1. w = Who(l, c)
    BY <1>1
  <2>. QED  BY <2>1, EnteredIs
<1>3. l.runs \in Nat /\ r \in Nat /\ r \in Clients /\ r = l.runs + 1
  <2>1. l.runs \in Nat /\ r \in 1 .. r
    BY DEF Ledger
  <2>. QED  BY <2>1 DEF AtWork, Taken
<1>4. s \in Ids /\ s \notin Stored /\ cli[r].time = 0 /\ cli[r].parent = nm[up]
  BY DEF AtWork
<1>. HIDE DEF up
<1>5. /\ Stored' = Stored \cup {s}
      /\ \A t \in Stored : db'[t] = db[t]
      /\ db'[s].parent = nm[up] /\ db'[s].updated = 0
  BY <1>3, <1>4, StoredRow
<1>6. /\ \A t \in Stored : Turns(t)' = Turns(t)
      /\ Turns(s)' = {r}
  BY <1>3, <1>4, TurnAdded
<1>7. /\ nm \in [Names -> Ids \cup {NoSession}] /\ nm[""] = NoSession
      /\ Stored = {nm[n] : n \in Known(l)} /\ \A n, k \in Known(l) : nm[n] = nm[k] => n = k
      /\ \A n \in Known(l) : n \in Names /\ Entry(l, nm, n)
  BY DEF Rows, Known
<1>8. /\ om \in [Names -> Ids \cup {NoSession}] /\ om[w] = s /\ om[""] = NoSession
      /\ \A n \in Names : n # w => om[n] = nm[n]
  <2>1. "" \in Names
    BY DEF Names
  <2>. QED  BY <1>1, <1>4, <1>7, <2>1
<1>9. ASSUME NEW n \in Known(m), n # w PROVE Entry(m, om, n)'
  <2>1. n \in Known(l) /\ n \in Names /\ Entry(l, nm, n) /\ nm[n] \in Stored
    BY <1>2, <1>7, <1>9
  <2>2. l.parent[n] \in Known(l) \cup {""}
    BY <2>1 DEF Entry
  <2>3. om[l.parent[n]] = nm[l.parent[n]] /\ om[n] = nm[n]
    BY <1>1, <1>7, <1>8, <1>9, <2>1, <2>2
  <2>4. Known(l) \subseteq Known(m) /\ (m.top = n <=> l.top = n)
    BY <1>2
  <2>. QED  BY <1>2, <1>3, <1>5, <1>6, <1>9, <2>1, <2>3, <2>4, EntryStays
<1>10. Entry(m, om, w)'
  <2>1. om[w] = s /\ om[up] = nm[up]
    <3>1. "" \in Names /\ "" # w /\ (up \in Known(l) => up \in Names /\ up # w)
      BY <1>1, <1>7 DEF Names
    <3>. QED  BY <1>1, <1>7, <1>8, <3>1
  <2>2. l.turns[w] = 0 /\ m.turns[w] = 1
    <3>1. l.turns[w] \in Nat /\ ~(l.turns[w] > 0)
      BY <1>1 DEF Ledger, Known
    <3>. QED  BY <1>2, <3>1
  <2>3. Turns(om[w])' \subseteq 1 .. r /\ Cardinality(Turns(om[w])') = 1 /\ r \in Turns(om[w])'
    <3>1. Turns(om[w])' = {r}
      BY <1>6, <2>1
    <3>2. r \in 1 .. r
      BY ONLY <1>3
    <3>3. Cardinality({r}) = 1
      BY ONLY FS_Singleton
    <3>. QED  BY <3>1, <3>2, <3>3
  <2>4. db'[om[w]].parent = om[m.parent[w]] /\ ~(db'[om[w]].updated > 0)
    BY <1>2, <1>5, <2>1
  <2>5. m.parent[w] \in Known(m) \cup {""} /\ w # m.top
    BY <1>1, <1>2
  <2>. QED  BY <1>2, <2>2, <2>3, <2>4, <2>5 DEF Entry
<1>11. Stored' = {om[n] : n \in Known(m)} /\ \A n, k \in Known(m) : om[n] = om[k] => n = k
  <2>1. Known(m) = Known(l) \cup {w} /\ om[w] = s
    BY <1>2, <1>8
  <2>2. \A n \in Known(l) : n # w /\ n \in Names
    BY <1>1, <1>7
  <2>3. \A n \in Known(l) : om[n] = nm[n] /\ nm[n] \in Stored /\ nm[n] # s
    <3>1. \A n \in Known(l) : nm[n] \in Stored
      BY ONLY <1>7
    <3>2. \A n \in Known(l) : om[n] = nm[n]
      BY ONLY <1>8, <2>2
    <3>. QED  BY ONLY <1>4, <3>1, <3>2
  <2>4. Stored' = {om[n] : n \in Known(m)}
    <3>1. Stored = {om[n] : n \in Known(l)}
      <4>1. \A n \in Known(l) : om[n] = nm[n]
        BY <2>3
      <4>2. \A x \in {om[n] : n \in Known(l)} : x \in {nm[n] : n \in Known(l)}
        BY ONLY <4>1
      <4>3. \A x \in {nm[n] : n \in Known(l)} : x \in {om[n] : n \in Known(l)}
        BY ONLY <4>1
      <4>4. {om[n] : n \in Known(l)} = {nm[n] : n \in Known(l)}
        BY ONLY <4>2, <4>3
      <4>. QED  BY ONLY <1>7, <4>4
    <3>. QED  BY ONLY <1>5, <2>1, <3>1
  <2>5. \A n, k \in Known(m) : om[n] = om[k] => n = k
    BY ONLY <1>7, <2>1, <2>3
  <2>. QED  BY <2>4, <2>5
<1>12. \A n \in Known(m) : Entry(m, om, n)'
  BY <1>9, <1>10
<1>. QED  BY <1>8, <1>11, <1>12 DEF Rows

(* The turn of the run is stored, and the ledger has it.                   *)
LEMMA PersistEnters ==
  ASSUME IInv, NEW l \in Ledger, NEW c \in Spawned, Runs(c), FitsRun(l, c), Rows(l, names),
         AtWork(l, c), NEW r, r = l.runs + 1, Persist(r), NEW m, m = Entered(l, c),
         NEW om, om = IF c.as = "" THEN names ELSE [names EXCEPT ![c.as] = cli[r].session]
  PROVE  /\ IInv' /\ Book(m, om)'
         /\ r \in Clients /\ cli'[r].session = cli[r].session
         /\ Resumes(c) => cli[r].session = names[Target(l, c)]
         /\ c.other # "" => cli[r].session # names[c.other]
<1>1. r \in Clients
  <2>1. l.runs \in Nat
    BY DEF Ledger
  <2>2. r \in 1 .. r
    BY ONLY r = l.runs + 1, <2>1
  <2>. QED  BY <2>2 DEF AtWork, Taken
<1>2. IInv'
  BY <1>1, PersistKeeps
<1>3. Finished(m)'
  BY RunFinishes
<1>4. cli'[r].session = cli[r].session
  BY <1>1 DEF IInv, TypeOK, CommandState, Persist
<1>5. CASE Resumes(c)
  <2>1. c.as = "" /\ c.other = "" /\ om = names
    BY <1>5 DEF FitsRun, Goes
  <2>2. Rows(m, om)'
    BY <1>5, <2>1, ResumedRows
  <2>3. cli[r].session = names[Target(l, c)]
    BY <1>5 DEF AtWork
  <2>. QED  BY <1>1, <1>2, <1>3, <1>4, <2>1, <2>2, <2>3 DEF Book
<1>6. CASE ~Resumes(c)
  <2>1. c.as # "" /\ om = [names EXCEPT ![c.as] = cli[r].session]
    BY <1>6 DEF FitsRun, Makes
  <2>2. Rows(m, om)'
    <3>1. PICK nm, w, s : nm = names /\ w = c.as /\ s = cli[r].session
      OBVIOUS
    <3>2. om = [nm EXCEPT ![w] = s] /\ Rows(l, nm)
      BY <2>1, <3>1
    <3>3. nm = names /\ w = c.as /\ s = cli[r].session
      BY <3>1
    <3>. QED  BY ONLY IInv, l \in Ledger, c \in Spawned, Runs(c), FitsRun(l, c), <1>6, <3>2, <3>3,
                      AtWork(l, c), r = l.runs + 1, Persist(r), m = Entered(l, c), CreatedRows
  <2>3. c.other # "" => names[c.other] \in Stored
    BY <1>6 DEF FitsRun, Makes, Rows
  <2>4. cli[r].session \notin Stored
    BY <1>6 DEF AtWork
  <2>. QED  BY <1>1, <1>2, <1>3, <1>4, <1>6, <2>2, <2>3, <2>4 DEF Book
<1>. QED  BY <1>5, <1>6

(* An export finds what the ledger has.                                    *)
LEMMA ExportFinds ==
  ASSUME IInv, NEW l \in Ledger, NEW c \in Spawned, FitsExport(l, c), Book(l, names),
         NEW s, s = names[c.of]
  PROVE  /\ s \in Stored
         /\ Cardinality(Turns(s)) = c.turns
         /\ c.last => LastTurn(s) = {Client - 1}
         /\ c.parent # "" => db[s].parent = names[c.parent]
<1>. DEFINE ts == Turns(s)
            e == l.runs
<1>1. /\ c.of \in Known(l) /\ l.turns[c.of] = c.turns
      /\ c.last => l.latest = c.of
      /\ c.parent # "" => l.parent[c.of] = c.parent
  BY DEF FitsExport
<1>2. /\ s \in Stored /\ ts \subseteq 1 .. e /\ Cardinality(ts) = c.turns
      /\ e \in ts <=> c.of = l.latest
      /\ db[s].parent = names[l.parent[c.of]]
  BY <1>1 DEF Book, Rows, Entry
<1>3. ASSUME c.last PROVE LastTurn(s) = {Client - 1}
  <2>1. e \in ts /\ e \in Nat /\ e > 0 /\ \A p \in ts : p \in 1 .. e
    <3>1. e \in ts /\ e \in Nat
      BY <1>1, <1>2, <1>3 DEF Ledger
    <3>2. \A p \in ts : p \in 1 .. e
      BY <1>2
    <3>. HIDE DEF ts, e
    <3>. QED  BY <3>1, <3>2
  <2>2. Client - 1 = e
    <3>1. Client = e + 1
      BY <2>1, ClientIs DEF Book, Finished
    <3>. QED  BY <2>1, <3>1
  <2>3. \A p \in ts : cli[p].time \in Nat /\ cli[p].time <= clock /\ (p < e => cli[p].time < clock)
    <3>1. \A p \in ts : p \in 1 .. e
      BY <2>1
    <3>2. \A p \in 1 .. e : p \in Clients
      BY DEF Book, Finished, Taken
    <3>. QED  BY <3>1, <3>2 DEF Book, Finished, IInv, TypeOK, CommandState
  <2>4. clock \in Nat
    BY DEF IInv, TypeOK
  <2>5. LastTurn(s) = {p \in ts : \A q \in ts : cli[q].time <= cli[p].time}
    BY DEF LastTurn
  <2>6. c.turns > 1 => cli[e].time = clock
    BY <1>1, <1>3, <2>1 DEF Book, Finished
  <2>7. c.turns \in Nat /\ (~(c.turns > 1) => ts = {e})
    <3>1. c.turns \in Nat
      BY DEF Spawned, CommandOf
    <3>2. IsFiniteSet(ts)
      <4>1. IsFiniteSet(1 .. e)
        BY <2>1, FS_Interval
      <4>. QED  BY <1>2, <4>1, FS_Subset
    <3>3. c.turns # 0
      BY <1>2, <2>1, <3>2, FS_EmptySet
    <3>4. ASSUME ~(c.turns > 1) PROVE ts = {e}
      <4>1. Cardinality(ts) = 1
        BY <1>2, <3>1, <3>3, <3>4
      <4>2. PICK x : ts = {x}
        BY <3>2, <4>1, FS_Singleton
      <4>. QED  BY <2>1, <4>2
    <3>. QED  BY <3>1, <3>4
  <2>. HIDE DEF ts, e
  <2>8. {p \in ts : \A q \in ts : cli[q].time <= cli[p].time} = {e}
    <3>1. CASE ts = {e}
      BY <2>1, <2>3, <3>1
    <3>2. CASE cli[e].time = clock
      <4>1. \A q \in ts : cli[q].time <= cli[e].time
        BY <2>3, <3>2
      <4>2. ASSUME NEW p \in ts, p # e PROVE cli[p].time < cli[e].time
        <5>1. p < e
          BY <2>1, <4>2
        <5>. QED  BY <2>3, <3>2, <5>1
      <4>3. ASSUME NEW p \in ts, p # e PROVE ~(cli[e].time <= cli[p].time)
        BY <2>1, <2>3, <4>2, <4>3
      <4>. QED  BY <2>1, <4>1, <4>3
    <3>. QED  BY <2>6, <2>7, <3>1, <3>2
  <2>. QED  BY <2>2, <2>5, <2>8
<1>. QED  BY <1>1, <1>2, <1>3

-----------------------------------------------------------------------------
(* The ledgers of the scripts, command by command.                         *)

IsNew(c, n) ==
  /\ c \in Spawned /\ Runs(c) /\ c.status = 0
  /\ c.how = "new" /\ ~c.fork
  /\ c.as = n /\ c.is = "" /\ c.other = ""

IsAgain(c, n) ==
  /\ c \in Spawned /\ Runs(c) /\ c.status = 0
  /\ c.how = "continue" \/ (c.how = "session" /\ c.of = n)
  /\ ~c.fork
  /\ c.as = "" /\ c.is \in {"", n} /\ c.other = ""

(* The session that is resumed is named, or the one that was before.       *)
Finds(c, n, top) == top = n \/ (top = "" /\ c.how = "session")

IsFork(c, n) ==
  /\ c \in Spawned /\ Runs(c) /\ c.status = 0
  /\ c.how = "continue" \/ (c.how = "session" /\ c.of = n)
  /\ c.fork
  /\ c.as = "fork" /\ c.is = "" /\ c.other = n

IsExport(c, n, k) ==
  c \in Spawned /\ c.do = "export" /\ c.status = 0 /\ c.of = n /\ c.turns = k

(* An export asks for the last turn only of the session that took it.      *)
AsksOf(c, n, latest) == (c.last => latest = n) /\ c.parent = ""

IsIdle(c) ==
  /\ c \in Spawned
  /\ (c.do = "run" /\ ~c.valid /\ c.status # 0) \/ (c.do = "other" /\ c.status = 0)

(* A ledger without a fork: only the session that is resumed has more than *)
(* a turn.                                                                 *)
Shape(l, k, latest, top, K, d) ==
  /\ l \in Ledger
  /\ l.runs = k /\ l.latest = latest /\ l.top = top
  /\ Known(l) = K /\ "" \notin K
  /\ \A n \in K : l.turns[n] = (IF n = top THEN d ELSE 1) /\ l.parent[n] = ""

LEMMA BlankIs == Shape(Blank, 0, "", "", {}, 0)
<1>1. Blank \in Ledger
  <2>1. "" \in Names /\ 0 \in Nat
    BY DEF Names
  <2>2. [n \in Names |-> 0] \in [Names -> Nat] /\ [n \in Names |-> ""] \in [Names -> Names]
    BY <2>1
  <2>. QED  BY <2>1, <2>2 DEF Blank, Ledger
<1>2. Known(Blank) = {}
  BY DEF Known, Blank
<1>. QED  BY <1>1, <1>2 DEF Shape, Blank

LEMMA NewFits ==
  ASSUME NEW l, NEW k \in 0 .. 5, NEW la, NEW top, NEW K, NEW d, Shape(l, k, la, top, K, d),
         NEW c, NEW n \in Names, IsNew(c, n), n \notin K, n # "", n # top, NEW m, m = Entered(l, c)
  PROVE  Fits(l, c) /\ Shape(m, k + 1, n, top, K \cup {n}, d)
<1>1. l \in Ledger /\ c \in Spawned /\ Runs(c) /\ ~Resumes(c) /\ Who(l, c) = n
  BY DEF Shape, IsNew, Resumes, Who
<1>2. FitsRun(l, c)
  <2>1. Makes(l, c)
    BY DEF Shape, IsNew, Makes
  <2>2. l.runs < 6
    <3>1. l.runs = k
      BY DEF Shape
    <3>. QED  BY ONLY <3>1, k \in 0 .. 5
  <2>. QED  BY <1>1, <2>1, <2>2 DEF IsNew, FitsRun
<1>3. n = Who(l, c)
  BY <1>1
<1>4. /\ m \in Ledger /\ m.runs = l.runs + 1 /\ m.latest = n /\ m.turns[n] = l.turns[n] + 1
      /\ \A x \in Names : x # n => m.turns[x] = l.turns[x] /\ m.parent[x] = l.parent[x]
      /\ Known(m) = Known(l) \cup {n} /\ m.top = l.top /\ m.parent[n] = ""
  <2>1. /\ m \in Ledger /\ m.runs = l.runs + 1 /\ m.latest = n /\ m.turns[n] = l.turns[n] + 1
        /\ Known(m) = Known(l) \cup {n} /\ m.top = l.top /\ m.parent[n] = Parent(l, c)
    BY ONLY <1>1, <1>2, <1>3, m = Entered(l, c), EnteredIs
  <2>2. \A x \in Names : x # n => m.turns[x] = l.turns[x] /\ m.parent[x] = l.parent[x]
    BY ONLY <1>1, <1>2, <1>3, m = Entered(l, c), EnteredIs
  <2>3. Parent(l, c) = ""
    BY DEF IsNew, Parent
  <2>. QED  BY <2>1, <2>2, <2>3
<1>5. l.turns[n] = 0 /\ K \subseteq Names
  <2>1. K \subseteq Names /\ (n \notin K => ~(l.turns[n] > 0))
    BY DEF Shape, Known
  <2>2. l.turns[n] \in Nat
    BY <1>1 DEF Ledger
  <2>3. l.turns[n] = 0
    BY ONLY <2>1, <2>2, n \notin K
  <2>. QED  BY <2>1, <2>3
<1>6. \A x \in K \cup {n} : m.turns[x] = (IF x = top THEN d ELSE 1) /\ m.parent[x] = ""
  <2>1. \A x \in K : l.turns[x] = (IF x = top THEN d ELSE 1) /\ l.parent[x] = ""
    BY DEF Shape
  <2>2. ASSUME NEW x \in K PROVE m.turns[x] = (IF x = top THEN d ELSE 1) /\ m.parent[x] = ""
    BY <1>4, <1>5, <2>1, ZenonT(60)
  <2>3. m.turns[n] = 1 /\ m.parent[n] = "" /\ n # top
    <3>1. m.turns[n] = l.turns[n] + 1 /\ l.turns[n] = 0
      BY <1>4, <1>5
    <3>2. m.turns[n] = 1
      BY ONLY <3>1
    <3>. QED  BY <1>4, <3>2
  <2>. QED  BY <2>2, <2>3
<1>. QED  BY <1>1, <1>2, <1>4, <1>6 DEF Shape, Fits

LEMMA AgainFits ==
  ASSUME NEW l, NEW k \in 0 .. 5, NEW la, NEW top, NEW K, NEW d \in Nat, Shape(l, k, la, top, K, d),
         NEW c, NEW n \in K, IsAgain(c, n), Finds(c, n, top),
         NEW m, m = Entered(l, c), NEW e, e = (IF top = n THEN d ELSE 1) + 1
  PROVE  Fits(l, c) /\ Shape(m, k + 1, n, n, K, e)
<1>1. /\ l \in Ledger /\ c \in Spawned /\ Runs(c) /\ Resumes(c) /\ Target(l, c) = n /\ Who(l, c) = n
      /\ n \in Known(l) /\ n \in Names
  BY DEF Shape, IsAgain, Resumes, Target, Who, Known, Finds
<1>2. FitsRun(l, c)
  <2>1. Goes(l, c)
    BY <1>1 DEF Shape, IsAgain, Goes, Finds
  <2>2. l.runs < 6
    <3>1. l.runs = k
      BY DEF Shape
    <3>. QED  BY ONLY <3>1, k \in 0 .. 5
  <2>3. c.how = "continue" => l.parent[l.top] = ""
    BY DEF Shape, Finds
  <2>. QED  BY <1>1, <2>1, <2>2, <2>3 DEF IsAgain, FitsRun
<1>3. n = Who(l, c)
  BY <1>1
<1>4. /\ m \in Ledger /\ m.runs = l.runs + 1 /\ m.latest = n /\ m.turns[n] = l.turns[n] + 1
      /\ \A x \in Names : x # n => m.turns[x] = l.turns[x] /\ m.parent[x] = l.parent[x]
      /\ Known(m) = Known(l) \cup {n} /\ m.top = n /\ m.parent[n] = l.parent[n]
  BY ONLY <1>1, <1>2, <1>3, m = Entered(l, c), EnteredIs
<1>5. K \subseteq Names /\ Known(m) = K
  BY <1>1, <1>4 DEF Shape, Known
<1>6. \A x \in K : m.turns[x] = (IF x = n THEN e ELSE 1) /\ m.parent[x] = ""
  <2>1. \A x \in K : l.turns[x] = (IF x = top THEN d ELSE 1) /\ l.parent[x] = ""
    BY DEF Shape
  <2>2. ASSUME NEW x \in K, x # n PROVE m.turns[x] = 1 /\ m.parent[x] = ""
    <3>1. x # top
      BY <1>1, <2>2 DEF Shape, Finds
    <3>. QED  BY <1>4, <1>5, <2>1, <2>2, <3>1
  <2>3. m.turns[n] = e /\ m.parent[n] = ""
    BY <1>4, <2>1
  <2>. QED  BY <2>2, <2>3
<1>. QED  BY <1>1, <1>2, <1>4, <1>5, <1>6 DEF Shape, Fits

LEMMA ForkFits ==
  ASSUME NEW l, NEW k \in 0 .. 5, NEW la, NEW top, NEW K, NEW d, Shape(l, k, la, top, K, d),
         NEW c, NEW n \in K, IsFork(c, n), top = n \/ c.how = "session",
         "fork" \notin K, top # "fork", NEW m, m = Entered(l, c),
         NEW x, IsExport(x, "fork", 1), x.parent = n
  PROVE  Fits(l, c) /\ m \in Ledger /\ Fits(m, x)
<1>1. /\ l \in Ledger /\ c \in Spawned /\ Runs(c) /\ ~Resumes(c) /\ Target(l, c) = n
      /\ Who(l, c) = "fork" /\ Parent(l, c) = n
      /\ n \in Known(l) /\ n \in Names /\ "fork" \in Names
  BY DEF Shape, IsFork, Resumes, Target, Who, Known, Parent, Names
<1>2. FitsRun(l, c)
  <2>1. Makes(l, c)
    BY <1>1 DEF Shape, IsFork, Makes
  <2>2. l.runs < 6
    <3>1. l.runs = k
      BY DEF Shape
    <3>. QED  BY ONLY <3>1, k \in 0 .. 5
  <2>3. c.how = "continue" => l.parent[l.top] = ""
    BY DEF Shape
  <2>. QED  BY <1>1, <2>1, <2>2, <2>3 DEF IsFork, FitsRun
<1>3. PICK w : w = Who(l, c) /\ w = "fork"
  BY <1>1
<1>4. /\ m \in Ledger /\ m.latest = w /\ m.turns[w] = l.turns[w] + 1
      /\ Known(m) = Known(l) \cup {w} /\ m.parent[w] = n
  BY <1>1, <1>2, <1>3, EnteredIs
<1>5. l.turns["fork"] = 0
  <2>1. ~(l.turns["fork"] > 0)
    BY <1>1 DEF Shape, Known
  <2>2. l.turns["fork"] \in Nat
    BY <1>1 DEF Ledger
  <2>. QED  BY <2>1, <2>2
<1>6. FitsExport(m, x)
  BY <1>3, <1>4, <1>5 DEF FitsExport, IsExport
<1>. QED  BY <1>1, <1>2, <1>4, <1>6 DEF Fits, IsExport

LEMMA ExportFits ==
  ASSUME NEW l, NEW k, NEW la, NEW top, NEW K, NEW d, Shape(l, k, la, top, K, d),
         NEW c, NEW n \in K, NEW j, IsExport(c, n, j), j = (IF n = top THEN d ELSE 1),
         AsksOf(c, n, la)
  PROVE  Fits(l, c) /\ Entered(l, c) = l
BY DEF Shape, IsExport, AsksOf, Fits, FitsExport, Entered, Runs

LEMMA IdleFits ==
  ASSUME NEW l \in Ledger, NEW c, IsIdle(c)
  PROVE  Fits(l, c) /\ Entered(l, c) = l
BY DEF IsIdle, Fits, Entered, Runs

(* The commands cs can be kept a book of, which ends with l.               *)
Reach(cs, l) ==
  cs \in Seq(Spawned) /\ \E book : Balances(cs, book) /\ book[Len(cs) + 1] = l

LEMMA ReachNone == Reach(<<>>, Blank)
<1>. DEFINE book == [i \in 1 .. 1 |-> Blank]
<1>1. Blank \in Ledger
  BY BlankIs DEF Shape
<1>2. book \in [1 .. 1 -> Ledger] /\ book[1] = Blank
  BY <1>1
<1>3. <<>> \in Seq(Spawned) /\ Len(<<>>) = 0
  OBVIOUS
<1>. HIDE DEF book
<1>4. Balances(<<>>, book) /\ book[Len(<<>>) + 1] = Blank
  BY <1>2, <1>3 DEF Balances
<1>. QED  BY <1>3, <1>4 DEF Reach

LEMMA ReachNext ==
  ASSUME NEW cs, NEW l, Reach(cs, l), NEW c \in Spawned, NEW b, b = (IF c.home THEN Blank ELSE l),
         Fits(b, c), NEW m \in Ledger, m = Entered(b, c)
  PROVE  Reach(Append(cs, c), m)
<1>1. PICK book : Balances(cs, book) /\ book[Len(cs) + 1] = l
  BY DEF Reach
<1>. DEFINE n == Len(cs)
            ds == Append(cs, c)
            more == [i \in 1 .. n + 2 |-> IF i <= n THEN book[i] ELSE IF i = n + 1 THEN b ELSE m]
<1>2. /\ n \in Nat /\ cs \in Seq(Spawned) /\ ds \in Seq(Spawned) /\ Len(ds) = n + 1
      /\ \A i \in 1 .. n : ds[i] = cs[i]
      /\ ds[n + 1] = c
  BY DEF Reach
<1>3. /\ book \in [1 .. n + 1 -> Ledger] /\ book[1] = Blank
      /\ \A i \in 1 .. n :
           /\ Fits(book[i], cs[i])
           /\ book[i + 1] = IF i < n /\ cs[i + 1].home THEN Blank ELSE Entered(book[i], cs[i])
  BY <1>1 DEF Balances
<1>4. b \in Ledger /\ Blank \in Ledger
  <2>1. l \in Ledger
    BY <1>1, <1>2, <1>3
  <2>2. Blank \in Ledger
    BY BlankIs DEF Shape
  <2>. QED  BY <2>1, <2>2
<1>. HIDE DEF n, ds
<1>5. /\ more \in [1 .. n + 2 -> Ledger]
      /\ \A i \in 1 .. n : more[i] = book[i]
      /\ more[n + 1] = b /\ more[n + 2] = m
  <2>1. \A i \in 1 .. n + 2 : (i <= n => i \in 1 .. n + 1)
    BY <1>2
  <2>2. \A i \in 1 .. n + 2 : more[i] \in Ledger
    BY <1>3, <1>4, <2>1
  <2>3. n + 1 \in 1 .. n + 2 /\ n + 2 \in 1 .. n + 2 /\ \A i \in 1 .. n : i \in 1 .. n + 2 /\ i <= n
    BY <1>2
  <2>4. ~(n + 1 <= n) /\ ~(n + 2 <= n) /\ n + 2 # n + 1
    BY <1>2
  <2>. QED  BY <2>2, <2>3, <2>4
<1>. HIDE DEF more
<1>6. more[1] = Blank
  <2>1. CASE n = 0
    <3>1. l = Blank
      BY <1>1, <1>3, <2>1 DEF n
    <3>. QED  BY <1>5, <2>1, <3>1
  <2>2. CASE n # 0
    <3>1. 1 \in 1 .. n
      BY <1>2, <2>2
    <3>. QED  BY <1>3, <1>5, <3>1
  <2>. QED  BY <2>1, <2>2
<1>7. ASSUME NEW i \in 1 .. n + 1
      PROVE  /\ Fits(more[i], ds[i])
             /\ more[i + 1] = IF i < n + 1 /\ ds[i + 1].home THEN Blank ELSE Entered(more[i], ds[i])
  <2>1. CASE i = n + 1
    <3>1. ds[i] = c /\ more[i] = b /\ more[i + 1] = m /\ ~(i < n + 1)
      BY <1>2, <1>5, <2>1
    <3>. QED  BY <3>1
  <2>2. CASE i = n
    <3>1. i \in 1 .. n /\ i < n + 1 /\ ~(i < n)
      BY <1>2, <1>7, <2>2
    <3>2. ds[i] = cs[i] /\ more[i] = book[i] /\ ds[i + 1] = c /\ more[i + 1] = b
      BY <1>2, <1>5, <2>2, <3>1
    <3>3. Fits(book[i], cs[i]) /\ book[i + 1] = Entered(book[i], cs[i])
      BY <1>3, <3>1
    <3>4. book[i + 1] = l
      BY <1>1, <2>2 DEF n
    <3>. QED  BY <3>1, <3>2, <3>3, <3>4
  <2>3. CASE i < n
    <3>1. i \in 1 .. n /\ i + 1 \in 1 .. n /\ i < n + 1
      BY <1>2, <1>7, <2>3
    <3>2. ds[i] = cs[i] /\ more[i] = book[i] /\ ds[i + 1] = cs[i + 1] /\ more[i + 1] = book[i + 1]
      BY <1>2, <1>5, <3>1
    <3>. QED  BY <1>3, <2>3, <3>1, <3>2
  <2>. QED  BY <1>2, <2>1, <2>2, <2>3
<1>8. Len(ds) = n + 1 /\ n + 1 + 1 = n + 2
  BY <1>2
<1>9. Balances(ds, more)
  BY <1>5, <1>6, <1>7, <1>8 DEF Balances
<1>10. more[Len(ds) + 1] = m
  BY <1>5, <1>8
<1>. QED  BY <1>2, <1>9, <1>10 DEF Reach, ds

-----------------------------------------------------------------------------
(* The same with the shape of the last ledger.                             *)
Stands(cs, k, latest, top, K, d) == \E l : Reach(cs, l) /\ Shape(l, k, latest, top, K, d)

LEMMA StandsNone == Stands(<<>>, 0, "", "", {}, 0)
BY ReachNone, BlankIs DEF Stands

LEMMA StandsNew ==
  ASSUME NEW cs, NEW k \in 0 .. 5, NEW la, NEW top, NEW K, NEW d, Stands(cs, k, la, top, K, d),
         NEW c, NEW n \in Names, IsNew(c, n), ~c.home, n \notin K, n # "", n # top
  PROVE  Stands(Append(cs, c), k + 1, n, top, K \cup {n}, d)
<1>1. PICK l : Reach(cs, l) /\ Shape(l, k, la, top, K, d)
  BY DEF Stands
<1>2. PICK m : m = Entered(l, c)
  OBVIOUS
<1>3. Fits(l, c) /\ Shape(m, k + 1, n, top, K \cup {n}, d)
  BY <1>1, <1>2, NewFits
<1>4. m \in Ledger /\ c \in Spawned
  BY <1>3 DEF Shape, IsNew
<1>5. Reach(Append(cs, c), m)
  BY <1>1, <1>2, <1>3, <1>4, ReachNext
<1>. QED  BY <1>3, <1>5 DEF Stands

LEMMA ReachHome ==
  ASSUME NEW cs, NEW l, Reach(cs, l), NEW c, NEW n \in Names, IsNew(c, n), c.home, n # ""
  PROVE  Stands(Append(cs, c), 1, n, "", {n}, 0)
<1>1. PICK m : m = Entered(Blank, c)
  OBVIOUS
<1>2. Fits(Blank, c) /\ Shape(m, 1, n, "", {n}, 0)
  <2>1. PICK b, e, z, o, v : b = Blank /\ e = {} /\ z = 0 /\ o = "" /\ v = z + 1
    OBVIOUS
  <2>2. Shape(b, z, o, o, e, z)
    BY <2>1, BlankIs, Zenon
  <2>3. z \in 0 .. 5 /\ v = 1
    <3>1. z = 0 /\ v = z + 1
      BY <2>1
    <3>. QED  BY ONLY <3>1
  <2>4. n \notin e /\ n # o /\ e \cup {n} = {n}
    BY ONLY <2>1, n # ""
  <2>5. m = Entered(b, c)
    BY <1>1, <2>1, Zenon
  <2>6. Fits(b, c) /\ Shape(m, z + 1, n, o, e \cup {n}, z)
    BY <2>1, <2>2, <2>3, <2>4, <2>5, NewFits
  <2>. QED  BY <2>1, <2>3, <2>4, <2>6, Zenon
<1>3. m \in Ledger /\ c \in Spawned
  BY <1>2 DEF Shape, IsNew
<1>4. Reach(Append(cs, c), m)
  BY <1>1, <1>2, <1>3, ReachNext
<1>. QED  BY <1>2, <1>4 DEF Stands

LEMMA StandsHome ==
  ASSUME NEW cs, NEW k, NEW la, NEW top, NEW K, NEW d, Stands(cs, k, la, top, K, d),
         NEW c, NEW n \in Names, IsNew(c, n), c.home, n # ""
  PROVE  Stands(Append(cs, c), 1, n, "", {n}, 0)
BY ReachHome DEF Stands

LEMMA StandsAgain ==
  ASSUME NEW cs, NEW k \in 0 .. 5, NEW la, NEW top, NEW K, NEW d \in Nat, Stands(cs, k, la, top, K, d),
         NEW c, NEW n \in K, IsAgain(c, n), Finds(c, n, top), ~c.home,
         NEW e, e = (IF top = n THEN d ELSE 1) + 1
  PROVE  Stands(Append(cs, c), k + 1, n, n, K, e)
<1>1. PICK l : Reach(cs, l) /\ Shape(l, k, la, top, K, d)
  BY DEF Stands
<1>2. PICK m : m = Entered(l, c)
  OBVIOUS
<1>3. Fits(l, c) /\ Shape(m, k + 1, n, n, K, e)
  BY <1>1, <1>2, AgainFits
<1>4. m \in Ledger /\ c \in Spawned
  BY <1>3 DEF Shape, IsAgain
<1>5. Reach(Append(cs, c), m)
  BY <1>1, <1>2, <1>3, <1>4, ReachNext
<1>. QED  BY <1>3, <1>5 DEF Stands

LEMMA StandsExport ==
  ASSUME NEW cs, NEW k, NEW la, NEW top, NEW K, NEW d, Stands(cs, k, la, top, K, d),
         NEW c, NEW n \in K, NEW j, IsExport(c, n, j), j = (IF n = top THEN d ELSE 1),
         AsksOf(c, n, la), ~c.home
  PROVE  Stands(Append(cs, c), k, la, top, K, d)
<1>1. PICK l : Reach(cs, l) /\ Shape(l, k, la, top, K, d)
  BY DEF Stands
<1>2. Fits(l, c) /\ Entered(l, c) = l
  BY <1>1, ExportFits
<1>3. l \in Ledger /\ c \in Spawned
  BY <1>1 DEF Shape, IsExport
<1>4. Reach(Append(cs, c), l)
  BY <1>1, <1>2, <1>3, ReachNext
<1>. QED  BY <1>1, <1>4 DEF Stands

LEMMA StandsIdle ==
  ASSUME NEW cs, NEW k, NEW la, NEW top, NEW K, NEW d, Stands(cs, k, la, top, K, d),
         NEW c, IsIdle(c), ~c.home
  PROVE  Stands(Append(cs, c), k, la, top, K, d)
<1>1. PICK l : Reach(cs, l) /\ Shape(l, k, la, top, K, d)
  BY DEF Stands
<1>2. l \in Ledger /\ c \in Spawned
  BY <1>1 DEF Shape, IsIdle
<1>3. Fits(l, c) /\ Entered(l, c) = l
  BY <1>2, IdleFits
<1>4. Reach(Append(cs, c), l)
  BY <1>1, <1>2, <1>3, ReachNext
<1>. QED  BY <1>1, <1>4 DEF Stands

(* A fork and its export, which end a data directory.                      *)
LEMMA ReachFork ==
  ASSUME NEW cs, NEW k \in 0 .. 5, NEW la, NEW top, NEW K, NEW d, Stands(cs, k, la, top, K, d),
         NEW c, NEW n \in K, IsFork(c, n), top = n \/ c.how = "session",
         "fork" \notin K, top # "fork", ~c.home,
         NEW x, IsExport(x, "fork", 1), x.parent = n, ~x.home
  PROVE  \E l : Reach(Append(Append(cs, c), x), l)
<1>1. PICK l : Reach(cs, l) /\ Shape(l, k, la, top, K, d)
  BY DEF Stands
<1>2. PICK m : m = Entered(l, c)
  OBVIOUS
<1>3. Fits(l, c) /\ m \in Ledger /\ Fits(m, x)
  BY <1>1, <1>2, ForkFits
<1>4. c \in Spawned /\ x \in Spawned /\ Entered(m, x) = m
  BY DEF IsFork, IsExport, Entered, Runs
<1>5. Reach(Append(cs, c), m)
  BY <1>1, <1>2, <1>3, <1>4, ReachNext
<1>. QED  BY <1>3, <1>4, <1>5, ReachNext

-----------------------------------------------------------------------------
(* The forms of the commands, and the books of the series they are in.     *)

(* What the commands of the scripts are.                                   *)
LEMMA NewForm ==
  ASSUME NEW n \in Texts
  PROVE  IsNew(NewRun(n), n) /\ ~NewRun(n).home /\ ~NewRun(n).live
<1>1. NewRun(n) \in Spawned
  BY Forms
<1>. QED  BY <1>1 DEF NewRun, Command, IsNew, Runs

LEMMA ResumeForm ==
  ASSUME NEW n \in Texts
  PROVE  /\ IsAgain(Resume(n), n) /\ ~Resume(n).home /\ ~Resume(n).live
         /\ Finds(Resume(n), n, "") /\ Finds(Resume(n), n, n)
<1>1. Resume(n) \in Spawned
  BY Forms
<1>. QED  BY <1>1 DEF Resume, Command, IsAgain, Finds, Runs

LEMMA ContinueForm ==
  ASSUME NEW n \in Texts, NEW x, x \in {n, ""}
  PROVE  IsAgain(Continue(x), n) /\ ~Continue(x).home /\ ~Continue(x).live /\ Finds(Continue(x), n, n)
<1>1. "" \in Texts
  BY TextsHave
<1>2. Continue(x) \in Spawned
  BY <1>1, Forms
<1>. QED  BY <1>2 DEF Continue, Command, IsAgain, Finds, Runs

LEMMA ForkForm ==
  ASSUME NEW n \in Texts, NEW how \in {"session", "continue"}
  PROVE  /\ IsFork(Fork(how, n), n) /\ ~Fork(how, n).home /\ ~Fork(how, n).live
         /\ Fork(how, n).how = how
<1>1. Fork(how, n) \in Spawned
  BY Forms, TextsHave
<1>. QED  BY <1>1 DEF Fork, Command, IsFork, Runs

LEMMA ExportForm ==
  ASSUME NEW n \in Texts, NEW k \in Nat
  PROVE  /\ IsExport(Export(n, k), n, k) /\ ~Export(n, k).home /\ ~Export(n, k).live
         /\ AsksOf(Export(n, k), n, n)
         /\ k = 1 => \A la : AsksOf(Export(n, k), n, la)
         /\ Export(n, k).last = (k > 1)
<1>. DEFINE more == k > 1
<1>1. Export(n, k) \in Spawned
  BY Forms
<1>2. Export(n, k) = [Command EXCEPT !.do = "export", !.of = n, !.turns = k, !.last = more]
  BY DEF Export
<1>3. k = 1 => ~more
  OBVIOUS
<1>. HIDE DEF more
<1>4. /\ Export(n, k).do = "export" /\ Export(n, k).of = n /\ Export(n, k).turns = k
      /\ Export(n, k).last = more /\ Export(n, k).status = 0 /\ Export(n, k).parent = ""
      /\ ~Export(n, k).home /\ ~Export(n, k).live
  BY <1>2 DEF Command
<1>. QED  BY <1>1, <1>3, <1>4 DEF IsExport, AsksOf, more

LEMMA ExportForkForm ==
  ASSUME NEW n \in Texts
  PROVE  /\ IsExport(ExportFork(n), "fork", 1) /\ ExportFork(n).parent = n
         /\ ~ExportFork(n).home /\ ~ExportFork(n).live
<1>1. ExportFork(n) \in Spawned /\ "fork" \in Texts
  BY Forms, TextsHave
<1>. DEFINE x == Export("fork", 1)
<1>2. x \in Spawned /\ IsExport(x, "fork", 1) /\ ~x.home /\ ~x.live
  BY <1>1, ExportForm DEF IsExport
<1>3. ExportFork(n) = [x EXCEPT !.parent = n, !.last = TRUE]
  BY DEF ExportFork
<1>. HIDE DEF x
<1>. QED  BY <1>1, <1>2, <1>3 DEF IsExport, Spawned, CommandOf

LEMMA IdleForms ==
  /\ IsIdle(Plain) /\ ~Plain.home /\ ~Plain.live
  /\ IsIdle(Refused) /\ ~Refused.home /\ ~Refused.live
  /\ IsIdle(Live(Refused)) /\ ~Live(Refused).home
<1>1. Plain \in Spawned /\ Refused \in Spawned /\ Live(Refused) \in Spawned
  BY Forms
<1>2. IsIdle(Plain) /\ ~Plain.home /\ ~Plain.live
  BY <1>1 DEF Plain, Command, IsIdle
<1>3. Refused.do = "run" /\ ~Refused.valid /\ Refused.status = 1 /\ ~Refused.home /\ ~Refused.live
  BY DEF Refused, Command
<1>4. IsIdle(Refused)
  BY <1>1, <1>3 DEF IsIdle
<1>5. IsIdle(Live(Refused)) /\ ~Live(Refused).home
  BY <1>1, <1>3 DEF IsIdle, Live, Spawned, CommandOf
<1>. QED  BY <1>2, <1>3, <1>4, <1>5

(* A server, another directory and a permission change nothing of it.      *)
LEMMA LiveForms ==
  ASSUME NEW c \in Spawned
  PROVE  /\ Live(c).home = c.home /\ Live(c).live /\ Live(c).how = c.how
         /\ AtHome(c).home /\ AtHome(c).live = c.live
         /\ Skip(c).home = c.home /\ Skip(c).live = c.live /\ Skip(c).skip
         /\ \A n : IsNew(c, n) => IsNew(Live(c), n) /\ IsNew(AtHome(c), n) /\ IsNew(Skip(c), n)
         /\ \A n : IsAgain(c, n) => IsAgain(Live(c), n)
         /\ \A n, top : Finds(c, n, top) => Finds(Live(c), n, top)
         /\ \A n : IsFork(c, n) => IsFork(Live(c), n)
<1>1. Live(c) \in Spawned /\ AtHome(c) \in Spawned /\ Skip(c) \in Spawned
  BY Forms
<1>2. /\ Live(c).home = c.home /\ Live(c).live /\ Live(c).how = c.how
      /\ AtHome(c).home /\ AtHome(c).live = c.live
      /\ Skip(c).home = c.home /\ Skip(c).live = c.live /\ Skip(c).skip
  BY DEF Live, AtHome, Skip, Spawned, CommandOf
<1>3. \A n : IsNew(c, n) => IsNew(Live(c), n) /\ IsNew(AtHome(c), n) /\ IsNew(Skip(c), n)
  BY <1>1 DEF Live, AtHome, Skip, Spawned, CommandOf, IsNew, Runs
<1>4. \A n : IsAgain(c, n) => IsAgain(Live(c), n)
  BY <1>1 DEF Live, Spawned, CommandOf, IsAgain, Runs
<1>5. \A n, top : Finds(c, n, top) => Finds(Live(c), n, top)
  BY DEF Live, Spawned, CommandOf, Finds
<1>6. \A n : IsFork(c, n) => IsFork(Live(c), n)
  BY <1>1 DEF Live, Spawned, CommandOf, IsFork, Runs
<1>. QED  BY <1>2, <1>3, <1>4, <1>5, <1>6

(* The books of the series of commands that the stages share, whatever the *)
(* names of the sessions.                                                  *)
Adds(c, n) == IsNew(c, n) /\ ~c.home
GoesAgain(c, n, top) == IsAgain(c, n) /\ Finds(c, n, top) /\ ~c.home
Shows(c, n, k) == IsExport(c, n, k) /\ AsksOf(c, n, n) /\ ~c.home
Name == Names \ {"", "fork"}

LEMMA ReachBalances == \A cs, l : Reach(cs, l) => Balanced(cs)
BY DEF Reach, Balanced

LEMMA StandsBalances ==
  ASSUME NEW cs, NEW k, NEW la, NEW top, NEW K, NEW d, Stands(cs, k, la, top, K, d)
  PROVE  Balanced(cs)
BY ReachBalances DEF Stands

Depth(n, top, d) == IF n = top THEN d ELSE 1

LEMMA Depths == \A n, top, d : Depth(n, n, d) = d /\ (n # top => Depth(n, top, d) = 1)
BY DEF Depth

LEMMA Numbers ==
  /\ {0, 1, 2, 3, 4, 5} \subseteq 0 .. 5 /\ {0, 1, 2, 3, 4, 5} \subseteq Nat
  /\ 1 = 0 + 1 /\ 2 = 1 + 1 /\ 3 = 2 + 1 /\ 4 = 3 + 1 /\ 5 = 4 + 1 /\ 6 = 5 + 1
OBVIOUS

LEMMA AddsStands ==
  ASSUME NEW cs, NEW k \in 0 .. 5, NEW la, NEW top, NEW K, NEW d, Stands(cs, k, la, top, K, d),
         NEW c, NEW n \in Name, Adds(c, n), n \notin K, n # top, NEW ds, ds = Append(cs, c),
         NEW L, L = K \cup {n}, NEW j, j = k + 1
  PROVE  Stands(ds, j, n, top, L, d)
<1>1. n \in Names /\ n # ""
  BY DEF Name
<1>. QED  BY <1>1, StandsNew DEF Adds

LEMMA ShowsStands ==
  ASSUME NEW cs, NEW k, NEW K, NEW n \in K, NEW top, NEW d, Stands(cs, k, n, top, K, d),
         NEW c, NEW j, Shows(c, n, j), j = Depth(n, top, d),
         NEW ds, ds = Append(cs, c)
  PROVE  Stands(ds, k, n, top, K, d)
BY StandsExport DEF Shows, Depth

LEMMA GoesStands ==
  ASSUME NEW cs, NEW k \in 0 .. 5, NEW la, NEW top, NEW K, NEW d \in Nat, Stands(cs, k, la, top, K, d),
         NEW c, NEW n \in K, GoesAgain(c, n, top), NEW ds, ds = Append(cs, c),
         NEW e, NEW f, f = Depth(n, top, d), e = f + 1, NEW j, j = k + 1
  PROVE  Stands(ds, j, n, n, K, e)
BY StandsAgain DEF GoesAgain, Depth

LEMMA Appends ==
  /\ \A a : <<a>> = Append(<<>>, a)
  /\ \A a, b : <<a, b>> = Append(<<a>>, b)
  /\ \A a, b, c : <<a, b, c>> = Append(<<a, b>>, c)
  /\ \A a, b, c, d : <<a, b, c, d>> = Append(<<a, b, c>>, d)
  /\ \A a, b, c, d, e : <<a, b, c, d, e>> = Append(<<a, b, c, d>>, e)
  /\ \A a, b, c, d, e, f : <<a, b, c, d, e, f>> = Append(<<a, b, c, d, e>>, f)
  /\ \A a, b, c, d, e, f, g : <<a, b, c, d, e, f, g>> = Append(<<a, b, c, d, e, f>>, g)
  /\ \A a, b, c, d, e, f, g, h : <<a, b, c, d, e, f, g, h>> = Append(<<a, b, c, d, e, f, g>>, h)
OBVIOUS

LEMMA Appends9 ==
  \A a, b, c, d, e, f, g, h, i : <<a, b, c, d, e, f, g, h, i>> = Append(<<a, b, c, d, e, f, g, h>>, i)
OBVIOUS

LEMMA Series1 ==
  ASSUME NEW a, NEW s \in Name, Adds(a, s)
  PROVE  Stands(<<a>>, 1, s, "", {s}, 0)
<1>1. s # ""
  BY DEF Name
<1>2. <<a>> = Append(<<>>, a)
  BY Appends
<1>3. {s} = {} \cup {s} /\ 1 = 0 + 1 /\ 0 \in 0 .. 5 /\ s \notin {}
  OBVIOUS
<1>. QED  BY <1>1, <1>2, <1>3, StandsNone, AddsStands, Zenon

LEMMA Series2 ==
  ASSUME NEW a, NEW b, NEW s \in Name, Adds(a, s), Shows(b, s, 1)
  PROVE  Stands(<<a, b>>, 1, s, "", {s}, 0)
<1>1. <<a, b>> = Append(<<a>>, b)
  BY Appends, Zenon
<1>2. s # ""
  BY DEF Name
<1>3. s \in {s} /\ 1 = Depth(s, "", 0)
  BY <1>2, Depths, Zenon
<1>. QED  BY <1>1, <1>3, Series1, ShowsStands, Zenon

LEMMA Series4 ==
  ASSUME NEW a, NEW b, NEW c, NEW d, NEW s \in Name, Adds(a, s), Shows(b, s, 1),
         GoesAgain(c, s, ""), Shows(d, s, 2)
  PROVE  Stands(<<a, b, c, d>>, 2, s, s, {s}, 2)
<1>1. <<a, b, c>> = Append(<<a, b>>, c) /\ <<a, b, c, d>> = Append(<<a, b, c>>, d)
  BY ONLY Appends
<1>2. 2 = 1 + 1 /\ 1 \in 0 .. 5 /\ 0 \in Nat
  BY ONLY Numbers
<1>3. 1 = Depth(s, "", 0) /\ 2 = Depth(s, s, 2) /\ s \in {s}
  <2>1. s # ""
    BY DEF Name
  <2>. QED  BY <2>1, Depths, Zenon
<1>4. Stands(<<a, b, c>>, 2, s, s, {s}, 2)
  BY <1>1, <1>2, <1>3, Series2, GoesStands, Zenon
<1>. QED  BY <1>1, <1>3, <1>4, ShowsStands

LEMMA Series6 ==
  ASSUME NEW a, NEW b, NEW c, NEW d, NEW e, NEW f, NEW s \in Name, Adds(a, s), Shows(b, s, 1),
         GoesAgain(c, s, ""), Shows(d, s, 2), GoesAgain(e, s, s), Shows(f, s, 3)
  PROVE  Stands(<<a, b, c, d, e, f>>, 3, s, s, {s}, 3)
<1>1. <<a, b, c, d, e>> = Append(<<a, b, c, d>>, e) /\ <<a, b, c, d, e, f>> = Append(<<a, b, c, d, e>>, f)
  BY ONLY Appends
<1>2. 3 = 2 + 1 /\ 2 \in 0 .. 5 /\ 2 \in Nat
  BY ONLY Numbers
<1>3. 2 = Depth(s, s, 2) /\ 3 = Depth(s, s, 3) /\ s \in {s}
  BY Depths, Zenon
<1>4. Stands(<<a, b, c, d>>, 2, s, s, {s}, 2)
  BY Series4, Zenon
<1>5. Stands(<<a, b, c, d, e>>, 3, s, s, {s}, 3)
  BY <1>1, <1>2, <1>3, <1>4, GoesStands, Zenon
<1>. QED  BY <1>1, <1>3, <1>5, ShowsStands, Zenon

(* With a second session, which is used once.                              *)
LEMMA Series4b ==
  ASSUME NEW a, NEW b, NEW c, NEW d, NEW s \in Name, NEW o \in Name, s # o,
         Adds(a, s), Shows(b, s, 1), Adds(c, o), Shows(d, o, 1)
  PROVE  Stands(<<a, b, c, d>>, 2, o, "", {s, o}, 0)
<1>1. <<a, b, c>> = Append(<<a, b>>, c) /\ <<a, b, c, d>> = Append(<<a, b, c>>, d)
  BY ONLY Appends
<1>2. 2 = 1 + 1 /\ 1 \in 0 .. 5
  BY ONLY Numbers
<1>3. {s, o} = {s} \cup {o} /\ o \notin {s} /\ o \in {s, o}
  BY Zenon
<1>4. o # "" /\ 1 = Depth(o, "", 0)
  <2>1. o # ""
    BY DEF Name
  <2>. QED  BY <2>1, Depths, Zenon
<1>5. Stands(<<a, b, c>>, 2, o, "", {s, o}, 0)
  BY <1>1, <1>2, <1>3, <1>4, Series2, AddsStands, Zenon
<1>. QED  BY <1>1, <1>3, <1>4, <1>5, ShowsStands, Zenon

LEMMA Series6b ==
  ASSUME NEW a, NEW b, NEW c, NEW d, NEW e, NEW f, NEW s \in Name, NEW o \in Name, s # o,
         Adds(a, s), Shows(b, s, 1), Adds(c, o), Shows(d, o, 1), GoesAgain(e, s, ""), Shows(f, s, 2)
  PROVE  Stands(<<a, b, c, d, e, f>>, 3, s, s, {s, o}, 2)
<1>1. <<a, b, c, d, e>> = Append(<<a, b, c, d>>, e) /\ <<a, b, c, d, e, f>> = Append(<<a, b, c, d, e>>, f)
  BY ONLY Appends
<1>2. 3 = 2 + 1 /\ 2 = 1 + 1 /\ 2 \in 0 .. 5 /\ 0 \in Nat
  BY ONLY Numbers
<1>3. 1 = Depth(s, "", 0) /\ 2 = Depth(s, s, 2)
  <2>1. s # ""
    BY DEF Name
  <2>. QED  BY <2>1, Depths, Zenon
<1>4. s \in {s, o}
  BY Zenon
<1>5. Stands(<<a, b, c, d, e>>, 3, s, s, {s, o}, 2)
  BY <1>1, <1>2, <1>3, <1>4, Series4b, GoesStands, Zenon
<1>. QED  BY <1>1, <1>3, <1>4, <1>5, ShowsStands, Zenon

LEMMA Series8b ==
  ASSUME NEW a, NEW b, NEW c, NEW d, NEW e, NEW f, NEW g, NEW h, NEW s \in Name, NEW o \in Name, s # o,
         Adds(a, s), Shows(b, s, 1), Adds(c, o), Shows(d, o, 1), GoesAgain(e, s, ""), Shows(f, s, 2),
         GoesAgain(g, s, s), Shows(h, s, 3)
  PROVE  Stands(<<a, b, c, d, e, f, g, h>>, 4, s, s, {s, o}, 3)
<1>1. /\ <<a, b, c, d, e, f, g>> = Append(<<a, b, c, d, e, f>>, g)
      /\ <<a, b, c, d, e, f, g, h>> = Append(<<a, b, c, d, e, f, g>>, h)
  BY ONLY Appends
<1>2. 4 = 3 + 1 /\ 3 = 2 + 1 /\ 3 \in 0 .. 5 /\ 2 \in Nat
  BY ONLY Numbers
<1>3. 2 = Depth(s, s, 2) /\ 3 = Depth(s, s, 3)
  BY Depths, Zenon
<1>4. s \in {s, o}
  BY Zenon
<1>5. Stands(<<a, b, c, d, e, f, g>>, 4, s, s, {s, o}, 3)
  BY <1>1, <1>2, <1>3, <1>4, Series6b, GoesStands, ZenonT(60)
<1>. QED  BY <1>1, <1>3, <1>4, <1>5, ShowsStands, ZenonT(60)

(* Four sessions, of which one is resumed twice.                           *)
LEMMA SeriesDefault ==
  ASSUME NEW a, NEW b, NEW c, NEW d, NEW e, NEW f, NEW g,
         NEW t \in Name, NEW s \in Name, NEW o \in Name, NEW w \in Name,
         s # t, o # t, o # s, w # t, w # s, w # o,
         Adds(a, t), Adds(b, s), Shows(c, s, 1), GoesAgain(d, s, ""), GoesAgain(e, s, s), Adds(f, o), Adds(g, w)
  PROVE  Stands(<<a, b, c, d, e, f, g>>, 6, w, s, {t, s, o, w}, 3)
<1>1. 1 = Depth(s, "", 0) /\ 2 = Depth(s, s, 2) /\ s # ""
  <2>1. s # ""
    BY DEF Name
  <2>. QED  BY <2>1, Depths, Zenon
<1>2. s \in {t, s} /\ o \notin {t, s} /\ w \notin {t, s, o}
  BY Zenon
<1>3. Stands(<<a, b, c>>, 2, s, "", {t, s}, 0)
  <2>1. <<a, b>> = Append(<<a>>, b) /\ <<a, b, c>> = Append(<<a, b>>, c)
    BY ONLY Appends
  <2>2. 2 = 1 + 1 /\ 1 \in 0 .. 5
    BY ONLY Numbers
  <2>3. {t, s} = {t} \cup {s} /\ s \notin {t}
    BY Zenon
  <2>4. Stands(<<a, b>>, 2, s, "", {t, s}, 0)
    BY <1>1, <2>1, <2>2, <2>3, Series1, AddsStands, Zenon
  <2>. QED  BY <1>1, <1>2, <2>1, <2>4, ShowsStands, Zenon
<1>4. Stands(<<a, b, c, d>>, 3, s, s, {t, s}, 2)
  <2>1. <<a, b, c, d>> = Append(<<a, b, c>>, d)
    BY ONLY Appends
  <2>2. 3 = 2 + 1 /\ 2 = 1 + 1 /\ 2 \in 0 .. 5 /\ 0 \in Nat
    BY ONLY Numbers
  <2>. QED  BY <1>1, <1>2, <1>3, <2>1, <2>2, GoesStands, Zenon
<1>5. Stands(<<a, b, c, d, e>>, 4, s, s, {t, s}, 3)
  <2>1. <<a, b, c, d, e>> = Append(<<a, b, c, d>>, e)
    BY ONLY Appends
  <2>2. 4 = 3 + 1 /\ 3 = 2 + 1 /\ 3 \in 0 .. 5 /\ 2 \in Nat
    BY ONLY Numbers
  <2>. QED  BY <1>1, <1>2, <1>4, <2>1, <2>2, GoesStands, Zenon
<1>6. Stands(<<a, b, c, d, e, f>>, 5, o, s, {t, s, o}, 3)
  <2>1. <<a, b, c, d, e, f>> = Append(<<a, b, c, d, e>>, f)
    BY ONLY Appends
  <2>2. 5 = 4 + 1 /\ 4 \in 0 .. 5
    BY ONLY Numbers
  <2>3. {t, s, o} = {t, s} \cup {o}
    BY Zenon
  <2>. QED  BY <1>2, <1>5, <2>1, <2>2, <2>3, AddsStands, Zenon
<1>7. <<a, b, c, d, e, f, g>> = Append(<<a, b, c, d, e, f>>, g)
  BY ONLY Appends
<1>8. 6 = 5 + 1 /\ 5 \in 0 .. 5
  BY ONLY Numbers
<1>9. {t, s, o, w} = {t, s, o} \cup {w}
  BY Zenon
<1>. QED  BY <1>2, <1>6, <1>7, <1>8, <1>9, AddsStands, Zenon

LEMMA SeriesInstalled ==
  ASSUME NEW a, NEW b, NEW c, NEW d, NEW e, NEW f, NEW g, NEW h,
         NEW t \in Name, NEW s \in Name, NEW o \in Name, NEW w \in Name,
         s # t, o # t, o # s, w # t, w # s, w # o,
         Adds(a, t), Adds(b, s), Shows(c, s, 1), GoesAgain(d, s, ""), GoesAgain(e, s, s), Adds(f, o), Adds(g, w),
         Shows(h, w, 1)
  PROVE  Stands(<<a, b, c, d, e, f, g, h>>, 6, w, s, {t, s, o, w}, 3)
<1>1. <<a, b, c, d, e, f, g, h>> = Append(<<a, b, c, d, e, f, g>>, h)
  BY ONLY Appends
<1>2. 1 = Depth(w, s, 3) /\ w \in {t, s, o, w}
  <2>1. w # s
    OBVIOUS
  <2>2. 1 = Depth(w, s, 3)
    BY <2>1 DEF Depth
  <2>. QED  BY <2>2
<1>3. Stands(<<a, b, c, d, e, f, g>>, 6, w, s, {t, s, o, w}, 3)
  BY SeriesDefault, Zenon
<1>. QED  BY <1>1, <1>2, <1>3, ShowsStands, Zenon

LEMMA SeriesGenerated ==
  ASSUME NEW a, NEW b, NEW c, NEW d, NEW e, NEW f, NEW g, NEW h, NEW i,
         NEW t \in Name, NEW s \in Name, NEW o \in Name, NEW w \in Name,
         s # t, o # t, o # s, w # t, w # s, w # o,
         Adds(a, t), Adds(b, s), Shows(c, s, 1), GoesAgain(d, s, ""), GoesAgain(e, s, s), Adds(f, o), Adds(g, w),
         IsIdle(h), ~h.home, IsIdle(i), ~i.home
  PROVE  Stands(<<a, b, c, d, e, f, g, h, i>>, 6, w, s, {t, s, o, w}, 3)
<1>1. <<a, b, c, d, e, f, g, h>> = Append(<<a, b, c, d, e, f, g>>, h)
  BY ONLY Appends
<1>2. <<a, b, c, d, e, f, g, h, i>> = Append(<<a, b, c, d, e, f, g, h>>, i)
  BY ONLY Appends9
<1>3. Stands(<<a, b, c, d, e, f, g>>, 6, w, s, {t, s, o, w}, 3)
  BY SeriesDefault, Zenon
<1>4. Stands(<<a, b, c, d, e, f, g, h>>, 6, w, s, {t, s, o, w}, 3)
  BY <1>1, <1>3, StandsIdle, Zenon
<1>. QED  BY <1>2, <1>4, StandsIdle, Zenon

(* A fork at the end, and another data directory after it.                 *)
LEMMA SeriesForked6 ==
  ASSUME NEW a, NEW b, NEW c, NEW d, NEW e, NEW f, NEW g, NEW h, NEW k \in 0 .. 5, NEW K, NEW j,
         NEW s \in K, "fork" \notin K, s # "fork", Stands(<<a, b, c, d, e, f>>, k, s, s, K, j),
         IsFork(g, s), ~g.home, IsExport(h, "fork", 1), h.parent = s, ~h.home
  PROVE  \E l : Reach(<<a, b, c, d, e, f, g, h>>, l)
<1>1. <<a, b, c, d, e, f, g, h>> = Append(<<a, b, c, d, e, f, g>>, h)
  BY ONLY Appends
<1>2. <<a, b, c, d, e, f, g>> = Append(<<a, b, c, d, e, f>>, g)
  BY ONLY Appends
<1>3. \E l : Reach(Append(Append(<<a, b, c, d, e, f>>, g), h), l)
  BY ReachFork, SMTT(60)
<1>. QED  BY <1>1, <1>2, <1>3, Zenon

LEMMA SeriesForked8 ==
  ASSUME NEW a, NEW b, NEW c, NEW d, NEW e, NEW f, NEW g, NEW h, NEW i, NEW j,
         NEW k \in 0 .. 5, NEW K, NEW n, NEW s \in K, "fork" \notin K, s # "fork",
         Stands(<<a, b, c, d, e, f, g, h>>, k, s, s, K, n),
         IsFork(i, s), ~i.home, IsExport(j, "fork", 1), j.parent = s, ~j.home
  PROVE  Balanced(<<a, b, c, d, e, f, g, h, i, j>>)
<1>1. <<a, b, c, d, e, f, g, h, i, j>> = Append(<<a, b, c, d, e, f, g, h, i>>, j)
  OBVIOUS
<1>2. <<a, b, c, d, e, f, g, h, i>> = Append(<<a, b, c, d, e, f, g, h>>, i)
  BY ONLY Appends9
<1>3. \E l : Reach(Append(Append(<<a, b, c, d, e, f, g, h>>, i), j), l)
  BY ReachFork
<1>. QED  BY <1>1, <1>2, <1>3, ReachBalances, Zenon

LEMMA SeriesHome ==
  ASSUME NEW a, NEW b, NEW c, NEW d, NEW e, NEW f, NEW g, NEW h, NEW i, NEW j,
         NEW l, Reach(<<a, b, c, d, e, f, g, h>>, l), NEW x \in Name, NEW y \in Name,
         IsNew(i, x), i.home, IsNew(j, y), j.home
  PROVE  /\ Balanced(<<a, b, c, d, e, f, g, h, i>>)
         /\ Balanced(<<a, b, c, d, e, f, g, h, i, j>>)
<1>1. <<a, b, c, d, e, f, g, h, i, j>> = Append(<<a, b, c, d, e, f, g, h, i>>, j)
  OBVIOUS
<1>2. <<a, b, c, d, e, f, g, h, i>> = Append(<<a, b, c, d, e, f, g, h>>, i)
  BY ONLY Appends9
<1>3. x \in Names /\ x # "" /\ y \in Names /\ y # ""
  BY DEF Name
<1>4. Stands(<<a, b, c, d, e, f, g, h, i>>, 1, x, "", {x}, 0)
  BY <1>2, <1>3, ReachHome, Zenon
<1>5. Stands(<<a, b, c, d, e, f, g, h, i, j>>, 1, y, "", {y}, 0)
  BY <1>1, <1>3, <1>4, StandsHome, Zenon
<1>. QED  BY <1>4, <1>5, StandsBalances, Zenon

-----------------------------------------------------------------------------
(* The books of the stages.                                                *)

LEMMA IdleBalances ==
  ASSUME NEW cs \in Seq(Spawned), \A i \in 1 .. Len(cs) : IsIdle(cs[i]) /\ ~cs[i].home
  PROVE  Balanced(cs)
<1>. DEFINE n == Len(cs)
            book == [i \in 1 .. n + 1 |-> Blank]
<1>1. n \in Nat /\ \A i \in 1 .. n : i \in 1 .. n + 1 /\ i + 1 \in 1 .. n + 1
  OBVIOUS
<1>2. Blank \in Ledger
  BY BlankIs DEF Shape
<1>3. book \in [1 .. n + 1 -> Ledger] /\ \A i \in 1 .. n + 1 : book[i] = Blank
  BY <1>2
<1>4. 1 \in 1 .. n + 1
  BY <1>1
<1>5. \A i \in 1 .. n : Fits(Blank, cs[i]) /\ Entered(Blank, cs[i]) = Blank
  BY <1>2, IdleFits
<1>. HIDE DEF book
<1>6. ASSUME NEW i \in 1 .. n
      PROVE  /\ Fits(book[i], cs[i])
             /\ book[i + 1] = IF i < n /\ cs[i + 1].home THEN Blank ELSE Entered(book[i], cs[i])
  BY <1>1, <1>3, <1>5
<1>7. Balances(cs, book)
  BY <1>3, <1>4, <1>6 DEF Balances
<1>. QED  BY <1>7 DEF Balanced

LEMMA NamesAre ==
  /\ Name \subseteq Texts /\ Name \subseteq Names
  /\ {"text", "json", "file", "mock", "mockText", "S", "configured", "agent"} \subseteq Name
BY DEF Name, Names, Texts

LEMMA Commands ==
  ASSUME NEW n \in Name
  PROVE  /\ Adds(NewRun(n), n) /\ Adds(Live(NewRun(n)), n)
         /\ \A k \in Nat : Shows(Export(n, k), n, k)
         /\ GoesAgain(Resume(n), n, "") /\ GoesAgain(Live(Resume(n)), n, "")
         /\ GoesAgain(Resume(n), n, n)
         /\ GoesAgain(Continue(n), n, n) /\ GoesAgain(Live(Continue(n)), n, n) /\ GoesAgain(Continue(""), n, n)
<1>1. n \in Texts
  BY NamesAre
<1>2. /\ Adds(NewRun(n), n) /\ NewRun(n) \in Spawned
      /\ GoesAgain(Resume(n), n, "") /\ GoesAgain(Resume(n), n, n) /\ Resume(n) \in Spawned
  BY <1>1, NewForm, ResumeForm, Forms DEF Adds, GoesAgain
<1>3. GoesAgain(Continue(n), n, n) /\ Continue(n) \in Spawned /\ GoesAgain(Continue(""), n, n)
  BY <1>1, ContinueForm, Forms DEF GoesAgain
<1>4. \A k \in Nat : Shows(Export(n, k), n, k)
  BY <1>1, ExportForm DEF Shows
<1>5. Adds(Live(NewRun(n)), n)
  BY <1>2, LiveForms DEF Adds
<1>6. GoesAgain(Live(Resume(n)), n, "")
  BY <1>2, LiveForms DEF GoesAgain
<1>7. GoesAgain(Live(Continue(n)), n, n)
  BY <1>3, LiveForms DEF GoesAgain
<1>. QED  BY <1>2, <1>3, <1>4, <1>5, <1>6, <1>7

LEMMA CallingBalances ==
  /\ Balanced(<<Live(NewRun("S")), Export("S", 1)>>)
  /\ Balanced(<<Skip(Live(NewRun("S"))), Export("S", 1)>>)
<1>. DEFINE s == "S"
<1>1. s \in Name /\ s \in Texts
  BY NamesAre
<1>. HIDE DEF s
<1>2. Adds(Live(NewRun(s)), s) /\ Shows(Export(s, 1), s, 1)
  BY <1>1, Commands
<1>3. Live(NewRun(s)) \in Spawned
  BY <1>1, Forms
<1>4. Adds(Skip(Live(NewRun(s))), s)
  BY <1>2, <1>3, LiveForms DEF Adds
<1>5. Stands(<<Live(NewRun(s)), Export(s, 1)>>, 1, s, "", {s}, 0)
  BY <1>1, <1>2, Series2
<1>6. Stands(<<Skip(Live(NewRun(s))), Export(s, 1)>>, 1, s, "", {s}, 0)
  BY <1>1, <1>2, <1>4, Series2
<1>. QED  BY <1>5, <1>6, StandsBalances DEF s

LEMMA DefaultBalances ==
  /\ Balanced(InstalledDefault.commands)
  /\ Balanced(GeneratedDefault.commands)
<1>. DEFINE t == "text"
            s == "json"
            f == "file"
            m == "mock"
            x == "mockText"
<1>1. /\ t \in Name /\ s \in Name /\ f \in Name /\ m \in Name /\ x \in Name
      /\ s # t /\ f # t /\ f # s /\ m # t /\ m # s /\ m # f /\ x # t /\ x # s /\ m # x
  BY NamesAre
<1>2. InstalledDefault.commands =
        <<NewRun(t), NewRun(s), Export(s, 1), Resume(s), Continue(""), NewRun(f), NewRun(m), Export(m, 1)>>
  BY DEF InstalledDefault, Stage
<1>3. GeneratedDefault.commands =
        <<NewRun(t), NewRun(s), Export(s, 1), Resume(s), Continue(""), NewRun(x), NewRun(m), Refused, Refused>>
  BY DEF GeneratedDefault, Stage
<1>. HIDE DEF t, s, f, m, x
<1>4. /\ Adds(NewRun(t), t) /\ Adds(NewRun(s), s) /\ Adds(NewRun(f), f) /\ Adds(NewRun(m), m)
      /\ Adds(NewRun(x), x) /\ Shows(Export(s, 1), s, 1) /\ Shows(Export(m, 1), m, 1)
      /\ GoesAgain(Resume(s), s, "") /\ GoesAgain(Continue(""), s, s)
  BY <1>1, Commands
<1>5. IsIdle(Refused) /\ ~Refused.home
  BY IdleForms
<1>6. Stands(<<NewRun(t), NewRun(s), Export(s, 1), Resume(s), Continue(""), NewRun(f), NewRun(m), Export(m, 1)>>,
             6, m, s, {t, s, f, m}, 3)
  BY <1>1, <1>4, SeriesInstalled, Zenon
<1>7. Stands(<<NewRun(t), NewRun(s), Export(s, 1), Resume(s), Continue(""), NewRun(x), NewRun(m), Refused, Refused>>,
             6, m, s, {t, s, x, m}, 3)
  BY <1>1, <1>4, <1>5, SeriesGenerated, Zenon
<1>. QED  BY <1>2, <1>3, <1>6, <1>7, StandsBalances, Zenon

LEMMA PersistedBalances ==
  /\ Balanced(InstalledPersisted.commands)
  /\ Balanced(GeneratedPersisted.commands)
  /\ Balanced(InstalledMockPersisted.commands)
  /\ Balanced(GeneratedMockPersisted.commands)
<1>. DEFINE s == "S"
            f == "file"
            fork == Fork("session", s)
            plain == [Export(s, 2) EXCEPT !.last = FALSE]
<1>1. s \in Name /\ f \in Name /\ s # f /\ "fork" \notin {s, f} /\ s # "fork" /\ s \in Texts
  BY NamesAre
<1>2. InstalledPersisted.commands =
        <<NewRun(s), Export(s, 1), NewRun(f), Export(f, 1), Resume(s), Export(s, 2),
          Continue(s), Export(s, 3), fork, ExportFork(s)>>
  BY DEF InstalledPersisted, Stage
<1>3. GeneratedPersisted.commands =
        <<NewRun(s), Export(s, 1), NewRun(f), Export(f, 1), Resume(s), Export(s, 2),
          fork, ExportFork(s)>>
  BY DEF GeneratedPersisted, Stage
<1>4. InstalledMockPersisted.commands = <<NewRun(s), Export(s, 1), Resume(s), Export(s, 2)>>
  BY DEF InstalledMockPersisted, Stage
<1>5. GeneratedMockPersisted.commands = <<NewRun(s), Export(s, 1), Resume(s), plain>>
  BY DEF GeneratedMockPersisted, Stage
<1>. HIDE DEF s, f
<1>6. /\ Adds(NewRun(s), s) /\ Adds(NewRun(f), f)
      /\ Shows(Export(s, 1), s, 1) /\ Shows(Export(s, 2), s, 2) /\ Shows(Export(s, 3), s, 3)
      /\ Shows(Export(f, 1), f, 1)
      /\ GoesAgain(Resume(s), s, "") /\ GoesAgain(Continue(s), s, s)
  BY <1>1, Commands
<1>7. /\ IsFork(fork, s) /\ ~fork.home
      /\ IsExport(ExportFork(s), "fork", 1) /\ ExportFork(s).parent = s /\ ~ExportFork(s).home
  BY <1>1, ForkForm, ExportForkForm
<1>8. Shows(plain, s, 2)
  BY <1>6 DEF Shows, IsExport, AsksOf, Spawned, CommandOf
<1>. HIDE DEF fork, plain
<1>9. Balanced(InstalledPersisted.commands)
  <2>1. Stands(<<NewRun(s), Export(s, 1), NewRun(f), Export(f, 1), Resume(s), Export(s, 2),
                 Continue(s), Export(s, 3)>>, 4, s, s, {s, f}, 3)
    BY <1>1, <1>6, Series8b, Zenon
  <2>2. 4 \in 0 .. 5 /\ s \in {s, f}
    OBVIOUS
  <2>. QED  BY <1>1, <1>2, <1>7, <2>1, <2>2, SeriesForked8, Zenon
<1>10. Balanced(GeneratedPersisted.commands)
  <2>1. Stands(<<NewRun(s), Export(s, 1), NewRun(f), Export(f, 1), Resume(s), Export(s, 2)>>, 3, s, s, {s, f}, 2)
    BY <1>1, <1>6, Series6b, Zenon
  <2>2. 3 \in 0 .. 5 /\ s \in {s, f}
    OBVIOUS
  <2>. QED  BY <1>1, <1>3, <1>7, <2>1, <2>2, SeriesForked6, ReachBalances, Zenon
<1>11. Stands(InstalledMockPersisted.commands, 2, s, s, {s}, 2)
  BY <1>1, <1>4, <1>6, Series4, Zenon
<1>12. Stands(GeneratedMockPersisted.commands, 2, s, s, {s}, 2)
  BY <1>1, <1>5, <1>6, <1>8, Series4, Zenon
<1>. QED  BY <1>9, <1>10, <1>11, <1>12, StandsBalances, Zenon

LEMMA JoinsTwo ==
  ASSUME NEW S, NEW s \in Seq(S), NEW i \in S, NEW j \in S
  PROVE  s \o <<i, j>> = Append(Append(s, i), j)
<1>1. Append(s, i) \in Seq(S) /\ <<i>> \in Seq(S) /\ <<j>> \in Seq(S)
  OBVIOUS
<1>2. <<i, j>> = <<i>> \o <<j>>
  <2>1. <<i, j>> = Append(<<i>>, j)
    BY Appends, Zenon
  <2>. QED  BY <1>1, <2>1, AppendIsConcat
<1>3. Append(Append(s, i), j) = (s \o <<i>>) \o <<j>>
  BY <1>1, AppendIsConcat
<1>. QED  BY <1>1, <1>2, <1>3, ConcatAssociative

LEMMA Joins ==
  ASSUME NEW a, NEW b, NEW c, NEW d, NEW e, NEW f, NEW g, NEW h, NEW i, NEW j
  PROVE  <<a, b, c, d, e, f, g, h>> \o <<i, j>> = <<a, b, c, d, e, f, g, h, i, j>>
<1>. DEFINE S == {a, b, c, d, e, f, g, h, i, j}
            s == <<a, b, c, d, e, f, g, h>>
<1>1. a \in S /\ b \in S /\ c \in S /\ d \in S /\ e \in S /\ f \in S /\ g \in S /\ h \in S /\ i \in S /\ j \in S
  OBVIOUS
<1>. HIDE DEF S
<1>2. s \in Seq(S)
  BY <1>1
<1>3. <<a, b, c, d, e, f, g, h, i>> = Append(s, i)
  BY ONLY Appends9
<1>4. <<a, b, c, d, e, f, g, h, i, j>> = Append(<<a, b, c, d, e, f, g, h, i>>, j)
  OBVIOUS
<1>. HIDE DEF s
<1>5. s \o <<i, j>> = Append(Append(s, i), j)
  BY <1>1, <1>2, JoinsTwo
<1>. QED  BY <1>3, <1>4, <1>5 DEF s

LEMMA LiveBalances ==
  Balanced(InstalledLive.commands) /\ Balanced(GeneratedLive.commands)
<1>. DEFINE s == "S"
            x == "configured"
            y == "agent"
            fork == Live(Fork("continue", s))
            one == AtHome(Live(NewRun(x)))
            two == AtHome(Live(NewRun(y)))
<1>1. /\ s \in Name /\ x \in Name /\ y \in Name /\ "fork" \notin {s} /\ s # "fork"
      /\ s \in Texts /\ x \in Texts /\ y \in Texts
  BY NamesAre
<1>2. InstalledLive.commands =
        <<Live(NewRun(s)), Export(s, 1), Live(Resume(s)), Export(s, 2),
          Live(Continue(s)), Export(s, 3), fork, ExportFork(s), one, two>>
  <2>1. InstalledLive.commands = InstalledLiveRuns \o InstalledConfiguredRuns
    BY DEF InstalledLive, Against, Stage
  <2>2. InstalledLiveRuns = <<Live(NewRun(s)), Export(s, 1), Live(Resume(s)), Export(s, 2),
                              Live(Continue(s)), Export(s, 3), fork, ExportFork(s)>>
    BY Zenon DEF InstalledLiveRuns
  <2>3. InstalledConfiguredRuns = <<one, two>>
    BY Zenon DEF InstalledConfiguredRuns
  <2>4. PICK a, b, c, d, e, f, g, h, i, j :
          /\ a = Live(NewRun(s)) /\ b = Export(s, 1) /\ c = Live(Resume(s)) /\ d = Export(s, 2)
          /\ e = Live(Continue(s)) /\ f = Export(s, 3) /\ g = fork /\ h = ExportFork(s)
          /\ i = one /\ j = two
    OBVIOUS
  <2>5. InstalledLiveRuns = <<a, b, c, d, e, f, g, h>> /\ InstalledConfiguredRuns = <<i, j>>
    BY <2>2, <2>3, <2>4, Zenon
  <2>6. <<a, b, c, d, e, f, g, h>> \o <<i, j>> = <<a, b, c, d, e, f, g, h, i, j>>
    BY ONLY Joins, SMT
  <2>7. InstalledLive.commands = <<a, b, c, d, e, f, g, h, i, j>>
    BY ONLY <2>1, <2>5, <2>6, Zenon
  <2>. QED  BY <2>4, <2>7, Zenon
<1>3. GeneratedLive.commands =
        <<Live(NewRun(s)), Export(s, 1), Live(Resume(s)), Export(s, 2),
          Live(Continue(s)), Export(s, 3), fork, ExportFork(s), one>>
  BY DEF GeneratedLive, Against, Stage
<1>. HIDE DEF s, x, y
<1>4. /\ Adds(Live(NewRun(s)), s) /\ GoesAgain(Live(Resume(s)), s, "") /\ GoesAgain(Live(Continue(s)), s, s)
      /\ Shows(Export(s, 1), s, 1) /\ Shows(Export(s, 2), s, 2) /\ Shows(Export(s, 3), s, 3)
  BY <1>1, Commands
<1>5. /\ IsFork(fork, s) /\ ~fork.home
      /\ IsExport(ExportFork(s), "fork", 1) /\ ExportFork(s).parent = s /\ ~ExportFork(s).home
  <2>1. IsFork(Fork("continue", s), s) /\ ~Fork("continue", s).home
    BY <1>1, ForkForm
  <2>2. Fork("continue", s) \in Spawned
    BY <2>1 DEF IsFork
  <2>3. IsFork(fork, s) /\ ~fork.home
    BY <2>1, <2>2, LiveForms
  <2>. QED  BY <1>1, <2>3, ExportForkForm
<1>6. ASSUME NEW n \in Name
      PROVE  IsNew(AtHome(Live(NewRun(n))), n) /\ AtHome(Live(NewRun(n))).home
  <2>1. n \in Texts
    BY NamesAre
  <2>2. IsNew(NewRun(n), n) /\ NewRun(n) \in Spawned
    BY <2>1, NewForm, Forms
  <2>3. IsNew(Live(NewRun(n)), n) /\ Live(NewRun(n)) \in Spawned
    BY <2>2, LiveForms, Forms
  <2>. QED  BY <2>3, LiveForms
<1>7. IsNew(one, x) /\ one.home /\ IsNew(two, y) /\ two.home
  BY <1>1, <1>6
<1>. HIDE DEF fork, one, two
<1>8. Stands(<<Live(NewRun(s)), Export(s, 1), Live(Resume(s)), Export(s, 2),
               Live(Continue(s)), Export(s, 3)>>, 3, s, s, {s}, 3)
  BY <1>1, <1>4, Series6, Zenon
<1>9. \E l : Reach(<<Live(NewRun(s)), Export(s, 1), Live(Resume(s)), Export(s, 2),
                     Live(Continue(s)), Export(s, 3), fork, ExportFork(s)>>, l)
  <2>1. 3 \in 0 .. 5
    OBVIOUS
  <2>. QED  BY <1>1, <1>5, <1>8, <2>1, SeriesForked6, Zenon
<1>. QED  BY <1>1, <1>2, <1>3, <1>7, <1>9, SeriesHome, Zenon

-----------------------------------------------------------------------------
(* What the providers of the stages lead the model to.                     *)

(* A stage without a server, one with a server that calls no tools, and    *)
(* one with a server that does.                                            *)
LEMMA PlainProvides ==
  ASSUME NEW root, NEW cs \in Seq(Spawned), \A i \in 1 .. Len(cs) : ~cs[i].live
  PROVE  Provides(Stage(root, cs)) /\ Stage(root, cs).commands = cs
BY DEF Provides, Stage, Tooling

LEMMA TextProvides ==
  ASSUME NEW root, NEW cs \in Seq(Spawned), NEW server \in {"text", "config"}
  PROVE  /\ Provides(Against(server, Stage(root, cs)))
         /\ Against(server, Stage(root, cs)).commands = cs
BY DEF Provides, Stage, Against, Tooling

LEMMA FailingProvides ==
  ASSUME NEW root
  PROVE  /\ Provides(Failing(root))
         /\ Failing(root).commands = <<Live(NewRun("S")), Export("S", 1)>>
BY DEF Provides, Failing, Stage, Against, Tooling

(* The commands of a stage that calls tools.                               *)
CallsTwo(cs) == Len(cs) = 2 /\ cs[1].live /\ ~cs[2].live /\ ~Runs(cs[2])

LEMMA CallsTwoIs == \A cs : CallsTwo(cs) => cs # <<>>
<1>1. Len(<<>>) = 0
  OBVIOUS
<1>. QED  BY <1>1 DEF CallsTwo

LEMMA CallsAre ==
  /\ CallsTwo(<<Live(NewRun("S")), Export("S", 1)>>)
  /\ CallsTwo(<<Skip(Live(NewRun("S"))), Export("S", 1)>>)
  /\ Skip(Live(NewRun("S"))).skip
  /\ <<Skip(Live(NewRun("S"))), Export("S", 1)>> \in Seq(Spawned)
  /\ <<Live(NewRun("S")), Export("S", 1)>> \in Seq(Spawned)
<1>1. "S" \in Texts /\ 1 \in Nat
  BY TextsHave
<1>. DEFINE r == NewRun("S")
            x == Export("S", 1)
            q == Live(r)
            w == Skip(q)
<1>2. r \in Spawned /\ x \in Spawned /\ IsExport(x, "S", 1) /\ ~x.live
  BY <1>1, Forms, ExportForm
<1>. HIDE DEF r, x
<1>3. q \in Spawned /\ w \in Spawned
  BY <1>2, Forms
<1>4. q.live
  BY <1>2, LiveForms
<1>. HIDE DEF q
<1>5. w.live /\ w.skip
  BY <1>3, <1>4, LiveForms
<1>6. ~Runs(x)
  BY <1>2 DEF IsExport, Runs
<1>. HIDE DEF w
<1>7. CallsTwo(<<q, x>>) /\ CallsTwo(<<w, x>>) /\ <<q, x>> \in Seq(Spawned) /\ <<w, x>> \in Seq(Spawned)
  BY <1>2, <1>3, <1>4, <1>5, <1>6 DEF CallsTwo
<1>. QED  BY <1>5, <1>7 DEF r, x, q, w

LEMMA SkippingIs ==
  ASSUME NEW stg, "commands" \in DOMAIN stg, stg.commands = <<Live(NewRun("S")), Export("S", 1)>>
  PROVE  Skipping(stg) = [stg EXCEPT !.commands = <<Skip(Live(NewRun("S"))), Export("S", 1)>>]
<1>. DEFINE q == Live(NewRun("S"))
            x == Export("S", 1)
            cs == <<q, x>>
            ds == [i \in DOMAIN cs |-> IF cs[i].do = "run" THEN Skip(cs[i]) ELSE cs[i]]
<1>1. q.do = "run" /\ x.do # "run"
  <2>1. q.do = "run"
    BY DEF Live, NewRun, Command
  <2>2. IsExport(x, "S", 1)
    BY TextsHave, ExportForm
  <2>. QED  BY <2>1, <2>2 DEF IsExport
<1>2. Skipping(stg) = [stg EXCEPT !.commands = ds]
  BY DEF Skipping
<1>. HIDE DEF q, x
<1>3. ds = <<Skip(q), x>>
  <2>. DEFINE w == Skip(q)
  <2>1. DOMAIN cs = {1, 2} /\ cs[1] = q /\ cs[2] = x
    OBVIOUS
  <2>2. ds = [i \in {1, 2} |-> IF i = 1 THEN w ELSE x]
    BY <1>1, <2>1
  <2>. HIDE DEF w, cs, ds
  <2>3. [i \in {1, 2} |-> IF i = 1 THEN w ELSE x] = <<w, x>>
    OBVIOUS
  <2>. QED  BY <2>2, <2>3 DEF w
<1>. QED  BY <1>2, <1>3 DEF q, x

(* A stage with tools is told by a few of its fields.                      *)
LEMMA ToolsProvide ==
  ASSUME NEW stg, stg.server = (IF Len(stg.tools) = 1 THEN "tool" ELSE "chain"),
         Len(stg.tools) \in 1 .. 4, \A i \in 1 .. Len(stg.tools) : stg.tools[i] # "",
         ToolsSucceed(stg) \/ ToolIsDenied(stg), stg.finish = "stop", CallsTwo(stg.commands)
  PROVE  Provides(stg)
<1>1. Tooling(stg) /\ stg.server # "none" /\ (stg.server = "tool" => Len(stg.tools) = 1)
  BY DEF Tooling
<1>. QED  BY <1>1 DEF Provides, CallsTwo

LEMMA ToolProvides ==
  ASSUME NEW stg, stg.server = "tool", Len(stg.tools) = 1, stg.tools[1] # "",
         ToolsSucceed(stg) \/ ToolIsDenied(stg), stg.finish = "stop", CallsTwo(stg.commands)
  PROVE  Provides(stg)
<1>. DEFINE n == Len(stg.tools)
<1>1. n = 1
  OBVIOUS
<1>. HIDE DEF n
<1>2. n \in 1 .. 4 /\ \A i \in 1 .. n : i = 1
  BY ONLY <1>1
<1>3. \A i \in 1 .. n : stg.tools[i] # ""
  BY <1>2, Zenon
<1>. QED  BY <1>2, <1>3, ToolsProvide DEF n

CallsWith(stg, tools) ==
  /\ DOMAIN stg = {"root", "server", "tools", "permission", "requests", "tool", "finish", "commands"}
  /\ stg.server = (IF Len(tools) = 1 THEN "tool" ELSE "chain")
  /\ stg.tools = tools /\ stg.requests = Len(tools) + 1 /\ stg.tool = "completed"
  /\ stg.permission = "allow" /\ stg.finish = "stop"
  /\ stg.commands = <<Live(NewRun("S")), Export("S", 1)>>

LEMMA CallingIs == \A root, tools : CallsWith(Calling(root, tools), tools)
<1>. SUFFICES ASSUME NEW root, NEW tools PROVE CallsWith(Calling(root, tools), tools)
  OBVIOUS
<1>. DEFINE n == Len(tools) + 1
            server == IF Len(tools) = 1 THEN "tool" ELSE "chain"
            cs == <<Live(NewRun("S")), Export("S", 1)>>
            stg == Calling(root, tools)
<1>1. stg = [Stage(root, cs) EXCEPT !.server = server, !.tools = tools, !.requests = n, !.tool = "completed"]
  BY DEF Calling
<1>. HIDE DEF n, server, cs, stg
<1>2. /\ DOMAIN stg = {"root", "server", "tools", "permission", "requests", "tool", "finish", "commands"}
      /\ stg.server = server /\ stg.tools = tools /\ stg.requests = n /\ stg.tool = "completed"
      /\ stg.permission = "allow" /\ stg.finish = "stop" /\ stg.commands = cs
  BY <1>1 DEF Stage
<1>. QED  BY <1>2 DEF n, server, cs, stg, CallsWith

LEMMA CallingSound ==
  ASSUME NEW root, NEW tools, Len(tools) \in 1 .. 4, \A i \in 1 .. Len(tools) : tools[i] # ""
  PROVE  Sound(Calling(root, tools))
<1>. DEFINE stg == Calling(root, tools)
<1>1. Issues(stg) /\ stg = Calling(root, tools)
  BY CallingIssues
<1>. HIDE DEF stg
<1>2. /\ stg.server = (IF Len(tools) = 1 THEN "tool" ELSE "chain")
      /\ stg.tools = tools /\ stg.requests = Len(tools) + 1 /\ stg.tool = "completed"
      /\ stg.permission = "allow" /\ stg.finish = "stop"
      /\ stg.commands = <<Live(NewRun("S")), Export("S", 1)>>
  <2>1. CallsWith(stg, tools)
    BY <1>1, CallingIs, Zenon
  <2>. QED  BY <2>1 DEF CallsWith
<1>3. CallsTwo(stg.commands) /\ Balanced(stg.commands)
  BY <1>2, CallsAre, CallingBalances
<1>4. stg.commands # <<>>
  BY <1>3, CallsTwoIs
<1>5. ToolsSucceed(stg)
  BY <1>2 DEF ToolsSucceed, Permits
<1>6. Provides(stg)
  BY <1>2, <1>3, <1>5, ToolsProvide
<1>. QED  BY <1>1, <1>3, <1>4, <1>6 DEF Sound, stg

(* The write tool, denied or asked for.                                    *)
LEMMA WritesSound ==
  ASSUME NEW root
  PROVE  /\ Sound(Denied(Calling(root, <<"write">>)))
         /\ Sound([Skipping(Calling(root, <<"write">>)) EXCEPT !.permission = "ask"])
         /\ Sound(Skipping(Denied(Calling(root, <<"write">>))))
<1>. DEFINE stg == Calling(root, <<"write">>)
            den == Denied(stg)
            ask == [Skipping(stg) EXCEPT !.permission = "ask"]
            ski == Skipping(den)
            cs == <<Live(NewRun("S")), Export("S", 1)>>
            ds == <<Skip(Live(NewRun("S"))), Export("S", 1)>>
<1>0. stg = Calling(root, <<"write">>)
  OBVIOUS
<1>1. Issues(stg) /\ Issues(den) /\ Issues(ask) /\ Issues(ski)
  BY CallingIssues, DeniedIssues, SkippingIssues, AskIssues
<1>2. Len(<<"write">>) = 1 /\ <<"write">>[1] = "write"
  OBVIOUS
<1>3. /\ DOMAIN stg = {"root", "server", "tools", "permission", "requests", "tool", "finish", "commands"}
      /\ stg.server = "tool" /\ stg.tools = <<"write">> /\ stg.requests = 2 /\ stg.tool = "completed"
      /\ stg.permission = "allow" /\ stg.finish = "stop" /\ stg.commands = cs
  <2>. HIDE DEF stg
  <2>1. PICK tools : tools = <<"write">> /\ Len(tools) = 1
    BY <1>2
  <2>2. stg = Calling(root, tools)
    BY <1>0, <2>1
  <2>3. CallsWith(stg, tools)
    BY <2>2, CallingIs, Zenon
  <2>. QED  BY <2>1, <2>3 DEF CallsWith
<1>. HIDE DEF stg, cs, ds
<1>4. /\ DOMAIN den = DOMAIN stg
      /\ den.server = "tool" /\ den.tools = <<"write">> /\ den.requests = 1 /\ den.tool = "error"
      /\ den.permission = "deny" /\ den.finish = "stop" /\ den.commands = cs
  BY <1>3 DEF Denied
<1>. HIDE DEF den
<1>5. ski = [den EXCEPT !.commands = ds] /\ ask = [[stg EXCEPT !.commands = ds] EXCEPT !.permission = "ask"]
  BY <1>3, <1>4, SkippingIs DEF cs, ds
<1>. HIDE DEF ski, ask
<1>6. /\ ski.server = "tool" /\ ski.tools = <<"write">> /\ ski.requests = 1 /\ ski.tool = "error"
      /\ ski.permission = "deny" /\ ski.finish = "stop" /\ ski.commands = ds
  BY <1>3, <1>4, <1>5
<1>7. /\ ask.server = "tool" /\ ask.tools = <<"write">> /\ ask.requests = 2 /\ ask.tool = "completed"
      /\ ask.permission = "ask" /\ ask.finish = "stop" /\ ask.commands = ds
  BY <1>3, <1>5
<1>8. /\ CallsTwo(cs) /\ CallsTwo(ds) /\ Balanced(cs) /\ Balanced(ds)
      /\ cs # <<>> /\ ds # <<>> /\ ds[1].skip
  <2>1. CallsTwo(cs) /\ CallsTwo(ds) /\ Balanced(cs) /\ Balanced(ds)
    BY CallsAre, CallingBalances DEF cs, ds
  <2>2. ds[1].skip
    BY CallsAre DEF ds
  <2>. QED  BY <2>1, <2>2, CallsTwoIs
<1>9. ToolIsDenied(den) /\ ToolIsDenied(ski)
  BY <1>2, <1>4, <1>6 DEF ToolIsDenied, Permits
<1>10. ToolsSucceed(ask)
  BY <1>2, <1>7, <1>8 DEF ToolsSucceed, Permits
<1>11. Provides(den)
  BY <1>2, <1>4, <1>8, <1>9, ToolProvides
<1>12. Provides(ski)
  BY <1>2, <1>6, <1>8, <1>9, ToolProvides
<1>13. Provides(ask)
  BY <1>2, <1>7, <1>8, <1>10, ToolProvides
<1>14. Sound(den)
  BY <1>1, <1>4, <1>8, <1>11 DEF Sound, den
<1>15. Sound(ski)
  BY <1>1, <1>6, <1>8, <1>12 DEF Sound, ski
<1>16. Sound(ask)
  BY <1>1, <1>7, <1>8, <1>13 DEF Sound, ask
<1>. QED  BY <1>14, <1>15, <1>16 DEF den, ski, ask, stg

LEMMA FailingSound == \A root : Sound(Failing(root))
<1>. SUFFICES ASSUME NEW root PROVE Sound(Failing(root))
  OBVIOUS
<1>1. Failing(root).commands # <<>>
  BY FailingProvides, CallsAre, CallsTwoIs
<1>. QED  BY <1>1, FailingIssues, FailingProvides, CallingBalances DEF Sound

Idle(c) == IsIdle(c) /\ ~c.home /\ ~c.live

LEMMA IdleSound ==
  ASSUME NEW root, NEW cs \in Seq(Spawned), cs # <<>>, \A i \in 1 .. Len(cs) : Idle(cs[i])
  PROVE  Sound(Stage(root, cs))
<1>1. Balanced(cs)
  BY IdleBalances DEF Idle
<1>2. Provides(Stage(root, cs)) /\ Stage(root, cs).commands = cs
  BY PlainProvides DEF Idle
<1>. QED  BY <1>1, <1>2, StageIssues DEF Sound

LEMMA PlainSound ==
  ASSUME NEW root, NEW stg, NEW cs, stg = Stage(root, cs), Issues(stg), Balanced(stg.commands),
         cs # <<>>, cs \in Seq(Spawned), \A i \in 1 .. Len(cs) : ~cs[i].live
  PROVE  Sound(stg)
<1>1. Provides(Stage(root, cs)) /\ Stage(root, cs).commands = cs
  BY PlainProvides
<1>. QED  BY <1>1 DEF Sound

LEMMA Dark ==
  /\ \A n \in Texts : /\ ~NewRun(n).live /\ ~Resume(n).live /\ ~Continue(n).live
                      /\ \A how \in {"session", "continue"} : ~Fork(how, n).live
                      /\ \A k \in Nat : ~Export(n, k).live
                      /\ ~ExportFork(n).live
  /\ Idle(Plain) /\ Idle(Refused)
<1>1. ASSUME NEW n \in Texts
      PROVE  /\ ~NewRun(n).live /\ ~Resume(n).live /\ ~Continue(n).live
             /\ \A how \in {"session", "continue"} : ~Fork(how, n).live
             /\ \A k \in Nat : ~Export(n, k).live
             /\ ~ExportFork(n).live
  <2>1. ~NewRun(n).live /\ ~Resume(n).live
    BY NewForm, ResumeForm
  <2>2. ~Continue(n).live
    BY DEF Continue, Command
  <2>3. ASSUME NEW how \in {"session", "continue"} PROVE ~Fork(how, n).live
    BY ForkForm
  <2>4. ASSUME NEW k \in Nat PROVE ~Export(n, k).live
    BY ExportForm
  <2>5. ~ExportFork(n).live
    BY ExportForkForm
  <2>. QED  BY <2>1, <2>2, <2>3, <2>4, <2>5
<1>2. Idle(Plain) /\ Idle(Refused)
  BY IdleForms DEF Idle
<1>. QED  BY <1>1, <1>2

(* No command of a sequence asks a server.                                 *)
DarkAll(cs) == cs \in Seq(Spawned) /\ cs # <<>> /\ \A i \in 1 .. Len(cs) : ~cs[i].live

LEMMA DarkOne == \A c \in Spawned : ~c.live => DarkAll(<<c>>)
BY DEF DarkAll

LEMMA DarkNext ==
  ASSUME NEW cs, DarkAll(cs), NEW c \in Spawned, ~c.live, NEW ds, ds = Append(cs, c)
  PROVE  DarkAll(ds)
<1>. DEFINE n == Len(cs)
<1>1. cs \in Seq(Spawned) /\ n \in Nat /\ \A i \in 1 .. n : ~cs[i].live
  BY DEF DarkAll
<1>2. /\ ds \in Seq(Spawned) /\ ds # <<>> /\ Len(ds) = n + 1
      /\ \A i \in 1 .. n : ds[i] = cs[i]
      /\ ds[n + 1] = c
  BY <1>1, AppendProperties
<1>. HIDE DEF n
<1>3. \A i \in 1 .. n + 1 : i \in 1 .. n \/ i = n + 1
  BY <1>1
<1>4. \A i \in 1 .. n + 1 : ~ds[i].live
  BY <1>1, <1>2, <1>3
<1>. QED  BY <1>2, <1>4 DEF DarkAll

LEMMA DarkSeries ==
  ASSUME NEW a \in Spawned, NEW b \in Spawned, NEW c \in Spawned, NEW d \in Spawned,
         ~a.live, ~b.live, ~c.live, ~d.live
  PROVE  /\ DarkAll(<<a>>) /\ DarkAll(<<a, b>>) /\ DarkAll(<<a, b, c>>) /\ DarkAll(<<a, b, c, d>>)
<1>1. DarkAll(<<a>>)
  BY DarkOne
<1>2. DarkAll(<<a, b>>)
  <2>1. <<a, b>> = Append(<<a>>, b)
    BY ONLY Appends
  <2>. QED  BY <1>1, <2>1, DarkNext, Zenon
<1>3. DarkAll(<<a, b, c>>)
  <2>1. <<a, b, c>> = Append(<<a, b>>, c)
    BY ONLY Appends
  <2>. QED  BY <1>2, <2>1, DarkNext, Zenon
<1>4. DarkAll(<<a, b, c, d>>)
  <2>1. <<a, b, c, d>> = Append(<<a, b, c>>, d)
    BY ONLY Appends
  <2>. QED  BY <1>3, <2>1, DarkNext, Zenon
<1>. QED  BY <1>1, <1>2, <1>3, <1>4

LEMMA DarkMore ==
  ASSUME NEW a \in Spawned, NEW b \in Spawned, NEW c \in Spawned, NEW d \in Spawned,
         NEW e \in Spawned, NEW f \in Spawned, NEW g \in Spawned, NEW h \in Spawned,
         ~a.live, ~b.live, ~c.live, ~d.live, ~e.live, ~f.live, ~g.live, ~h.live
  PROVE  DarkAll(<<a, b, c, d, e, f, g, h>>)
<1>1. DarkAll(<<a, b, c, d>>)
  BY DarkSeries, Zenon
<1>2. DarkAll(<<a, b, c, d, e>>)
  <2>1. <<a, b, c, d, e>> = Append(<<a, b, c, d>>, e)
    BY ONLY Appends
  <2>. QED  BY <1>1, <2>1, DarkNext, Zenon
<1>3. DarkAll(<<a, b, c, d, e, f>>)
  <2>1. <<a, b, c, d, e, f>> = Append(<<a, b, c, d, e>>, f)
    BY ONLY Appends
  <2>. QED  BY <1>2, <2>1, DarkNext, Zenon
<1>4. DarkAll(<<a, b, c, d, e, f, g>>)
  <2>1. <<a, b, c, d, e, f, g>> = Append(<<a, b, c, d, e, f>>, g)
    BY ONLY Appends
  <2>. QED  BY <1>3, <2>1, DarkNext, Zenon
<1>. HIDE DEF DarkAll
<1>5. <<a, b, c, d, e, f, g, h>> = Append(<<a, b, c, d, e, f, g>>, h)
  BY ONLY Appends
<1>. QED  BY <1>4, <1>5, DarkNext, Zenon

LEMMA DarkStage ==
  ASSUME NEW root, NEW cs, DarkAll(cs), Balanced(Stage(root, cs).commands)
  PROVE  Sound(Stage(root, cs))
<1>1. Issues(Stage(root, cs))
  BY StageIssues DEF DarkAll
<1>. QED  BY <1>1, PlainSound DEF DarkAll

-----------------------------------------------------------------------------
LEMMA QuietSound ==
  /\ \A n \in Nat \ {0} : Sound(Stage("package", Quiet(n)))
  /\ Sound(GeneratedHelp)
<1>1. ASSUME NEW n \in Nat \ {0} PROVE Sound(Stage("package", Quiet(n)))
  <2>1. Quiet(n) \in Seq(Spawned) /\ Len(Quiet(n)) = n /\ \A i \in 1 .. n : Quiet(n)[i] = Plain
    BY QuietIs DEF Quiet
  <2>2. Quiet(n) # <<>>
    BY <2>1
  <2>. QED  BY <2>1, <2>2, Dark, IdleSound
<1>2. Sound(GeneratedHelp)
  <2>. DEFINE q == Quiet(4)
              t == <<Refused, Plain>>
              cs == q \o t
  <2>1. q \in Seq(Spawned) /\ Len(q) = 4 /\ \A i \in 1 .. 4 : Idle(q[i])
    <3>1. \A i \in 1 .. 4 : q[i] = Plain
      BY DEF Quiet
    <3>. QED  BY <3>1, QuietIs, Dark DEF Quiet
  <2>2. t \in Seq(Spawned) /\ Len(t) = 2 /\ \A i \in 1 .. 2 : Idle(t[i])
    BY Forms, Dark
  <2>. HIDE DEF q, t
  <2>3. /\ cs \in Seq(Spawned) /\ Len(cs) = 6
        /\ \A i \in 1 .. 6 : cs[i] = IF i <= 4 THEN q[i] ELSE t[i - 4]
    <3>1. /\ cs \in Seq(Spawned) /\ Len(cs) = Len(q) + Len(t)
          /\ \A i \in 1 .. Len(q) + Len(t) : cs[i] = IF i <= Len(q) THEN q[i] ELSE t[i - Len(q)]
      BY <2>1, <2>2, ConcatProperties
    <3>2. Len(q) + Len(t) = 6
      BY <2>1, <2>2
    <3>. HIDE DEF cs
    <3>. QED  BY <2>1, <3>1, <3>2
  <2>. HIDE DEF cs
  <2>4. \A i \in 1 .. 6 : (i <= 4 => i \in 1 .. 4) /\ (~(i <= 4) => i - 4 \in 1 .. 2)
    OBVIOUS
  <2>5. \A i \in 1 .. 6 : Idle(cs[i])
    BY <2>1, <2>2, <2>3, <2>4
  <2>6. cs # <<>>
    <3>1. Len(<<>>) = 0
      OBVIOUS
    <3>2. Len(cs) = 6
      BY <2>3
    <3>. QED  BY ONLY <3>1, <3>2
  <2>. QED  BY <2>3, <2>5, <2>6, IdleSound DEF GeneratedHelp, cs, q, t
<1>. QED  BY <1>1, <1>2

LEMMA RefusedSound == Sound(GeneratedUnresolved) /\ Sound(GeneratedMissing) /\ Sound(GeneratedRemote)
<1>1. Refused \in Spawned /\ Idle(Refused) /\ Live(Refused) \in Spawned /\ IsIdle(Live(Refused)) /\ ~Live(Refused).home
  BY Forms, Dark, IdleForms
<1>. DEFINE r == Refused
            w == Live(Refused)
<1>. HIDE DEF r, w
<1>2. r \in Spawned /\ Idle(r) /\ w \in Spawned /\ IsIdle(w) /\ ~w.home
  BY <1>1 DEF r, w
<1>3. /\ <<r>> \in Seq(Spawned) /\ <<r>> # <<>> /\ \A i \in 1 .. Len(<<r>>) : Idle(<<r>>[i])
      /\ <<r, r, r>> \in Seq(Spawned) /\ <<r, r, r>> # <<>> /\ \A i \in 1 .. Len(<<r, r, r>>) : Idle(<<r, r, r>>[i])
  BY <1>2
<1>4. Sound(Stage("cli", <<r, r, r>>)) /\ Sound(Stage("none", <<r>>))
  BY <1>3, IdleSound
<1>5. Sound(GeneratedRemote)
  <2>. DEFINE cs == <<w, w>>
  <2>1. /\ cs \in Seq(Spawned) /\ cs # <<>>
        /\ \A i \in 1 .. Len(cs) : IsIdle(cs[i]) /\ ~cs[i].home
    BY <1>2
  <2>. HIDE DEF cs
  <2>2. Balanced(cs) /\ Issues(Against("config", Stage("cli", cs)))
    BY <2>1, IdleBalances, StageIssues, AgainstIssues
  <2>3. Provides(Against("config", Stage("cli", cs))) /\ Against("config", Stage("cli", cs)).commands = cs
    BY <2>1, TextProvides
  <2>4. Sound(Against("config", Stage("cli", cs)))
    BY <2>1, <2>2, <2>3 DEF Sound
  <2>. QED  BY <2>4 DEF GeneratedRemote, cs, w
<1>. QED  BY <1>4, <1>5 DEF GeneratedUnresolved, GeneratedMissing, r

LEMMA DefaultSound == Sound(InstalledDefault) /\ Sound(GeneratedDefault) /\ Sound(GeneratedFiles)
<1>. DEFINE t == NewRun("text")
            s == NewRun("json")
            x == Export("json", 1)
            a == Resume("json")
            c == Continue("")
            f == NewRun("file")
            o == NewRun("mockText")
            m == NewRun("mock")
            y == Export("mock", 1)
            r == Refused
<1>1. /\ t \in Spawned /\ s \in Spawned /\ x \in Spawned /\ a \in Spawned /\ c \in Spawned
      /\ f \in Spawned /\ o \in Spawned /\ m \in Spawned /\ y \in Spawned /\ r \in Spawned
  <2>1. {"text", "json", "file", "mock", "mockText", ""} \subseteq Texts
    BY NamesAre, TextsHave
  <2>. QED  BY <2>1, Forms
<1>2. /\ ~t.live /\ ~s.live /\ ~x.live /\ ~a.live /\ ~c.live
      /\ ~f.live /\ ~o.live /\ ~m.live /\ ~y.live /\ ~r.live
  <2>1. {"text", "json", "file", "mock", "mockText", ""} \subseteq Texts
    BY NamesAre, TextsHave
  <2>. QED  BY <2>1, Dark DEF Idle
<1>3. /\ InstalledDefault = Stage("package", <<t, s, x, a, c, f, m, y>>)
      /\ GeneratedDefault = Stage("default", <<t, s, x, a, c, o, m, r, r>>)
      /\ GeneratedFiles = Stage("cli", <<f, r>>)
  BY DEF InstalledDefault, GeneratedDefault, GeneratedFiles
<1>4. Adds(f, "file") /\ IsIdle(r) /\ ~r.home
  BY NamesAre, Commands, IdleForms
<1>. HIDE DEF t, s, x, a, c, f, o, m, y, r
<1>5. DarkAll(<<t, s, x, a, c, f, m, y>>) /\ DarkAll(<<t, s, x, a, c, o, m, r>>) /\ DarkAll(<<f, r>>)
  BY <1>1, <1>2, DarkSeries, DarkMore, Zenon
<1>6. DarkAll(<<t, s, x, a, c, o, m, r, r>>)
  <2>1. <<t, s, x, a, c, o, m, r, r>> = Append(<<t, s, x, a, c, o, m, r>>, r)
    BY ONLY Appends9
  <2>. QED  BY <1>1, <1>2, <1>5, <2>1, DarkNext, Zenon
<1>7. Balanced(<<f, r>>)
  <2>1. "file" \in Name
    BY NamesAre
  <2>2. PICK n \in Name : Adds(f, n)
    BY <1>4, <2>1
  <2>3. Stands(<<f>>, 1, n, "", {n}, 0)
    BY <2>2, Series1
  <2>4. <<f, r>> = Append(<<f>>, r)
    BY ONLY Appends
  <2>5. Stands(<<f, r>>, 1, n, "", {n}, 0)
    BY <1>4, <2>3, <2>4, StandsIdle, Zenon
  <2>. QED  BY <2>5, StandsBalances
<1>8. Stage("cli", <<f, r>>).commands = <<f, r>>
  BY DEF Stage
<1>9. Sound(InstalledDefault)
  BY <1>3, <1>5, DefaultBalances, DarkStage, Zenon
<1>10. Sound(GeneratedDefault)
  BY <1>3, <1>6, DefaultBalances, DarkStage, Zenon
<1>11. Sound(GeneratedFiles)
  BY <1>3, <1>5, <1>7, <1>8, DarkStage, Zenon
<1>. QED  BY <1>9, <1>10, <1>11

LEMMA PersistedSound ==
  /\ Sound(InstalledPersisted) /\ Sound(GeneratedPersisted)
  /\ Sound(InstalledMockPersisted) /\ Sound(GeneratedMockPersisted)
<1>. DEFINE s == NewRun("S")
            e == Export("S", 1)
            f == NewRun("file")
            x == Export("file", 1)
            a == Resume("S")
            g == Export("S", 2)
            c == Continue("S")
            h == Export("S", 3)
            k == Fork("session", "S")
            o == ExportFork("S")
            p == [Export("S", 2) EXCEPT !.last = FALSE]
<1>1. /\ s \in Spawned /\ e \in Spawned /\ f \in Spawned /\ x \in Spawned /\ a \in Spawned
      /\ g \in Spawned /\ c \in Spawned /\ h \in Spawned /\ k \in Spawned /\ o \in Spawned
  <2>1. {"S", "file", "session"} \subseteq Texts
    BY NamesAre, TextsHave
  <2>2. 1 \in Nat /\ 2 \in Nat /\ 3 \in Nat
    OBVIOUS
  <2>. QED  BY <2>1, <2>2, Forms
<1>2. /\ ~s.live /\ ~e.live /\ ~f.live /\ ~x.live /\ ~a.live
      /\ ~g.live /\ ~c.live /\ ~h.live /\ ~k.live /\ ~o.live
  <2>1. {"S", "file"} \subseteq Texts
    BY NamesAre, TextsHave
  <2>2. 1 \in Nat /\ 2 \in Nat /\ 3 \in Nat /\ "session" \in {"session", "continue"}
    OBVIOUS
  <2>. QED  BY <2>1, <2>2, Dark
<1>3. p \in Spawned /\ ~p.live
  <2>. HIDE DEF g
  <2>1. p = [g EXCEPT !.last = FALSE]
    BY DEF g
  <2>. HIDE DEF p
  <2>. QED  BY <1>1, <1>2, <2>1 DEF Spawned, CommandOf
<1>4. /\ InstalledPersisted = Stage("package", <<s, e, f, x, a, g, c, h, k, o>>)
      /\ GeneratedPersisted = Stage("cli", <<s, e, f, x, a, g, k, o>>)
      /\ InstalledMockPersisted = Stage("package", <<s, e, a, g>>)
      /\ GeneratedMockPersisted = Stage("cli", <<s, e, a, p>>)
  BY DEF InstalledPersisted, GeneratedPersisted, InstalledMockPersisted, GeneratedMockPersisted
<1>. HIDE DEF s, e, f, x, a, g, c, h, k, o, p
<1>5. DarkAll(<<s, e, f, x, a, g, c, h>>) /\ DarkAll(<<s, e, f, x, a, g, k, o>>)
  BY <1>1, <1>2, DarkMore, Zenon
<1>6. DarkAll(<<s, e, a, g>>) /\ DarkAll(<<s, e, a, p>>)
  BY <1>1, <1>2, <1>3, DarkSeries, Zenon
<1>7. DarkAll(<<s, e, f, x, a, g, c, h, k, o>>)
  <2>1. <<s, e, f, x, a, g, c, h, k, o>> = Append(<<s, e, f, x, a, g, c, h, k>>, o)
    OBVIOUS
  <2>2. <<s, e, f, x, a, g, c, h, k>> = Append(<<s, e, f, x, a, g, c, h>>, k)
    BY ONLY Appends9
  <2>. QED  BY <1>1, <1>2, <1>5, <2>1, <2>2, DarkNext, Zenon
<1>8. Sound(InstalledPersisted)
  BY <1>4, <1>7, PersistedBalances, DarkStage, Zenon
<1>9. Sound(GeneratedPersisted)
  BY <1>4, <1>5, PersistedBalances, DarkStage, Zenon
<1>10. Sound(InstalledMockPersisted) /\ Sound(GeneratedMockPersisted)
  BY <1>4, <1>6, PersistedBalances, DarkStage, Zenon
<1>. QED  BY <1>8, <1>9, <1>10

LEMMA SomeAre == \A cs : Len(cs) # 0 => cs # <<>>
<1>1. Len(<<>>) = 0
  OBVIOUS
<1>. QED  BY <1>1

LEMMA LiveSound == Sound(InstalledLive) /\ Sound(GeneratedLive)
<1>1. PICK cs : InstalledLive = Against("text", Stage("package", cs)) /\ cs = InstalledLive.commands
  BY DEF InstalledLive, Against, Stage
<1>2. PICK ds : GeneratedLive = Against("text", Stage("cli", ds)) /\ ds = GeneratedLive.commands
  BY DEF GeneratedLive, Against, Stage
<1>3. Issues(InstalledLive)
  <2>1. InstalledLive = PackageSmoke[3]
    BY DEF PackageSmoke
  <2>2. 3 \in 1 .. 16
    OBVIOUS
  <2>. QED  BY <2>1, <2>2, PackageIssues, Zenon
<1>4. Issues(GeneratedLive)
  <2>1. GeneratedLive = CliSmoke[7]
    BY DEF CliSmoke
  <2>2. 7 \in 1 .. 19
    OBVIOUS
  <2>. QED  BY <2>1, <2>2, CliIssues, Zenon
<1>5. cs \in Seq(Spawned) /\ ds \in Seq(Spawned)
  BY <1>1, <1>2, <1>3, <1>4 DEF Issues
<1>6. Provides(InstalledLive) /\ Provides(GeneratedLive)
  <2>1. "text" \in {"text", "config"}
    OBVIOUS
  <2>. QED  BY <1>1, <1>2, <1>5, <2>1, TextProvides, Zenon
<1>7. InstalledLive.commands # <<>> /\ GeneratedLive.commands # <<>>
  <2>2. GeneratedLive.commands # <<>>
    <3>1. Len(GeneratedLive.commands) = 9
      BY DEF GeneratedLive, Against, Stage
    <3>2. Len(GeneratedLive.commands) # 0
      BY <3>1
    <3>. QED  BY <3>2, SomeAre, Zenon
  <2>3. InstalledLive.commands # <<>>
    <3>1. InstalledLive.commands = InstalledLiveRuns \o InstalledConfiguredRuns
      BY DEF InstalledLive, Against, Stage
    <3>2. {"S", "configured", "agent", "continue"} \subseteq Texts
      BY DEF Texts, Names
    <3>3. InstalledLiveRuns \in Seq(Spawned) /\ Len(InstalledLiveRuns) = 8
      BY <3>2, Forms DEF InstalledLiveRuns
    <3>4. InstalledConfiguredRuns \in Seq(Spawned) /\ Len(InstalledConfiguredRuns) = 2
      BY <3>2, Forms DEF InstalledConfiguredRuns
    <3>5. Len(InstalledLiveRuns \o InstalledConfiguredRuns) = Len(InstalledLiveRuns) + Len(InstalledConfiguredRuns)
      BY <3>3, <3>4, ConcatProperties
    <3>6. Len(InstalledLive.commands) # 0
      BY <3>1, <3>3, <3>4, <3>5
    <3>. QED  BY <3>6, SomeAre, Zenon
  <2>. QED  BY <2>2, <2>3
<1>. QED  BY <1>3, <1>4, <1>6, <1>7, LiveBalances DEF Sound

(* Every stage but the last of the package's, which starts the server.     *)
LEMMA StagesSound ==
  /\ \A k \in 1 .. 16 : Sound(PackageSmoke[k])
  /\ \A k \in 1 .. 19 : Sound(CliSmoke[k])
<1>1. Sound(InstalledPackage) /\ Sound(InstalledTui)
  BY QuietSound DEF InstalledPackage, InstalledTui
<1>2. /\ Len(<<"read">>) = 1 /\ Len(<<"write">>) = 1 /\ Len(<<"edit">>) = 1
      /\ Len(<<"apply_patch">>) = 1 /\ Len(<<"bash">>) = 1 /\ Len(<<"write", "read">>) = 2
  OBVIOUS
<1>3. ASSUME NEW root
      PROVE  /\ Sound(Calling(root, <<"read">>)) /\ Sound(Calling(root, <<"write">>))
             /\ Sound(Calling(root, <<"edit">>)) /\ Sound(Calling(root, <<"apply_patch">>))
             /\ Sound(Calling(root, <<"bash">>)) /\ Sound(Calling(root, <<"write", "read">>))
  <2>1. ASSUME NEW t, t # "" PROVE Sound(Calling(root, <<t>>))
    <3>1. Len(<<t>>) = 1 /\ <<t>>[1] = t
      OBVIOUS
    <3>2. 1 \in 1 .. 4 /\ \A i \in 1 .. 1 : i = 1
      OBVIOUS
    <3>3. Len(<<t>>) \in 1 .. 4 /\ \A i \in 1 .. Len(<<t>>) : <<t>>[i] # ""
      BY <2>1, <3>1, <3>2, Zenon
    <3>. QED  BY <3>3, CallingSound
  <2>2. ASSUME NEW t, NEW u, t # "", u # "" PROVE Sound(Calling(root, <<t, u>>))
    <3>1. Len(<<t, u>>) = 2 /\ <<t, u>>[1] = t /\ <<t, u>>[2] = u
      OBVIOUS
    <3>2. 2 \in 1 .. 4 /\ \A i \in 1 .. 2 : i = 1 \/ i = 2
      OBVIOUS
    <3>3. Len(<<t, u>>) \in 1 .. 4 /\ \A i \in 1 .. Len(<<t, u>>) : <<t, u>>[i] # ""
      BY <2>2, <3>1, <3>2, Zenon
    <3>. QED  BY <3>3, CallingSound
  <2>3. "read" # "" /\ "write" # "" /\ "edit" # "" /\ "apply_patch" # "" /\ "bash" # ""
    OBVIOUS
  <2>. QED  BY <2>1, <2>2, <2>3
<1>4. /\ Sound(InstalledRead) /\ Sound(InstalledWrite) /\ Sound(InstalledEdit)
      /\ Sound(InstalledPatch) /\ Sound(InstalledBash) /\ Sound(InstalledChain)
      /\ Sound(GeneratedRead) /\ Sound(GeneratedWrite) /\ Sound(GeneratedEdit)
      /\ Sound(GeneratedPatch) /\ Sound(GeneratedBash) /\ Sound(GeneratedChain)
  BY <1>3 DEF InstalledRead, InstalledWrite, InstalledEdit, InstalledPatch, InstalledBash,
              InstalledChain, GeneratedRead, GeneratedWrite, GeneratedEdit, GeneratedPatch,
              GeneratedBash, GeneratedChain
<1>5. /\ Sound(InstalledDenied) /\ Sound(InstalledSkip) /\ Sound(InstalledSkipDenied)
      /\ Sound(GeneratedDenied) /\ Sound(GeneratedSkip) /\ Sound(GeneratedSkipDenied)
  BY WritesSound DEF InstalledDenied, InstalledSkip, InstalledSkipDenied,
                     GeneratedDenied, GeneratedSkip, GeneratedSkipDenied
<1>6. Sound(InstalledFailure) /\ Sound(GeneratedFailure)
  BY FailingSound DEF InstalledFailure, GeneratedFailure
<1>7. \A k \in 1 .. 16 : Sound(PackageSmoke[k])
  BY <1>1, <1>4, <1>5, <1>6, LiveSound, DefaultSound, PersistedSound DEF PackageSmoke
<1>8. \A k \in 1 .. 19 : Sound(CliSmoke[k])
  BY <1>4, <1>5, <1>6, LiveSound, DefaultSound, PersistedSound, QuietSound, RefusedSound DEF CliSmoke
<1>. QED  BY <1>7, <1>8

(* What the installed server is asked.                                     *)
LEMMA ServeIs ==
  LET cs == InstalledServe.commands IN
  /\ Len(cs) = 17
  /\ cs[1].do = "serve" /\ cs[4].do = "fetch" /\ cs[17].do = "fetch"
  /\ \A i \in 2 .. 17 : cs[i].do \in {"fetch", "stream"}
  /\ \A i \in 1 .. 17 : /\ cs[i].as = "session" <=> i = 4
                        /\ cs[i].as = "delete" <=> i = 17
                        /\ ~cs[i].home
<1>. DEFINE one == <<Start, Fetch("read"), Stream, Fetch("session"), Stream, Fetch("read"), Fetch("read"),
                     Fetch("read"), Fetch("read"), Fetch("read")>>
            cs == one \o InstalledPty
            r == Fetch("read")
            s == Fetch("session")
            p == Fetch("pty")
            d == Fetch("delete")
            t == Stream
            b == Start
<1>1. /\ r.do = "fetch" /\ s.do = "fetch" /\ p.do = "fetch" /\ d.do = "fetch" /\ t.do = "stream" /\ b.do = "serve"
      /\ r.as = "read" /\ s.as = "session" /\ p.as = "pty" /\ d.as = "delete" /\ t.as = "" /\ b.as = ""
      /\ ~r.home /\ ~s.home /\ ~p.home /\ ~d.home /\ ~t.home /\ ~b.home
  BY DEF Fetch, Start, Stream, Command
<1>2. InstalledServe.commands = cs
  BY DEF InstalledServe, Stage
<1>3. one = <<b, r, t, s, t, r, r, r, r, r>> /\ InstalledPty = <<p, r, r, t, t, t, d>>
  BY DEF InstalledPty
<1>4. one \in Seq(Requested) /\ InstalledPty \in Seq(Requested)
  <2>1. {"pty", "read", "delete", "session"} \subseteq Texts
    BY DEF Texts, Names
  <2>. QED  BY <2>1, Requests DEF InstalledPty
<1>. HIDE DEF r, s, p, d, t, b
<1>5. /\ Len(one) = 10 /\ Len(InstalledPty) = 7
      /\ one[1] = b /\ one[2] = r /\ one[3] = t /\ one[4] = s /\ one[5] = t
      /\ \A i \in 6 .. 10 : one[i] = r
      /\ InstalledPty[1] = p /\ InstalledPty[2] = r /\ InstalledPty[3] = r
      /\ InstalledPty[4] = t /\ InstalledPty[5] = t /\ InstalledPty[6] = t /\ InstalledPty[7] = d
  BY <1>3
<1>. HIDE DEF one
<1>6. Len(cs) = 17 /\ \A i \in 1 .. 17 : cs[i] = IF i <= 10 THEN one[i] ELSE InstalledPty[i - 10]
  <2>1. /\ Len(cs) = Len(one) + Len(InstalledPty)
        /\ \A i \in 1 .. Len(one) + Len(InstalledPty) :
             cs[i] = IF i <= Len(one) THEN one[i] ELSE InstalledPty[i - Len(one)]
    BY <1>4, ConcatProperties
  <2>2. Len(one) + Len(InstalledPty) = 17
    BY <1>5
  <2>. HIDE DEF cs
  <2>. QED  BY <1>5, <2>1, <2>2
<1>. HIDE DEF cs
<1>7. /\ cs[1] = b /\ cs[2] = r /\ cs[3] = t /\ cs[4] = s /\ cs[5] = t
      /\ \A i \in 6 .. 10 : cs[i] = r
      /\ cs[11] = p /\ cs[12] = r /\ cs[13] = r /\ cs[14] = t /\ cs[15] = t /\ cs[16] = t /\ cs[17] = d
  BY <1>5, <1>6
<1>8. \A i \in 1 .. 17 : \/ i = 1 \/ i = 2 \/ i = 3 \/ i = 4 \/ i = 5 \/ i \in 6 .. 10
                         \/ i = 11 \/ i = 12 \/ i = 13 \/ i = 14 \/ i = 15 \/ i = 16 \/ i = 17
  OBVIOUS
<1>9. \A i \in 2 .. 17 : i \in 1 .. 17 /\ i # 1
  OBVIOUS
<1>10. \A i \in 2 .. 17 : cs[i].do \in {"fetch", "stream"}
  <2>1. \A i \in 1 .. 17 : i = 1 \/ cs[i] = r \/ cs[i] = t \/ cs[i] = s \/ cs[i] = p \/ cs[i] = d
    BY <1>7, <1>8
  <2>. QED  BY <1>1, <1>9, <2>1
<1>11. \A i \in 1 .. 17 : cs[i].as = "session" <=> i = 4
  BY <1>1, <1>7, <1>8
<1>12. \A i \in 1 .. 17 : cs[i].as = "delete" <=> i = 17
  BY <1>1, <1>7, <1>8
<1>13. \A i \in 1 .. 17 : ~cs[i].home
  BY <1>1, <1>7, <1>8
<1>. QED  BY <1>1, <1>2, <1>6, <1>7, <1>10, <1>11, <1>12, <1>13, ZenonT(60)

-----------------------------------------------------------------------------
(* Where the script is in its book.                                        *)

LEMMA SpawnedNotRequested ==
  ASSUME NEW cs \in Seq(Spawned), cs # <<>>
  PROVE  cs \notin Seq(Requested)
<1>1. Len(cs) \in Nat /\ Len(cs) # 0
  OBVIOUS
<1>2. 1 \in 1 .. Len(cs)
  BY <1>1
<1>3. cs[1] \in Spawned
  BY <1>2
<1>4. cs[1] \notin Requested
  BY <1>3, TextsHave DEF Spawned, Requested, CommandOf
<1>. QED  BY <1>2, <1>4

(* The script is at a stage with children, or at the server's.             *)
LEMMA WhereIs ==
  ASSUME SmokeInv
  PROVE  IF Serving THEN This = InstalledServe /\ stage = Len(Stages) ELSE Sound(This)
<1>1. \A stg : Sound(stg) => stg.commands \notin Seq(Requested)
  BY SpawnedNotRequested DEF Sound, Issues
<1>2. CASE script = "package"
  <2>1. Stages = PackageSmoke
    BY <1>2 DEF Stages, Scripts
  <2>2. Len(PackageSmoke) = 17 /\ PackageSmoke[17] = InstalledServe
    BY DEF PackageSmoke
  <2>3. stage \in 1 .. 17 /\ This = PackageSmoke[stage]
    BY <2>1, <2>2 DEF SmokeInv, Placed, This
  <2>4. CASE stage = 17
    BY <2>1, <2>2, <2>3, <2>4, ServeRequests DEF Serving
  <2>5. CASE stage # 17
    <3>1. stage \in 1 .. 16
      BY <2>3, <2>5
    <3>2. Sound(This)
      BY <2>3, <3>1, StagesSound
    <3>. QED  BY <1>1, <3>2 DEF Serving
  <2>. QED  BY <2>4, <2>5
<1>3. CASE script = "cli"
  <2>1. Stages = CliSmoke /\ Len(CliSmoke) = 19
    BY <1>3 DEF Stages, Scripts, CliSmoke
  <2>2. stage \in 1 .. 19 /\ This = CliSmoke[stage]
    BY <2>1 DEF SmokeInv, Placed, This
  <2>3. Sound(This)
    BY <2>2, StagesSound
  <2>. QED  BY <1>1, <2>3 DEF Serving
<1>. QED  BY <1>2, <1>3 DEF SmokeInv, Placed, Scripts

LEMMA BookIs ==
  ASSUME NEW cs, Balanced(cs)
  PROVE  Balances(cs, BookOf(cs))
BY DEF Balanced, BookOf

(* The ledgers before the commands of a stage.                             *)
LEMMA BookAt ==
  ASSUME NEW cs, cs \in Seq(Spawned), Balanced(cs)
  PROVE  /\ Len(cs) \in Nat
         /\ BookOf(cs)[1] = Blank
         /\ \A i \in 1 .. Len(cs) :
              /\ BookOf(cs)[i] \in Ledger /\ cs[i] \in Spawned /\ Fits(BookOf(cs)[i], cs[i])
              /\ BookOf(cs)[i + 1] = IF i < Len(cs) /\ cs[i + 1].home THEN Blank ELSE Entered(BookOf(cs)[i], cs[i])
<1>. DEFINE n == Len(cs)
            book == BookOf(cs)
<1>1. Balances(cs, book)
  BY BookIs
<1>2. n \in Nat /\ \A i \in 1 .. n : cs[i] \in Spawned
  OBVIOUS
<1>. HIDE DEF book
<1>3. /\ book \in [1 .. n + 1 -> Ledger]
      /\ book[1] = Blank
      /\ \A i \in 1 .. n :
           /\ Fits(book[i], cs[i])
           /\ book[i + 1] = IF i < n /\ cs[i + 1].home THEN Blank ELSE Entered(book[i], cs[i])
  BY <1>1 DEF Balances
<1>. HIDE DEF n
<1>4. \A i \in 1 .. n : i \in 1 .. n + 1
  BY <1>2
<1>5. \A i \in 1 .. n : book[i] \in Ledger
  BY <1>3, <1>4
<1>. QED  BY <1>2, <1>3, <1>5 DEF n, book

LEMMA HereIs ==
  ASSUME SmokeInv, ~Serving
  PROVE  /\ Sound(This) /\ Len(This.commands) \in Nat
         /\ step = 1 => Here = Blank
         /\ step <= Len(This.commands) =>
              /\ Here \in Ledger /\ Now \in Spawned /\ Fits(Here, Now)
<1>1. Sound(This)
  BY WhereIs
<1>2. step \in Nat \ {0}
  BY DEF SmokeInv, Placed
<1>. DEFINE cs == This.commands
<1>3. cs \in Seq(Spawned) /\ Balanced(cs)
  BY <1>1 DEF Sound, Issues
<1>. HIDE DEF cs
<1>4. /\ Len(cs) \in Nat
      /\ BookOf(cs)[1] = Blank
      /\ \A i \in 1 .. Len(cs) : BookOf(cs)[i] \in Ledger /\ cs[i] \in Spawned /\ Fits(BookOf(cs)[i], cs[i])
  BY <1>3, BookAt
<1>5. Here = BookOf(cs)[step] /\ Now = cs[step]
  BY DEF Here, Now, cs
<1>6. step <= Len(cs) => step \in 1 .. Len(cs)
  BY <1>2, <1>4
<1>. QED  BY <1>1, <1>4, <1>5, <1>6 DEF cs

LEMMA HereStays ==
  ASSUME UNCHANGED place
  PROVE  /\ This' = This /\ Now' = Now /\ Here' = Here /\ Stages' = Stages
         /\ Serving' = Serving
BY DEF place, This, Now, Here, Stages, Serving

LEMMA HereNext ==
  ASSUME SmokeInv, ~Serving, step <= Len(This.commands), UNCHANGED <<script, stage>>, step' = step + 1
  PROVE  /\ This' = This /\ step' # 1 /\ step' <= Len(This.commands) + 1 /\ Serving' = Serving
         /\ Here' = IF step < Len(This.commands) /\ This.commands[step + 1].home THEN Blank ELSE Entered(Here, Now)
<1>1. Sound(This)
  BY WhereIs
<1>2. step \in Nat \ {0}
  BY DEF SmokeInv, Placed
<1>3. This' = This /\ Serving' = Serving
  BY DEF This, Stages, Serving
<1>. DEFINE cs == This.commands
<1>4. cs \in Seq(Spawned) /\ Balanced(cs)
  BY <1>1 DEF Sound, Issues
<1>5. Here = BookOf(cs)[step] /\ Now = cs[step] /\ Here' = BookOf(cs)[step + 1]
  BY <1>3 DEF Here, Now
<1>. HIDE DEF cs
<1>6. /\ Len(cs) \in Nat
      /\ \A i \in 1 .. Len(cs) :
           BookOf(cs)[i + 1] = IF i < Len(cs) /\ cs[i + 1].home THEN Blank ELSE Entered(BookOf(cs)[i], cs[i])
  BY <1>4, BookAt
<1>7. step \in 1 .. Len(cs)
  BY <1>2, <1>6 DEF cs
<1>8. BookOf(cs)[step + 1] = IF step < Len(cs) /\ cs[step + 1].home THEN Blank ELSE Entered(BookOf(cs)[step], cs[step])
  BY <1>6, <1>7
<1>9. step' # 1 /\ step' <= Len(cs) + 1
  BY <1>6, <1>7
<1>. QED  BY <1>3, <1>5, <1>8, <1>9 DEF cs

(* A book, when nothing it is about changes.                               *)
LEMMA RowsStay ==
  ASSUME NEW l, Rows(l, names), UNCHANGED <<db, names>>
  PROVE  Rows(l, names)'
<1>1. Stored' = Stored /\ names' = names
  BY DEF Stored
<1>2. \A s : Turns(s)' = Turns(s)
  BY DEF Turns
<1>3. \A n \in Known(l) : Entry(l, names, n)'
  BY <1>2 DEF Rows, Entry
<1>. QED  BY <1>1, <1>3 DEF Rows

LEMMA BookStays ==
  ASSUME NEW l, Book(l, names), UNCHANGED <<sessions, names>>
  PROVE  Book(l, names)'
<1>1. UNCHANGED <<db, cli, clock>>
  BY DEF sessions, vars
<1>2. Finished(l)'
  BY <1>1 DEF Book, Finished, Taken
<1>. QED  BY <1>1, <1>2, RowsStay DEF Book

LEMMA BookMoves ==
  ASSUME NEW l, NEW om, Book(l, om), UNCHANGED sessions, om = names'
  PROVE  Book(l, names)'
<1>1. UNCHANGED <<db, cli, clock>>
  BY DEF sessions, vars
<1>2. Finished(l)'
  BY <1>1 DEF Book, Finished, Taken
<1>3. Stored' = Stored
  BY <1>1 DEF Stored
<1>4. \A s : Turns(s)' = Turns(s)
  BY <1>1 DEF Turns
<1>5. \A n \in Known(l) : Entry(l, names, n)'
  BY <1>1, <1>4 DEF Book, Rows, Entry
<1>6. Rows(l, names)'
  BY <1>1, <1>3, <1>5 DEF Book, Rows
<1>. QED  BY <1>2, <1>6 DEF Book

LEMMA InvStays == IInv /\ UNCHANGED sessions => IInv'
BY StepInv DEF sessions

LEMMA NoneBefore == 1 .. 0 = {}
OBVIOUS

LEMMA HomeIsNew ==
  ASSUME NewHome, NEW l, l = Blank, names' \in [Names -> Ids \cup {NoSession}], names'[""] = NoSession
  PROVE  IInv' /\ Book(l, names)'
<1>1. IInv'
  <2>1. TypeOK'
    BY DEF NewHome, TypeOK, Stored, Waiting, CommandState, Selection
  <2>2. (Kinds /\ Unshared /\ Written /\ TurnsKept)'
    BY DEF NewHome, Kinds, Unshared, Written, TurnsKept, Stored, Waiting
  <2>. QED  BY <2>1, <2>2 DEF IInv
<1>2. Known(l) = {} /\ l.runs = 0
  BY BlankIs DEF Shape
<1>3. Rows(l, names)'
  BY <1>2 DEF Rows, NewHome, Stored
<1>4. Finished(l)'
  <2>1. {p \in Clients : cli'[p].phase # "waiting"} = {}
    BY DEF NewHome, Waiting
  <2>2. 1 .. 0 = {}
    BY NoneBefore
  <2>3. Taken(l.runs)'
    BY <1>2, <2>1, <2>2 DEF Taken
  <2>4. 1 .. l.runs = {} /\ ~(l.runs > 0)
    <3>1. l.runs = 0
      BY <1>2
    <3>2. 1 .. l.runs = {}
      BY <2>2, <3>1, Zenon
    <3>3. ~(l.runs > 0)
      BY ONLY <3>1
    <3>. QED  BY <3>2, <3>3
  <2>5. \A p \in 1 .. l.runs : FALSE
    BY <2>4
  <2>. QED  BY <2>3, <2>4, <2>5 DEF Finished
<1>. QED  BY <1>1, <1>3, <1>4 DEF Book

LEMMA ToRows ==
  ASSUME NEW m, Rows(m, names)', m = Here' PROVE Rows(Here, names)'
BY DEF Rows, Entry

LEMMA ToFinished ==
  ASSUME NEW m, Finished(m)', m = Here' PROVE Finished(Here)'
BY DEF Finished, Taken

LEMMA ToBook ==
  ASSUME NEW m, Book(m, names)', m = Here' PROVE Book(Here, names)'
BY ToRows, ToFinished DEF Book

LEMMA ToWork ==
  ASSUME NEW m, NEW c, AtWork(m, c)', m = Here', c = Now' PROVE AtWork(Here, Now)'
BY DEF AtWork, Taken

LEMMA ToAfter ==
  ASSUME NEW m, NEW om, Book(m, om)', m = Entered(Here, Now)', om = NewNames'
  PROVE Book(Entered(Here, Now), NewNames)'
<1>1. Finished(Entered(Here, Now))'
  BY DEF Book, Finished, Taken
<1>2. Rows(m, NewNames)'
  <2>1. Rows(m, om)'
    BY DEF Book
  <2>2. /\ NewNames' \in [Names -> Ids \cup {NoSession}] /\ NewNames'[""] = NoSession
        /\ \A n, k \in Known(m) : NewNames'[n] = NewNames'[k] => n = k
    BY <2>1 DEF Rows
  <2>3. Stored' = {NewNames'[n] : n \in Known(m)}
    BY <2>1 DEF Rows
  <2>4. ASSUME NEW n \in Known(m) PROVE Entry(m, NewNames, n)'
    <3>1. Entry(m, om, n)'
      BY <2>1 DEF Rows
    <3>. QED  BY <3>1 DEF Entry, Turns
  <2>. QED  BY <2>2, <2>3, <2>4 DEF Rows
<1>3. Rows(Entered(Here, Now), NewNames)'
  BY <1>2 DEF Rows, Entry
<1>. QED  BY <1>1, <1>3 DEF Book

-----------------------------------------------------------------------------
(* The child.                                                              *)
LEMMA OnlyReply ==
  ASSUME NEW x, NEW r
  PROVE  /\ r \in {[call |-> x, failed |-> FALSE]} => ~r.failed
         /\ r \in {[call |-> x, failed |-> FALSE]} => r.call = x
         /\ r \in {[call |-> x, failed |-> TRUE]} => r.failed
         /\ r \in {[call |-> x, failed |-> TRUE]} => r.call = x
OBVIOUS

LEMMA TextIs ==
  ASSUME NEW r
  PROVE  /\ r \in TextReply => ~r.failed /\ r.call = ""
         /\ r \in FailingReply => r.failed /\ r.call = ""
<1>1. ASSUME r \in TextReply PROVE ~r.failed /\ r.call = ""
  BY <1>1, OnlyReply, Zenon DEF TextReply
<1>2. ASSUME r \in FailingReply PROVE r.failed /\ r.call = ""
  BY <1>2, OnlyReply, Zenon DEF FailingReply
<1>. QED  BY <1>1, <1>2

LEMMA Within ==
  ASSUME NEW n \in 1 .. 4, NEW k \in Nat, k + 1 <= n
  PROVE  k + 1 \in 1 .. n /\ k < 4
OBVIOUS

LEMMA AllOf ==
  ASSUME NEW n \in 1 .. 4, NEW k \in Nat, k <= n, ~(k + 1 <= n)
  PROVE  k = n /\ k # 0
OBVIOUS

LEMMA AtChild ==
  ASSUME SmokeInv, Healthy, mode = "wait"
  PROVE  /\ ~Serving /\ Sound(This) /\ step <= Len(This.commands) /\ Len(This.commands) \in Nat
         /\ daemon = NoDaemon /\ ChildHealthy /\ ~failing
         /\ Here \in Ledger /\ Now \in Spawned /\ Fits(Here, Now)
<1>1. ~Serving /\ StageHealthy /\ ~failing
  BY DEF Healthy, ServerHealthy
<1>2. step <= Len(This.commands) /\ daemon = NoDaemon /\ ChildHealthy
  BY <1>1 DEF StageHealthy
<1>. QED  BY <1>1, <1>2, HereIs

LEMMA RunningWaits ==
  ASSUME SmokeInv, Healthy, Running
  PROVE  mode = "wait"
BY DEF SmokeInv, Attended, Healthy

LEMMA ChildIsHealthy ==
  ASSUME SmokeInv, Healthy, mode = "wait", UNCHANGED <<harness, daemon>>,
         child' \in ChildState, ~child'.hung, ~child'.signalled, ChildHealthy'
  PROVE  Healthy'
<1>1. /\ ~Serving /\ step <= Len(This.commands) /\ Len(This.commands) \in Nat
      /\ daemon = NoDaemon /\ ~failing
  BY AtChild
<1>2. UNCHANGED <<place, mode, failing>> /\ daemon' = NoDaemon
  BY <1>1 DEF harness
<1>3. This' = This /\ Serving' = Serving /\ step' = step
  BY <1>2, HereStays DEF place
<1>4. step \in Nat /\ step <= Len(This.commands) + 1
  BY <1>1 DEF SmokeInv, Placed
<1>5. StageHealthy'
  BY <1>1, <1>2, <1>3, <1>4 DEF StageHealthy
<1>. QED  BY <1>1, <1>2, <1>3, <1>5 DEF Healthy

LEMMA ChildGoesOn ==
  ASSUME SmokeInv, Healthy, IInv, Running, UNCHANGED <<sessions, harness, daemon>>,
         child' \in ChildState, child'.phase = "running", child'.run = child.run,
         ~child'.hung, ~child'.signalled, Conversing'
  PROVE  Healthy' /\ IInv'
<1>1. mode = "wait"
  BY RunningWaits
<1>2. ChildHealthy /\ Here \in Ledger
  BY <1>1, AtChild
<1>3. UNCHANGED <<place, names, db, clock, cli>>
  BY DEF harness, sessions, vars
<1>4. Here' = Here /\ Now' = Now
  BY <1>3, HereStays
<1>5. PICK l, c : l = Here /\ c = Now
  OBVIOUS
<1>6. IF IsRun THEN RunChild' ELSE PlainChild'
  <2>1. CASE IsRun
    <3>1. child.run = l.runs + 1 /\ Rows(l, names) /\ AtWork(l, c)
      BY <1>2, <1>5, <2>1 DEF ChildHealthy, RunChild, Running
    <3>2. Rows(l, names)'
      BY <1>3, <3>1, RowsStay
    <3>3. AtWork(l, c)'
      BY <1>3, <3>1 DEF AtWork, Taken, Stored
    <3>4. l = Here' /\ c = Now'
      BY <1>4, <1>5
    <3>5. Rows(Here, names)' /\ AtWork(Here, Now)'
      BY <3>2, <3>3, <3>4, ToRows, ToWork
    <3>6. child'.run = Here'.runs + 1
      BY <3>1, <3>4
    <3>. QED  BY <2>1, <3>5, <3>6 DEF RunChild
  <2>2. CASE ~IsRun
    <3>1. Book(l, names)
      BY <1>2, <1>5, <2>2 DEF ChildHealthy, PlainChild
    <3>2. Book(l, names)'
      BY <1>3, <3>1, BookStays
    <3>3. l = Here'
      BY <1>4, <1>5
    <3>4. Book(Here, names)'
      BY <3>2, <3>3, ToBook
    <3>. QED  BY <2>2, <3>4 DEF PlainChild
  <2>. QED  BY <2>1, <2>2
<1>7. ChildHealthy'
  BY <1>4, <1>6 DEF ChildHealthy, IsRun
<1>8. IInv'
  BY InvStays
<1>. QED  BY <1>1, <1>7, <1>8, ChildIsHealthy

LEMMA AsksWell ==
  ASSUME SmokeInv, Healthy, IInv, Asks
  PROVE  Healthy' /\ IInv'
<1>1. /\ Running /\ Now.live /\ child.finish = "none"
      /\ child' = [child EXCEPT !.asking = TRUE]
      /\ UNCHANGED <<sessions, harness, served, daemon>>
  BY DEF Asks, Works
<1>2. child \in ChildState /\ ~child.hung /\ ~child.signalled
  BY DEF Healthy
<1>3. Conversing
  BY <1>1, RunningWaits, AtChild DEF ChildHealthy
<1>4. /\ child' \in ChildState /\ child'.phase = "running" /\ child'.run = child.run
      /\ ~child'.hung /\ ~child'.signalled /\ child'.finish = child.finish
      /\ child'.rounds = child.rounds /\ child'.tool = child.tool
  BY <1>1, <1>2 DEF ChildState, Running
<1>5. This' = This /\ Now' = Now
  BY <1>1, HereStays DEF harness
<1>6. Conversing'
  BY <1>1, <1>3, <1>4, <1>5 DEF Conversing, Conversed, ToolsDone, DenialDone
<1>. QED  BY <1>1, <1>4, <1>6, ChildGoesOn

(* An answer, by the kind of the provider.                                 *)
LEMMA AnswersWell ==
  ASSUME SmokeInv, Healthy, IInv, Answer
  PROVE  Healthy' /\ IInv'
<1>1. /\ Running /\ child.asking /\ UNCHANGED <<sessions, harness, daemon>>
      /\ served' = served + 1
  BY DEF Answer, Works
<1>2. PICK reply \in Reply(served + 1) : child' = Took(reply)
  BY DEF Answer
<1>3. child \in ChildState /\ ~child.hung /\ ~child.signalled
  BY DEF Healthy
<1>4. /\ Sound(This) /\ Conversing /\ step <= Len(This.commands) /\ Len(This.commands) \in Nat
  BY <1>1, RunningWaits, AtChild DEF ChildHealthy
<1>5. Now.live /\ child.finish = "none" /\ Conversed
  BY <1>1, <1>4 DEF Conversing
<1>6. This' = This /\ Now' = Now
  BY <1>1, HereStays DEF harness
<1>7. Provides(This) /\ step \in 1 .. Len(This.commands)
  BY <1>4 DEF Sound, SmokeInv, Placed
<1>8. This.server # "none"
  BY <1>5, <1>7 DEF Provides, Now
<1>. DEFINE more == child.rounds + 1
            ending == IF child.rounds < 4 THEN "none" ELSE "stop"
            carried == [child EXCEPT !.asking = FALSE, !.tool = "completed", !.rounds = more,
                                     !.finish = ending]
            stops(f) == [child EXCEPT !.asking = FALSE, !.finish = f]
            denied == [child EXCEPT !.asking = FALSE, !.tool = "error", !.finish = "stop"]
<1>9. /\ reply.failed => child' = stops("error")
      /\ ~reply.failed /\ reply.call = "" => child' = stops("stop")
      /\ ~reply.failed /\ reply.call # "" /\ ~Allowed(reply.call) => child' = denied
      /\ ~reply.failed /\ reply.call # "" /\ Allowed(reply.call) => child' = carried
  <2>1. child' = CASE reply.failed -> stops("error")
                   [] ~reply.failed /\ reply.call = "" -> stops("stop")
                   [] OTHER -> IF ~Allowed(reply.call) THEN denied ELSE carried
    BY <1>2, Zenon DEF Took
  <2>. HIDE DEF denied, carried, stops
  <2>. QED  BY <2>1
<1>10. /\ child.rounds \in Nat /\ more \in Nat /\ ending \in {"none", "stop"} /\ (child.rounds < 4 => ending = "none")
  BY <1>3 DEF ChildState
<1>. HIDE DEF more, ending
<1>11. ASSUME Conversed', ~child'.asking,
              child' \in {stops("error"), stops("stop"), denied, carried}
       PROVE  Healthy' /\ IInv'
  <2>1. /\ child' \in ChildState /\ child'.phase = "running" /\ child'.run = child.run
        /\ ~child'.hung /\ ~child'.signalled
    <3>1. CASE child' \in {stops("error"), stops("stop")}
      BY <1>1, <1>3, <3>1 DEF ChildState, Running
    <3>2. CASE child' = denied
      BY <1>1, <1>3, <3>2 DEF ChildState, Running
    <3>3. CASE child' = carried
      BY <1>1, <1>3, <1>10, <3>3 DEF ChildState, Running
    <3>. QED  BY <1>11, <3>1, <3>2, <3>3
  <2>2. Conversing'
    BY <1>11 DEF Conversing
  <2>. QED  BY <1>1, <2>1, <2>2, ChildGoesOn
<1>12. CASE ~Tooling(This)
  <2>1. This.server \in {"text", "failing", "config"} /\ This.finish = IF This.server = "failing" THEN "error" ELSE "stop"
    BY <1>7, <1>8, <1>12 DEF Provides
  <2>2. child.tool = "none"
    BY <1>5, <1>12 DEF Conversed
  <2>3. (reply.failed <=> This.server = "failing") /\ reply.call = ""
    <3>1. CASE This.server = "text"
      <4>1. reply \in TextReply
        BY <1>2, <3>1 DEF Reply
      <4>2. ~reply.failed /\ reply.call = ""
        BY <4>1, TextIs
      <4>. QED  BY <3>1, <4>2, Zenon
    <3>2. CASE This.server = "config"
      <4>1. reply \in TextReply
        BY <1>2, <3>2 DEF Reply, RemoteReply
      <4>2. ~reply.failed /\ reply.call = ""
        BY <4>1, TextIs
      <4>. QED  BY <3>2, <4>2, Zenon
    <3>3. CASE This.server = "failing"
      <4>1. reply \in FailingReply
        BY <1>2, <3>3 DEF Reply
      <4>2. reply.failed /\ reply.call = ""
        BY <4>1, TextIs
      <4>. QED  BY <3>3, <4>2, Zenon
    <3>. QED  BY <2>1, <3>1, <3>2, <3>3
  <2>5. child' = stops(This.finish)
    BY <1>9, <2>1, <2>3
  <2>6. child'.finish = This.finish /\ child'.tool = "none" /\ ~child'.asking
    BY <1>3, <2>2, <2>5 DEF ChildState
  <2>7. Conversed'
    BY <1>6, <1>12, <2>6 DEF Conversed
  <2>8. child' \in {stops("error"), stops("stop"), denied, carried}
    BY <2>1, <2>5
  <2>. QED  BY <1>11, <2>6, <2>7, <2>8
<1>13. CASE Tooling(This)
  <2>1. /\ Len(This.tools) \in 1 .. 4 /\ (This.server = "tool" => Len(This.tools) = 1)
        /\ \A i \in 1 .. Len(This.tools) : This.tools[i] # ""
        /\ Len(This.commands) = 2 /\ ~This.commands[2].live
        /\ This.server \in {"tool", "chain"}
    BY <1>7, <1>13 DEF Provides, Tooling
  <2>2. Now = This.commands[1]
    <3>1. step \in {1, 2}
      <4>1. Len(This.commands) = 2
        BY <2>1
      <4>. QED  BY <1>7, <4>1
    <3>. QED  BY <1>5, <2>1, <3>1 DEF Now
  <2>3. \A t : Allowed(t) <=> Permits(This, t)
    BY <2>2 DEF Allowed, Permits
  <2>4. \/ ToolsSucceed(This) /\ child.rounds <= Len(This.tools) /\ served = child.rounds
        \/ ToolIsDenied(This) /\ child.tool = "none" /\ child.rounds = 0 /\ served = 0
    BY <1>5, <1>13 DEF Conversed, ToolsDone, DenialDone
  <2>5. /\ ~reply.failed
        /\ served + 1 <= Len(This.tools) => reply.call = This.tools[served + 1]
        /\ ~(served + 1 <= Len(This.tools)) => reply.call = ""
    <3>1. served \in Nat
      BY <1>10, <2>4
    <3>2. CASE This.server = "tool"
      <4>1. reply = [call |-> IF served + 1 = 1 THEN This.tools[1] ELSE "", failed |-> FALSE]
        BY <1>2, <3>2 DEF Reply, ToolReply
      <4>2. Len(This.tools) = 1
        BY <2>1, <3>2
      <4>3. served + 1 <= 1 <=> served + 1 = 1
        BY <3>1
      <4>. QED  BY <4>1, <4>2, <4>3
    <3>3. CASE This.server = "chain"
      <4>1. reply = [call |-> IF served + 1 <= Len(This.tools) THEN This.tools[served + 1] ELSE "", failed |-> FALSE]
        BY <1>2, <3>3 DEF Reply, ChainReply
      <4>. QED  BY <4>1
    <3>. QED  BY <2>1, <3>2, <3>3
  <2>6. CASE ToolsSucceed(This) /\ child.rounds <= Len(This.tools) /\ served = child.rounds
    <3>1. CASE child.rounds + 1 <= Len(This.tools)
      <4>1. child.rounds + 1 \in 1 .. Len(This.tools) /\ child.rounds < 4
        <5>1. child.rounds \in Nat /\ Len(This.tools) \in 1 .. 4
          BY <1>10, <2>1
        <5>2. PICK n, k : n = Len(This.tools) /\ k = child.rounds
          OBVIOUS
        <5>3. n \in 1 .. 4 /\ k \in Nat /\ k + 1 <= n
          BY ONLY <3>1, <5>1, <5>2
        <5>4. k + 1 \in 1 .. n /\ k < 4
          BY ONLY <5>3, Within
        <5>. QED  BY ONLY <5>2, <5>4
      <4>2. reply.call = This.tools[child.rounds + 1] /\ reply.call # "" /\ Allowed(reply.call)
        BY <2>1, <2>3, <2>5, <2>6, <3>1, <4>1 DEF ToolsSucceed
      <4>3. child' = carried /\ ending = "none"
        BY <1>9, <1>10, <2>5, <4>1, <4>2
      <4>4. child'.rounds = more /\ child'.tool = "completed" /\ child'.finish = "none" /\ ~child'.asking
        BY <1>3, <4>3 DEF ChildState
      <4>5. more <= Len(This.tools) /\ more # 0 /\ served' = more
        BY <1>1, <1>10, <2>6, <3>1 DEF more
      <4>6. ToolsDone'
        BY <1>6, <4>4, <4>5 DEF ToolsDone
      <4>7. Conversed'
        BY <1>6, <1>13, <2>6, <4>6 DEF Conversed
      <4>. QED  BY <1>11, <4>3, <4>4, <4>7
    <3>2. CASE ~(child.rounds + 1 <= Len(This.tools))
      <4>1. child.rounds = Len(This.tools) /\ child.rounds # 0
        <5>1. child.rounds \in Nat /\ Len(This.tools) \in 1 .. 4 /\ child.rounds <= Len(This.tools)
          BY <1>10, <2>1, <2>6
        <5>2. PICK n, k : n = Len(This.tools) /\ k = child.rounds
          OBVIOUS
        <5>3. n \in 1 .. 4 /\ k \in Nat /\ k <= n /\ ~(k + 1 <= n)
          BY ONLY <3>2, <5>1, <5>2
        <5>4. k = n /\ k # 0
          BY ONLY <5>3, AllOf
        <5>. QED  BY ONLY <5>2, <5>4
      <4>2. child' = stops("stop")
        BY <1>9, <2>5, <2>6, <3>2
      <4>3. /\ child'.rounds = child.rounds /\ child'.tool = child.tool /\ child'.finish = "stop"
            /\ ~child'.asking
        BY <1>3, <4>2 DEF ChildState
      <4>4. child.tool = "completed" /\ child.rounds # 0
        <5>1. ToolsDone \/ child.rounds = 0
          BY <1>5, <1>13 DEF Conversed, DenialDone
        <5>. QED  BY <4>1, <5>1 DEF ToolsDone
      <4>5. ToolsDone'
        BY <1>1, <1>6, <2>6, <4>1, <4>3, <4>4 DEF ToolsDone
      <4>6. Conversed'
        BY <1>6, <1>13, <2>6, <4>5 DEF Conversed
      <4>. QED  BY <1>11, <4>2, <4>3, <4>6
    <3>. QED  BY <3>1, <3>2
  <2>7. CASE ToolIsDenied(This) /\ child.tool = "none" /\ child.rounds = 0 /\ served = 0
    <3>1. reply.call = This.tools[1] /\ reply.call # "" /\ ~Allowed(reply.call)
      <4>1. served + 1 = 1 /\ 1 <= Len(This.tools) /\ 1 \in 1 .. Len(This.tools)
        <5>1. served = 0 /\ Len(This.tools) \in 1 .. 4
          BY <2>1, <2>7
        <5>2. PICK n, k : n = Len(This.tools) /\ k = served
          OBVIOUS
        <5>3. n \in 1 .. 4 /\ k = 0
          BY ONLY <5>1, <5>2
        <5>4. k + 1 = 1 /\ 1 <= n /\ 1 \in 1 .. n
          BY ONLY <5>3
        <5>. QED  BY ONLY <5>2, <5>4
      <4>. QED  BY <2>1, <2>3, <2>5, <2>7, <4>1 DEF ToolIsDenied
    <3>2. child' = denied
      BY <1>9, <2>5, <3>1
    <3>3. child'.tool = "error" /\ child'.finish = "stop" /\ ~child'.asking
      BY <1>3, <3>2 DEF ChildState
    <3>4. served' = 1
      BY <1>1, <2>7
    <3>5. DenialDone'
      BY <3>3, <3>4 DEF DenialDone
    <3>6. Conversed'
      BY <1>6, <1>13, <2>7, <3>5 DEF Conversed
    <3>. QED  BY <1>11, <3>2, <3>3, <3>6
  <2>. QED  BY <2>4, <2>6, <2>7
<1>. QED  BY <1>12, <1>13

LEMMA FitsRuns ==
  ASSUME NEW l, NEW c, Fits(l, c)
  PROVE  /\ Runs(c) => FitsRun(l, c)
         /\ ~Runs(c) /\ c.do = "run" => c.status # 0
         /\ c.do = "export" => FitsExport(l, c)
         /\ c.do \notin {"run", "export"} => c.status = 0
BY DEF Fits, Runs, FitsRun, FitsExport

LEMMA RunEndsWell ==
  ASSUME SmokeInv, Healthy, IInv, RunEnds
  PROVE  Healthy' /\ IInv'
<1>1. /\ Running /\ IsRun /\ (Now.live => child.finish # "none")
      /\ Persist(child.run) /\ UNCHANGED <<harness, served, daemon>>
      /\ child' = [child EXCEPT !.phase = "ended", !.ok = TRUE,
                                !.finish = IF Now.live THEN @ ELSE "stop"]
  BY DEF RunEnds, Works
<1>2. child \in ChildState /\ ~child.hung /\ ~child.signalled
  BY DEF Healthy
<1>3. mode = "wait"
  BY <1>1, RunningWaits
<1>4. Here \in Ledger /\ Now \in Spawned /\ Fits(Here, Now) /\ Conversing /\ RunChild
  BY <1>1, <1>3, AtChild DEF ChildHealthy
<1>5. PICK l, c, r, m, om : /\ l = Here /\ c = Now /\ r = child.run /\ m = Entered(Here, Now)
                            /\ om = NewNames
  OBVIOUS
<1>6. l \in Ledger /\ c \in Spawned /\ Runs(c) /\ FitsRun(l, c)
  BY <1>1, <1>4, <1>5, FitsRuns DEF IsRun, Runs
<1>7. r = l.runs + 1 /\ Rows(l, names) /\ AtWork(l, c) /\ Persist(r)
  BY <1>1, <1>4, <1>5 DEF RunChild, Running
<1>8. m = Entered(l, c) /\ om = IF c.as = "" THEN names ELSE [names EXCEPT ![c.as] = cli[r].session]
  BY <1>5 DEF NewNames
<1>9. /\ IInv' /\ Book(m, om)'
      /\ cli'[r].session = cli[r].session
      /\ Resumes(c) => cli[r].session = names[Target(l, c)]
      /\ c.other # "" => cli[r].session # names[c.other]
  BY <1>6, <1>7, <1>8, PersistEnters
<1>10. UNCHANGED <<place, names, mode, failing>>
  BY <1>1 DEF harness
<1>11. Here' = l /\ Now' = c /\ This' = This /\ names' = names
  BY <1>5, <1>10, HereStays
<1>12. /\ child' \in ChildState /\ ~child'.hung /\ ~child'.signalled
       /\ child'.phase = "ended" /\ child'.ok /\ child'.run = r
       /\ child'.asking = child.asking /\ child'.rounds = child.rounds /\ child'.tool = child.tool
       /\ c.live => child'.finish = child.finish
  BY <1>1, <1>2, <1>5 DEF ChildState
<1>13. om = NewNames'
  BY <1>8, <1>9, <1>11, <1>12 DEF NewNames
<1>14. m = Entered(Here, Now)'
  BY <1>8, <1>11
<1>15. Book(Entered(Here, Now), NewNames)'
  BY <1>9, <1>13, <1>14, ToAfter
<1>16. ~child.asking
  BY <1>1, <1>4 DEF Conversing
<1>17. Conversing'
  BY <1>1, <1>4, <1>5, <1>11, <1>12, <1>16 DEF Conversing, Conversed, ToolsDone, DenialDone
<1>18. Resumes(Now)' => cli'[child'.run].session = names'[Target(Here, Now)']
  BY <1>9, <1>11, <1>12
<1>19. RunChild'
  <2>1. child'.run = Here'.runs + 1
    BY <1>7, <1>11, <1>12
  <2>2. Now'.live => child'.finish # "none"
    BY <1>1, <1>5, <1>11, <1>12
  <2>3. Now'.other # "" => cli'[child'.run].session # names'[Now'.other]
    BY <1>9, <1>11, <1>12
  <2>. QED  BY <1>12, <1>15, <1>18, <2>1, <2>2, <2>3 DEF RunChild
<1>20. ChildHealthy'
  <2>1. IsRun'
    BY <1>1, <1>5, <1>11 DEF IsRun
  <2>. QED  BY <1>12, <1>17, <1>19, <2>1 DEF ChildHealthy
<1>. QED  BY <1>1, <1>3, <1>9, <1>12, <1>20, ChildIsHealthy

LEMMA OtherEndsWell ==
  ASSUME SmokeInv, Healthy, IInv, OtherEnds
  PROVE  Healthy' /\ IInv'
<1>. DEFINE ok == CASE Now.do = "run"    -> FALSE
                    [] Now.do = "export" -> names[Now.of] \in Stored
                    [] OTHER             -> TRUE
<1>1. /\ Running /\ ~(IsRun /\ Begun) /\ UNCHANGED <<sessions, harness, served, daemon>>
      /\ (Now.live /\ ~IsRun) => child.finish # "none"
      /\ child' = [child EXCEPT !.phase = "ended", !.ok = ok]
  BY DEF OtherEnds, Works
<1>2. child \in ChildState /\ ~child.hung /\ ~child.signalled
  BY DEF Healthy
<1>3. mode = "wait"
  BY <1>1, RunningWaits
<1>4. Here \in Ledger /\ Now \in Spawned /\ Fits(Here, Now) /\ Conversing /\ ChildHealthy
  BY <1>1, <1>3, AtChild DEF ChildHealthy
<1>5. PICK l, c : l = Here /\ c = Now
  OBVIOUS
<1>6. ~IsRun
  <2>. SUFFICES ASSUME IsRun PROVE FALSE
    OBVIOUS
  <2>1. child.run = l.runs + 1 /\ AtWork(l, c)
    BY <1>1, <1>4, <1>5 DEF ChildHealthy, RunChild, Running
  <2>2. FitsRun(l, c)
    BY <1>4, <1>5, FitsRuns DEF IsRun, Runs
  <2>3. l.runs + 1 \in Clients
    <3>1. l.runs \in Nat /\ l.runs < 6
      BY <1>4, <1>5, <2>2 DEF Ledger, FitsRun
    <3>2. l.runs + 1 \in 1 .. 6
      BY <3>1
    <3>. QED  BY <3>2, SmokeAssumption
  <2>4. cli[child.run].phase = "running"
    BY <2>1 DEF AtWork
  <2>. QED  BY <1>1, <2>1, <2>3, <2>4, SmokeAssumption DEF Begun
<1>7. Book(l, names)
  BY <1>4, <1>5, <1>6 DEF ChildHealthy, PlainChild
<1>8. ok = (Now.status = 0) /\ ok \in BOOLEAN
  <2>1. ~Runs(c)
    BY <1>5, <1>6 DEF IsRun, Runs
  <2>2. CASE c.do = "run"
    <3>1. c.status # 0
      BY <1>4, <1>5, <2>1, <2>2, FitsRuns
    <3>. QED  BY <1>5, <2>2, <3>1
  <2>3. CASE c.do = "export"
    <3>1. FitsExport(l, c)
      BY <1>4, <1>5, <2>3, FitsRuns
    <3>2. names[c.of] \in Stored
      BY <1>4, <1>5, <1>7, <3>1, ExportFinds
    <3>3. c.status = 0
      BY <3>1 DEF FitsExport
    <3>. QED  BY <1>5, <2>3, <3>2, <3>3
  <2>4. CASE c.do \notin {"run", "export"}
    <3>1. c.status = 0
      BY <1>4, <1>5, <2>4, FitsRuns
    <3>. QED  BY <1>5, <2>4, <3>1
  <2>. QED  BY <2>2, <2>3, <2>4
<1>. HIDE DEF ok
<1>9. UNCHANGED <<place, names, mode, failing>>
  BY <1>1 DEF harness
<1>10. Here' = l /\ Now' = c /\ This' = This /\ names' = names
  BY <1>5, <1>9, HereStays
<1>11. /\ child' \in ChildState /\ ~child'.hung /\ ~child'.signalled
       /\ child'.phase = "ended" /\ child'.ok = ok
       /\ child'.asking = child.asking /\ child'.rounds = child.rounds /\ child'.tool = child.tool
       /\ child'.finish = child.finish
  BY <1>1, <1>2, <1>8 DEF ChildState
<1>12. ~child.asking
  BY <1>1, <1>4, <1>6 DEF Conversing
<1>13. Conversing'
  BY <1>1, <1>4, <1>5, <1>10, <1>11, <1>12 DEF Conversing, Conversed, ToolsDone, DenialDone
<1>14. Book(Here, names)'
  BY <1>1, <1>7, <1>9, <1>10, BookStays, ToBook
<1>15. PlainChild'
  BY <1>5, <1>8, <1>10, <1>11, <1>14 DEF PlainChild
<1>16. ChildHealthy'
  <2>1. ~IsRun'
    BY <1>5, <1>6, <1>10 DEF IsRun
  <2>. QED  BY <1>11, <1>13, <1>15, <2>1 DEF ChildHealthy
<1>17. IInv'
  BY <1>1, InvStays
<1>. QED  BY <1>1, <1>3, <1>11, <1>16, <1>17, ChildIsHealthy

LEMMA SpawnsWell ==
  ASSUME SmokeInv, Healthy, IInv, ~Serving, Spawn
  PROVE  Healthy' /\ IInv'
<1>1. /\ mode = "issue" /\ step <= Len(This.commands) /\ mode' = "wait"
      /\ UNCHANGED <<place, failing, names, served, daemon>>
      /\ IF IsRun
           THEN Begin(Client, Selected(Now)) /\ child' = [NoChild EXCEPT !.phase = "running", !.run = Client]
           ELSE UNCHANGED sessions /\ child' = [NoChild EXCEPT !.phase = "running"]
  BY DEF Spawn, Goto
<1>2. /\ StageHealthy /\ ~failing /\ daemon = NoDaemon /\ Book(Here, names) /\ (step = 1 => served = 0)
  BY <1>1 DEF Healthy, StageHealthy
<1>3. /\ Here \in Ledger /\ Now \in Spawned /\ Fits(Here, Now)
      /\ Sound(This) /\ Len(This.commands) \in Nat
  BY <1>1, HereIs
<1>4. PICK l, c : l = Here /\ c = Now
  OBVIOUS
<1>5. Here' = l /\ Now' = c /\ This' = This /\ Serving' = Serving /\ names' = names /\ step' = step
  BY <1>1, <1>4, HereStays DEF place
<1>6. IF IsRun
        THEN IInv' /\ Client = l.runs + 1 /\ Client \in Clients /\ Rows(l, names)' /\ AtWork(l, c)'
        ELSE IInv' /\ Book(l, names)'
  <2>1. CASE IsRun
    <3>1. FitsRun(l, c)
      BY <1>3, <1>4, <2>1, FitsRuns DEF IsRun, Runs
    <3>2. IInv' /\ db' = db /\ Client = l.runs + 1 /\ AtWork(l, c)'
      BY <1>1, <1>2, <1>3, <1>4, <2>1, <3>1, RunBegins
    <3>3. l.runs + 1 \in Clients
      <4>1. l.runs \in Nat /\ l.runs < 6
        BY <1>3, <1>4, <3>1 DEF Ledger, FitsRun
      <4>2. l.runs + 1 \in 1 .. 6
        BY <4>1
      <4>. QED  BY <4>2, SmokeAssumption
    <3>4. Rows(l, names)
      BY <1>2, <1>4 DEF Book
    <3>5. Rows(l, names)'
      BY <1>1, <3>2, <3>4, RowsStay
    <3>. QED  BY <2>1, <3>2, <3>3, <3>5
  <2>2. CASE ~IsRun
    <3>1. UNCHANGED sessions /\ Book(l, names)
      BY <1>1, <1>2, <1>4, <2>2
    <3>2. Book(l, names)'
      BY <1>1, <3>1, BookStays
    <3>3. IInv'
      BY <3>1, InvStays
    <3>. QED  BY <2>2, <3>2, <3>3
  <2>. QED  BY <2>1, <2>2
<1>7. /\ child' \in ChildState /\ ~child'.hung /\ ~child'.signalled /\ child'.phase = "running"
      /\ ~child'.asking /\ child'.rounds = 0 /\ child'.tool = "none" /\ child'.finish = "none"
      /\ IsRun => child'.run = Client
  <2>1. PICK k : k = Client
    OBVIOUS
  <2>2. PICK j \in Clients \cup {NoSession} :
          child' = [NoChild EXCEPT !.phase = "running", !.run = j] /\ (IsRun => j = k)
    <3>1. CASE IsRun
      BY <1>1, <1>6, <2>1, <3>1
    <3>2. CASE ~IsRun
      <4>1. child' = [NoChild EXCEPT !.phase = "running", !.run = NoSession]
        BY <1>1, <3>2 DEF NoChild
      <4>. QED  BY <3>2, <4>1
    <3>. QED  BY <3>1, <3>2
  <2>3. child' = [phase |-> "running", run |-> j, hung |-> FALSE, signalled |-> FALSE,
                  asking |-> FALSE, rounds |-> 0, tool |-> "none", finish |-> "none", ok |-> FALSE]
    BY <2>2 DEF NoChild
  <2>4. child' \in ChildState
    BY <2>3 DEF ChildState
  <2>5. /\ ~child'.hung /\ ~child'.signalled /\ child'.phase = "running" /\ child'.run = j
        /\ ~child'.asking /\ child'.rounds = 0 /\ child'.tool = "none" /\ child'.finish = "none"
    BY ONLY <2>3
  <2>. QED  BY ONLY <2>1, <2>2, <2>4, <2>5
<1>8. Conversing'
  <2>. SUFFICES ASSUME c.live PROVE Conversed'
    BY <1>5, <1>7 DEF Conversing
  <2>1. CASE ~Tooling(This)
    BY <1>5, <1>7, <2>1 DEF Conversed
  <2>2. CASE Tooling(This)
    <3>1. /\ Len(This.tools) \in 1 .. 4 /\ Len(This.commands) = 2 /\ ~This.commands[2].live
          /\ ToolsSucceed(This) \/ ToolIsDenied(This)
      BY <1>3, <2>2 DEF Sound, Provides
    <3>2. step \in Nat \ {0} /\ step # 2
      BY <1>4, <3>1 DEF SmokeInv, Placed, Now
    <3>3. step = 1
      BY <1>1, <3>1, <3>2
    <3>4. served' = 0
      BY <1>1, <1>2, <3>3
    <3>5. ToolsDone' /\ DenialDone'
      <4>1. 0 <= Len(This.tools)
        BY <3>1
      <4>. QED  BY <1>5, <1>7, <3>4, <4>1 DEF ToolsDone, DenialDone
    <3>. QED  BY <1>5, <2>2, <3>1, <3>5 DEF Conversed
  <2>. QED  BY <2>1, <2>2
<1>9. IF IsRun THEN RunChild' ELSE PlainChild'
  <2>1. CASE IsRun
    <3>1. l = Here' /\ c = Now'
      BY <1>5
    <3>2. Rows(Here, names)' /\ AtWork(Here, Now)'
      BY <1>6, <2>1, <3>1, ToRows, ToWork
    <3>. QED  BY <1>5, <1>6, <1>7, <2>1, <3>2 DEF RunChild
  <2>2. CASE ~IsRun
    <3>1. l = Here'
      BY <1>5
    <3>2. Book(Here, names)'
      BY <1>6, <2>2, <3>1, ToBook
    <3>. QED  BY <1>7, <2>2, <3>2 DEF PlainChild
  <2>. QED  BY <2>1, <2>2
<1>10. ChildHealthy'
  <2>1. IsRun' = IsRun
    BY <1>4, <1>5 DEF IsRun
  <2>. QED  BY <1>7, <1>8, <1>9, <2>1 DEF ChildHealthy
<1>11. StageHealthy'
  <2>1. step \in Nat /\ step <= Len(This.commands) + 1
    BY <1>1, <1>3 DEF SmokeInv, Placed
  <2>. QED  BY <1>1, <1>2, <1>5, <1>10, <2>1 DEF StageHealthy
<1>. QED  BY <1>1, <1>2, <1>5, <1>6, <1>7, <1>11 DEF Healthy

(* What is asserted of a command that has ended is so.                     *)
LEMMA ProviderPasses ==
  ASSUME SmokeInv, Healthy, mode = "wait", IsRun, Conversed, child.finish # "none", Now.live
  PROVE  child.finish = This.finish /\ child.tool = This.tool
<1>1. Provides(This) /\ child.finish \in {"none", "stop", "error"}
  BY AtChild DEF Sound, Healthy, ChildState
<1>2. CASE ~Tooling(This)
  BY <1>1, <1>2 DEF Conversed, Provides
<1>3. CASE Tooling(This)
  <2>1. This.finish = "stop" /\ Len(This.tools) \in 1 .. 4
    BY <1>1, <1>3 DEF Provides
  <2>2. CASE ToolsSucceed(This) /\ ToolsDone
    <3>1. child.finish = "stop" /\ child.rounds = Len(This.tools) /\ This.tool = "completed"
      BY <2>2 DEF ToolsDone, ToolsSucceed
    <3>2. child.rounds # 0
      <4>1. \A n \in 1 .. 4 : n # 0
        OBVIOUS
      <4>. QED  BY <2>1, <3>1, <4>1
    <3>. QED  BY <2>1, <2>2, <3>1, <3>2 DEF ToolsDone
  <2>3. CASE ToolIsDenied(This) /\ DenialDone
    BY <2>1, <2>3 DEF DenialDone, ToolIsDenied
  <2>. QED  BY <1>3, <2>2, <2>3 DEF Conversed
<1>. QED  BY <1>2, <1>3

LEMMA RequestsPass ==
  ASSUME SmokeInv, Healthy, mode = "wait", IsRun, Now.live => Conversed /\ child.finish # "none",
         This.requests > 0
  PROVE  served = This.requests
<1>1. Provides(This) /\ step <= Len(This.commands) /\ step \in Nat \ {0}
  BY AtChild DEF Sound, SmokeInv, Placed
<1>2. Tooling(This)
  <2>1. ASSUME ~Tooling(This) PROVE FALSE
    <3>1. This.requests = 0
      BY <1>1, <2>1 DEF Provides
    <3>. QED  BY <3>1
  <2>. QED  BY <2>1
<1>3. /\ Len(This.commands) = 2 /\ This.commands[1].live /\ ~Runs(This.commands[2])
  BY <1>1, <1>2 DEF Provides
<1>4. step = 1
  <2>1. step # 2
    BY <1>3 DEF IsRun, Runs, Now
  <2>. QED  BY <1>1, <1>3, <2>1
<1>5. Now.live
  BY <1>3, <1>4 DEF Now
<1>6. CASE ToolsSucceed(This) /\ ToolsDone
  BY <1>5, <1>6 DEF ToolsDone, ToolsSucceed
<1>7. CASE ToolIsDenied(This) /\ DenialDone
  BY <1>5, <1>7 DEF DenialDone, ToolIsDenied
<1>. QED  BY <1>2, <1>5, <1>6, <1>7 DEF Conversed

LEMMA AllPasses ==
  ASSUME SmokeInv, Healthy, IInv, mode = "wait", child.phase = "ended"
  PROVE  Passes
<1>1. /\ ~child.signalled /\ child.ok \in BOOLEAN
  BY DEF Healthy, ChildState
<1>2. ChildHealthy /\ Conversing /\ Here \in Ledger /\ Now \in Spawned /\ Fits(Here, Now)
  BY AtChild DEF ChildHealthy
<1>3. PICK l, c : l = Here /\ c = Now
  OBVIOUS
<1>4. CASE IsRun
  <2>1. FitsRun(l, c)
    BY <1>2, <1>3, <1>4, FitsRuns DEF IsRun, Runs
  <2>2. RunChild
    BY <1>2, <1>4 DEF ChildHealthy
  <2>3. /\ child.ok /\ (c.live => child.finish # "none")
        /\ Resumes(c) => cli[child.run].session = names[Target(l, c)]
        /\ c.other # "" => cli[child.run].session # names[c.other]
    BY <1>3, <2>2 DEF RunChild
  <2>4. c.status = 0 /\ c.is # "" => Resumes(c) /\ c.is = Target(l, c)
    BY <2>1 DEF FitsRun, Goes, Makes
  <2>5. c.status = 0
    BY <2>1 DEF FitsRun
  <2>6. Now.live => child.finish = This.finish /\ child.tool = This.tool
    BY <1>2, <1>3, <1>4, <2>3, ProviderPasses DEF Conversing
  <2>7. This.requests > 0 => served = This.requests
    BY <1>2, <1>3, <1>4, <2>3, RequestsPass DEF Conversing
  <2>8. RunPasses
    BY <1>3, <2>3, <2>4, <2>5, <2>6, <2>7 DEF RunPasses
  <2>9. Now.do # "export"
    BY <1>4 DEF IsRun
  <2>. QED  BY <1>1, <1>3, <2>3, <2>5, <2>8, <2>9 DEF Passes
<1>5. CASE ~IsRun
  <2>1. PlainChild
    BY <1>2, <1>5 DEF ChildHealthy
  <2>2. child.ok = (Now.status = 0) /\ Book(l, names)
    BY <1>3, <2>1 DEF PlainChild
  <2>3. c.do = "export" => ExportPasses
    <3>1. ASSUME c.do = "export" PROVE ExportPasses
      <4>1. FitsExport(l, c)
        BY <1>2, <1>3, <3>1, FitsRuns
      <4>2. PICK s : s = names[c.of]
        OBVIOUS
      <4>3. /\ Cardinality(Turns(s)) = c.turns
            /\ c.last => LastTurn(s) = {Client - 1}
            /\ c.parent # "" => db[s].parent = names[c.parent]
        BY <1>2, <1>3, <2>2, <4>1, <4>2, ExportFinds
      <4>. QED  BY <1>3, <4>2, <4>3 DEF ExportPasses
    <3>. QED  BY <3>1
  <2>. QED  BY <1>1, <1>3, <1>5, <2>2, <2>3 DEF Passes
<1>. QED  BY <1>4, <1>5

LEMMA ChecksWell ==
  ASSUME SmokeInv, Healthy, IInv, Check
  PROVE  Healthy' /\ IInv'
<1>1. mode = "wait" /\ child.phase = "ended" /\ UNCHANGED <<served, child, daemon, faults>>
  BY DEF Check
<1>2. /\ NextCommand
      /\ names' = IF IsRun /\ Now.as # ""
                    THEN [names EXCEPT ![Now.as] = cli[child.run].session] ELSE names
  BY <1>1, AllPasses DEF Check
<1>3. /\ ~Serving /\ step <= Len(This.commands) /\ daemon = NoDaemon /\ ~failing /\ ChildHealthy
      /\ Here \in Ledger /\ Now \in Spawned
  BY <1>1, AtChild
<1>4. /\ UNCHANGED <<script, stage, failing>> /\ step' = step + 1 /\ mode' = "issue"
      /\ IF step < Len(This.commands) /\ This.commands[step + 1].home
           THEN NewHome ELSE UNCHANGED sessions
  BY <1>2 DEF NextCommand
<1>5. /\ This' = This /\ step' # 1 /\ step' <= Len(This.commands) + 1 /\ Serving' = Serving
      /\ Here' = IF step < Len(This.commands) /\ This.commands[step + 1].home THEN Blank ELSE Entered(Here, Now)
  BY <1>3, <1>4, HereNext
<1>6. PICK m, om : m = Entered(Here, Now) /\ om = names'
  OBVIOUS
<1>7. Book(m, om)
  <2>1. CASE IsRun
    <3>1. Book(Entered(Here, Now), NewNames)
      BY <1>1, <1>3, <2>1 DEF ChildHealthy, RunChild
    <3>2. NewNames = names'
      BY <1>2, <2>1 DEF NewNames
    <3>. QED  BY <1>6, <3>1, <3>2
  <2>2. CASE ~IsRun
    <3>1. Book(Here, names)
      BY <1>3, <2>2 DEF ChildHealthy, PlainChild
    <3>2. names' = names
      BY <1>2, <2>2
    <3>3. Entered(Here, Now) = Here
      BY <2>2 DEF IsRun, Entered, Runs
    <3>. QED  BY <1>6, <3>1, <3>2, <3>3
  <2>. QED  BY <2>1, <2>2
<1>8. PICK l : l = Here'
  OBVIOUS
<1>9. IInv' /\ Book(l, names)'
  <2>1. CASE step < Len(This.commands) /\ This.commands[step + 1].home
    <3>1. om \in [Names -> Ids \cup {NoSession}] /\ om[""] = NoSession
      BY <1>7 DEF Book, Rows
    <3>2. NewHome /\ l = Blank
      BY <1>4, <1>5, <1>8, <2>1
    <3>. QED  BY <1>6, <3>1, <3>2, HomeIsNew
  <2>2. CASE ~(step < Len(This.commands) /\ This.commands[step + 1].home)
    <3>1. UNCHANGED sessions /\ l = m
      BY <1>4, <1>5, <1>6, <1>8, <2>2
    <3>2. IInv'
      BY <3>1, InvStays
    <3>3. Book(l, om)
      BY <1>7, <3>1
    <3>4. Book(l, names)'
      BY <1>6, <3>1, <3>3, BookMoves
    <3>. QED  BY <3>2, <3>4
  <2>. QED  BY <2>1, <2>2
<1>10. Book(Here, names)'
  BY <1>8, <1>9, ToBook
<1>11. StageHealthy'
  BY <1>1, <1>3, <1>4, <1>5, <1>10 DEF StageHealthy
<1>12. child \in ChildState /\ ~child.hung /\ ~child.signalled
  BY DEF Healthy
<1>. QED  BY <1>1, <1>3, <1>4, <1>5, <1>9, <1>11, <1>12 DEF Healthy

(* The end of a stage that starts children.                                *)
LEMMA StageEndsWell ==
  ASSUME SmokeInv, Healthy, IInv, ~Serving, CommandsDone \/ Leave
  PROVE  Healthy' /\ IInv'
<1>1. /\ mode \in {"issue", "close"}
      /\ UNCHANGED <<place, failing, names, sessions, served, child, daemon>>
      /\ daemon.phase = "none" => mode' \in {"close", "leave"}
  BY DEF CommandsDone, Leave, Closes, Goto
<1>2. StageHealthy /\ daemon = NoDaemon
  BY <1>1 DEF Healthy, StageHealthy
<1>3. mode' \in {"close", "leave"}
  BY <1>1, <1>2 DEF NoDaemon
<1>4. This' = This /\ Serving' = Serving /\ step' = step
  BY <1>1, HereStays DEF place
<1>5. StageHealthy'
  BY <1>1, <1>2, <1>3, <1>4 DEF StageHealthy
<1>6. IInv'
  BY <1>1, InvStays
<1>. QED  BY <1>1, <1>3, <1>4, <1>5, <1>6 DEF Healthy

LEMMA StageIsNew ==
  SmokeInv /\ ~Serving /\ step = 1 => Here = Blank /\ Len(This.commands) \in Nat
BY HereIs

LEMMA StageIsNewNext ==
  (SmokeInv /\ ~Serving /\ step = 1 => Here = Blank /\ Len(This.commands) \in Nat)'
BY StageIsNew, PTL

LEMMA StageBegins ==
  ASSUME SmokeInv, Healthy, IInv, NextStage
  PROVE  Healthy' /\ IInv'
<1>1. /\ mode = "leave" /\ ~failing /\ stage < Len(Stages)
      /\ stage' = stage + 1 /\ step' = 1 /\ mode' = "issue"
      /\ names' = [n \in Names |-> NoSession] /\ served' = 0 /\ child' = NoChild
      /\ NewHome /\ UNCHANGED <<script, failing, daemon>>
  BY DEF NextStage
<1>2. SmokeInv'
  BY NextStageInv
<1>3. ~Serving
  <2>1. stage \in 1 .. Len(Stages) /\ Len(Stages) \in Nat
    BY ScriptsAre DEF SmokeInv, Placed, Stages
  <2>2. stage # Len(Stages)
    BY <1>1, <2>1
  <2>. QED  BY <2>2, WhereIs
<1>4. daemon' = NoDaemon
  BY <1>1, <1>3 DEF Healthy, StageHealthy
<1>5. names' \in [Names -> Ids \cup {NoSession}] /\ names'[""] = NoSession
  BY <1>1 DEF Names
<1>6. PICK l : l = Blank
  OBVIOUS
<1>7. IInv' /\ Book(l, names)'
  BY <1>1, <1>5, <1>6, HomeIsNew
<1>8. child' \in ChildState /\ ~child'.hung /\ ~child'.signalled
  BY <1>1 DEF NoChild, ChildState
<1>9. CASE Serving'
  <2>1. ServerHealthy'
    BY <1>1, <1>4 DEF ServerHealthy
  <2>. QED  BY <1>1, <1>7, <1>8, <1>9, <2>1 DEF Healthy
<1>10. CASE ~Serving'
  <2>1. l = Here' /\ Len(This'.commands) \in Nat
    BY <1>1, <1>2, <1>6, <1>10, StageIsNewNext
  <2>2. Book(Here, names)'
    BY <1>7, <2>1, ToBook
  <2>3. 1 <= Len(This'.commands) + 1
    BY <2>1
  <2>4. StageHealthy'
    BY <1>1, <1>4, <2>2, <2>3 DEF StageHealthy
  <2>. QED  BY <1>1, <1>7, <1>8, <1>10, <2>4 DEF Healthy
<1>. QED  BY <1>9, <1>10

LEMMA FinishesWell ==
  ASSUME SmokeInv, Healthy, IInv, Finish
  PROVE  Healthy' /\ IInv'
<1>1. mode' = "ok" /\ UNCHANGED <<failing, child, sessions>>
  BY DEF Finish
<1>. QED  BY <1>1, InvStays DEF Healthy

-----------------------------------------------------------------------------
(* The installed server.                                                   *)
LEMMA AtServer ==
  ASSUME SmokeInv, Healthy, Serving, mode # "ok"
  PROVE  /\ ServerHealthy /\ ~failing
         /\ step \in 1 .. 18 /\ Len(This.commands) = 17
         /\ step <= 17 => /\ Now.do = "serve" => step = 1
                          /\ step = 1 => Now.do = "serve"
                          /\ Now.do = "stream" => step # 4 /\ step # 17
                          /\ Now.as = "session" <=> step = 4
                          /\ Now.as = "delete" <=> step = 17
         /\ ~(step < Len(This.commands) /\ This.commands[step + 1].home)
<1>1. ServerHealthy /\ ~failing
  BY DEF Healthy
<1>2. step \in 1 .. 18
  BY <1>1 DEF ServerHealthy, SmokeInv, Placed
<1>3. PICK cs : cs = This.commands /\ cs = InstalledServe.commands
  BY WhereIs
<1>4. /\ Len(cs) = 17
      /\ cs[1].do = "serve" /\ cs[4].do = "fetch" /\ cs[17].do = "fetch"
      /\ \A i \in 2 .. 17 : cs[i].do \in {"fetch", "stream"}
      /\ \A i \in 1 .. 17 : /\ cs[i].as = "session" <=> i = 4
                            /\ cs[i].as = "delete" <=> i = 17
                            /\ ~cs[i].home
  BY <1>3, ServeIs
<1>5. Now = cs[step]
  BY <1>3 DEF Now
<1>6. step <= 17 => step \in 1 .. 17 /\ (step = 1 \/ step \in 2 .. 17)
  BY <1>2
<1>7. step < 17 => step + 1 \in 1 .. 17
  BY <1>2
<1>8. ASSUME step <= 17
      PROVE  /\ Now.do = "serve" => step = 1
             /\ step = 1 => Now.do = "serve"
             /\ Now.do = "stream" => step # 4 /\ step # 17
             /\ Now.as = "session" <=> step = 4
             /\ Now.as = "delete" <=> step = 17
  <2>1. step \in 1 .. 17 /\ (step = 1 \/ step \in 2 .. 17)
    BY <1>6, <1>8
  <2>2. Now.do = "serve" => step = 1
    BY <1>4, <1>5, <2>1
  <2>3. step = 1 => Now.do = "serve"
    BY <1>4, <1>5
  <2>4. Now.do = "stream" => step # 4 /\ step # 17
    BY <1>4, <1>5
  <2>5. (Now.as = "session" <=> step = 4) /\ (Now.as = "delete" <=> step = 17)
    BY <1>4, <1>5, <2>1
  <2>. QED  BY <2>2, <2>3, <2>4, <2>5
<1>. QED  BY <1>1, <1>2, <1>3, <1>4, <1>7, <1>8

(* A request that is answered is followed by the next.                     *)
LEMMA ServerGoesOn ==
  ASSUME SmokeInv, Healthy, IInv, Serving, mode # "ok", NextCommand, UNCHANGED <<child>>,
         step <= 17,
         daemon' = [NoDaemon EXCEPT !.phase = "ready",
                      !.sessions = IF step < 4 THEN 0 ELSE 1, !.removed = step = 17]
  PROVE  Healthy' /\ IInv'
<1>1. /\ UNCHANGED <<script, stage, failing>> /\ step' = step + 1 /\ mode' = "issue"
      /\ UNCHANGED sessions
  BY AtServer DEF NextCommand
<1>2. IInv'
  BY <1>1, InvStays
<1>3. Serving' = Serving
  BY <1>1 DEF Serving, This, Stages
<1>4. step \in 1 .. 17
  BY AtServer
<1>5. step' # 1 /\ step' <= 18 /\ (step' > 4 <=> ~(step < 4)) /\ (step' > 17 <=> step = 17)
  BY <1>1, <1>4
<1>6. Ready'
  <2>. DEFINE k == IF step < 4 THEN 0 ELSE 1
              b == step = 17
  <2>1. k = IF step' > 4 THEN 1 ELSE 0
    BY <1>5
  <2>2. b = (step' > 17)
    BY <1>5
  <2>. HIDE DEF k, b
  <2>3. daemon' = [NoDaemon EXCEPT !.phase = "ready", !.sessions = k, !.removed = b]
    BY DEF k, b
  <2>. QED  BY <2>1, <2>2, <2>3 DEF Ready
<1>7. ServerHealthy'
  BY <1>1, <1>5, <1>6 DEF ServerHealthy
<1>. QED  BY <1>1, <1>2, <1>3, <1>7 DEF Healthy

(* The script goes on without another command.                             *)
LEMMA ServerStays ==
  ASSUME SmokeInv, Healthy, IInv, Serving, mode' # "ok" => ServerHealthy',
         UNCHANGED <<place, failing, child, sessions>>
  PROVE  Healthy' /\ IInv'
<1>1. IInv'
  BY InvStays
<1>2. Serving' = Serving
  BY HereStays
<1>. QED  BY <1>1, <1>2 DEF Healthy

LEMMA ReadyAs ==
  ASSUME NEW k, NEW b
  PROVE  [NoDaemon EXCEPT !.phase = "ready", !.sessions = k, !.removed = b]
           = [phase |-> "ready", hung |-> FALSE, signalled |-> FALSE, sessions |-> k, removed |-> b]
<1>1. PICK d : d = NoDaemon
  OBVIOUS
<1>2. d = [phase |-> "none", hung |-> FALSE, signalled |-> FALSE, sessions |-> 0, removed |-> FALSE]
  BY <1>1 DEF NoDaemon
<1>3. PICK e : e = [d EXCEPT !.phase = "ready", !.sessions = k, !.removed = b]
  OBVIOUS
<1>4. e = [phase |-> "ready", hung |-> FALSE, signalled |-> FALSE, sessions |-> k, removed |-> b]
  BY ONLY <1>2, <1>3
<1>. QED  BY <1>1, <1>3, <1>4

LEMMA ReadyPhase ==
  /\ Ready => daemon.phase = "ready" /\ ~daemon.signalled /\ ~daemon.hung
  /\ NoDaemon.phase = "none"
BY DEF Ready, NoDaemon

LEMMA ServerStarts ==
  ASSUME SmokeInv, Healthy, IInv, Serving, mode # "ok", StartServer
  PROVE  Healthy' /\ IInv'
<1>1. /\ step <= Len(This.commands) /\ Now.do = "serve" /\ mode' = "starting"
      /\ daemon' = [NoDaemon EXCEPT !.phase = "starting"]
      /\ UNCHANGED <<place, failing, child, sessions>>
  BY DEF StartServer, Goto
<1>2. step = 1 /\ step' = 1
  BY <1>1, AtServer DEF place
<1>3. ServerHealthy'
  BY <1>1, <1>2 DEF ServerHealthy
<1>. QED  BY <1>1, <1>3, ServerStays

LEMMA ServerListens ==
  ASSUME SmokeInv, Healthy, IInv, Serving, mode # "ok", Listens
  PROVE  Healthy' /\ IInv'
<1>1. /\ daemon.phase = "starting" /\ daemon' = [daemon EXCEPT !.phase = "ready"]
      /\ UNCHANGED <<place, mode, failing, child, sessions>>
  BY DEF Listens, harness
<1>2. ServerHealthy /\ ~failing
  BY AtServer
<1>3. mode \in {"starting", "stopping"}
  <2>1. ~Ready /\ daemon # NoDaemon
    BY <1>1, ReadyPhase DEF DaemonRuns
  <2>2. mode # "leave"
    BY <1>1, <1>2 DEF SmokeInv, Attended, DaemonRuns
  <2>3. mode # "stop" /\ mode # "issue" /\ mode # "fetch"
    BY <1>1, <1>2, <2>1 DEF ServerHealthy
  <2>. QED  BY <1>2, <2>2, <2>3 DEF ServerHealthy
<1>4. CASE mode = "starting"
  <2>1. daemon = [NoDaemon EXCEPT !.phase = "starting"] /\ step = 1
    BY <1>1, <1>2, <1>4 DEF ServerHealthy, NoDaemon
  <2>2. daemon' = [NoDaemon EXCEPT !.phase = "ready"]
    BY <1>1, <2>1 DEF NoDaemon
  <2>3. daemon' \in {[NoDaemon EXCEPT !.phase = ph] : ph \in {"starting", "ready"}}
    BY <2>2
  <2>4. mode' = "starting" /\ step' = 1
    BY <1>1, <1>4, <2>1 DEF place
  <2>5. ServerHealthy'
    BY <2>3, <2>4 DEF ServerHealthy
  <2>. QED  BY <1>1, <2>5, ServerStays
<1>5. CASE mode = "stopping"
  <2>1. ~daemon.hung /\ step <= 18
    BY <1>2, <1>5 DEF ServerHealthy
  <2>2. daemon'.hung = daemon.hung
    BY <1>1
  <2>3. ServerHealthy'
    BY <1>1, <1>5, <2>1, <2>2 DEF ServerHealthy, place
  <2>. QED  BY <1>1, <2>3, ServerStays
<1>. QED  BY <1>3, <1>4, <1>5

LEMMA ServerStarted ==
  ASSUME SmokeInv, Healthy, IInv, Serving, mode # "ok", StartResolves
  PROVE  Healthy' /\ IInv'
<1>1. mode = "starting" /\ daemon.phase = "ready" /\ NextCommand /\ UNCHANGED <<child, daemon>>
  BY DEF StartResolves
<1>2. ServerHealthy
  BY AtServer
<1>3. step = 1 /\ daemon = [NoDaemon EXCEPT !.phase = "ready"]
  BY <1>1, <1>2 DEF ServerHealthy, NoDaemon
<1>4. daemon' = [NoDaemon EXCEPT !.phase = "ready",
                   !.sessions = IF step < 4 THEN 0 ELSE 1, !.removed = step = 17]
  <2>1. daemon' = [phase |-> "ready", hung |-> FALSE, signalled |-> FALSE, sessions |-> 0, removed |-> FALSE]
    BY <1>1, <1>3 DEF NoDaemon
  <2>2. (IF step < 4 THEN 0 ELSE 1) = 0 /\ (step = 17) = FALSE
    BY <1>3
  <2>. QED  BY <2>1, <2>2, ReadyAs
<1>5. step <= 17
  BY <1>3
<1>. QED  BY <1>1, <1>4, <1>5, ServerGoesOn

LEMMA ServerFetches ==
  ASSUME SmokeInv, Healthy, IInv, Serving, mode # "ok", FetchStarts
  PROVE  Healthy' /\ IInv'
<1>1. /\ mode = "issue" /\ step <= 17 /\ Now.do = "fetch" /\ mode' = "fetch"
      /\ UNCHANGED <<place, failing, child, daemon, sessions>>
  BY AtServer DEF FetchStarts, Goto
<1>2. ServerHealthy /\ step \in 1 .. 18 /\ step # 1
  BY <1>1, AtServer
<1>3. step \in 2 .. 17 /\ Ready
  BY <1>1, <1>2 DEF ServerHealthy
<1>4. step' = step /\ Now' = Now /\ Ready'
  BY <1>1, <1>3, HereStays DEF place, Ready
<1>5. ServerHealthy'
  BY <1>1, <1>3, <1>4 DEF ServerHealthy
<1>. QED  BY <1>1, <1>5, ServerStays

(* The server that has answered so far.                                    *)
LEMMA ReadyIs ==
  ASSUME NEW n \in 2 .. 17, step = n, Ready
  PROVE  /\ daemon = [phase |-> "ready", hung |-> FALSE, signalled |-> FALSE,
                      sessions |-> IF n > 4 THEN 1 ELSE 0, removed |-> FALSE]
         /\ DaemonWorks /\ ~Unanswered /\ ~daemon.removed
<1>1. (n > 17) = FALSE
  OBVIOUS
<1>2. daemon = [NoDaemon EXCEPT !.phase = "ready", !.sessions = IF n > 4 THEN 1 ELSE 0, !.removed = FALSE]
  BY <1>1 DEF Ready
<1>. DEFINE k == IF n > 4 THEN 1 ELSE 0
<1>. HIDE DEF k
<1>3. daemon = [phase |-> "ready", hung |-> FALSE, signalled |-> FALSE, sessions |-> k, removed |-> FALSE]
  BY <1>2 DEF NoDaemon, k
<1>. QED  BY <1>3 DEF k, DaemonWorks, DaemonRuns, Unanswered

LEMMA ServerAnswers ==
  ASSUME SmokeInv, Healthy, IInv, Serving, mode # "ok", FetchTries, faults \in Nat, faults' = faults
  PROVE  Healthy' /\ IInv'
<1>1. /\ mode = "fetch" /\ daemon' = Handled /\ UNCHANGED child
      /\ IF Now.as = "session" /\ daemon'.sessions # 1
           THEN Fails("stop") /\ UNCHANGED sessions
           ELSE NextCommand /\ UNCHANGED names
  <2>1. faults' # faults + 1
    OBVIOUS
  <2>. QED  BY <2>1 DEF FetchTries, Fault
<1>2. PICK n \in 2 .. 17 : n = step /\ Ready
  BY <1>1, AtServer DEF ServerHealthy
<1>3. (Now.as = "session" <=> n = 4) /\ (Now.as = "delete" <=> n = 17)
  BY <1>2, AtServer
<1>4. daemon = [phase |-> "ready", hung |-> FALSE, signalled |-> FALSE,
                sessions |-> IF n > 4 THEN 1 ELSE 0, removed |-> FALSE]
  BY <1>2, ReadyIs
<1>5. \E k, b : /\ daemon' = [phase |-> "ready", hung |-> FALSE, signalled |-> FALSE,
                              sessions |-> k, removed |-> b]
                /\ k = (IF n < 4 THEN 0 ELSE 1) /\ b = (n = 17)
  <2>1. CASE n = 4
    <3>1. daemon = [phase |-> "ready", hung |-> FALSE, signalled |-> FALSE,
                    sessions |-> 0, removed |-> FALSE]
      BY <1>4, <2>1
    <3>2. daemon' = [daemon EXCEPT !.sessions = @ + 1]
      BY <1>1, <1>3, <2>1 DEF Handled
    <3>3. daemon' = [phase |-> "ready", hung |-> FALSE, signalled |-> FALSE,
                     sessions |-> 1, removed |-> FALSE]
      <4>1. daemon' = [daemon EXCEPT !.sessions = 1]
        BY <3>1, <3>2
      <4>. QED  BY <3>1, <4>1
    <3>4. 1 = (IF n < 4 THEN 0 ELSE 1) /\ FALSE = (n = 17)
      BY <2>1
    <3>. QED  BY <3>3, <3>4
  <2>2. CASE n = 17
    <3>1. daemon = [phase |-> "ready", hung |-> FALSE, signalled |-> FALSE,
                    sessions |-> 1, removed |-> FALSE]
      BY <1>4, <2>2
    <3>2. daemon' = [daemon EXCEPT !.removed = TRUE]
      BY <1>1, <1>3, <2>2 DEF Handled
    <3>3. daemon' = [phase |-> "ready", hung |-> FALSE, signalled |-> FALSE,
                     sessions |-> 1, removed |-> TRUE]
      BY <3>1, <3>2
    <3>4. 1 = (IF n < 4 THEN 0 ELSE 1) /\ TRUE = (n = 17)
      BY <2>2
    <3>. QED  BY <3>3, <3>4
  <2>3. CASE n # 4 /\ n # 17
    <3>1. daemon' = daemon
      BY <1>1, <1>3, <2>3 DEF Handled
    <3>2. (IF n > 4 THEN 1 ELSE 0) = (IF n < 4 THEN 0 ELSE 1) /\ FALSE = (n = 17)
      BY <2>3
    <3>. QED  BY <1>4, <3>1, <3>2
  <2>. QED  BY <2>1, <2>2, <2>3
<1>6. PICK k, b : /\ daemon' = [phase |-> "ready", hung |-> FALSE, signalled |-> FALSE,
                                sessions |-> k, removed |-> b]
                  /\ k = (IF n < 4 THEN 0 ELSE 1) /\ b = (n = 17)
  BY <1>5
<1>7. n = 4 => daemon'.sessions = 1
  BY <1>6
<1>8. NextCommand
  BY <1>1, <1>3, <1>7
<1>9. daemon' = [NoDaemon EXCEPT !.phase = "ready",
                   !.sessions = IF step < 4 THEN 0 ELSE 1, !.removed = step = 17]
  <2>1. daemon' = [NoDaemon EXCEPT !.phase = "ready", !.sessions = k, !.removed = b]
    BY <1>6, ReadyAs
  <2>. QED  BY <1>2, <1>6, <2>1
<1>10. step <= 17
  BY <1>2
<1>. QED  BY <1>1, <1>8, <1>9, <1>10, ServerGoesOn

LEMMA ServerStreams ==
  ASSUME SmokeInv, Healthy, IInv, Serving, mode # "ok", StreamOnce
  PROVE  Healthy' /\ IInv'
<1>1. /\ mode = "issue" /\ step <= 17 /\ Now.do = "stream" /\ UNCHANGED <<child, daemon>>
      /\ NextCommand \/ Unanswered
  BY AtServer DEF StreamOnce
<1>2. step \in 1 .. 17 /\ step # 4 /\ step # 17 /\ step # 1 /\ ServerHealthy
  BY <1>1, AtServer
<1>3. PICK n \in 2 .. 17 : n = step /\ Ready /\ n # 4 /\ n # 17
  BY <1>1, <1>2 DEF ServerHealthy
<1>4. /\ daemon = [phase |-> "ready", hung |-> FALSE, signalled |-> FALSE,
                   sessions |-> IF n > 4 THEN 1 ELSE 0, removed |-> FALSE]
      /\ ~Unanswered
  BY <1>3, ReadyIs
<1>5. daemon' = [NoDaemon EXCEPT !.phase = "ready",
                   !.sessions = IF step < 4 THEN 0 ELSE 1, !.removed = step = 17]
  <2>. DEFINE k == IF n > 4 THEN 1 ELSE 0
  <2>1. k = (IF n < 4 THEN 0 ELSE 1) /\ FALSE = (n = 17)
    BY <1>3
  <2>. HIDE DEF k
  <2>2. daemon' = [NoDaemon EXCEPT !.phase = "ready", !.sessions = k, !.removed = FALSE]
    BY <1>1, <1>4, ReadyAs DEF k
  <2>. QED  BY <1>3, <2>1, <2>2
<1>. QED  BY <1>1, <1>4, <1>5, ServerGoesOn

LEMMA ServerStops ==
  ASSUME SmokeInv, Healthy, IInv, Serving, mode # "ok", CommandsDone \/ StopSignals \/ Stopped
  PROVE  Healthy' /\ IInv'
<1>1. ServerHealthy /\ step \in 1 .. 18 /\ Len(This.commands) = 17
  BY AtServer
<1>2. CASE CommandsDone
  <2>1. /\ mode = "issue" /\ step > 17 /\ UNCHANGED <<place, failing, child, daemon, sessions>>
        /\ daemon.phase # "none" => mode' = "stop"
    BY <1>1, <1>2 DEF CommandsDone, Goto
  <2>2. Ready
    BY <1>1, <2>1 DEF ServerHealthy
  <2>3. daemon.phase = "ready" /\ ~daemon.signalled /\ ~daemon.hung
    BY <2>2 DEF Ready, NoDaemon
  <2>4. ServerHealthy'
    BY <1>1, <2>1, <2>3 DEF ServerHealthy, place
  <2>. QED  BY <2>1, <2>4, ServerStays
<1>3. CASE StopSignals
  <2>1. /\ mode = "stop" /\ UNCHANGED <<place, failing, child, sessions>>
        /\ daemon' = [daemon EXCEPT !.signalled = TRUE]
        /\ daemon.phase # "exited" => mode' = "stopping"
    BY <1>3 DEF StopSignals, Goto
  <2>2. daemon.phase = "ready" /\ ~daemon.hung
    BY <1>1, <2>1 DEF ServerHealthy
  <2>3. ~daemon'.hung
    BY <2>1, <2>2
  <2>4. ServerHealthy'
    BY <1>1, <2>1, <2>2, <2>3 DEF ServerHealthy, place
  <2>. QED  BY <2>1, <2>4, ServerStays
<1>4. CASE Stopped
  <2>1. mode' = "leave" /\ UNCHANGED <<place, failing, child, sessions>>
    BY <1>4 DEF Stopped, Goto
  <2>2. ServerHealthy'
    BY <1>1, <2>1 DEF ServerHealthy, place
  <2>. QED  BY <2>1, <2>2, ServerStays
<1>. QED  BY <1>2, <1>3, <1>4

LEMMA ServerIsStopped ==
  ASSUME SmokeInv, Healthy, IInv, Serving, mode # "ok", DaemonTerminated
  PROVE  Healthy' /\ IInv'
<1>1. /\ DaemonRuns /\ daemon.signalled /\ daemon' = [daemon EXCEPT !.phase = "exited"]
      /\ UNCHANGED <<place, mode, failing, child, sessions>>
  BY DEF DaemonTerminated, DaemonExits, harness
<1>2. ServerHealthy /\ step \in 1 .. 18
  BY AtServer
<1>3. mode \in {"stopping", "leave"}
  <2>1. ~Ready /\ daemon # NoDaemon
    BY <1>1, ReadyPhase DEF DaemonRuns
  <2>2. mode # "starting"
    BY <1>1, <1>2 DEF ServerHealthy, NoDaemon
  <2>. QED  BY <1>1, <1>2, <2>1, <2>2 DEF ServerHealthy
<1>4. daemon'.hung = daemon.hung
  BY <1>1
<1>5. ServerHealthy'
  BY <1>1, <1>2, <1>3, <1>4 DEF ServerHealthy, place
<1>. QED  BY <1>1, <1>5, ServerStays

LEMMA ChildWell ==
  ASSUME SmokeInv, Healthy, IInv, Child \/ Terminated
  PROVE  Healthy' /\ IInv'
<1>1. CASE Terminated \/ Disconnected
  <2>1. Running /\ (child.signalled \/ mode \in Ended)
    BY <1>1 DEF Terminated, Disconnected, Works
  <2>2. mode = "wait" /\ ~child.signalled
    BY <2>1, RunningWaits DEF Healthy
  <2>. QED  BY <2>1, <2>2 DEF Ended
<1>. QED  BY <1>1, AsksWell, AnswersWell, RunEndsWell, OtherEndsWell DEF Child

LEMMA StageWell ==
  ASSUME SmokeInv, Healthy, IInv, ~Serving, mode # "ok", Script \/ Listens \/ DaemonTerminated
  PROVE  Healthy' /\ IInv'
<1>1. /\ mode \in {"issue", "wait", "close", "leave"} /\ daemon = NoDaemon /\ ~failing
      /\ ~child.hung
  BY DEF Healthy, StageHealthy
<1>2. ~DaemonRuns
  BY <1>1, ReadyPhase DEF DaemonRuns
<1>3. ~Timeout /\ ~Throw /\ ~StartResolves /\ ~StartRejects /\ ~FetchTries /\ ~FetchGivesUp
  BY <1>1 DEF Timeout, Throw, StartResolves, StartRejects, FetchTries, FetchGivesUp
<1>4. ~StopSignals /\ ~Stopped /\ ~StopTimesOut /\ ~Listens /\ ~DaemonTerminated
  BY <1>1, <1>2 DEF StopSignals, Stopped, StopTimesOut, Listens, DaemonWorks, DaemonTerminated
<1>5. ~StartServer /\ ~FetchStarts /\ ~StreamOnce
  BY ThisIs DEF StartServer, FetchStarts, StreamOnce
<1>. QED  BY <1>3, <1>4, <1>5, SpawnsWell, ChecksWell, StageEndsWell, StageBegins, FinishesWell
          DEF Script

LEMMA ServerWell ==
  ASSUME SmokeInv, Healthy, IInv, Serving, mode # "ok", Script \/ Listens \/ DaemonTerminated,
         faults \in Nat, faults' = faults
  PROVE  Healthy' /\ IInv'
<1>1. ServerHealthy /\ ~failing
  BY AtServer
<1>2. mode \in {"issue", "starting", "fetch", "stop", "stopping", "leave"}
  BY <1>1 DEF ServerHealthy
<1>3. ~Spawn
  BY ThisIs DEF Spawn
<1>4. ~Timeout /\ ~Check /\ ~Leave /\ ~Throw
  BY <1>1, <1>2 DEF Timeout, Check, Leave, Closes, Throw
<1>5. ~StartRejects
  <2>. SUFFICES ASSUME StartRejects PROVE FALSE
    OBVIOUS
  <2>1. mode = "starting" /\ (daemon.phase = "exited" \/ daemon.hung)
    BY DEF StartRejects
  <2>2. PICK ph \in {"starting", "ready"} : daemon = [NoDaemon EXCEPT !.phase = ph]
    BY <1>1, <2>1 DEF ServerHealthy
  <2>3. daemon.phase = ph /\ ~daemon.hung
    BY <2>2 DEF NoDaemon
  <2>. QED  BY <2>1, <2>2, <2>3
<1>6. ~FetchGivesUp
  <2>. SUFFICES ASSUME FetchGivesUp PROVE FALSE
    OBVIOUS
  <2>1. mode = "fetch" /\ (Unanswered \/ Refuses)
    BY DEF FetchGivesUp
  <2>2. PICK n \in 2 .. 17 : n = step /\ Ready
    BY <1>1, <2>1 DEF ServerHealthy
  <2>. QED  BY <2>1, <2>2, ReadyIs DEF Refuses
<1>7. ~StopTimesOut
  BY <1>1, <1>2 DEF StopTimesOut, ServerHealthy
<1>. QED  BY <1>3, <1>4, <1>5, <1>6, <1>7, StageBegins, FinishesWell, ServerStarts, ServerListens,
          ServerStarted, ServerFetches, ServerAnswers, ServerStreams, ServerStops, ServerIsStopped
          DEF Script

LEMMA EndedWell ==
  ASSUME SmokeInv, mode = "ok", Script \/ Listens \/ DaemonTerminated
  PROVE  FALSE
<1>1. ~DaemonRuns /\ ~Running /\ ~failing
  BY DEF SmokeInv, NothingLeftBehind
<1>2. ~Listens /\ ~DaemonTerminated
  BY <1>1 DEF Listens, DaemonWorks, DaemonTerminated
<1>3. ~Spawn /\ ~Timeout /\ ~Check /\ ~CommandsDone /\ ~Leave /\ ~Throw /\ ~NextStage /\ ~Finish
  BY DEF Spawn, Timeout, Check, CommandsDone, Leave, Closes, Throw, NextStage, Finish
<1>4. ~StartServer /\ ~StartResolves /\ ~StartRejects /\ ~FetchStarts /\ ~FetchTries
  BY DEF StartServer, StartResolves, StartRejects, FetchStarts, FetchTries
<1>5. ~FetchGivesUp /\ ~StreamOnce /\ ~StopSignals /\ ~Stopped /\ ~StopTimesOut
  BY DEF FetchGivesUp, StreamOnce, StopSignals, Stopped, StopTimesOut
<1>. QED  BY <1>2, <1>3, <1>4, <1>5 DEF Script

LEMMA HealthyStays ==
  ASSUME SmokeInv, Healthy, IInv, UNCHANGED all
  PROVE  Healthy' /\ IInv'
<1>1. UNCHANGED <<sessions, place, mode, failing, names, served, child, daemon>>
  BY DEF all, harness
<1>2. IInv'
  BY <1>1, InvStays
<1>3. /\ This' = This /\ Now' = Now /\ Here' = Here /\ Serving' = Serving /\ names' = names
      /\ step' = step /\ daemon' = daemon
  BY <1>1, HereStays DEF place
<1>4. CASE mode = "ok"
  BY <1>1, <1>2, <1>4 DEF Healthy
<1>5. CASE mode # "ok" /\ Serving
  <2>1. ServerHealthy'
    BY <1>1, <1>3, <1>5 DEF Healthy, ServerHealthy, Ready
  <2>. QED  BY <1>1, <1>2, <1>3, <1>5, <2>1 DEF Healthy
<1>6. CASE mode # "ok" /\ ~Serving
  <2>1. mode = "issue" => Book(Here, names)'
    <3>1. ASSUME mode = "issue" PROVE Book(Here, names)'
      <4>1. PICK l : l = Here
        OBVIOUS
      <4>2. Book(l, names)
        BY <1>6, <3>1, <4>1 DEF Healthy, StageHealthy
      <4>3. Book(l, names)'
        BY <1>1, <4>2, BookStays
      <4>4. l = Here'
        BY <1>3, <4>1
      <4>. QED  BY <4>3, <4>4, ToBook
    <3>. QED  BY <3>1
  <2>2. mode = "wait" => ChildHealthy'
    <3>1. ASSUME mode = "wait" PROVE ChildHealthy'
      <4>1. PICK l, c, m, om : l = Here /\ c = Now /\ m = Entered(Here, Now) /\ om = NewNames
        OBVIOUS
      <4>2. ChildHealthy
        BY <3>1, AtChild
      <4>3. UNCHANGED <<db, cli, clock>>
        BY <1>1 DEF sessions, vars
      <4>4. Conversing'
        BY <1>1, <1>3, <4>2 DEF ChildHealthy, Conversing, Conversed, ToolsDone, DenialDone
      <4>5. l = Here' /\ c = Now' /\ NewNames' = NewNames /\ m = Entered(Here, Now)'
        BY <1>1, <1>3, <4>1, <4>3 DEF NewNames
      <4>6. CASE IsRun /\ child.phase = "running"
        <5>1. Rows(l, names) /\ AtWork(l, c)
          BY <4>1, <4>2, <4>6 DEF ChildHealthy, RunChild
        <5>2. Rows(l, names)'
          BY <1>1, <4>3, <5>1, RowsStay
        <5>3. AtWork(l, c)'
          BY <1>1, <4>3, <5>1 DEF AtWork, Taken, Stored
        <5>4. Rows(Here, names)' /\ AtWork(Here, Now)'
          BY <4>5, <5>2, <5>3, ToRows, ToWork
        <5>5. RunChild'
          BY <1>1, <1>3, <4>2, <4>6, <5>4 DEF ChildHealthy, RunChild
        <5>. QED  BY <1>1, <1>3, <4>2, <4>4, <4>6, <5>5 DEF ChildHealthy, IsRun
      <4>7. CASE IsRun /\ child.phase # "running"
        <5>1. Book(m, om)
          BY <4>1, <4>2, <4>7 DEF ChildHealthy, RunChild
        <5>2. Book(m, om)'
          <6>1. Rows(m, om)'
            <7>1. Stored' = Stored
              BY <4>3 DEF Stored
            <7>2. \A s : Turns(s)' = Turns(s)
              BY <4>3 DEF Turns
            <7>3. \A n \in Known(m) : Entry(m, om, n)'
              BY <4>3, <5>1, <7>2 DEF Book, Rows, Entry
            <7>. QED  BY <5>1, <7>1, <7>3 DEF Book, Rows
          <6>2. Finished(m)'
            BY <4>3, <5>1 DEF Book, Finished, Taken
          <6>. QED  BY <6>1, <6>2 DEF Book
        <5>3. om = NewNames'
          BY <4>1, <4>5
        <5>4. Book(Entered(Here, Now), NewNames)'
          BY <4>5, <5>2, <5>3, ToAfter
        <5>5. RunChild'
          BY <1>1, <1>3, <4>2, <4>3, <4>7, <5>4 DEF ChildHealthy, RunChild
        <5>. QED  BY <1>1, <1>3, <4>2, <4>4, <4>7, <5>5 DEF ChildHealthy, IsRun
      <4>8. CASE ~IsRun
        <5>1. Book(l, names)
          BY <4>1, <4>2, <4>8 DEF ChildHealthy, PlainChild
        <5>2. Book(l, names)'
          BY <1>1, <5>1, BookStays
        <5>3. Book(Here, names)'
          BY <4>5, <5>2, ToBook
        <5>4. PlainChild'
          BY <1>1, <1>3, <4>2, <4>8, <5>3 DEF ChildHealthy, PlainChild
        <5>. QED  BY <1>1, <1>3, <4>2, <4>4, <4>8, <5>4 DEF ChildHealthy, IsRun
      <4>. QED  BY <4>6, <4>7, <4>8
    <3>. QED  BY <3>1
  <2>3. StageHealthy'
    BY <1>1, <1>3, <1>6, <2>1, <2>2 DEF Healthy, StageHealthy
  <2>. QED  BY <1>1, <1>2, <1>3, <1>6, <2>3 DEF Healthy
<1>. QED  BY <1>4, <1>5, <1>6

-----------------------------------------------------------------------------
(* As long as nothing has gone wrong.                                      *)
HealthyInv == SmokeInv /\ faults \in Nat /\ (faults = 0 => Healthy /\ IInv)

LEMMA HealthyInit == SmokeInit => HealthyInv
<1>. SUFFICES ASSUME SmokeInit PROVE HealthyInv
  OBVIOUS
<1>1. /\ SmokeInv /\ faults \in Nat /\ IInv
      /\ Init /\ step = 1 /\ mode = "issue" /\ ~failing /\ served = 0
      /\ names = [n \in Names |-> NoSession] /\ child = NoChild /\ daemon = NoDaemon
  BY SmokeInitInv, InitInv DEF SmokeInit
<1>2. names \in [Names -> Ids \cup {NoSession}] /\ names[""] = NoSession
  BY <1>1 DEF Names
<1>3. child \in ChildState /\ ~child.hung /\ ~child.signalled
  BY <1>1 DEF NoChild, ChildState
<1>4. CASE Serving
  <2>1. ServerHealthy
    BY <1>1 DEF ServerHealthy
  <2>. QED  BY <1>1, <1>3, <1>4, <2>1 DEF HealthyInv, Healthy
<1>5. CASE ~Serving
  <2>1. Here = Blank /\ Len(This.commands) \in Nat
    BY <1>1, <1>5, HereIs
  <2>2. PICK l : l = Blank
    OBVIOUS
  <2>3. Known(l) = {} /\ l.runs = 0
    BY <2>2, BlankIs DEF Shape
  <2>4. Rows(l, names)
    BY <1>1, <1>2, <2>3 DEF Rows, Init, Stored
  <2>5. Finished(l)
    <3>1. {p \in Clients : cli[p].phase # "waiting"} = {}
      BY <1>1 DEF Init, Waiting
    <3>2. 1 .. l.runs = {}
      BY <2>3, NoneBefore, Zenon
    <3>3. Taken(l.runs)
      BY <3>1, <3>2 DEF Taken
    <3>4. ~(l.runs > 0)
      BY ONLY <2>3
    <3>5. \A p \in 1 .. l.runs : FALSE
      BY <3>2
    <3>. QED  BY <3>3, <3>4, <3>5 DEF Finished
  <2>6. Book(Here, names)
    BY <2>1, <2>2, <2>4, <2>5 DEF Book
  <2>7. 1 <= Len(This.commands) + 1
    BY <2>1
  <2>8. StageHealthy
    BY <1>1, <2>6, <2>7 DEF StageHealthy
  <2>. QED  BY <1>1, <1>3, <1>5, <2>8 DEF HealthyInv, Healthy
<1>. QED  BY <1>4, <1>5

LEMMA HealthyNext == HealthyInv /\ [SmokeNext]_all => HealthyInv'
<1>. SUFFICES ASSUME HealthyInv, [SmokeNext]_all PROVE HealthyInv'
  OBVIOUS
<1>1. SmokeInv /\ SmokeInv' /\ faults \in Nat
  BY SmokeNextInv DEF HealthyInv
<1>2. faults' = faults \/ (faults' = faults + 1 /\ Fault)
  <2>1. CASE UNCHANGED all
    BY <2>1 DEF all
  <2>2. CASE Script
    BY <2>2 DEF Script, Spawn, Timeout, Check, CommandsDone, Leave, Throw, NextStage, Finish,
      StartServer, StartResolves, StartRejects, FetchStarts, FetchTries, FetchGivesUp, StreamOnce,
      StopSignals, Stopped, StopTimesOut, Fault
  <2>3. CASE Child \/ Terminated \/ Listens \/ DaemonTerminated
    BY <2>3 DEF Child, Terminated, Listens, DaemonTerminated, Asks, Answer, Disconnected, RunEnds, OtherEnds
  <2>4. CASE Faulty
    BY <2>4 DEF Faulty, Crash, Hang, DaemonCrash, DaemonHangs, Fault
  <2>. QED  BY <2>1, <2>2, <2>3, <2>4 DEF SmokeNext
<1>3. faults' \in Nat /\ (faults' = 0 => faults = 0)
  BY <1>1, <1>2
<1>4. ASSUME faults' = 0 PROVE Healthy' /\ IInv'
  <2>1. faults = 0 /\ faults' = faults /\ Healthy /\ IInv
    BY <1>3, <1>4 DEF HealthyInv
  <2>2. CASE UNCHANGED all
    BY <1>1, <2>1, <2>2, HealthyStays
  <2>3. CASE Child \/ Terminated
    BY <1>1, <2>1, <2>3, ChildWell
  <2>4. CASE Script \/ Listens \/ DaemonTerminated
    BY <1>1, <2>1, <2>4, StageWell, ServerWell, EndedWell
  <2>5. CASE Faulty
    <3>1. faults' = faults + 1
      BY <2>5 DEF Faulty, Crash, Hang, DaemonCrash, DaemonHangs, Fault
    <3>. QED  BY <2>1, <3>1
  <2>. QED  BY <2>2, <2>3, <2>4, <2>5 DEF SmokeNext
<1>. QED  BY <1>1, <1>3, <1>4 DEF HealthyInv

(* As long as no child dies or hangs and no answer is lost, no assertion   *)
(* of either acceptance script fails (Check, Passes, FetchTries).          *)
THEOREM HealthyPasses == SmokeSpec => []HealthyScriptPasses
<1>1. HealthyInv => HealthyScriptPasses
  BY DEF HealthyInv, Healthy, HealthyScriptPasses
<1>. QED  BY <1>1, HealthyInit, HealthyNext, PTL DEF SmokeSpec
=============================================================================
