------------------------------- MODULE RwLock -------------------------------
(***************************************************************************)
(* The keyed read/write lock of src/opencodehx/util/Lock.hx, for one key.  *)
(*                                                                         *)
(* A static map holds one LockState per key; Lock.read and Lock.write      *)
(* fetch it, or create it, and capture it in the closures they hand out.   *)
(* Releasing a handle changes the captured object, but the wake-up that    *)
(* follows looks the key up again, so the two can differ.  The module      *)
(* therefore keeps the identity of the lock objects: entry is what the map *)
(* holds for the key, obj[c] what client c captured.  An object nobody     *)
(* refers to any more is garbage and may be allocated again.               *)
(*                                                                         *)
(* JavaScript runs each call to completion, so every call is one action.   *)
(***************************************************************************)
EXTENDS Naturals, Sequences, FiniteSets

CONSTANTS Clients,  (* callers; each owns at most one LockHandle at a time *)
          Objects,  (* identities of LockState objects                     *)
          NoLock    (* the key is absent from the map                      *)

ASSUME ConstantsAssumption ==
  /\ IsFiniteSet(Clients)
  /\ NoLock \notin Objects

VARIABLES entry,    (* locks.get(key)                                      *)
          lock,     (* the fields of every lock object                     *)
          phase,    (* what became of each client's call                   *)
          mode,     (* which kind of lock it asked for                     *)
          obj       (* the lock object its closures captured               *)

vars == <<entry, lock, phase, mode, obj>>

LockState == [readers : Nat, writer : BOOLEAN,
              waitingReaders : Seq(Clients), waitingWriters : Seq(Clients)]

NewLockState == [readers |-> 0, writer |-> FALSE,
                 waitingReaders |-> <<>>, waitingWriters |-> <<>>]

Elements(s) == {s[i] : i \in 1..Len(s)}

(* Objects that Lock.get may return to client c: the map's entry, or, when *)
(* there is none, a new object, that is one no other client's handle keeps *)
(* alive.                                                                  *)
Gettable(c) ==
  IF entry # NoLock THEN {entry}
  ELSE {o \in Objects : \A d \in Clients \ {c} : phase[d] # "idle" => obj[d] # o}

Fetched(o) == IF entry = NoLock THEN NewLockState ELSE lock[o]

(* Forms a defect in Lock.hx would give, kept for the mutation checks.     *)
CanReadPastWriters(l) == ~l.writer
CanWriteOverReaders(l) == ~l.writer

CanRead(l) == ~l.writer /\ l.waitingWriters = <<>>

CanWrite(l) == ~l.writer /\ l.readers = 0

(* A request sets entry to the object it works on and replaces the         *)
(* client's previous, already disposed, handle.                            *)
Request(c, o, m, newPhase, newState) ==
  /\ entry' = o
  /\ lock' = [lock EXCEPT ![o] = newState]
  /\ phase' = [phase EXCEPT ![c] = newPhase]
  /\ mode' = [mode EXCEPT ![c] = m]
  /\ obj' = [obj EXCEPT ![c] = o]

ReadAcquire(c) ==
  /\ phase[c] \in {"idle", "released"}
  /\ \E o \in Gettable(c) :
       LET l == Fetched(o) IN
       /\ CanRead(l)
       /\ Request(c, o, "read", "holding", [l EXCEPT !.readers = @ + 1])

ReadWait(c) ==
  /\ phase[c] \in {"idle", "released"}
  /\ \E o \in Gettable(c) :
       LET l == Fetched(o) IN
       /\ ~CanRead(l)
       /\ Request(c, o, "read", "waiting",
                  [l EXCEPT !.waitingReaders = Append(@, c)])

WriteAcquire(c) ==
  /\ phase[c] \in {"idle", "released"}
  /\ \E o \in Gettable(c) :
       LET l == Fetched(o) IN
       /\ CanWrite(l)
       /\ Request(c, o, "write", "holding", [l EXCEPT !.writer = TRUE])

WriteWait(c) ==
  /\ phase[c] \in {"idle", "released"}
  /\ \E o \in Gettable(c) :
       LET l == Fetched(o) IN
       /\ ~CanWrite(l)
       /\ Request(c, o, "write", "waiting",
                  [l EXCEPT !.waitingWriters = Append(@, c)])

Dropped(l, m) ==
  IF m = "read" THEN [l EXCEPT !.readers = @ - 1] ELSE [l EXCEPT !.writer = FALSE]

ProcessedWritersOnly(l) ==
  IF l.writer \/ l.readers > 0 \/ l.waitingWriters = <<>> THEN l
  ELSE [l EXCEPT !.writer = TRUE, !.waitingWriters = Tail(@)]

ProcessedReadersFirst(l) ==
  IF l.writer \/ l.readers > 0 THEN l
  ELSE IF l.waitingReaders # <<>>
    THEN [l EXCEPT !.readers = Len(l.waitingReaders), !.waitingReaders = <<>>]
    ELSE IF l.waitingWriters # <<>>
      THEN [l EXCEPT !.writer = TRUE, !.waitingWriters = Tail(@)] ELSE l

(* Lock.process: one waiting writer, else every waiting reader.            *)
Processed(l) ==
  IF l.writer \/ l.readers > 0 THEN l
  ELSE IF l.waitingWriters # <<>>
    THEN [l EXCEPT !.writer = TRUE, !.waitingWriters = Tail(@)]
    ELSE [l EXCEPT !.readers = Len(l.waitingReaders), !.waitingReaders = <<>>]

Queued(l) == Elements(l.waitingReaders) \cup Elements(l.waitingWriters)

Unused(l) ==
  /\ l.readers = 0
  /\ ~l.writer
  /\ l.waitingReaders = <<>>
  /\ l.waitingWriters = <<>>

(* What a release does: the captured object loses the holder, then the     *)
(* object the map holds now, if any, is processed.                         *)
Release(c) ==
  LET dropped == [lock EXCEPT ![obj[c]] = Dropped(@, mode[c])]
      after   == Processed(dropped[entry])
      ph      == [phase EXCEPT ![c] = "released"]
  IN  /\ UNCHANGED <<mode, obj>>
      /\ IF entry = NoLock
           THEN lock' = dropped /\ phase' = ph /\ UNCHANGED entry
           ELSE /\ lock' = [dropped EXCEPT ![entry] = after]
                /\ phase' = [d \in Clients |->
                     IF d \in Queued(dropped[entry]) \ Queued(after) THEN "holding" ELSE ph[d]]
                /\ entry' = IF Unused(after) THEN NoLock ELSE entry

Dispose(c) ==
  /\ phase[c] = "holding"
  /\ Release(c)

DisposeAgainReleases(c) == phase[c] = "released" /\ Release(c)

(* LockHandle.dispose on a handle already released returns at once.        *)
DisposeAgain(c) ==
  /\ phase[c] = "released"
  /\ UNCHANGED vars

Init ==
  /\ entry = NoLock
  /\ lock = [o \in Objects |-> NewLockState]
  /\ phase = [c \in Clients |-> "idle"]
  /\ mode = [c \in Clients |-> "read"]
  /\ obj = [c \in Clients |-> NoLock]

Next ==
  \E c \in Clients :
    \/ ReadAcquire(c)
    \/ ReadWait(c)
    \/ WriteAcquire(c)
    \/ WriteWait(c)
    \/ Dispose(c)
    \/ DisposeAgain(c)

Spec == Init /\ [][Next]_vars

(* A caller that holds the lock disposes of its handle in the end: what    *)
(* every user of a lock owes to the others.                                *)
FairSpec == Spec /\ \A c \in Clients : WF_vars(Dispose(c))

-----------------------------------------------------------------------------

TypeOK ==
  /\ entry \in Objects \cup {NoLock}
  /\ lock \in [Objects -> LockState]
  /\ phase \in [Clients -> {"idle", "waiting", "holding", "released"}]
  /\ mode \in [Clients -> {"read", "write"}]
  /\ obj \in [Clients -> Objects \cup {NoLock}]

Active(c) == phase[c] \in {"waiting", "holding"}

Holders(m) == {c \in Clients : phase[c] = "holding" /\ mode[c] = m}

Waiters(m) == {c \in Clients : phase[c] = "waiting" /\ mode[c] = m}

(* A writer holds the lock alone, whatever lock objects the requests of    *)
(* the key were served from (Lock.read and Lock.write, lines 18 and 35).   *)
MutualExclusion ==
  \A c, d \in Clients :
    phase[c] = "holding" /\ phase[d] = "holding" /\ mode[c] = "write" => c = d

(* Nobody waits on a lock that nobody holds: every release hands the lock  *)
(* on (Lock.process), since no other event would wake the waiter.          *)
NoLostWakeup ==
  (\E c \in Clients : phase[c] = "waiting") => (\E c \in Clients : phase[c] = "holding")

(* Everyone who waits or holds does so on the object the map has for the   *)
(* key: the map never drops an object still in use (Lock.process, line 68) *)
(* so two generations of the lock never live at once.                      *)
OneLiveObject == \A c \in Clients : Active(c) => obj[c] = entry /\ entry # NoLock

NoRepeats(s) == \A i, j \in 1..Len(s) : s[i] = s[j] => i = j

Agrees(l) ==
  /\ l.readers = Cardinality(Holders("read"))
  /\ l.writer <=> Holders("write") # {}
  /\ Elements(l.waitingReaders) = Waiters("read")
  /\ Elements(l.waitingWriters) = Waiters("write")
  /\ NoRepeats(l.waitingReaders)
  /\ NoRepeats(l.waitingWriters)

(* The counters and queues of the live object say who holds and who waits, *)
(* each waiter once, even when handles are disposed of twice (lines 82-87).*)
BookkeepingAgrees == entry # NoLock => Agrees(lock[entry])

(* A reader never gets the lock past a writer that already waits: a grant  *)
(* to a reader means no writer was queued (writer preference, read line 18 *)
(* and process lines 56-60; docs/util-port.md "writer-priority wakeup").   *)
WriterPreference ==
  [][ \A c \in Clients :
        (c \notin Holders("read") /\ c \in Holders("read")') => Waiters("write") = {} ]_vars

(* Every writer is served once holders release: later readers and writers  *)
(* cannot overtake it for ever.                                            *)
WriterServed ==
  \A c \in Clients : (c \in Waiters("write")) ~> (c \in Holders("write"))

=============================================================================
