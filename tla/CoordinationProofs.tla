---------------------------- MODULE CoordinationProofs ----------------------
(***************************************************************************)
(* What callers that overlap share, and wait on: a lock, a run, and the    *)
(* refresh of an account's tokens.                                         *)
(*                                                                         *)
(* The lock of Lock.hx is correct for any finite set of clients and any    *)
(* set of lock objects.  The invariant that carries the proof is that the  *)
(* counters and queues of the one live object mirror the clients (Agrees); *)
(* mutual exclusion alone is not inductive, since it says nothing of what  *)
(* a release finds in the queues.                                          *)
(*                                                                         *)
(* The runner of RunnerRuntime.hx is correct for any callers, runs and     *)
(* cancels: nobody without an answer is forgotten, every answer comes from *)
(* the run that was asked for, and nobody queues on an idle runner.  What  *)
(* ties these together is that the waiters are callers of the current run  *)
(* and each batch that awaits an onInterrupt is of one earlier run (Owed). *)
(*                                                                         *)
(* The tokens of AccountService.hx are right for any accounts, calls and   *)
(* logins.  The three properties rest on what refreshes says: it names the *)
(* refresh of an account that is in flight, and nothing else (Flight); so  *)
(* whoever waits waits for a refresh of its account that is still to end   *)
(* (Waits), and what is in flight descends from the last login (Descent).  *)
(***************************************************************************)
EXTENDS RwLock, Runner, AccountService, SequenceTheorems, FiniteSetTheorems, TLAPS

-----------------------------------------------------------------------------
(* The lock.                                                               *)

(* Queues without repetitions.                                             *)

(* Appending to a wait queue adds exactly the new waiter.                  *)
LEMMA AppendQueue ==
  ASSUME NEW S, NEW s \in Seq(S), NEW x \in S
  PROVE  /\ Append(s, x) \in Seq(S)
         /\ Elements(Append(s, x)) = Elements(s) \cup {x}
         /\ NoRepeats(s) /\ x \notin Elements(s) => NoRepeats(Append(s, x))
<1>1. /\ Append(s, x) \in Seq(S)
      /\ Len(Append(s, x)) = Len(s) + 1
      /\ \A i \in 1..Len(s) : Append(s, x)[i] = s[i]
      /\ Append(s, x)[Len(s) + 1] = x
  BY AppendProperties
<1>2. Len(s) \in Nat
  OBVIOUS
<1>3. Elements(Append(s, x)) = Elements(s) \cup {x}
  BY <1>1, <1>2 DEF Elements
<1>4. NoRepeats(s) /\ x \notin Elements(s) => NoRepeats(Append(s, x))
  BY <1>1, <1>2 DEF Elements, NoRepeats
<1>. QED  BY <1>1, <1>3, <1>4

(* Shifting a wait queue removes exactly its head.                         *)
LEMMA ShiftQueue ==
  ASSUME NEW S, NEW s \in Seq(S), s # <<>>, NoRepeats(s)
  PROVE  /\ Head(s) \in S
         /\ Head(s) \in Elements(s)
         /\ Tail(s) \in Seq(S)
         /\ Elements(Tail(s)) = Elements(s) \ {Head(s)}
         /\ NoRepeats(Tail(s))
<1>1. /\ Head(s) \in S
      /\ Tail(s) \in Seq(S)
      /\ Len(Tail(s)) = Len(s) - 1
      /\ \A i \in 1..Len(Tail(s)) : Tail(s)[i] = s[i + 1]
  BY HeadTailProperties
<1>2. Len(s) \in Nat \ {0} /\ Head(s) = s[1]
  BY EmptySeq
<1>3. Head(s) \in Elements(s)
  BY <1>2 DEF Elements
<1>4. Elements(Tail(s)) \subseteq Elements(s) \ {Head(s)}
  <2>1. SUFFICES ASSUME NEW i \in 1..Len(Tail(s))
                 PROVE  Tail(s)[i] \in Elements(s) /\ Tail(s)[i] # s[1]
    BY <1>2 DEF Elements
  <2>2. i + 1 \in 1..Len(s) /\ 1 \in 1..Len(s) /\ i + 1 # 1
    BY <1>1, <1>2
  <2>. QED  BY <1>1, <2>2 DEF Elements, NoRepeats
<1>5. Elements(s) \ {Head(s)} \subseteq Elements(Tail(s))
  <2>1. SUFFICES ASSUME NEW i \in 1..Len(s), s[i] # s[1]
                 PROVE  s[i] \in Elements(Tail(s))
    BY <1>2 DEF Elements
  <2>2. i - 1 \in 1..Len(Tail(s)) /\ s[i] = Tail(s)[i - 1]
    BY <1>1, <1>2, <2>1
  <2>. QED  BY <2>2 DEF Elements
<1>6. NoRepeats(Tail(s))
  BY <1>1, <1>2 DEF NoRepeats
<1>. QED  BY <1>1, <1>3, <1>4, <1>5, <1>6

(* A queue without repetitions is as long as its set of elements.          *)
LEMMA QueueLength ==
  ASSUME NEW S, NEW s \in Seq(S), NoRepeats(s)
  PROVE  Cardinality(Elements(s)) = Len(s)
<1>1. Len(s) \in Nat /\ s \in [1..Len(s) -> Elements(s)]
  BY LenProperties DEF Elements
<1>2. s \in Bijection(1..Len(s), Elements(s))
  BY <1>1 DEF Bijection, Injection, Surjection, IsInjective, NoRepeats, Elements
<1>. QED  BY <1>1, <1>2, FS_CountingElements DEF ExistsBijection

LEMMA NoElements ==
  ASSUME NEW S, IsFiniteSet(S)
  PROVE  Cardinality(S) = 0 <=> S = {}
BY FS_EmptySet

LEMMA EmptyQueue == Elements(<<>>) = {} /\ NoRepeats(<<>>)
BY DEF Elements, NoRepeats

-----------------------------------------------------------------------------
(* The inductive invariant.                                                *)

IInv ==
  /\ TypeOK
  /\ OneLiveObject
  /\ BookkeepingAgrees
  /\ MutualExclusion
  /\ NoLostWakeup

LEMMA HoldersFinite ==
  ASSUME NEW m PROVE IsFiniteSet(Holders(m))
BY ConstantsAssumption, FS_Subset DEF Holders

LEMMA HoldersFinitePrimed ==
  ASSUME NEW m PROVE IsFiniteSet(Holders(m)')
BY ConstantsAssumption, FS_Subset DEF Holders

(* What Lock.get hands to a caller agrees with the clients' state: it is   *)
(* the live object, or a new one that nobody uses.                         *)
LEMMA FetchedAgrees ==
  ASSUME IInv, NEW c \in Clients, NEW o \in Gettable(c)
  PROVE  /\ o \in Objects
         /\ Fetched(o) \in LockState
         /\ Agrees(Fetched(o))
         /\ \A d \in Clients : Active(d) => obj[d] = o
<1>. USE DEF IInv, TypeOK
<1>1. CASE entry # NoLock
  BY <1>1 DEF Gettable, Fetched, BookkeepingAgrees, OneLiveObject
<1>2. CASE entry = NoLock
  <2>1. \A d \in Clients : ~Active(d)
    BY <1>2 DEF OneLiveObject
  <2>2. \A m : Holders(m) = {} /\ Waiters(m) = {}
    BY <2>1 DEF Holders, Waiters, Active
  <2>3. Agrees(NewLockState)
    BY <2>2, FS_EmptySet, EmptyQueue DEF Agrees, NewLockState
  <2>4. NewLockState \in LockState
    BY EmptySeq DEF NewLockState, LockState
  <2>. QED  BY <1>2, <2>1, <2>3, <2>4 DEF Gettable, Fetched
<1>. QED  BY <1>1, <1>2

(* A request that keeps the live object in agreement, and adds a holder    *)
(* only where the lock allows one, preserves the invariant.                *)
LEMMA RequestStep ==
  ASSUME IInv, NEW c \in Clients, NEW o \in Objects,
         NEW m \in {"read", "write"}, NEW p \in {"waiting", "holding"},
         NEW l \in LockState,
         Request(c, o, m, p, l),
         \A d \in Clients : Active(d) => obj[d] = o,
         Agrees(l)',
         MutualExclusion', NoLostWakeup'
  PROVE  IInv'
<1>. USE DEF IInv, TypeOK, Request
<1>1. TypeOK'
  OBVIOUS
<1>2. OneLiveObject'
  BY ConstantsAssumption DEF OneLiveObject, Active
<1>3. BookkeepingAgrees'
  BY DEF BookkeepingAgrees, Agrees
<1>. QED  BY <1>1, <1>2, <1>3

LEMMA ReadAcquireStep ==
  ASSUME IInv, NEW c \in Clients, ReadAcquire(c) PROVE IInv'
<1>. USE DEF TypeOK
<1>. PICK o \in Gettable(c) :
       /\ CanRead(Fetched(o))
       /\ Request(c, o, "read", "holding",
                  [Fetched(o) EXCEPT !.readers = @ + 1])
  BY DEF ReadAcquire
<1>. PICK l : l = Fetched(o)
  OBVIOUS
<1>. DEFINE n == [l EXCEPT !.readers = @ + 1]
<1>1. CanRead(l) /\ Request(c, o, "read", "holding", n)
  OBVIOUS
<1>2. o \in Objects /\ l \in LockState /\ Agrees(l)
      /\ \A d \in Clients : Active(d) => obj[d] = o
  BY FetchedAgrees
<1>3. n \in LockState
  BY <1>2 DEF LockState
<1>4. ~l.writer /\ l.waitingWriters = <<>>
  BY <1>1 DEF CanRead
<1>5. phase[c] \in {"idle", "released"}
  BY DEF ReadAcquire
<1>6. /\ Holders("read")' = Holders("read") \cup {c} /\ c \notin Holders("read")
      /\ Holders("write")' = Holders("write")
      /\ Waiters("read")' = Waiters("read")
      /\ Waiters("write")' = Waiters("write")
  BY <1>1, <1>5 DEF Request, Holders, Waiters, IInv
<1>7. Cardinality(Holders("read")') = Cardinality(Holders("read")) + 1
  BY <1>6, HoldersFinite, FS_AddElement
<1>8. Agrees(n)'
  BY <1>2, <1>3, <1>6, <1>7 DEF Agrees, LockState
<1>9. Holders("write") = {}
  BY <1>2, <1>4 DEF Agrees
<1>10. MutualExclusion'
  BY <1>6, <1>9 DEF MutualExclusion, Holders
<1>11. NoLostWakeup'
  BY <1>6 DEF NoLostWakeup, Holders
<1>. QED  BY <1>1, <1>2, <1>3, <1>8, <1>10, <1>11, RequestStep

LEMMA WriteAcquireStep ==
  ASSUME IInv, NEW c \in Clients, WriteAcquire(c) PROVE IInv'
<1>. USE DEF TypeOK
<1>. PICK o \in Gettable(c) :
       /\ CanWrite(Fetched(o))
       /\ Request(c, o, "write", "holding",
                  [Fetched(o) EXCEPT !.writer = TRUE])
  BY DEF WriteAcquire
<1>. PICK l : l = Fetched(o)
  OBVIOUS
<1>. DEFINE n == [l EXCEPT !.writer = TRUE]
<1>1. CanWrite(l) /\ Request(c, o, "write", "holding", n)
  OBVIOUS
<1>2. o \in Objects /\ l \in LockState /\ Agrees(l)
      /\ \A d \in Clients : Active(d) => obj[d] = o
  BY FetchedAgrees
<1>3. n \in LockState
  BY <1>2 DEF LockState
<1>4. Holders("read") = {} /\ Holders("write") = {}
  BY <1>1, <1>2, HoldersFinite, FS_EmptySet DEF CanWrite, Agrees
<1>5. phase[c] \in {"idle", "released"}
  BY DEF WriteAcquire
<1>6. /\ Holders("read")' = Holders("read")
      /\ Holders("write")' = {c}
      /\ Waiters("read")' = Waiters("read")
      /\ Waiters("write")' = Waiters("write")
  BY <1>1, <1>4, <1>5 DEF Request, Holders, Waiters, IInv
<1>7. Agrees(n)'
  BY <1>2, <1>3, <1>6 DEF Agrees, LockState
<1>8. MutualExclusion'
  <2>1. \A d \in Clients : phase'[d] = "holding" => d = c
    BY <1>1, <1>4, <1>6 DEF Holders, IInv, Request
  <2>. QED  BY <2>1 DEF MutualExclusion
<1>9. NoLostWakeup'
  BY <1>6 DEF NoLostWakeup, Holders
<1>. QED  BY <1>1, <1>2, <1>3, <1>7, <1>8, <1>9, RequestStep

(* Whoever must wait finds a holder: the lock refuses a request only while *)
(* somebody holds it.                                                      *)
LEMMA RefusedOnlyWhenHeld ==
  ASSUME IInv, NEW l \in LockState, Agrees(l), ~CanRead(l) \/ ~CanWrite(l)
  PROVE  \E d \in Clients : phase[d] = "holding"
<1>1. CASE l.writer
  BY <1>1 DEF Agrees, Holders
<1>2. CASE l.readers # 0
  BY <1>2, HoldersFinite, FS_EmptySet DEF Agrees, Holders
<1>3. CASE l.waitingWriters # <<>>
  <2>1. l.waitingWriters \in Seq(Clients)
    BY DEF LockState
  <2>2. Len(l.waitingWriters) \in Nat \ {0}
    BY <1>3, <2>1, EmptySeq
  <2>3. l.waitingWriters[1] \in Elements(l.waitingWriters)
    BY <2>2 DEF Elements
  <2>. QED  BY <2>3 DEF Agrees, Waiters, IInv, NoLostWakeup
<1>. QED  BY <1>1, <1>2, <1>3 DEF CanRead, CanWrite

LEMMA ReadWaitStep ==
  ASSUME IInv, NEW c \in Clients, ReadWait(c) PROVE IInv'
<1>. USE DEF TypeOK
<1>. PICK o \in Gettable(c) :
       /\ ~CanRead(Fetched(o))
       /\ Request(c, o, "read", "waiting",
                  [Fetched(o) EXCEPT !.waitingReaders = Append(@, c)])
  BY DEF ReadWait
<1>. PICK l : l = Fetched(o)
  OBVIOUS
<1>. DEFINE n == [l EXCEPT !.waitingReaders = Append(@, c)]
<1>1. ~CanRead(l) /\ Request(c, o, "read", "waiting", n)
  OBVIOUS
<1>2. o \in Objects /\ l \in LockState /\ Agrees(l)
      /\ \A d \in Clients : Active(d) => obj[d] = o
  BY FetchedAgrees
<1>3. n \in LockState
  BY <1>2, AppendProperties DEF LockState
<1>4. phase[c] \in {"idle", "released"}
  BY DEF ReadWait
<1>5. /\ Holders("read")' = Holders("read")
      /\ Holders("write")' = Holders("write")
      /\ Waiters("read")' = Waiters("read") \cup {c} /\ c \notin Waiters("read")
      /\ Waiters("write")' = Waiters("write")
  BY <1>1, <1>4 DEF Request, Holders, Waiters, IInv
<1>6. /\ Elements(n.waitingReaders) = Elements(l.waitingReaders) \cup {c}
      /\ NoRepeats(n.waitingReaders)
  BY <1>2, <1>5, AppendQueue DEF LockState, Agrees
<1>7. Agrees(n)'
  BY <1>2, <1>5, <1>6 DEF Agrees, LockState
<1>8. PICK d \in Clients : phase[d] = "holding"
  BY <1>1, <1>2, RefusedOnlyWhenHeld
<1>9. MutualExclusion'
  BY <1>1, <1>4 DEF MutualExclusion, Request, IInv
<1>10. NoLostWakeup'
  BY <1>1, <1>4, <1>8 DEF NoLostWakeup, Request, IInv
<1>. QED  BY <1>1, <1>2, <1>3, <1>7, <1>9, <1>10, RequestStep

LEMMA WriteWaitStep ==
  ASSUME IInv, NEW c \in Clients, WriteWait(c) PROVE IInv'
<1>. USE DEF TypeOK
<1>. PICK o \in Gettable(c) :
       /\ ~CanWrite(Fetched(o))
       /\ Request(c, o, "write", "waiting",
                  [Fetched(o) EXCEPT !.waitingWriters = Append(@, c)])
  BY DEF WriteWait
<1>. PICK l : l = Fetched(o)
  OBVIOUS
<1>. DEFINE n == [l EXCEPT !.waitingWriters = Append(@, c)]
<1>1. ~CanWrite(l) /\ Request(c, o, "write", "waiting", n)
  OBVIOUS
<1>2. o \in Objects /\ l \in LockState /\ Agrees(l)
      /\ \A d \in Clients : Active(d) => obj[d] = o
  BY FetchedAgrees
<1>3. n \in LockState
  BY <1>2, AppendProperties DEF LockState
<1>4. phase[c] \in {"idle", "released"}
  BY DEF WriteWait
<1>5. /\ Holders("read")' = Holders("read")
      /\ Holders("write")' = Holders("write")
      /\ Waiters("read")' = Waiters("read")
      /\ Waiters("write")' = Waiters("write") \cup {c} /\ c \notin Waiters("write")
  BY <1>1, <1>4 DEF Request, Holders, Waiters, IInv
<1>6. /\ Elements(n.waitingWriters) = Elements(l.waitingWriters) \cup {c}
      /\ NoRepeats(n.waitingWriters)
  BY <1>2, <1>5, AppendQueue DEF LockState, Agrees
<1>7. Agrees(n)'
  BY <1>2, <1>5, <1>6 DEF Agrees, LockState
<1>8. PICK d \in Clients : phase[d] = "holding"
  BY <1>1, <1>2, RefusedOnlyWhenHeld
<1>9. MutualExclusion'
  BY <1>1, <1>4 DEF MutualExclusion, Request, IInv
<1>10. NoLostWakeup'
  BY <1>1, <1>4, <1>8 DEF NoLostWakeup, Request, IInv
<1>. QED  BY <1>1, <1>2, <1>3, <1>7, <1>9, <1>10, RequestStep

(* A release by c works on the live object, which then hands the lock to   *)
(* one waiting writer, or to all waiting readers, or to nobody.            *)
LEMMA DisposeStep ==
  ASSUME IInv, NEW c \in Clients, Dispose(c) PROVE IInv'
<1>. USE DEF TypeOK
<1>. PICK l : l = Dropped(lock[entry], mode[c])
  OBVIOUS
<1>. DEFINE n == Processed(l)
            W == Queued(l) \ Queued(n)
<1>1. /\ phase[c] = "holding" /\ obj[c] = entry /\ entry \in Objects
      /\ lock[entry] \in LockState /\ Agrees(lock[entry])
  BY DEF Dispose, IInv, OneLiveObject, Active, BookkeepingAgrees
<1>2. /\ UNCHANGED <<mode, obj>>
      /\ lock' = [[lock EXCEPT ![entry] = l] EXCEPT ![entry] = n]
      /\ phase' = [d \in Clients |-> IF d \in W THEN "holding"
                                     ELSE [phase EXCEPT ![c] = "released"][d]]
      /\ entry' = IF Unused(n) THEN NoLock ELSE entry
  BY <1>1, ConstantsAssumption DEF Dispose, Release, IInv
<1>3. /\ mode[c] = "read" => /\ c \in Holders("read") /\ Holders("write") = {}
      /\ mode[c] = "write" => Holders("write") = {c} /\ Holders("read") = {}
      /\ mode[c] \in {"read", "write"}
  BY <1>1 DEF IInv, MutualExclusion, Holders
<1>. DEFINE R == Holders("read") \ {c}
<1>4. IsFiniteSet(R) /\ Cardinality(R) \in Nat
  BY HoldersFinite, FS_RemoveElement, FS_CardinalityType
<1>5. /\ l \in LockState
      /\ l.readers = Cardinality(R)
      /\ l.writer = FALSE
      /\ l.waitingReaders = lock[entry].waitingReaders
      /\ l.waitingWriters = lock[entry].waitingWriters
  <2>1. CASE mode[c] = "read"
    <3>1. Cardinality(R) = Cardinality(Holders("read")) - 1
      BY <1>3, <2>1, HoldersFinite, FS_RemoveElement
    <3>. QED  BY <1>1, <1>3, <1>4, <2>1, <3>1 DEF Dropped, LockState, Agrees
  <2>2. CASE mode[c] = "write"
    <3>1. R = Holders("read")
      BY <1>3, <2>2
    <3>. QED  BY <1>1, <1>3, <1>4, <2>2, <3>1 DEF Dropped, LockState, Agrees
  <2>. QED  BY <1>3, <2>1, <2>2
<1>6. /\ Elements(l.waitingReaders) = Waiters("read")
      /\ Elements(l.waitingWriters) = Waiters("write")
      /\ NoRepeats(l.waitingReaders) /\ NoRepeats(l.waitingWriters)
      /\ l.waitingReaders \in Seq(Clients) /\ l.waitingWriters \in Seq(Clients)
  BY <1>1, <1>5 DEF Agrees, LockState
<1>7. /\ c \notin Waiters("read") /\ c \notin Waiters("write")
      /\ Waiters("read") \cap Waiters("write") = {}
      /\ Waiters("read") \subseteq Clients /\ Waiters("write") \subseteq Clients
  BY <1>1 DEF Waiters
<1>8. W \subseteq Queued(l) /\ c \notin W
  BY <1>6, <1>7 DEF Queued
<1>8a. /\ Holders("read")' = R \cup (W \cap Waiters("read"))
       /\ Holders("write")' = W \cap Waiters("write")
       /\ Waiters("read")' = Waiters("read") \ W
       /\ Waiters("write")' = Waiters("write") \ W
  <2>1. \A m \in {"read", "write"} :
          /\ Holders(m)' = (Holders(m) \ {c}) \cup (W \cap Waiters(m))
          /\ Waiters(m)' = Waiters(m) \ W
    <3>1. W \subseteq {d \in Clients : phase[d] = "waiting"}
      BY <1>6, <1>8 DEF Queued, Waiters
    <3>2. \A d \in Clients : /\ d \in W => phase'[d] = "holding"
                             /\ d = c => phase'[d] = "released"
                             /\ d \notin W /\ d # c => phase'[d] = phase[d]
                             /\ mode'[d] = mode[d]
      BY <1>2, <1>8 DEF IInv
    <3>. QED  BY <1>1, <3>1, <3>2 DEF Holders, Waiters
  <2>2. Holders("write") \ {c} = {}
    BY <1>3
  <2>. QED  BY <2>1, <2>2
<1>9. /\ n \in LockState
      /\ Agrees(n)'
      /\ MutualExclusion'
      /\ NoLostWakeup'
  <2>1. CASE l.readers > 0
    <3>1. n = l /\ W = {}
      BY <2>1 DEF Processed
    <3>2. R # {}
      BY <1>5, <2>1, FS_EmptySet
    <3>3. /\ Holders("read")' = R /\ Holders("write")' = {}
          /\ Waiters("read")' = Waiters("read") /\ Waiters("write")' = Waiters("write")
      BY <1>8a, <3>1
    <3>4. Agrees(n)'
      BY <1>5, <1>6, <3>1, <3>3 DEF Agrees
    <3>5. MutualExclusion'
      BY <1>2, <3>3 DEF MutualExclusion, Holders
    <3>6. NoLostWakeup'
      BY <3>2, <3>3 DEF NoLostWakeup, Holders
    <3>. QED  BY <1>5, <3>1, <3>4, <3>5, <3>6
  <2>2. CASE ~(l.readers > 0) /\ l.waitingWriters # <<>>
    <3>1. R = {} /\ l.readers = 0
      <4>1. l.readers = 0
        BY <1>4, <1>5, <2>2
      <4>2. Cardinality(R) = 0
        BY <1>5, <4>1
      <4>. HIDE DEF R
      <4>3. R = {}
        BY <1>4, <4>2, NoElements
      <4>. QED  BY <4>1, <4>3
    <3>2. n = [l EXCEPT !.writer = TRUE, !.waitingWriters = Tail(@)]
      BY <1>5, <2>2 DEF Processed
    <3>. DEFINE w == Head(l.waitingWriters)
    <3>3. /\ w \in Waiters("write")
          /\ Tail(l.waitingWriters) \in Seq(Clients)
          /\ Elements(Tail(l.waitingWriters)) = Waiters("write") \ {w}
          /\ NoRepeats(Tail(l.waitingWriters))
      BY <1>6, <2>2, ShiftQueue
    <3>4. /\ n \in LockState /\ n.readers = 0 /\ n.writer = TRUE
          /\ n.waitingReaders = l.waitingReaders
          /\ n.waitingWriters = Tail(l.waitingWriters)
      BY <1>5, <3>1, <3>2, <3>3 DEF LockState
    <3>5. W = {w}
      BY <1>6, <1>7, <3>3, <3>4 DEF Queued
    <3>. HIDE DEF w, W, R
    <3>6. /\ Holders("read")' = {} /\ Holders("write")' = {w}
          /\ Waiters("read")' = Waiters("read")
          /\ Waiters("write")' = Waiters("write") \ {w}
      BY <1>7, <1>8a, <3>1, <3>3, <3>5
    <3>7. Agrees(n)'
      <4>1. Cardinality(Holders("read")') = 0
        BY <3>6, FS_EmptySet
      <4>. QED  BY <1>6, <3>3, <3>4, <3>6, <4>1 DEF Agrees
    <3>8. MutualExclusion'
      <4>1. \A d \in Clients : phase'[d] = "holding" => d = w
        BY <1>2, <3>6 DEF Holders, IInv
      <4>. QED  BY <4>1 DEF MutualExclusion
    <3>9. NoLostWakeup'
      BY <3>6 DEF NoLostWakeup, Holders
    <3>. QED  BY <3>4, <3>7, <3>8, <3>9
  <2>3. CASE ~(l.readers > 0) /\ l.waitingWriters = <<>>
    <3>1. R = {} /\ l.readers = 0
      <4>1. l.readers = 0
        BY <1>4, <1>5, <2>3
      <4>2. Cardinality(R) = 0
        BY <1>5, <4>1
      <4>. HIDE DEF R
      <4>3. R = {}
        BY <1>4, <4>2, NoElements
      <4>. QED  BY <4>1, <4>3
    <3>2. n = [l EXCEPT !.readers = Len(l.waitingReaders), !.waitingReaders = <<>>]
      BY <1>5, <2>3 DEF Processed
    <3>3. /\ Len(l.waitingReaders) = Cardinality(Waiters("read"))
          /\ Len(l.waitingReaders) \in Nat
          /\ Waiters("write") = {}
      BY <1>6, <2>3, QueueLength, EmptyQueue, LenProperties
    <3>4. /\ n \in LockState /\ n.readers = Cardinality(Waiters("read"))
          /\ n.writer = FALSE
          /\ n.waitingReaders = <<>> /\ n.waitingWriters = <<>>
      BY <1>5, <2>3, <3>2, <3>3, EmptySeq DEF LockState
    <3>5. W = Waiters("read")
      BY <1>6, <3>3, <3>4, EmptyQueue DEF Queued
    <3>6. /\ Holders("read")' = Waiters("read") /\ Holders("write")' = {}
          /\ Waiters("read")' = {} /\ Waiters("write")' = {}
      BY <1>8a, <3>1, <3>3, <3>5
    <3>7. Agrees(n)'
      BY <3>4, <3>6, EmptyQueue DEF Agrees
    <3>8. MutualExclusion'
      BY <3>6 DEF MutualExclusion, Holders
    <3>9. NoLostWakeup'
      BY <1>2, <3>6 DEF NoLostWakeup, Waiters, IInv
    <3>. QED  BY <3>4, <3>7, <3>8, <3>9
  <2>. QED  BY <2>1, <2>2, <2>3
<1>10. TypeOK'
  BY <1>1, <1>2, <1>5, <1>9 DEF IInv
<1>11. OneLiveObject'
  <2>1. CASE ~Unused(n)
    <3>1. W \subseteq {d \in Clients : phase[d] = "waiting"}
      BY <1>6, <1>8 DEF Queued, Waiters
    <3>. HIDE DEF W
    <3>2. \A d \in Clients : Active(d)' => Active(d)
      BY <1>2, <3>1 DEF Active, IInv
    <3>. QED  BY <1>2, <2>1, <3>2 DEF OneLiveObject, IInv
  <2>2. CASE Unused(n)
    <3>1. /\ Holders("read")' = {} /\ Holders("write")' = {}
          /\ Waiters("read")' = {} /\ Waiters("write")' = {}
      <4>1. Cardinality(Holders("read")') = 0
        BY <1>9, <2>2 DEF Agrees, Unused
      <4>2. Holders("read")' = {}
        BY <4>1, HoldersFinitePrimed, FS_EmptySet
      <4>. QED  BY <1>9, <2>2, <4>2, EmptyQueue DEF Agrees, Unused
    <3>. QED  BY <1>10, <3>1 DEF OneLiveObject, Active, Holders, Waiters
  <2>. QED  BY <2>1, <2>2
<1>12. BookkeepingAgrees'
  <2>1. SUFFICES ASSUME entry' # NoLock PROVE Agrees(lock[entry])'
    BY DEF BookkeepingAgrees
  <2>2. lock'[entry'] = n
    BY <1>1, <1>2, <2>1 DEF IInv
  <2>. QED  BY <1>9, <2>2 DEF Agrees
<1>. QED  BY <1>9, <1>10, <1>11, <1>12 DEF IInv

-----------------------------------------------------------------------------

LEMMA IInvInit == Init => IInv
<1>. SUFFICES ASSUME Init PROVE IInv
  OBVIOUS
<1>1. TypeOK
  BY EmptySeq DEF Init, TypeOK, NewLockState, LockState
<1>. QED
  BY <1>1 DEF Init, IInv, OneLiveObject, BookkeepingAgrees, MutualExclusion,
     NoLostWakeup, Active

LEMMA IInvNext == IInv /\ [Next]_vars => IInv'
<1>. SUFFICES ASSUME IInv, [Next]_vars PROVE IInv'
  OBVIOUS
<1>1. CASE UNCHANGED vars
  BY <1>1 DEF vars, IInv, TypeOK, OneLiveObject, BookkeepingAgrees, Agrees,
     MutualExclusion, NoLostWakeup, Active, Holders, Waiters
<1>2. ASSUME NEW c \in Clients, ReadAcquire(c) PROVE IInv'
  BY <1>2, ReadAcquireStep
<1>3. ASSUME NEW c \in Clients, ReadWait(c) PROVE IInv'
  BY <1>3, ReadWaitStep
<1>4. ASSUME NEW c \in Clients, WriteAcquire(c) PROVE IInv'
  BY <1>4, WriteAcquireStep
<1>5. ASSUME NEW c \in Clients, WriteWait(c) PROVE IInv'
  BY <1>5, WriteWaitStep
<1>6. ASSUME NEW c \in Clients, Dispose(c) PROVE IInv'
  BY <1>6, DisposeStep
<1>7. ASSUME NEW c \in Clients, DisposeAgain(c) PROVE IInv'
  BY <1>1, <1>7 DEF DisposeAgain
<1>. QED  BY <1>1, <1>2, <1>3, <1>4, <1>5, <1>6, <1>7 DEF Next

LEMMA IInvAlways == Spec => []IInv
BY IInvInit, IInvNext, PTL DEF Spec

(* The lock's state keeps its type, whatever clients do with their handles.*)
THEOREM TypeCorrect == Spec => []TypeOK
<1>1. IInv => TypeOK
  BY DEF IInv
<1>. QED  BY <1>1, IInvAlways, PTL

(* Writers exclude everyone else, for every number of clients and across   *)
(* the lock objects the map creates and drops.                             *)
THEOREM WritersExclude == Spec => []MutualExclusion
<1>1. IInv => MutualExclusion
  BY DEF IInv
<1>. QED  BY <1>1, IInvAlways, PTL

(* A client never waits on a lock nobody holds: each release hands it on.  *)
THEOREM WakeupsAreNotLost == Spec => []NoLostWakeup
<1>1. IInv => NoLostWakeup
  BY DEF IInv
<1>. QED  BY <1>1, IInvAlways, PTL

(* The map never drops a lock object in use, so all who wait or hold share *)
(* one object.                                                             *)
THEOREM LockObjectIsUnique == Spec => []OneLiveObject
<1>1. IInv => OneLiveObject
  BY DEF IInv
<1>. QED  BY <1>1, IInvAlways, PTL

(* The counters and queues of the live object describe the clients.        *)
THEOREM BookkeepingIsRight == Spec => []BookkeepingAgrees
<1>1. IInv => BookkeepingAgrees
  BY DEF IInv
<1>. QED  BY <1>1, IInvAlways, PTL

-----------------------------------------------------------------------------
(* A release that grants a reader finds no writer in the queue: Processed  *)
(* wakes the readers only when it has no writer to wake.                   *)
LEMMA DisposePrefersWriters ==
  ASSUME IInv, NEW d \in Clients, Dispose(d),
         NEW c \in Clients, c \notin Holders("read"), c \in Holders("read")'
  PROVE  Waiters("write") = {}
<1>. PICK l : l = Dropped(lock[entry], mode[d])
  OBVIOUS
<1>. DEFINE n == Processed(l)
<1>1. /\ phase[d] = "holding" /\ obj[d] = entry /\ entry \in Objects
      /\ lock[entry] \in LockState /\ Agrees(lock[entry])
  BY DEF Dispose, IInv, TypeOK, OneLiveObject, Active, BookkeepingAgrees
<1>2. /\ mode' = mode
      /\ phase' = [e \in Clients |-> IF e \in Queued(l) \ Queued(n) THEN "holding"
                                     ELSE [phase EXCEPT ![d] = "released"][e]]
  BY <1>1, ConstantsAssumption DEF Dispose, Release, IInv, TypeOK
<1>3. /\ l.waitingReaders = lock[entry].waitingReaders
      /\ l.waitingWriters = lock[entry].waitingWriters
  BY <1>1 DEF Dropped, LockState
<1>4. mode[c] = "read" /\ phase[c] # "holding" /\ phase'[c] = "holding"
  BY <1>2 DEF Holders
<1>5. c \in Queued(l) /\ c \notin Queued(n)
  BY <1>2, <1>4 DEF IInv, TypeOK
<1>6. c \notin Elements(l.waitingWriters)
  BY <1>1, <1>3, <1>4 DEF Agrees, Waiters
<1>7. c \in Elements(l.waitingReaders)
  BY <1>5, <1>6 DEF Queued
<1>8. c \notin Elements(n.waitingReaders)
  BY <1>5 DEF Queued
<1>9. l \in [readers : Int, writer : BOOLEAN,
             waitingReaders : Seq(Clients), waitingWriters : Seq(Clients)]
  <2>1. CASE mode[d] = "read"
    <3>1. PICK k \in Int : k = lock[entry].readers - 1
      BY <1>1 DEF LockState
    <3>2. l = [lock[entry] EXCEPT !.readers = k]
      BY <2>1, <3>1, Zenon DEF Dropped
    <3>. QED  BY <1>1, <3>1, <3>2 DEF LockState
  <2>2. CASE mode[d] # "read"
    <3>1. l = [lock[entry] EXCEPT !.writer = FALSE]
      BY <2>2, Zenon DEF Dropped
    <3>2. l \in LockState
      BY <1>1, <3>1 DEF LockState
    <3>. QED  BY <3>2 DEF LockState
  <2>. QED  BY <2>1, <2>2
<1>10. ASSUME l.waitingWriters # <<>> PROVE FALSE
  <2>1. n.waitingReaders = l.waitingReaders
    BY <1>9, <1>10 DEF Processed
  <2>. QED  BY <2>1, <1>7, <1>8
<1>. QED  BY <1>1, <1>3, <1>10, EmptyQueue DEF Agrees

(* A reader is granted the lock only when no writer waits (Lock.read,      *)
(* process).                                                               *)
LEMMA PreferenceStep ==
  ASSUME IInv, [Next]_vars, NEW c \in Clients, c \notin Holders("read"), c \in Holders("read")'
  PROVE  Waiters("write") = {}
<1>. USE DEF IInv, TypeOK
<1>1. mode'[c] = "read" /\ phase'[c] = "holding" /\ ~(mode[c] = "read" /\ phase[c] = "holding")
  BY DEF Holders
<1>2. ASSUME NEW d \in Clients, ReadAcquire(d) PROVE Waiters("write") = {}
  <2>1. PICK o \in Gettable(d) : CanRead(Fetched(o))
    BY <1>2 DEF ReadAcquire
  <2>2. Agrees(Fetched(o))
    BY FetchedAgrees
  <2>. QED  BY <2>1, <2>2, EmptyQueue DEF CanRead, Agrees
<1>3. ASSUME NEW d \in Clients, ReadWait(d) PROVE FALSE
  BY <1>1, <1>3 DEF ReadWait, Request
<1>4. ASSUME NEW d \in Clients, WriteAcquire(d) PROVE FALSE
  BY <1>1, <1>4 DEF WriteAcquire, Request
<1>5. ASSUME NEW d \in Clients, WriteWait(d) PROVE FALSE
  BY <1>1, <1>5 DEF WriteWait, Request
<1>6. ASSUME NEW d \in Clients, Dispose(d) PROVE Waiters("write") = {}
  BY <1>6, DisposePrefersWriters
<1>7. ASSUME UNCHANGED vars PROVE FALSE
  BY <1>1, <1>7 DEF vars
<1>. QED  BY <1>2, <1>3, <1>4, <1>5, <1>6, <1>7 DEF Next, DisposeAgain

(* No reader gets the lock past a writer that waits, for every number of   *)
(* clients (Lock.read, line 18, and process, lines 56-60).                 *)
THEOREM WritersArePreferred == Spec => WriterPreference
<1>1. IInv /\ [Next]_vars =>
        [\A c \in Clients :
           (c \notin Holders("read") /\ c \in Holders("read")') => Waiters("write") = {}]_vars
  BY PreferenceStep
<1>. QED  BY <1>1, IInvAlways, PTL DEF Spec, WriterPreference

-----------------------------------------------------------------------------
(* The runner.                                                             *)

(* Who waits asked for the current run, who is in a batch for an earlier   *)
(* one whose onInterrupt() returned, and who did not call has no answer.   *)
Owed ==
  /\ \A c \in Callers(waiters) : joined[c] = runID
  /\ \A batch \in interrupting :
       /\ batch.run < runID /\ batch.run \notin interruptThrew
       /\ \A c \in batch.callers : joined[c] = batch.run
  /\ \A r \in interruptThrew : r < runID
  /\ \A c \in Calls : joined[c] = 0 => outcome[c] = Open
  /\ state = "Running" => runID > 0

RunInv == RunnerTypeOK /\ Owed /\ AnsweredByOwnRun /\ NobodyForgotten /\ IdleHasNoWaiters

(* The callers waiting after one more, and after none.                     *)
LEMMA ElementsOfAppend ==
  ASSUME NEW S, NEW s \in Seq(S), NEW e \in S
  PROVE  Append(s, e) \in Seq(S) /\ Callers(Append(s, e)) = Callers(s) \cup {e}
<1>1. /\ Append(s, e) \in Seq(S)
      /\ Len(s) \in Nat /\ Len(Append(s, e)) = Len(s) + 1
      /\ \A i \in 1..Len(s) : Append(s, e)[i] = s[i]
      /\ Append(s, e)[Len(s) + 1] = e
  OBVIOUS
<1>2. 1..(Len(s) + 1) = 1..Len(s) \cup {Len(s) + 1}
  BY <1>1
<1>. QED  BY <1>1, <1>2 DEF Callers

LEMMA NoWaiters == Callers(<<>>) = {} /\ \A S : <<>> \in Seq(S)
BY DEF Callers

(* A caller that waits is a call.                                          *)
LEMMA WaitersAreCalls ==
  ASSUME RunnerTypeOK PROVE Callers(waiters) \subseteq Calls
BY DEF RunnerTypeOK, Callers

Outcomes == [Calls -> [how : {"open", "value", "failure", "cancelled", "interrupted"},
                       run : 0..MaxRunID]]

(* The callers in S that had no answer get one from run r, nobody else     *)
(* gets any.                                                               *)
Answers(S, r) ==
  \A c \in Calls :
    \/ outcome'[c] = outcome[c] /\ (c \notin S \/ outcome[c] # Open)
    \/ c \in S /\ outcome[c] = Open /\ outcome'[c] # Open /\ outcome'[c].run = r

LEMMA Settled ==
  ASSUME RunnerTypeOK, NEW S, NEW how, how \in {"value", "failure", "cancelled", "interrupted"},
         NEW r, r \in 0..MaxRunID, outcome' = SettledBy(S, how, r)
  PROVE  outcome' \in Outcomes /\ Answers(S, r)
<1>1. outcome \in Outcomes
  BY DEF RunnerTypeOK, Outcomes
<1>2. \A c \in Calls :
        outcome'[c] = IF c \in S /\ outcome[c] = Open THEN [how |-> how, run |-> r] ELSE outcome[c]
  BY DEF SettledBy
<1>3. [how |-> how, run |-> r] # Open
  BY DEF Open
<1>4. outcome' \in Outcomes
  BY <1>1, <1>2 DEF SettledBy, Outcomes
<1>. QED  BY <1>2, <1>3, <1>4 DEF Answers

-----------------------------------------------------------------------------

LEMMA RunInvInit == RunnerAssumption /\ RunnerInit => RunInv
<1>. SUFFICES ASSUME RunnerAssumption, RunnerInit PROVE RunInv
  OBVIOUS
<1>. USE DEF RunnerInit
<1>1. RunnerTypeOK
  BY NoWaiters DEF RunnerTypeOK, Open, RunnerAssumption
<1>2. Owed
  BY NoWaiters DEF Owed
<1>. QED
  BY <1>1, <1>2 DEF RunInv, AnsweredByOwnRun, NobodyForgotten, IdleHasNoWaiters

(* A caller joins the run in progress.                                     *)
LEMMA JoinStep ==
  ASSUME RunInv, NEW c \in Calls, Join(c) PROVE RunInv'
<1>. USE DEF RunInv, Join, threw
<1>1. waiters' \in Seq(Calls) /\ Callers(waiters') = Callers(waiters) \cup {c}
  BY ElementsOfAppend DEF RunnerTypeOK
<1>2. RunnerTypeOK'
  BY <1>1 DEF RunnerTypeOK
<1>3. runID > 0 /\ outcome[c] = Open /\ c \notin Callers(waiters)
  BY DEF Owed, RunnerTypeOK
<1>4. \A batch \in interrupting : c \notin batch.callers
  BY DEF Owed, RunnerTypeOK, Batches
<1>5. Owed'
  BY <1>1, <1>3, <1>4, WaitersAreCalls DEF Owed, RunnerTypeOK, Batches
<1>6. AnsweredByOwnRun'
  BY <1>3 DEF AnsweredByOwnRun, RunnerTypeOK
<1>7. NobodyForgotten'
  <2>1. runID \notin interruptThrew
    BY DEF Owed, RunnerTypeOK
  <2>. QED  BY <1>1, <1>3, <1>4, <2>1 DEF NobodyForgotten, RunnerTypeOK
<1>. QED  BY <1>2, <1>5, <1>6, <1>7 DEF IdleHasNoWaiters

(* A caller starts a run, with or without success.                         *)
LEMMA BeginStep ==
  ASSUME RunnerAssumption, RunInv, NEW c \in Calls, Begin(c),
         \/ live' = live \cup {runID + 1} /\ UNCHANGED <<outcome, workThrew>>
         \/ /\ live' = live /\ outcome' = SettledBy({c}, "failure", runID + 1)
            /\ workThrew' = workThrew \cup {runID + 1}
  PROVE  RunInv'
<1>. USE DEF RunInv, Begin
<1>1. waiters' \in Seq(Calls) /\ Callers(waiters') = {c}
  <2>1. waiters \in Seq(Calls) /\ Callers(waiters) = {}
    BY NoWaiters DEF RunnerTypeOK, IdleHasNoWaiters
  <2>. QED  BY <2>1, ElementsOfAppend
<1>2. /\ runID + 1 \in 1..MaxRunID /\ runID + 1 \in 0..MaxRunID
      /\ joined' = [joined EXCEPT ![c] = runID + 1]
      /\ joined \in [Calls -> 0..MaxRunID]
  BY DEF RunnerTypeOK, RunnerAssumption
<1>3. outcome[c] = Open /\ \A batch \in interrupting : c \notin batch.callers
  BY DEF Owed, RunnerTypeOK, Batches
<1>4. /\ outcome' \in Outcomes
      /\ \A d \in Calls \ {c} : outcome'[d] = outcome[d]
      /\ outcome'[c] # Open => outcome'[c].run = runID + 1
  <2>1. CASE outcome' = outcome
    BY <1>3, <2>1 DEF RunnerTypeOK, Outcomes
  <2>2. CASE outcome' = SettledBy({c}, "failure", runID + 1)
    <3>1. outcome' \in Outcomes /\ Answers({c}, runID + 1)
      BY <1>2, <2>2, Settled
    <3>. QED  BY <1>3, <3>1 DEF Answers
  <2>. QED  BY <2>1, <2>2
<1>5. RunnerTypeOK'
  <2>1. joined' \in [Calls -> 0..MaxRunID] /\ live' \subseteq 1..MaxRunID
    BY <1>2 DEF RunnerTypeOK
  <2>2. workThrew' \subseteq 1..MaxRunID
    BY <1>2 DEF RunnerTypeOK
  <2>. QED  BY <1>1, <1>2, <1>4, <2>1, <2>2 DEF RunnerTypeOK, Outcomes
<1>6. Owed'
  <2>1. \A d \in Callers(waiters') : joined'[d] = runID'
    BY <1>1, <1>2
  <2>2. \A batch \in interrupting' :
          /\ batch.run < runID' /\ batch.run \notin interruptThrew'
          /\ \A d \in batch.callers : joined'[d] = batch.run
    BY <1>2, <1>3 DEF Owed, RunnerTypeOK, Batches
  <2>3. \A d \in Calls : joined'[d] = 0 => outcome'[d] = Open
    BY <1>2, <1>4 DEF Owed
  <2>4. \A r \in interruptThrew' : r < runID'
    BY DEF Owed, RunnerTypeOK
  <2>. QED  BY <1>2, <2>1, <2>2, <2>3, <2>4 DEF Owed, RunnerTypeOK
<1>7. AnsweredByOwnRun'
  BY <1>2, <1>4 DEF AnsweredByOwnRun
<1>8. NobodyForgotten'
  <2>1. runID + 1 \notin interruptThrew'
    BY DEF Owed, RunnerTypeOK
  <2>. QED
    BY <1>1, <1>2, <1>3, <1>4, <2>1, NoWaiters DEF NobodyForgotten, IdleHasNoWaiters
<1>. QED  BY <1>5, <1>6, <1>7, <1>8 DEF IdleHasNoWaiters

(* The callbacks of a run, current or abandoned.                           *)
LEMMA CompleteStep ==
  ASSUME RunInv, NEW r \in live, NEW how \in {"value", "failure"}, Complete(r, how)
  PROVE  RunInv'
<1>. USE DEF RunInv, Complete, threw
<1>1. CASE r = runID /\ state = "Running"
  <2>1. /\ waiters' = <<>> /\ state' = "Idle"
        /\ outcome' = SettledBy(Callers(waiters), how, runID)
    BY <1>1 DEF Drain
  <2>2. runID \in 0..MaxRunID
    BY DEF RunnerTypeOK
  <2>3. outcome' \in Outcomes /\ Answers(Callers(waiters), runID)
    BY <2>1, <2>2, Settled
  <2>4. RunnerTypeOK'
    BY <2>1, <2>3, NoWaiters DEF RunnerTypeOK, Outcomes
  <2>5. Owed'
    BY <1>1, <2>1, <2>3, NoWaiters DEF Owed, Answers
  <2>6. AnsweredByOwnRun'
    BY <2>3 DEF AnsweredByOwnRun, Owed, Answers
  <2>7. NobodyForgotten'
    BY <2>1, <2>3, NoWaiters DEF NobodyForgotten, Answers
  <2>. QED  BY <2>1, <2>4, <2>5, <2>6, <2>7 DEF IdleHasNoWaiters
<1>2. CASE ~(r = runID /\ state = "Running")
  <2>1. UNCHANGED <<setting, state, waiters, runID, interrupting, joined, outcome, threw>>
    BY <1>2
  <2>2. RunnerTypeOK'
    BY <2>1 DEF RunnerTypeOK, threw
  <2>. QED
    BY <2>1, <2>2 DEF Owed, threw, AnsweredByOwnRun, NobodyForgotten, IdleHasNoWaiters
<1>. QED  BY <1>1, <1>2

LEMMA CancelStep ==
  ASSUME RunnerAssumption, RunInv, Cancel PROVE RunInv'
<1>. USE DEF RunInv, Cancel, Abandon
<1>1. waiters' = <<>> /\ state' = "Idle" /\ runID' = runID + 1 /\ runID \in 1..MaxRunID /\ runID' \in 0..MaxRunID
  BY DEF Drain, RunnerTypeOK, Owed, RunnerAssumption
<1>2. Callers(waiters') = {} /\ Callers(waiters) \subseteq Calls
  BY <1>1, NoWaiters, WaitersAreCalls
<1>3. CASE setting.onInterrupt
  <2>. DEFINE batch == [callers |-> Callers(waiters), run |-> runID]
  <2>1. interrupting' = interrupting \cup {batch} /\ outcome' = outcome
    BY <1>3
  <2>2. batch \in Batches
    BY <1>1, <1>2 DEF Batches
  <2>3. RunnerTypeOK'
    BY <1>1, <2>1, <2>2, NoWaiters DEF RunnerTypeOK
  <2>4. Owed'
    BY <1>1, <1>2, <2>1, <2>2 DEF Owed, RunnerTypeOK, Batches
  <2>5. AnsweredByOwnRun'
    BY <2>1 DEF AnsweredByOwnRun
  <2>6. NobodyForgotten'
    <3>1. \A c \in Callers(waiters) : joined[c] \notin interruptThrew
      BY DEF Owed, RunnerTypeOK
    <3>2. \A c : (\E b \in interrupting' : c \in b.callers)
                   <=> c \in Callers(waiters) \/ \E b \in interrupting : c \in b.callers
      <4>1. batch.callers = Callers(waiters) /\ interrupting' = interrupting \cup {batch}
        BY <2>1
      <4>. HIDE DEF batch
      <4>. QED  BY ONLY <4>1
    <3>. HIDE DEF batch
    <3>. QED  BY <1>2, <2>1, <3>1, <3>2 DEF NobodyForgotten
  <2>. QED  BY <1>1, <2>3, <2>4, <2>5, <2>6 DEF IdleHasNoWaiters
<1>4. CASE ~setting.onInterrupt
  <2>1. interrupting' = interrupting /\ outcome' = SettledBy(Callers(waiters), "cancelled", runID)
    BY <1>4
  <2>2. runID \in 0..MaxRunID
    BY DEF RunnerTypeOK
  <2>3. outcome' \in Outcomes /\ Answers(Callers(waiters), runID)
    BY <2>1, <2>2, Settled
  <2>4. RunnerTypeOK'
    BY <1>1, <2>1, <2>3, NoWaiters DEF RunnerTypeOK, Outcomes
  <2>5. Owed'
    BY <1>1, <1>2, <2>1, <2>3 DEF Owed, RunnerTypeOK, Batches, Answers
  <2>6. AnsweredByOwnRun'
    BY <2>3 DEF AnsweredByOwnRun, Owed, Answers
  <2>7. NobodyForgotten'
    BY <1>2, <2>1, <2>3 DEF NobodyForgotten, Answers
  <2>. QED  BY <1>1, <2>4, <2>5, <2>6, <2>7 DEF IdleHasNoWaiters
<1>. QED  BY <1>3, <1>4

(* onInterrupt() throws: the callers of the run are owed nothing more.     *)
LEMMA CancelThrowsStep ==
  ASSUME RunnerAssumption, RunInv, CancelThrows PROVE RunInv'
<1>. USE DEF RunInv, CancelThrows, Abandon
<1>1. waiters' = <<>> /\ state' = "Idle" /\ runID' = runID + 1 /\ runID \in 1..MaxRunID /\ runID' \in 0..MaxRunID
  BY DEF Drain, RunnerTypeOK, Owed, RunnerAssumption
<1>2. Callers(waiters') = {}
  BY <1>1, NoWaiters
<1>3. RunnerTypeOK'
  BY <1>1, NoWaiters DEF RunnerTypeOK
<1>4. Owed'
  BY <1>1, <1>2 DEF Owed, RunnerTypeOK, Batches
<1>5. AnsweredByOwnRun'
  BY DEF AnsweredByOwnRun
<1>6. \A batch \in interrupting' : \A c \in batch.callers : joined[c] # runID
  BY <1>1 DEF Owed, RunnerTypeOK, Batches
<1>7. NobodyForgotten'
  BY <1>1, <1>2, <1>6 DEF NobodyForgotten, Owed
<1>. QED  BY <1>1, <1>3, <1>4, <1>5, <1>7 DEF IdleHasNoWaiters

LEMMA InterruptStep ==
  ASSUME RunInv, NEW batch \in interrupting, InterruptSettles(batch) PROVE RunInv'
<1>. USE DEF RunInv, InterruptSettles, threw
<1>1. batch.run \in 0..MaxRunID /\ outcome' = SettledBy(batch.callers, "interrupted", batch.run)
  BY DEF RunnerTypeOK, Batches
<1>2. outcome' \in Outcomes /\ Answers(batch.callers, batch.run)
  BY <1>1, Settled
<1>3. RunnerTypeOK'
  BY <1>2 DEF RunnerTypeOK, Outcomes
<1>4. Owed'
  BY <1>2 DEF Owed, RunnerTypeOK, Batches, Answers
<1>5. AnsweredByOwnRun'
  BY <1>2 DEF AnsweredByOwnRun, Owed, Answers
<1>6. NobodyForgotten'
  BY <1>2 DEF NobodyForgotten, Answers
<1>. QED  BY <1>3, <1>4, <1>5, <1>6 DEF IdleHasNoWaiters

LEMMA RunInvNext == RunnerAssumption /\ RunInv /\ [RunnerNext]_runner => RunInv'
<1>. SUFFICES ASSUME RunnerAssumption, RunInv, [RunnerNext]_runner PROVE RunInv'
  OBVIOUS
<1>1. CASE UNCHANGED runner
  BY <1>1 DEF runner, threw, RunInv, RunnerTypeOK, Owed, AnsweredByOwnRun, NobodyForgotten, IdleHasNoWaiters
<1>2. ASSUME NEW c \in Calls, Join(c) PROVE RunInv'
  BY <1>2, JoinStep
<1>3. ASSUME NEW c \in Calls, Start(c) PROVE RunInv'
  BY <1>3, BeginStep DEF Start
<1>4. ASSUME NEW c \in Calls, StartThrows(c) PROVE RunInv'
  BY <1>4, BeginStep DEF StartThrows
<1>5. ASSUME NEW r \in live, Completes(r) PROVE RunInv'
  BY <1>5, CompleteStep DEF Completes
<1>6. CASE Cancel
  BY <1>6, CancelStep
<1>7. CASE CancelIdle
  BY <1>1, <1>7 DEF CancelIdle
<1>8. ASSUME NEW batch \in interrupting, InterruptSettles(batch) PROVE RunInv'
  BY <1>8, InterruptStep
<1>9. CASE CancelThrows
  BY <1>9, CancelThrowsStep
<1>. QED  BY <1>1, <1>2, <1>3, <1>4, <1>5, <1>6, <1>7, <1>8, <1>9 DEF RunnerNext

LEMMA RunInvAlways == RunnerSpec => []RunInv
BY RunnerAssumption, RunInvInit, RunInvNext, PTL DEF RunnerSpec

(* The runner's state keeps its type.                                      *)
THEOREM RunnerTypeCorrect == RunnerSpec => []RunnerTypeOK
<1>1. RunInv => RunnerTypeOK
  BY DEF RunInv
<1>. QED  BY <1>1, RunInvAlways, PTL

(* Every caller gets the answer of the run it asked to share, never that   *)
(* of a run abandoned by a cancel, for any number of calls and runs.       *)
THEOREM AnswersAreOwn == RunnerSpec => []AnsweredByOwnRun
<1>1. RunInv => AnsweredByOwnRun
  BY DEF RunInv
<1>. QED  BY <1>1, RunInvAlways, PTL

(* A call without an answer is owed one by the current run or by one       *)
(* pending onInterrupt, and not by both; or onInterrupt() threw at the     *)
(* cancel of its run, and nothing owes it an answer any more.              *)
THEOREM AnswersAreOwed == RunnerSpec => []NobodyForgotten
<1>1. RunInv => NobodyForgotten
  BY DEF RunInv
<1>. QED  BY <1>1, RunInvAlways, PTL

(* Nobody waits on an idle runner, where no callback would come.           *)
THEOREM IdleIsEmpty == RunnerSpec => []IdleHasNoWaiters
<1>1. RunInv => IdleHasNoWaiters
  BY DEF RunInv
<1>. QED  BY <1>1, RunInvAlways, PTL

-----------------------------------------------------------------------------
(* The tokens of an account.                                               *)

CallRecord ==
  [phase : {"idle", "waiting", "fetching", "done", "failed"}, account : Accounts \cup {None},
   kind : {"token", "config"}, on : TokenCalls \cup {None}, token : Token \cup {NoToken},
   held : Token \cup {NoToken}, began : Nat, refused : BOOLEAN]

Refresh ==
  [state : {"none", "flying", "ok", "failed"}, account : Accounts \cup {None},
   login : Logins \cup {None}, token : Token \cup {NoToken}, ended : Nat]

Poll ==
  [phase : {"idle", "user", "orgs", "done", "failed"}, token : Token \cup {NoToken},
   account : Accounts \cup {None}]

AccountTypeOK ==
  /\ Stored \subseteq Accounts
  /\ rows \in [Stored -> Row]
  /\ refreshes \in [Accounts -> TokenCalls \cup {None}]
  /\ pending \in [TokenCalls -> Refresh]
  /\ call \in [TokenCalls -> CallRecord]
  /\ poll \in [Logins -> Poll]
  /\ issued \in Nat
  /\ settled \in Nat
  /\ last \in [Accounts -> Logins \cup {None}]
  /\ crossed \in [Accounts -> BOOLEAN]

Flight ==
  /\ \A c \in TokenCalls : pending[c].state = "flying" =>
       /\ pending[c].account \in Accounts
       /\ pending[c].login \in Logins
       /\ refreshes[pending[c].account] = c
  /\ \A a \in Accounts : refreshes[a] # None =>
       /\ pending[refreshes[a]].state = "flying"
       /\ pending[refreshes[a]].account = a

Waits ==
  \A c \in TokenCalls :
    /\ call[c].began <= settled
    /\ call[c].phase = "idle" => pending[c].state = "none"
    /\ call[c].phase = "waiting" =>
         /\ call[c].on \in TokenCalls
         /\ pending[call[c].on].state = "flying"
         /\ pending[call[c].on].account = call[c].account

Gives(c, r) ==
  /\ pending[r].account = call[c].account
  /\ pending[r].ended > call[c].began

Current ==
  \A c \in TokenCalls :
    /\ (call[c].phase \in {"fetching", "done"} /\ call[c].token # NoToken) =>
         \/ call[c].token = call[c].held
         \/ \E r \in TokenCalls : /\ pending[r].state = "ok"
                                  /\ Gives(c, r)
                                  /\ call[c].token = pending[r].token
    /\ call[c].phase = "failed" =>
         \/ call[c].refused
         \/ \E r \in TokenCalls : pending[r].state = "failed" /\ Gives(c, r)

Descent ==
  /\ \A a \in Stored : ~crossed[a] => rows[a].token.login = last[a]
  /\ \A c \in TokenCalls :
       (pending[c].state = "flying" /\ pending[c].account \in Stored /\ ~crossed[pending[c].account])
         => pending[c].login = last[pending[c].account]
  /\ \A l \in Logins :
       /\ poll[l].phase \in {"user", "orgs"} => poll[l].token \in Token /\ poll[l].token.login = l
       /\ poll[l].phase = "orgs" => poll[l].account \in Accounts

AccountInv == AccountTypeOK /\ Flight /\ Waits /\ Current /\ Descent

-----------------------------------------------------------------------------
(* The initial states satisfy the invariant.                               *)
LEMMA AccountInvInit == AccountInit => AccountInv
<1> SUFFICES ASSUME AccountInit PROVE AccountInv
  OBVIOUS
<1>1. AccountTypeOK
  BY AccountAssumption DEF AccountInit, AccountTypeOK, Stored, CallRecord, Refresh, Poll, Row, Idle, NoRefresh, NoPoll, NoToken
<1>2. Flight /\ Waits /\ Current
  BY AccountAssumption DEF AccountInit, Flight, Waits, Current, Idle, NoRefresh
<1>3. Descent
  BY DEF AccountInit, Descent, Stored, NoRefresh, NoPoll
<1> QED BY <1>1, <1>2, <1>3 DEF AccountInv

(* A call that starts and finishes without a refresh, or goes on after one, *)
(* has a record of the right type.                                         *)
LEMMA CalledType ==
  ASSUME AccountTypeOK, NEW a \in Accounts, NEW kind \in {"token", "config"}
  PROVE  /\ Called(a, kind) \in CallRecord
         /\ Called(a, kind).account = a
         /\ Called(a, kind).began = settled
         /\ Called(a, kind).kind = kind
         /\ Called(a, kind).token = NoToken
         /\ (a \in Stored /\ rows[a].fresh) => Called(a, kind).held = rows[a].token
BY DEF AccountTypeOK, Called, Idle, CallRecord, Row, NoToken

(* What a refresh that has ended makes of a call that waited for it.       *)
LEMMA AfterType ==
  ASSUME NEW w \in CallRecord, NEW r \in Refresh
  PROVE  /\ After(w, r) \in CallRecord
         /\ After(w, r).account = w.account
         /\ After(w, r).began = w.began
         /\ After(w, r).phase \in {"fetching", "done", "failed"}
         /\ r.state = "ok" => After(w, r).token = r.token /\ After(w, r).phase \in {"fetching", "done"}
         /\ r.state # "ok" => After(w, r).phase = "failed"
BY DEF After, Resolved, Refused, CallRecord, Refresh

(* The callers, accounts and the refresh table keep their types, and the   *)
(* invariant, in a call that needs no refresh.                             *)
LEMMA CallKeeps ==
  ASSUME AccountInv, NEW c \in TokenCalls, NEW w \in CallRecord,
         call[c].phase \in {"idle", "fetching"},
         call' = [call EXCEPT ![c] = w],
         w.began <= settled,
         w.phase \in {"fetching", "done", "failed"},
         (w.phase # "failed" /\ w.token # NoToken) =>
             \/ w.token = w.held
             \/ \E r \in TokenCalls : /\ pending[r].state = "ok" /\ pending[r].account = w.account
                                      /\ pending[r].ended > w.began /\ w.token = pending[r].token,
         w.phase = "failed" => w.refused,
         UNCHANGED <<rows, active, refreshes, pending, poll, issued, settled, history>>
  PROVE  AccountInv'
<1> USE DEF history
<1>1. AccountTypeOK'
  BY DEF AccountInv, AccountTypeOK, Stored
<1>2. Flight'
  BY DEF AccountInv, Flight
<1>3. call'[c] = w /\ \A d \in TokenCalls : d # c => call'[d] = call[d]
  BY DEF AccountInv, AccountTypeOK
<1>4. Waits'
  BY <1>3 DEF AccountInv, Waits
<1>5. Current'
  BY <1>3 DEF AccountInv, Current, Gives
<1>6. Descent'
  BY DEF AccountInv, Descent, Stored
<1> QED BY <1>1, <1>2, <1>4, <1>5, <1>6 DEF AccountInv

(* The invariant does not speak of the active account.                     *)
LEMMA CallsKeep ==
  ASSUME AccountInv, NEW c \in TokenCalls, CallSteps(c)
  PROVE  AccountInv'
<1> PICK a \in Accounts, kind \in {"token", "config"} :
      \/ CallNothing(c, a, kind)
      \/ CallFresh(c, a, kind)
      \/ CallJoins(c, a, kind)
      \/ CallRefreshes(c, a, kind)
  BY DEF CallSteps
<1> AccountTypeOK
  BY DEF AccountInv
<1> DEFINE b == Called(a, kind)
<1>b. /\ b \in CallRecord /\ b.account = a /\ b.began = settled /\ b.kind = kind /\ b.token = NoToken
      /\ (a \in Stored /\ rows[a].fresh) => b.held = rows[a].token
      /\ settled \in Nat
  BY CalledType DEF AccountTypeOK
<1> HIDE DEF b
<1>1. CASE CallNothing(c, a, kind)
  <2> DEFINE w == [b EXCEPT !.phase = "done"]
  <2>1. w \in CallRecord /\ w.began = settled /\ w.phase = "done" /\ w.token = NoToken
    BY <1>b DEF CallRecord
  <2>2. call' = [call EXCEPT ![c] = w] /\ call[c].phase = "idle"
    BY <1>1 DEF CallNothing, b
  <2>3. UNCHANGED <<rows, active, refreshes, pending, poll, issued, settled, history>>
    BY <1>1 DEF CallNothing
  <2> HIDE DEF w
  <2>4. w.began <= settled /\ w.phase \in {"fetching", "done", "failed"} /\ w.phase # "failed"
    BY <1>b, <2>1
  <2> QED BY <2>1, <2>2, <2>3, <2>4, CallKeeps
<1>2. CASE CallFresh(c, a, kind)
  <2> DEFINE w == Resolved(b, rows[a].token)
  <2>1. a \in Stored /\ rows[a].fresh /\ rows[a].token \in Token
    BY <1>2 DEF CallFresh, AccountTypeOK, Row
  <2>2. /\ w \in CallRecord /\ w.began = settled /\ w.phase \in {"fetching", "done"}
        /\ w.token = rows[a].token /\ w.held = rows[a].token
    BY <1>b, <2>1 DEF CallRecord, Resolved
  <2>3. call' = [call EXCEPT ![c] = w] /\ call[c].phase = "idle"
    BY <1>2 DEF CallFresh, b
  <2>4. UNCHANGED <<rows, active, refreshes, pending, poll, issued, settled, history>>
    BY <1>2 DEF CallFresh
  <2> HIDE DEF w
  <2>5. /\ w.began <= settled /\ w.phase \in {"fetching", "done", "failed"} /\ w.phase # "failed"
        /\ w.token = w.held
    BY <1>b, <2>2
  <2> QED BY <2>2, <2>3, <2>4, <2>5, CallKeeps
<1>3. CASE CallJoins(c, a, kind)
  <2> DEFINE r == refreshes[a]
             w == [b EXCEPT !.phase = "waiting", !.on = r]
  <2>1. r \in TokenCalls /\ pending[r].state = "flying" /\ pending[r].account = a
    BY <1>3 DEF CallJoins, Existing, AccountInv, Flight, AccountTypeOK
  <2>2. call' = [call EXCEPT ![c] = w]
    BY <1>3, <2>1 DEF CallJoins, Existing, b
  <2>3. /\ w \in CallRecord /\ w.began = settled /\ w.phase = "waiting" /\ w.on = r /\ w.account = a
    BY <1>b, <2>1 DEF CallRecord
  <2>4. UNCHANGED <<rows, active, refreshes, pending, poll, issued, settled, history>>
    BY <1>3 DEF CallJoins
  <2> HIDE DEF w, r
  <2>5. call'[c] = w /\ \A d \in TokenCalls : d # c => call'[d] = call[d]
    BY <2>2 DEF AccountTypeOK
  <2>6. AccountTypeOK'
    BY <2>2, <2>3, <2>4 DEF AccountTypeOK, Stored, history
  <2>7. Flight' /\ Descent'
    BY <2>4 DEF AccountInv, Flight, Descent, Stored, history
  <2>8. Waits'
    BY <2>1, <2>3, <2>4, <2>5, <1>b DEF AccountInv, Waits
  <2>9. Current'
    BY <2>3, <2>4, <2>5 DEF AccountInv, Current, Gives
  <2> QED BY <2>6, <2>7, <2>8, <2>9 DEF AccountInv
<1>4. CASE CallRefreshes(c, a, kind)
  <2> DEFINE w == [b EXCEPT !.phase = "waiting", !.on = c]
             n == [NoRefresh EXCEPT !.state = "flying", !.account = a, !.login = rows[a].token.login]
  <2>1. /\ call[c].phase = "idle" /\ a \in Stored /\ refreshes[a] = None
        /\ refreshes' = [refreshes EXCEPT ![a] = c]
        /\ pending' = [pending EXCEPT ![c] = n]
        /\ call' = [call EXCEPT ![c] = w]
        /\ UNCHANGED <<rows, active, poll, issued, settled, history>>
    BY <1>4 DEF CallRefreshes, Existing, b
  <2>2. rows[a].token.login \in Logins
    BY <2>1 DEF AccountTypeOK, Row, Token
  <2>3. /\ n \in Refresh /\ n.state = "flying" /\ n.account = a /\ n.login = rows[a].token.login
    BY <2>2 DEF Refresh, NoRefresh, NoToken
  <2>4. /\ w \in CallRecord /\ w.began = settled /\ w.phase = "waiting" /\ w.on = c /\ w.account = a
    BY <1>b DEF CallRecord
  <2> HIDE DEF w, n
  <2>5. /\ call'[c] = w /\ pending'[c] = n /\ refreshes'[a] = c
        /\ \A d \in TokenCalls : d # c => call'[d] = call[d] /\ pending'[d] = pending[d]
        /\ \A x \in Accounts : x # a => refreshes'[x] = refreshes[x]
    BY <2>1 DEF AccountTypeOK
  <2>6. AccountTypeOK'
    BY <2>1, <2>3, <2>4 DEF AccountTypeOK, Stored, history
  <2>7. pending[c].state = "none"
    BY <2>1 DEF AccountInv, Waits
  <2>8. Flight'
    BY <2>1, <2>2, <2>3, <2>5, <2>7, AccountAssumption DEF AccountInv, Flight
  <2>9. Waits'
    BY <2>1, <2>3, <2>4, <2>5, <2>7, <1>b DEF AccountInv, Waits
  <2>10. Current'
    <3>1. \A r \in TokenCalls : pending[r].state # "none" => pending'[r] = pending[r]
      BY <2>5, <2>7
    <3> QED BY <2>1, <2>4, <2>5, <3>1 DEF AccountInv, Current, Gives
  <2>11. Descent'
    BY <2>1, <2>3, <2>5 DEF AccountInv, Descent, Stored, history
  <2> QED BY <2>6, <2>8, <2>9, <2>10, <2>11 DEF AccountInv
<1> QED BY <1>1, <1>2, <1>3, <1>4

(* A refresh ends: what it becomes is r, and whoever waits for it goes on.  *)
LEMMA EndKeeps ==
  ASSUME AccountInv, NEW c \in TokenCalls, NEW r \in Refresh,
         pending[c].state = "flying",
         r.state \in {"ok", "failed"},
         r.account = pending[c].account,
         r.ended = settled + 1,
         pending' = [pending EXCEPT ![c] = r],
         refreshes' = [refreshes EXCEPT ![r.account] = None],
         call' = Resume(c, r),
         settled' = settled + 1
  PROVE  /\ pending' \in [TokenCalls -> Refresh]
         /\ refreshes' \in [Accounts -> TokenCalls \cup {None}]
         /\ call' \in [TokenCalls -> CallRecord]
         /\ Flight' /\ Waits' /\ Current'
<1> AccountTypeOK
  BY DEF AccountInv
<1>1. /\ pending' \in [TokenCalls -> Refresh]
      /\ pending'[c] = r
      /\ \A d \in TokenCalls : d # c => pending'[d] = pending[d]
  BY DEF AccountTypeOK
<1>2. /\ r.account \in Accounts
      /\ refreshes' \in [Accounts -> TokenCalls \cup {None}]
      /\ refreshes'[r.account] = None
      /\ \A a \in Accounts : a # r.account => refreshes'[a] = refreshes[a]
  BY DEF AccountTypeOK, AccountInv, Flight
<1> DEFINE On(d) == call[d].phase = "waiting" /\ call[d].on = c
<1>3. \A d \in TokenCalls : On(d) =>
        /\ call'[d] \in CallRecord
        /\ call'[d].account = call[d].account
        /\ call'[d].began = call[d].began
        /\ r.state = "ok" => call'[d].token = r.token /\ call'[d].phase \in {"fetching", "done"}
        /\ r.state = "failed" => call'[d].phase = "failed"
  <2> TAKE d \in TokenCalls
  <2> HAVE On(d)
  <2>1. call'[d] = After(call[d], r)
    BY DEF Resume
  <2>2. call[d] \in CallRecord
    BY DEF AccountTypeOK
  <2> QED BY <2>1, <2>2, AfterType
<1>4. \A d \in TokenCalls : ~On(d) => call'[d] = call[d]
  BY DEF Resume
<1>5. call' \in [TokenCalls -> CallRecord]
  <2>1. \A d \in TokenCalls : call'[d] \in CallRecord
    BY <1>3, <1>4 DEF AccountTypeOK
  <2>2. call' = [d \in TokenCalls |-> call'[d]]
    BY DEF Resume
  <2> QED BY <2>1, <2>2
<1>6. Flight'
  BY <1>1, <1>2, AccountAssumption DEF AccountInv, Flight, AccountTypeOK
<1>7. settled \in Nat /\ settled' = settled + 1
  BY DEF AccountTypeOK
<1>8. Waits'
  <2> SUFFICES ASSUME NEW d \in TokenCalls
               PROVE  /\ call'[d].began <= settled'
                      /\ call'[d].phase = "idle" => pending'[d].state = "none"
                      /\ call'[d].phase = "waiting" =>
                           /\ call'[d].on \in TokenCalls
                           /\ pending'[call'[d].on].state = "flying"
                           /\ pending'[call'[d].on].account = call'[d].account
    BY DEF Waits
  <2>1. call[d].began <= settled /\ call[d].began \in Nat
    BY DEF AccountInv, Waits, AccountTypeOK, CallRecord
  <2>2. CASE On(d)
    <3>1. call'[d].phase \in {"fetching", "done", "failed"}
      BY <1>3, <2>2
    <3> QED BY <1>3, <1>7, <2>1, <2>2, <3>1
  <2>3. CASE ~On(d)
    BY <1>1, <1>4, <1>7, <2>1, <2>3 DEF AccountInv, Waits
  <2> QED BY <2>2, <2>3
<1>9. Current'
  <2> SUFFICES ASSUME NEW d \in TokenCalls
               PROVE  /\ (call'[d].phase \in {"fetching", "done"} /\ call'[d].token # NoToken) =>
                           \/ call'[d].token = call'[d].held
                           \/ \E e \in TokenCalls : /\ pending'[e].state = "ok"
                                                    /\ Gives(d, e)'
                                                    /\ call'[d].token = pending'[e].token
                      /\ call'[d].phase = "failed" =>
                           \/ call'[d].refused
                           \/ \E e \in TokenCalls : pending'[e].state = "failed" /\ Gives(d, e)'
    BY DEF Current
  <2>1. call[d].began <= settled /\ call[d].began \in Nat
    BY DEF AccountInv, Waits, AccountTypeOK, CallRecord
  <2>2. CASE On(d)
    <3>1. Gives(d, c)'
      BY <1>1, <1>3, <1>7, <2>1, <2>2 DEF Gives, AccountInv, Waits
    <3> QED BY <1>1, <1>3, <2>2, <3>1
  <2>3. CASE ~On(d)
    <3>1. \A e \in TokenCalls : pending[e].state \in {"ok", "failed"} => pending'[e] = pending[e]
      BY <1>1
    <3> QED BY <1>4, <2>3, <3>1 DEF AccountInv, Current, Gives
  <2> QED BY <2>2, <2>3
<1> QED BY <1>1, <1>2, <1>5, <1>6, <1>8, <1>9

(* What changes in the record of a refresh when it ends.                   *)
LEMMA EndedRecord ==
  ASSUME NEW S1, NEW S2, NEW S3, NEW S4, NEW S5,
         NEW q \in [state : S1, account : S2, login : S3, token : S4, ended : S5],
         NEW x \in S1, NEW n \in S5
  PROVE  /\ \A t \in S4 : [q EXCEPT !.state = x, !.token = t, !.ended = n]
                              \in [state : S1, account : S2, login : S3, token : S4, ended : S5]
         /\ [q EXCEPT !.state = x, !.ended = n]
              \in [state : S1, account : S2, login : S3, token : S4, ended : S5]
OBVIOUS

LEMMA EndedType ==
  ASSUME NEW q \in Refresh, NEW n \in Nat
  PROVE  /\ \A t \in Token : [q EXCEPT !.state = "ok", !.token = t, !.ended = n] \in Refresh
         /\ [q EXCEPT !.state = "failed", !.ended = n] \in Refresh
BY EndedRecord DEF Refresh

(* The refreshes that end stored or not: the row of the account descends   *)
(* from where the refresh does, which is the last login unless crossed.    *)
LEMMA RefreshEndsKeeps ==
  ASSUME AccountInv, NEW c \in TokenCalls, RefreshEnds(c)
  PROVE  AccountInv'
<1> AccountTypeOK
  BY DEF AccountInv
<1> DEFINE a == pending[c].account
           n == settled + 1
           t == [login |-> pending[c].login, number |-> issued + 1]
           r == [pending[c] EXCEPT !.state = "ok", !.token = t, !.ended = n]
<1>1. /\ pending[c].state = "flying" /\ a \in Accounts /\ pending[c].login \in Logins
      /\ issued \in Nat /\ settled \in Nat /\ t \in Token
  BY DEF RefreshEnds, AccountInv, Flight, AccountTypeOK, Token
<1>2. /\ r \in Refresh /\ r.state = "ok" /\ r.account = a /\ r.ended = n /\ r.token = t
      /\ pending' = [pending EXCEPT ![c] = r]
  <2>1. pending[c] \in Refresh /\ n \in Nat
    BY <1>1 DEF AccountTypeOK
  <2>2. pending' = [pending EXCEPT ![c] = r]
    BY DEF RefreshEnds
  <2> HIDE DEF n, t
  <2>3. r \in Refresh
    BY <1>1, <2>1, EndedType
  <2> QED BY <1>1, <2>1, <2>2, <2>3 DEF Refresh
<1>3. /\ issued' = issued + 1 /\ settled' = settled + 1
      /\ refreshes' = [refreshes EXCEPT ![r.account] = None]
      /\ call' = Resume(c, r)
      /\ UNCHANGED <<active, poll, last, crossed>>
  BY <1>2 DEF RefreshEnds, Cleared, AccountTypeOK, history
<1>4. PICK fresh \in BOOLEAN :
        rows' = IF a \in Stored THEN Put(a, [token |-> t, fresh |-> fresh]) ELSE rows
  BY DEF RefreshEnds
<1>5. t.login = pending[c].login /\ n = settled + 1
  OBVIOUS
<1> HIDE DEF n, t, r
<1>6. /\ pending' \in [TokenCalls -> Refresh]
      /\ refreshes' \in [Accounts -> TokenCalls \cup {None}]
      /\ call' \in [TokenCalls -> CallRecord]
      /\ Flight' /\ Waits' /\ Current'
  BY <1>1, <1>2, <1>3, <1>5, EndKeeps
<1>7. /\ Stored' = Stored /\ rows' \in [Stored' -> Row]
      /\ \A x \in Stored : x # a => rows'[x] = rows[x]
      /\ a \in Stored => rows'[a].token = t
  <2>1. CASE a \in Stored
    BY <1>1, <1>4, <2>1 DEF Put, Stored, AccountTypeOK, Row
  <2>2. CASE a \notin Stored
    BY <1>4, <2>2 DEF Stored, AccountTypeOK
  <2> QED BY <2>1, <2>2
<1>8. AccountTypeOK'
  BY <1>1, <1>3, <1>6, <1>7 DEF AccountTypeOK
<1>9. Descent'
  <2>1. \A d \in TokenCalls : pending'[d].state = "flying" => d # c /\ pending'[d] = pending[d]
    BY <1>2 DEF AccountTypeOK
  <2>2. \A x \in Stored' : ~crossed'[x] => rows'[x].token.login = last'[x]
    BY <1>1, <1>3, <1>5, <1>7 DEF AccountInv, Descent
  <2>3. \A d \in TokenCalls :
          (/\ pending'[d].state = "flying" /\ pending'[d].account \in Stored'
           /\ ~crossed'[pending'[d].account])
            => pending'[d].login = last'[pending'[d].account]
    BY <1>3, <1>7, <2>1 DEF AccountInv, Descent
  <2> QED BY <1>3, <2>2, <2>3 DEF AccountInv, Descent
<1> QED BY <1>6, <1>8, <1>9 DEF AccountInv

LEMMA RefreshFailsKeeps ==
  ASSUME AccountInv, NEW c \in TokenCalls, RefreshFails(c)
  PROVE  AccountInv'
<1> AccountTypeOK
  BY DEF AccountInv
<1> DEFINE n == settled + 1
           r == [pending[c] EXCEPT !.state = "failed", !.ended = n]
<1>1. pending[c].state = "flying" /\ settled \in Nat
  BY DEF RefreshFails, AccountTypeOK
<1>2. /\ r \in Refresh /\ r.state = "failed" /\ r.account = pending[c].account /\ r.ended = n
      /\ pending' = [pending EXCEPT ![c] = r]
  <2>1. pending[c] \in Refresh /\ n \in Nat
    BY <1>1 DEF AccountTypeOK
  <2>2. pending' = [pending EXCEPT ![c] = r]
    BY DEF RefreshFails
  <2> HIDE DEF n
  <2>3. r \in Refresh
    BY <1>1, <2>1, EndedType
  <2> QED BY <1>1, <2>1, <2>2, <2>3 DEF Refresh
<1>3. /\ settled' = settled + 1
      /\ refreshes' = [refreshes EXCEPT ![r.account] = None]
      /\ call' = Resume(c, r)
      /\ UNCHANGED <<rows, active, poll, issued, last, crossed>>
  BY <1>2 DEF RefreshFails, Cleared, AccountTypeOK, history
<1>0. n = settled + 1
  OBVIOUS
<1> HIDE DEF n, r
<1>4. /\ pending' \in [TokenCalls -> Refresh]
      /\ refreshes' \in [Accounts -> TokenCalls \cup {None}]
      /\ call' \in [TokenCalls -> CallRecord]
      /\ Flight' /\ Waits' /\ Current'
  BY <1>0, <1>1, <1>2, <1>3, EndKeeps
<1>5. AccountTypeOK'
  BY <1>1, <1>3, <1>4 DEF AccountTypeOK, Stored
<1>6. Descent'
  <2>1. \A d \in TokenCalls : pending'[d].state = "flying" => pending'[d] = pending[d]
    BY <1>2 DEF AccountTypeOK
  <2> QED BY <1>3, <2>1 DEF AccountInv, Descent, Stored
<1> QED BY <1>4, <1>5, <1>6 DEF AccountInv

(* The request that config or orgs makes with the token ends.              *)
LEMMA FetchKeeps ==
  ASSUME AccountInv, NEW c \in TokenCalls, FetchEnds(c)
  PROVE  AccountInv'
<1> PICK w \in {[call[c] EXCEPT !.phase = "done"], [call[c] EXCEPT !.phase = "failed", !.refused = TRUE]} :
      call' = [call EXCEPT ![c] = w]
  BY DEF FetchEnds, AccountInv, AccountTypeOK
<1>1. call[c] \in CallRecord /\ call[c].phase = "fetching" /\ call[c].began <= settled
  BY DEF FetchEnds, AccountInv, AccountTypeOK, Waits
<1>2. /\ w \in CallRecord /\ w.began = call[c].began /\ w.account = call[c].account
      /\ w.token = call[c].token /\ w.held = call[c].held
      /\ w.phase \in {"done", "failed"} /\ (w.phase = "failed" => w.refused)
  BY <1>1 DEF CallRecord
<1>3. w.token # NoToken =>
        \/ w.token = w.held
        \/ \E r \in TokenCalls : /\ pending[r].state = "ok" /\ pending[r].account = w.account
                                 /\ pending[r].ended > w.began /\ w.token = pending[r].token
  BY <1>1, <1>2 DEF AccountInv, Current, Gives
<1>4. UNCHANGED <<rows, active, refreshes, pending, poll, issued, settled, history>>
  BY DEF FetchEnds
<1>5. w.began <= settled /\ w.phase \in {"fetching", "done", "failed"}
  BY <1>1, <1>2
<1> QED BY <1>1, <1>2, <1>3, <1>4, <1>5, CallKeeps

-----------------------------------------------------------------------------
(* A login ends: the row is the login's, and what is in flight of the      *)
(* account is no longer of the last login: crossed says so.                *)
LEMMA PollOrgsKeeps ==
  ASSUME AccountInv, NEW l \in Logins, PollOrgs(l)
  PROVE  AccountInv'
<1> AccountTypeOK
  BY DEF AccountInv
<1> DEFINE a == poll[l].account
           t == poll[l].token
<1>1. a \in Accounts /\ t \in Token /\ t.login = l
  BY DEF PollOrgs, AccountInv, Descent
<1>2. PICK fresh \in BOOLEAN : rows' = Put(a, [token |-> t, fresh |-> fresh])
  BY DEF PollOrgs, LoggedIn
<1>3. /\ Stored' = Stored \cup {a} /\ rows' \in [Stored' -> Row]
      /\ \A x \in Stored : x # a => rows'[x] = rows[x]
      /\ rows'[a].token = t
  BY <1>1, <1>2 DEF Put, Stored, AccountTypeOK, Row
<1>4. /\ poll' = [poll EXCEPT ![l] = [@ EXCEPT !.phase = "done"]]
      /\ last' = [last EXCEPT ![a] = l]
      /\ crossed' = [crossed EXCEPT ![a] = Flying(a) # {}]
      /\ UNCHANGED <<refreshes, pending, call, issued, settled>>
  BY DEF PollOrgs
<1>5. /\ last'[a] = l /\ crossed'[a] = (Flying(a) # {})
      /\ \A x \in Accounts : x # a => last'[x] = last[x] /\ crossed'[x] = crossed[x]
  BY <1>1, <1>4 DEF AccountTypeOK
<1>6. /\ poll' \in [Logins -> Poll] /\ poll'[l].phase = "done"
      /\ \A m \in Logins : m # l => poll'[m] = poll[m]
  BY <1>4 DEF AccountTypeOK, Poll
<1>7. AccountTypeOK'
  <2>1. (Flying(a) # {}) \in BOOLEAN
    OBVIOUS
  <2>2. last' \in [Accounts -> Logins \cup {None}] /\ crossed' \in [Accounts -> BOOLEAN]
    BY <1>4, <2>1 DEF AccountTypeOK
  <2> QED BY <1>1, <1>3, <1>4, <1>6, <2>2 DEF AccountTypeOK
<1>8. Flight' /\ Waits' /\ Current'
  BY <1>4 DEF AccountInv, Flight, Waits, Current, Gives
<1>9. Descent'
  <2> HIDE DEF a, t
  <2>1. \A x \in Stored' : ~crossed'[x] => rows'[x].token.login = last'[x]
    BY <1>1, <1>3, <1>5 DEF AccountInv, Descent, AccountTypeOK
  <2>2. \A d \in TokenCalls :
          (/\ pending'[d].state = "flying" /\ pending'[d].account \in Stored'
           /\ ~crossed'[pending'[d].account])
            => pending'[d].login = last'[pending'[d].account]
    <3> SUFFICES ASSUME NEW d \in TokenCalls, pending[d].state = "flying",
                        pending[d].account \in Stored', ~crossed'[pending[d].account]
                 PROVE  pending[d].login = last'[pending[d].account]
      BY <1>4
    <3>1. pending[d].account # a
      BY <1>1, <1>5 DEF Flying
    <3> QED BY <1>3, <1>5, <3>1 DEF AccountInv, Descent, AccountTypeOK
  <2>3. \A m \in Logins :
          /\ poll'[m].phase \in {"user", "orgs"} => poll'[m].token \in Token /\ poll'[m].token.login = m
          /\ poll'[m].phase = "orgs" => poll'[m].account \in Accounts
    BY <1>6 DEF AccountInv, Descent
  <2> QED BY <2>1, <2>2, <2>3 DEF Descent
<1> QED BY <1>7, <1>8, <1>9 DEF AccountInv

(* The steps of a login before that one.                                   *)
LEMMA PollKeeps ==
  ASSUME AccountInv, NEW l \in Logins,
         PollToken(l) \/ PollFails(l) \/ \E a \in Accounts : PollUser(l, a)
  PROVE  AccountInv'
<1> AccountTypeOK
  BY DEF AccountInv
<1>1. PICK w \in Poll :
        /\ poll' = [poll EXCEPT ![l] = w]
        /\ w.phase \in {"user", "orgs", "failed"}
        /\ w.phase \in {"user", "orgs"} => w.token \in Token /\ w.token.login = l
        /\ w.phase = "orgs" => w.account \in Accounts
  <2>1. CASE PollToken(l)
    <3> DEFINE t == [login |-> l, number |-> issued + 1]
               w == [NoPoll EXCEPT !.phase = "user", !.token = t]
    <3>1. t \in Token /\ t.login = l
      BY DEF AccountTypeOK, Token
    <3>2. poll' = [poll EXCEPT ![l] = w]
      BY <2>1 DEF PollToken
    <3> HIDE DEF t
    <3>3. w \in Poll /\ w.phase = "user" /\ w.token = t
      BY <3>1 DEF Poll, NoPoll, NoToken
    <3> QED BY <3>1, <3>2, <3>3
  <2>2. CASE PollFails(l)
    <3> DEFINE w == [poll[l] EXCEPT !.phase = "failed"]
    <3>1. w \in Poll /\ w.phase = "failed" /\ poll' = [poll EXCEPT ![l] = w]
      BY <2>2 DEF PollFails, AccountTypeOK, Poll
    <3> QED BY <3>1
  <2>3. CASE \E a \in Accounts : PollUser(l, a)
    <3> PICK a \in Accounts : PollUser(l, a)
      BY <2>3
    <3> DEFINE w == [poll[l] EXCEPT !.phase = "orgs", !.account = a]
    <3>1. poll[l] \in Poll /\ poll[l].phase = "user" /\ poll' = [poll EXCEPT ![l] = w]
      BY DEF PollUser, AccountTypeOK
    <3>2. w \in Poll /\ w.phase = "orgs" /\ w.account = a /\ w.token = poll[l].token
      BY <3>1 DEF Poll
    <3>3. w.token \in Token /\ w.token.login = l
      BY <3>1, <3>2 DEF AccountInv, Descent
    <3> HIDE DEF w
    <3> QED BY <3>1, <3>2, <3>3
  <2> QED BY <2>1, <2>2, <2>3
<1>2. /\ issued' \in Nat
      /\ UNCHANGED <<rows, active, refreshes, pending, call, settled, last, crossed>>
  BY DEF PollToken, PollFails, PollUser, history, AccountTypeOK
<1>3. poll'[l] = w /\ \A m \in Logins : m # l => poll'[m] = poll[m]
  BY <1>1 DEF AccountTypeOK
<1>4. AccountTypeOK'
  BY <1>1, <1>2 DEF AccountTypeOK, Stored
<1>5. Flight' /\ Waits' /\ Current'
  BY <1>2 DEF AccountInv, Flight, Waits, Current, Gives
<1>6. Descent'
  BY <1>1, <1>2, <1>3 DEF AccountInv, Descent, Stored
<1> QED BY <1>4, <1>5, <1>6 DEF AccountInv

(* A row goes, or its token is about to expire.                            *)
LEMMA RowKeeps ==
  ASSUME AccountInv, NEW a \in Accounts, Remove(a) \/ Use(a) \/ Expires(a)
  PROVE  AccountInv'
<1> AccountTypeOK
  BY DEF AccountInv
<1>1. UNCHANGED <<refreshes, pending, call, poll, issued, settled, last, crossed>>
  BY DEF Remove, Use, Expires, history
<1>2. /\ Stored' \subseteq Stored
      /\ rows' \in [Stored' -> Row]
      /\ \A x \in Stored' : rows'[x].token = rows[x].token
  <2>1. CASE Remove(a)
    BY <2>1 DEF Remove, Stored, AccountTypeOK
  <2>2. CASE Use(a)
    BY <2>2 DEF Use, Stored, AccountTypeOK
  <2>3. CASE Expires(a)
    <3>1. /\ a \in Stored /\ rows[a] \in Row
          /\ rows' = [rows EXCEPT ![a] = [@ EXCEPT !.fresh = FALSE]]
      BY <2>3 DEF Expires, AccountTypeOK
    <3>2. /\ [rows[a] EXCEPT !.fresh = FALSE] \in Row
          /\ [rows[a] EXCEPT !.fresh = FALSE].token = rows[a].token
      BY <3>1 DEF Row
    <3>3. /\ DOMAIN rows' = DOMAIN rows
          /\ \A x \in Stored : rows'[x] = IF x = a THEN [rows[a] EXCEPT !.fresh = FALSE] ELSE rows[x]
      BY <3>1 DEF Stored, AccountTypeOK
    <3>4. rows' \in [Stored -> Row]
      BY <3>1, <3>2 DEF AccountTypeOK
    <3> QED BY <3>2, <3>3, <3>4 DEF Stored
  <2> QED BY <2>1, <2>2, <2>3
<1>3. AccountTypeOK'
  BY <1>1, <1>2 DEF AccountTypeOK
<1>4. Flight' /\ Waits' /\ Current'
  BY <1>1 DEF AccountInv, Flight, Waits, Current, Gives
<1>5. Descent'
  BY <1>1, <1>2 DEF AccountInv, Descent
<1> QED BY <1>3, <1>4, <1>5 DEF AccountInv

-----------------------------------------------------------------------------
LEMMA AccountInvNext == AccountInv /\ [AccountNext]_accountVars => AccountInv'
<1> SUFFICES ASSUME AccountInv, [AccountNext]_accountVars PROVE AccountInv'
  OBVIOUS
<1>1. ASSUME NEW c \in TokenCalls, CallSteps(c) \/ RefreshEnds(c) \/ RefreshFails(c) \/ FetchEnds(c)
      PROVE  AccountInv'
  BY <1>1, CallsKeep, RefreshEndsKeeps, RefreshFailsKeeps, FetchKeeps
<1>2. ASSUME NEW l \in Logins,
             PollToken(l) \/ PollOrgs(l) \/ PollFails(l) \/ \E a \in Accounts : PollUser(l, a)
      PROVE  AccountInv'
  BY <1>2, PollKeeps, PollOrgsKeeps
<1>3. ASSUME NEW a \in Accounts, Remove(a) \/ Use(a) \/ Expires(a)
      PROVE  AccountInv'
  BY <1>3, RowKeeps
<1>4. CASE UNCHANGED accountVars
  BY <1>4 DEF accountVars, AccountInv, AccountTypeOK, Flight, Waits, Current, Gives, Descent, Stored
<1> QED BY <1>1, <1>2, <1>3, <1>4 DEF AccountNext

LEMMA AccountInvAlways == AccountSpec => []AccountInv
BY AccountInvInit, AccountInvNext, PTL DEF AccountSpec

(* The tables keep their types.                                            *)
THEOREM AccountTypeCorrect == AccountSpec => []AccountTypeOK
<1>1. AccountInv => AccountTypeOK
  BY DEF AccountInv
<1> QED BY <1>1, AccountInvAlways, PTL

(* An account is in one refresh at a time: each that flies is the one that *)
(* refreshes names.                                                        *)
THEOREM RefreshesCoalesce == AccountSpec => []OneRefreshAtATime
<1>1. AccountInv => OneRefreshAtATime
  BY DEF AccountInv, Flight, OneRefreshAtATime, Flying
<1> QED BY <1>1, AccountInvAlways, PTL

(* A call never gets what a refresh gave or refused before it began.       *)
THEOREM AnswersAreOfTheirTime == AccountSpec => []AnswersAreCurrent
<1>1. AccountInv => AnswersAreCurrent
  BY DEF AccountInv, Current, Gives, AnswersAreCurrent
<1> QED BY <1>1, AccountInvAlways, PTL

(* Only a refresh in flight when a login ended takes that login's tokens   *)
(* away.                                                                   *)
THEOREM LoginsAreKept == AccountSpec => []LoginsHold
<1>1. AccountInv => LoginsHold
  BY DEF AccountInv, Descent, LoginsHold
<1> QED BY <1>1, AccountInvAlways, PTL
============================================================================
