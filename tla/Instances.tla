------------------------------ MODULE Instances ------------------------------
(***************************************************************************)
(* project/InstanceRuntime.hx: one instance per directory, with the        *)
(* services it has started.  A service that has a disposer is a hook here; *)
(* the others leave nothing behind.  Every operation is synchronous.       *)
(*                                                                         *)
(* The actions speak of the variables below only: the module Questions     *)
(* says what the listeners do.                                             *)
(***************************************************************************)
EXTENDS Naturals, Sequences, FiniteSets

CONSTANTS Directories,
          Hooks,      (* services with a disposer that may ever be started *)
          Throwing,   (* those whose disposer throws                       *)
          None

ASSUME InstanceAssumption == Throwing \subseteq Hooks /\ None \notin Seq(Hooks)

VARIABLES contexts,   (* InstanceRuntime.contexts: the hooks of each       *)
                      (* instance, in the order they were started          *)
          used,       (* hooks started so far                              *)
          running,    (* hooks whose disposer has not been called          *)
          lost        (* hooks that nothing refers to any more although    *)
                      (* they were running; history only                   *)

instanceVars == <<contexts, used, running, lost>>

Elements(L) == {L[i] : i \in DOMAIN L}

(* What a boot may start: up to two hooks that were not started before.    *)
Starts == {<<>>} \cup {<<h>> : h \in Hooks \ used}
                 \cup {L \in (Hooks \ used) \X (Hooks \ used) : L[1] # L[2]}

(* disposeServices goes from the last to the first, and no further than    *)
(* the first that throws.                                                  *)
Skipped(L) == {L[i] : i \in {j \in DOMAIN L : \E k \in DOMAIN L : k > j /\ L[k] \in Throwing}}

Throws(L) == Elements(L) \cap Throwing # {}

(* EndsNone is a form a defect would give, for the mutation checks only.   *)
EndsNone(L) == {}

Ended(L) == Elements(L) \ Skipped(L)

(* boot over an instance forgets its hooks.                                *)
Forgotten(d) == IF contexts[d] = None THEN {} ELSE Elements(contexts[d])

Boot(d, L) ==
  /\ contexts' = [contexts EXCEPT ![d] = L]
  /\ used' = used \cup Elements(L)
  /\ running' = running \cup Elements(L)
  /\ lost' = lost \cup Forgotten(d)

(* A factory after those of L refuses, and they are disposed of, or it     *)
(* throws, and they are not; nothing is cached.                            *)
BootFails(L) ==
  /\ used' = used \cup Elements(L)
  /\ \E rest \in {Skipped(L), Elements(L)} :
       /\ running' = running \cup rest
       /\ lost' = lost \cup rest
  /\ UNCHANGED contexts

(* dispose: the entry goes first.  When a disposer throws no event is      *)
(* published.                                                              *)
Dispose(d) ==
  /\ contexts[d] # None
  /\ contexts' = [contexts EXCEPT ![d] = None]
  /\ running' = running \ Ended(contexts[d])
  /\ lost' = lost \cup Skipped(contexts[d])
  /\ UNCHANGED used

Publishes(d) == contexts[d] # None /\ ~Throws(contexts[d])

(* reload: dispose, and unless it throws, boot.  One whose boot fails is   *)
(* Dispose and then BootFails, which leave what it leaves.                 *)
Reload(d, L) ==
  \/ /\ contexts[d] = None
     /\ Boot(d, L)
  \/ /\ contexts[d] # None /\ Throws(contexts[d])
     /\ Dispose(d)
  \/ /\ Publishes(d)
     /\ contexts' = [contexts EXCEPT ![d] = L]
     /\ used' = used \cup Elements(L)
     /\ running' = (running \ Ended(contexts[d])) \cup Elements(L)
     /\ UNCHANGED lost

InstanceInit ==
  /\ contexts = [d \in Directories |-> None]
  /\ used = {}
  /\ running = {}
  /\ lost = {}

-----------------------------------------------------------------------------
(* "disposing an instance tears down service hooks",                       *)
(* docs/project-runtime-parity.md: a hook that was started and not         *)
(* disposed of is one of its directory's instance, unless a boot over that *)
(* instance, a throwing disposer or a throwing factory left it; and an     *)
(* instance never has a hook that was disposed of (boot, dispose,          *)
(* startServices).                                                         *)
HooksAreOwned ==
  /\ running \ lost = UNION {Elements(contexts[d]) : d \in {e \in Directories : contexts[e] # None}}
  /\ \A d, e \in Directories :
       (d # e /\ contexts[d] # None /\ contexts[e] # None) =>
         Elements(contexts[d]) \cap Elements(contexts[e]) = {}
=============================================================================
