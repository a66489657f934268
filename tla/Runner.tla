------------------------------- MODULE Runner -------------------------------
(***************************************************************************)
(* src/opencodehx/effect/RunnerRuntime.hx: callers of ensureRunning share  *)
(* the run in progress; cancel settles all of them, at once or when the    *)
(* onInterrupt promise does, while the abandoned run goes on and must not  *)
(* answer anybody.  busy is assigned together with state and is not kept   *)
(* apart.                                                                  *)
(***************************************************************************)
EXTENDS Naturals, Sequences

CONSTANTS Calls,         (* calls of ensureRunning                         *)
          MaxRunID,      (* bound on runID                                 *)
          Settings       (* the runners considered                         *)

Setting == [onInterrupt : BOOLEAN,   (* options.onInterrupt is given       *)
            throws : BOOLEAN]        (* work() and onInterrupt() may throw *)
                                     (* before they return a promise       *)

ASSUME RunnerAssumption ==
  /\ MaxRunID \in Nat
  /\ Settings \subseteq Setting

VARIABLES setting,
          state,         (* Idle or Running                                *)
          waiters,       (* callers waiting for the run in progress        *)
          runID,
          live,          (* runs whose promise has not called back yet     *)
          interrupting,  (* callers awaiting each pending onInterrupt      *)
          joined,        (* the run each call asked to share; 0: no call   *)
          outcome,       (* how each call's promise settled, and by which  *)
                         (* run                                            *)
          workThrew,     (* history: the runs whose work() threw           *)
          interruptThrew (* history: the runs at whose cancel              *)
                         (* onInterrupt() threw                            *)

threw == <<workThrew, interruptThrew>>

runner == <<setting, state, waiters, runID, live, interrupting, joined, outcome, threw>>

Open == [how |-> "open", run |-> 0]

Callers(s) == {s[i] : i \in 1..Len(s)}

(* Settles the promises of the callers in S; a promise settles once.       *)
SettledBy(S, how, r) ==
  [c \in Calls |-> IF c \in S /\ outcome[c] = Open THEN [how |-> how, run |-> r]
                   ELSE outcome[c]]

(* JoinDropsCaller, CompleteUnguarded and CompleteKeepsState are forms a   *)
(* defect would give, for the mutation checks only.                        *)
JoinDropsCaller(c) ==
  /\ state = "Running" /\ joined[c] = 0
  /\ joined' = [joined EXCEPT ![c] = runID]
  /\ UNCHANGED <<setting, state, waiters, runID, live, interrupting, outcome, threw>>

(* ensureRunning while a run is in progress: its work is ignored.          *)
Join(c) ==
  /\ state = "Running" /\ joined[c] = 0
  /\ waiters' = Append(waiters, c)
  /\ joined' = [joined EXCEPT ![c] = runID]
  /\ UNCHANGED <<setting, state, runID, live, interrupting, outcome, threw>>

(* ensureRunning on an idle runner, and start.                             *)
Begin(c) ==
  /\ state = "Idle" /\ joined[c] = 0 /\ runID < MaxRunID
  /\ waiters' = Append(waiters, c)
  /\ state' = "Running"
  /\ runID' = runID + 1
  /\ joined' = [joined EXCEPT ![c] = runID + 1]
  /\ UNCHANGED <<setting, interrupting, interruptThrew>>

Start(c) ==
  /\ Begin(c)
  /\ live' = live \cup {runID + 1}
  /\ UNCHANGED <<outcome, workThrew>>

(* work() throws inside the promise executor: only the caller's own        *)
(* promise is rejected, no callback is attached.                           *)
StartThrows(c) ==
  /\ setting.throws
  /\ Begin(c)
  /\ outcome' = SettledBy({c}, "failure", runID + 1)
  /\ workThrew' = workThrew \cup {runID + 1}
  /\ UNCHANGED live

Drain == waiters' = <<>> /\ state' = "Idle"

CompleteUnguarded(r, how) ==
  /\ r \in live
  /\ live' = live \ {r}
  /\ UNCHANGED <<setting, runID, interrupting, joined, threw>>
  /\ IF state = "Running"
       THEN Drain /\ outcome' = SettledBy(Callers(waiters), how, r)
       ELSE UNCHANGED <<state, waiters, outcome>>

CompleteKeepsState(r, how) ==
  /\ r \in live
  /\ live' = live \ {r}
  /\ UNCHANGED <<setting, state, runID, interrupting, joined, threw>>
  /\ IF r = runID /\ state = "Running"
       THEN waiters' = <<>> /\ outcome' = SettledBy(Callers(waiters), how, r)
       ELSE UNCHANGED <<waiters, outcome>>

(* The callbacks start attached to the promise of run r.                   *)
Complete(r, how) ==
  /\ r \in live
  /\ live' = live \ {r}
  /\ UNCHANGED <<setting, runID, interrupting, joined, threw>>
  /\ IF r = runID /\ state = "Running"
       THEN Drain /\ outcome' = SettledBy(Callers(waiters), how, r)
       ELSE UNCHANGED <<state, waiters, outcome>>

(* cancel of a run in progress, up to the call of onInterrupt.             *)
Abandon ==
  /\ state = "Running" /\ runID < MaxRunID
  /\ Drain
  /\ runID' = runID + 1
  /\ UNCHANGED <<setting, live, joined, workThrew>>

Cancel ==
  /\ Abandon
  /\ IF setting.onInterrupt
       THEN interrupting' = interrupting \cup {[callers |-> Callers(waiters), run |-> runID]} /\ UNCHANGED outcome
       ELSE outcome' = SettledBy(Callers(waiters), "cancelled", runID)
            /\ UNCHANGED interrupting
  /\ UNCHANGED interruptThrew

(* onInterrupt() throws, and so does cancel: the callers were taken from   *)
(* the waiters, and nothing refers to their promises any more.             *)
CancelThrows ==
  /\ setting.onInterrupt /\ setting.throws
  /\ Abandon
  /\ interruptThrew' = interruptThrew \cup {runID}
  /\ UNCHANGED <<interrupting, outcome>>

CancelIdle ==
  /\ state = "Idle"
  /\ UNCHANGED runner

(* The onInterrupt promise resolves or rejects and answers its batch.      *)
InterruptSettles(batch) ==
  /\ batch \in interrupting
  /\ interrupting' = interrupting \ {batch}
  /\ outcome' = SettledBy(batch.callers, "interrupted", batch.run)
  /\ UNCHANGED <<setting, state, waiters, runID, live, joined, threw>>

RunnerInit ==
  /\ setting \in Settings
  /\ state = "Idle"
  /\ waiters = <<>>
  /\ runID = 0
  /\ live = {}
  /\ interrupting = {}
  /\ joined = [c \in Calls |-> 0]
  /\ outcome = [c \in Calls |-> Open]
  /\ workThrew = {} /\ interruptThrew = {}

Completes(r) == \E how \in {"value", "failure"} : Complete(r, how)

RunnerNext ==
  \/ \E c \in Calls : Join(c) \/ Start(c) \/ StartThrows(c)
  \/ \E r \in live : Completes(r)
  \/ Cancel
  \/ CancelThrows
  \/ CancelIdle
  \/ \E batch \in interrupting : InterruptSettles(batch)

RunnerSpec == RunnerInit /\ [][RunnerNext]_runner

Batches == [callers : SUBSET Calls, run : 1..MaxRunID]

(* Promises handed to the runner settle: what work() and onInterrupt()     *)
(* returned, if they did, calls back in the end.                           *)
FairRunnerSpec ==
  /\ RunnerSpec
  /\ \A r \in 1..MaxRunID : WF_runner(Completes(r))
  /\ \A batch \in Batches : WF_runner(InterruptSettles(batch))

-----------------------------------------------------------------------------

RunnerTypeOK ==
  /\ setting \in Settings
  /\ state \in {"Idle", "Running"}
  /\ waiters \in Seq(Calls)
  /\ runID \in 0..MaxRunID
  /\ live \subseteq 1..MaxRunID
  /\ interrupting \subseteq Batches
  /\ joined \in [Calls -> 0..MaxRunID]
  /\ outcome \in [Calls -> [how : {"open", "value", "failure", "cancelled", "interrupted"},
                            run : 0..MaxRunID]]
  /\ workThrew \subseteq 1..MaxRunID /\ interruptThrew \subseteq 1..MaxRunID

(* A caller gets the answer of the run it asked to share, never that of a  *)
(* run abandoned by a cancel (the current == runID tests, lines 85 and 89).*)
AnsweredByOwnRun ==
  \A c \in Calls : outcome[c] # Open => outcome[c].run = joined[c]

(* A call without an answer is still owed one: it waits for the current    *)
(* run or for a pending onInterrupt, and for one of them only (drain).     *)
(* The one exception are the callers of a run at whose cancel              *)
(* onInterrupt() threw (line 63): whatever happens since, neither a new    *)
(* run nor another onInterrupt owes them anything.                         *)
NobodyForgotten ==
  \A c \in Calls : joined[c] # 0 /\ outcome[c] = Open =>
    LET waits == c \in Callers(waiters)
        interrupted == \E batch \in interrupting : c \in batch.callers
    IN  IF joined[c] \in interruptThrew THEN ~waits /\ ~interrupted
        ELSE waits <=> ~interrupted

(* Nobody queues on an idle runner, where no completion would answer.      *)
IdleHasNoWaiters == state = "Idle" => waiters = <<>>

(* Each call of ensureRunning is answered, however cancels, completions    *)
(* and new runs interleave, if the promises given to the runner settle.    *)
(* Only the callers of a run whose own work() threw before it returned a   *)
(* promise (line 84), or at whose cancel onInterrupt() did (line 63), may  *)
(* be left without an answer: the runs before and after it answer theirs.  *)
EveryCallAnswered ==
  \A c \in Calls :
    joined[c] # 0 ~> outcome[c] # Open \/ joined[c] \in workThrew \cup interruptThrew

=============================================================================
