------------------------------ MODULE Questions ------------------------------
(***************************************************************************)
(* question/QuestionRuntime.hx and the question routes of                  *)
(* OpenCodeServer.hx over Instances: one service per directory, made on    *)
(* demand, with its pending questions and its own counter of ids, disposed *)
(* of when the instance of its directory is.                               *)
(*                                                                         *)
(* Every route boots the directory's instance.  A tool asks the service it *)
(* was given; a user interface names a directory and the id of the         *)
(* question it shows.                                                      *)
(***************************************************************************)
EXTENDS Instances

CONSTANTS Asks,        (* calls of ask                                     *)
          Requests,    (* requests to the reply route                      *)
          MaxServices  (* bound on the services ever created               *)

ASSUME QuestionAssumption == MaxServices \in Nat

VARIABLES services,   (* QuestionRuntime.services; 0: none                 *)
          home,       (* the directory of each service created, in order   *)
          disposed,
          pending,    (* the calls pending in each service                 *)
          nextID,
          ask,        (* the service each call asked and the id it got     *)
          outcome,    (* how the promise of each call settled              *)
          meant,      (* the call whose shown question the answer was      *)
                      (* for, and whether it came after its service        *)
                      (* was disposed of; history only                     *)
          request,    (* requests to the reply route                       *)
          left        (* services whose instance's disposal threw; history *)
                      (* only                                              *)

questionVars == <<services, home, disposed, pending, nextID, ask, outcome, meant, request, left>>

vars == <<instanceVars, questionVars>>

Services == 1..MaxServices

Made == 1..Len(home)

NoAsk == [via |-> 0, id |-> 0]

Asked == {q \in Asks : ask[q] # NoAsk}

NoMeant == [to |-> None, late |-> FALSE]

NoRequest == [phase |-> "none", to |-> None, via |-> 0, late |-> FALSE]

HomeOf(q) == home[ask[q].via]

-----------------------------------------------------------------------------
(* The service a route gets for d, once forContext has made it.            *)
Served(d) == IF services[d] = 0 THEN Len(home) + 1 ELSE services[d]

(* What every question route begins with: questionService.                 *)
Enter(d) ==
  /\ Boot(d, <<>>)
  /\ services[d] # 0 \/ Len(home) < MaxServices
  /\ services' = [services EXCEPT ![d] = Served(d)]
  /\ home' = IF services[d] = 0 THEN Append(home, d) ELSE home

ListQuestions(d) ==
  /\ Enter(d)
  /\ UNCHANGED <<disposed, pending, nextID, ask, outcome, meant, request, left>>

(* ask, on a service a tool was given while its instance was there.        *)
AskRefused(q, s) ==
  /\ q \notin Asked
  /\ s \in disposed
  /\ ask' = [ask EXCEPT ![q] = [via |-> s, id |-> 0]]
  /\ outcome' = [outcome EXCEPT ![q] = "rejected"]
  /\ UNCHANGED <<instanceVars, services, home, disposed, pending, nextID, meant, request, left>>

Ask(q, s) ==
  /\ q \notin Asked
  /\ s \notin disposed
  /\ ask' = [ask EXCEPT ![q] = [via |-> s, id |-> nextID[s]]]
  /\ nextID' = [nextID EXCEPT ![s] = @ + 1]
  /\ pending' = [pending EXCEPT ![s] = @ \cup {q}]
  /\ UNCHANGED <<instanceVars, services, home, disposed, outcome, meant, request, left>>

(* The pending call of service s that has the id of q: reply and reject    *)
(* look it up by id.                                                       *)
Named(q, s) == {p \in pending[s] : ask[p].id = ask[q].id}

(* Removes the calls S from service s and settles their promises.          *)
Settle(s, S, as) ==
  /\ pending' = [pending EXCEPT ![s] = @ \ S]
  /\ outcome' = [p \in Asks |-> IF p \in S THEN as ELSE outcome[p]]

Means(S, to, late) ==
  meant' = [p \in Asks |-> IF p \in S THEN [to |-> to, late |-> late] ELSE meant[p]]

(* The user answers the question of q: the route takes the service, then   *)
(* waits for the body.                                                     *)
ReplyBegins(r, q) ==
  /\ request[r].phase = "none"
  /\ q \in Asked /\ ask[q].id # 0
  /\ Enter(HomeOf(q))
  /\ request' = [request EXCEPT ![r] = [phase |-> "reading", to |-> q, via |-> Served(HomeOf(q)),
                                        late |-> ask[q].via \in disposed]]
  /\ UNCHANGED <<disposed, pending, nextID, ask, outcome, meant, left>>

(* TakenLate and DisposeForgets are forms a defect would give, for the     *)
(* mutation checks only.                                                   *)
TakenLate(r) == services[HomeOf(request[r].to)]

(* The service that the request got when it came.                          *)
Taken(r) == request[r].via

ReplyEnds(r) ==
  LET s == Taken(r)
      hit == Named(request[r].to, s)
  IN
  /\ request[r].phase = "reading"
  /\ s # 0
  /\ Settle(s, hit, "answered")
  /\ Means(hit, request[r].to, request[r].late)
  /\ request' = [request EXCEPT ![r].phase = "done"]
  /\ UNCHANGED <<instanceVars, services, home, disposed, nextID, ask, left>>

(* The body is not a reply.                                                *)
ReplyRefused(r) ==
  /\ request[r].phase = "reading"
  /\ request' = [request EXCEPT ![r].phase = "done"]
  /\ UNCHANGED <<instanceVars, services, home, disposed, pending, nextID, ask, outcome, meant, left>>

(* The user dismisses the question of q: this route has no body to wait    *)
(* for.                                                                    *)
RejectQuestion(q) ==
  LET s == Served(HomeOf(q))
      hit == IF s \in Made THEN Named(q, s) ELSE {}
  IN
  /\ q \in Asked /\ ask[q].id # 0
  /\ Enter(HomeOf(q))
  /\ Settle(s, hit, "rejected")
  /\ Means(hit, q, ask[q].via \in disposed)
  /\ UNCHANGED <<disposed, nextID, ask, request, left>>

-----------------------------------------------------------------------------
DisposeForgets(d) ==
  /\ services' = [services EXCEPT ![d] = 0]
  /\ UNCHANGED <<disposed, pending, outcome>>

(* The listener of QuestionRuntime: the service of d goes, and its pending *)
(* questions are rejected.                                                 *)
ServiceEnds(d) ==
  IF services[d] = 0
    THEN UNCHANGED <<services, disposed, pending, outcome>>
    ELSE /\ services' = [services EXCEPT ![d] = 0]
         /\ disposed' = disposed \cup {services[d]}
         /\ Settle(services[d], pending[services[d]], "rejected")

(* What follows a disposal of the instance of d.                           *)
Listeners(d) ==
  /\ IF contexts[d] = None \/ ~Publishes(d)
       THEN UNCHANGED <<services, disposed, pending, outcome>>
       ELSE ServiceEnds(d)
  /\ left' = IF contexts[d] = None \/ Publishes(d) THEN left ELSE left \cup {services[d]}
  /\ UNCHANGED <<home, nextID, ask, meant, request>>

DisposeInstance(d) == Dispose(d) /\ Listeners(d)

ReloadInstance(d, L) == Reload(d, L) /\ Listeners(d)

(* The boot of a worktree, or of a caller with services of its own.        *)
BootInstance(d, L) == Boot(d, L) /\ UNCHANGED questionVars

BootRefuses(L) == BootFails(L) /\ UNCHANGED questionVars

-----------------------------------------------------------------------------
Init ==
  /\ InstanceInit
  /\ services = [d \in Directories |-> 0]
  /\ home = <<>>
  /\ disposed = {}
  /\ pending = [s \in Services |-> {}]
  /\ nextID = [s \in Services |-> 1]
  /\ ask = [q \in Asks |-> NoAsk]
  /\ outcome = [q \in Asks |-> "none"]
  /\ meant = [q \in Asks |-> NoMeant]
  /\ request = [r \in Requests |-> NoRequest]
  /\ left = {}

Next ==
  \/ \E d \in Directories : ListQuestions(d) \/ DisposeInstance(d)
  \/ \E d \in Directories, L \in Starts : BootInstance(d, L) \/ ReloadInstance(d, L)
  \/ \E L \in Starts : BootRefuses(L)
  \/ \E q \in Asks, s \in Made : AskRefused(q, s) \/ Ask(q, s)
  \/ \E q \in Asks : RejectQuestion(q)
  \/ \E r \in Requests, q \in Asks : ReplyBegins(r, q)
  \/ \E r \in Requests : ReplyEnds(r) \/ ReplyRefused(r)

Spec == Init /\ [][Next]_vars

-----------------------------------------------------------------------------
(* "Pending requests ... are rejected when the owning instance is disposed *)
(* or reloaded", docs/question-runtime.md: whatever is pending is in the   *)
(* service its directory has now, where the routes find it, and the        *)
(* directory has an instance, unless a disposer of that instance threw.    *)
PendingIsReachable ==
  \A s \in Services : pending[s] # {} =>
    /\ services[home[s]] = s
    /\ contexts[home[s]] # None \/ s \in left

(* A reply or a rejection settles the question it was meant for, whatever  *)
(* is disposed of or reloaded while the body of its request is read;       *)
(* another one only when it came after the service of its own was gone     *)
(* (ids start again at 1: replyQuestion, rejectQuestion, nextQuestionID).  *)
AnswersReachTheirQuestion ==
  \A q \in Asks : meant[q] # NoMeant => meant[q].to = q \/ meant[q].late
=============================================================================
