-------------------------- MODULE PermissionService --------------------------
(***************************************************************************)
(* src/opencodehx/permission/PermissionAsyncRuntime.hx and the routes of   *)
(* OpenCodeServer.hx that reach it: one service per directory, created on  *)
(* demand, with its pending requests, its approvals and its own counter of *)
(* request ids, disposed of with the directory's instance.                 *)
(*                                                                         *)
(* A reply names a directory and a request id, which is all the user       *)
(* interface knows of the request it shows.                                *)
(***************************************************************************)
EXTENDS PermissionRules

CONSTANTS Directories,
          Sessions,
          Calls,        (* calls of ask                                    *)
          Inputs,       (* the asks that may be made                       *)
          MaxServices,  (* bound on the services ever created              *)
          MaxApprovals  (* bound on the approved rules of a service: an    *)
                        (* "always" that does not cover its own request    *)
                        (* leaves it pending and may be repeated           *)

AskInput == [session : Sessions, targets : SUBSET Targets,
             always : Seq(SUBSET Targets), ruleset : Seq(Rule)]

ASSUME PermissionAssumption ==
  /\ Inputs \subseteq AskInput
  /\ MaxServices \in Nat
  /\ MaxApprovals \in Nat

VARIABLES home,      (* the directory of each service created, in order    *)
          current,   (* PermissionAsyncRuntime.services; 0: none           *)
          disposed,
          approved,  (* the rules added by "always" replies                *)
          pending,   (* the calls pending in each service; list and       *)
                     (* rejections go by their ids, oldest first           *)
          nextID,
          call,      (* what each call of ask asked, of which service, and *)
                     (* the request id it got                              *)
          verdict,   (* how the promise of each call settled               *)
          repliedBy  (* the kind of the reply that settled each call, and  *)
                     (* the call whose displayed request it was meant for  *)

vars == <<home, current, disposed, approved, pending, nextID, call, verdict, repliedBy>>

Services == 1..MaxServices

Made == 1..Len(home)

NoCall == [via |-> 0, id |-> 0]

Asked == {c \in Calls : call[c] # NoCall}

(* PermissionAsyncRuntime.forContext for a directory without a service.    *)
Open(d) ==
  /\ current[d] = 0 /\ Len(home) < MaxServices
  /\ home' = Append(home, d)
  /\ current' = [current EXCEPT ![d] = Len(home) + 1]
  /\ UNCHANGED <<disposed, approved, pending, nextID, call, verdict, repliedBy>>

Rules(s, in) == in.ruleset \o approved[s]

Record(c, s, id, in) ==
  call' = [call EXCEPT ![c] = [via |-> s, id |-> id, in |-> in]]

(* ask is answered at once: the service is disposed, a rule denies a       *)
(* target, or the rules allow them all.                                    *)
AskAnswered(c, s, in) ==
  /\ c \notin Asked
  /\ LET v == IF s \in disposed THEN "rejected"
              ELSE IF FirstDenied(in.targets, Rules(s, in)) THEN "denied"
              ELSE IF AllAllowed(in.targets, Rules(s, in)) THEN "allowed"
              ELSE "open"
     IN  v # "open" /\ verdict' = [verdict EXCEPT ![c] = v]
  /\ Record(c, s, 0, in)
  /\ UNCHANGED <<home, current, disposed, approved, pending, nextID, repliedBy>>

(* The next one, AlwaysResolvesSession, RejectsOne, AddressedAnywhere and  *)
(* DisposeForgetsPending are forms a defect would give, for the mutation   *)
(* checks only.                                                            *)
AskPromptsDespiteDeny(c, s, in) ==
  /\ c \notin Asked
  /\ s \notin disposed
  /\ ~AllAllowed(in.targets, Rules(s, in))
  /\ pending' = [pending EXCEPT ![s] = @ \cup {c}]
  /\ nextID' = [nextID EXCEPT ![s] = @ + 1]
  /\ Record(c, s, nextID[s], in)
  /\ UNCHANGED <<home, current, disposed, approved, verdict, repliedBy>>

(* ask makes a pending request and publishes it.                           *)
AskPrompts(c, s, in) ==
  /\ c \notin Asked
  /\ s \notin disposed
  /\ ~FirstDenied(in.targets, Rules(s, in))
  /\ ~AllAllowed(in.targets, Rules(s, in))
  /\ pending' = [pending EXCEPT ![s] = @ \cup {c}]
  /\ nextID' = [nextID EXCEPT ![s] = @ + 1]
  /\ Record(c, s, nextID[s], in)
  /\ UNCHANGED <<home, current, disposed, approved, verdict, repliedBy>>

(* Settles the calls S pending in service s, after a reply of that kind    *)
(* meant for call "to" (resolvePending, rejectPending and remove).         *)
Settle(s, S, v, kind, to) ==
  /\ pending' = [pending EXCEPT ![s] = @ \ S]
  /\ verdict' = [c \in Calls |-> IF c \in S THEN v ELSE verdict[c]]
  /\ repliedBy' = [c \in Calls |-> IF c \in S THEN [kind |-> kind, to |-> to]
                                     ELSE repliedBy[c]]

SameSession(s, e) == {c \in pending[s] : call[c].in.session = call[e].in.session}

AddressedAnywhere(to) ==
  {c \in UNION {pending[s] : s \in Made} : call[c].id = call[to].id}

(* The request a reply finds: pending.get(requestID) in the service the    *)
(* directory has now, for the id the user interface shows for call "to".   *)
Addressed(to) ==
  LET s == current[home[call[to].via]] IN
  IF s = 0 THEN {} ELSE {c \in pending[s] : call[c].id = call[to].id}

(* The requests a user interface may still show, hence reply to: those     *)
(* that another reply has settled since are among them, and those of an    *)
(* instance that was disposed of since.                                    *)
Shown(to) == to \in Asked /\ call[to].id # 0

ReplyOnce(to) ==
  /\ Shown(to)
  /\ \E e \in Addressed(to) : Settle(call[e].via, {e}, "allowed", "once", to)
  /\ UNCHANGED <<home, current, disposed, approved, nextID, call>>

Approvals(e) ==
  [i \in 1..Len(call[e].in.always) |->
     [covers |-> call[e].in.always[i], action |-> "allow"]]

AlwaysResolvesSession(s, e, rules) == SameSession(s, e)

(* resolveMatchingSession: only the approvals count, not the rule sets.    *)
AlwaysResolves(s, e, rules) ==
  {c \in SameSession(s, e) : AllAllowed(call[c].in.targets, rules)}

ReplyAlways(to) ==
  /\ Shown(to)
  /\ \E e \in Addressed(to) :
       LET s == call[e].via
           rules == approved[s] \o Approvals(e)
       IN  /\ Len(rules) <= MaxApprovals
           /\ approved' = [approved EXCEPT ![s] = rules]
           /\ Settle(s, AlwaysResolves(s, e, rules), "allowed", "always", to)
  /\ UNCHANGED <<home, current, disposed, nextID, call>>

RejectsOne(s, e) == {e}

(* "reject", with or without a message: rejectSession.                     *)
Rejects(s, e) == SameSession(s, e)

ReplyReject(to) ==
  /\ Shown(to)
  /\ \E e \in Addressed(to) :
       Settle(call[e].via, Rejects(call[e].via, e), "rejected", "reject", to)
  /\ UNCHANGED <<home, current, disposed, approved, nextID, call>>

(* An id that is not pending: the reply is ignored.                        *)
ReplyUnknown(to) ==
  /\ Shown(to)
  /\ Addressed(to) = {}
  /\ UNCHANGED vars

DisposeForgetsPending(d) ==
  /\ current[d] # 0
  /\ disposed' = disposed \cup {current[d]}
  /\ current' = [current EXCEPT ![d] = 0]
  /\ UNCHANGED <<home, approved, pending, nextID, call, verdict, repliedBy>>

(* The instance of directory d is disposed of, or reloaded: the listener   *)
(* drops the service and rejects what is pending in it.                    *)
DisposeInstance(d) ==
  /\ current[d] # 0
  /\ disposed' = disposed \cup {current[d]}
  /\ current' = [current EXCEPT ![d] = 0]
  /\ pending' = [pending EXCEPT ![current[d]] = {}]
  /\ verdict' = [c \in Calls |-> IF c \in pending[current[d]] THEN "rejected" ELSE verdict[c]]
  /\ UNCHANGED <<home, approved, nextID, call, repliedBy>>

Init ==
  /\ home = <<>>
  /\ current = [d \in Directories |-> 0]
  /\ disposed = {}
  /\ approved = [s \in Services |-> <<>>]
  /\ pending = [s \in Services |-> {}]
  /\ nextID = [s \in Services |-> 1]
  /\ call = [c \in Calls |-> NoCall]
  /\ verdict = [c \in Calls |-> "open"]
  /\ repliedBy = [c \in Calls |-> [kind |-> "none", to |-> c]]

Next ==
  \/ \E d \in Directories : Open(d) \/ DisposeInstance(d)
  \/ \E c \in Calls, s \in Made, in \in Inputs :
       AskAnswered(c, s, in) \/ AskPrompts(c, s, in)
  \/ \E to \in Calls :
       ReplyOnce(to) \/ ReplyAlways(to) \/ ReplyReject(to) \/ ReplyUnknown(to)

Spec == Init /\ [][Next]_vars

-----------------------------------------------------------------------------

TypeOK ==
  /\ home \in Seq(Directories) /\ Len(home) <= MaxServices
  /\ current \in [Directories -> {0} \cup Made]
  /\ disposed \subseteq Made
  /\ approved \in [Services -> Seq(Rule)]
  /\ pending \in [Services -> SUBSET Calls]
  /\ nextID \in [Services -> Nat \ {0}]
  /\ call \in [Calls -> {NoCall} \cup [via : Made, id : Nat, in : Inputs]]
  /\ \A c \in Asked : call[c].id < nextID[call[c].via]
  /\ verdict \in [Calls -> {"open", "allowed", "denied", "rejected"}]
  /\ repliedBy \in [Calls -> [kind : {"none", "once", "always", "reject"}, to : Calls]]

(* A promise of ask is open exactly while its request can be listed and    *)
(* replied to: it is pending in the service asked, in no other, and that   *)
(* service is the one its directory has now.  Nothing is settled twice,    *)
(* dropped, or left open by the disposal of an instance (remove,           *)
(* rejectAll).                                                             *)
OpenIsPending ==
  \A c \in Asked :
    LET s == call[c].via IN
    /\ \A r \in Services : c \in pending[r] <=> verdict[c] = "open" /\ r = s
    /\ verdict[c] = "open" => current[home[s]] = s /\ s \notin disposed

(* Nothing is allowed but by the user's "once", by the rules the tool came *)
(* with, or by approvals given in the same service; approvals of another   *)
(* directory or of a disposed instance do not count.                       *)
AllowedIsJustified ==
  \A c \in Asked :
    verdict[c] = "allowed" /\ repliedBy[c].kind # "once" =>
      AllAllowed(call[c].in.targets, Rules(call[c].via, call[c].in))

(* The user is never asked about a target that a rule denies, not even     *)
(* after approvals arrived while the request was pending (ask, line 102).  *)
DeniedIsNeverPrompted ==
  \A s \in Made : \A c \in pending[s] :
    ~FirstDenied(call[c].in.targets, Rules(s, call[c].in))

SettledNow(c) == c \in Asked /\ verdict[c] = "open" /\ verdict'[c] # "open"

Fellows(c, d) ==
  /\ c \in Asked /\ d \in Asked
  /\ call[c].via = call[d].via
  /\ call[c].in.session = call[d].in.session

(* A reply settles requests of one session of one directory only, and a    *)
(* rejection leaves none of that session pending (rejectSession).          *)
RepliesAreSessionWide ==
  [][ disposed' = disposed =>
        \A c, d \in Calls : SettledNow(c) =>
          /\ SettledNow(d) => Fellows(c, d)
          /\ Fellows(c, d) /\ verdict'[c] = "rejected" => verdict'[d] # "open" ]_vars

(* c is among what the reply that settled it does when it finds e.         *)
SettledWith(c, e) == Fellows(c, e) /\ (repliedBy[c].kind = "once" => c = e)

(* A reply settles the request it was given for and, unless it is "once",  *)
(* others of that session and instance.  The one exception are late        *)
(* replies: ids start at 1 in each service (nextPermissionID), so a reply  *)
(* to a request of an instance that was disposed of since may settle       *)
(* requests the user was not shown.  Those belong to a later instance of   *)
(* the same directory, never to another directory or an older instance,    *)
(* and go with the request that has the same id there (reply, line 123).   *)
OnlyLateRepliesStray ==
  \A c \in Asked : repliedBy[c].kind # "none" =>
    LET to == repliedBy[c].to IN
    \/ SettledWith(c, to)
    \/ /\ call[to].via \in disposed /\ call[to].via < call[c].via
       /\ home[call[to].via] = home[call[c].via]
       /\ \E e \in Asked : SettledWith(c, e) /\ call[e].id = call[to].id

=============================================================================
