-------------------------- MODULE PermissionProofs --------------------------
(***************************************************************************)
(* The permission service is correct for any directories, sessions, asks   *)
(* and rules.  Requests: what is pending is open and asked of the service  *)
(* that its directory has now (OpenInv).  Rules: approvals only allow, so  *)
(* adding them never takes back what was allowed and never denies what is  *)
(* being asked (RulesInv).  Replies: ids are distinct within a service,    *)
(* and of the services a directory had the one it has now is the last, so  *)
(* only a late reply finds another request than its own (RepliesInv).      *)
(***************************************************************************)
EXTENDS PermissionService, SequenceTheorems, WellFoundedInduction, TLAPS

-----------------------------------------------------------------------------
(* The rules.                                                              *)

(* Among the rules that match there is a last one.                         *)
LEMMA LastMatch ==
  ASSUME NEW t \in Targets, NEW rules \in Seq(Rule), Matching(t, rules) # {}
  PROVE  \E i \in Matching(t, rules) : \A j \in Matching(t, rules) : j <= i
<1>. DEFINE n == Len(rules)
            H == Matching(t, rules)
            T == {n - h : h \in H}
<1>1. n \in Nat /\ H \subseteq 1..n
  BY DEF Matching
<1>2. T \subseteq Nat /\ T # {}
  BY <1>1
<1>3. PICK x \in T : \A y \in T : <<y, x>> \notin OpToRel(<, Nat)
  BY <1>2, NatLessThanWellFounded, WFMin
<1>4. \A y \in T : ~(y < x)
  BY <1>2, <1>3 DEF OpToRel
<1>5. PICK i \in H : x = n - i
  OBVIOUS
<1>6. \A j \in H : j <= i
  <2>1. SUFFICES ASSUME NEW j \in H PROVE j <= i
    OBVIOUS
  <2>2. n - j \in T /\ j \in Int /\ i \in Int
    BY <1>1
  <2>3. ~(n - j < n - i)
    BY <1>4, <1>5, <2>2
  <2>. HIDE DEF n, H, T
  <2>. QED  BY <1>1, <2>2, <2>3
<1>. QED  BY <1>6

(* That rule decides.                                                      *)
LEMMA Decides ==
  ASSUME NEW t \in Targets, NEW rules \in Seq(Rule),
         NEW i \in Matching(t, rules), \A j \in Matching(t, rules) : j <= i
  PROVE  Evaluate(t, rules) = rules[i].action
<1>1. \A k \in Matching(t, rules) : (\A j \in Matching(t, rules) : j <= k) => k = i
  BY DEF Matching
<1>. QED  BY <1>1 DEF Evaluate

Allows(rules) == \A i \in 1..Len(rules) : rules[i].action = "allow"

(* More allowing rules behind the others: what was allowed stays allowed,  *)
(* what was not denied stays so, and what they allow by themselves they    *)
(* allow behind any rules.                                                 *)
LEMMA AllowingRules ==
  ASSUME NEW t \in Targets, NEW rules \in Seq(Rule), NEW more \in Seq(Rule)
  PROVE  /\ Allows(more) /\ Evaluate(t, rules) = "allow" => Evaluate(t, rules \o more) = "allow"
         /\ Allows(more) /\ Evaluate(t, rules) # "deny" => Evaluate(t, rules \o more) # "deny"
         /\ Evaluate(t, more) = "allow" => Evaluate(t, rules \o more) = "allow"
<1>. DEFINE all == rules \o more
            n == Len(rules)
            m == Len(more)
<1>1. /\ all \in Seq(Rule) /\ n \in Nat /\ m \in Nat /\ Len(all) = n + m
      /\ \A i \in 1..n : all[i] = rules[i]
      /\ \A i \in 1..m : all[n + i] = more[i]
      /\ \A i \in 1..(n + m) : i > n => i - n \in 1..m /\ all[i] = more[i - n]
  OBVIOUS
<1>. HIDE DEF all
<1>2. /\ Matching(t, rules) \subseteq Matching(t, all)
      /\ \A i \in Matching(t, all) : i <= n => i \in Matching(t, rules)
      /\ \A i \in Matching(t, more) : n + i \in Matching(t, all)
      /\ \A i \in Matching(t, all) : i > n => i - n \in Matching(t, more)
  BY <1>1 DEF Matching
<1>3. CASE Matching(t, all) = {}
  <2>1. Matching(t, rules) = {} /\ Matching(t, more) = {}
    BY <1>2, <1>3
  <2>. QED  BY <1>3, <2>1 DEF Evaluate, all
<1>4. CASE Matching(t, all) # {}
  <2>1. PICK i \in Matching(t, all) : \A j \in Matching(t, all) : j <= i
    BY <1>1, <1>4, LastMatch
  <2>2. Evaluate(t, all) = all[i].action /\ i \in 1..(n + m)
    BY <1>1, <2>1, Decides DEF Matching
  <2>3. CASE i > n
    <3>1. i - n \in Matching(t, more) /\ all[i] = more[i - n] /\ i - n \in 1..m
      BY <1>1, <1>2, <2>1, <2>2, <2>3
    <3>2. \A j \in Matching(t, more) : j <= i - n
      <4>1. \A j \in Matching(t, more) : j \in Nat /\ n + j <= i
        BY <1>2, <2>1 DEF Matching
      <4>. QED  BY <1>1, <2>2, <4>1
    <3>3. Evaluate(t, more) = Evaluate(t, all)
      BY <2>2, <3>1, <3>2, Decides
    <3>4. Allows(more) => Evaluate(t, all) = "allow"
      BY <2>2, <3>1 DEF Allows
    <3>. QED  BY <3>3, <3>4 DEF all
  <2>4. CASE ~(i > n)
    <3>1. i \in Matching(t, rules) /\ all[i] = rules[i]
      BY <1>1, <1>2, <2>1, <2>2, <2>4
    <3>2. Evaluate(t, rules) = Evaluate(t, all)
      BY <1>2, <2>1, <2>2, <3>1, Decides
    <3>3. Matching(t, more) = {}
      <4>1. SUFFICES ASSUME NEW j \in Matching(t, more) PROVE FALSE
        OBVIOUS
      <4>2. j \in 1..m /\ n + j <= i
        BY <1>2, <2>1 DEF Matching
      <4>. HIDE DEF n, m
      <4>. QED  BY <1>1, <2>2, <2>4, <4>2
    <3>4. Evaluate(t, more) = "ask"
      BY <3>3 DEF Evaluate
    <3>. QED  BY <3>2, <3>4 DEF all
  <2>. QED  BY <2>3, <2>4
<1>. QED  BY <1>3, <1>4

(* What this says of all the targets of a request, with rules of its own.  *)
LEMMA ApprovalsOnlyAllow ==
  ASSUME NEW ts \in SUBSET Targets, NEW own \in Seq(Rule),
         NEW old \in Seq(Rule), NEW more \in Seq(Rule), Allows(more)
  PROVE  /\ AllAllowed(ts, own \o old) => AllAllowed(ts, own \o (old \o more))
         /\ ~FirstDenied(ts, own \o old) => ~FirstDenied(ts, own \o (old \o more))
         /\ AllAllowed(ts, more) => AllAllowed(ts, own \o more)
<1>1. own \o old \in Seq(Rule) /\ own \o (old \o more) = (own \o old) \o more
  OBVIOUS
<1>2. \A t \in ts :
        /\ Evaluate(t, own \o old) = "allow" => Evaluate(t, own \o (old \o more)) = "allow"
        /\ Evaluate(t, own \o old) # "deny" => Evaluate(t, own \o (old \o more)) # "deny"
        /\ Evaluate(t, more) = "allow" => Evaluate(t, own \o more) = "allow"
  <2>1. SUFFICES ASSUME NEW t \in ts
                 PROVE /\ Evaluate(t, own \o old) = "allow" => Evaluate(t, own \o (old \o more)) = "allow"
                       /\ Evaluate(t, own \o old) # "deny" => Evaluate(t, own \o (old \o more)) # "deny"
                       /\ Evaluate(t, more) = "allow" => Evaluate(t, own \o more) = "allow"
    OBVIOUS
  <2>2. t \in Targets
    OBVIOUS
  <2>3. /\ Evaluate(t, own \o old) = "allow" => Evaluate(t, (own \o old) \o more) = "allow"
        /\ Evaluate(t, own \o old) # "deny" => Evaluate(t, (own \o old) \o more) # "deny"
    BY <1>1, <2>2, AllowingRules, Zenon
  <2>4. Evaluate(t, more) = "allow" => Evaluate(t, own \o more) = "allow"
    BY <2>2, AllowingRules, Zenon
  <2>. QED  BY <1>1, <2>3, <2>4, Zenon
<1>. QED  BY <1>2 DEF AllAllowed, FirstDenied

-----------------------------------------------------------------------------
(* The requests.                                                           *)

(* Who did not ask is neither answered nor pending; the services in use    *)
(* are those not disposed, each in its directory.                          *)
InUse ==
  /\ \A c \in Calls \ Asked :
       verdict[c] = "open" /\ \A s \in Services : c \notin pending[s]
  /\ \A s \in Made : s \notin disposed => current[home[s]] = s
  /\ \A d \in Directories : current[d] # 0 =>
       current[d] \notin disposed /\ home[current[d]] = d

OpenInv == TypeOK /\ InUse /\ OpenIsPending

LEMMA Typed ==
  ASSUME PermissionAssumption, TypeOK
  PROVE  /\ Len(home) \in Nat /\ Made \subseteq Services
         /\ \A s \in Made : home[s] \in Directories
         /\ \A c \in Asked :
              /\ call[c] \in [via : Made, id : Nat, in : Inputs]
              /\ call[c].via \in Made /\ call[c].id \in Nat /\ call[c].in \in Inputs
              /\ call[c].in.ruleset \in Seq(Rule)
              /\ call[c].in.always \in Seq(SUBSET Targets)
              /\ call[c].in.targets \in SUBSET Targets
<1>1. Len(home) \in Nat /\ Made \subseteq Services /\ \A s \in Made : home[s] \in Directories
  BY DEF TypeOK, Made, Services, PermissionAssumption
<1>2. \A c \in Asked : call[c] \in [via : Made, id : Nat, in : Inputs]
  BY DEF TypeOK, Asked
<1>. QED  BY <1>1, <1>2 DEF PermissionAssumption, AskInput

(* What is pending was asked of that service and is open.                  *)
LEMMA PendingIsOpen ==
  ASSUME OpenInv, NEW s \in Services, NEW c \in pending[s]
  PROVE  c \in Asked /\ c \in Calls /\ call[c].via = s /\ verdict[c] = "open"
<1>1. c \in Calls
  BY DEF OpenInv, TypeOK
<1>2. c \in Asked
  BY <1>1 DEF OpenInv, InUse
<1>. QED  BY <1>1, <1>2 DEF OpenInv, OpenIsPending

LEMMA OpenInvInit == PermissionAssumption /\ Init => OpenInv
<1>. SUFFICES ASSUME PermissionAssumption, Init PROVE OpenInv
  OBVIOUS
<1>. USE DEF Init, Made, Asked, NoCall
<1>1. Made = {} /\ Asked = {} /\ Len(home) = 0 /\ home \in Seq(Directories)
  OBVIOUS
<1>2. TypeOK
  BY <1>1 DEF TypeOK, PermissionAssumption
<1>. QED  BY <1>1, <1>2 DEF OpenInv, InUse, OpenIsPending

(* A directory gets a service.                                             *)
LEMMA OpenStep ==
  ASSUME PermissionAssumption, OpenInv, NEW d \in Directories, Open(d) PROVE OpenInv'
<1>. DEFINE n == Len(home) + 1
<1>0. TypeOK /\ InUse /\ OpenIsPending
  BY DEF OpenInv
<1>1. /\ home' \in Seq(Directories) /\ Len(home') = n /\ n \in Nat
      /\ n <= MaxServices
      /\ Made' = Made \cup {n} /\ n \notin Made /\ n # 0 /\ 0 \notin Made
      /\ \A s \in Made : home'[s] = home[s]
      /\ home'[n] = d
  BY <1>0 DEF TypeOK, Made, PermissionAssumption, Open
<1>2. /\ Asked' = Asked
      /\ \A c \in Asked : call[c].via \in Made
      /\ UNCHANGED <<disposed, approved, pending, nextID, call, verdict, repliedBy>>
  BY <1>0, Typed DEF Asked, Open
<1>3. /\ current \in [Directories -> {0} \cup Made] /\ current[d] = 0
      /\ current' = [current EXCEPT ![d] = n]
      /\ \A s \in Made : home[s] \in Directories
      /\ disposed \subseteq Made
  BY <1>0, Typed DEF TypeOK, Open
<1>. HIDE DEF n
<1>4. TypeOK'
  <2>1. current' \in [Directories -> {0} \cup Made']
    BY <1>1, <1>3
  <2>2. call' \in [Calls -> {NoCall} \cup [via : Made', id : Nat, in : Inputs]]
    BY <1>0, <1>1, <1>2 DEF TypeOK
  <2>. QED  BY <1>0, <1>1, <1>2, <1>3, <2>1, <2>2 DEF TypeOK
<1>5. \A s \in Made : current[home[s]] = s => current'[home'[s]] = s
  BY <1>1, <1>3
<1>6. InUse'
  <2>1. \A s \in Made' : s \notin disposed => current'[home'[s]] = s
    BY <1>0, <1>1, <1>3, <1>5 DEF InUse
  <2>2. \A e \in Directories : current'[e] # 0 =>
          current'[e] \notin disposed' /\ home'[current'[e]] = e
    BY <1>0, <1>1, <1>2, <1>3 DEF InUse
  <2>. QED  BY <1>0, <1>2, <2>1, <2>2 DEF InUse
<1>7. OpenIsPending'
  <2>1. SUFFICES ASSUME NEW c \in Asked
                 PROVE  LET s == call[c].via IN
                        /\ \A r \in Services : c \in pending[r] <=> verdict[c] = "open" /\ r = s
                        /\ verdict[c] = "open" => current'[home'[s]] = s /\ s \notin disposed
    BY <1>2 DEF OpenIsPending
  <2>. QED  BY <1>0, <1>2, <1>5 DEF OpenIsPending
<1>. QED  BY <1>4, <1>6, <1>7 DEF OpenInv

(* A new call of ask leaves what was asked before as it was.               *)
LEMMA Recorded ==
  ASSUME PermissionAssumption, OpenInv, NEW c \in Calls, c \notin Asked,
         NEW s \in Made, NEW id \in Nat, NEW in \in Inputs, Record(c, s, id, in),
         home' = home
  PROVE  /\ Asked' = Asked \cup {c}
         /\ call'[c] = [via |-> s, id |-> id, in |-> in]
         /\ \A b \in Calls : b # c => call'[b] = call[b]
         /\ call' \in [Calls -> {NoCall} \cup [via : Made', id : Nat, in : Inputs]]
<1>1. call' = [call EXCEPT ![c] = [via |-> s, id |-> id, in |-> in]]
  BY DEF Record
<1>2. call \in [Calls -> {NoCall} \cup [via : Made, id : Nat, in : Inputs]] /\ Made' = Made
  BY DEF OpenInv, TypeOK, Made
<1>3. s # 0 /\ [via |-> s, id |-> id, in |-> in] \in [via : Made, id : Nat, in : Inputs]
  BY DEF OpenInv, TypeOK, Made
<1>4. [via |-> s, id |-> id, in |-> in] # NoCall
  BY <1>3 DEF NoCall
<1>5. call'[c] = [via |-> s, id |-> id, in |-> in] /\ \A b \in Calls : b # c => call'[b] = call[b]
  BY <1>1, <1>2
<1>6. Asked' = Asked \cup {c}
  BY <1>4, <1>5 DEF Asked
<1>. QED  BY <1>1, <1>2, <1>3, <1>5, <1>6

LEMMA AskAnsweredStep ==
  ASSUME PermissionAssumption, OpenInv, NEW c \in Calls, NEW s \in Made,
         NEW in \in Inputs, AskAnswered(c, s, in)
  PROVE  OpenInv'
<1>1. TypeOK /\ InUse /\ OpenIsPending
  BY DEF OpenInv
<1>2. PICK v \in {"rejected", "denied", "allowed"} : verdict' = [verdict EXCEPT ![c] = v]
  BY DEF AskAnswered
<1>3. /\ c \notin Asked /\ Record(c, s, 0, in)
      /\ UNCHANGED <<home, current, disposed, approved, pending, nextID, repliedBy>>
  BY DEF AskAnswered
<1>4. /\ Asked' = Asked \cup {c}
      /\ call'[c] = [via |-> s, id |-> 0, in |-> in]
      /\ \A b \in Calls : b # c => call'[b] = call[b]
      /\ call' \in [Calls -> {NoCall} \cup [via : Made', id : Nat, in : Inputs]]
  BY <1>3, Recorded
<1>5. Made' = Made
  BY <1>3 DEF Made
<1>6. TypeOK'
  <2>1. \A b \in Asked' : call'[b].id < nextID'[call'[b].via]
    <3>1. nextID[s] \in Nat /\ 0 < nextID[s]
      BY <1>1, Typed DEF TypeOK
    <3>. QED  BY <1>1, <1>3, <1>4, <3>1 DEF TypeOK, Asked
  <2>. QED  BY <1>1, <1>2, <1>3, <1>4, <1>5, <2>1 DEF TypeOK
<1>7. InUse'
  BY <1>1, <1>2, <1>3, <1>4, <1>5 DEF TypeOK, InUse
<1>8. OpenIsPending'
  <2>1. verdict'[c] # "open" /\ \A r \in Services : c \notin pending[r]
    BY <1>1, <1>2, <1>3 DEF TypeOK, InUse
  <2>2. \A b \in Asked : call'[b] = call[b] /\ verdict'[b] = verdict[b]
    BY <1>1, <1>2, <1>3, <1>4 DEF TypeOK, Asked
  <2>. QED  BY <1>1, <1>3, <1>4, <2>1, <2>2 DEF OpenIsPending
<1>. QED  BY <1>6, <1>7, <1>8 DEF OpenInv

LEMMA AskPromptsStep ==
  ASSUME PermissionAssumption, OpenInv, NEW c \in Calls, NEW s \in Made,
         NEW in \in Inputs, AskPrompts(c, s, in)
  PROVE  OpenInv'
<1>1. TypeOK /\ InUse /\ OpenIsPending
  BY DEF OpenInv
<1>2. /\ c \notin Asked /\ Record(c, s, nextID[s], in)
      /\ s \notin disposed
      /\ pending' = [pending EXCEPT ![s] = @ \cup {c}]
      /\ nextID' = [nextID EXCEPT ![s] = @ + 1]
      /\ UNCHANGED <<home, current, disposed, approved, verdict, repliedBy>>
  BY DEF AskPrompts
<1>3. s \in Services /\ nextID \in [Services -> Nat \ {0}] /\ nextID[s] \in Nat
  BY <1>1, Typed DEF TypeOK
<1>4. /\ Asked' = Asked \cup {c}
      /\ call'[c] = [via |-> s, id |-> nextID[s], in |-> in]
      /\ \A b \in Calls : b # c => call'[b] = call[b]
      /\ call' \in [Calls -> {NoCall} \cup [via : Made', id : Nat, in : Inputs]]
  BY <1>2, <1>3, Recorded
<1>5. Made' = Made /\ pending \in [Services -> SUBSET Calls] /\ Made \subseteq Services
  BY <1>1, <1>2, Typed DEF Made, TypeOK
<1>6. TypeOK'
  <2>1. nextID' \in [Services -> Nat \ {0}] /\ nextID'[s] = nextID[s] + 1
    BY <1>2, <1>3
  <2>2. \A r \in Services : nextID[r] <= nextID'[r]
    BY <1>2, <1>3, <2>1
  <2>3. \A b \in Asked : call'[b].id < nextID'[call'[b].via]
    <3>1. SUFFICES ASSUME NEW b \in Asked PROVE call[b].id < nextID'[call[b].via]
      BY <1>4, <1>2 DEF Asked
    <3>2. /\ call[b].id \in Nat /\ call[b].via \in Services
          /\ call[b].id < nextID[call[b].via]
      BY <1>1, <1>5, Typed DEF TypeOK
    <3>3. nextID[call[b].via] \in Nat /\ nextID'[call[b].via] \in Nat
      BY <1>3, <2>1, <3>2
    <3>. QED  BY <2>2, <3>2, <3>3
  <2>4. call'[c].id < nextID'[call'[c].via]
    BY <1>3, <1>4, <2>1
  <2>5. pending' \in [Services -> SUBSET Calls]
    BY <1>2, <1>3, <1>5
  <2>6. \A b \in Asked' : call'[b].id < nextID'[call'[b].via]
    BY <1>4, <2>3, <2>4
  <2>. QED  BY <1>1, <1>2, <1>4, <1>5, <2>1, <2>5, <2>6 DEF TypeOK
<1>7. InUse'
  BY <1>1, <1>2, <1>4, <1>5 DEF InUse
<1>8. OpenIsPending'
  <2>1. \A r \in Services : c \in pending'[r] <=> r = s
    BY <1>1, <1>2, <1>3, <1>5 DEF InUse
  <2>2. verdict[c] = "open"
    BY <1>1, <1>2 DEF InUse
  <2>3. \A b \in Asked : b # c /\ call'[b] = call[b]
                         /\ \A r \in Services : b \in pending'[r] <=> b \in pending[r]
    BY <1>2, <1>4, <1>5 DEF Asked
  <2>4. call'[c].via = s /\ current[home[s]] = s
    BY <1>1, <1>2, <1>4 DEF InUse
  <2>5. UNCHANGED <<home, current, disposed, verdict>>
    BY <1>2
  <2>. QED  BY <1>1, <1>2, <1>4, <2>1, <2>2, <2>3, <2>4, <2>5 DEF OpenIsPending
<1>. QED  BY <1>6, <1>7, <1>8 DEF OpenInv

(* What the replies have in common: the calls S pending in service s are   *)
(* settled.                                                                *)
LEMMA SettleStep ==
  ASSUME PermissionAssumption, OpenInv, NEW s \in Made, NEW S \in SUBSET pending[s],
         NEW v \in {"allowed", "rejected"}, NEW kind \in {"once", "always", "reject"},
         NEW to \in Calls, Settle(s, S, v, kind, to),
         approved' \in [Services -> Seq(Rule)],
         UNCHANGED <<home, current, disposed, nextID, call>>
  PROVE  OpenInv'
<1>1. TypeOK /\ InUse /\ OpenIsPending
  BY DEF OpenInv
<1>2. /\ s \in Services /\ Made' = Made /\ Asked' = Asked /\ S \subseteq Calls
      /\ \A c \in S : c \in Asked /\ call[c].via = s
  BY <1>1, Typed, PendingIsOpen DEF Made, Asked, TypeOK
<1>3. /\ pending \in [Services -> SUBSET Calls]
      /\ pending' = [pending EXCEPT ![s] = @ \ S]
      /\ \A c \in Calls : verdict'[c] = IF c \in S THEN v ELSE verdict[c]
  BY <1>1 DEF Settle, TypeOK
<1>4. \A c \in Calls, r \in Services : c \in pending'[r] <=> c \in pending[r] /\ ~(r = s /\ c \in S)
  BY <1>2, <1>3
<1>5. TypeOK'
  BY <1>1, <1>2, <1>3 DEF TypeOK, Settle
<1>6. InUse'
  BY <1>1, <1>2, <1>3, <1>4 DEF InUse
<1>7. OpenIsPending'
  <2>1. SUFFICES ASSUME NEW c \in Asked
                 PROVE  LET r == call[c].via IN
                        /\ \A q \in Services : c \in pending'[q] <=> verdict'[c] = "open" /\ q = r
                        /\ verdict'[c] = "open" => current[home[r]] = r /\ r \notin disposed
    BY <1>2 DEF OpenIsPending
  <2>2. c \in Calls /\ (c \in S => call[c].via = s) /\ v # "open"
    BY <1>2 DEF Asked
  <2>. QED  BY <1>1, <1>3, <1>4, <2>2 DEF OpenIsPending
<1>. QED  BY <1>5, <1>6, <1>7 DEF OpenInv

(* A reply finds a pending request of the service in use.                  *)
LEMMA Found ==
  ASSUME PermissionAssumption, OpenInv, NEW to \in Calls, Shown(to), NEW e \in Addressed(to)
  PROVE  /\ e \in Asked /\ e \in Calls /\ call[e].via \in Made /\ e \in pending[call[e].via]
         /\ call[e].via = current[home[call[to].via]]
         /\ SameSession(call[e].via, e) \in SUBSET pending[call[e].via]
         /\ e \in SameSession(call[e].via, e)
<1>. DEFINE s == current[home[call[to].via]]
<1>1. s \in {0} \cup Made
  BY Typed DEF OpenInv, TypeOK, Shown
<1>2. s # 0 /\ e \in pending[s] /\ s \in Services
  BY <1>1, Typed DEF Addressed, OpenInv
<1>3. e \in Asked /\ e \in Calls /\ call[e].via = s
  BY <1>2, PendingIsOpen
<1>. QED  BY <1>1, <1>2, <1>3 DEF SameSession

LEMMA ApprovalsAreRules ==
  ASSUME PermissionAssumption, OpenInv, NEW e \in Asked
  PROVE  Approvals(e) \in Seq(Rule) /\ Allows(Approvals(e))
<1>1. call[e].in.always \in Seq(SUBSET Targets)
  BY Typed DEF OpenInv
<1>. DEFINE n == Len(call[e].in.always)
<1>2. n \in Nat /\ \A i \in 1..n : call[e].in.always[i] \in SUBSET Targets
  BY <1>1
<1>3. Approvals(e) = [i \in 1..n |-> [covers |-> call[e].in.always[i], action |-> "allow"]]
  BY DEF Approvals
<1>. HIDE DEF n
<1>4. Approvals(e) \in [1..n -> Rule]
  BY <1>2, <1>3 DEF Rule, Actions
<1>5. Approvals(e) \in Seq(Rule)
  BY <1>2, <1>4, SeqDef
<1>6. DOMAIN Approvals(e) = 1..n /\ DOMAIN Approvals(e) = 1..Len(Approvals(e))
  BY <1>4, <1>5, LenProperties
<1>7. \A i \in 1..n : Approvals(e)[i].action = "allow"
  BY <1>3
<1>. QED  BY <1>5, <1>6, <1>7 DEF Allows

LEMMA ReplyOnceStep ==
  ASSUME PermissionAssumption, OpenInv, NEW to \in Calls, ReplyOnce(to) PROVE OpenInv'
<1>1. PICK e \in Addressed(to) : Settle(call[e].via, {e}, "allowed", "once", to)
  BY DEF ReplyOnce
<1>2. call[e].via \in Made /\ {e} \in SUBSET pending[call[e].via]
  BY Found DEF ReplyOnce
<1>. QED  BY <1>1, <1>2, SettleStep DEF ReplyOnce, OpenInv, TypeOK

LEMMA ReplyAlwaysStep ==
  ASSUME PermissionAssumption, OpenInv, NEW to \in Calls, ReplyAlways(to) PROVE OpenInv'
<1>1. PICK e \in Addressed(to) :
        /\ approved' = [approved EXCEPT ![call[e].via] = approved[call[e].via] \o Approvals(e)]
        /\ Settle(call[e].via, AlwaysResolves(call[e].via, e, approved[call[e].via] \o Approvals(e)),
                  "allowed", "always", to)
  BY DEF ReplyAlways
<1>. DEFINE s == call[e].via
            S == AlwaysResolves(s, e, approved[s] \o Approvals(e))
<1>2. /\ s \in Made /\ e \in Asked
      /\ SameSession(s, e) \in SUBSET pending[s]
  BY Found DEF ReplyAlways
<1>3. S \in SUBSET pending[s]
  BY <1>2 DEF AlwaysResolves
<1>4. approved' \in [Services -> Seq(Rule)]
  <2>1. s \in Services /\ approved \in [Services -> Seq(Rule)]
    BY <1>2, Typed DEF OpenInv, TypeOK
  <2>2. approved[s] \o Approvals(e) \in Seq(Rule)
    BY <1>2, <2>1, ApprovalsAreRules
  <2>. QED  BY <1>1, <2>1, <2>2
<1>. QED  BY <1>1, <1>2, <1>3, <1>4, SettleStep DEF ReplyAlways

LEMMA ReplyRejectStep ==
  ASSUME PermissionAssumption, OpenInv, NEW to \in Calls, ReplyReject(to) PROVE OpenInv'
<1>1. PICK e \in Addressed(to) :
        Settle(call[e].via, Rejects(call[e].via, e), "rejected", "reject", to)
  BY DEF ReplyReject
<1>2. call[e].via \in Made /\ Rejects(call[e].via, e) \in SUBSET pending[call[e].via]
  BY Found DEF ReplyReject, Rejects
<1>. QED  BY <1>1, <1>2, SettleStep DEF ReplyReject, OpenInv, TypeOK

(* An instance takes its service and what is pending in it with it.        *)
LEMMA DisposeStep ==
  ASSUME PermissionAssumption, OpenInv, NEW d \in Directories, DisposeInstance(d) PROVE OpenInv'
<1>. DEFINE s == current[d]
<1>1. TypeOK /\ InUse /\ OpenIsPending
  BY DEF OpenInv
<1>2. /\ s \in Made /\ s # 0 /\ home[s] = d
      /\ disposed' = disposed \cup {s}
      /\ current' = [current EXCEPT ![d] = 0]
      /\ pending' = [pending EXCEPT ![s] = {}]
      /\ UNCHANGED <<home, approved, nextID, call, repliedBy>>
  BY <1>1 DEF DisposeInstance, TypeOK, InUse
<1>3. /\ s \in Services /\ Made' = Made /\ Asked' = Asked /\ 0 \notin Made
      /\ \A c \in Asked : call[c].via \in Made /\ call[c].via \in Services
      /\ \A r \in Made : home[r] \in Directories
  BY <1>1, <1>2, Typed DEF Made, Asked
<1>4. /\ pending \in [Services -> SUBSET Calls]
      /\ verdict \in [Calls -> {"open", "allowed", "denied", "rejected"}]
      /\ current \in [Directories -> {0} \cup Made]
      /\ verdict' = [c \in Calls |-> IF c \in pending[s] THEN "rejected" ELSE verdict[c]]
  BY <1>1 DEF DisposeInstance, TypeOK
<1>. HIDE DEF s
<1>5. TypeOK'
  BY <1>1, <1>2, <1>3, <1>4 DEF TypeOK
<1>6. \A r \in Services, c \in Calls : c \in pending'[r] <=> c \in pending[r] /\ r # s
  BY <1>2, <1>3, <1>4
<1>7. \A r \in Made : current[home[r]] = r /\ r # s => current'[home[r]] = r
  BY <1>2, <1>3, <1>4 DEF s
<1>8. InUse'
  <2>1. \A c \in Calls \ Asked : verdict'[c] = "open" /\ \A r \in Services : c \notin pending'[r]
    BY <1>1, <1>3, <1>4, <1>6 DEF InUse
  <2>2. \A r \in Made : r \notin disposed' => current'[home'[r]] = r
    BY <1>1, <1>2, <1>7 DEF InUse
  <2>3. \A e \in Directories : current'[e] # 0 =>
          current'[e] \notin disposed' /\ home'[current'[e]] = e
    BY <1>1, <1>2, <1>4 DEF InUse
  <2>. QED  BY <1>3, <2>1, <2>2, <2>3 DEF InUse
<1>9. OpenIsPending'
  <2>1. SUFFICES ASSUME NEW c \in Asked
                 PROVE  /\ \A r \in Services :
                             c \in pending'[r] <=> verdict'[c] = "open" /\ r = call[c].via
                        /\ verdict'[c] = "open" =>
                             current'[home[call[c].via]] = call[c].via /\ call[c].via \notin disposed'
    BY <1>2, <1>3 DEF OpenIsPending
  <2>2. c \in Calls /\ call[c].via \in Made /\ call[c].via \in Services
    BY <1>3 DEF Asked
  <2>3. /\ \A r \in Services : c \in pending[r] <=> verdict[c] = "open" /\ r = call[c].via
        /\ verdict[c] = "open" =>
             current[home[call[c].via]] = call[c].via /\ call[c].via \notin disposed
    BY <1>1 DEF OpenIsPending
  <2>. QED  BY <1>2, <1>3, <1>4, <1>6, <1>7, <2>2, <2>3
<1>. QED  BY <1>5, <1>8, <1>9 DEF OpenInv

LEMMA OpenInvNext == PermissionAssumption /\ OpenInv /\ [Next]_vars => OpenInv'
<1>. SUFFICES ASSUME PermissionAssumption, OpenInv, [Next]_vars PROVE OpenInv'
  OBVIOUS
<1>1. CASE UNCHANGED vars
  BY <1>1 DEF vars, OpenInv, TypeOK, InUse, OpenIsPending, Made, Asked
<1>2. ASSUME NEW d \in Directories, Open(d) PROVE OpenInv'
  BY <1>2, OpenStep
<1>3. ASSUME NEW d \in Directories, DisposeInstance(d) PROVE OpenInv'
  BY <1>3, DisposeStep
<1>4. ASSUME NEW c \in Calls, NEW s \in Made, NEW in \in Inputs, AskAnswered(c, s, in)
      PROVE  OpenInv'
  BY <1>4, AskAnsweredStep
<1>5. ASSUME NEW c \in Calls, NEW s \in Made, NEW in \in Inputs, AskPrompts(c, s, in)
      PROVE  OpenInv'
  BY <1>5, AskPromptsStep
<1>6. ASSUME NEW to \in Calls, ReplyOnce(to) \/ ReplyAlways(to) \/ ReplyReject(to)
      PROVE  OpenInv'
  BY <1>6, ReplyOnceStep, ReplyAlwaysStep, ReplyRejectStep
<1>7. ASSUME NEW to \in Calls, ReplyUnknown(to) PROVE OpenInv'
  BY <1>1, <1>7 DEF ReplyUnknown
<1>. QED  BY <1>1, <1>2, <1>3, <1>4, <1>5, <1>6, <1>7 DEF Next

(* Every variable of the service keeps its type.                           *)
THEOREM TypeCorrect == Spec => []TypeOK
<1>1. OpenInv => TypeOK
  BY DEF OpenInv
<1>. QED  BY PermissionAssumption, OpenInvInit, OpenInvNext, <1>1, PTL DEF Spec

(* What asks wait for an answer can be found and answered: PermissionAsync *)
(* Service.ask, remove and dispose never lose a promise or keep a settled  *)
(* one, for any number of calls, services and directories.                 *)
THEOREM OpenArePending == Spec => []OpenIsPending
<1>1. OpenInv => OpenIsPending
  BY DEF OpenInv
<1>. QED  BY PermissionAssumption, OpenInvInit, OpenInvNext, <1>1, PTL DEF Spec

-----------------------------------------------------------------------------
(* The rules of the requests.                                              *)

(* Approvals allow, and nothing else.                                      *)
ApprovalsAllow == \A s \in Services : Allows(approved[s])

RulesInv == OpenInv /\ ApprovalsAllow /\ AllowedIsJustified /\ DeniedIsNeverPrompted

(* Nothing of it is lost by what adds no rule, asks nothing and allows     *)
(* nothing without an answer of "once".                                    *)
LEMMA RulesKept ==
  ASSUME PermissionAssumption, RulesInv,
         UNCHANGED <<home, approved, call>>,
         \A s \in Services : pending'[s] \subseteq pending[s],
         \A c \in Calls : verdict'[c] = "allowed" =>
           \/ verdict[c] = "allowed" /\ repliedBy'[c] = repliedBy[c]
           \/ repliedBy'[c].kind = "once"
  PROVE  ApprovalsAllow' /\ AllowedIsJustified' /\ DeniedIsNeverPrompted'
<1>1. /\ ApprovalsAllow /\ AllowedIsJustified /\ DeniedIsNeverPrompted
      /\ Asked' = Asked /\ Made' = Made /\ Made \subseteq Services /\ Asked \subseteq Calls
  BY Typed DEF RulesInv, OpenInv, Asked, Made
<1>3. ApprovalsAllow'
  BY <1>1 DEF ApprovalsAllow
<1>4. AllowedIsJustified'
  BY <1>1 DEF AllowedIsJustified, Rules
<1>5. DeniedIsNeverPrompted'
  BY <1>1 DEF DeniedIsNeverPrompted, Rules
<1>. QED  BY <1>3, <1>4, <1>5

LEMMA RulesReplyAlways ==
  ASSUME PermissionAssumption, RulesInv, NEW to \in Calls, ReplyAlways(to)
  PROVE  ApprovalsAllow' /\ AllowedIsJustified' /\ DeniedIsNeverPrompted'
<1>1. PICK e \in Addressed(to) :
        /\ approved' = [approved EXCEPT ![call[e].via] = approved[call[e].via] \o Approvals(e)]
        /\ Settle(call[e].via, AlwaysResolves(call[e].via, e, approved[call[e].via] \o Approvals(e)),
                  "allowed", "always", to)
  BY DEF ReplyAlways
<1>. DEFINE s == call[e].via
            more == Approvals(e)
            new == approved[s] \o more
            S == AlwaysResolves(s, e, new)
<1>2. /\ UNCHANGED <<home, current, disposed, nextID, call>>
      /\ Asked' = Asked /\ Made' = Made /\ Made \subseteq Services /\ Asked \subseteq Calls
      /\ OpenInv /\ ApprovalsAllow /\ AllowedIsJustified /\ DeniedIsNeverPrompted
  BY Typed DEF ReplyAlways, Asked, Made, RulesInv, OpenInv
<1>3. /\ s \in Services /\ e \in Asked
      /\ approved \in [Services -> Seq(Rule)]
      /\ more \in Seq(Rule) /\ Allows(more)
  BY <1>2, Found, ApprovalsAreRules DEF ReplyAlways, OpenInv, TypeOK
<1>4. S \subseteq pending[s] /\ \A c \in S : AllAllowed(call[c].in.targets, new)
  BY DEF AlwaysResolves, SameSession
<1>5. \A c \in Asked : call[c].via \in Services /\ call[c].in.ruleset \in Seq(Rule)
                       /\ call[c].in.targets \in SUBSET Targets
  BY <1>2, Typed DEF OpenInv
<1>6. /\ verdict' = [c \in Calls |-> IF c \in S THEN "allowed" ELSE verdict[c]]
      /\ repliedBy' = [c \in Calls |-> IF c \in S THEN [kind |-> "always", to |-> to] ELSE repliedBy[c]]
      /\ pending' = [pending EXCEPT ![s] = @ \ S]
      /\ pending \in [Services -> SUBSET Calls]
      /\ approved' = [approved EXCEPT ![s] = new]
  BY <1>1, <1>2 DEF Settle, OpenInv, TypeOK
<1>7. \A c \in S : c \in Asked /\ call[c].via = s
  BY <1>2, <1>3, <1>4, PendingIsOpen
<1>. HIDE DEF s, more, new, S
<1>8. approved'[s] = new /\ \A r \in Services : r # s => approved'[r] = approved[r]
  BY <1>3, <1>6
<1>9. Allows(new) /\ new \in Seq(Rule)
  <2>1. new = approved[s] \o more /\ approved[s] \in Seq(Rule) /\ more \in Seq(Rule)
    BY <1>3 DEF new
  <2>2. \A i \in 1..Len(new) : \/ i \in 1..Len(approved[s]) /\ new[i] = approved[s][i]
                               \/ /\ i - Len(approved[s]) \in 1..Len(more)
                                  /\ new[i] = more[i - Len(approved[s])]
    BY <2>1
  <2>3. Allows(approved[s]) /\ Allows(more)
    BY <1>2, <1>3 DEF ApprovalsAllow
  <2>. QED  BY <2>1, <2>2, <2>3 DEF Allows
<1>10. ASSUME NEW c \in Asked, call[c].via = s
       PROVE  LET ts == call[c].in.targets
                  own == call[c].in.ruleset IN
              /\ AllAllowed(ts, own \o approved[s]) => AllAllowed(ts, own \o new)
              /\ ~FirstDenied(ts, own \o approved[s]) => ~FirstDenied(ts, own \o new)
              /\ AllAllowed(ts, new) => AllAllowed(ts, own \o new)
  <2>1. /\ call[c].in.targets \in SUBSET Targets /\ call[c].in.ruleset \in Seq(Rule)
        /\ approved[s] \in Seq(Rule) /\ more \in Seq(Rule) /\ Allows(more)
        /\ new = approved[s] \o more
    BY <1>3, <1>5 DEF new
  <2>2. /\ AllAllowed(call[c].in.targets, call[c].in.ruleset \o approved[s]) =>
             AllAllowed(call[c].in.targets, call[c].in.ruleset \o (approved[s] \o more))
        /\ ~FirstDenied(call[c].in.targets, call[c].in.ruleset \o approved[s]) =>
             ~FirstDenied(call[c].in.targets, call[c].in.ruleset \o (approved[s] \o more))
    BY <2>1, ApprovalsOnlyAllow, Zenon
  <2>3. AllAllowed(call[c].in.targets, new) =>
          AllAllowed(call[c].in.targets, call[c].in.ruleset \o new)
    BY <1>9, <2>1, ApprovalsOnlyAllow, Zenon
  <2>. QED  BY <2>1, <2>2, <2>3, Zenon
<1>11. AllowedIsJustified'
  <2>1. SUFFICES ASSUME NEW c \in Asked, verdict'[c] = "allowed", repliedBy'[c].kind # "once"
                 PROVE  AllAllowed(call[c].in.targets, call[c].in.ruleset \o approved'[call[c].via])
    BY <1>2 DEF AllowedIsJustified, Rules
  <2>2. CASE c \in S
    BY <1>4, <1>7, <1>8, <1>10, <2>2
  <2>3. CASE c \notin S
    <3>1. verdict[c] = "allowed" /\ repliedBy[c].kind # "once"
      BY <1>2, <1>6, <2>1, <2>3
    <3>2. AllAllowed(call[c].in.targets, call[c].in.ruleset \o approved[call[c].via])
      BY <1>2, <3>1 DEF AllowedIsJustified, Rules
    <3>3. CASE call[c].via = s
      BY <1>8, <1>10, <3>2, <3>3
    <3>4. CASE call[c].via # s
      BY <1>5, <1>8, <3>2, <3>4
    <3>. QED  BY <3>3, <3>4
  <2>. QED  BY <2>2, <2>3
<1>12. DeniedIsNeverPrompted'
  <2>1. SUFFICES ASSUME NEW r \in Made, NEW c \in pending'[r]
                 PROVE  ~FirstDenied(call[c].in.targets, call[c].in.ruleset \o approved'[r])
    BY <1>2 DEF DeniedIsNeverPrompted, Rules
  <2>2. c \in pending[r] /\ r \in Services
    BY <1>2, <1>3, <1>6
  <2>3. c \in Asked /\ call[c].via = r
    BY <1>2, <2>2, PendingIsOpen
  <2>4. ~FirstDenied(call[c].in.targets, call[c].in.ruleset \o approved[r])
    BY <1>2, <2>2 DEF DeniedIsNeverPrompted, Rules
  <2>5. CASE r = s
    BY <1>8, <1>10, <2>3, <2>4, <2>5
  <2>6. CASE r # s
    BY <1>8, <2>2, <2>4, <2>6
  <2>. QED  BY <2>5, <2>6
<1>13. ApprovalsAllow'
  BY <1>2, <1>8, <1>9 DEF ApprovalsAllow
<1>. QED  BY <1>11, <1>12, <1>13

LEMMA RulesInvInit == PermissionAssumption /\ Init => RulesInv
<1>. SUFFICES ASSUME PermissionAssumption, Init PROVE RulesInv
  OBVIOUS
<1>1. Asked = {} /\ Made = {}
  BY DEF Init, Asked, Made, NoCall
<1>2. ApprovalsAllow
  BY DEF Init, ApprovalsAllow, Allows
<1>. QED
  BY <1>1, <1>2, OpenInvInit DEF RulesInv, AllowedIsJustified, DeniedIsNeverPrompted

LEMMA RulesInvNext == PermissionAssumption /\ RulesInv /\ [Next]_vars => RulesInv'
<1>. SUFFICES ASSUME PermissionAssumption, RulesInv, [Next]_vars PROVE RulesInv'
  OBVIOUS
<1>. DEFINE Goal == ApprovalsAllow' /\ AllowedIsJustified' /\ DeniedIsNeverPrompted'
<1>1. OpenInv /\ OpenInv' /\ TypeOK
  BY OpenInvNext DEF RulesInv, OpenInv
<1>2. ApprovalsAllow /\ AllowedIsJustified /\ DeniedIsNeverPrompted
  BY DEF RulesInv
<1>3. ASSUME UNCHANGED vars PROVE Goal
  <2>1. /\ UNCHANGED <<home, approved, call, verdict, repliedBy>>
        /\ \A s \in Services : pending'[s] \subseteq pending[s]
    BY <1>3 DEF vars
  <2>. QED  BY <2>1, RulesKept
<1>4. ASSUME NEW d \in Directories, Open(d) PROVE Goal
  <2>1. UNCHANGED <<disposed, approved, pending, call, verdict, repliedBy>> /\ Asked' = Asked
    BY <1>4 DEF Open, Asked
  <2>2. \A s \in Services : \A c \in pending[s] : s \in Made
    BY <1>1, PendingIsOpen, Typed
  <2>3. Made' \subseteq Services
    <3>1. home' \in Seq(Directories) /\ Len(home') <= MaxServices
      BY <1>1 DEF OpenInv, TypeOK
    <3>. QED  BY <3>1 DEF Made, Services, PermissionAssumption
  <2>. QED  BY <1>2, <2>1, <2>2, <2>3 DEF ApprovalsAllow, AllowedIsJustified, DeniedIsNeverPrompted, Rules
<1>5. ASSUME NEW d \in Directories, DisposeInstance(d) PROVE Goal
  <2>1. /\ \A s \in Services : pending'[s] \subseteq pending[s]
        /\ \A c \in Calls : verdict'[c] = "allowed" => verdict[c] = "allowed"
        /\ UNCHANGED <<home, approved, call, repliedBy>>
    BY <1>1, <1>5 DEF DisposeInstance, TypeOK
  <2>. QED  BY <2>1, RulesKept
<1>6. ASSUME NEW c \in Calls, NEW s \in Made, NEW in \in Inputs, AskAnswered(c, s, in)
      PROVE  Goal
  <2>1. /\ c \notin Asked /\ Record(c, s, 0, in)
        /\ UNCHANGED <<home, approved, pending, repliedBy>>
        /\ \A b \in Calls : b # c => verdict'[b] = verdict[b]
        /\ verdict'[c] = "allowed" => AllAllowed(in.targets, Rules(s, in))
    BY <1>1, <1>6 DEF AskAnswered, TypeOK
  <2>2. /\ Asked' = Asked \cup {c} /\ call'[c] = [via |-> s, id |-> 0, in |-> in]
        /\ \A b \in Calls : b # c => call'[b] = call[b]
    BY <1>1, <2>1, Recorded
  <2>3. \A r \in Services : \A b \in pending[r] : b # c /\ b \in Calls
    BY <1>1, <2>1, PendingIsOpen
  <2>4. Made' = Made /\ Made \subseteq Services /\ Asked \subseteq Calls
    BY <1>1, <2>1, Typed DEF Made, Asked
  <2>5. AllowedIsJustified'
    BY <1>2, <2>1, <2>2, <2>4 DEF AllowedIsJustified, Rules
  <2>6. DeniedIsNeverPrompted'
    BY <1>2, <2>1, <2>2, <2>3, <2>4 DEF DeniedIsNeverPrompted, Rules
  <2>. QED  BY <1>2, <2>1, <2>5, <2>6 DEF ApprovalsAllow
<1>7. ASSUME NEW c \in Calls, NEW s \in Made, NEW in \in Inputs, AskPrompts(c, s, in)
      PROVE  Goal
  <2>1. /\ c \notin Asked /\ Record(c, s, nextID[s], in)
        /\ UNCHANGED <<home, approved, verdict, repliedBy>>
        /\ pending' = [pending EXCEPT ![s] = @ \cup {c}]
        /\ ~FirstDenied(in.targets, Rules(s, in))
    BY <1>7 DEF AskPrompts
  <2>2. s \in Services /\ nextID[s] \in Nat /\ pending \in [Services -> SUBSET Calls]
    BY <1>1, Typed DEF TypeOK
  <2>3. /\ Asked' = Asked \cup {c} /\ call'[c] = [via |-> s, id |-> nextID[s], in |-> in]
        /\ \A b \in Calls : b # c => call'[b] = call[b]
    BY <1>1, <2>1, <2>2, Recorded
  <2>4. \A r \in Services : \A b \in pending[r] : b # c /\ b \in Calls
    BY <1>1, <2>1, PendingIsOpen
  <2>5. \A r \in Services : \A b \in pending'[r] : b \in pending[r] \/ (b = c /\ r = s)
    BY <2>1, <2>2
  <2>6. Made' = Made /\ Made \subseteq Services /\ Asked \subseteq Calls
    BY <1>1, <2>1, Typed DEF Made, Asked
  <2>7. verdict[c] = "open"
    BY <1>1, <2>1 DEF OpenInv, InUse
  <2>8. AllowedIsJustified'
    BY <1>2, <2>1, <2>3, <2>6, <2>7 DEF AllowedIsJustified, Rules
  <2>9. DeniedIsNeverPrompted'
    BY <1>2, <2>1, <2>3, <2>4, <2>5, <2>6 DEF DeniedIsNeverPrompted, Rules
  <2>. QED  BY <1>2, <2>1, <2>8, <2>9 DEF ApprovalsAllow
<1>8. ASSUME NEW to \in Calls, ReplyOnce(to) PROVE Goal
  <2>1. PICK e \in Addressed(to) : Settle(call[e].via, {e}, "allowed", "once", to)
    BY <1>8 DEF ReplyOnce
  <2>2. call[e].via \in Services
    BY <1>1, <1>8, Found, Typed DEF ReplyOnce
  <2>3. \A s \in Services : pending'[s] \subseteq pending[s]
    BY <1>1, <2>1, <2>2 DEF Settle, TypeOK
  <2>. QED  BY <1>8, <2>1, <2>3, RulesKept DEF ReplyOnce, Settle
<1>9. ASSUME NEW to \in Calls, ReplyAlways(to) PROVE Goal
  BY <1>9, RulesReplyAlways
<1>10. ASSUME NEW to \in Calls, ReplyReject(to) PROVE Goal
  <2>1. PICK e \in Addressed(to) :
          Settle(call[e].via, Rejects(call[e].via, e), "rejected", "reject", to)
    BY <1>10 DEF ReplyReject
  <2>2. call[e].via \in Services
    BY <1>1, <1>10, Found, Typed DEF ReplyReject
  <2>3. \A s \in Services : pending'[s] \subseteq pending[s]
    BY <1>1, <2>1, <2>2 DEF Settle, TypeOK
  <2>. QED  BY <1>10, <2>1, <2>3, RulesKept DEF ReplyReject, Settle
<1>11. ASSUME NEW to \in Calls, ReplyUnknown(to) PROVE Goal
  BY <1>3, <1>11 DEF ReplyUnknown
<1>12. Goal
  BY <1>3, <1>4, <1>5, <1>6, <1>7, <1>8, <1>9, <1>10, <1>11 DEF Next, Goal
<1>. QED  BY <1>1, <1>12 DEF Goal, RulesInv

(* A tool runs only with the user's "once" or with rules that allow it:    *)
(* approvals of other services, or of other requests of the session that   *)
(* do not cover it, never let it through (resolveMatchingSession).         *)
THEOREM AllowedAreJustified == Spec => []AllowedIsJustified
<1>1. RulesInv => AllowedIsJustified
  BY DEF RulesInv
<1>. QED  BY PermissionAssumption, RulesInvInit, RulesInvNext, <1>1, PTL DEF Spec

(* The user is never shown a request that a rule denies, whatever was      *)
(* approved since it was asked (ask, firstDenied).                         *)
THEOREM DeniedAreNeverPrompted == Spec => []DeniedIsNeverPrompted
<1>1. RulesInv => DeniedIsNeverPrompted
  BY DEF RulesInv
<1>. QED  BY PermissionAssumption, RulesInvInit, RulesInvNext, <1>1, PTL DEF Spec

-----------------------------------------------------------------------------
(* The replies.                                                            *)

(* One action other than a reply, or a reply settling some requests of one *)
(* session of one service: all of them if it rejects.                      *)
LEMMA WhoIsSettled ==
  ASSUME PermissionAssumption, OpenInv, NEW to \in Calls, Shown(to), NEW e \in Addressed(to),
         NEW S \in SUBSET SameSession(call[e].via, e), NEW v \in {"allowed", "rejected"}, NEW kind,
         Settle(call[e].via, S, v, kind, to),
         v = "rejected" => S = SameSession(call[e].via, e),
         call' = call
  PROVE  \A c, d \in Calls : SettledNow(c) =>
           /\ SettledNow(d) => Fellows(c, d)
           /\ Fellows(c, d) /\ verdict'[c] = "rejected" => verdict'[d] # "open"
<1>. DEFINE s == call[e].via
<1>1. /\ e \in Asked /\ e \in Calls /\ s \in Services
      /\ verdict' = [c \in Calls |-> IF c \in S THEN v ELSE verdict[c]]
  BY Found, Typed DEF Settle, OpenInv
<1>2. \A c \in SameSession(s, e) :
        c \in Asked /\ c \in Calls /\ call[c].via = s /\ call[c].in.session = call[e].in.session
  BY <1>1, PendingIsOpen DEF SameSession
<1>. SUFFICES ASSUME NEW c \in Calls, NEW d \in Calls, SettledNow(c)
              PROVE  /\ SettledNow(d) => Fellows(c, d)
                     /\ Fellows(c, d) /\ verdict'[c] = "rejected" => verdict'[d] # "open"
  OBVIOUS
<1>3. \A b \in Calls : SettledNow(b) => b \in S
  BY <1>1 DEF SettledNow
<1>4. SettledNow(d) => Fellows(c, d)
  BY <1>2, <1>3 DEF Fellows
<1>5. ASSUME Fellows(c, d), verdict'[c] = "rejected" PROVE verdict'[d] # "open"
  <2>1. c \in S /\ S = SameSession(s, e)
    BY <1>1, <1>3, <1>5
  <2>2. call[d].via = s /\ call[d].in.session = call[e].in.session /\ d \in Asked
    BY <1>2, <1>5, <2>1 DEF Fellows
  <2>3. d \in S \/ verdict[d] # "open"
    BY <1>1, <2>1, <2>2 DEF OpenInv, OpenIsPending, SameSession
  <2>. QED  BY <1>1, <2>3
<1>. QED  BY <1>4, <1>5

(* A reply settles requests of one session of one service, and a rejection *)
(* all that are pending of it (reply, rejectSession).                      *)
THEOREM RepliesSessionWide == Spec => RepliesAreSessionWide
<1>. DEFINE Wide == disposed' = disposed =>
              \A c, d \in Calls : SettledNow(c) =>
                /\ SettledNow(d) => Fellows(c, d)
                /\ Fellows(c, d) /\ verdict'[c] = "rejected" => verdict'[d] # "open"
<1>1. ASSUME PermissionAssumption, OpenInv, [Next]_vars PROVE [Wide]_vars
  <2>1. ASSUME verdict' = verdict PROVE Wide
    BY <2>1 DEF SettledNow
  <2>2. ASSUME NEW d \in Directories, DisposeInstance(d) PROVE Wide
    <3>1. disposed' # disposed
      BY <1>1, <2>2 DEF DisposeInstance, OpenInv, InUse
    <3>. QED  BY <3>1
  <2>3. ASSUME NEW c \in Calls, NEW s \in Made, NEW in \in Inputs, AskAnswered(c, s, in)
        PROVE  Wide
    <3>1. c \notin Asked /\ \A b \in Calls : b # c => verdict'[b] = verdict[b]
      BY <1>1, <2>3 DEF AskAnswered, OpenInv, TypeOK
    <3>. QED  BY <3>1 DEF SettledNow
  <2>4. ASSUME NEW to \in Calls, ReplyOnce(to) PROVE Wide
    <3>1. PICK e \in Addressed(to) : Settle(call[e].via, {e}, "allowed", "once", to)
      BY <2>4 DEF ReplyOnce
    <3>2. {e} \in SUBSET SameSession(call[e].via, e) /\ Shown(to) /\ call' = call
      BY <1>1, <2>4, Found DEF ReplyOnce
    <3>. QED  BY <1>1, <3>1, <3>2, WhoIsSettled
  <2>5. ASSUME NEW to \in Calls, ReplyAlways(to) PROVE Wide
    <3>1. PICK e \in Addressed(to) :
            Settle(call[e].via, AlwaysResolves(call[e].via, e, approved[call[e].via] \o Approvals(e)),
                   "allowed", "always", to)
      BY <2>5 DEF ReplyAlways
    <3>2. /\ AlwaysResolves(call[e].via, e, approved[call[e].via] \o Approvals(e))
               \in SUBSET SameSession(call[e].via, e)
          /\ Shown(to) /\ call' = call
      BY <2>5 DEF ReplyAlways, AlwaysResolves
    <3>. QED  BY <1>1, <3>1, <3>2, WhoIsSettled
  <2>6. ASSUME NEW to \in Calls, ReplyReject(to) PROVE Wide
    <3>1. PICK e \in Addressed(to) :
            Settle(call[e].via, SameSession(call[e].via, e), "rejected", "reject", to)
      BY <2>6 DEF ReplyReject, Rejects
    <3>2. Shown(to) /\ call' = call
      BY <2>6 DEF ReplyReject
    <3>. QED  BY <1>1, <3>1, <3>2, WhoIsSettled
  <2>. HIDE DEF Wide
  <2>. QED
    BY <1>1, <2>1, <2>2, <2>3, <2>4, <2>5, <2>6 DEF Next, Open, AskPrompts, ReplyUnknown, vars
<1>. QED  BY PermissionAssumption, OpenInvInit, OpenInvNext, <1>1, PTL DEF Spec, RepliesAreSessionWide

(* A directory has the last of its services, ids are distinct within one,  *)
(* and a reply settles who asked, for a request that was asked.            *)
Numbered ==
  /\ \A s \in Made : current[home[s]] # 0 => s <= current[home[s]]
  /\ \A c, d \in Asked :
       call[c].via = call[d].via /\ call[c].id = call[d].id /\ call[c].id # 0 => c = d
  /\ \A c \in Calls : repliedBy[c].kind # "none" => c \in Asked /\ repliedBy[c].to \in Asked

RepliesInv == OpenInv /\ Numbered /\ OnlyLateRepliesStray

(* What was settled stays settled alike when requests and services are     *)
(* added, and services disposed of.                                        *)
LEMMA RepliesStand ==
  ASSUME PermissionAssumption, RepliesInv, Asked \subseteq Asked', repliedBy' = repliedBy,
         \A c \in Asked : call'[c] = call[c],
         \A s \in Made : home'[s] = home[s],
         disposed \subseteq disposed',
         \A c \in Asked' : c \in Asked \/ repliedBy[c].kind = "none"
  PROVE  OnlyLateRepliesStray'
<1>1. \A c \in Asked : c \in Calls /\ call[c].via \in Made
  BY Typed DEF RepliesInv, OpenInv, Asked
<1>. SUFFICES ASSUME NEW c \in Asked', repliedBy[c].kind # "none"
              PROVE  LET to == repliedBy[c].to IN
                     \/ SettledWith(c, to)'
                     \/ /\ (call[to].via)' \in disposed' /\ (call[to].via)' < (call[c].via)'
                        /\ home'[(call[to].via)'] = home'[(call[c].via)']
                        /\ \E e \in Asked' : SettledWith(c, e)' /\ (call[e].id = call[to].id)'
  BY DEF OnlyLateRepliesStray
<1>. DEFINE to == repliedBy[c].to
<1>2. c \in Asked /\ to \in Asked
  BY <1>1 DEF RepliesInv, Numbered
<1>3. call'[c] = call[c] /\ call'[to] = call[to] /\ call[c].via \in Made /\ call[to].via \in Made
  BY <1>1, <1>2
<1>4. \A e \in Asked : SettledWith(c, e) => SettledWith(c, e)'
  BY <1>2, <1>3 DEF SettledWith, Fellows
<1>5. \/ SettledWith(c, to)
      \/ /\ call[to].via \in disposed /\ call[to].via < call[c].via
         /\ home[call[to].via] = home[call[c].via]
         /\ \E e \in Asked : SettledWith(c, e) /\ call[e].id = call[to].id
  BY <1>2 DEF RepliesInv, OnlyLateRepliesStray
<1>6. CASE SettledWith(c, to)
  BY <1>2, <1>4, <1>6
<1>7. CASE /\ call[to].via \in disposed /\ call[to].via < call[c].via
           /\ home[call[to].via] = home[call[c].via]
           /\ \E e \in Asked : SettledWith(c, e) /\ call[e].id = call[to].id
  <2>1. PICK e \in Asked : SettledWith(c, e) /\ call[e].id = call[to].id
    BY <1>7
  <2>2. e \in Asked' /\ SettledWith(c, e)' /\ call'[e] = call[e]
    BY <1>4, <2>1
  <2>3. home'[call[to].via] = home[call[to].via] /\ home'[call[c].via] = home[call[c].via]
    BY <1>3
  <2>. QED  BY <1>3, <1>7, <2>1, <2>2, <2>3
<1>. QED  BY <1>5, <1>6, <1>7

(* A reply finds its own request, or is late: then what it finds has the   *)
(* same id in the service its directory has now, which is a later one.     *)
LEMMA RepliesReach ==
  ASSUME PermissionAssumption, RepliesInv, NEW to \in Calls, Shown(to), NEW e \in Addressed(to)
  PROVE  \/ e = to
         \/ /\ call[to].via \in disposed /\ call[to].via < call[e].via
            /\ home[call[to].via] = home[call[e].via] /\ call[e].id = call[to].id
<1>0. OpenInv /\ TypeOK /\ InUse /\ Numbered
  BY DEF RepliesInv, OpenInv
<1>. DEFINE d == home[call[to].via]
<1>1. /\ to \in Asked /\ call[to].id # 0 /\ call[to].via \in Made /\ d \in Directories
      /\ e \in Asked /\ call[e].via \in Made /\ call[e].via = current[d]
      /\ call[e].id = call[to].id
  BY <1>0, Typed, Found DEF Shown, Addressed
<1>2. CASE call[e].via = call[to].via
  BY <1>0, <1>1, <1>2 DEF Numbered
<1>3. CASE call[e].via # call[to].via
  <2>1. call[to].via \in disposed
    BY <1>0, <1>1, <1>3 DEF InUse
  <2>2. current[d] # 0 /\ current[d] \in Nat /\ call[to].via \in Nat
    BY <1>0, <1>1 DEF Made
  <2>3. call[to].via < call[e].via
    BY <1>0, <1>1, <1>3, <2>2 DEF Numbered
  <2>4. home[call[e].via] = d
    BY <1>0, <1>1, <2>2 DEF InUse
  <2>. QED  BY <1>1, <2>1, <2>3, <2>4
<1>. QED  BY <1>2, <1>3

LEMMA RepliesKept ==
  ASSUME PermissionAssumption, RepliesInv,
         NEW to \in Calls, Shown(to), NEW e \in Addressed(to),
         NEW S \in SUBSET SameSession(call[e].via, e), NEW v, NEW kind,
         kind = "once" => S = {e},
         Settle(call[e].via, S, v, kind, to),
         UNCHANGED <<home, current, disposed, call>>, OpenInv'
  PROVE  RepliesInv'
<1>1. to \in Asked /\ e \in Asked /\ call[e].via \in Services
  BY Typed, Found DEF Shown, RepliesInv, OpenInv
<1>2. \A c \in S : c \in Asked /\ c \in Calls /\ Fellows(c, e)
  BY <1>1, PendingIsOpen DEF SameSession, RepliesInv, Fellows
<1>3. repliedBy' = [c \in Calls |-> IF c \in S THEN [kind |-> kind, to |-> to] ELSE repliedBy[c]]
  BY DEF Settle
<1>4. Asked' = Asked /\ Made' = Made
  BY DEF Asked, Made
<1>5. Numbered'
  BY <1>1, <1>2, <1>3, <1>4 DEF RepliesInv, Numbered
<1>6. ASSUME NEW c \in S
      PROVE  repliedBy'[c].to = to /\ Fellows(c, e)' /\ (repliedBy'[c].kind = "once" => c = e)
  BY <1>2, <1>3, <1>4 DEF Fellows
<1>7. ASSUME NEW c \in Asked, c \notin S
      PROVE  repliedBy'[c] = repliedBy[c] /\ \A b : Fellows(c, b) <=> Fellows(c, b)'
  BY <1>3, <1>4, <1>7 DEF Asked, Fellows
<1>8. /\ e = to \/ /\ call[to].via \in disposed /\ call[to].via < call[e].via
                   /\ home[call[to].via] = home[call[e].via] /\ call[e].id = call[to].id
      /\ \A c \in S : call[c].via = call[e].via
  BY <1>2, RepliesReach DEF Fellows
<1>9. OnlyLateRepliesStray'
  <2>1. SUFFICES ASSUME NEW c \in Asked, NEW t, repliedBy'[c].to = t, repliedBy'[c].kind # "none"
                 PROVE  \/ Fellows(c, t)' /\ (repliedBy'[c].kind = "once" => c = t)
                        \/ /\ call[t].via \in disposed /\ call[t].via < call[c].via
                           /\ home[call[t].via] = home[call[c].via]
                           /\ \E b \in Asked : /\ Fellows(c, b)' /\ (repliedBy'[c].kind = "once" => c = b)
                                              /\ call[b].id = call[t].id
    BY <1>4 DEF OnlyLateRepliesStray, SettledWith, Fellows
  <2>2. CASE c \in S
    BY <1>1, <1>6, <1>8, <2>1, <2>2
  <2>3. CASE c \notin S
    BY <1>7, <2>1, <2>3 DEF RepliesInv, OnlyLateRepliesStray, SettledWith
  <2>. QED  BY <2>2, <2>3
<1>. QED  BY <1>5, <1>9 DEF RepliesInv

LEMMA RepliesInvInit == PermissionAssumption /\ Init => RepliesInv
<1>. SUFFICES ASSUME PermissionAssumption, Init PROVE RepliesInv
  OBVIOUS
<1>1. Made = {} /\ Asked = {}
  BY DEF Init, Made, Asked
<1>. QED  BY <1>1, OpenInvInit DEF Init, RepliesInv, Numbered, OnlyLateRepliesStray

LEMMA RepliesInvNext == PermissionAssumption /\ RepliesInv /\ [Next]_vars => RepliesInv'
<1>. SUFFICES ASSUME PermissionAssumption, RepliesInv, [Next]_vars PROVE RepliesInv'
  OBVIOUS
<1>1. OpenInv /\ OpenInv' /\ Numbered
  BY OpenInvNext DEF RepliesInv
<1>2. ASSUME UNCHANGED vars PROVE RepliesInv'
  BY <1>1, <1>2 DEF RepliesInv, vars, Numbered, OnlyLateRepliesStray, SettledWith, Fellows, Asked, Made
<1>3. ASSUME NEW d \in Directories, Open(d) PROVE RepliesInv'
  <2>. DEFINE n == Len(home) + 1
  <2>1. /\ Made' = Made \cup {n} /\ n \notin Made /\ n \in Nat
        /\ \A s \in Made : home'[s] = home[s] /\ home[s] \in Directories /\ s < n /\ s \in Nat
        /\ home'[n] = d /\ current' = [current EXCEPT ![d] = n]
        /\ DOMAIN current = Directories
    BY <1>1, <1>3, Typed DEF Open, OpenInv, TypeOK, Made
  <2>. HIDE DEF n
  <2>2. Asked' = Asked /\ UNCHANGED <<call, disposed, repliedBy>>
    BY <1>3 DEF Open, Asked
  <2>3. \A s \in Made' : current'[home'[s]] # 0 => s <= current'[home'[s]]
    BY <1>1, <2>1 DEF Numbered
  <2>4. Numbered'
    BY <1>1, <2>2, <2>3 DEF Numbered
  <2>. QED  BY <1>1, <2>1, <2>2, <2>4, RepliesStand DEF RepliesInv
<1>4. ASSUME NEW d \in Directories, DisposeInstance(d) PROVE RepliesInv'
  <2>1. /\ Asked' = Asked /\ Made' = Made /\ UNCHANGED <<home, call, repliedBy>>
        /\ disposed \subseteq disposed' /\ current' = [current EXCEPT ![d] = 0]
        /\ DOMAIN current = Directories /\ \A s \in Made : home[s] \in Directories
    BY <1>1, <1>4, Typed DEF DisposeInstance, Asked, Made, OpenInv, TypeOK
  <2>2. Numbered'
    BY <1>1, <2>1 DEF Numbered
  <2>. QED  BY <1>1, <2>1, <2>2, RepliesStand DEF RepliesInv
<1>5. ASSUME NEW c \in Calls, NEW s \in Made, NEW in \in Inputs, NEW id \in Nat,
             c \notin Asked, Record(c, s, id, in), UNCHANGED <<home, current, disposed, repliedBy>>,
             id = 0 \/ \A b \in Asked : call[b].via = s => call[b].id < id
      PROVE  RepliesInv'
  <2>1. /\ Asked' = Asked \cup {c} /\ call'[c] = [via |-> s, id |-> id, in |-> in]
        /\ \A b \in Asked : call'[b] = call[b] /\ b # c /\ call[b].id \in Nat
        /\ Made' = Made
    BY <1>1, <1>5, Recorded, Typed DEF Asked, OpenInv, Made
  <2>2. call'[c].via = s /\ call'[c].id = id
    BY <2>1
  <2>3. \A b \in Asked : call[b].via = s /\ id # 0 => call[b].id # id
    BY <1>5, <2>1
  <2>4. Numbered'
    <3>1. \A a, b \in Asked' :
            call'[a].via = call'[b].via /\ call'[a].id = call'[b].id /\ call'[a].id # 0 => a = b
      BY <1>1, <2>1, <2>2, <2>3 DEF Numbered
    <3>. QED  BY <1>1, <1>5, <2>1, <3>1 DEF Numbered
  <2>5. repliedBy[c].kind = "none"
    BY <1>1, <1>5 DEF Numbered
  <2>. QED  BY <1>1, <1>5, <2>1, <2>4, <2>5, RepliesStand DEF RepliesInv
<1>6. ASSUME NEW c \in Calls, NEW s \in Made, NEW in \in Inputs, AskAnswered(c, s, in)
      PROVE  RepliesInv'
  BY <1>5, <1>6 DEF AskAnswered
<1>7. ASSUME NEW c \in Calls, NEW s \in Made, NEW in \in Inputs, AskPrompts(c, s, in)
      PROVE  RepliesInv'
  <2>1. nextID[s] \in Nat /\ \A b \in Asked : call[b].via = s => call[b].id < nextID[s]
    BY <1>1, <1>7, Typed DEF OpenInv, TypeOK
  <2>. QED  BY <1>5, <1>7, <2>1 DEF AskPrompts
<1>8. ASSUME NEW to \in Calls, ReplyOnce(to) PROVE RepliesInv'
  <2>1. PICK e \in Addressed(to) : Settle(call[e].via, {e}, "allowed", "once", to)
    BY <1>8 DEF ReplyOnce
  <2>2. {e} \in SUBSET SameSession(call[e].via, e) /\ Shown(to)
        /\ UNCHANGED <<home, current, disposed, call>>
    BY <1>1, <1>8, Found DEF ReplyOnce
  <2>. QED  BY <1>1, <2>1, <2>2, RepliesKept
<1>9. ASSUME NEW to \in Calls, ReplyAlways(to) PROVE RepliesInv'
  <2>1. PICK e \in Addressed(to) :
          Settle(call[e].via, AlwaysResolves(call[e].via, e, approved[call[e].via] \o Approvals(e)),
                 "allowed", "always", to)
    BY <1>9 DEF ReplyAlways
  <2>2. /\ AlwaysResolves(call[e].via, e, approved[call[e].via] \o Approvals(e))
             \in SUBSET SameSession(call[e].via, e)
        /\ Shown(to) /\ UNCHANGED <<home, current, disposed, call>>
    BY <1>9 DEF ReplyAlways, AlwaysResolves
  <2>. QED  BY <1>1, <2>1, <2>2, RepliesKept
<1>10. ASSUME NEW to \in Calls, ReplyReject(to) PROVE RepliesInv'
  <2>1. PICK e \in Addressed(to) :
          Settle(call[e].via, SameSession(call[e].via, e), "rejected", "reject", to)
    BY <1>10 DEF ReplyReject, Rejects
  <2>2. Shown(to) /\ UNCHANGED <<home, current, disposed, call>>
    BY <1>10 DEF ReplyReject
  <2>. QED  BY <1>1, <2>1, <2>2, RepliesKept
<1>. QED
  BY <1>2, <1>3, <1>4, <1>6, <1>7, <1>8, <1>9, <1>10 DEF Next, ReplyUnknown

(* A reply settles the request it was given for, alone or with others of   *)
(* its session and instance; only a reply to a request of an instance that *)
(* was disposed of strays, to the request with the same id in a later      *)
(* instance of the same directory.                                         *)
THEOREM OnlyLateStray == Spec => []OnlyLateRepliesStray
<1>1. RepliesInv => OnlyLateRepliesStray
  BY DEF RepliesInv
<1>. QED  BY PermissionAssumption, RepliesInvInit, RepliesInvNext, <1>1, PTL DEF Spec
=============================================================================
