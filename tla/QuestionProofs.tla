---------------------------- MODULE QuestionProofs ----------------------------
(***************************************************************************)
(* Proofs about Instances and Questions, for any directories, hooks,       *)
(* calls, requests and number of services.                                 *)
(*                                                                         *)
(* What is reachable rests on the two maps agreeing: a service that is not *)
(* disposed of is the one its directory has (Mapped).  Answers rest on ids *)
(* being distinct within a service (Ids) and on a request keeping the      *)
(* service it found (Taking).                                              *)
(***************************************************************************)
EXTENDS Questions, TLAPS

AskRecord == [via : Nat, id : Nat]

Meaning == [to : Asks \cup {None}, late : BOOLEAN]

Request == [phase : {"none", "reading", "done"}, to : Asks \cup {None}, via : Nat, late : BOOLEAN]

TypeOK ==
  /\ contexts \in [Directories -> {None} \cup Seq(Hooks)]
  /\ used \subseteq Hooks
  /\ running \subseteq used
  /\ lost \subseteq used
  /\ services \in [Directories -> Nat]
  /\ home \in Seq(Directories)
  /\ Len(home) <= MaxServices
  /\ disposed \subseteq Made
  /\ pending \in [Services -> SUBSET Asks]
  /\ nextID \in [Services -> Nat]
  /\ ask \in [Asks -> AskRecord]
  /\ meant \in [Asks -> Meaning]
  /\ request \in [Requests -> Request]

(* The hooks of the instances are running and nobody else's.               *)
Owned ==
  /\ \A d \in Directories : contexts[d] # None => Elements(contexts[d]) \subseteq running \ lost
  /\ \A h \in running \ lost : \E d \in Directories :
       contexts[d] # None /\ h \in Elements(contexts[d])
  /\ \A d, e \in Directories :
       (d # e /\ contexts[d] # None /\ contexts[e] # None) =>
         Elements(contexts[d]) \cap Elements(contexts[e]) = {}

Mapped ==
  /\ \A d \in Directories : services[d] # 0 =>
       /\ services[d] \in Made
       /\ services[d] \notin disposed
       /\ home[services[d]] = d
  /\ \A s \in Made : s \notin disposed =>
       /\ services[home[s]] = s
       /\ contexts[home[s]] # None \/ s \in left

Ids ==
  /\ \A s \in Services : nextID[s] > 0
  /\ \A q \in Asks : ask[q].id # 0 =>
       /\ ask[q].via \in Made
       /\ ask[q].id < nextID[ask[q].via]
  /\ \A p, q \in Asks :
       (ask[p].id # 0 /\ ask[p].id = ask[q].id /\ ask[p].via = ask[q].via) => p = q
  /\ \A s \in Services : \A q \in pending[s] :
       ask[q].via = s /\ ask[q].id # 0 /\ s \in Made /\ s \notin disposed

Taking ==
  \A r \in Requests : request[r].phase = "reading" =>
    /\ request[r].to \in Asks
    /\ ask[request[r].to].id # 0
    /\ request[r].via \in Made
    /\ request[r].late \/ request[r].via = ask[request[r].to].via

IInv == TypeOK /\ Owned /\ Mapped /\ Ids /\ Taking /\ AnswersReachTheirQuestion

-----------------------------------------------------------------------------
LEMMA InitInv == Init => IInv
<1> SUFFICES ASSUME Init PROVE IInv
  OBVIOUS
<1>1. TypeOK
  BY QuestionAssumption DEF Init, InstanceInit, TypeOK, Made, Services, AskRecord, Meaning, Request,
     NoAsk, NoMeant, NoRequest
<1>2. Owned /\ Mapped
  BY DEF Init, InstanceInit, Owned, Mapped, Made
<1>3. Ids /\ Taking /\ AnswersReachTheirQuestion
  BY DEF Init, Ids, Taking, AnswersReachTheirQuestion, NoAsk, NoRequest, NoMeant, Services
<1> QED BY <1>1, <1>2, <1>3 DEF IInv

(* What a boot starts.                                                     *)
LEMMA StartsType ==
  ASSUME NEW L \in Starts
  PROVE  /\ L \in Seq(Hooks)
         /\ L # None
         /\ Elements(L) \subseteq Hooks
         /\ Elements(L) \cap used = {}
<1>1. /\ L \in Seq(Hooks)
      /\ \A i \in 1..Len(L) : L[i] \in Hooks \ used
  <2>1. CASE L = <<>>
    BY <2>1
  <2>2. CASE L \in {<<h>> : h \in Hooks \ used}
    <3> PICK h \in Hooks \ used : L = <<h>>
      BY <2>2
    <3>1. <<h>> \in Seq(Hooks) /\ Len(<<h>>) = 1 /\ <<h>>[1] = h
      OBVIOUS
    <3> QED BY <3>1
  <2>3. CASE L \in {M \in (Hooks \ used) \X (Hooks \ used) : M[1] # M[2]}
    <3> PICK h \in Hooks \ used, k \in Hooks \ used : L = <<h, k>>
      BY <2>3
    <3>1. <<h, k>> \in Seq(Hooks) /\ Len(<<h, k>>) = 2 /\ <<h, k>>[1] = h /\ <<h, k>>[2] = k
      OBVIOUS
    <3> QED BY <3>1
  <2> QED BY <2>1, <2>2, <2>3 DEF Starts
<1>2. DOMAIN L = 1..Len(L)
  BY <1>1
<1> QED BY <1>1, <1>2, InstanceAssumption DEF Elements

LEMMA EmptyStart == <<>> \in Starts
BY DEF Starts

LEMMA Parts ==
  ASSUME NEW L \in Seq(Hooks)
  PROVE  /\ Elements(L) \subseteq Hooks
         /\ Ended(L) \cup Skipped(L) = Elements(L)
         /\ Ended(L) \cap Skipped(L) = {}
         /\ Skipped(L) \subseteq Elements(L)
         /\ ~Throws(L) => Skipped(L) = {}
BY DEF Elements, Ended, Skipped, Throws

InstanceTypes ==
  /\ contexts \in [Directories -> {None} \cup Seq(Hooks)]
  /\ used \subseteq Hooks
  /\ running \subseteq used
  /\ lost \subseteq used

LEMMA BootOwned ==
  ASSUME InstanceTypes, Owned, NEW d \in Directories, NEW L \in Starts, Boot(d, L)
  PROVE  /\ InstanceTypes' /\ Owned' /\ contexts'[d] # None
         /\ \A e \in Directories : contexts[e] # None => contexts'[e] # None
<1>1. /\ L \in Seq(Hooks) /\ L # None /\ Elements(L) \subseteq Hooks /\ Elements(L) \cap used = {}
  BY StartsType
<1>2. contexts'[d] = L /\ \A e \in Directories : e # d => contexts'[e] = contexts[e]
  BY DEF Boot, InstanceTypes
<1>3. Forgotten(d) \subseteq running \ lost
  BY DEF Forgotten, Owned
<1>4. InstanceTypes'
  BY <1>1, <1>3 DEF Boot, InstanceTypes
<1>5. running' = running \cup Elements(L) /\ lost' = lost \cup Forgotten(d)
  BY DEF Boot
<1>6. \A e \in Directories : contexts'[e] # None => Elements(contexts'[e]) \subseteq running' \ lost'
  BY <1>1, <1>2, <1>3, <1>5 DEF Owned, Forgotten, InstanceTypes
<1>7. \A h \in running' \ lost' : \E e \in Directories : contexts'[e] # None /\ h \in Elements(contexts'[e])
  BY <1>1, <1>2, <1>5 DEF Owned, Forgotten
<1>8. \A e, f \in Directories :
        (e # f /\ contexts'[e] # None /\ contexts'[f] # None) =>
          Elements(contexts'[e]) \cap Elements(contexts'[f]) = {}
  BY <1>1, <1>2 DEF Owned, InstanceTypes
<1> QED BY <1>1, <1>2, <1>4, <1>6, <1>7, <1>8 DEF Owned

LEMMA DisposeOwned ==
  ASSUME InstanceTypes, Owned, NEW d \in Directories, Dispose(d)
  PROVE  /\ InstanceTypes' /\ Owned'
         /\ \A e \in Directories : e # d => contexts'[e] = contexts[e]
<1> DEFINE L == contexts[d]
<1>1. /\ L \in Seq(Hooks) /\ L # None
      /\ contexts'[d] = None /\ \A e \in Directories : e # d => contexts'[e] = contexts[e]
      /\ running' = running \ Ended(L) /\ lost' = lost \cup Skipped(L) /\ used' = used
  BY DEF Dispose, InstanceTypes
<1>2. /\ Ended(L) \cup Skipped(L) = Elements(L) /\ Skipped(L) \subseteq Elements(L)
      /\ Elements(L) \subseteq running \ lost
  BY <1>1, Parts DEF Owned
<1>3. InstanceTypes'
  BY <1>1, <1>2 DEF Dispose, InstanceTypes
<1>4. \A e \in Directories : contexts'[e] # None =>
        /\ e # d /\ contexts[e] # None /\ contexts'[e] = contexts[e]
        /\ Elements(contexts[e]) \cap Elements(L) = {}
  BY <1>1 DEF Owned
<1>5. running' \ lost' = (running \ lost) \ Elements(L)
  BY <1>1, <1>2
<1>6. \A e \in Directories : contexts'[e] # None => Elements(contexts'[e]) \subseteq running' \ lost'
  BY <1>4, <1>5 DEF Owned
<1>7. \A h \in running' \ lost' : \E e \in Directories : contexts'[e] # None /\ h \in Elements(contexts'[e])
  BY <1>1, <1>5 DEF Owned
<1>8. \A e, f \in Directories :
        (e # f /\ contexts'[e] # None /\ contexts'[f] # None) =>
          Elements(contexts'[e]) \cap Elements(contexts'[f]) = {}
  BY <1>4 DEF Owned
<1> QED BY <1>1, <1>3, <1>6, <1>7, <1>8 DEF Owned

LEMMA ReloadOwned ==
  ASSUME InstanceTypes, Owned, NEW d \in Directories, NEW L \in Starts, Reload(d, L)
  PROVE  /\ InstanceTypes' /\ Owned'
         /\ \A e \in Directories : e # d => contexts'[e] = contexts[e]
         /\ (contexts[d] = None \/ Publishes(d)) => contexts'[d] # None
<1>1. CASE contexts[d] = None /\ Boot(d, L)
  <2>1. \A e \in Directories : e # d => contexts'[e] = contexts[e]
    BY <1>1 DEF Boot, InstanceTypes
  <2> QED BY <1>1, <2>1, BootOwned
<1>2. CASE contexts[d] # None /\ Throws(contexts[d]) /\ Dispose(d)
  BY <1>2, DisposeOwned DEF Publishes
<1>3. CASE /\ Publishes(d)
           /\ contexts' = [contexts EXCEPT ![d] = L]
           /\ used' = used \cup Elements(L)
           /\ running' = (running \ Ended(contexts[d])) \cup Elements(L)
           /\ UNCHANGED lost
  <2> DEFINE O == contexts[d]
  <2>1. /\ L \in Seq(Hooks) /\ L # None /\ Elements(L) \subseteq Hooks /\ Elements(L) \cap used = {}
    BY StartsType
  <2>2. O \in Seq(Hooks) /\ O # None /\ ~Throws(O)
    BY <1>3 DEF Publishes, InstanceTypes
  <2>3. Ended(O) = Elements(O) /\ Elements(O) \subseteq running \ lost
    BY <2>2, Parts DEF Owned
  <2>4. contexts'[d] = L /\ \A e \in Directories : e # d => contexts'[e] = contexts[e]
    BY <1>3 DEF InstanceTypes
  <2>5. InstanceTypes'
    BY <1>3, <2>1 DEF InstanceTypes
  <2>6. running' \ lost' = ((running \ lost) \ Elements(O)) \cup Elements(L)
    BY <1>3, <2>1, <2>3 DEF InstanceTypes
  <2>7. \A e \in Directories : (e # d /\ contexts[e] # None) =>
          /\ Elements(contexts[e]) \cap Elements(O) = {}
          /\ Elements(contexts[e]) \subseteq used
    BY <2>2 DEF Owned, InstanceTypes
  <2>8. \A e \in Directories : contexts'[e] # None => Elements(contexts'[e]) \subseteq running' \ lost'
    BY <2>4, <2>6, <2>7 DEF Owned
  <2>9. \A h \in running' \ lost' :
          \E e \in Directories : contexts'[e] # None /\ h \in Elements(contexts'[e])
    BY <2>1, <2>4, <2>6 DEF Owned
  <2>10. \A e, f \in Directories :
           (e # f /\ contexts'[e] # None /\ contexts'[f] # None) =>
             Elements(contexts'[e]) \cap Elements(contexts'[f]) = {}
    BY <2>1, <2>4, <2>7 DEF Owned
  <2> QED BY <2>1, <2>4, <2>5, <2>8, <2>9, <2>10 DEF Owned
<1> QED BY <1>1, <1>2, <1>3 DEF Reload

LEMMA RefusedOwned ==
  ASSUME InstanceTypes, Owned, NEW L \in Starts, BootFails(L)
  PROVE  InstanceTypes' /\ Owned'
<1>1. /\ L \in Seq(Hooks) /\ Elements(L) \subseteq Hooks /\ Elements(L) \cap used = {}
  BY StartsType
<1>2. Skipped(L) \subseteq Elements(L)
  BY <1>1, Parts
<1>3. PICK rest \in {Skipped(L), Elements(L)} :
        running' = running \cup rest /\ lost' = lost \cup rest
  BY DEF BootFails
<1>4. contexts' = contexts /\ used' = used \cup Elements(L)
  BY DEF BootFails
<1>5. running' \ lost' = running \ lost
  BY <1>1, <1>2, <1>3 DEF InstanceTypes
<1> QED BY <1>1, <1>2, <1>3, <1>4, <1>5 DEF InstanceTypes, Owned

-----------------------------------------------------------------------------
LEMMA InvInstances == IInv => InstanceTypes /\ Owned
BY DEF IInv, TypeOK, InstanceTypes

(* What a route begins with: the directory has an instance and a service.  *)
LEMMA EnterKeeps ==
  ASSUME IInv, NEW d \in Directories, Enter(d), UNCHANGED <<disposed, left>>
  PROVE  /\ InstanceTypes' /\ Owned' /\ Mapped'
         /\ services' \in [Directories -> Nat]
         /\ home' \in Seq(Directories)
         /\ Len(home') <= MaxServices
         /\ Made \subseteq Made'
         /\ disposed' \subseteq Made'
         /\ Served(d) \in Made'
         /\ Served(d) \notin disposed
         /\ \A s \in Made : (s \notin disposed /\ home[s] = d) => Served(d) = s
<1> TypeOK /\ Mapped
  BY DEF IInv
<1>1. Boot(d, <<>>) /\ <<>> \in Starts
  BY EmptyStart DEF Enter
<1>2. /\ InstanceTypes' /\ Owned' /\ contexts'[d] # None
      /\ \A e \in Directories : contexts[e] # None => contexts'[e] # None
  BY <1>1, InvInstances, BootOwned
<1>3. CASE services[d] # 0
  <2>1. /\ Served(d) = services[d] /\ home' = home /\ services' = services
        /\ services[d] \in Made /\ services[d] \notin disposed
    BY <1>3 DEF Enter, Served, TypeOK, Mapped
  <2> QED BY <1>2, <2>1 DEF Mapped, Made, TypeOK
<1>4. CASE services[d] = 0
  <2> DEFINE n == Len(home) + 1
  <2>1. /\ Served(d) = n /\ home' = Append(home, d) /\ Len(home) < MaxServices
        /\ services' = [services EXCEPT ![d] = n]
        /\ Len(home) \in Nat
    BY <1>4 DEF Enter, Served, TypeOK
  <2>2. /\ home' \in Seq(Directories) /\ Len(home') = n /\ home'[n] = d
        /\ \A s \in Made : home'[s] = home[s]
    BY <2>1 DEF TypeOK, Made
  <2>3. /\ Made' = Made \cup {n} /\ n \notin Made /\ n \notin disposed
    BY <2>1, <2>2 DEF Made, TypeOK
  <2>4. /\ services'[d] = n /\ \A e \in Directories : e # d => services'[e] = services[e]
        /\ services' \in [Directories -> Nat]
    BY <2>1 DEF TypeOK
  <2>5. \A s \in Made : s \notin disposed => home[s] # d /\ home[s] \in Directories
    BY <1>4 DEF Mapped, TypeOK, Made
  <2>6. n # 0
    BY <2>1
  <2>7. Mapped'
    <3>1. \A e \in Directories : services'[e] # 0 =>
            services'[e] \in Made' /\ services'[e] \notin disposed' /\ home'[services'[e]] = e
      BY <2>2, <2>3, <2>4 DEF Mapped
    <3>2. \A s \in Made' : s \notin disposed' =>
            services'[home'[s]] = s /\ (contexts'[home'[s]] # None \/ s \in left')
      BY <1>2, <2>2, <2>3, <2>4, <2>5 DEF Mapped
    <3> QED BY <3>1, <3>2 DEF Mapped
  <2> QED BY <1>2, <2>1, <2>2, <2>3, <2>4, <2>5, <2>7, QuestionAssumption DEF TypeOK
<1> QED BY <1>3, <1>4

LEMMA HomeType ==
  ASSUME IInv, NEW q \in Asks, ask[q].id # 0
  PROVE  ask[q].via \in Made /\ HomeOf(q) \in Directories
BY DEF IInv, TypeOK, Ids, HomeOf, Made

(* Questions settled in service s by an answer to the question of q, which *)
(* is late unless s is the service of q.                                   *)
LEMMA SettleKeeps ==
  ASSUME IInv, NEW s \in Services, NEW q \in Asks, ask[q].id # 0, NEW S, S \subseteq Named(q, s),
         NEW late \in BOOLEAN, late \/ s = ask[q].via, NEW as,
         Settle(s, S, as), Means(S, q, late),
         UNCHANGED <<nextID, ask, disposed>>, Made \subseteq Made'
  PROVE  /\ pending' \in [Services -> SUBSET Asks]
         /\ meant' \in [Asks -> Meaning]
         /\ Ids' /\ AnswersReachTheirQuestion'
<1> TypeOK /\ Ids /\ AnswersReachTheirQuestion
  BY DEF IInv
<1>1. /\ pending' \in [Services -> SUBSET Asks]
      /\ \A t \in Services : pending'[t] \subseteq pending[t]
  BY DEF Settle, TypeOK
<1>2. meant' \in [Asks -> Meaning]
  BY DEF Means, TypeOK, Meaning
<1>3. Ids'
  BY <1>1 DEF Ids
<1>4. \A p \in S : p \in Asks /\ (late \/ p = q)
  BY DEF Named, Ids, TypeOK
<1>5. AnswersReachTheirQuestion'
  BY <1>4 DEF AnswersReachTheirQuestion, Means
<1> QED BY <1>1, <1>2, <1>3, <1>5

-----------------------------------------------------------------------------
LEMMA ListKeeps ==
  ASSUME IInv, NEW d \in Directories, ListQuestions(d)
  PROVE  IInv'
<1>1. /\ Enter(d)
      /\ UNCHANGED <<disposed, pending, nextID, ask, outcome, meant, request, left>>
  BY DEF ListQuestions
<1>2. /\ InstanceTypes' /\ Owned' /\ Mapped'
      /\ services' \in [Directories -> Nat] /\ home' \in Seq(Directories)
      /\ Len(home') <= MaxServices /\ Made \subseteq Made' /\ disposed' \subseteq Made'
  BY <1>1, EnterKeeps
<1>3. TypeOK'
  BY <1>1, <1>2 DEF IInv, TypeOK, InstanceTypes
<1>4. Ids' /\ Taking' /\ AnswersReachTheirQuestion'
  BY <1>1, <1>2 DEF IInv, Ids, Taking, AnswersReachTheirQuestion
<1> QED BY <1>2, <1>3, <1>4 DEF IInv

LEMMA AskRefusedKeeps ==
  ASSUME IInv, NEW q \in Asks, NEW s \in Made, AskRefused(q, s)
  PROVE  IInv'
<1> TypeOK /\ Ids
  BY DEF IInv
<1>1. /\ q \notin Asked /\ ask' = [ask EXCEPT ![q] = [via |-> s, id |-> 0]] /\ s \in Nat
      /\ UNCHANGED <<instanceVars, services, home, disposed, pending, nextID, meant, request, left>>
  BY DEF AskRefused, Made
<1>2. /\ ask[q] = NoAsk
      /\ ask'[q].id = 0 /\ \A p \in Asks : p # q => ask'[p] = ask[p]
      /\ ask' \in [Asks -> AskRecord]
  BY <1>1 DEF Asked, TypeOK, AskRecord
<1>3. ask[q].id = 0
  BY <1>2 DEF NoAsk
<1>4. TypeOK'
  BY <1>1, <1>2 DEF TypeOK, Made, instanceVars
<1>5. Owned' /\ Mapped'
  BY <1>1 DEF IInv, Owned, Mapped, Made, instanceVars
<1>6. Ids'
  BY <1>1, <1>2, <1>3 DEF Ids, Made, TypeOK
<1>7. Taking' /\ AnswersReachTheirQuestion'
  BY <1>1, <1>2, <1>3 DEF IInv, Taking, AnswersReachTheirQuestion, Made
<1> QED BY <1>4, <1>5, <1>6, <1>7 DEF IInv

LEMMA AskKeeps ==
  ASSUME IInv, NEW q \in Asks, NEW s \in Made, Ask(q, s)
  PROVE  IInv'
<1> TypeOK /\ Ids
  BY DEF IInv
<1>1. /\ q \notin Asked /\ s \notin disposed
      /\ ask' = [ask EXCEPT ![q] = [via |-> s, id |-> nextID[s]]]
      /\ nextID' = [nextID EXCEPT ![s] = @ + 1]
      /\ pending' = [pending EXCEPT ![s] = @ \cup {q}]
      /\ UNCHANGED <<instanceVars, services, home, disposed, outcome, meant, request, left>>
  BY DEF Ask
<1>2. s \in Services /\ s \in Nat /\ nextID[s] \in Nat /\ nextID[s] > 0
  BY QuestionAssumption DEF Made, Services, TypeOK, Ids
<1>3. /\ ask[q].id = 0
      /\ ask'[q].id = nextID[s] /\ ask'[q].via = s
      /\ \A p \in Asks : p # q => ask'[p] = ask[p]
      /\ ask' \in [Asks -> AskRecord]
  BY <1>1, <1>2 DEF Asked, NoAsk, TypeOK, AskRecord
<1>4. /\ nextID' \in [Services -> Nat] /\ nextID'[s] = nextID[s] + 1
      /\ \A t \in Services : t # s => nextID'[t] = nextID[t]
  BY <1>1, <1>2 DEF TypeOK
<1>5. /\ pending' \in [Services -> SUBSET Asks] /\ pending'[s] = pending[s] \cup {q}
      /\ \A t \in Services : t # s => pending'[t] = pending[t]
  BY <1>1, <1>2 DEF TypeOK
<1>6. TypeOK'
  BY <1>1, <1>3, <1>4, <1>5 DEF TypeOK, Made, instanceVars
<1>7. Owned' /\ Mapped'
  BY <1>1 DEF IInv, Owned, Mapped, Made, instanceVars
<1>8. Made' = Made /\ disposed' = disposed /\ Made \subseteq Services
  BY <1>1, QuestionAssumption DEF Made, TypeOK, Services
<1>9. Ids'
  <2>1. \A t \in Services : nextID'[t] > 0
    BY <1>2, <1>4 DEF Ids
  <2>2. \A p \in Asks : p # q /\ ask[p].id # 0 =>
          /\ ask[p].via \in Services /\ ask[p].id \in Nat /\ nextID[ask[p].via] \in Nat
          /\ ask[p].id < nextID[ask[p].via]
          /\ ask[p].via = s => ask[p].id # nextID[s]
    BY <1>2, <1>8 DEF Ids, TypeOK, AskRecord
  <2>3. \A p \in Asks : ask'[p].id # 0 => ask'[p].via \in Made' /\ ask'[p].id < nextID'[ask'[p].via]
    <3> TAKE p \in Asks
    <3> HAVE ask'[p].id # 0
    <3>1. CASE p = q
      BY <1>2, <1>3, <1>4, <1>8, <3>1
    <3>2. CASE p # q
      <4>1. /\ ask'[p] = ask[p] /\ ask[p].via \in Made /\ ask[p].via \in Services
            /\ ask[p].id \in Nat /\ nextID[ask[p].via] \in Nat /\ ask[p].id < nextID[ask[p].via]
        BY <1>3, <2>2, <3>2 DEF Ids
      <4>2. CASE ask[p].via = s
        BY <1>4, <1>8, <4>1, <4>2
      <4>3. CASE ask[p].via # s
        BY <1>4, <1>8, <4>1, <4>3
      <4> QED BY <4>2, <4>3
    <3> QED BY <3>1, <3>2
  <2>4. \A p, o \in Asks :
          (ask'[p].id # 0 /\ ask'[p].id = ask'[o].id /\ ask'[p].via = ask'[o].via) => p = o
    BY <1>2, <1>3, <2>2 DEF Ids
  <2>5. \A t \in Services : \A p \in pending'[t] :
          ask'[p].via = t /\ ask'[p].id # 0 /\ t \in Made' /\ t \notin disposed'
    BY <1>1, <1>2, <1>3, <1>5, <1>8 DEF Ids, TypeOK
  <2> QED BY <2>1, <2>3, <2>4, <2>5 DEF Ids
<1>10. Taking' /\ AnswersReachTheirQuestion'
  BY <1>1, <1>3, <1>8 DEF IInv, Taking, AnswersReachTheirQuestion
<1> QED BY <1>6, <1>7, <1>9, <1>10 DEF IInv

LEMMA ReplyBeginsKeeps ==
  ASSUME IInv, NEW r \in Requests, NEW q \in Asks, ReplyBegins(r, q)
  PROVE  IInv'
<1> TypeOK
  BY DEF IInv
<1> DEFINE d == HomeOf(q)
           late == ask[q].via \in disposed
           w == [phase |-> "reading", to |-> q, via |-> Served(d), late |-> late]
<1>1. /\ ask[q].id # 0 /\ Enter(d) /\ request' = [request EXCEPT ![r] = w]
      /\ UNCHANGED <<disposed, pending, nextID, ask, outcome, meant, left>>
  BY DEF ReplyBegins
<1>2. ask[q].via \in Made /\ d \in Directories /\ home[ask[q].via] = d
  BY <1>1, HomeType DEF HomeOf
<1> HIDE DEF d
<1>3. /\ InstanceTypes' /\ Owned' /\ Mapped'
      /\ services' \in [Directories -> Nat] /\ home' \in Seq(Directories)
      /\ Len(home') <= MaxServices /\ Made \subseteq Made' /\ disposed' \subseteq Made'
      /\ Served(d) \in Made'
      /\ ask[q].via \notin disposed => Served(d) = ask[q].via
  BY <1>1, <1>2, EnterKeeps
<1>4. Served(d) \in Nat
  BY <1>3 DEF Made
<1>5. w \in Request /\ w.to = q /\ w.via = Served(d) /\ (w.late \/ w.via = ask[q].via)
  <2>1. late \in BOOLEAN /\ (late \/ Served(d) = ask[q].via)
    BY <1>3
  <2> HIDE DEF late
  <2> QED BY <1>4, <2>1 DEF Request
<1> HIDE DEF w
<1>6. /\ request' \in [Requests -> Request] /\ request'[r] = w
      /\ \A o \in Requests : o # r => request'[o] = request[o]
  BY <1>1, <1>5 DEF TypeOK
<1>7. TypeOK'
  BY <1>1, <1>3, <1>6 DEF TypeOK, InstanceTypes
<1>8. Ids' /\ AnswersReachTheirQuestion'
  BY <1>1, <1>3 DEF IInv, Ids, AnswersReachTheirQuestion
<1>9. Taking'
  BY <1>1, <1>3, <1>5, <1>6 DEF IInv, Taking
<1> QED BY <1>3, <1>7, <1>8, <1>9 DEF IInv

LEMMA ReplyEndsKeeps ==
  ASSUME IInv, NEW r \in Requests, ReplyEnds(r)
  PROVE  IInv'
<1> TypeOK
  BY DEF IInv
<1> DEFINE q == request[r].to
           s == request[r].via
<1>1. /\ q \in Asks /\ ask[q].id # 0 /\ s \in Made /\ (request[r].late \/ s = ask[q].via)
      /\ request[r].late \in BOOLEAN
  BY DEF ReplyEnds, IInv, Taking, TypeOK, Request
<1>2. /\ Settle(s, Named(q, s), "answered")
      /\ Means(Named(q, s), q, request[r].late)
      /\ request' = [request EXCEPT ![r] = [@ EXCEPT !.phase = "done"]]
      /\ UNCHANGED <<instanceVars, services, home, disposed, nextID, ask, left>>
  BY DEF ReplyEnds, Taken
<1>3. s \in Services /\ Made' = Made
  BY <1>1, <1>2, QuestionAssumption DEF Made, Services, TypeOK
<1> HIDE DEF q, s
<1>4. /\ pending' \in [Services -> SUBSET Asks] /\ meant' \in [Asks -> Meaning]
      /\ Ids' /\ AnswersReachTheirQuestion'
  BY <1>1, <1>2, <1>3, SettleKeeps
<1>5. /\ request' \in [Requests -> Request] /\ request'[r].phase = "done"
      /\ \A o \in Requests : o # r => request'[o] = request[o]
  BY <1>2 DEF TypeOK, Request
<1>6. TypeOK'
  BY <1>2, <1>3, <1>4, <1>5 DEF TypeOK, instanceVars
<1>7. Owned' /\ Mapped'
  BY <1>2 DEF IInv, Owned, Mapped, Made, instanceVars
<1>8. Taking'
  BY <1>2, <1>3, <1>5 DEF IInv, Taking
<1> QED BY <1>4, <1>6, <1>7, <1>8 DEF IInv

LEMMA ReplyRefusedKeeps ==
  ASSUME IInv, NEW r \in Requests, ReplyRefused(r)
  PROVE  IInv'
<1> TypeOK
  BY DEF IInv
<1>1. /\ request' = [request EXCEPT ![r] = [@ EXCEPT !.phase = "done"]]
      /\ UNCHANGED <<instanceVars, services, home, disposed, pending, nextID, ask, meant, left>>
  BY DEF ReplyRefused
<1>2. /\ request' \in [Requests -> Request] /\ request'[r].phase = "done"
      /\ \A o \in Requests : o # r => request'[o] = request[o]
  BY <1>1 DEF TypeOK, Request
<1>3. TypeOK'
  BY <1>1, <1>2 DEF TypeOK, Made, instanceVars
<1>4. Owned' /\ Mapped'
  BY <1>1 DEF IInv, Owned, Mapped, Made, instanceVars
<1>5. Ids' /\ Taking' /\ AnswersReachTheirQuestion'
  BY <1>1, <1>2 DEF IInv, Ids, Taking, AnswersReachTheirQuestion, Made
<1> QED BY <1>3, <1>4, <1>5 DEF IInv

LEMMA RejectKeeps ==
  ASSUME IInv, NEW q \in Asks, RejectQuestion(q)
  PROVE  IInv'
<1> TypeOK
  BY DEF IInv
<1> DEFINE d == HomeOf(q)
           s == Served(d)
           hit == IF s \in Made THEN Named(q, s) ELSE {}
<1>1. /\ ask[q].id # 0 /\ Enter(d)
      /\ Settle(s, hit, "rejected") /\ Means(hit, q, ask[q].via \in disposed)
      /\ UNCHANGED <<disposed, nextID, ask, request, left>>
  BY DEF RejectQuestion
<1>2. ask[q].via \in Made /\ d \in Directories /\ home[ask[q].via] = d
  BY <1>1, HomeType DEF HomeOf
<1>3. hit \subseteq Named(q, s)
  OBVIOUS
<1> HIDE DEF d, hit
<1>4. /\ InstanceTypes' /\ Owned' /\ Mapped'
      /\ services' \in [Directories -> Nat] /\ home' \in Seq(Directories)
      /\ Len(home') <= MaxServices /\ Made \subseteq Made' /\ disposed' \subseteq Made'
      /\ s \in Made'
      /\ ask[q].via \notin disposed => s = ask[q].via
  BY <1>1, <1>2, EnterKeeps
<1>5. s \in Services
  BY <1>4, QuestionAssumption DEF Made, Services
<1> DEFINE late == ask[q].via \in disposed
<1>6. late \in BOOLEAN /\ (late \/ s = ask[q].via) /\ Means(hit, q, late)
  BY <1>1, <1>4
<1> HIDE DEF s, late
<1>7. /\ pending' \in [Services -> SUBSET Asks] /\ meant' \in [Asks -> Meaning]
      /\ Ids' /\ AnswersReachTheirQuestion'
  BY <1>1, <1>3, <1>4, <1>5, <1>6, SettleKeeps
<1>8. TypeOK'
  BY <1>1, <1>4, <1>7 DEF TypeOK, InstanceTypes
<1>9. Taking'
  BY <1>1, <1>4 DEF IInv, Taking
<1> QED BY <1>4, <1>7, <1>8, <1>9 DEF IInv

-----------------------------------------------------------------------------
(* What the listeners leave of the services after a disposal.              *)
LEMMA ListenersKeep ==
  ASSUME IInv, NEW d \in Directories, Listeners(d),
         InstanceTypes', Owned',
         \A e \in Directories : e # d => contexts'[e] = contexts[e],
         (contexts[d] = None) => contexts'[d] # None \/ contexts' = contexts
  PROVE  IInv'
<1> TypeOK /\ Mapped /\ Ids
  BY DEF IInv
<1>1. UNCHANGED <<home, nextID, ask, meant, request>> /\ Made' = Made
  BY DEF Listeners, Made
<1>2. CASE contexts[d] = None \/ ~Publishes(d)
  <2>1. /\ UNCHANGED <<services, disposed, pending, outcome>>
        /\ contexts[d] = None => left' = left
        /\ contexts[d] # None => left' = left \cup {services[d]}
    BY <1>2 DEF Listeners, Publishes
  <2>2. Mapped'
    <3>1. \A s \in Made : s \notin disposed =>
            /\ services[home[s]] = s
            /\ contexts[home[s]] # None \/ s \in left
            /\ home[s] \in Directories
      BY DEF Mapped, Made, TypeOK
    <3>2. \A s \in Made : s \notin disposed => contexts'[home[s]] # None \/ s \in left'
      BY <2>1, <3>1
    <3> QED BY <1>1, <2>1, <3>1, <3>2 DEF Mapped
  <2>3. TypeOK'
    BY <1>1, <2>1 DEF TypeOK, InstanceTypes
  <2>4. Ids' /\ Taking' /\ AnswersReachTheirQuestion'
    BY <1>1, <2>1 DEF IInv, Ids, Taking, AnswersReachTheirQuestion
  <2> QED BY <2>2, <2>3, <2>4 DEF IInv
<1>3. CASE contexts[d] # None /\ Publishes(d)
  <2> DEFINE s == services[d]
  <2>1. left' = left /\ ServiceEnds(d)
    BY <1>3 DEF Listeners
  <2>2. CASE s = 0
    <3>1. UNCHANGED <<services, disposed, pending>>
      BY <2>1, <2>2 DEF ServiceEnds
    <3>2. \A t \in Made : t \notin disposed => home[t] # d /\ home[t] \in Directories
      BY <2>2 DEF Mapped, Made, TypeOK
    <3>3. Mapped'
      BY <1>1, <2>1, <3>1, <3>2 DEF Mapped
    <3>4. TypeOK'
      BY <1>1, <3>1 DEF TypeOK, InstanceTypes
    <3>5. Ids' /\ Taking' /\ AnswersReachTheirQuestion'
      BY <1>1, <3>1 DEF IInv, Ids, Taking, AnswersReachTheirQuestion
    <3> QED BY <3>3, <3>4, <3>5 DEF IInv
  <2>3. CASE s # 0
    <3>1. /\ s \in Made /\ s \notin disposed /\ home[s] = d /\ s \in Services
      BY <2>3, QuestionAssumption DEF Mapped, Made, Services, TypeOK
    <3>2. /\ services' = [services EXCEPT ![d] = 0]
          /\ disposed' = disposed \cup {s}
          /\ pending' = [pending EXCEPT ![s] = @ \ pending[s]]
      BY <2>1, <2>3 DEF ServiceEnds, Settle
    <3>3. /\ services' \in [Directories -> Nat] /\ services'[d] = 0
          /\ \A e \in Directories : e # d => services'[e] = services[e]
      BY <3>2 DEF TypeOK
    <3>4. /\ pending' \in [Services -> SUBSET Asks] /\ pending'[s] = {}
          /\ \A t \in Services : t # s => pending'[t] = pending[t]
      BY <3>1, <3>2 DEF TypeOK
    <3>5. \A t \in Made : t \notin disposed' => home[t] # d /\ home[t] \in Directories /\ t \notin disposed
      BY <3>1, <3>2 DEF Mapped, Made, TypeOK
    <3>6. Mapped'
      <4>1. \A e \in Directories : services'[e] # 0 =>
              services'[e] \in Made' /\ services'[e] \notin disposed' /\ home'[services'[e]] = e
        BY <1>1, <3>1, <3>2, <3>3 DEF Mapped
      <4>2. \A t \in Made' : t \notin disposed' =>
              services'[home'[t]] = t /\ (contexts'[home'[t]] # None \/ t \in left')
        BY <1>1, <2>1, <3>3, <3>5 DEF Mapped
      <4> QED BY <4>1, <4>2 DEF Mapped
    <3>7. TypeOK'
      BY <1>1, <3>1, <3>2, <3>3, <3>4 DEF TypeOK, InstanceTypes
    <3>8. Ids'
      BY <1>1, <3>1, <3>2, <3>4 DEF Ids
    <3>9. Taking' /\ AnswersReachTheirQuestion'
      BY <1>1 DEF IInv, Taking, AnswersReachTheirQuestion
    <3> QED BY <3>6, <3>7, <3>8, <3>9 DEF IInv
  <2> QED BY <2>2, <2>3
<1> QED BY <1>2, <1>3

LEMMA DisposeKeeps ==
  ASSUME IInv, NEW d \in Directories, DisposeInstance(d)
  PROVE  IInv'
<1>1. Dispose(d) /\ Listeners(d) /\ contexts[d] # None
  BY DEF DisposeInstance, Dispose
<1>2. InstanceTypes' /\ Owned' /\ \A e \in Directories : e # d => contexts'[e] = contexts[e]
  BY <1>1, InvInstances, DisposeOwned
<1> QED BY <1>1, <1>2, ListenersKeep

LEMMA ReloadKeeps ==
  ASSUME IInv, NEW d \in Directories, NEW L \in Starts, ReloadInstance(d, L)
  PROVE  IInv'
<1>1. Reload(d, L) /\ Listeners(d)
  BY DEF ReloadInstance
<1>2. InstanceTypes /\ Owned
  BY InvInstances
<1>3. /\ InstanceTypes' /\ Owned' /\ \A e \in Directories : e # d => contexts'[e] = contexts[e]
      /\ (contexts[d] = None \/ Publishes(d)) => contexts'[d] # None
  BY <1>1, <1>2, ReloadOwned
<1> QED BY <1>1, <1>3, ListenersKeep

LEMMA BootKeeps ==
  ASSUME IInv, NEW L \in Starts,
         BootRefuses(L) \/ \E d \in Directories : BootInstance(d, L)
  PROVE  IInv'
<1>1. /\ InstanceTypes' /\ Owned'
      /\ \A e \in Directories : contexts[e] # None => contexts'[e] # None
      /\ UNCHANGED questionVars
  <2>1. CASE BootRefuses(L)
    BY <2>1, InvInstances, RefusedOwned DEF BootRefuses, BootFails
  <2>2. CASE \E d \in Directories : BootInstance(d, L)
    BY <2>2, InvInstances, BootOwned DEF BootInstance
  <2> QED BY <2>1, <2>2
<1>2. TypeOK' /\ Made' = Made
  BY <1>1 DEF IInv, TypeOK, InstanceTypes, questionVars, Made
<1>3. Mapped'
  <2>1. \A s \in Made : home[s] \in Directories
    BY DEF IInv, TypeOK, Made
  <2> QED BY <1>1, <1>2, <2>1 DEF IInv, Mapped, questionVars
<1>4. Ids' /\ Taking' /\ AnswersReachTheirQuestion'
  BY <1>1, <1>2 DEF IInv, Ids, Taking, AnswersReachTheirQuestion, questionVars
<1> QED BY <1>1, <1>2, <1>3, <1>4 DEF IInv

-----------------------------------------------------------------------------
LEMMA StepInv == IInv /\ [Next]_vars => IInv'
<1> SUFFICES ASSUME IInv, [Next]_vars PROVE IInv'
  OBVIOUS
<1>1. ASSUME NEW d \in Directories, ListQuestions(d) \/ DisposeInstance(d)
      PROVE  IInv'
  BY <1>1, ListKeeps, DisposeKeeps
<1>2. ASSUME NEW d \in Directories, NEW L \in Starts, BootInstance(d, L) \/ ReloadInstance(d, L)
      PROVE  IInv'
  BY <1>2, BootKeeps, ReloadKeeps
<1>3. ASSUME NEW L \in Starts, BootRefuses(L)
      PROVE  IInv'
  BY <1>3, BootKeeps
<1>4. ASSUME NEW q \in Asks, NEW s \in Made, AskRefused(q, s) \/ Ask(q, s)
      PROVE  IInv'
  BY <1>4, AskRefusedKeeps, AskKeeps
<1>5. ASSUME NEW q \in Asks, RejectQuestion(q)
      PROVE  IInv'
  BY <1>5, RejectKeeps
<1>6. ASSUME NEW r \in Requests, NEW q \in Asks, ReplyBegins(r, q)
      PROVE  IInv'
  BY <1>6, ReplyBeginsKeeps
<1>7. ASSUME NEW r \in Requests, ReplyEnds(r) \/ ReplyRefused(r)
      PROVE  IInv'
  BY <1>7, ReplyEndsKeeps, ReplyRefusedKeeps
<1>8. CASE UNCHANGED vars
  BY <1>8 DEF vars, instanceVars, questionVars, IInv, TypeOK, Owned, Mapped, Ids, Taking,
     AnswersReachTheirQuestion, Made
<1> QED BY <1>1, <1>2, <1>3, <1>4, <1>5, <1>6, <1>7, <1>8 DEF Next

LEMMA Invariance == Spec => []IInv
BY InitInv, StepInv, PTL DEF Spec

(* The maps and tables of instances and questions keep their types.        *)
THEOREM TypeCorrect == Spec => []TypeOK
<1>1. IInv => TypeOK
  BY DEF IInv
<1> QED BY <1>1, Invariance, PTL

(* Running hooks are those of the instances there are, but for those that  *)
(* a boot or a throwing disposer has left.                                 *)
THEOREM HooksOwned == Spec => []HooksAreOwned
<1>1. IInv => HooksAreOwned
  <2> SUFFICES ASSUME IInv PROVE HooksAreOwned
    OBVIOUS
  <2>1. UNION {Elements(contexts[d]) : d \in {e \in Directories : contexts[e] # None}}
          \subseteq running \ lost
    BY DEF IInv, Owned
  <2>2. running \ lost \subseteq
          UNION {Elements(contexts[d]) : d \in {e \in Directories : contexts[e] # None}}
    BY DEF IInv, Owned
  <2> QED BY <2>1, <2>2 DEF IInv, Owned, HooksAreOwned
<1> QED BY <1>1, Invariance, PTL

(* Pending questions are in the service of their directory, which has an   *)
(* instance unless its disposal threw.                                     *)
THEOREM PendingReachable == Spec => []PendingIsReachable
<1>1. IInv => PendingIsReachable
  <2> SUFFICES ASSUME IInv, NEW s \in Services, pending[s] # {}
               PROVE  /\ services[home[s]] = s
                      /\ contexts[home[s]] # None \/ s \in left
    BY DEF PendingIsReachable
  <2>1. s \in Made /\ s \notin disposed
    BY DEF IInv, Ids
  <2> QED BY <2>1 DEF IInv, Mapped
<1> QED BY <1>1, Invariance, PTL

(* An answer settles the question it was for, unless it came after the     *)
(* service of that question was disposed of.                               *)
THEOREM AnswersReach == Spec => []AnswersReachTheirQuestion
<1>1. IInv => AnswersReachTheirQuestion
  BY DEF IInv
<1> QED BY <1>1, Invariance, PTL
=============================================================================
