------------------------ MODULE WorkspaceSyncProofs ------------------------
(***************************************************************************)
(* What WorkspaceSync keeps for every set of sessions and types and every  *)
(* bound: its background task has exactly one loop going, the rows are a   *)
(* replica of the remote's log, and the stream joins the history.          *)
(***************************************************************************)
EXTENDS WorkspaceSync, RecursionProofs, FiniteSetTheorems, TLAPS

-----------------------------------------------------------------------------
(* Replay.                                                                 *)

(* A replayed event leaves rows behind.                                    *)
LEMMA ReplayType ==
  ASSUME NEW acc \in Rows, NEW e \in Event
  PROVE  Replay(acc, e) \in Rows
<1>1. e.session \in Sessions /\ acc[e.session] \in Seq(Event)
  BY DEF Rows, Event
<1>2. Append(acc[e.session], e) \in Seq(Event)
  BY <1>1, AppendProperties
<1>3. [acc EXCEPT ![e.session] = Append(acc[e.session], e)] \in Rows
  BY <1>2 DEF Rows
<1>. QED  BY <1>3 DEF Replay

(* ReplayAll does what the recursion in it says.                           *)
LEMMA ReplayAllUnfolds ==
  ASSUME NEW r \in Rows, NEW events \in Seq(Event)
  PROVE  \E g : /\ ReplayAll(r, events) = g[[rows |-> r, i |-> 1]]
                /\ \A acc \in Rows, i \in 1 .. Len(events) + 1 :
                     g[[rows |-> acc, i |-> i]] =
                       IF i > Len(events) THEN [rows |-> acc, ok |-> TRUE]
                       ELSE IF Throws(acc, events[i]) THEN [rows |-> acc, ok |-> FALSE]
                       ELSE g[[rows |-> Replay(acc, events[i]), i |-> i + 1]]
<1>. DEFINE D == [rows : Rows, i : 1 .. Len(events) + 1]
            B == [rows : Rows, ok : BOOLEAN]
            Ends == {at \in D : at.i > Len(events) \/ Throws(at.rows, events[at.i])}
            rank == [at \in D |-> Len(events) + 1 - at.i]
            out == [at \in D |-> IF at.i > Len(events) THEN [rows |-> at.rows, ok |-> TRUE]
                                 ELSE [rows |-> at.rows, ok |-> FALSE]]
            next == [at \in D |-> IF at \in Ends THEN at
                                  ELSE [rows |-> Replay(at.rows, events[at.i]), i |-> at.i + 1]]
            from[at \in D] ==
              IF at.i > Len(events) THEN [rows |-> at.rows, ok |-> TRUE]
              ELSE IF Throws(at.rows, events[at.i]) THEN [rows |-> at.rows, ok |-> FALSE]
              ELSE from[[rows |-> Replay(at.rows, events[at.i]), i |-> at.i + 1]]
<1>1. Len(events) \in Nat
  OBVIOUS
<1>2. rank \in [D -> 0 .. Len(events)]
  BY <1>1
<1>3. out \in [D -> B]
  OBVIOUS
<1>4. ASSUME NEW at \in D, at \notin Ends
      PROVE  /\ [rows |-> Replay(at.rows, events[at.i]), i |-> at.i + 1] \in D
             /\ next[at] = [rows |-> Replay(at.rows, events[at.i]), i |-> at.i + 1]
             /\ rank[next[at]] < rank[at]
  <2>1. at.rows \in Rows /\ at.i \in 1 .. Len(events) /\ events[at.i] \in Event
    BY <1>1, <1>4
  <2>2. Replay(at.rows, events[at.i]) \in Rows
    BY <2>1, ReplayType
  <2>3. at.i + 1 \in 1 .. Len(events) + 1
    BY <1>1, <2>1
  <2>. QED  BY <1>1, <1>4, <2>1, <2>2, <2>3
<1>5. next \in [D -> D]
  BY <1>4
<1>6. Descends(D, Ends, rank, next)
  BY <1>4 DEF Descends
<1>7. PICK g \in [D -> B] : Solves(g, D, Ends, out, next)
  <2>. HIDE DEF D, B, Ends, rank, out, next
  <2>. QED  BY ONLY <1>1, <1>2, <1>3, <1>5, <1>6, TailRecursion
<1>8. g = [at \in D |->
              IF at.i > Len(events) THEN [rows |-> at.rows, ok |-> TRUE]
              ELSE IF Throws(at.rows, events[at.i]) THEN [rows |-> at.rows, ok |-> FALSE]
              ELSE g[[rows |-> Replay(at.rows, events[at.i]), i |-> at.i + 1]]]
  BY <1>4, <1>7 DEF Solves
<1>9. from = [at \in D |->
              IF at.i > Len(events) THEN [rows |-> at.rows, ok |-> TRUE]
              ELSE IF Throws(at.rows, events[at.i]) THEN [rows |-> at.rows, ok |-> FALSE]
              ELSE from[[rows |-> Replay(at.rows, events[at.i]), i |-> at.i + 1]]]
  BY <1>8
<1>10. ReplayAll(r, events) = from[[rows |-> r, i |-> 1]]
  BY DEF ReplayAll
<1>. HIDE DEF from
<1>11. \A acc \in Rows, i \in 1 .. Len(events) + 1 :
         from[[rows |-> acc, i |-> i]] =
           IF i > Len(events) THEN [rows |-> acc, ok |-> TRUE]
           ELSE IF Throws(acc, events[i]) THEN [rows |-> acc, ok |-> FALSE]
           ELSE from[[rows |-> Replay(acc, events[i]), i |-> i + 1]]
  BY <1>9
<1>. QED  BY <1>10, <1>11

(* So does ReplayEach.                                                     *)
LEMMA ReplayEachUnfolds ==
  ASSUME NEW r \in Rows, NEW events \in Seq(Event)
  PROVE  \E g : /\ ReplayEach(r, events) = g[[rows |-> r, gap |-> FALSE, i |-> 1]]
                /\ \A acc \in Rows, gap \in BOOLEAN, i \in 1 .. Len(events) + 1 :
                     g[[rows |-> acc, gap |-> gap, i |-> i]] =
                       IF i > Len(events) THEN [rows |-> acc, gap |-> gap]
                       ELSE g[[rows |-> Replay(acc, events[i]),
                               gap |-> gap \/ (~Unknown(events[i]) /\ Gap(acc, events[i])),
                               i |-> i + 1]]
<1>. DEFINE D == [rows : Rows, gap : BOOLEAN, i : 1 .. Len(events) + 1]
            B == [rows : Rows, gap : BOOLEAN]
            Ends == {at \in D : at.i > Len(events)}
            rank == [at \in D |-> Len(events) + 1 - at.i]
            out == [at \in D |-> [rows |-> at.rows, gap |-> at.gap]]
            Missed(at) == at.gap \/ (~Unknown(events[at.i]) /\ Gap(at.rows, events[at.i]))
            Then(at) == [rows |-> Replay(at.rows, events[at.i]), gap |-> Missed(at), i |-> at.i + 1]
            next == [at \in D |-> IF at \in Ends THEN at ELSE Then(at)]
            from[at \in D] ==
              IF at.i > Len(events) THEN [rows |-> at.rows, gap |-> at.gap]
              ELSE from[[rows |-> Replay(at.rows, events[at.i]),
                         gap |-> at.gap \/ (~Unknown(events[at.i]) /\ Gap(at.rows, events[at.i])),
                         i |-> at.i + 1]]
<1>1. Len(events) \in Nat
  OBVIOUS
<1>2. rank \in [D -> 0 .. Len(events)]
  BY <1>1
<1>3. out \in [D -> B]
  OBVIOUS
<1>4. ASSUME NEW at \in D, at \notin Ends
      PROVE  Then(at) \in D /\ next[at] = Then(at) /\ rank[next[at]] < rank[at]
  <2>1. at.rows \in Rows /\ at.i \in 1 .. Len(events) /\ events[at.i] \in Event
    BY <1>1, <1>4
  <2>2. Replay(at.rows, events[at.i]) \in Rows
    BY <2>1, ReplayType
  <2>3. at.i + 1 \in 1 .. Len(events) + 1
    BY <1>1, <2>1
  <2>4. Missed(at) \in BOOLEAN
    OBVIOUS
  <2>. HIDE DEF Missed
  <2>. QED  BY <1>1, <1>4, <2>1, <2>2, <2>3, <2>4
<1>5. next \in [D -> D]
  BY <1>4
<1>6. Descends(D, Ends, rank, next)
  BY <1>4 DEF Descends
<1>7. PICK g \in [D -> B] : Solves(g, D, Ends, out, next)
  <2>. HIDE DEF D, B, Ends, rank, out, next
  <2>. QED  BY ONLY <1>1, <1>2, <1>3, <1>5, <1>6, TailRecursion
<1>8. g = [at \in D |-> IF at.i > Len(events) THEN [rows |-> at.rows, gap |-> at.gap]
                        ELSE g[Then(at)]]
  <2>. HIDE DEF Then
  <2>. QED  BY <1>4, <1>7 DEF Solves
<1>9. from = [at \in D |-> IF at.i > Len(events) THEN [rows |-> at.rows, gap |-> at.gap]
                           ELSE from[Then(at)]]
  BY <1>8
<1>10. ReplayEach(r, events) = from[[rows |-> r, gap |-> FALSE, i |-> 1]]
  BY DEF ReplayEach
<1>. HIDE DEF from
<1>11. ASSUME NEW acc \in Rows, NEW gap \in BOOLEAN, NEW i \in 1 .. Len(events) + 1
       PROVE from[[rows |-> acc, gap |-> gap, i |-> i]] =
               IF i > Len(events) THEN [rows |-> acc, gap |-> gap]
               ELSE from[[rows |-> Replay(acc, events[i]),
                          gap |-> gap \/ (~Unknown(events[i]) /\ Gap(acc, events[i])),
                          i |-> i + 1]]
  <2>. DEFINE at == [rows |-> acc, gap |-> gap, i |-> i]
  <2>1. at \in D /\ at.rows = acc /\ at.gap = gap /\ at.i = i
    OBVIOUS
  <2>. HIDE DEF at, D
  <2>2. from[at] = IF at.i > Len(events) THEN [rows |-> at.rows, gap |-> at.gap]
                   ELSE from[Then(at)]
    BY ONLY <1>9, <2>1
  <2>. QED  BY <2>1, <2>2 DEF at
<1>. QED  BY <1>10, <1>11

(* SetToSeq lists all of a finite set.                                     *)
LEMMA SetToSeqLists ==
  ASSUME NEW S, IsFiniteSet(S)
  PROVE  /\ SetToSeq(S) \in Seq(S)
         /\ \A x \in S : \E i \in 1 .. Len(SetToSeq(S)) : SetToSeq(S)[i] = x
<1>1. Cardinality(S) \in Nat /\ \E f : f \in Bijection(1 .. Cardinality(S), S)
  BY FS_CardinalityType DEF ExistsBijection
<1>2. \E f \in [1 .. Cardinality(S) -> S] : IsInjective(f)
  BY <1>1 DEF Bijection, Injection
<1>3. SetToSeq(S) \in [1 .. Cardinality(S) -> S] /\ IsInjective(SetToSeq(S))
  BY <1>2 DEF SetToSeq
<1>4. SetToSeq(S) \in Injection(1 .. Cardinality(S), S)
  BY <1>3 DEF Injection
<1>5. IsFiniteSet(1 .. Cardinality(S)) /\ Cardinality(1 .. Cardinality(S)) = Cardinality(S)
  BY <1>1, FS_Interval
<1>6. SetToSeq(S) \in Surjection(1 .. Cardinality(S), S)
  BY <1>4, <1>5, FS_Injection
<1>7. SetToSeq(S) \in Seq(S) /\ Len(SetToSeq(S)) = Cardinality(S)
  BY <1>1, <1>3
<1>. QED  BY <1>6, <1>7 DEF Surjection

-----------------------------------------------------------------------------
(* Histories.                                                              *)

(* The log of a session holds its events, numbered from 0.                 *)
LogOK ==
  /\ log \in Rows
  /\ \A s \in Sessions :
       /\ Len(log[s]) <= MaxEvents
       /\ \A n \in 1 .. Len(log[s]) : log[s][n].session = s /\ log[s][n].seq = n - 1

(* The events the remote has written.                                      *)
LogEvents == {e \in Event : e.seq < Len(log[e.session]) /\ e = log[e.session][e.seq + 1]}

(* What the log holds is among them.                                       *)
LEMMA LogEventsAre ==
  ASSUME LogOK, NEW s \in Sessions, NEW n \in 1 .. Len(log[s])
  PROVE  log[s][n] \in LogEvents
<1>1. log[s] \in Seq(Event)
  BY DEF LogOK, Rows
<1>2. log[s][n] \in Event /\ log[s][n].session = s /\ log[s][n].seq = n - 1
  BY <1>1 DEF LogOK
<1>. QED  BY <1>1, <1>2 DEF LogEvents

(* The sequence h holds e.                                                 *)
Holds(h, e) == \E j \in 1 .. Len(h) : h[j] = e

LEMMA HoldsConcat ==
  ASSUME NEW S, NEW h \in Seq(S), NEW k \in Seq(S), NEW e, Holds(h, e) \/ Holds(k, e)
  PROVE  Holds(h \o k, e)
<1>1. /\ Len(h \o k) = Len(h) + Len(k)
      /\ \A i \in 1 .. Len(h) : (h \o k)[i] = h[i]
      /\ \A i \in 1 .. Len(k) : (h \o k)[Len(h) + i] = k[i]
      /\ Len(h) \in Nat /\ Len(k) \in Nat
  OBVIOUS
<1>2. CASE Holds(h, e)
  <2>1. PICK j \in 1 .. Len(h) : h[j] = e
    BY <1>2 DEF Holds
  <2>. QED  BY <1>1, <2>1 DEF Holds
<1>3. CASE Holds(k, e)
  <2>1. PICK j \in 1 .. Len(k) : k[j] = e
    BY <1>3 DEF Holds
  <2>2. Len(h) + j \in 1 .. Len(h \o k) /\ (h \o k)[Len(h) + j] = e
    BY <1>1, <2>1
  <2>. QED  BY <2>2 DEF Holds
<1>. QED  BY <1>2, <1>3

(* Due is a finite set of events of the log.                               *)
LEMMA DueIsFinite ==
  ASSUME LogOK, NEW seqs \in [Sessions -> Nat \cup {-1}], NEW n \in 1 .. MaxEvents
  PROVE  /\ IsFiniteSet(Due(seqs, n))
         /\ Due(seqs, n) \subseteq LogEvents
<1>. DEFINE X == {x \in Sessions : n <= Len(log[x]) /\ n - 1 > seqs[x]}
            f == [s \in X |-> log[s][n]]
<1>1. IsFiniteSet(X)
  BY SyncAssumption, FS_Subset
<1>2. f \in Surjection(X, Due(seqs, n))
  BY DEF Due, Surjection
<1>3. IsFiniteSet(Due(seqs, n))
  BY ONLY <1>1, <1>2, FS_Surjection
<1>4. ASSUME NEW s \in X PROVE log[s][n] \in LogEvents
  <2>1. s \in Sessions /\ log[s] \in Seq(Event) /\ n \in 1 .. Len(log[s])
    BY SyncAssumption DEF LogOK, Rows
  <2>. QED  BY <2>1, LogEventsAre
<1>. QED  BY <1>3, <1>4 DEF Due

(* A history has events of the log only, and every one that is not known.  *)
LEMMA HistoryIsComplete ==
  ASSUME LogOK, NEW seqs \in [Sessions -> Nat \cup {-1}]
  PROVE  /\ HistoryAfter(seqs) \in Seq(LogEvents)
         /\ \A e \in LogEvents : e.seq > seqs[e.session] => Holds(HistoryAfter(seqs), e)
<1>. DEFINE B == Seq(LogEvents)
            step == [n \in 1 .. MaxEvents |-> [h \in B |-> h \o SetToSeq(Due(seqs, n))]]
            upTo[n \in 0 .. MaxEvents] ==
              IF n = 0 THEN <<>> ELSE upTo[n - 1] \o SetToSeq(Due(seqs, n))
<1>1. MaxEvents \in Nat /\ <<>> \in B
  BY SyncAssumption
<1>2. ASSUME NEW n \in 1 .. MaxEvents PROVE SetToSeq(Due(seqs, n)) \in B
  <2>1. SetToSeq(Due(seqs, n)) \in Seq(Due(seqs, n))
    BY DueIsFinite, SetToSeqLists
  <2>. QED  BY <2>1, DueIsFinite
<1>3. step \in [1 .. MaxEvents -> [B -> B]]
  <2>1. ASSUME NEW n \in 1 .. MaxEvents, NEW h \in B PROVE h \o SetToSeq(Due(seqs, n)) \in B
    <3>1. SetToSeq(Due(seqs, n)) \in B
      BY <1>2
    <3>. HIDE DEF step, upTo
    <3>. QED  BY <3>1, ConcatProperties
  <2>. HIDE DEF B, upTo
  <2>. QED  BY <2>1
<1>4. PICK g \in [0 .. MaxEvents -> B] : Iterates(g, MaxEvents, <<>>, step)
  <2>. HIDE DEF step, B
  <2>. QED  BY ONLY <1>1, <1>3, Iteration
<1>5. \A i \in 1 .. MaxEvents : g[i] = g[i - 1] \o SetToSeq(Due(seqs, i))
  <2>1. \A i \in 1 .. MaxEvents : g[i - 1] \in B
    BY <1>1
  <2>. HIDE DEF B
  <2>. QED  BY <1>4, <2>1 DEF Iterates
<1>6. g = [n \in 0 .. MaxEvents |-> IF n = 0 THEN <<>> ELSE g[n - 1] \o SetToSeq(Due(seqs, n))]
  <2>. HIDE DEF B, step
  <2>. QED  BY <1>1, <1>4, <1>5 DEF Iterates
<1>7. upTo = [n \in 0 .. MaxEvents |-> IF n = 0 THEN <<>> ELSE upTo[n - 1] \o SetToSeq(Due(seqs, n))]
  BY <1>6
<1>8. HistoryAfter(seqs) = upTo[MaxEvents]
  BY DEF HistoryAfter
<1>. HIDE DEF upTo, step
<1>9. upTo[0] = <<>> /\ \A n \in 1 .. MaxEvents : upTo[n] = upTo[n - 1] \o SetToSeq(Due(seqs, n))
  <2>1. 0 \in 0 .. MaxEvents /\ \A n \in 1 .. MaxEvents : n \in 0 .. MaxEvents /\ n # 0
    BY <1>1
  <2>. HIDE DEF B
  <2>2. upTo[0] = <<>>
    BY <1>7, <2>1
  <2>3. ASSUME NEW n \in 1 .. MaxEvents PROVE upTo[n] = upTo[n - 1] \o SetToSeq(Due(seqs, n))
    BY <1>7, <2>1
  <2>. QED  BY <2>2, <2>3
<1>. DEFINE Good(n) == /\ upTo[n] \in B
                       /\ \A e \in LogEvents : e.seq < n /\ e.seq > seqs[e.session] => Holds(upTo[n], e)
            T == {n \in 0 .. MaxEvents : Good(n)}
<1>10. 0 \in T
  <2>1. \A e \in LogEvents : ~(e.seq < 0)
    BY SyncAssumption DEF LogEvents, Event
  <2>2. upTo[0] \in B
    BY <1>1, <1>9
  <2>3. Good(0)
    BY <2>1, <2>2
  <2>. HIDE DEF Good
  <2>. QED  BY <1>1, <2>3
<1>11. ASSUME NEW n \in 1 .. MaxEvents, n - 1 \in T PROVE n \in T
  <2>. DEFINE h == upTo[n - 1]
              k == SetToSeq(Due(seqs, n))
  <2>1. Good(n - 1)
    BY <1>11
  <2>2. h \in B /\ k \in B /\ upTo[n] = h \o k
    BY <1>2, <1>9, <2>1
  <2>3. upTo[n] \in B
    <3>. HIDE DEF h, k, Good
    <3>. QED  BY <2>2, ConcatProperties
  <2>4. ASSUME NEW e \in LogEvents, e.seq < n, e.seq > seqs[e.session] PROVE Holds(upTo[n], e)
    <3>1. CASE e.seq < n - 1
      <4>1. Holds(h, e)
        BY <2>1, <2>4, <3>1
      <4>. HIDE DEF h, k
      <4>. QED  BY <2>2, <4>1, HoldsConcat
    <3>2. CASE ~(e.seq < n - 1)
      <4>1. e \in Event /\ e.seq < Len(log[e.session]) /\ e = log[e.session][e.seq + 1]
        BY DEF LogEvents
      <4>2. e.session \in Sessions /\ e.seq \in Int /\ log[e.session] \in Seq(Event)
        <5>1. e \in Event
          BY <4>1
        <5>2. e.session \in Sessions /\ e.seq \in 0 .. MaxEvents - 1
          BY ONLY <5>1 DEF Event
        <5>. QED  BY <5>2, SyncAssumption DEF LogOK, Rows
      <4>3. e.seq = n - 1
        BY <2>4, <3>2, <4>2
      <4>4. e \in Due(seqs, n)
        BY <2>4, <4>1, <4>2, <4>3 DEF Due
      <4>5. Holds(k, e)
        BY <4>4, DueIsFinite, SetToSeqLists DEF Holds
      <4>. HIDE DEF h, k
      <4>. QED  BY <2>2, <4>5, HoldsConcat
    <3>. QED  BY <3>1, <3>2
  <2>5. Good(n)
    BY <2>3, <2>4
  <2>. HIDE DEF Good
  <2>. QED  BY <2>5, <1>1
<1>12. MaxEvents \in T
  <2>. HIDE DEF T
  <2>1. \A i \in 1 .. MaxEvents : i - 1 \in T => i \in T
    BY <1>11
  <2>2. 0 .. MaxEvents \subseteq T
    BY ONLY <1>1, <1>10, <2>1, UpTo
  <2>. QED  BY <1>1, <2>2
<1>13. Good(MaxEvents)
  BY <1>12
<1>14. ASSUME NEW e \in LogEvents PROVE e.seq < MaxEvents
  BY <1>1 DEF LogEvents, Event
<1>. QED  BY <1>8, <1>13, <1>14

-----------------------------------------------------------------------------
(* Rows along the log.                                                     *)

(* The rows r are, for every session, a beginning of its log.              *)
Beginning(r) ==
  /\ r \in Rows
  /\ \A s \in Sessions :
       /\ Len(r[s]) <= Len(log[s])
       /\ \A n \in 1 .. Len(r[s]) : r[s][n] = log[s][n]

(* The rows q hold at least what r hold; the rows r hold the event e.      *)
Longer(r, q) == \A s \in Sessions : Len(r[s]) <= Len(q[s])

Held(r, e) == e.seq < Len(r[e.session])

(* What is known of an event of the log.                                   *)
LEMMA EventFields ==
  ASSUME NEW e \in LogEvents, LogOK
  PROVE  /\ e \in Event
         /\ e.session \in Sessions
         /\ e.seq \in Nat
         /\ log[e.session] \in Seq(Event)
         /\ e.seq < Len(log[e.session])
         /\ e = log[e.session][e.seq + 1]
<1>1. e \in Event /\ e.seq < Len(log[e.session]) /\ e = log[e.session][e.seq + 1]
  BY DEF LogEvents
<1>2. e \in Event
  BY <1>1
<1>3. e.session \in Sessions /\ e.seq \in 0 .. MaxEvents - 1
  BY ONLY <1>2 DEF Event
<1>. QED  BY <1>1, <1>3, SyncAssumption DEF LogOK, Rows

(* The latest sequence number of a beginning is its length less one.       *)
LEMMA LatestIsTheLength ==
  ASSUME LogOK, NEW r, Beginning(r), NEW s \in Sessions
  PROVE  Latest(r, s) = Len(r[s]) - 1
<1>. DEFINE n == Len(r[s])
            S == {-1} \cup {r[s][i].seq : i \in DOMAIN r[s]}
<1>1. r[s] \in Seq(Event) /\ n \in Nat /\ DOMAIN r[s] = 1 .. n
  BY DEF Beginning, Rows
<1>2. \A i \in 1 .. n : r[s][i].seq = i - 1
  <2>1. log[s] \in Seq(Event) /\ Len(r[s]) <= Len(log[s])
    BY DEF LogOK, Rows, Beginning
  <2>2. \A i \in 1 .. n : i \in 1 .. Len(log[s]) /\ r[s][i] = log[s][i]
    BY <1>1, <2>1 DEF Beginning
  <2>. QED  BY <2>2 DEF LogOK
<1>3. \A x \in S : x \in Int /\ x <= n - 1
  BY <1>1, <1>2
<1>4. n - 1 \in S
  <2>1. CASE n = 0
    BY <2>1
  <2>2. CASE n # 0
    <3>1. n \in DOMAIN r[s] /\ r[s][n].seq = n - 1
      BY <1>1, <1>2, <2>2
    <3>. HIDE DEF n
    <3>. QED  BY <3>1
  <2>. QED  BY <2>1, <2>2
<1>5. Latest(r, s) = Max(S)
  BY DEF Latest
<1>. HIDE DEF S, n
<1>6. \A x \in S : (\A y \in S : x >= y) => x = n - 1
  BY <1>1, <1>3, <1>4
<1>7. \A y \in S : n - 1 >= y
  BY <1>1, <1>3
<1>8. Max(S) = n - 1
  BY <1>4, <1>6, <1>7 DEF Max
<1>. QED  BY <1>5, <1>8 DEF n

(* Replaying an event of the log keeps a beginning one, and the event is   *)
(* held afterwards unless its type is not known or events before it are    *)
(* missing.                                                                *)
LEMMA ReplayKeepsBeginning ==
  ASSUME LogOK, NEW r, Beginning(r), NEW e \in LogEvents
  PROVE  /\ Beginning(Replay(r, e))
         /\ Longer(r, Replay(r, e))
         /\ Gap(r, e) <=> e.seq > Len(r[e.session])
         /\ ~Unknown(e) /\ ~Gap(r, e) => Held(Replay(r, e), e)
<1>. DEFINE s == e.session
            n == Len(r[s])
            q == Replay(r, e)
<1>1. /\ e \in Event /\ s \in Sessions /\ e.seq \in Nat
      /\ log[s] \in Seq(Event) /\ e.seq < Len(log[s]) /\ e = log[s][e.seq + 1]
  BY EventFields
<1>2. r \in Rows /\ r[s] \in Seq(Event) /\ n \in Nat
  BY <1>1 DEF Beginning, Rows
<1>3. Latest(r, s) = n - 1
  BY <1>1, LatestIsTheLength
<1>4. Gap(r, e) <=> e.seq > n
  BY <1>1, <1>2, <1>3 DEF Gap
<1>5. CASE ~Unknown(e) /\ e.seq = n
  <2>. DEFINE more == Append(r[s], e)
  <2>1. /\ more \in Seq(Event) /\ Len(more) = n + 1 /\ more[n + 1] = e
        /\ \A i \in 1 .. n : more[i] = r[s][i]
    BY <1>1, <1>2, AppendProperties
  <2>2. IsNext(r, e)
    BY <1>1, <1>2, <1>3, <1>5 DEF IsNext
  <2>3. q = [r EXCEPT ![s] = more]
    BY <1>5, <2>2 DEF Replay
  <2>4. \A i \in 1 .. n + 1 : more[i] = log[s][i]
    BY <1>1, <1>2, <1>5, <2>1 DEF Beginning
  <2>. HIDE DEF more, q
  <2>5. q[s] = more /\ q \in Rows /\ \A t \in Sessions \ {s} : q[t] = r[t]
    BY <1>1, <1>2, <2>1, <2>3 DEF Rows
  <2>6. Beginning(q)
    <3>1. ASSUME NEW t \in Sessions
          PROVE  /\ Len(q[t]) <= Len(log[t])
                 /\ \A i \in 1 .. Len(q[t]) : q[t][i] = log[t][i]
      <4>1. CASE t = s
        BY <1>1, <1>2, <1>5, <2>1, <2>4, <2>5, <4>1
      <4>2. CASE t # s
        BY <2>5, <4>2 DEF Beginning
      <4>. QED  BY <4>1, <4>2
    <3>. QED  BY <2>5, <3>1 DEF Beginning
  <2>7. Longer(r, q)
    <3>1. ASSUME NEW t \in Sessions PROVE Len(r[t]) <= Len(q[t])
      <4>1. r[t] \in Seq(Event)
        BY <1>2 DEF Rows
      <4>. QED  BY <1>2, <2>1, <2>5, <4>1
    <3>. QED  BY <3>1 DEF Longer
  <2>8. Held(q, e)
    BY <1>1, <1>5, <2>1, <2>5 DEF Held
  <2>. QED  BY <1>4, <2>6, <2>7, <2>8 DEF q
<1>6. CASE ~(~Unknown(e) /\ e.seq = n)
  <2>1. q = r
    BY <1>1, <1>2, <1>3, <1>6 DEF Replay, IsNext
  <2>2. Longer(r, r)
    BY <1>2 DEF Longer, Rows
  <2>3. ~Unknown(e) /\ ~Gap(r, e) => Held(r, e)
    BY <1>1, <1>2, <1>4, <1>6 DEF Held
  <2>. QED  BY <1>4, <2>1, <2>2, <2>3
<1>. QED  BY <1>5, <1>6

LEMMA LongerIsTransitive ==
  ASSUME NEW p \in Rows, NEW q \in Rows, NEW r \in Rows, Longer(p, q), Longer(q, r)
  PROVE  Longer(p, r)
<1>. SUFFICES ASSUME NEW s \in Sessions PROVE Len(p[s]) <= Len(r[s])
  BY DEF Longer
<1>1. p[s] \in Seq(Event) /\ q[s] \in Seq(Event) /\ r[s] \in Seq(Event)
  BY DEF Rows
<1>. QED  BY <1>1 DEF Longer

LEMMA HeldIsKept ==
  ASSUME LogOK, NEW q \in Rows, NEW r \in Rows, Longer(q, r), NEW e \in LogEvents, Held(q, e)
  PROVE  Held(r, e)
<1>1. e.session \in Sessions /\ e.seq \in Nat
  BY EventFields
<1>2. q[e.session] \in Seq(Event) /\ r[e.session] \in Seq(Event)
  BY <1>1 DEF Rows
<1>. QED  BY <1>1, <1>2 DEF Held, Longer

(* Replaying many: rows stay a beginning and grow, and when nothing threw  *)
(* all of the events are held.                                             *)
LEMMA ReplayAllKeepsBeginning ==
  ASSUME LogOK, NEW r, Beginning(r), NEW events \in Seq(LogEvents)
  PROVE  LET out == ReplayAll(r, events) IN
         /\ Beginning(out.rows)
         /\ Longer(r, out.rows)
         /\ out.ok \in BOOLEAN
         /\ out.ok => \A j \in 1 .. Len(events) : Held(out.rows, events[j])
<1>. DEFINE len == Len(events)
<1>1. events \in Seq(Event) /\ len \in Nat /\ r \in Rows /\ \A j \in 1 .. len : events[j] \in LogEvents
  BY DEF LogEvents, Beginning
<1>2. PICK g :
        /\ ReplayAll(r, events) = g[[rows |-> r, i |-> 1]]
        /\ \A acc \in Rows, i \in 1 .. len + 1 :
             g[[rows |-> acc, i |-> i]] =
               IF i > len THEN [rows |-> acc, ok |-> TRUE]
               ELSE IF Throws(acc, events[i]) THEN [rows |-> acc, ok |-> FALSE]
               ELSE g[[rows |-> Replay(acc, events[i]), i |-> i + 1]]
  BY <1>1, ReplayAllUnfolds
<1>. DEFINE Out(acc, i) == g[[rows |-> acc, i |-> i]]
            Good(acc, i) == /\ Beginning(Out(acc, i).rows)
                            /\ Longer(acc, Out(acc, i).rows)
                            /\ Out(acc, i).ok \in BOOLEAN
                            /\ Out(acc, i).ok => \A j \in i .. len : Held(Out(acc, i).rows, events[j])
            T == {k \in 0 .. len : \A acc \in Rows : Beginning(acc) => Good(acc, len + 1 - k)}
<1>3. 0 \in T
  <2>1. ASSUME NEW acc \in Rows, Beginning(acc) PROVE Good(acc, len + 1)
    <3>1. Out(acc, len + 1) = [rows |-> acc, ok |-> TRUE]
      <4>1. len + 1 \in 1 .. len + 1 /\ len + 1 > len
        BY <1>1
      <4>. QED  BY <1>2, <4>1
    <3>2. Longer(acc, acc)
      BY DEF Longer, Rows
    <3>3. \A j \in len + 1 .. len : FALSE
      BY <1>1
    <3>4. Out(acc, len + 1).rows = acc /\ Out(acc, len + 1).ok = TRUE
      BY <3>1
    <3>. HIDE DEF Out
    <3>. QED  BY <2>1, <3>2, <3>3, <3>4
  <2>. HIDE DEF Good
  <2>. QED  BY <1>1, <2>1
<1>4. ASSUME NEW k \in 1 .. len, k - 1 \in T PROVE k \in T
  <2>. DEFINE i == len + 1 - k
  <2>1. i \in 1 .. len /\ i + 1 = len + 1 - (k - 1) /\ i + 1 \in 1 .. len + 1 /\ ~(i > len)
        /\ i \in 1 .. len + 1 /\ k \in 0 .. len
    BY <1>1
  <2>. HIDE DEF i
  <2>2. ASSUME NEW acc \in Rows, Beginning(acc) PROVE Good(acc, i)
    <3>. DEFINE e == events[i]
                q == Replay(acc, e)
    <3>1. e \in LogEvents
      BY <1>1, <2>1
    <3>2. Beginning(q) /\ Longer(acc, q) /\ (~Throws(acc, e) => Held(q, e))
      BY <2>2, <3>1, ReplayKeepsBeginning DEF Throws
    <3>3. CASE Throws(acc, e)
      <4>1. Out(acc, i) = [rows |-> acc, ok |-> FALSE]
        BY <1>2, <2>1, <3>3
      <4>2. Longer(acc, acc)
        BY DEF Longer, Rows
      <4>. HIDE DEF Out
      <4>. QED  BY <2>2, <4>1, <4>2
    <3>4. CASE ~Throws(acc, e)
      <4>1. Out(acc, i) = Out(q, i + 1)
        BY <1>2, <2>1, <3>4
      <4>2. q \in Rows
        BY <3>2 DEF Beginning
      <4>3. Good(q, i + 1)
        <5>. HIDE DEF Good, q
        <5>. QED  BY <1>4, <2>1, <3>2, <4>2
      <4>. DEFINE o == Out(q, i + 1)
      <4>. HIDE DEF Out, q, e
      <4>4. o.rows \in Rows
        BY <4>3 DEF Beginning
      <4>5. Longer(acc, o.rows)
        <5>1. Longer(q, o.rows)
          BY <4>3
        <5>. HIDE DEF o
        <5>. QED  BY <3>2, <4>2, <4>4, <5>1, LongerIsTransitive
      <4>6. ASSUME o.ok, NEW j \in i .. len PROVE Held(o.rows, events[j])
        <5>1. CASE j = i
          <6>1. Held(q, e) /\ Longer(q, o.rows)
            BY <3>2, <3>4, <4>3
          <6>2. Held(o.rows, e)
            <7>. HIDE DEF o
            <7>. QED  BY <3>1, <4>2, <4>4, <6>1, HeldIsKept
          <6>. QED  BY <5>1, <6>2 DEF e
        <5>2. CASE j # i
          <6>1. j \in i + 1 .. len
            BY <1>1, <2>1, <5>2
          <6>. QED  BY <4>3, <4>6, <6>1
        <5>. QED  BY <5>1, <5>2
      <4>7. Beginning(o.rows) /\ o.ok \in BOOLEAN
        BY <4>3
      <4>8. Out(acc, i) = o
        BY <4>1
      <4>. HIDE DEF o
      <4>. QED  BY <4>5, <4>6, <4>7, <4>8
    <3>. QED  BY <3>3, <3>4
  <2>. HIDE DEF Good
  <2>. QED  BY <2>1, <2>2 DEF i
<1>5. len \in T
  <2>. HIDE DEF T
  <2>1. \A i \in 1 .. len : i - 1 \in T => i \in T
    BY <1>4
  <2>2. 0 .. len \subseteq T
    BY ONLY <1>1, <1>3, <2>1, UpTo
  <2>. QED  BY <1>1, <2>2
<1>6. Good(r, 1)
  <2>1. len + 1 - len = 1
    BY <1>1
  <2>. HIDE DEF Good
  <2>. QED  BY <1>1, <1>5, <2>1
<1>. QED  BY <1>2, <1>6

(* The event f is the one before e in their session; the rows r hold the   *)
(* one before e, if there is one; and each of the events from the i-th on  *)
(* finds the one before it in the rows, or between the i-th and itself.    *)
Follows(e, f) == f.session = e.session /\ f.seq = e.seq - 1

Near(r, e) == e.seq <= Len(r[e.session])

NoHole(r, events, i) ==
  \A j \in i .. Len(events) :
    Near(r, events[j]) \/ \E k \in i .. j - 1 : Follows(events[j], events[k])

LEMMA NearIsKept ==
  ASSUME LogOK, NEW q \in Rows, NEW r \in Rows, Longer(q, r), NEW e \in LogEvents, Near(q, e)
  PROVE  Near(r, e)
<1>1. e.session \in Sessions /\ e.seq \in Nat
  BY EventFields
<1>2. q[e.session] \in Seq(Event) /\ r[e.session] \in Seq(Event)
  BY <1>1 DEF Rows
<1>. QED  BY <1>1, <1>2 DEF Near, Longer

LEMMA NearIsHeld ==
  ASSUME LogOK, NEW r \in Rows, NEW e \in LogEvents, NEW f \in LogEvents, Follows(e, f), Held(r, f)
  PROVE  Near(r, e)
<1>1. e.session \in Sessions /\ e.seq \in Nat /\ f.seq \in Nat
  BY EventFields
<1>2. r[e.session] \in Seq(Event)
  BY <1>1 DEF Rows
<1>. QED  BY <1>1, <1>2 DEF Near, Held, Follows

(* Replaying each: rows stay a beginning and grow, and without a hole no   *)
(* event of a known type meets a gap.                                      *)
LEMMA ReplayEachKeepsBeginning ==
  ASSUME LogOK, NEW r, Beginning(r), NEW events \in Seq(LogEvents)
  PROVE  LET out == ReplayEach(r, events) IN
         /\ Beginning(out.rows)
         /\ Longer(r, out.rows)
         /\ out.gap \in BOOLEAN
         /\ (\A j \in 1 .. Len(events) : ~Unknown(events[j])) /\ NoHole(r, events, 1) => ~out.gap
<1>. DEFINE len == Len(events)
            Step(acc, gap, i) ==
              [rows |-> Replay(acc, events[i]),
               gap |-> gap \/ (~Unknown(events[i]) /\ Gap(acc, events[i])),
               i |-> i + 1]
<1>1. events \in Seq(Event) /\ len \in Nat /\ r \in Rows /\ \A j \in 1 .. len : events[j] \in LogEvents
  BY DEF LogEvents, Beginning
<1>2. PICK g :
        /\ ReplayEach(r, events) = g[[rows |-> r, gap |-> FALSE, i |-> 1]]
        /\ \A acc \in Rows, gap \in BOOLEAN, i \in 1 .. len + 1 :
             g[[rows |-> acc, gap |-> gap, i |-> i]] =
               IF i > len THEN [rows |-> acc, gap |-> gap]
               ELSE g[Step(acc, gap, i)]
  BY <1>1, ReplayEachUnfolds
<1>. DEFINE AllTold == \A j \in 1 .. len : ~Unknown(events[j])
            Out(acc, gap, i) == g[[rows |-> acc, gap |-> gap, i |-> i]]
            Good(acc, gap, i) ==
              /\ Beginning(Out(acc, gap, i).rows)
              /\ Longer(acc, Out(acc, gap, i).rows)
              /\ Out(acc, gap, i).gap \in BOOLEAN
              /\ AllTold /\ ~gap /\ NoHole(acc, events, i) => ~Out(acc, gap, i).gap
            T == {k \in 0 .. len : \A acc \in Rows, gap \in BOOLEAN :
                                     Beginning(acc) => Good(acc, gap, len + 1 - k)}
<1>3. 0 \in T
  <2>1. ASSUME NEW acc \in Rows, NEW gap \in BOOLEAN, Beginning(acc) PROVE Good(acc, gap, len + 1)
    <3>1. Out(acc, gap, len + 1) = [rows |-> acc, gap |-> gap]
      <4>1. len + 1 \in 1 .. len + 1 /\ len + 1 > len
        BY <1>1
      <4>. QED  BY <1>2, <4>1
    <3>2. Longer(acc, acc)
      BY DEF Longer, Rows
    <3>3. Out(acc, gap, len + 1).rows = acc /\ Out(acc, gap, len + 1).gap = gap
      BY <3>1
    <3>. HIDE DEF Out
    <3>. QED  BY <2>1, <3>2, <3>3
  <2>. HIDE DEF Good
  <2>. QED  BY <1>1, <2>1
<1>4. ASSUME NEW k \in 1 .. len, k - 1 \in T PROVE k \in T
  <2>. DEFINE i == len + 1 - k
  <2>1. i \in 1 .. len /\ i + 1 = len + 1 - (k - 1) /\ i + 1 \in 1 .. len + 1 /\ ~(i > len)
        /\ i \in 1 .. len + 1 /\ k \in 0 .. len
    BY <1>1
  <2>. HIDE DEF i
  <2>2. ASSUME NEW acc \in Rows, NEW gap \in BOOLEAN, Beginning(acc) PROVE Good(acc, gap, i)
    <3>. DEFINE e == events[i]
                q == Replay(acc, e)
                missed == gap \/ (~Unknown(e) /\ Gap(acc, e))
    <3>1. e \in LogEvents /\ e.seq \in Nat /\ acc[e.session] \in Seq(Event)
      BY <1>1, <2>1, EventFields DEF Rows
    <3>2. /\ Beginning(q) /\ Longer(acc, q)
          /\ Gap(acc, e) <=> e.seq > Len(acc[e.session])
          /\ ~Unknown(e) /\ ~Gap(acc, e) => Held(q, e)
      BY <2>2, <3>1, ReplayKeepsBeginning
    <3>3. q \in Rows /\ missed \in BOOLEAN
      BY <3>2 DEF Beginning
    <3>4. Out(acc, gap, i) = Out(q, missed, i + 1)
      BY <1>2, <2>1
    <3>5. Good(q, missed, i + 1)
      <4>. HIDE DEF Good, q, missed
      <4>. QED  BY <1>4, <2>1, <3>2, <3>3
    <3>. DEFINE o == Out(q, missed, i + 1)
    <3>. HIDE DEF Out
    <3>6. Beginning(o.rows) /\ o.rows \in Rows /\ o.gap \in BOOLEAN /\ Longer(q, o.rows)
      BY <3>5 DEF Beginning
    <3>7. Longer(acc, o.rows)
      <4>. HIDE DEF o, q
      <4>. QED  BY <3>2, <3>3, <3>6, LongerIsTransitive
    <3>8. ASSUME AllTold, ~gap, NoHole(acc, events, i) PROVE ~o.gap
      <4>1. Near(acc, e)
        <5>1. i \in i .. len /\ i .. i - 1 = {}
          BY <1>1, <2>1
        <5>. QED  BY <3>8, <5>1 DEF NoHole
      <4>2. ~Gap(acc, e) /\ ~Unknown(e)
        BY <2>1, <3>1, <3>2, <3>8, <4>1 DEF Near
      <4>3. NoHole(q, events, i + 1)
        <5>1. SUFFICES ASSUME NEW j \in i + 1 .. len
                       PROVE  \/ Near(q, events[j])
                              \/ \E m \in i + 1 .. j - 1 : Follows(events[j], events[m])
          BY DEF NoHole
        <5>2. j \in 1 .. len /\ events[j] \in LogEvents /\ j \in i .. len
          BY <1>1, <2>1, <5>1
        <5>3. CASE Near(acc, events[j])
          <6>. HIDE DEF q
          <6>. QED  BY <3>2, <3>3, <5>2, <5>3, NearIsKept
        <5>4. CASE ~Near(acc, events[j])
          <6>1. PICK m \in i .. j - 1 : Follows(events[j], events[m])
            BY <3>8, <5>2, <5>4 DEF NoHole
          <6>2. CASE m = i
            <7>1. Held(q, e) /\ Follows(events[j], e)
              BY <3>2, <4>2, <6>1, <6>2
            <7>. HIDE DEF q, e
            <7>. QED  BY <3>1, <3>3, <5>2, <7>1, NearIsHeld
          <6>3. CASE m # i
            <7>1. m \in i + 1 .. j - 1
              BY <2>1, <5>2, <6>3
            <7>. QED  BY <6>1, <7>1
          <6>. QED  BY <6>2, <6>3
        <5>. QED  BY <5>3, <5>4
      <4>4. ~missed
        BY <3>8, <4>2
      <4>. QED  BY <3>5, <3>8, <4>3, <4>4
    <3>9. Out(acc, gap, i) = o
      BY <3>4
    <3>. HIDE DEF o
    <3>. QED  BY <3>6, <3>7, <3>8, <3>9
  <2>. HIDE DEF Good
  <2>. QED  BY <2>1, <2>2 DEF i
<1>5. len \in T
  <2>. HIDE DEF T
  <2>1. \A i \in 1 .. len : i - 1 \in T => i \in T
    BY <1>4
  <2>2. 0 .. len \subseteq T
    BY ONLY <1>1, <1>3, <2>1, UpTo
  <2>. QED  BY <1>1, <2>2
<1>6. Good(r, FALSE, 1)
  <2>1. len + 1 - len = 1
    BY <1>1
  <2>. HIDE DEF Good
  <2>. QED  BY <1>1, <1>5, <2>1
<1>. QED  BY <1>2, <1>6

-----------------------------------------------------------------------------
(* The invariant.                                                          *)

(* Every event of the log is in the rows, in the answer that is yet to be  *)
(* applied, or in the stream.                                              *)
Covered ==
  \A e \in LogEvents : Held(rows, e) \/ Holds(answer, e) \/ Holds(stream, e)

(* And every event of the stream finds the one before it in one of the     *)
(* three, in the stream in front of it.                                    *)
Joined ==
  \A j \in 1 .. Len(stream) :
    \/ Near(rows, stream[j])
    \/ \E f \in LogEvents : Follows(stream[j], f) /\ Holds(answer, f)
    \/ \E k \in 1 .. j - 1 : Follows(stream[j], stream[k])

(* StreamJoinsHistory is not inductive: between the answer of the history  *)
(* and the end of the stream every event of the log must be on its way or  *)
(* here, which is so because the stream was connected before the history   *)
(* was asked for, with sequence numbers the rows do not fall behind.       *)
SyncInv ==
  /\ LogOK
  /\ Beginning(rows)
  /\ tick \in Phase
  /\ stream \in Seq(LogEvents)
  /\ answer \in Seq(LogEvents)
  /\ known \in [Sessions -> Nat \cup {-1}]
  /\ tick = "asking" => \A s \in Sessions : known[s] < Len(rows[s])
  /\ tick \in {"answered", "streaming"} => Covered /\ Joined
  /\ tick = "streaming" => answer = <<>>
  /\ gapped \in BOOLEAN
  /\ StreamJoinsHistory

LEMMA SyncInvInit == Init => SyncInv
<1>. SUFFICES ASSUME Init PROVE SyncInv
  OBVIOUS
<1>1. \A s \in Sessions : log[s] = <<>> /\ rows[s] = <<>>
  BY DEF Init
<1>2. <<>> \in Seq(Event) /\ Len(<<>>) = 0 /\ <<>> \in Seq(LogEvents)
  OBVIOUS
<1>3. log \in Rows /\ rows \in Rows
  BY <1>2 DEF Init, Rows
<1>4. LogOK
  BY <1>1, <1>2, <1>3, SyncAssumption DEF LogOK
<1>5. Beginning(rows)
  BY <1>1, <1>2, <1>3 DEF Beginning
<1>6. known \in [Sessions -> Nat \cup {-1}]
  BY DEF Init, NothingKnown
<1>. QED
  BY <1>2, <1>4, <1>5, <1>6 DEF Init, SyncInv, Phase, StreamJoinsHistory

(* What a step other than a write does to the rows.                        *)
Grow == Beginning(rows') /\ Longer(rows, rows')

Emptied == rows' = [s \in Sessions |-> <<>>]

LEMMA SameRowsGrow ==
  ASSUME SyncInv, UNCHANGED rows PROVE Grow
<1>1. Longer(rows, rows)
  BY DEF SyncInv, Beginning, Longer, Rows
<1>. QED  BY <1>1 DEF SyncInv, Grow

LEMMA KnownSeqsAre ==
  ASSUME SyncInv
  PROVE  /\ KnownSeqs \in [Sessions -> Nat \cup {-1}]
         /\ \A s \in Sessions : KnownSeqs[s] < Len(rows[s])
<1>1. ASSUME NEW s \in Sessions
      PROVE  KnownSeqs[s] \in Nat \cup {-1} /\ KnownSeqs[s] < Len(rows[s])
  <2>1. rows[s] \in Seq(Event) /\ Latest(rows, s) = Len(rows[s]) - 1
    BY LatestIsTheLength DEF SyncInv, Beginning, Rows
  <2>. QED  BY <2>1 DEF KnownSeqs
<1>. QED  BY <1>1 DEF KnownSeqs

(* The replays that others ask for let the rows grow.                      *)
LEMMA ReplaysGrow ==
  ASSUME SyncInv,
         \/ \E s \in Sessions, first, last \in 1 .. MaxEvents : SyncReplay(s, first, last)
         \/ StartWorkspace
  PROVE  Grow
<1>0. LogOK /\ Beginning(rows)
  BY DEF SyncInv
<1>1. ASSUME NEW s \in Sessions, NEW first \in 1 .. MaxEvents, NEW last \in 1 .. MaxEvents,
             SyncReplay(s, first, last)
      PROVE  Grow
  <2>. DEFINE events == SubSeq(log[s], first, last)
  <2>1. /\ rows' = ReplayAll(rows, events).rows
        /\ first \in Nat /\ last \in Nat /\ first >= 1 /\ first <= last /\ last <= Len(log[s])
    BY <1>1, SyncAssumption DEF SyncReplay
  <2>2. log[s] \in Seq(LogEvents)
    <3>1. log[s] \in Seq(Event)
      BY <1>0 DEF LogOK, Rows
    <3>2. \A i \in 1 .. Len(log[s]) : log[s][i] \in LogEvents
      BY <1>0, LogEventsAre
    <3>. QED  BY <3>1, <3>2
  <2>3. events \in Seq(LogEvents)
    BY <2>1, <2>2
  <2>. HIDE DEF events
  <2>. QED  BY <1>0, <2>1, <2>3, ReplayAllKeepsBeginning DEF Grow
<1>2. CASE StartWorkspace
  <2>1. rows' = ReplayAll(rows, HistoryAfter(KnownSeqs)).rows
    BY <1>2 DEF StartWorkspace
  <2>2. HistoryAfter(KnownSeqs) \in Seq(LogEvents)
    BY <1>0, KnownSeqsAre, HistoryIsComplete
  <2>. QED  BY <1>0, <2>1, <2>2, ReplayAllKeepsBeginning DEF Grow
<1>. QED  BY <1>1, <1>2

(* As long as the log stays as it is, the rows grow along it or are lost.  *)
LEMMA RowsGrow ==
  ASSUME SyncInv, [Next]_vars, UNCHANGED log
  PROVE  Grow \/ Emptied
<1>0. LogOK /\ Beginning(rows) /\ stream \in Seq(LogEvents) /\ answer \in Seq(LogEvents)
  BY DEF SyncInv
<1>1. ASSUME NEW k \in 0 .. Len(stream), EndStream(k) PROVE Grow
  <2>1. SubSeq(stream, 1, k) \in Seq(LogEvents)
    BY <1>0
  <2>2. rows' = ReplayEach(rows, SubSeq(stream, 1, k)).rows
    BY <1>1 DEF EndStream
  <2>. QED  BY <1>0, <2>1, <2>2, ReplayEachKeepsBeginning DEF Grow
<1>2. CASE UNCHANGED rows
  BY <1>2, SameRowsGrow
<1>3. CASE ApplyHistory
  <2>1. rows' = ReplayAll(rows, answer).rows
    BY <1>3 DEF ApplyHistory
  <2>. QED  BY <1>0, <2>1, ReplayAllKeepsBeginning DEF Grow
<1>4. ASSUME NEW s \in Sessions, NEW first \in 1 .. MaxEvents, NEW last \in 1 .. MaxEvents,
             SyncReplay(s, first, last)
      PROVE  Grow
  BY <1>4, ReplaysGrow
<1>5. CASE StartWorkspace
  BY <1>5, ReplaysGrow
<1>6. CASE Restart
  BY <1>6 DEF Restart, Emptied
<1>7. CASE StreamEnds
  BY <1>0, <1>1, <1>7 DEF StreamEnds
<1>8. CASE StreamBreaks
  <2>1. PICK k \in 0 .. Len(stream) - 1 : EndStream(k)
    BY <1>8 DEF StreamBreaks
  <2>2. k \in 0 .. Len(stream)
    BY <1>0
  <2>. QED  BY <1>1, <2>1, <2>2
<1>. QED
  BY <1>2, <1>3, <1>4, <1>5, <1>6, <1>7, <1>8
  DEF Next, Attempt, Requests, vars, Write, Start, Stop, Fire, Accept, Ask, AnswerHistory, RequestFails

(* Rows that grow keep the log covered and the stream joined.              *)
LEMMA CoverageIsKept ==
  ASSUME SyncInv, UNCHANGED <<log, stream, answer>>, Grow
  PROVE  /\ Covered => Covered'
         /\ Joined => Joined'
<1>. USE DEF SyncInv, Grow
<1>1. rows \in Rows /\ rows' \in Rows /\ LogEvents' = LogEvents
  BY DEF Beginning, LogEvents
<1>2. ASSUME Covered PROVE Covered'
  <2>1. SUFFICES ASSUME NEW e \in LogEvents
                 PROVE  Held(rows', e) \/ Holds(answer, e) \/ Holds(stream, e)
    BY <1>1 DEF Covered, Held
  <2>2. Held(rows, e) => Held(rows', e)
    BY <1>1, HeldIsKept
  <2>. QED  BY <1>2, <2>2 DEF Covered
<1>3. ASSUME Joined PROVE Joined'
  <2>1. SUFFICES ASSUME NEW j \in 1 .. Len(stream)
                 PROVE  \/ Near(rows', stream[j])
                        \/ \E f \in LogEvents : Follows(stream[j], f) /\ Holds(answer, f)
                        \/ \E k \in 1 .. j - 1 : Follows(stream[j], stream[k])
    BY <1>1 DEF Joined, Near
  <2>2. stream[j] \in LogEvents
    OBVIOUS
  <2>3. Near(rows, stream[j]) => Near(rows', stream[j])
    BY <1>1, <2>2, NearIsKept
  <2>. QED  BY <1>3, <2>3 DEF Joined
<1>. QED  BY <1>2, <1>3

(* No gap is noticed, and none of the reasons for one goes away.           *)
LEMMA GapsStayExplained ==
  ASSUME SyncInv, UNCHANGED <<log, gapped>>
  PROVE  gapped' \in BOOLEAN /\ StreamJoinsHistory'
BY DEF SyncInv, StreamJoinsHistory, AllKnown

(* What SyncInv says of the log and the rows, while the log stays.         *)
LEMMA LogStays ==
  ASSUME SyncInv, UNCHANGED log, Grow \/ Emptied
  PROVE  LogOK' /\ Beginning(rows)' /\ LogEvents' = LogEvents
<1>1. LogOK' /\ LogEvents' = LogEvents
  BY DEF SyncInv, LogOK, LogEvents
<1>2. CASE Grow
  <2>1. Beginning(rows') /\ log' = log
    BY <1>2 DEF Grow
  <2>2. rows' \in Rows /\ \A s \in Sessions : /\ Len(rows'[s]) <= Len(log'[s])
                                              /\ \A n \in 1 .. Len(rows'[s]) : rows'[s][n] = log'[s][n]
    BY <2>1 DEF Beginning
  <2>. QED  BY <1>1, <2>2 DEF Beginning
<1>3. CASE Emptied
  <2>1. rows' \in Rows
    BY <1>3 DEF Emptied, Rows
  <2>2. \A s \in Sessions : rows'[s] = <<>> /\ log[s] \in Seq(Event)
    BY <1>3 DEF Emptied, SyncInv, LogOK, Rows
  <2>. QED  BY <1>1, <2>1, <2>2 DEF Beginning
<1>. QED  BY <1>1, <1>2, <1>3

(* A step inside a tick, or beside it, that leaves the loop's data alone.  *)
LEMMA BesideTheTick ==
  ASSUME SyncInv, UNCHANGED <<log, stream, known, answer, gapped>>, Grow,
         tick' = tick \/ tick' \in {"connecting", "accepted"}
  PROVE  SyncInv'
<1>1. LogOK' /\ Beginning(rows)' /\ LogEvents' = LogEvents
  BY LogStays
<1>2. tick' = "asking" => \A s \in Sessions : known'[s] < Len(rows'[s])
  <2>1. ASSUME tick = "asking", NEW s \in Sessions PROVE known[s] < Len(rows'[s])
    <3>1. rows[s] \in Seq(Event) /\ rows'[s] \in Seq(Event)
      BY DEF SyncInv, Grow, Beginning, Rows
    <3>. QED  BY <2>1, <3>1 DEF SyncInv, Grow, Longer
  <2>. QED  BY <2>1
<1>3. tick' \in {"answered", "streaming"} => Covered' /\ Joined'
  BY CoverageIsKept DEF SyncInv
<1>. QED  BY <1>1, <1>2, <1>3, GapsStayExplained DEF SyncInv, Phase

(* However a tick ends, nothing of it is left.                             *)
LEMMA TickIsOver ==
  ASSUME SyncInv, UNCHANGED log, Grow \/ Emptied,
         tick' = "none", stream' = <<>>, known' = NothingKnown, answer' = <<>>,
         gapped' \in BOOLEAN, StreamJoinsHistory'
  PROVE  SyncInv'
<1>1. LogOK' /\ Beginning(rows)' /\ LogEvents' = LogEvents
  BY LogStays
<1>2. NothingKnown \in [Sessions -> Nat \cup {-1}]
  BY DEF NothingKnown
<1>. QED  BY <1>1, <1>2 DEF SyncInv, Phase

(* The history is asked for with numbers the rows have.                    *)
LEMMA AskKeepsInv == SyncInv /\ Ask => SyncInv'
<1>. SUFFICES ASSUME SyncInv, Ask PROVE SyncInv'
  OBVIOUS
<1>. USE DEF Ask
<1>1. Grow
  BY SameRowsGrow
<1>2. LogOK' /\ Beginning(rows)' /\ LogEvents' = LogEvents
  BY <1>1, LogStays
<1>. QED  BY <1>2, KnownSeqsAre, GapsStayExplained DEF SyncInv, Phase

(* The answer has all the rows do not: what was written since the          *)
(* connection is in the stream, so the stream is joined.                   *)
LEMMA AnswerKeepsInv == SyncInv /\ AnswerHistory => SyncInv'
<1>. SUFFICES ASSUME SyncInv, AnswerHistory PROVE SyncInv'
  OBVIOUS
<1>1. Grow /\ UNCHANGED <<log, rows, gapped>>
  BY SameRowsGrow DEF AnswerHistory
<1>2. LogOK' /\ Beginning(rows)' /\ LogEvents' = LogEvents
  BY <1>1, LogStays
<1>3. gapped' \in BOOLEAN /\ StreamJoinsHistory'
  BY <1>1, GapsStayExplained
<1>4. CASE EndTick
  BY <1>1, <1>3, <1>4, TickIsOver DEF EndTick
<1>5. CASE ~Refused /\ tick' = "answered" /\ answer' = HistoryAfter(known) /\ UNCHANGED <<task, stream, known>>
  <2>0. LogOK /\ known \in [Sessions -> Nat \cup {-1}] /\ stream \in Seq(LogEvents)
    BY DEF SyncInv
  <2>1. answer' \in Seq(LogEvents) /\ \A e \in LogEvents : e.seq > known[e.session] => Holds(answer', e)
    BY <1>5, <2>0, HistoryIsComplete
  <2>2. ASSUME NEW e \in LogEvents PROVE Held(rows, e) \/ Holds(answer', e)
    <3>1. e.session \in Sessions /\ e.seq \in Nat
      BY <2>0, EventFields
    <3>2. rows[e.session] \in Seq(Event) /\ known[e.session] < Len(rows[e.session])
          /\ known[e.session] \in Int
      BY <3>1, <2>0 DEF SyncInv, AnswerHistory, Beginning, Rows
    <3>. QED  BY <2>1, <3>1, <3>2 DEF Held
  <2>3. Covered'
    BY <1>1, <1>2, <2>2 DEF Covered, Held
  <2>4. ASSUME NEW j \in 1 .. Len(stream)
        PROVE  Near(rows, stream[j]) \/ \E f \in LogEvents : Follows(stream[j], f) /\ Holds(answer', f)
    <3>. DEFINE e == stream[j]
                s == e.session
    <3>1. e \in LogEvents
      BY <2>0
    <3>. HIDE DEF e
    <3>2. /\ s \in Sessions /\ e.seq \in Nat /\ log[s] \in Seq(Event) /\ e.seq < Len(log[s])
          /\ rows[s] \in Seq(Event)
      BY <2>0, <3>1, EventFields DEF SyncInv, Beginning, Rows
    <3>3. CASE e.seq = 0
      BY <3>2, <3>3 DEF Near, e
    <3>4. CASE e.seq # 0
      <4>. DEFINE f == log[s][e.seq]
      <4>1. e.seq \in 1 .. Len(log[s])
        BY <3>2, <3>4
      <4>2. f \in LogEvents /\ f.session = s /\ f.seq = e.seq - 1
        BY <2>0, <3>2, <4>1, LogEventsAre DEF LogOK
      <4>. HIDE DEF f
      <4>3. Follows(e, f)
        BY <4>2 DEF Follows
      <4>4. CASE Holds(answer', f)
        BY <4>2, <4>3, <4>4 DEF e
      <4>5. CASE Held(rows, f)
        <5>1. Near(rows, e)
          BY <3>2, <4>2, <4>5 DEF Held, Near
        <5>. QED  BY <5>1 DEF e
      <4>. QED  BY <2>2, <4>2, <4>4, <4>5
    <3>. QED  BY <3>3, <3>4
  <2>5. Joined'
    BY <1>1, <1>2, <1>5, <2>4 DEF Joined, Near
  <2>. QED  BY <1>2, <1>3, <1>5, <2>0, <2>1, <2>3, <2>5 DEF SyncInv, Phase
<1>. QED  BY <1>4, <1>5 DEF AnswerHistory

(* The answer is in the rows when nothing of it threw; else the tick is    *)
(* over.                                                                   *)
LEMMA ApplyKeepsInv == SyncInv /\ ApplyHistory => SyncInv'
<1>. SUFFICES ASSUME SyncInv, ApplyHistory PROVE SyncInv'
  OBVIOUS
<1>. DEFINE out == ReplayAll(rows, answer)
<1>0. LogOK /\ Beginning(rows) /\ answer \in Seq(LogEvents) /\ stream \in Seq(LogEvents)
      /\ rows \in Rows /\ Covered /\ Joined
  BY DEF SyncInv, ApplyHistory, Beginning
<1>1. /\ Beginning(out.rows) /\ Longer(rows, out.rows)
      /\ out.ok => \A j \in 1 .. Len(answer) : Held(out.rows, answer[j])
  BY <1>0, ReplayAllKeepsBeginning
<1>2. rows' = out.rows /\ UNCHANGED <<log, gapped>>
  BY DEF ApplyHistory
<1>3. \/ /\ out.ok
         /\ tick' = "streaming" /\ known' = NothingKnown /\ answer' = <<>>
         /\ UNCHANGED <<task, stream>>
      \/ ~out.ok /\ EndTick
  BY DEF ApplyHistory
<1>. HIDE DEF out
<1>4. Grow /\ rows' \in Rows
  BY <1>1, <1>2 DEF Grow, Beginning
<1>5. LogOK' /\ Beginning(rows)' /\ LogEvents' = LogEvents
  BY <1>2, <1>4, LogStays
<1>6. gapped' \in BOOLEAN /\ StreamJoinsHistory'
  BY <1>2, GapsStayExplained
<1>7. CASE ~out.ok /\ EndTick
  BY <1>2, <1>4, <1>6, <1>7, TickIsOver DEF EndTick
<1>8. CASE out.ok /\ tick' = "streaming" /\ known' = NothingKnown /\ answer' = <<>> /\ UNCHANGED <<task, stream>>
  <2>1. ASSUME NEW f \in LogEvents, Holds(answer, f) PROVE Held(rows', f)
    BY <1>1, <1>2, <1>8, <2>1 DEF Holds
  <2>2. ASSUME NEW e \in LogEvents PROVE Held(rows', e) \/ Holds(stream, e)
    <3>1. Held(rows, e) => Held(rows', e)
      BY <1>0, <1>4, HeldIsKept DEF Grow
    <3>. QED  BY <1>0, <2>1, <3>1 DEF Covered
  <2>3. Covered'
    BY <1>5, <1>8, <2>2 DEF Covered, Held
  <2>4. ASSUME NEW j \in 1 .. Len(stream)
        PROVE  Near(rows', stream[j]) \/ \E k \in 1 .. j - 1 : Follows(stream[j], stream[k])
    <3>1. stream[j] \in LogEvents
      BY <1>0
    <3>2. Near(rows, stream[j]) => Near(rows', stream[j])
      BY <1>0, <1>4, <3>1, NearIsKept DEF Grow
    <3>3. ASSUME NEW f \in LogEvents, Follows(stream[j], f), Holds(answer, f) PROVE Near(rows', stream[j])
      <4>1. Held(rows', f)
        BY <2>1, <3>3
      <4>. QED  BY <1>0, <1>4, <3>1, <3>3, <4>1, NearIsHeld
    <3>. QED  BY <1>0, <3>2, <3>3 DEF Joined
  <2>5. Joined'
    BY <1>5, <1>8, <2>4 DEF Joined, Near
  <2>6. NothingKnown \in [Sessions -> Nat \cup {-1}] /\ <<>> \in Seq(LogEvents)
    BY DEF NothingKnown
  <2>. QED  BY <1>0, <1>5, <1>6, <1>8, <2>3, <2>5, <2>6 DEF SyncInv, Phase
<1>. QED  BY <1>3, <1>7, <1>8

(* The stream, or a beginning of it, is applied: it has no hole.           *)
LEMMA StreamKeepsInv ==
  ASSUME SyncInv, NEW k \in 0 .. Len(stream), EndStream(k) PROVE SyncInv'
<1>. DEFINE events == SubSeq(stream, 1, k)
            out == ReplayEach(rows, events)
<1>0. LogOK /\ Beginning(rows) /\ stream \in Seq(LogEvents) /\ answer = <<>> /\ Joined
  BY DEF SyncInv, EndStream
<1>1. /\ events \in Seq(LogEvents) /\ Len(events) = k
      /\ \A j \in 1 .. k : events[j] = stream[j] /\ j \in 1 .. Len(stream)
  BY <1>0
<1>. HIDE DEF events
<1>2. /\ Beginning(out.rows) /\ Longer(rows, out.rows) /\ out.gap \in BOOLEAN
      /\ (\A j \in 1 .. Len(events) : ~Unknown(events[j])) /\ NoHole(rows, events, 1) => ~out.gap
  BY <1>0, <1>1, ReplayEachKeepsBeginning
<1>3. rows' = out.rows /\ gapped' = (gapped \/ out.gap) /\ EndTick /\ UNCHANGED log
  BY DEF EndStream, events
<1>4. NoHole(rows, events, 1)
  <2>1. SUFFICES ASSUME NEW j \in 1 .. k
                 PROVE  Near(rows, events[j]) \/ \E m \in 1 .. j - 1 : Follows(events[j], events[m])
    BY <1>1 DEF NoHole
  <2>2. \A f : ~Holds(answer, f)
    BY <1>0 DEF Holds
  <2>3. Near(rows, stream[j]) \/ \E m \in 1 .. j - 1 : Follows(stream[j], stream[m])
    BY <1>0, <1>1, <2>2 DEF Joined
  <2>4. \A m \in 1 .. j - 1 : m \in 1 .. k
    OBVIOUS
  <2>. QED  BY <1>1, <2>3, <2>4
<1>5. ASSUME AllKnown PROVE \A j \in 1 .. Len(events) : ~Unknown(events[j])
  <2>1. ASSUME NEW e \in LogEvents PROVE ~Unknown(e)
    <3>1. /\ e.session \in Sessions /\ e.seq \in Nat /\ log[e.session] \in Seq(Event)
          /\ e.seq < Len(log[e.session]) /\ e = log[e.session][e.seq + 1]
      BY <1>0, EventFields
    <3>2. e.seq + 1 \in DOMAIN log[e.session]
      BY <3>1
    <3>. QED  BY <1>5, <3>1, <3>2 DEF AllKnown, Unknown
  <2>. QED  BY <1>1, <2>1
<1>6. gapped' \in BOOLEAN /\ StreamJoinsHistory'
  <2>1. gapped \in BOOLEAN /\ (gapped => ~AllKnown)
    BY DEF SyncInv, StreamJoinsHistory
  <2>2. out.gap => ~AllKnown
    BY <1>2, <1>4, <1>5
  <2>3. AllKnown' => AllKnown
    BY <1>3 DEF AllKnown
  <2>. HIDE DEF out
  <2>. QED  BY <1>2, <1>3, <2>1, <2>2, <2>3 DEF StreamJoinsHistory
<1>7. Grow
  BY <1>2, <1>3 DEF Grow
<1>. QED  BY <1>3, <1>6, <1>7, TickIsOver DEF EndTick

(* What the remote writes next.                                            *)
WrittenEvent(s, t) == [session |-> s, seq |-> Len(log[s]), type |-> t]

(* A write adds one event to the log.                                      *)
LEMMA WriteExtendsLog ==
  ASSUME SyncInv, NEW s \in Sessions, NEW t \in Types, Write(s, t)
  PROVE  /\ LogOK'
         /\ WrittenEvent(s, t) \in LogEvents'
         /\ WrittenEvent(s, t) \in Event
         /\ LogEvents \subseteq LogEvents'
         /\ LogEvents' \subseteq LogEvents \cup {WrittenEvent(s, t)}
         /\ Beginning(rows)'
         /\ AllKnown' => AllKnown
<1>. DEFINE e == WrittenEvent(s, t)
            n == Len(log[s])
            w == Append(log[s], e)
<1>0. LogOK /\ Beginning(rows) /\ log \in Rows /\ rows \in Rows /\ MaxEvents \in Nat
  BY SyncAssumption DEF SyncInv, LogOK, Beginning
<1>1. log[s] \in Seq(Event) /\ n \in Nat /\ n < MaxEvents
  BY <1>0 DEF Write, Rows
<1>2. e \in Event /\ e.session = s /\ e.seq = n
  <2>1. n \in 0 .. MaxEvents - 1
    BY <1>0, <1>1
  <2>. HIDE DEF n
  <2>2. e = [session |-> s, seq |-> n, type |-> t]
    BY DEF WrittenEvent, n
  <2>. QED  BY <2>1, <2>2 DEF Event
<1>. HIDE DEF e
<1>3. /\ w \in Seq(Event) /\ Len(w) = n + 1 /\ w[n + 1] = e
      /\ \A i \in 1 .. n : w[i] = log[s][i]
  BY <1>1, <1>2, AppendProperties
<1>. HIDE DEF w
<1>4. log' = [log EXCEPT ![s] = w] /\ UNCHANGED rows
  BY DEF Write, e, w, WrittenEvent
<1>5. /\ log' \in Rows /\ log'[s] = w /\ \A x \in Sessions \ {s} : log'[x] = log[x]
      /\ \A x \in Sessions : log[x] \in Seq(Event) /\ rows[x] \in Seq(Event)
  BY <1>0, <1>3, <1>4 DEF Rows
<1>6. LogOK'
  <2>1. ASSUME NEW x \in Sessions
        PROVE  /\ Len(log'[x]) <= MaxEvents
               /\ \A i \in 1 .. Len(log'[x]) : log'[x][i].session = x /\ log'[x][i].seq = i - 1
    <3>1. CASE x # s
      BY <1>0, <1>5, <3>1 DEF LogOK
    <3>2. CASE x = s
      <4>1. ASSUME NEW i \in 1 .. n + 1 PROVE w[i].session = s /\ w[i].seq = i - 1
        <5>1. CASE i \in 1 .. n
          BY <1>0, <1>3, <5>1 DEF LogOK
        <5>2. CASE i = n + 1
          BY <1>1, <1>2, <1>3, <5>2
        <5>. QED  BY <1>1, <5>1, <5>2
      <4>2. log'[x] = w /\ Len(log'[x]) = n + 1 /\ n + 1 <= MaxEvents
        BY <1>0, <1>1, <1>3, <1>5, <3>2
      <4>. HIDE DEF n
      <4>. QED  BY <3>2, <4>1, <4>2
    <3>. QED  BY <3>1, <3>2
  <2>. QED  BY <1>5, <2>1 DEF LogOK, Rows
<1>7. e \in LogEvents'
  BY <1>1, <1>2, <1>3, <1>5 DEF LogEvents, Event
<1>8. ASSUME NEW f \in LogEvents PROVE f \in LogEvents'
  <2>1. /\ f \in Event /\ f.session \in Sessions /\ f.seq \in Nat
        /\ f.seq < Len(log[f.session]) /\ f = log[f.session][f.seq + 1]
    BY <1>0, EventFields
  <2>2. f.seq < Len(log'[f.session]) /\ f = log'[f.session][f.seq + 1]
    <3>1. CASE f.session # s
      BY <1>5, <2>1, <3>1
    <3>2. CASE f.session = s
      <4>1. f.seq + 1 \in 1 .. n /\ f.seq < n + 1
        BY <1>1, <2>1, <3>2
      <4>2. f = w[f.seq + 1]
        BY <1>3, <2>1, <3>2, <4>1
      <4>. QED  BY <1>3, <1>5, <3>2, <4>1, <4>2
    <3>. QED  BY <3>1, <3>2
  <2>. QED  BY <2>1, <2>2 DEF LogEvents, Event
<1>9. ASSUME NEW f \in LogEvents', f # e PROVE f \in LogEvents
  <2>1. f \in Event /\ f.seq < Len(log'[f.session]) /\ f = log'[f.session][f.seq + 1]
    BY DEF LogEvents, Event
  <2>2. f \in Event
    BY <2>1
  <2>3. f.session \in Sessions /\ f.seq \in Nat
    BY ONLY <2>2, <1>0 DEF Event
  <2>4. f.seq < Len(log[f.session]) /\ f = log[f.session][f.seq + 1]
    <3>1. CASE f.session # s
      BY <1>5, <2>1, <2>3, <3>1
    <3>2. CASE f.session = s
      <4>1. f.seq < n + 1 /\ f = w[f.seq + 1]
        BY <1>3, <1>5, <2>1, <3>2
      <4>2. f.seq # n
        BY <1>3, <1>9, <4>1
      <4>3. f.seq + 1 \in 1 .. n /\ f.seq < n
        BY <1>1, <2>3, <4>1, <4>2
      <4>. QED  BY <1>3, <3>2, <4>1, <4>3
    <3>. QED  BY <3>1, <3>2
  <2>. QED  BY <2>2, <2>4 DEF LogEvents
<1>10. Beginning(rows)'
  <2>1. ASSUME NEW x \in Sessions
        PROVE  /\ Len(rows[x]) <= Len(log'[x])
               /\ \A i \in 1 .. Len(rows[x]) : rows[x][i] = log'[x][i]
    <3>1. /\ Len(rows[x]) <= Len(log[x]) /\ Len(rows[x]) \in Nat
          /\ \A i \in 1 .. Len(rows[x]) : rows[x][i] = log[x][i]
      BY <1>0, <1>5 DEF Beginning
    <3>2. CASE x # s
      BY <1>5, <3>1, <3>2
    <3>3. CASE x = s
      <4>1. \A i \in 1 .. Len(rows[x]) : i \in 1 .. n
        BY <1>1, <3>1, <3>3
      <4>2. log'[x] = w /\ Len(rows[x]) <= Len(log'[x])
        BY <1>1, <1>3, <1>5, <3>1, <3>3
      <4>. QED  BY <1>3, <3>1, <3>3, <4>1, <4>2
    <3>. QED  BY <3>2, <3>3
  <2>. QED  BY <1>0, <1>4, <2>1 DEF Beginning, Rows
<1>11. AllKnown' => AllKnown
  <2>1. SUFFICES ASSUME AllKnown', NEW x \in Sessions, NEW i \in DOMAIN log[x]
                 PROVE  log[x][i].type \in KnownTypes
    BY DEF AllKnown
  <2>2. i \in 1 .. Len(log[x]) /\ i \in DOMAIN log'[x] /\ log'[x][i] = log[x][i]
    BY <1>1, <1>3, <1>5
  <2>. QED  BY <2>1, <2>2 DEF AllKnown
<1>. QED  BY <1>2, <1>6, <1>7, <1>8, <1>9, <1>10, <1>11 DEF e

(* And those that are connected get it: the event before it is somewhere,  *)
(* as all of the log is.                                                   *)
LEMMA WriteKeepsInv ==
  ASSUME SyncInv, NEW s \in Sessions, NEW t \in Types, Write(s, t) PROVE SyncInv'
<1>. DEFINE e == WrittenEvent(s, t)
            n == Len(log[s])
<1>0. /\ LogOK /\ Beginning(rows) /\ stream \in Seq(LogEvents) /\ answer \in Seq(LogEvents)
      /\ log[s] \in Seq(Event) /\ rows[s] \in Seq(Event)
  BY DEF SyncInv, Beginning, LogOK, Rows
<1>1. /\ LogOK' /\ e \in LogEvents' /\ LogEvents \subseteq LogEvents'
      /\ LogEvents' \subseteq LogEvents \cup {e} /\ Beginning(rows)' /\ (AllKnown' => AllKnown)
  BY WriteExtendsLog
<1>2. e.session = s /\ e.seq = n
  BY DEF WrittenEvent
<1>3. /\ UNCHANGED <<rows, task, tick, known, answer, gapped, faults>>
      /\ stream' = IF Connected THEN Append(stream, e) ELSE stream
  BY DEF Write, WrittenEvent
<1>. HIDE DEF e
<1>4. answer' \in Seq(LogEvents') /\ stream \in Seq(LogEvents')
  BY <1>0, <1>1, <1>3
<1>5. stream' \in Seq(LogEvents')
  <2>. DEFINE S == LogEvents'
  <2>1. stream \in Seq(S) /\ e \in S
    BY <1>1, <1>4
  <2>. HIDE DEF S
  <2>2. Append(stream, e) \in Seq(S)
    BY <2>1, AppendProperties
  <2>. QED  BY <1>3, <2>1, <2>2 DEF S
<1>6. ASSUME tick \in {"answered", "streaming"} PROVE Covered' /\ Joined'
  <2>. DEFINE more == Append(stream, e)
  <2>1. Covered /\ Joined /\ stream' = more
    BY <1>3, <1>6 DEF SyncInv, Connected
  <2>2. /\ Len(stream) \in Nat /\ Len(more) = Len(stream) + 1 /\ more[Len(stream) + 1] = e
        /\ \A i \in 1 .. Len(stream) : more[i] = stream[i]
    BY <1>4
  <2>. HIDE DEF more
  <2>3. \A f : Holds(stream, f) => Holds(more, f)
    BY <2>2 DEF Holds
  <2>4. Holds(more, e)
    <3>1. Len(stream) + 1 \in 1 .. Len(more)
      BY <2>2
    <3>. QED  BY <2>2, <3>1 DEF Holds
  <2>5. Covered'
    <3>1. ASSUME NEW f \in LogEvents' PROVE Held(rows, f) \/ Holds(answer, f) \/ Holds(more, f)
      <4>1. CASE f = e
        BY <2>4, <4>1
      <4>2. CASE f \in LogEvents
        BY <2>1, <2>3, <4>2 DEF Covered
      <4>. QED  BY <1>1, <4>1, <4>2
    <3>. QED  BY <1>3, <2>1, <3>1 DEF Covered, Held
  <2>6. ASSUME NEW j \in 1 .. Len(more)
        PROVE  \/ Near(rows, more[j])
               \/ \E f \in LogEvents' : Follows(more[j], f) /\ Holds(answer, f)
               \/ \E k \in 1 .. j - 1 : Follows(more[j], more[k])
    <3>1. CASE j \in 1 .. Len(stream)
      <4>1. more[j] = stream[j] /\ \A k \in 1 .. j - 1 : more[k] = stream[k]
        BY <2>2, <3>1
      <4>2. \/ Near(rows, stream[j])
            \/ \E f \in LogEvents : Follows(stream[j], f) /\ Holds(answer, f)
            \/ \E k \in 1 .. j - 1 : Follows(stream[j], stream[k])
        BY <2>1, <3>1 DEF Joined
      <4>. QED  BY <1>1, <4>1, <4>2
    <3>2. CASE j = Len(stream) + 1
      <4>1. CASE n = 0
        BY <1>0, <1>2, <2>2, <3>2, <4>1 DEF Near
      <4>2. CASE n # 0
        <5>. DEFINE f == log[s][n]
        <5>1. n \in 1 .. Len(log[s]) /\ n \in Nat
          BY <1>0, <4>2
        <5>2. f \in LogEvents /\ f.session = s /\ f.seq = n - 1
          BY <1>0, <5>1, LogEventsAre DEF LogOK
        <5>. HIDE DEF f, n
        <5>3. Follows(e, f)
          BY <1>2, <5>2 DEF Follows
        <5>4. CASE Held(rows, f)
          BY <1>0, <1>2, <2>2, <3>2, <5>1, <5>2, <5>4 DEF Held, Near
        <5>5. CASE Holds(answer, f)
          BY <1>1, <2>2, <3>2, <5>2, <5>3, <5>5
        <5>6. CASE Holds(stream, f)
          <6>1. PICK k \in 1 .. Len(stream) : stream[k] = f
            BY <5>6 DEF Holds
          <6>2. k \in 1 .. j - 1 /\ more[k] = f /\ more[j] = e
            BY <2>2, <3>2, <6>1
          <6>. QED  BY <5>3, <6>2
        <5>. QED  BY <2>1, <5>2, <5>4, <5>5, <5>6 DEF Covered
      <4>. QED  BY <4>1, <4>2
    <3>. QED  BY <2>2, <3>1, <3>2
  <2>7. Joined'
    BY <1>3, <2>1, <2>6 DEF Joined, Near
  <2>. QED  BY <2>5, <2>7
<1>7. gapped' \in BOOLEAN /\ StreamJoinsHistory'
  BY <1>1, <1>3 DEF SyncInv, StreamJoinsHistory
<1>. QED  BY <1>1, <1>3, <1>4, <1>5, <1>6, <1>7 DEF SyncInv

LEMMA SyncInvNext == SyncInv /\ [Next]_vars => SyncInv'
<1>. SUFFICES ASSUME SyncInv, [Next]_vars PROVE SyncInv'
  OBVIOUS
<1>1. ASSUME NEW s \in Sessions, NEW t \in Types, Write(s, t) PROVE SyncInv'
  BY <1>1, WriteKeepsInv
<1>2. CASE Start
  BY <1>2, SameRowsGrow, BesideTheTick DEF Start, Loop
<1>3. CASE Stop
  BY <1>3, SameRowsGrow, BesideTheTick DEF Stop, Loop
<1>4. CASE Fire
  <2>1. tick' = tick \/ tick' \in {"connecting", "accepted"}
    BY <1>4 DEF Fire
  <2>. QED  BY <1>4, <2>1, SameRowsGrow, BesideTheTick DEF Fire
<1>5. CASE Accept
  <2>1. tick' = tick \/ tick' \in {"connecting", "accepted"}
    BY <1>5 DEF Accept
  <2>. QED  BY <1>5, <2>1, SameRowsGrow, BesideTheTick DEF Accept
<1>6. CASE Ask
  BY <1>6, AskKeepsInv
<1>7. CASE AnswerHistory
  BY <1>7, AnswerKeepsInv
<1>8. CASE ApplyHistory
  BY <1>8, ApplyKeepsInv
<1>9. CASE StreamEnds
  <2>1. Len(stream) \in 0 .. Len(stream)
    BY DEF SyncInv
  <2>. QED  BY <1>9, <2>1, StreamKeepsInv DEF StreamEnds
<1>10. CASE StreamBreaks
  <2>1. PICK k \in 0 .. Len(stream) - 1 : EndStream(k)
    BY <1>10 DEF StreamBreaks
  <2>2. k \in 0 .. Len(stream)
    BY DEF SyncInv
  <2>. QED  BY <2>1, <2>2, StreamKeepsInv
<1>11. CASE RequestFails
  <2>1. UNCHANGED <<log, gapped, rows>> /\ EndTick
    BY <1>11 DEF RequestFails
  <2>. QED  BY <2>1, SameRowsGrow, GapsStayExplained, TickIsOver DEF EndTick
<1>12. ASSUME NEW s \in Sessions, NEW first \in 1 .. MaxEvents, NEW last \in 1 .. MaxEvents,
              SyncReplay(s, first, last)
       PROVE SyncInv'
  <2>1. UNCHANGED <<log, stream, known, answer, gapped, tick>>
    BY <1>12 DEF SyncReplay, Loop
  <2>2. Grow
    BY <1>12, ReplaysGrow
  <2>. QED  BY <2>1, <2>2, BesideTheTick
<1>13. CASE StartWorkspace
  <2>1. UNCHANGED <<log, stream, known, answer, gapped, tick>>
    BY <1>13 DEF StartWorkspace, Loop
  <2>2. Grow
    BY <1>13, ReplaysGrow
  <2>. QED  BY <2>1, <2>2, BesideTheTick
<1>14. CASE Restart
  <2>1. UNCHANGED <<log, gapped>> /\ Emptied
    BY <1>14 DEF Restart, Emptied
  <2>. QED  BY <1>14, <2>1, GapsStayExplained, TickIsOver DEF Restart
<1>15. CASE UNCHANGED vars
  BY <1>15, SameRowsGrow, BesideTheTick DEF vars
<1>. QED
  BY <1>1, <1>2, <1>3, <1>4, <1>5, <1>6, <1>7, <1>8, <1>9, <1>10, <1>11, <1>12,
     <1>13, <1>14, <1>15 DEF Next, Attempt, Requests

LEMMA SyncInvAlways == Spec => []SyncInv
  BY SyncInvInit, SyncInvNext, PTL DEF Spec

(* Because the loop connects before it asks for the history, no event is   *)
(* missed between the answer and the stream: a stream event meets a gap    *)
(* only when the remote writes types that are not known, whatever faults,  *)
(* replays by others and restarts come between (runRemoteLoop).            *)
THEOREM NothingMissedBetween == Spec => []StreamJoinsHistory
<1>1. SyncInv => StreamJoinsHistory
  BY DEF SyncInv
<1>. QED  BY SyncInvAlways, <1>1, PTL

(* A sequence that another one agrees with and goes beyond is its prefix.  *)
LEMMA PrefixOfLog ==
  ASSUME NEW S, NEW p \in Seq(S), NEW q \in Seq(S), Len(p) <= Len(q),
         \A i \in 1 .. Len(p) : p[i] = q[i]
  PROVE  Replica!IsPrefix(p, q)
<1>1. Len(p) \in Nat /\ Len(q) \in Nat
  OBVIOUS
<1>2. SubSeq(p, 1, Len(p)) \in Seq(S) /\ SubSeq(q, 1, Len(p)) \in Seq(S)
      /\ Len(SubSeq(p, 1, Len(p))) = Len(p) /\ Len(SubSeq(q, 1, Len(p))) = Len(p)
      /\ \A i \in 1 .. Len(p) : SubSeq(p, 1, Len(p))[i] = p[i] /\ SubSeq(q, 1, Len(p))[i] = q[i]
  BY <1>1
<1>3. SubSeq(p, 1, Len(p)) = SubSeq(q, 1, Len(p))
  BY <1>2
<1>. QED  BY <1>3 DEF Replica!IsPrefix

(* The rows are a replica of the remote's log that grows until the process *)
(* starts anew: every step is a write, a replication, a loss of the copy   *)
(* or a stutter of SyncLog (SyncRouteRuntime.replay).                      *)
THEOREM RowsReplicate == Spec => Replicates
<1>1. Init => Replica!Init
  BY DEF Init, Replica!Init
<1>2. SyncInv /\ [Next]_vars => [Replica!Next]_<<log, rows>>
  <2>. SUFFICES ASSUME SyncInv, [Next]_vars PROVE [Replica!Next]_<<log, rows>>
    OBVIOUS
  <2>1. ASSUME NEW s \in Sessions, NEW t \in Types, Write(s, t) PROVE Replica!Write
    <3>1. WrittenEvent(s, t) \in Event
      BY <2>1, WriteExtendsLog
    <3>2. log' = [log EXCEPT ![s] = Append(log[s], WrittenEvent(s, t))] /\ UNCHANGED rows
      BY <2>1 DEF Write, WrittenEvent
    <3>. QED  BY <3>1, <3>2 DEF Replica!Write
  <2>2. CASE UNCHANGED log
    <3>1. CASE Emptied
      BY <2>2, <3>1 DEF Emptied, Replica!Forget, Replica!Next
    <3>2. CASE Grow
      <4>1. rows' \in Rows /\ rows \in Rows /\ log \in Rows /\ DOMAIN rows' = Sessions
        BY <3>2 DEF SyncInv, Grow, Beginning, LogOK, Rows
      <4>2. ASSUME NEW s \in Sessions PROVE Replica!IsPrefix(rows[s], rows'[s]) /\ Replica!IsPrefix(rows'[s], log[s])
        <5>1. rows[s] \in Seq(Event) /\ rows'[s] \in Seq(Event) /\ log[s] \in Seq(Event)
          BY <4>1 DEF Rows
        <5>2. /\ Len(rows[s]) <= Len(rows'[s]) /\ Len(rows'[s]) <= Len(log[s])
              /\ \A i \in 1 .. Len(rows'[s]) : rows'[s][i] = log[s][i]
              /\ \A i \in 1 .. Len(rows[s]) : rows[s][i] = log[s][i]
          BY <3>2 DEF SyncInv, Grow, Beginning, Longer
        <5>3. \A i \in 1 .. Len(rows[s]) : rows[s][i] = rows'[s][i]
          BY <5>1, <5>2
        <5>. QED  BY <5>1, <5>2, <5>3, PrefixOfLog
      <4>. QED  BY <2>2, <4>1, <4>2 DEF Replica!Replicate, Replica!Next
    <3>. QED  BY <2>2, <3>1, <3>2, RowsGrow
  <2>3. (\E s \in Sessions, t \in Types : Write(s, t)) \/ UNCHANGED log
    BY DEF Next, Attempt, Requests, vars, Start, Stop, Fire, Accept, Ask, AnswerHistory, ApplyHistory,
           StreamEnds, StreamBreaks, EndStream, RequestFails, SyncReplay, StartWorkspace, Restart
  <2>. QED  BY <2>1, <2>2, <2>3 DEF Replica!Next
<1>. QED  BY SyncInvAlways, <1>1, <1>2, PTL DEF Spec, Replica!Spec, Replicates

-----------------------------------------------------------------------------
(* The loop.                                                               *)

TaskType ==
  /\ task \in [running : BOOLEAN, timer : BOOLEAN, aborted : BOOLEAN]
  /\ tick \in Phase

(* LoopIsAlone is not inductive: a task that is started must be known to   *)
(* have neither timer nor tick from before, and that is so because a task  *)
(* that does not run was never started or has its signal aborted.          *)
Idle == ~task.running /\ ~Signalled => ~task.timer /\ tick = "none"

LoopInv == TaskType /\ LoopIsAlone /\ Idle

LEMMA LoopInvInit == Init => LoopInv
  BY DEF Init, LoopInv, TaskType, LoopIsAlone, Idle, Signalled, Phase

(* However a tick ends, it is followed by a timer if the task still runs.  *)
LEMMA EndTickKeepsLoopInv ==
  ASSUME LoopInv, tick # "none", EndTick
  PROVE LoopInv'
  BY DEF EndTick, LoopInv, TaskType, LoopIsAlone, Idle, Signalled, Phase

(* A step inside a tick leaves the task alone.                             *)
LEMMA TickStepKeepsLoopInv ==
  ASSUME LoopInv, UNCHANGED task,
         tick' = tick \/ (tick # "none" /\ tick' \in Phase \ {"none"})
  PROVE LoopInv'
  BY DEF LoopInv, TaskType, LoopIsAlone, Idle, Signalled

LEMMA LoopInvNext == LoopInv /\ [Next]_vars => LoopInv'
<1> SUFFICES ASSUME LoopInv, [Next]_vars PROVE LoopInv'
  OBVIOUS
<1> USE DEF Phase
<1>1. ASSUME NEW s \in Sessions, NEW t \in Types, Write(s, t) PROVE LoopInv'
  BY <1>1, TickStepKeepsLoopInv DEF Write
<1>2. CASE Start
  BY <1>2 DEF Start, Loop, LoopInv, TaskType, LoopIsAlone, Idle, Signalled
<1>3. CASE Stop
  BY <1>3 DEF Stop, Loop, LoopInv, TaskType, LoopIsAlone, Idle, Signalled
<1>4. CASE Fire
  BY <1>4 DEF Fire, LoopInv, TaskType, LoopIsAlone, Idle, Signalled
<1>5. CASE Accept
  BY <1>5, TickStepKeepsLoopInv DEF Accept
<1>6. CASE Ask
  BY <1>6, TickStepKeepsLoopInv DEF Ask
<1>7. CASE AnswerHistory
  <2>1. CASE ~Refused /\ tick' = "answered" /\ UNCHANGED task
    BY <1>7, <2>1, TickStepKeepsLoopInv DEF AnswerHistory
  <2>2. CASE EndTick
    BY <1>7, <2>2, EndTickKeepsLoopInv DEF AnswerHistory
  <2>3. QED BY <1>7, <2>1, <2>2 DEF AnswerHistory
<1>8. CASE ApplyHistory
  <2>1. CASE tick' = "streaming" /\ UNCHANGED task
    BY <1>8, <2>1, TickStepKeepsLoopInv DEF ApplyHistory
  <2>2. CASE EndTick
    BY <1>8, <2>2, EndTickKeepsLoopInv DEF ApplyHistory
  <2>3. QED BY <1>8, <2>1, <2>2 DEF ApplyHistory
<1>9. CASE StreamEnds
  BY <1>9, EndTickKeepsLoopInv DEF StreamEnds, EndStream
<1>10. CASE StreamBreaks
  BY <1>10, EndTickKeepsLoopInv DEF StreamBreaks, EndStream
<1>11. CASE RequestFails
  BY <1>11, EndTickKeepsLoopInv DEF RequestFails
<1>12. ASSUME NEW s \in Sessions, NEW first \in 1 .. MaxEvents, NEW last \in 1 .. MaxEvents,
              SyncReplay(s, first, last)
       PROVE LoopInv'
  BY <1>12, TickStepKeepsLoopInv DEF SyncReplay, Loop
<1>13. CASE StartWorkspace
  BY <1>13, TickStepKeepsLoopInv DEF StartWorkspace, Loop
<1>14. CASE Restart
  BY <1>14 DEF Restart, LoopInv, TaskType, LoopIsAlone, Idle, Signalled
<1>15. CASE UNCHANGED vars
  BY <1>15, TickStepKeepsLoopInv DEF vars
<1>16. QED
  BY <1>1, <1>2, <1>3, <1>4, <1>5, <1>6, <1>7, <1>8, <1>9, <1>10, <1>11, <1>12,
     <1>13, <1>14, <1>15 DEF Next, Attempt, Requests

(* A task that runs and was not stopped always has one timer or one tick   *)
(* under way, and a stopped one has no timer: whatever interleaving of     *)
(* starts, stops, ticks, faults and restarts (WorkspaceSyncBackgroundTask).*)
THEOREM OneLoopRuns == Spec => []LoopIsAlone
<1>1. LoopInv => LoopIsAlone
  BY DEF LoopInv
<1> QED BY LoopInvInit, LoopInvNext, <1>1, PTL DEF Spec

(* Every variable keeps its type (WorkspaceSync.TypeOK).                   *)
THEOREM SyncTypes == Spec => []TypeOK
<1>. DEFINE AllTypes == LoopInv /\ SyncInv /\ faults \in 0 .. MaxFaults
<1>1. Init => AllTypes
  BY LoopInvInit, SyncInvInit, SyncAssumption DEF Init
<1>2. AllTypes /\ [Next]_vars => AllTypes'
  <2>. SUFFICES ASSUME AllTypes, [Next]_vars PROVE AllTypes'
    OBVIOUS
  <2>1. faults' \in 0 .. MaxFaults
    <3>1. faults' = faults \/ (faults < MaxFaults /\ faults' = faults + 1)
      BY DEF Next, Attempt, Requests, vars, Write, Start, Stop, Fire, Accept, Ask, AnswerHistory, ApplyHistory,
             StreamEnds, StreamBreaks, RequestFails, Fault, SyncReplay, StartWorkspace, Restart
    <3>. QED  BY <3>1, SyncAssumption
  <2>. QED  BY <2>1, LoopInvNext, SyncInvNext
<1>3. AllTypes => TypeOK
  <2>. SUFFICES ASSUME AllTypes PROVE TypeOK
    OBVIOUS
  <2>1. log \in Rows /\ rows \in Rows /\ stream \in Seq(Event) /\ answer \in Seq(Event)
    BY DEF SyncInv, LogOK, Beginning, LogEvents
  <2>. QED  BY <2>1 DEF TypeOK, LoopInv, TaskType, SyncInv
<1>. QED  BY <1>1, <1>2, <1>3, PTL DEF Spec
=============================================================================
