---------------------------- MODULE RecursionProofs ----------------------------
(***************************************************************************)
(* Induction and recursion for the other proofs: that a recursive function *)
(* has the value its equation says, what Selected selects, and what lists  *)
(* in order have in common.                                                *)
(***************************************************************************)
EXTENDS Selection, Integers, WellFoundedInduction, SequenceTheorems, TLAPS

(* Induction up to n, on sets: the library's induction rule has an         *)
(* operator for a parameter.                                               *)
LEMMA UpTo ==
  ASSUME NEW n \in Nat, NEW T, 0 \in T, \A i \in 1..n : i - 1 \in T => i \in T
  PROVE  0..n \subseteq T
<1>. DEFINE rest == {i \in 0..n : i \notin T}
<1>1. SUFFICES ASSUME rest # {} PROVE FALSE
  OBVIOUS
<1>2. rest \subseteq Nat
  OBVIOUS
<1>3. PICK x \in rest : \A y \in rest : <<y, x>> \notin OpToRel(<, Nat)
  BY <1>1, <1>2, NatLessThanWellFounded, WFMin
<1>4. \A y \in rest : ~(y < x)
  BY <1>2, <1>3 DEF OpToRel
<1>5. x # 0 /\ x \in 1..n
  OBVIOUS
<1>6. x - 1 \in 0..n /\ x - 1 < x
  BY <1>5
<1>7. x - 1 \in T
  BY <1>4, <1>6
<1>. QED  BY <1>5, <1>7

(* A function that is defined by tail recursion: Ends are the arguments at *)
(* which it ends, out its values there, next the argument it goes on with. *)
Solves(g, D, Ends, out, next) ==
  \A x \in D : g[x] = IF x \in Ends THEN out[x] ELSE g[next[x]]

Descends(D, Ends, rank, next) == \A x \in D : x \notin Ends => rank[next[x]] < rank[x]

(* If every argument is nearer to an end than the one before it, there is  *)
(* such a function.                                                        *)
LEMMA TailRecursion ==
  ASSUME NEW D, NEW B, NEW n \in Nat, NEW rank \in [D -> 0..n], NEW Ends, NEW out \in [D -> B],
         NEW next \in [D -> D], Descends(D, Ends, rank, next)
  PROVE  \E g \in [D -> B] : Solves(g, D, Ends, out, next)
<1>. USE DEF Descends
<1>. DEFINE Good(g, k) == \A x \in D : rank[x] <= k => g[x] = IF x \in Ends THEN out[x] ELSE g[next[x]]
            T == {k \in 0..n : \E g \in [D -> B] : Good(g, k)}
<1>1. 0 \in T
  <2>1. Good(out, 0)
    OBVIOUS
  <2>. QED  BY <2>1
<1>2. ASSUME NEW k \in 1..n, k - 1 \in T PROVE k \in T
  <2>1. PICK g \in [D -> B] : Good(g, k - 1)
    BY <1>2
  <2>. DEFINE h == [x \in D |-> IF rank[x] <= k - 1 THEN g[x]
                                ELSE IF x \in Ends THEN out[x] ELSE g[next[x]]]
  <2>2. h \in [D -> B]
    OBVIOUS
  <2>3. ASSUME NEW x \in D, rank[x] <= k PROVE h[x] = IF x \in Ends THEN out[x] ELSE h[next[x]]
    <3>1. CASE x \in Ends
      BY <2>1, <3>1
    <3>2. CASE x \notin Ends
      <4>1. next[x] \in D /\ rank[next[x]] \in Nat /\ rank[x] \in Nat /\ rank[next[x]] < rank[x]
        BY <3>2
      <4>2. rank[next[x]] <= k - 1
        BY <2>3, <4>1
      <4>3. h[next[x]] = g[next[x]]
        BY <4>1, <4>2
      <4>4. h[x] = g[next[x]]
        BY <2>1, <3>2
      <4>. QED  BY <3>2, <4>3, <4>4
    <3>. QED  BY <3>1, <3>2
  <2>. HIDE DEF h
  <2>4. Good(h, k)
    BY <2>3
  <2>5. k \in 0..n
    OBVIOUS
  <2>. HIDE DEF Good
  <2>. QED  BY <2>2, <2>4, <2>5
<1>3. n \in T
  <2>. HIDE DEF T
  <2>. QED  BY <1>1, <1>2, UpTo
<1>4. PICK g \in [D -> B] : Good(g, n)
  BY <1>3
<1>. QED  BY <1>4 DEF Solves

(* And one that is defined by iteration from b.                            *)
Iterates(g, n, b, step) == g[0] = b /\ \A i \in 1..n : g[i] = step[i][g[i - 1]]

LEMMA Iteration ==
  ASSUME NEW n \in Nat, NEW B, NEW b \in B, NEW step \in [1..n -> [B -> B]]
  PROVE  \E g \in [0..n -> B] : Iterates(g, n, b, step)
<1>. DEFINE Good(g, k) == g[0] = b /\ \A i \in 1..k : g[i] = step[i][g[i - 1]]
            T == {k \in 0..n : \E g \in [0..n -> B] : Good(g, k)}
<1>1. 0 \in T
  <2>. DEFINE h == [i \in 0..n |-> b]
  <2>1. h \in [0..n -> B] /\ Good(h, 0)
    OBVIOUS
  <2>. HIDE DEF h, Good
  <2>. QED  BY <2>1
<1>2. ASSUME NEW k \in 1..n, k - 1 \in T PROVE k \in T
  <2>1. PICK g \in [0..n -> B] : Good(g, k - 1)
    BY <1>2
  <2>. DEFINE h == [g EXCEPT ![k] = step[k][g[k - 1]]]
  <2>2. h \in [0..n -> B]
    OBVIOUS
  <2>3. Good(h, k)
    <3>1. h[0] = b
      BY <2>1
    <3>2. ASSUME NEW i \in 1..k PROVE h[i] = step[i][h[i - 1]]
      <4>1. h[i - 1] = g[i - 1]
        OBVIOUS
      <4>2. CASE i = k
        BY <4>1, <4>2
      <4>3. CASE i \in 1..(k - 1)
        BY <2>1, <4>1, <4>3
      <4>. QED  BY <4>2, <4>3
    <3>. QED  BY <3>1, <3>2
  <2>4. k \in 0..n
    OBVIOUS
  <2>. HIDE DEF h, Good
  <2>. QED  BY <2>2, <2>3, <2>4
<1>3. n \in T
  <2>. HIDE DEF T
  <2>1. \A i \in 1..n : i - 1 \in T => i \in T
    BY <1>2
  <2>2. 0..n \subseteq T
    BY ONLY <1>1, <2>1, n \in Nat, UpTo
  <2>. QED  BY <2>2
<1>4. PICK g \in [0..n -> B] : Good(g, n)
  BY <1>3
<1>. QED  BY <1>4 DEF Iterates

-----------------------------------------------------------------------------
(* Selection.                                                              *)

(* at are the positions up to k that pass, in order, and sel what is there.*)
Picks(at, sel, list, set, k) ==
  /\ at \in [1 .. Len(sel) -> 1 .. k]
  /\ \A i \in 1 .. Len(sel) : sel[i] = list[at[i]] /\ list[at[i]] \in set
  /\ \A i, j \in 1 .. Len(sel) : i < j => at[i] < at[j]
  /\ \A j \in 1 .. k : list[j] \in set => \E i \in 1 .. Len(sel) : at[i] = j

LEMMA PicksNothing == ASSUME NEW list, NEW set PROVE Picks(<<>>, <<>>, list, set, 0)
  BY DEF Picks

LEMMA PickOneMore ==
  ASSUME NEW E, NEW list \in Seq(E), NEW set, NEW k \in 1 .. Len(list), NEW sel \in Seq(E),
         NEW at, Picks(at, sel, list, set, k - 1)
  PROVE  /\ list[k] \notin set => Picks(at, sel, list, set, k)
         /\ list[k] \in set => \E to : Picks(to, Append(sel, list[k]), list, set, k)
<1>. k \in Nat /\ Len(sel) \in Nat
  OBVIOUS
<1>1. ASSUME list[k] \notin set PROVE Picks(at, sel, list, set, k)
  <2>1. at \in [1 .. Len(sel) -> 1 .. k]
    BY DEF Picks
  <2>2. \A j \in 1 .. k : list[j] \in set => \E i \in 1 .. Len(sel) : at[i] = j
    <3>1. \A j \in 1 .. k : list[j] \in set => j \in 1 .. k - 1
      BY <1>1
    <3>. QED  BY <3>1 DEF Picks
  <2>. QED  BY <2>1, <2>2 DEF Picks
<1>2. ASSUME list[k] \in set PROVE \E to : Picks(to, Append(sel, list[k]), list, set, k)
  <2>. DEFINE new == Append(sel, list[k])
              n == Len(sel)
              to == [i \in 1 .. n + 1 |-> IF i = n + 1 THEN k ELSE at[i]]
  <2>1. n \in Nat /\ Len(new) = n + 1 /\ new[n + 1] = list[k] /\ \A i \in 1 .. n : new[i] = sel[i]
    OBVIOUS
  <2>2. /\ \A i \in 1 .. n : to[i] = at[i] /\ to[i] \in 1 .. k - 1 /\ to[i] \in 1 .. k
        /\ to[n + 1] = k
    BY <2>1 DEF Picks
  <2>. HIDE DEF new, n
  <2>3. to \in [1 .. Len(new) -> 1 .. k]
    <3>1. \A i \in 1 .. n + 1 : i \in 1 .. n \/ i = n + 1
      BY <2>1
    <3>2. \A i \in 1 .. n + 1 : to[i] \in 1 .. k
      <4>. HIDE DEF to
      <4>. QED  BY <2>1, <2>2, <3>1
    <3>3. to = [i \in 1 .. n + 1 |-> to[i]]
      OBVIOUS
    <3>. HIDE DEF to
    <3>. QED  BY <2>1, <3>2, <3>3
  <2>. HIDE DEF to
  <2>4. ASSUME NEW i \in 1 .. Len(new) PROVE new[i] = list[to[i]] /\ list[to[i]] \in set
    <3>1. CASE i = n + 1
      BY <1>2, <2>1, <2>2, <3>1
    <3>2. CASE i \in 1 .. n
      BY <2>1, <2>2, <3>2 DEF Picks, n
    <3>. QED  BY <2>1, <3>1, <3>2
  <2>5. ASSUME NEW i \in 1 .. Len(new), NEW j \in 1 .. Len(new), i < j PROVE to[i] < to[j]
    <3>1. CASE j = n + 1
      BY <2>1, <2>2, <2>5, <3>1
    <3>2. CASE j \in 1 .. n
      BY <2>1, <2>2, <2>5, <3>2 DEF Picks, n
    <3>. QED  BY <2>1, <3>1, <3>2
  <2>6. ASSUME NEW j \in 1 .. k, list[j] \in set PROVE \E i \in 1 .. Len(new) : to[i] = j
    <3>1. CASE j = k
      BY <2>1, <2>2, <3>1
    <3>2. CASE j \in 1 .. k - 1
      <4>1. PICK i \in 1 .. n : at[i] = j
        BY <2>6, <3>2 DEF Picks, n
      <4>2. i \in 1 .. Len(new) /\ to[i] = j
        BY <2>1, <2>2, <4>1
      <4>. QED  BY <4>2
    <3>. QED  BY <3>1, <3>2
  <2>7. Picks(to, new, list, set, k)
    BY <2>3, <2>4, <2>5, <2>6 DEF Picks
  <2>. QED  BY <2>7 DEF new
<1>. QED  BY <1>1, <1>2

(* Selected(list, set) is what stands in list at the positions of the      *)
(* elements in set.                                                        *)
LEMMA SelectedPicks ==
  ASSUME NEW E, NEW list \in Seq(E), NEW set
  PROVE  /\ Selected(list, set) \in Seq(E)
         /\ \E at : Picks(at, Selected(list, set), list, set, Len(list))
<1>. DEFINE n == Len(list)
            step == [i \in 1 .. n |-> [l \in Seq(E) |->
                       IF list[i] \in set THEN Append(l, list[i]) ELSE l]]
            upTo[i \in 0 .. n] ==
              IF i = 0 THEN <<>>
              ELSE IF list[i] \in set THEN Append(upTo[i - 1], list[i]) ELSE upTo[i - 1]
            f == [i \in 0 .. n |-> IF i = 0 THEN <<>>
              ELSE IF list[i] \in set THEN Append(upTo[i - 1], list[i]) ELSE upTo[i - 1]]
<1>1. n \in Nat /\ <<>> \in Seq(E)
  OBVIOUS
<1>2. step \in [1 .. n -> [Seq(E) -> Seq(E)]]
  OBVIOUS
<1>3. PICK g \in [0 .. n -> Seq(E)] : Iterates(g, n, <<>>, step)
  <2>. HIDE DEF step, n
  <2>. QED  BY ONLY <1>1, <1>2, Iteration
<1>4. g = [i \in 0 .. n |-> IF i = 0 THEN <<>>
              ELSE IF list[i] \in set THEN Append(g[i - 1], list[i]) ELSE g[i - 1]]
  <2>1. \A i \in 1 .. n : g[i - 1] \in Seq(E)
    BY <1>1
  <2>2. \A i \in 1 .. n : g[i] = IF list[i] \in set THEN Append(g[i - 1], list[i]) ELSE g[i - 1]
    BY <1>1, <1>3, <2>1 DEF Iterates
  <2>3. \A i \in 0 .. n : i = 0 \/ i \in 1 .. n
    BY <1>1
  <2>. HIDE DEF n
  <2>. QED  BY <1>3, <2>2, <2>3 DEF Iterates
<1>5. upTo = f
  BY <1>4
<1>6. Selected(list, set) = upTo[n]
  BY DEF Selected
<1>. HIDE DEF upTo
<1>7. upTo[0] = <<>>
  BY <1>1, <1>5
<1>8. ASSUME NEW i \in 1 .. n
      PROVE  upTo[i] = IF list[i] \in set THEN Append(upTo[i - 1], list[i]) ELSE upTo[i - 1]
  <2>1. i \in 0 .. n /\ i # 0
    BY <1>1
  <2>2. f[i] = IF list[i] \in set THEN Append(upTo[i - 1], list[i]) ELSE upTo[i - 1]
    BY <2>1
  <2>. HIDE DEF f
  <2>. QED  BY <1>5, <2>2
<1>. HIDE DEF f, step, n
<1>. DEFINE T == {k \in 0 .. n : /\ upTo[k] \in Seq(E)
                                /\ \E at : Picks(at, upTo[k], list, set, k)}
<1>9. 0 \in T
  <2>1. Picks(<<>>, upTo[0], list, set, 0)
    BY <1>7, PicksNothing
  <2>2. upTo[0] \in Seq(E) /\ 0 \in 0 .. n
    BY <1>1, <1>7
  <2>. QED  BY <2>1, <2>2
<1>10. ASSUME NEW k \in 1 .. n, k - 1 \in T PROVE k \in T
  <2>1. upTo[k - 1] \in Seq(E) /\ \E at : Picks(at, upTo[k - 1], list, set, k - 1)
    BY <1>10
  <2>2. PICK at : Picks(at, upTo[k - 1], list, set, k - 1)
    BY <2>1
  <2>3. list[k] \in E /\ k \in 1 .. Len(list)
    BY DEF n
  <2>4. /\ list[k] \notin set => Picks(at, upTo[k - 1], list, set, k)
        /\ list[k] \in set => \E to : Picks(to, Append(upTo[k - 1], list[k]), list, set, k)
    BY <2>1, <2>2, <2>3, PickOneMore
  <2>5. upTo[k] \in Seq(E)
    <3>1. Append(upTo[k - 1], list[k]) \in Seq(E)
      BY <2>1, <2>3, AppendProperties
    <3>. QED  BY <1>8, <2>1, <3>1
  <2>6. \E to : Picks(to, upTo[k], list, set, k)
    <3>1. CASE list[k] \in set
      BY <1>8, <2>4, <3>1
    <3>2. CASE list[k] \notin set
      BY <1>8, <2>4, <3>2
    <3>. QED  BY <3>1, <3>2
  <2>7. k \in 0 .. n
    BY <1>1
  <2>. QED  BY <2>5, <2>6, <2>7
<1>11. n \in T
  <2>. HIDE DEF T
  <2>1. \A i \in 1 .. n : i - 1 \in T => i \in T
    BY <1>10
  <2>2. 0 .. n \subseteq T
    BY ONLY <1>1, <1>9, <2>1, UpTo
  <2>. QED  BY <1>1, <2>2
<1>. QED  BY <1>11, <1>6 DEF n

Elements(list) == {list[i] : i \in DOMAIN list}

(* What is selected are the elements of the list that are in the set.      *)
LEMMA SelectedElements ==
  ASSUME NEW E, NEW list \in Seq(E), NEW set
  PROVE  /\ Selected(list, set) \in Seq(E)
         /\ Elements(Selected(list, set)) = Elements(list) \cap set
<1>. DEFINE sel == Selected(list, set)
<1>1. sel \in Seq(E)
  BY SelectedPicks
<1>2. PICK at : Picks(at, sel, list, set, Len(list))
  BY SelectedPicks
<1>3. Len(sel) \in Nat /\ DOMAIN sel = 1 .. Len(sel) /\ DOMAIN list = 1 .. Len(list)
  BY <1>1
<1>. HIDE DEF sel
<1>4. ASSUME NEW i \in DOMAIN sel PROVE sel[i] \in Elements(list) \cap set
  <2>1. at[i] \in 1 .. Len(list) /\ sel[i] = list[at[i]] /\ list[at[i]] \in set
    BY <1>2, <1>3, <1>4 DEF Picks
  <2>. QED  BY <1>3, <2>1 DEF Elements
<1>5. ASSUME NEW j \in DOMAIN list, list[j] \in set PROVE \E i \in DOMAIN sel : sel[i] = list[j]
  <2>1. PICK i \in 1 .. Len(sel) : at[i] = j
    BY <1>2, <1>3, <1>5 DEF Picks
  <2>. QED  BY <1>2, <1>3, <2>1 DEF Picks
<1>6. Elements(sel) = Elements(list) \cap set
  BY <1>4, <1>5 DEF Elements
<1>. QED  BY <1>1, <1>6 DEF sel

(* What the elements of a list tell apart still tells those selected apart.*)
LEMMA SelectedApart ==
  ASSUME NEW E, NEW list \in Seq(E), NEW set, NEW f,
         \A i, j \in DOMAIN list : f[list[i]] = f[list[j]] => i = j
  PROVE  \A i, j \in DOMAIN Selected(list, set) :
            f[Selected(list, set)[i]] = f[Selected(list, set)[j]] => i = j
<1>. DEFINE sel == Selected(list, set)
<1>1. sel \in Seq(E)
  BY SelectedPicks
<1>2. PICK at : Picks(at, sel, list, set, Len(list))
  BY SelectedPicks
<1>3. Len(sel) \in Nat /\ DOMAIN sel = 1 .. Len(sel) /\ DOMAIN list = 1 .. Len(list)
  BY <1>1
<1>. HIDE DEF sel
<1>4. ASSUME NEW i \in DOMAIN sel, NEW j \in DOMAIN sel, f[sel[i]] = f[sel[j]] PROVE i = j
  <2>1. at[i] \in DOMAIN list /\ at[j] \in DOMAIN list /\ sel[i] = list[at[i]] /\ sel[j] = list[at[j]]
    BY <1>2, <1>3 DEF Picks
  <2>2. at[i] = at[j]
    BY <1>4, <2>1
  <2>3. i \in 1 .. Len(sel) /\ j \in 1 .. Len(sel) /\ at[i] \in Int /\ at[j] \in Int
    BY <1>3, <2>1
  <2>4. ~(i < j) /\ ~(j < i)
    BY <1>2, <2>2, <2>3 DEF Picks
  <2>. QED  BY <2>3, <2>4
<1>. QED  BY <1>4 DEF sel

-----------------------------------------------------------------------------
(* Lists in order.                                                         *)

(* What is selected keeps any order that the list is in.                   *)
LEMMA SelectedInOrder ==
  ASSUME NEW E, NEW list \in Seq(E), NEW set, NEW R,
         \A i, j \in DOMAIN list : i < j => <<list[i], list[j]>> \in R
  PROVE  \A i, j \in DOMAIN Selected(list, set) :
            i < j => <<Selected(list, set)[i], Selected(list, set)[j]>> \in R
<1>. DEFINE sel == Selected(list, set)
<1>1. sel \in Seq(E)
  BY SelectedPicks
<1>2. PICK at : Picks(at, sel, list, set, Len(list))
  BY SelectedPicks
<1>3. Len(sel) \in Nat /\ DOMAIN sel = 1 .. Len(sel) /\ DOMAIN list = 1 .. Len(list)
  BY <1>1
<1>. HIDE DEF sel
<1>4. ASSUME NEW i \in DOMAIN sel, NEW j \in DOMAIN sel, i < j PROVE <<sel[i], sel[j]>> \in R
  <2>1. at[i] \in DOMAIN list /\ at[j] \in DOMAIN list /\ sel[i] = list[at[i]] /\ sel[j] = list[at[j]]
    BY <1>2, <1>3 DEF Picks
  <2>2. at[i] < at[j]
    BY <1>2, <1>3, <1>4 DEF Picks
  <2>. QED  BY <2>1, <2>2
<1>. QED  BY <1>4 DEF sel

(* Sequences of numbers that go up, or down.                               *)
Ascends(u) == \A i, j \in DOMAIN u : i < j => u[i] < u[j]

Descending(u) == \A i, j \in DOMAIN u : i < j => u[j] < u[i]

Falls(u, n) == \A i, j \in 1 .. n : i < j => u[j] < u[i]

Within(u, n, v, k) == \A i \in 1 .. n : \E j \in 1 .. k : u[i] = v[j]

(* A list that descends is known by its elements.                          *)
LEMMA OneDescent ==
  ASSUME NEW n \in Nat, NEW k \in Nat, n <= k,
         NEW u \in [1 .. n -> Nat], NEW v \in [1 .. k -> Nat],
         Falls(u, n), Falls(v, k), Within(u, n, v, k), Within(v, k, u, n)
  PROVE  n = k /\ \A i \in 1 .. n : u[i] = v[i]
<1>. DEFINE T == {i \in 0 .. n : \A j \in 1 .. i : u[j] = v[j]}
<1>1. ASSUME NEW i \in 1 .. n, i - 1 \in T PROVE i \in T
  <2>1. \A j \in 1 .. i - 1 : u[j] = v[j]
    BY <1>1
  <2>2. i \in 1 .. k
    OBVIOUS
  <2>3. PICK h \in 1 .. k : u[i] = v[h]
    BY DEF Within
  <2>4. PICK m \in 1 .. n : v[i] = u[m]
    BY <2>2 DEF Within
  <2>5. ~(h < i)
    <3>. SUFFICES ASSUME h < i PROVE FALSE
      OBVIOUS
    <3>1. h \in 1 .. i - 1 /\ h \in 1 .. n
      OBVIOUS
    <3>2. u[h] = u[i] /\ u[i] < u[h]
      BY <2>1, <2>3, <3>1 DEF Falls
    <3>. QED  BY <3>1, <3>2
  <2>6. ~(m < i)
    <3>. SUFFICES ASSUME m < i PROVE FALSE
      OBVIOUS
    <3>1. m \in 1 .. i - 1 /\ m \in 1 .. k
      OBVIOUS
    <3>2. v[m] = v[i] /\ v[i] < v[m]
      BY <2>1, <2>2, <2>4, <3>1 DEF Falls
    <3>. QED  BY <3>1, <3>2
  <2>7. v[h] <= v[i]
    <3>1. CASE h = i
      BY <2>2, <3>1
    <3>2. CASE i < h
      BY <2>2, <3>2 DEF Falls
    <3>. QED  BY <2>5, <3>1, <3>2
  <2>8. u[m] <= u[i]
    <3>1. CASE m = i
      BY <3>1
    <3>2. CASE i < m
      BY <3>2 DEF Falls
    <3>. QED  BY <2>6, <3>1, <3>2
  <2>9. u[i] = v[i]
    BY <2>2, <2>3, <2>4, <2>7, <2>8
  <2>10. \A j \in 1 .. i : j \in 1 .. i - 1 \/ j = i
    OBVIOUS
  <2>11. i \in 0 .. n /\ \A j \in 1 .. i : u[j] = v[j]
    BY <2>1, <2>9, <2>10
  <2>. QED  BY <2>11
<1>2. 0 .. n \subseteq T
  <2>1. 0 \in T
    OBVIOUS
  <2>. HIDE DEF T
  <2>. QED  BY <1>1, <2>1, UpTo
<1>3. \A i \in 1 .. n : u[i] = v[i]
  <2>1. n \in T
    <3>. HIDE DEF T
    <3>. QED  BY <1>2
  <2>. QED  BY <2>1
<1>4. n = k
  <2>. SUFFICES ASSUME n < k PROVE FALSE
    OBVIOUS
  <2>1. k \in 1 .. k /\ n \in 0 .. k
    OBVIOUS
  <2>2. PICK i \in 1 .. n : u[i] = v[k]
    BY <2>1 DEF Within
  <2>3. i \in 1 .. k /\ i < k /\ v[i] = v[k]
    BY <1>3, <2>2
  <2>. QED  BY <2>1, <2>3 DEF Falls
<1>. QED  BY <1>3, <1>4

(* The same of sequences.                                                  *)
LEMMA SameDescent ==
  ASSUME NEW u \in Seq(Nat), NEW v \in Seq(Nat), Descending(u), Descending(v), Elements(u) = Elements(v)
  PROVE  u = v
<1>. DEFINE n == Len(u)
            k == Len(v)
<1>1. /\ n \in Nat /\ k \in Nat /\ DOMAIN u = 1 .. n /\ DOMAIN v = 1 .. k
      /\ u \in [1 .. n -> Nat] /\ v \in [1 .. k -> Nat]
  OBVIOUS
<1>. HIDE DEF n, k
<1>2. Falls(u, n) /\ Falls(v, k)
  BY <1>1 DEF Descending, Falls
<1>3. Within(u, n, v, k) /\ Within(v, k, u, n)
  <2>1. Elements(u) = {u[i] : i \in 1 .. n} /\ Elements(v) = {v[i] : i \in 1 .. k}
    BY <1>1 DEF Elements
  <2>. QED  BY <2>1 DEF Within
<1>4. n = k /\ \A i \in 1 .. n : u[i] = v[i]
  <2>1. CASE n <= k
    BY ONLY <1>1, <1>2, <1>3, <2>1, OneDescent, SMTT(60)
  <2>2. CASE k <= n
    <3>1. k = n /\ \A i \in 1 .. k : v[i] = u[i]
      BY ONLY <1>1, <1>2, <1>3, <2>2, OneDescent, SMTT(60)
    <3>. QED  BY <3>1
  <2>. QED  BY <1>1, <2>1, <2>2
<1>. QED  BY <1>4, SeqEqual DEF n, k
=============================================================================
