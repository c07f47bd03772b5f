------------------------- MODULE A314ChannelsProofs --------------------------
(***************************************************************************)
(* The tables of the A314 thread and the sockets of a314.device, for any   *)
(* applications, clients, ring sizes and number of resets of the Amiga.    *)
(*                                                                         *)
(* Neither TablesAgree nor RequestsHeld is inductive: a handler breaks and *)
(* mends them between its calls.  Each function of a314.cc therefore has a *)
(* lemma that says what it does to TabledBut(p, i): the tables of p agree, *)
(* but for the channel i that is being changed.  Each function of the      *)
(* driver has one that says what it does to the requests replied to and to *)
(* the requests in the sockets, which Sound makes the same set.  What the  *)
(* driver needs besides: a CLOSED socket holds nothing (Quiet), an         *)
(* application has one socket (OneEach), and a new socket's id is free,    *)
(* because there are more ids than applications (IdIsFree).                *)
(***************************************************************************)
EXTENDS A314Channels, TLAPS, NaturalsInduction, SequenceTheorems, FiniteSetTheorems,
        WellFoundedInduction

Elems(q) == {q[k] : k \in DOMAIN q}

\* A set of naturals that is not empty has a least element.
LEMMA Least ==
  ASSUME NEW S \in SUBSET Nat, S # {}
  PROVE  \E x \in S : \A y \in S : x <= y
<1> DEFINE R == OpToRel(<, Nat)
<1>1. PICK x \in S : \A y \in S : ~(<<y, x>> \in R)
  <2>1. IsWellFoundedOn(R, Nat)
    BY NatLessThanWellFounded
  <2> HIDE DEF R
  <2>2. QED
    BY <2>1, WFMin
<1>2. \A y \in S : x <= y
  <2>1. ASSUME NEW y \in S, ~(x <= y) PROVE FALSE
    <3>1. y < x /\ x \in Nat /\ y \in Nat
      BY <2>1
    <3>2. <<y, x>> \in R
      BY <3>1 DEF OpToRel
    <3>3. QED
      BY <3>2, <1>1
  <2>2. QED
    BY <2>1
<1>3. QED
  BY <1>2

-----------------------------------------------------------------------------
(* Queues. *)

\* The function that walks over a queue exists.
IsLeft(l, q, S, N) == l = [n \in 0..N |-> CASE n = 0 -> <<>>
                                            [] n > 0 /\ q[n] \in S -> l[n - 1]
                                            [] OTHER -> Append(l[n - 1], q[n])]
LEMMA LeftExists ==
  ASSUME NEW q, NEW S, NEW N \in Nat
  PROVE  \E l : IsLeft(l, q, S, N)
<1> DEFINE Next1(l, n) == CASE n = 0 -> <<>>
                            [] n > 0 /\ q[n] \in S -> l[n - 1]
                            [] OTHER -> Append(l[n - 1], q[n])
           Ok(M) == \E l : l = [n \in 0..M |-> Next1(l, n)]
           Bad == {M \in Nat : ~Ok(M)}
<1>1. ASSUME Bad # {} PROVE FALSE
  <2>1. PICK M \in Bad : \A K \in Bad : M <= K
    BY <1>1, Least
  <2>2. CASE M = 0
    <3>1. [n \in 0..0 |-> <<>>] = [n \in 0..0 |-> Next1([m \in 0..0 |-> <<>>], n)]
      OBVIOUS
    <3>2. Ok(0)
      BY <3>1
    <3>3. QED
      BY <2>1, <2>2, <3>2
  <2>3. CASE M # 0
    <3>1. M - 1 \in Nat /\ M \in Nat /\ M - 1 \notin Bad
      BY <2>1, <2>3
    <3>2. PICK l : l = [n \in 0..(M - 1) |-> Next1(l, n)]
      BY <3>1
    <3> DEFINE g == [n \in 0..M |-> IF n = M THEN Next1(l, M) ELSE l[n]]
    <3>3. \A n \in 0..M : g[n] = Next1(g, n)
      <4>1. TAKE n \in 0..M
      <4>2. \A m \in 0..(M - 1) : g[m] = l[m]
        BY <3>1
      <4>3. n # 0 => n - 1 \in 0..(M - 1)
        BY <3>1
      <4>4. Next1(g, n) = Next1(l, n)
        BY <4>2, <4>3
      <4>5. CASE n = M
        BY <4>4, <4>5
      <4>6. CASE n # M
        <5>1. n \in 0..(M - 1)
          BY <4>6, <3>1
        <5>2. l[n] = Next1(l, n)
          BY <5>1, <3>2
        <5>3. QED
          BY <5>2, <4>4, <4>6
      <4>7. QED
        BY <4>5, <4>6
    <3>4. g = [n \in 0..M |-> Next1(g, n)]
      BY <3>3
    <3>5. Ok(M)
      BY <3>4
    <3>6. QED
      BY <3>5, <2>1
  <2>4. QED
    BY <2>2, <2>3
<1>2. Ok(N)
  BY <1>1
<1>3. QED
  BY <1>2 DEF IsLeft

\* What is left has the other elements and no new repetitions.
LEMMA WithoutAllLeaves ==
  ASSUME NEW T, NEW q \in Seq(T), NEW S
  PROVE  /\ WithoutAll(q, S) \in Seq(T)
         /\ Elems(WithoutAll(q, S)) = Elems(q) \ S
         /\ NoRepeats(q) => NoRepeats(WithoutAll(q, S))
<1> DEFINE N == Len(q)
           l == CHOOSE l : l = [n \in 0..N |-> CASE n = 0 -> <<>>
                                                [] n > 0 /\ q[n] \in S -> l[n - 1]
                                                [] OTHER -> Append(l[n - 1], q[n])]
<1>1. N \in Nat /\ DOMAIN q = 1..N /\ \A k \in 1..N : q[k] \in T
  <2>1. N \in Nat /\ DOMAIN q = 1..N
    BY LenProperties
  <2>2. \A k \in 1..N : q[k] \in T
    BY ElementOfSeq
  <2>3. QED
    BY <2>1, <2>2
<1>2. l = [n \in 0..N |-> CASE n = 0 -> <<>>
                            [] n > 0 /\ q[n] \in S -> l[n - 1]
                            [] OTHER -> Append(l[n - 1], q[n])]
  <2>1. \E g : IsLeft(g, q, S, N)
    BY <1>1, LeftExists
  <2>2. QED
    BY <2>1, Zenon DEF IsLeft
<1>3. WithoutAll(q, S) = l[N]
  BY Zenon DEF WithoutAll
<1> HIDE DEF l, N
<1>4. l[0] = <<>> /\ \A n \in 1..N : l[n] = IF q[n] \in S THEN l[n - 1] ELSE Append(l[n - 1], q[n])
  <2>1. 0 \in 0..N /\ \A n \in 1..N : n \in 0..N /\ n > 0 /\ n # 0
    BY <1>1
  <2>2. l[0] = <<>>
    BY <1>2, <2>1
  <2>3. ASSUME NEW n \in 1..N
        PROVE  l[n] = IF q[n] \in S THEN l[n - 1] ELSE Append(l[n - 1], q[n])
    <3>1. l[n] = CASE n = 0 -> <<>>
                   [] n > 0 /\ q[n] \in S -> l[n - 1]
                   [] OTHER -> Append(l[n - 1], q[n])
      BY <1>2, <2>1
    <3>2. QED
      BY <3>1, <2>1
  <2>4. QED
    BY <2>2, <2>3
<1> DEFINE Good(n) == /\ l[n] \in Seq(T)
                      /\ Elems(l[n]) = {q[k] : k \in 1..n} \ S
                      /\ NoRepeats(q) => NoRepeats(l[n])
           Bad == {n \in 0..N : ~Good(n)}
<1>5. ASSUME Bad # {} PROVE FALSE
  <2>1. PICK n \in Bad : \A k \in Bad : n <= k
    <3>1. Bad \in SUBSET Nat
      BY <1>1
    <3> HIDE DEF Bad
    <3>2. QED
      BY <1>5, <3>1, Least
  <2>2. n # 0
    <3>1. l[0] \in Seq(T) /\ DOMAIN l[0] = {}
      BY <1>4
    <3>2. Elems(l[0]) = {} /\ NoRepeats(l[0])
      BY <3>1 DEF Elems, NoRepeats
    <3>3. {q[k] : k \in 1..0} \ S = {}
      OBVIOUS
    <3>4. Good(0)
      BY <3>1, <3>2, <3>3
    <3>5. QED
      BY <3>4, <2>1
  <2>3. n \in 1..N /\ n - 1 \in 0..N /\ n - 1 \notin Bad
    <3>1. n \in 0..N
      BY <2>1
    <3>2. n \in 1..N /\ n - 1 \in 0..N /\ ~(n <= n - 1)
      BY <3>1, <2>2, <1>1
    <3>3. QED
      BY <2>1, <3>2
  <2>4. Good(n - 1)
    BY <2>3
  <2>5. \A x : x \in {q[k] : k \in 1..n} <=> x \in {q[k] : k \in 1..(n - 1)} \/ x = q[n]
    BY <2>3, <1>1
  <2>6. CASE q[n] \in S
    <3>1. l[n] = l[n - 1]
      BY <1>4, <2>3, <2>6
    <3>2. {q[k] : k \in 1..n} \ S = {q[k] : k \in 1..(n - 1)} \ S
      BY <2>5, <2>6
    <3>3. Good(n)
      BY <2>4, <3>1, <3>2
    <3>4. QED
      BY <3>3, <2>1
  <2>7. CASE q[n] \notin S
    <3>1. l[n] = Append(l[n - 1], q[n])
      BY <1>4, <2>3, <2>7
    <3> DEFINE w == l[n - 1]
               v == l[n]
    <3>2. w \in Seq(T) /\ q[n] \in T /\ v = Append(w, q[n])
      BY <2>4, <3>1, <2>3, <1>1
    <3>3. Elems(w) = {q[k] : k \in 1..(n - 1)} \ S /\ (NoRepeats(q) => NoRepeats(w))
      BY <2>4
    <3> HIDE DEF w, v
    <3>4. /\ v \in Seq(T) /\ Len(w) \in Nat /\ DOMAIN w = 1..Len(w) /\ DOMAIN v = 1..(Len(w) + 1)
          /\ v[Len(w) + 1] = q[n] /\ \A k \in 1..Len(w) : v[k] = w[k]
      BY <3>2
    <3>5. Elems(v) = Elems(w) \union {q[n]}
      BY <3>4 DEF Elems
    <3>6. Elems(v) = {q[k] : k \in 1..n} \ S
      BY <3>5, <3>3, <2>5, <2>7
    <3>7. ASSUME NoRepeats(q) PROVE NoRepeats(v)
      <4>1. \A k \in 1..(n - 1) : q[k] # q[n]
        BY <3>7, <1>1, <2>3 DEF NoRepeats
      <4>2. \A k \in 1..Len(w) : w[k] # q[n]
        <5>1. TAKE k \in 1..Len(w)
        <5>2. w[k] \in Elems(w)
          BY <3>4 DEF Elems
        <5>3. \E j \in 1..(n - 1) : w[k] = q[j]
          BY <5>2, <3>3
        <5>4. QED
          BY <5>3, <4>1
      <4>3. \A j, k \in 1..Len(w) : w[j] = w[k] => j = k
        BY <3>3, <3>4, <3>7 DEF NoRepeats
      <4>4. \A k \in 1..(Len(w) + 1) : k \in 1..Len(w) \/ k = Len(w) + 1
        BY <3>4
      <4>5. \A j, k \in 1..(Len(w) + 1) : v[j] = v[k] => j = k
        BY <4>2, <4>3, <4>4, <3>4
      <4>6. QED
        BY <4>5, <3>4 DEF NoRepeats
    <3>8. Good(n)
      BY <3>4, <3>6, <3>7 DEF v
    <3>9. QED
      BY <3>8, <2>1
  <2>8. QED
    BY <2>6, <2>7
<1>6. Good(N)
  BY <1>5, <1>1
<1>7. Elems(q) = {q[k] : k \in 1..N}
  BY <1>1 DEF Elems
<1>8. QED
  BY <1>3, <1>6, <1>7

\* What lies in a queue.
LEMMA ElemsIn ==
  ASSUME NEW T, NEW q \in Seq(T)
  PROVE  /\ Elems(q) \subseteq T
         /\ Elems(q) = {} <=> q = <<>>
         /\ \A x : InQueue(x, q) <=> x \in Elems(q)
<1>1. Len(q) \in Nat /\ DOMAIN q = 1..Len(q) /\ \A k \in 1..Len(q) : q[k] \in T
  OBVIOUS
<1>2. Elems(q) \subseteq T
  BY <1>1 DEF Elems
<1>3. ASSUME Elems(q) = {} PROVE q = <<>>
  <2>1. ~(1 \in DOMAIN q)
    BY <1>3 DEF Elems
  <2>2. Len(q) = 0
    BY <1>1, <2>1
  <2>3. QED
    BY <2>2
<1>4. ASSUME q = <<>> PROVE Elems(q) = {}
  BY <1>4 DEF Elems
<1>5. \A x : InQueue(x, q) <=> x \in Elems(q)
  BY DEF InQueue, Elems
<1>6. QED
  BY <1>2, <1>3, <1>4, <1>5

\* The empty queue.
LEMMA NothingQueued ==
  ASSUME NEW T
  PROVE  <<>> \in Seq(T) /\ Elems(<<>>) = {} /\ NoRepeats(<<>>)
  BY DEF Elems, NoRepeats

\* Append adds one element, and keeps a queue free of repeats if it was not there.
LEMMA AppendAdds ==
  ASSUME NEW T, NEW q \in Seq(T), NEW x \in T
  PROVE  /\ Append(q, x) \in Seq(T) /\ Append(q, x) # <<>>
         /\ Elems(Append(q, x)) = Elems(q) \union {x}
         /\ NoRepeats(q) /\ x \notin Elems(q) => NoRepeats(Append(q, x))
<1> DEFINE v == Append(q, x)
           n == Len(q)
<1>1. /\ v \in Seq(T) /\ n \in Nat /\ DOMAIN q = 1..n /\ DOMAIN v = 1..(n + 1)
      /\ v[n + 1] = x /\ \A k \in 1..n : v[k] = q[k]
  OBVIOUS
<1>2. v # <<>>
  BY AppendProperties
<1> HIDE DEF v, n
<1>3. \A k \in 1..(n + 1) : k \in 1..n \/ k = n + 1
  BY <1>1
<1>4. Elems(v) = Elems(q) \union {x}
  BY <1>1 DEF Elems
<1>5. ASSUME NoRepeats(q), x \notin Elems(q) PROVE NoRepeats(v)
  <2>1. \A k \in 1..n : q[k] # x
    BY <1>1, <1>5 DEF Elems
  <2>2. \A j, k \in 1..n : q[j] = q[k] => j = k
    BY <1>1, <1>5 DEF NoRepeats
  <2>3. \A j, k \in 1..(n + 1) : v[j] = v[k] => j = k
    BY <1>1, <1>3, <2>1, <2>2
  <2>4. QED
    BY <1>1, <2>3 DEF NoRepeats
<1>6. QED
  BY <1>1, <1>2, <1>4, <1>5 DEF v

\* Taking the head leaves the other elements.
LEMMA TailLeaves ==
  ASSUME NEW T, NEW q \in Seq(T), q # <<>>
  PROVE  /\ Tail(q) \in Seq(T) /\ Len(Tail(q)) = Len(q) - 1 /\ Head(q) \in Elems(q) /\ Head(q) \in T
         /\ Elems(q) = {Head(q)} \union Elems(Tail(q))
         /\ NoRepeats(q) => NoRepeats(Tail(q)) /\ Head(q) \notin Elems(Tail(q))
<1> DEFINE v == Tail(q)
           n == Len(q)
<1>1. /\ v \in Seq(T) /\ n \in Nat \ {0} /\ DOMAIN q = 1..n /\ Len(v) = n - 1
      /\ DOMAIN v = 1..(n - 1) /\ Head(q) = q[1] /\ q[1] \in T /\ \A k \in 1..(n - 1) : v[k] = q[k + 1]
  <2>1. n \in Nat \ {0} /\ DOMAIN q = 1..n /\ Head(q) = q[1] /\ q[1] \in T
    OBVIOUS
  <2>2. /\ Tail(q) \in Seq(T) /\ Len(Tail(q)) = Len(q) - 1
        /\ \A k \in 1..Len(Tail(q)) : Tail(q)[k] = q[k + 1]
    BY HeadTailProperties
  <2>3. DOMAIN v = 1..Len(v)
    BY <2>2, LenProperties
  <2>4. QED
    BY <2>1, <2>2, <2>3
<1> HIDE DEF v, n
<1>2. /\ \A k \in 1..n : k = 1 \/ k - 1 \in 1..(n - 1)
      /\ \A k \in 1..(n - 1) : k + 1 \in 1..n /\ k + 1 # 1
      /\ 1 \in 1..n
      /\ \A k \in 1..n : (k - 1) + 1 = k
  BY <1>1
<1>3. Elems(q) = {q[1]} \union Elems(v)
  <2>1. ASSUME NEW k \in 1..n PROVE q[k] = q[1] \/ q[k] \in Elems(v)
    <3>1. CASE k - 1 \in 1..(n - 1)
      <4>1. v[k - 1] = q[k]
        BY <1>1, <1>2, <3>1
      <4>2. QED
        BY <4>1, <3>1, <1>1 DEF Elems
    <3>2. QED
      BY <3>1, <1>2
  <2>2. \A x \in Elems(v) : x \in Elems(q)
    BY <1>1, <1>2 DEF Elems
  <2>3. q[1] \in Elems(q)
    BY <1>1, <1>2 DEF Elems
  <2>4. \A x \in Elems(q) : \E k \in 1..n : x = q[k]
    BY <1>1 DEF Elems
  <2>5. QED
    BY <2>1, <2>2, <2>3, <2>4
<1>4. ASSUME NoRepeats(q) PROVE NoRepeats(v) /\ q[1] \notin Elems(v)
  <2>1. \A j, k \in 1..n : q[j] = q[k] => j = k
    BY <1>1, <1>4 DEF NoRepeats
  <2>2. ASSUME NEW j \in 1..(n - 1), NEW k \in 1..(n - 1), v[j] = v[k] PROVE j = k
    <3>1. q[j + 1] = q[k + 1]
      BY <1>1, <2>2
    <3>2. j + 1 = k + 1
      BY <3>1, <2>1, <1>2
    <3>3. QED
      BY <3>2
  <2>3. \A k \in 1..(n - 1) : v[k] # q[1]
    BY <2>1, <1>1, <1>2
  <2>4. QED
    BY <2>2, <2>3, <1>1 DEF NoRepeats, Elems
<1>5. QED
  BY <1>1, <1>3, <1>4 DEF v, n

\* Joining two queues.
LEMMA ConcatJoins ==
  ASSUME NEW T, NEW q \in Seq(T), NEW r \in Seq(T)
  PROVE  /\ q \o r \in Seq(T) /\ Len(q \o r) = Len(q) + Len(r)
         /\ Elems(q \o r) = Elems(q) \union Elems(r)
         /\ NoRepeats(q) /\ NoRepeats(r) /\ Elems(q) \intersect Elems(r) = {} => NoRepeats(q \o r)
<1> DEFINE v == q \o r
           n == Len(q)
           m == Len(r)
<1>1. /\ v \in Seq(T) /\ n \in Nat /\ m \in Nat /\ DOMAIN q = 1..n /\ DOMAIN r = 1..m
      /\ Len(v) = n + m /\ DOMAIN v = 1..(n + m) /\ \A k \in 1..n : v[k] = q[k]
  OBVIOUS
<1>2. \A k \in 1..(n + m) : v[k] = IF k <= n THEN q[k] ELSE r[k - n]
  OBVIOUS
<1> HIDE DEF v, n, m
<1>3. /\ \A k \in 1..(n + m) : (k <= n /\ k \in 1..n) \/ (~(k <= n) /\ k - n \in 1..m)
      /\ \A k \in 1..n : k \in 1..(n + m) /\ k <= n
      /\ \A k \in 1..m : n + k \in 1..(n + m) /\ ~(n + k <= n) /\ (n + k) - n = k
  BY <1>1
<1>4. Elems(v) = Elems(q) \union Elems(r)
  <2>1. ASSUME NEW k \in 1..(n + m) PROVE v[k] \in Elems(q) \union Elems(r)
    <3>1. CASE k <= n /\ k \in 1..n
      <4>1. v[k] = q[k]
        BY <1>1, <3>1
      <4>2. QED
        BY <4>1, <3>1, <1>1 DEF Elems
    <3>2. CASE ~(k <= n) /\ k - n \in 1..m
      <4>1. v[k] = r[k - n]
        BY <1>2, <3>2
      <4>2. QED
        BY <4>1, <3>2, <1>1 DEF Elems
    <3>3. QED
      BY <3>1, <3>2, <1>3
  <2>2. ASSUME NEW k \in 1..n PROVE q[k] \in Elems(v)
    BY <1>1, <1>3 DEF Elems
  <2>3. ASSUME NEW k \in 1..m PROVE r[k] \in Elems(v)
    <3>1. v[n + k] = r[k] /\ n + k \in DOMAIN v
      <4>1. n + k \in 1..(n + m) /\ ~(n + k <= n) /\ (n + k) - n = k
        BY <1>3
      <4>2. v[n + k] = r[(n + k) - n]
        BY <4>1, <1>2
      <4>3. QED
        BY <4>1, <4>2, <1>1
    <3>2. QED
      BY <3>1 DEF Elems
  <2>4. /\ \A x \in Elems(v) : \E k \in 1..(n + m) : x = v[k]
        /\ \A x \in Elems(q) : \E k \in 1..n : x = q[k]
        /\ \A x \in Elems(r) : \E k \in 1..m : x = r[k]
    BY <1>1 DEF Elems
  <2>5. QED
    BY <2>1, <2>2, <2>3, <2>4
<1>5. ASSUME NoRepeats(q), NoRepeats(r), Elems(q) \intersect Elems(r) = {} PROVE NoRepeats(v)
  <2>1. /\ \A j, k \in 1..n : q[j] = q[k] => j = k
        /\ \A j, k \in 1..m : r[j] = r[k] => j = k
    BY <1>1, <1>5 DEF NoRepeats
  <2>2. \A j \in 1..n, k \in 1..m : q[j] # r[k]
    <3>1. \A j \in 1..n, k \in 1..m : q[j] \in Elems(q) /\ r[k] \in Elems(r)
      BY <1>1 DEF Elems
    <3>2. QED
      BY <3>1, <1>5
  <2>3. ASSUME NEW j \in 1..(n + m), NEW k \in 1..(n + m), v[j] = v[k] PROVE j = k
    <3>1. CASE j <= n /\ k <= n
      BY <3>1, <2>1, <2>3, <1>2, <1>3
    <3>2. CASE ~(j <= n) /\ ~(k <= n)
      <4>1. r[j - n] = r[k - n] /\ j - n \in 1..m /\ k - n \in 1..m
        BY <3>2, <2>3, <1>2, <1>3
      <4>2. j - n = k - n
        BY <4>1, <2>1
      <4>3. QED
        BY <4>2, <1>1
    <3>3. CASE j <= n /\ ~(k <= n)
      BY <3>3, <2>2, <2>3, <1>2, <1>3
    <3>4. CASE ~(j <= n) /\ k <= n
      BY <3>4, <2>2, <2>3, <1>2, <1>3
    <3>5. QED
      BY <3>1, <3>2, <3>3, <3>4
  <2>4. QED
    BY <2>3, <1>1 DEF NoRepeats
<1>6. QED
  BY <1>1, <1>4, <1>5 DEF v, n, m

\* Unlinking one element leaves the others.
LEMMA WithoutLeaves ==
  ASSUME NEW T, NEW q \in Seq(T), NEW x
  PROVE  /\ Without(q, x) \in Seq(T)
         /\ Elems(Without(q, x)) = Elems(q) \ {x}
         /\ NoRepeats(q) => NoRepeats(Without(q, x))
  BY WithoutAllLeaves DEF Without

\* The helpers of the three modules are the same.
LEMMA SameHelpers ==
  ASSUME NEW q, NEW x
  PROVE  /\ Device!Without(q, x) = Without(q, x)
         /\ Thread!Without(q, x) = Without(q, x)
         /\ Thread!WithoutAll(q, x) = WithoutAll(q, x)
  BY DEF Device!Without, Thread!Without, Without, Device!WithoutAll, Thread!WithoutAll, WithoutAll

-----------------------------------------------------------------------------
(* The A314 thread. *)

AmigaPackets == [type : {"CONNECT", "DATA", "EOS", "RESET"}, id : Ids, data : Items]
PiPackets == [type : {"CONNECT_RESPONSE", "DATA", "EOS", "RESET"}, id : Ids, data : Items]
ToClient == [type : {"REGISTER_RES", "CONNECT", "DATA", "EOS", "RESET"}, sid : Nat, data : Items]
FromClient == [type : {"REGISTER_REQ", "CONNECT_RESPONSE", "DATA", "EOS", "RESET"}, sid : Nat,
               data : Items]

Channel == [association : Clients \union {NoOne}, stream_id : Nat,
            got_eos_from_ami : BOOLEAN, got_eos_from_client : BOOLEAN,
            packet_queue : Seq(PiPackets)]
ChannelMaps == UNION {[D -> Channel] : D \in SUBSET Ids}
ServiceMaps == UNION {[D -> Clients] : D \in SUBSET {Name[c] : c \in Clients}}
Conns == {"none", "up", "closed", "failed", "broken", "SIGPIPE"}

ThreadStates ==
  [channels : ChannelMaps, pi_queue : Seq(Ids), services : ServiceMaps,
   associations : [Clients -> Seq(Ids)], cc_next_stream_id : [Clients -> Nat],
   conn : [Clients -> Conns], toCli : [Clients -> Seq(ToClient)],
   fromCli : [Clients -> Seq(FromClient)]]

Full(p) == {i \in DOMAIN p.channels : p.channels[i].packet_queue # <<>>}
Of(p, c) == {i \in DOMAIN p.channels : p.channels[i].association = c}
Queued(p) == NoRepeats(p.pi_queue) /\ Elems(p.pi_queue) = Full(p)
Listed(p) ==
  \A c \in Clients : NoRepeats(p.associations[c]) /\ Elems(p.associations[c]) = Of(p, c)
Kept(p, i) ==
  \A j \in DOMAIN p.channels \ {i} :
    p.channels[j].association = NoOne => p.channels[j].packet_queue # <<>>

\* the tables of the thread agree, but for the channel i
TabledBut(p, i) == p \in ThreadStates /\ Queued(p) /\ Listed(p) /\ Kept(p, i)
Tabled(p) == TabledBut(p, 0)

\* A table of channels is a function on stream ids.
LEMMA MapsOfChannels ==
  /\ \A f \in ChannelMaps : /\ f = [i \in DOMAIN f |-> f[i]] /\ DOMAIN f \subseteq Ids
                            /\ \A i \in DOMAIN f : f[i] \in Channel
  /\ \A D \in SUBSET Ids : \A f \in [D -> Channel] : f \in ChannelMaps
  BY DEF ChannelMaps

\* A channel may be changed in place.
LEMMA ChannelReplaced ==
  ASSUME NEW f \in ChannelMaps, NEW i \in DOMAIN f, NEW x \in Channel
  PROVE  /\ [f EXCEPT ![i] = x] \in ChannelMaps
         /\ DOMAIN [f EXCEPT ![i] = x] = DOMAIN f
         /\ [f EXCEPT ![i] = x][i] = x
         /\ \A j \in DOMAIN f : j # i => [f EXCEPT ![i] = x][j] = f[j]
  BY MapsOfChannels

\* The fields of a channel.
LEMMA ChannelFields ==
  ASSUME NEW ch \in Channel
  PROVE  /\ ch.packet_queue \in Seq(PiPackets) /\ ch.association \in Clients \union {NoOne}
         /\ ch.stream_id \in Nat
         /\ \A s \in Seq(PiPackets) :
              LET y == [ch EXCEPT !.packet_queue = s] IN
              y \in Channel /\ y.association = ch.association /\ y.packet_queue = s
  BY DEF Channel

\* create_and_enqueue_packet: what it writes (a314.cc:759).
LEMMA EnqueueWrites ==
  ASSUME NEW p \in ThreadStates, NEW i \in DOMAIN p.channels,
         NEW t \in {"CONNECT_RESPONSE", "DATA", "EOS", "RESET"}, NEW x \in Items
  PROVE  LET q == Thread!create_and_enqueue_packet(p, i, t, x) IN
         /\ q \in ThreadStates
         /\ q.associations = p.associations
         /\ q.pi_queue = IF p.channels[i].packet_queue = <<>> THEN Append(p.pi_queue, i)
                                                              ELSE p.pi_queue
         /\ DOMAIN q.channels = DOMAIN p.channels
         /\ q.channels[i].association = p.channels[i].association
         /\ q.channels[i].packet_queue # <<>>
         /\ \A j \in DOMAIN p.channels : j # i => q.channels[j] = p.channels[j]
<1> DEFINE q == Thread!create_and_enqueue_packet(p, i, t, x)
           ch == p.channels[i]
           m == [type |-> t, id |-> i, data |-> x]
           y == [ch EXCEPT !.packet_queue = Append(@, m)]
<1>1. /\ p.channels \in ChannelMaps /\ p.pi_queue \in Seq(Ids)
      /\ i \in Ids /\ ch \in Channel
  BY MapsOfChannels DEF ThreadStates
<1>2. m \in PiPackets
  BY <1>1 DEF PiPackets
<1> HIDE DEF m
<1>3. /\ Append(ch.packet_queue, m) \in Seq(PiPackets)
      /\ Append(ch.packet_queue, m) # <<>>
  BY <1>1, <1>2, ChannelFields, AppendProperties
<1>4. y \in Channel /\ y.association = ch.association /\ y.packet_queue # <<>>
  BY <1>1, <1>3, ChannelFields
<1>5. q = [p EXCEPT !.pi_queue = IF ch.packet_queue = <<>> THEN Append(@, i) ELSE @,
                    !.channels = [p.channels EXCEPT ![i] = y]]
  BY DEF Thread!create_and_enqueue_packet, Thread!Pkt, ThreadStates, m
<1> HIDE DEF q, y
<1>6. /\ q.pi_queue = IF ch.packet_queue = <<>> THEN Append(p.pi_queue, i) ELSE p.pi_queue
      /\ q.channels = [p.channels EXCEPT ![i] = y]
      /\ q.associations = p.associations
  BY <1>5 DEF ThreadStates
<1>7. q.pi_queue \in Seq(Ids)
  BY <1>6, <1>1
<1>8. q.channels \in ChannelMaps
  BY <1>6, <1>1, <1>4, ChannelReplaced
<1>9. q \in ThreadStates
  BY <1>5, <1>6, <1>7, <1>8 DEF ThreadStates
<1>10. QED
  BY <1>1, <1>4, <1>6, <1>9, ChannelReplaced DEF q

\* create_and_enqueue_packet mends the tables: the channel has a packet and is in send_queue.
LEMMA EnqueueTables ==
  ASSUME NEW p, NEW i \in DOMAIN p.channels, TabledBut(p, i),
         NEW t \in {"CONNECT_RESPONSE", "DATA", "EOS", "RESET"}, NEW x \in Items
  PROVE  LET q == Thread!create_and_enqueue_packet(p, i, t, x) IN
         /\ Tabled(q)
         /\ DOMAIN q.channels = DOMAIN p.channels
         /\ q.channels[i].association = p.channels[i].association
         /\ q.channels[i].packet_queue # <<>>
<1> DEFINE q == Thread!create_and_enqueue_packet(p, i, t, x)
<1>1. /\ p \in ThreadStates /\ p.pi_queue \in Seq(Ids) /\ i \in Ids
      /\ Queued(p) /\ Listed(p) /\ Kept(p, i)
  BY MapsOfChannels DEF TabledBut, ThreadStates
<1>2. /\ q \in ThreadStates
      /\ q.associations = p.associations
      /\ q.pi_queue = IF p.channels[i].packet_queue = <<>> THEN Append(p.pi_queue, i)
                                                           ELSE p.pi_queue
      /\ DOMAIN q.channels = DOMAIN p.channels
      /\ q.channels[i].association = p.channels[i].association
      /\ q.channels[i].packet_queue # <<>>
      /\ \A j \in DOMAIN p.channels : j # i => q.channels[j] = p.channels[j]
  BY <1>1, EnqueueWrites
<1> HIDE DEF q
<1>3. Full(q) = Full(p) \union {i}
  BY <1>2 DEF Full
<1>4. \A c : Of(q, c) = Of(p, c)
  BY <1>2 DEF Of
<1>5. Queued(q)
  <2>1. CASE p.channels[i].packet_queue = <<>>
    <3>1. i \notin Elems(p.pi_queue)
      BY <1>1, <2>1 DEF Queued, Full
    <3>2. NoRepeats(q.pi_queue) /\ Elems(q.pi_queue) = Elems(p.pi_queue) \union {i}
      BY <1>1, <1>2, <2>1, <3>1, AppendAdds DEF Queued
    <3>3. QED
      BY <1>1, <1>3, <3>2 DEF Queued
  <2>2. CASE p.channels[i].packet_queue # <<>>
    <3>1. Full(q) = Full(p)
      BY <1>3, <2>2 DEF Full
    <3>2. QED
      BY <1>1, <1>2, <2>2, <3>1 DEF Queued
  <2>3. QED
    BY <2>1, <2>2
<1>6. Listed(q)
  BY <1>1, <1>2, <1>4 DEF Listed
<1>7. Kept(q, 0)
  <2>1. 0 \notin Ids
    BY DEF Ids
  <2>2. QED
    BY <1>1, <1>2, <2>1 DEF Kept
<1>8. QED
  BY <1>2, <1>5, <1>6, <1>7 DEF Tabled, TabledBut, q

\* a channel whose fields change: same client, other packets; same packets, no client
LEMMA ClearWrites ==
  ASSUME NEW p \in ThreadStates, NEW i \in DOMAIN p.channels
  PROVE  LET q == Thread!clear_packet_queue(p, i) IN
         /\ q \in ThreadStates
         /\ q.associations = p.associations
         /\ q.pi_queue = Without(p.pi_queue, i)
         /\ DOMAIN q.channels = DOMAIN p.channels
         /\ q.channels[i].association = p.channels[i].association
         /\ q.channels[i].packet_queue = <<>>
         /\ \A j \in DOMAIN p.channels : j # i => q.channels[j] = p.channels[j]
<1> DEFINE q == Thread!clear_packet_queue(p, i)
           ch == p.channels[i]
           y == [ch EXCEPT !.packet_queue = <<>>]
<1>1. /\ p.channels \in ChannelMaps /\ p.pi_queue \in Seq(Ids) /\ ch \in Channel
  BY MapsOfChannels DEF ThreadStates
<1>2. y \in Channel /\ y.association = ch.association /\ y.packet_queue = <<>>
  BY <1>1, ChannelFields, NothingQueued
<1>3. q = [p EXCEPT !.pi_queue = Without(p.pi_queue, i),
                    !.channels = [p.channels EXCEPT ![i] = y]]
  BY SameHelpers DEF Thread!clear_packet_queue, ThreadStates
<1> HIDE DEF q, y
<1>4. /\ q.pi_queue = Without(p.pi_queue, i)
      /\ q.channels = [p.channels EXCEPT ![i] = y]
      /\ q.associations = p.associations
  BY <1>3 DEF ThreadStates
<1>5. q.pi_queue \in Seq(Ids) /\ q.channels \in ChannelMaps
  BY <1>4, <1>1, <1>2, ChannelReplaced, WithoutLeaves
<1>6. q \in ThreadStates
  BY <1>3, <1>4, <1>5 DEF ThreadStates
<1>7. QED
  BY <1>1, <1>2, <1>4, <1>6, ChannelReplaced DEF q

\* clear_packet_queue: the channel is then in no queue (a314.cc:752).
LEMMA ClearTables ==
  ASSUME NEW p, NEW i \in DOMAIN p.channels, TabledBut(p, i)
  PROVE  LET q == Thread!clear_packet_queue(p, i) IN
         /\ TabledBut(q, i)
         /\ DOMAIN q.channels = DOMAIN p.channels
         /\ q.channels[i].association = p.channels[i].association
<1> DEFINE q == Thread!clear_packet_queue(p, i)
<1>1. /\ p \in ThreadStates /\ p.pi_queue \in Seq(Ids)
      /\ Queued(p) /\ Listed(p) /\ Kept(p, i)
  BY DEF TabledBut, ThreadStates
<1>2. /\ q \in ThreadStates
      /\ q.associations = p.associations
      /\ q.pi_queue = Without(p.pi_queue, i)
      /\ DOMAIN q.channels = DOMAIN p.channels
      /\ q.channels[i].association = p.channels[i].association
      /\ q.channels[i].packet_queue = <<>>
      /\ \A j \in DOMAIN p.channels : j # i => q.channels[j] = p.channels[j]
  BY <1>1, ClearWrites
<1> HIDE DEF q
<1>3. Full(q) = Full(p) \ {i}
  BY <1>2 DEF Full
<1>4. \A c : Of(q, c) = Of(p, c)
  BY <1>2 DEF Of
<1>5. Queued(q)
  BY <1>1, <1>2, <1>3, WithoutLeaves DEF Queued
<1>6. Listed(q)
  BY <1>1, <1>2, <1>4 DEF Listed
<1>7. Kept(q, i)
  BY <1>1, <1>2 DEF Kept
<1>8. QED
  BY <1>2, <1>5, <1>6, <1>7 DEF TabledBut, q

\* remove_association: what it writes (a314.cc:744).
LEMMA UnlistWrites ==
  ASSUME NEW p \in ThreadStates, NEW i \in DOMAIN p.channels, p.channels[i].association \in Clients
  PROVE  LET q == Thread!remove_association(p, i)
             c == p.channels[i].association IN
         /\ q \in ThreadStates
         /\ q.associations = [p.associations EXCEPT ![c] = Without(@, i)]
         /\ q.pi_queue = p.pi_queue
         /\ DOMAIN q.channels = DOMAIN p.channels
         /\ q.channels[i].association = NoOne
         /\ q.channels[i].packet_queue = p.channels[i].packet_queue
         /\ \A j \in DOMAIN p.channels : j # i => q.channels[j] = p.channels[j]
<1> DEFINE q == Thread!remove_association(p, i)
           ch == p.channels[i]
           c == ch.association
           y == [[ch EXCEPT !.association = NoOne] EXCEPT !.stream_id = 0]
<1>1. /\ p.channels \in ChannelMaps /\ p.associations \in [Clients -> Seq(Ids)] /\ ch \in Channel
  BY MapsOfChannels DEF ThreadStates
<1>2. y \in Channel /\ y.association = NoOne /\ y.packet_queue = ch.packet_queue
  BY <1>1 DEF Channel
<1>3. q = [p EXCEPT !.associations = [p.associations EXCEPT ![c] = Without(@, i)],
                    !.channels = [p.channels EXCEPT ![i] = y]]
  BY <1>1, SameHelpers DEF Thread!remove_association, ThreadStates, ChannelMaps
<1> HIDE DEF q, y
<1>4. /\ q.associations = [p.associations EXCEPT ![c] = Without(@, i)]
      /\ q.channels = [p.channels EXCEPT ![i] = y]
      /\ q.pi_queue = p.pi_queue
  BY <1>3 DEF ThreadStates
<1>5. q.associations \in [Clients -> Seq(Ids)] /\ q.channels \in ChannelMaps
  <2>1. Without(p.associations[c], i) \in Seq(Ids)
    BY <1>1, WithoutLeaves
  <2>2. QED
    BY <1>4, <1>1, <1>2, <2>1, ChannelReplaced
<1>6. q \in ThreadStates
  BY <1>3, <1>4, <1>5 DEF ThreadStates
<1>7. QED
  BY <1>1, <1>2, <1>4, <1>6, ChannelReplaced DEF q

\* remove_association leaves the channel without a client and off its list.
LEMMA UnlistTables ==
  ASSUME NEW p, NEW i \in DOMAIN p.channels, TabledBut(p, i),
         p.channels[i].association \in Clients
  PROVE  LET q == Thread!remove_association(p, i) IN
         /\ TabledBut(q, i)
         /\ DOMAIN q.channels = DOMAIN p.channels
         /\ q.channels[i].packet_queue = p.channels[i].packet_queue
<1> DEFINE q == Thread!remove_association(p, i)
           c == p.channels[i].association
<1>1. /\ p \in ThreadStates /\ p.associations \in [Clients -> Seq(Ids)]
      /\ Queued(p) /\ Listed(p) /\ Kept(p, i)
  BY DEF TabledBut, ThreadStates
<1>2. /\ q \in ThreadStates
      /\ q.associations = [p.associations EXCEPT ![c] = Without(@, i)]
      /\ q.pi_queue = p.pi_queue
      /\ DOMAIN q.channels = DOMAIN p.channels
      /\ q.channels[i].association = NoOne
      /\ q.channels[i].packet_queue = p.channels[i].packet_queue
      /\ \A j \in DOMAIN p.channels : j # i => q.channels[j] = p.channels[j]
  BY <1>1, UnlistWrites
<1> HIDE DEF q
<1>3. Full(q) = Full(p)
  BY <1>2 DEF Full
<1>4. \A d \in Clients : Of(q, d) = Of(p, d) \ (IF d = c THEN {i} ELSE {})
  BY <1>2, ClientAssumption DEF Of, ClientAssumption
<1>5. Queued(q)
  BY <1>1, <1>2, <1>3 DEF Queued
<1>6. Listed(q)
  <2>1. ASSUME NEW d \in Clients
        PROVE  NoRepeats(q.associations[d]) /\ Elems(q.associations[d]) = Of(q, d)
    <3>1. p.associations[d] \in Seq(Ids) /\ NoRepeats(p.associations[d])
          /\ Elems(p.associations[d]) = Of(p, d)
      BY <1>1 DEF Listed
    <3>2. CASE d = c
      <4>1. q.associations[d] = Without(p.associations[d], i)
        BY <1>1, <1>2, <3>2
      <4>2. Of(q, d) = Of(p, d) \ {i}
        BY <1>4, <3>2
      <4>3. QED
        BY <3>1, <4>1, <4>2, WithoutLeaves
    <3>3. CASE d # c
      <4>1. q.associations[d] = p.associations[d]
        BY <1>1, <1>2, <3>3
      <4>2. Of(q, d) = Of(p, d)
        BY <1>4, <3>3
      <4>3. QED
        BY <3>1, <4>1, <4>2
    <3>4. QED
      BY <3>2, <3>3
  <2>2. QED
    BY <2>1 DEF Listed
<1>7. Kept(q, i)
  BY <1>1, <1>2 DEF Kept
<1>8. QED
  BY <1>2, <1>5, <1>6, <1>7 DEF TabledBut, q

\* a state with the same tables
LEMMA SameTables ==
  ASSUME NEW p, NEW q \in ThreadStates, NEW i, TabledBut(p, i),
         q.channels = p.channels, q.pi_queue = p.pi_queue, q.associations = p.associations
  PROVE  TabledBut(q, i)
  BY DEF TabledBut, Queued, Listed, Kept, Full, Of

\* How far a lost connection has been noticed stays one of the stages.
LEMMA AfterWritesType ==
  ASSUME NEW x \in Conns, NEW k \in Nat
  PROVE  Thread!AfterWrites(x, k) \in Conns
<1> DEFINE at == {n \in DOMAIN Thread!Stages : Thread!Stages[n] = x}
           n == CHOOSE n \in at : TRUE
<1>1. /\ DOMAIN Thread!Stages = 1..4
      /\ \A j \in 1..4 : Thread!Stages[j] \in Conns
  BY DEF Thread!Stages, Conns
<1>2. CASE at = {} \/ k = 0
  BY <1>2 DEF Thread!AfterWrites
<1>3. CASE ~(at = {} \/ k = 0)
  <2>1. n \in 1..4
    BY <1>1, <1>3
  <2>2. Thread!AfterWrites(x, k) = Thread!Stages[IF n + k > 4 THEN 4 ELSE n + k]
    BY <1>3 DEF Thread!AfterWrites
  <2> HIDE DEF n
  <2>3. (IF n + k > 4 THEN 4 ELSE n + k) \in 1..4
    BY <2>1
  <2>4. QED
    BY <1>1, <2>2, <2>3
<1>4. QED
  BY <1>2, <1>3

\* create_and_send_msg touches the connection alone (a314.cc:430).
LEMMA MsgWrites ==
  ASSUME NEW p \in ThreadStates, NEW c \in Clients, NEW m \in ToClient
  PROVE  LET q == Thread!create_and_send_msg(p, c, m) IN
         /\ q \in ThreadStates
         /\ q.channels = p.channels /\ q.pi_queue = p.pi_queue /\ q.associations = p.associations
         /\ q.services = p.services
<1> DEFINE q == Thread!create_and_send_msg(p, c, m)
           to == IF p.conn[c] = "up" THEN Append(p.toCli[c], m) ELSE p.toCli[c]
<1>1. /\ p.conn \in [Clients -> Conns] /\ p.toCli \in [Clients -> Seq(ToClient)]
  BY DEF ThreadStates
<1>2. to \in Seq(ToClient) /\ Thread!AfterWrites(p.conn[c], 1) \in Conns
  BY <1>1, AfterWritesType
<1>3. q = [p EXCEPT !.toCli = [p.toCli EXCEPT ![c] = to],
                    !.conn = [p.conn EXCEPT ![c] = Thread!AfterWrites(@, 1)]]
  BY DEF Thread!create_and_send_msg, ThreadStates
<1> HIDE DEF q, to
<1>4. /\ [p.toCli EXCEPT ![c] = to] \in [Clients -> Seq(ToClient)]
      /\ [p.conn EXCEPT ![c] = Thread!AfterWrites(@, 1)] \in [Clients -> Conns]
  BY <1>1, <1>2
<1>5. q \in ThreadStates
  BY <1>3, <1>4 DEF ThreadStates
<1>6. QED
  BY <1>3, <1>5 DEF ThreadStates, q

\* create_and_send_msg leaves the tables alone.
LEMMA MsgTables ==
  ASSUME NEW p, NEW i, TabledBut(p, i), NEW c \in Clients, NEW m \in ToClient
  PROVE  LET q == Thread!create_and_send_msg(p, c, m) IN
         TabledBut(q, i) /\ q.channels = p.channels
<1>1. p \in ThreadStates
  BY DEF TabledBut
<1>2. QED
  BY <1>1, MsgWrites, SameTables

\* what the thread tells a client of a channel
LEMMA ForwardTables ==
  ASSUME NEW p, NEW k, TabledBut(p, k), NEW i \in DOMAIN p.channels,
         p.channels[i].association \in Clients,
         NEW t \in {"DATA", "EOS", "RESET"}, NEW x \in Items
  PROVE  LET q == Thread!Forward(p, i, t, x) IN TabledBut(q, k) /\ q.channels = p.channels
<1> DEFINE m == Thread!Msg(t, p.channels[i].stream_id, x)
<1>1. p.channels[i] \in Channel
  BY MapsOfChannels DEF TabledBut, ThreadStates
<1>2. m \in ToClient
  BY <1>1, ChannelFields DEF Thread!Msg, ToClient
<1> HIDE DEF m
<1>3. Thread!Forward(p, i, t, x) = Thread!create_and_send_msg(p, p.channels[i].association, m)
  BY DEF Thread!Forward, m
<1>4. QED
  BY <1>2, <1>3, MsgTables

\* a channel keeps its client and its packets when a flag of it is set
LEMMA FlagTables ==
  ASSUME NEW p, NEW k, TabledBut(p, k), NEW i \in DOMAIN p.channels, NEW q,
         \/ q = [p EXCEPT !.channels[i].got_eos_from_ami = TRUE]
         \/ q = [p EXCEPT !.channels[i].got_eos_from_client = TRUE]
  PROVE  /\ TabledBut(q, k) /\ DOMAIN q.channels = DOMAIN p.channels
         /\ q.channels[i].association = p.channels[i].association
         /\ q.channels[i].packet_queue = p.channels[i].packet_queue
<1> DEFINE ch == p.channels[i]
<1>1. /\ p \in ThreadStates /\ p.channels \in ChannelMaps /\ ch \in Channel
      /\ Queued(p) /\ Listed(p) /\ Kept(p, k)
  BY MapsOfChannels DEF TabledBut, ThreadStates
<1>2. PICK y \in Channel : /\ q = [p EXCEPT !.channels = [p.channels EXCEPT ![i] = y]]
                           /\ y.association = ch.association
                           /\ y.packet_queue = ch.packet_queue
  <2>1. CASE q = [p EXCEPT !.channels[i].got_eos_from_ami = TRUE]
    <3> DEFINE y == [ch EXCEPT !.got_eos_from_ami = TRUE]
    <3>1. y \in Channel /\ y.association = ch.association /\ y.packet_queue = ch.packet_queue
      BY <1>1 DEF Channel
    <3>2. q = [p EXCEPT !.channels = [p.channels EXCEPT ![i] = y]]
      BY <2>1, <1>1 DEF ThreadStates
    <3>3. QED
      BY <3>1, <3>2
  <2>2. CASE q = [p EXCEPT !.channels[i].got_eos_from_client = TRUE]
    <3> DEFINE y == [ch EXCEPT !.got_eos_from_client = TRUE]
    <3>1. y \in Channel /\ y.association = ch.association /\ y.packet_queue = ch.packet_queue
      BY <1>1 DEF Channel
    <3>2. q = [p EXCEPT !.channels = [p.channels EXCEPT ![i] = y]]
      BY <2>2, <1>1 DEF ThreadStates
    <3>3. QED
      BY <3>1, <3>2
  <2>3. QED
    BY <2>1, <2>2
<1>3. /\ q.channels = [p.channels EXCEPT ![i] = y]
      /\ q.associations = p.associations /\ q.pi_queue = p.pi_queue
  BY <1>1, <1>2 DEF ThreadStates
<1>4. /\ q.channels \in ChannelMaps /\ DOMAIN q.channels = DOMAIN p.channels
      /\ q.channels[i] = y /\ \A j \in DOMAIN p.channels : j # i => q.channels[j] = p.channels[j]
  BY <1>1, <1>3, ChannelReplaced
<1>5. q \in ThreadStates
  BY <1>1, <1>2, <1>3, <1>4 DEF ThreadStates
<1>6. Full(q) = Full(p) /\ \A c : Of(q, c) = Of(p, c)
  BY <1>2, <1>4 DEF Full, Of
<1>7. Kept(q, k)
  BY <1>1, <1>2, <1>4 DEF Kept
<1>8. Queued(q) /\ Listed(q)
  BY <1>1, <1>3, <1>6 DEF Queued, Listed
<1>9. QED
  BY <1>2, <1>4, <1>5, <1>7, <1>8 DEF TabledBut

\* the channel of a stream that is over is removed
LEMMA RemoveTables ==
  ASSUME NEW p, NEW i, TabledBut(p, i)
  PROVE  Tabled(Thread!remove_channel_if_not_associated_and_empty_pq(p, i))
<1> DEFINE q == Thread!remove_channel_if_not_associated_and_empty_pq(p, i)
           gone == /\ i \in DOMAIN p.channels /\ p.channels[i].association = NoOne
                   /\ p.channels[i].packet_queue = <<>>
<1>1. /\ p \in ThreadStates /\ p.channels \in ChannelMaps
      /\ Queued(p) /\ Listed(p) /\ Kept(p, i)
  BY DEF TabledBut, ThreadStates
<1>2. 0 \notin Ids /\ DOMAIN p.channels \subseteq Ids
  BY <1>1, MapsOfChannels DEF Ids
<1>3. CASE ~gone
  <2>1. q = p
    BY <1>3 DEF Thread!remove_channel_if_not_associated_and_empty_pq
  <2>2. Kept(p, 0)
    BY <1>1, <1>3 DEF Kept
  <2>3. QED
    BY <1>1, <2>1, <2>2 DEF Tabled, TabledBut
<1>4. CASE gone
  <2>1. q = [p EXCEPT !.channels = [j \in DOMAIN p.channels \ {i} |-> p.channels[j]]]
    BY <1>1, <1>4 DEF Thread!remove_channel_if_not_associated_and_empty_pq, Thread!Drop, ThreadStates
  <2> HIDE DEF q
  <2>2. /\ q.channels = [j \in DOMAIN p.channels \ {i} |-> p.channels[j]]
        /\ q.pi_queue = p.pi_queue /\ q.associations = p.associations
    BY <1>1, <2>1 DEF ThreadStates
  <2>3. q.channels \in ChannelMaps
    <3>1. q.channels \in [DOMAIN p.channels \ {i} -> Channel]
      BY <1>1, <2>2, MapsOfChannels
    <3>2. QED
      BY <1>2, <3>1, MapsOfChannels
  <2>4. q \in ThreadStates
    BY <1>1, <2>1, <2>2, <2>3 DEF ThreadStates
  <2>5. Full(q) = Full(p) /\ \A c \in Clients : Of(q, c) = Of(p, c)
    BY <1>4, <2>2, ClientAssumption DEF Full, Of, ClientAssumption
  <2>6. Queued(q) /\ Listed(q)
    BY <1>1, <2>2, <2>5 DEF Queued, Listed
  <2>7. Kept(q, 0)
    BY <1>1, <2>2 DEF Kept
  <2>8. QED
    BY <2>4, <2>6, <2>7 DEF Tabled, TabledBut, q
<1>5. QED
  BY <1>3, <1>4

\* Tables that agree, agree but for i.
LEMMA Weaken ==
  ASSUME NEW p, Tabled(p), NEW i
  PROVE  TabledBut(p, i)
<1>1. p \in ThreadStates /\ Queued(p) /\ Listed(p) /\ Kept(p, 0)
  BY DEF Tabled, TabledBut
<1>2. DOMAIN p.channels \subseteq Ids /\ 0 \notin Ids
  BY <1>1, MapsOfChannels DEF ThreadStates, Ids
<1>3. Kept(p, i)
  BY <1>1, <1>2 DEF Kept
<1>4. QED
  BY <1>1, <1>3 DEF TabledBut

\* the client of an associated channel
LEMMA ClientOf ==
  ASSUME NEW p \in ThreadStates, NEW i \in DOMAIN p.channels
  PROVE  i \in Ids /\ p.channels[i].association \in Clients \union {NoOne}
<1>1. p.channels[i] \in Channel /\ i \in Ids
  BY MapsOfChannels DEF ThreadStates
<1>2. QED
  BY <1>1, ChannelFields

Idle == [association |-> NoOne, stream_id |-> 0, got_eos_from_ami |-> FALSE,
         got_eos_from_client |-> FALSE, packet_queue |-> <<>>]

\* a new channel
LEMMA IdleTables ==
  ASSUME NEW p, Tabled(p), NEW i \in Ids, i \notin DOMAIN p.channels, NEW q,
         q = [p EXCEPT !.channels = Thread!Extend(@, i, Idle)]
  PROVE  /\ TabledBut(q, i) /\ i \in DOMAIN q.channels /\ q.channels[i] = Idle
         /\ q.services = p.services
<1>1. /\ p \in ThreadStates /\ p.channels \in ChannelMaps
      /\ Queued(p) /\ Listed(p) /\ Kept(p, 0)
  BY DEF Tabled, TabledBut, ThreadStates
<1>2. 0 \notin Ids /\ DOMAIN p.channels \subseteq Ids
  BY <1>1, MapsOfChannels DEF Ids
<1>3. Idle \in Channel
  BY NothingQueued DEF Idle, Channel
<1>4. /\ q.channels = Thread!Extend(p.channels, i, Idle)
      /\ q.associations = p.associations /\ q.pi_queue = p.pi_queue /\ q.services = p.services
  BY <1>1 DEF ThreadStates
<1>5. /\ DOMAIN q.channels = DOMAIN p.channels \union {i} /\ q.channels[i] = Idle
      /\ \A j \in DOMAIN p.channels : q.channels[j] = p.channels[j]
  BY <1>4 DEF Thread!Extend
<1>6. q.channels \in ChannelMaps
  <2>1. q.channels \in [DOMAIN p.channels \union {i} -> Channel]
    <3>1. \A j \in DOMAIN p.channels : p.channels[j] \in Channel
      BY <1>1, MapsOfChannels
    <3>2. \A j \in DOMAIN p.channels \union {i} : q.channels[j] \in Channel
      BY <3>1, <1>3, <1>5
    <3>3. q.channels = [j \in DOMAIN p.channels \union {i} |-> q.channels[j]]
      BY <1>4, <1>5 DEF Thread!Extend
    <3>4. QED
      BY <3>2, <3>3
  <2>2. DOMAIN p.channels \union {i} \subseteq Ids
    BY <1>2
  <2>3. QED
    BY <2>1, <2>2, MapsOfChannels
<1>7. q \in ThreadStates
  BY <1>1, <1>4, <1>6 DEF ThreadStates
<1>8. Idle.association = NoOne /\ Idle.packet_queue = <<>>
  BY DEF Idle
<1>9. Full(q) = Full(p) /\ \A c \in Clients : Of(q, c) = Of(p, c)
  BY <1>5, <1>8, ClientAssumption DEF Full, Of, ClientAssumption
<1>10. Kept(q, i)
  BY <1>1, <1>2, <1>5 DEF Kept
<1>11. Queued(q) /\ Listed(q)
  BY <1>1, <1>4, <1>9 DEF Queued, Listed
<1>12. QED
  BY <1>4, <1>5, <1>7, <1>10, <1>11 DEF TabledBut

\* a client is asked to serve a channel
LEMMA AskTables ==
  ASSUME NEW p, NEW i \in DOMAIN p.channels, TabledBut(p, i), p.channels[i].association = NoOne,
         NEW c \in Clients, NEW n \in Sessions \union {NoOne}
  PROVE  TabledBut(Thread!Ask(p, c, i, n), i)
<1> DEFINE sid == p.cc_next_stream_id[c]
           ch == p.channels[i]
           y == [[ch EXCEPT !.association = c] EXCEPT !.stream_id = sid]
           q == [p EXCEPT !.channels[i].association = c, !.channels[i].stream_id = sid,
                          !.cc_next_stream_id[c] = @ + 1, !.associations[c] = Append(@, i)]
           m == Thread!Msg("CONNECT", sid, Thread!Item(n, 0))
<1>1. /\ p \in ThreadStates /\ p.channels \in ChannelMaps /\ ch \in Channel /\ i \in Ids
      /\ p.associations \in [Clients -> Seq(Ids)] /\ p.cc_next_stream_id \in [Clients -> Nat]
      /\ Queued(p) /\ Listed(p) /\ Kept(p, i)
  BY MapsOfChannels DEF TabledBut, ThreadStates
<1>2. sid \in Nat /\ m \in ToClient
  BY <1>1 DEF Thread!Msg, Thread!Item, ToClient, Items
<1>3. y \in Channel /\ y.association = c /\ y.packet_queue = ch.packet_queue
  BY <1>1, <1>2 DEF Channel
<1>4. q = [p EXCEPT !.channels = [p.channels EXCEPT ![i] = y],
                    !.cc_next_stream_id = [p.cc_next_stream_id EXCEPT ![c] = @ + 1],
                    !.associations = [p.associations EXCEPT ![c] = Append(@, i)]]
  BY <1>1 DEF ThreadStates, ChannelMaps
<1>5. Thread!Ask(p, c, i, n) = Thread!create_and_send_msg(q, c, m)
  BY DEF Thread!Ask
<1> HIDE DEF q, y, m
<1>6. /\ q.channels = [p.channels EXCEPT ![i] = y]
      /\ q.associations = [p.associations EXCEPT ![c] = Append(@, i)]
      /\ q.cc_next_stream_id = [p.cc_next_stream_id EXCEPT ![c] = @ + 1]
      /\ q.pi_queue = p.pi_queue
  BY <1>1, <1>4 DEF ThreadStates
<1>7. /\ q.channels \in ChannelMaps /\ DOMAIN q.channels = DOMAIN p.channels
      /\ q.channels[i] = y /\ \A j \in DOMAIN p.channels : j # i => q.channels[j] = p.channels[j]
  BY <1>1, <1>3, <1>6, ChannelReplaced
<1>8. /\ q.associations \in [Clients -> Seq(Ids)] /\ q.cc_next_stream_id \in [Clients -> Nat]
  <2>1. Append(p.associations[c], i) \in Seq(Ids) /\ p.cc_next_stream_id[c] + 1 \in Nat
    BY <1>1
  <2>2. QED
    BY <1>1, <1>6, <2>1
<1>9. q \in ThreadStates
  BY <1>1, <1>4, <1>6, <1>7, <1>8 DEF ThreadStates
<1>10. /\ Full(q) = Full(p)
       /\ \A d \in Clients : Of(q, d) = Of(p, d) \union (IF d = c THEN {i} ELSE {})
  BY <1>3, <1>7, ClientAssumption DEF Full, Of, ClientAssumption
<1>11. Queued(q)
  BY <1>1, <1>6, <1>10 DEF Queued
<1>12. Listed(q)
  <2>1. ASSUME NEW d \in Clients
        PROVE  NoRepeats(q.associations[d]) /\ Elems(q.associations[d]) = Of(q, d)
    <3>1. p.associations[d] \in Seq(Ids) /\ NoRepeats(p.associations[d])
          /\ Elems(p.associations[d]) = Of(p, d)
      BY <1>1 DEF Listed
    <3>2. CASE d = c
      <4>1. q.associations[d] = Append(p.associations[d], i)
        BY <1>1, <1>6, <3>2
      <4>2. Of(q, d) = Of(p, d) \union {i}
        BY <1>10, <3>2
      <4>3. i \notin Of(p, d)
        BY ClientAssumption DEF Of, ClientAssumption
      <4>4. QED
        BY <1>1, <3>1, <4>1, <4>2, <4>3, AppendAdds
    <3>3. CASE d # c
      <4>1. q.associations[d] = p.associations[d]
        BY <1>1, <1>6, <3>3
      <4>2. Of(q, d) = Of(p, d)
        BY <1>10, <3>3
      <4>3. QED
        BY <3>1, <4>1, <4>2
    <3>4. QED
      BY <3>2, <3>3
  <2>2. QED
    BY <2>1 DEF Listed
<1>13. Kept(q, i)
  BY <1>1, <1>7 DEF Kept
<1>14. TabledBut(q, i)
  BY <1>9, <1>11, <1>12, <1>13 DEF TabledBut
<1>15. QED
  BY <1>2, <1>5, <1>14, MsgTables

\* Starting a service adds a connection and a service, no channel (a314.cc:812).
LEMMA ForkTables ==
  ASSUME NEW p, NEW i, TabledBut(p, i), NEW c \in Clients
  PROVE  LET q == Thread!Fork(p, c) IN TabledBut(q, i) /\ q.channels = p.channels
<1> DEFINE q == Thread!Fork(p, c)
           s == Thread!Extend(p.services, Name[c], c)
<1>1. /\ p \in ThreadStates /\ p.conn \in [Clients -> Conns]
      /\ p.cc_next_stream_id \in [Clients -> Nat] /\ p.services \in ServiceMaps
  BY DEF TabledBut, ThreadStates
<1>2. s \in ServiceMaps
  <2>1. s \in [DOMAIN p.services \union {Name[c]} -> Clients]
    BY <1>1 DEF ServiceMaps, Thread!Extend
  <2>2. DOMAIN p.services \union {Name[c]} \subseteq {Name[d] : d \in Clients}
    BY <1>1 DEF ServiceMaps
  <2> HIDE DEF s
  <2>3. QED
    BY <2>1, <2>2 DEF ServiceMaps
<1>3. q = [p EXCEPT !.conn = [p.conn EXCEPT ![c] = "up"],
                    !.cc_next_stream_id = [p.cc_next_stream_id EXCEPT ![c] = 1],
                    !.services = s]
  BY <1>1 DEF Thread!Fork, ThreadStates
<1>4. /\ [p.conn EXCEPT ![c] = "up"] \in [Clients -> Conns]
      /\ [p.cc_next_stream_id EXCEPT ![c] = 1] \in [Clients -> Nat]
  BY <1>1 DEF Conns
<1> HIDE DEF q, s
<1>5. /\ q \in ThreadStates /\ q.channels = p.channels /\ q.pi_queue = p.pi_queue
      /\ q.associations = p.associations
  BY <1>1, <1>2, <1>3, <1>4 DEF ThreadStates
<1>6. QED
  BY <1>5, SameTables DEF q

\* handle_pkt_connect, for a channel that the thread does not have
LEMMA ConnectTables ==
  ASSUME NEW p, Tabled(p), NEW i \in Ids, i \notin DOMAIN p.channels,
         NEW n \in Sessions \union {NoOne}
  PROVE  TabledBut(Thread!handle_pkt_connect(p, i, n), i)
<1> DEFINE service == ServiceOf[n.key]
           q == [p EXCEPT !.channels = Thread!Extend(@, i, Idle)]
           forked == {c \in OnDemand : Name[c] = service}
           d == CHOOSE c \in forked : TRUE
<1>1. Thread!handle_pkt_connect(p, i, n) =
        CASE service \in DOMAIN p.services -> Thread!Ask(q, p.services[service], i, n)
          [] service \notin DOMAIN p.services /\ forked # {} -> Thread!Ask(Thread!Fork(q, d), d, i, n)
          [] OTHER -> Thread!create_and_enqueue_packet(q, i, "CONNECT_RESPONSE", Thread!Result(3))
  BY Zenon DEF Thread!handle_pkt_connect, Idle
<1>2. /\ TabledBut(q, i) /\ i \in DOMAIN q.channels /\ q.channels[i] = Idle
  BY IdleTables
<1>3. q.channels[i].association = NoOne
  BY <1>2 DEF Idle
<1> HIDE DEF q
<1>4. CASE service \in DOMAIN p.services
  <2>1. p.services[service] \in Clients
    BY <1>4 DEF Tabled, TabledBut, ThreadStates, ServiceMaps
  <2>2. QED
    BY <1>1, <1>2, <1>3, <1>4, <2>1, AskTables
<1>5. CASE service \notin DOMAIN p.services /\ forked # {}
  <2>1. d \in Clients
    BY <1>5, ClientAssumption DEF ClientAssumption
  <2> HIDE DEF d
  <2>2. /\ TabledBut(Thread!Fork(q, d), i)
        /\ Thread!Fork(q, d).channels = q.channels
    BY <1>2, <2>1, ForkTables
  <2>3. QED
    BY <1>1, <1>2, <1>3, <1>5, <2>1, <2>2, AskTables
<1>6. CASE service \notin DOMAIN p.services /\ forked = {}
  <2>1. Thread!Result(3) \in Items
    BY DEF Thread!Result, Thread!Item, Items
  <2>2. Tabled(Thread!create_and_enqueue_packet(q, i, "CONNECT_RESPONSE", Thread!Result(3)))
    BY <1>2, <2>1, EnqueueTables
  <2>3. QED
    BY <1>1, <1>6, <2>2, Weaken
<1>7. QED
  BY <1>4, <1>5, <1>6

\* The payloads that the handlers make up are items.
LEMMA ItemTypes ==
  /\ Thread!Nothing \in Items /\ Device!Nothing \in Items
  /\ \A k \in Nat : Thread!Result(k) \in Items
  /\ \A n \in Sessions \union {NoOne}, k \in Nat : Device!Item(n, k) \in Items
  /\ \A x \in Items : x.number \in Nat /\ x.session \in Sessions \union {NoOne}
  BY DEF Thread!Nothing, Thread!Result, Thread!Item, Device!Nothing, Device!Result, Device!Item, Items

\* handle_pkt_data forwards and changes no channel (a314.cc:909).
LEMMA DataTables ==
  ASSUME NEW p, Tabled(p), NEW i \in DOMAIN p.channels, NEW x \in Items
  PROVE  Tabled(Thread!handle_pkt_data(p, i, x))
<1>1. p.channels[i].association \in Clients \union {NoOne}
  BY ClientOf DEF Tabled, TabledBut
<1>2. TabledBut(p, 0)
  BY DEF Tabled
<1>3. CASE p.channels[i].association # NoOne /\ ~p.channels[i].got_eos_from_ami
  <2>1. Thread!handle_pkt_data(p, i, x) = Thread!Forward(p, i, "DATA", x)
    BY <1>3 DEF Thread!handle_pkt_data
  <2>2. QED
    BY <1>1, <1>2, <1>3, <2>1, ForwardTables DEF Tabled
<1>4. CASE ~(p.channels[i].association # NoOne /\ ~p.channels[i].got_eos_from_ami)
  BY <1>4 DEF Thread!handle_pkt_data
<1>5. QED
  BY <1>3, <1>4

\* handle_pkt_eos: a channel that has ended both ways loses its client (a314.cc:921).
LEMMA EosTables ==
  ASSUME NEW p, Tabled(p), NEW i \in DOMAIN p.channels
  PROVE  TabledBut(Thread!handle_pkt_eos(p, i), i)
<1> DEFINE e == [p EXCEPT !.channels[i].got_eos_from_ami = TRUE]
           q == Thread!Forward(e, i, "EOS", Thread!Nothing)
           over == p.channels[i].association = NoOne \/ p.channels[i].got_eos_from_ami
<1>1. p.channels[i].association \in Clients \union {NoOne}
  BY ClientOf DEF Tabled, TabledBut
<1>2. TabledBut(p, i)
  BY Weaken
<1>3. CASE over
  <2>1. Thread!handle_pkt_eos(p, i) = p
    BY <1>3, Zenon DEF Thread!handle_pkt_eos
  <2>2. QED
    BY <1>2, <2>1
<1>4. CASE ~over
  <2>1. Thread!handle_pkt_eos(p, i) =
          IF p.channels[i].got_eos_from_client THEN Thread!remove_association(q, i) ELSE q
    BY <1>4, Zenon DEF Thread!handle_pkt_eos
  <2>2. /\ TabledBut(e, i) /\ DOMAIN e.channels = DOMAIN p.channels
        /\ e.channels[i].association = p.channels[i].association
    BY <1>2, FlagTables
  <2> HIDE DEF e
  <2>3. TabledBut(q, i) /\ q.channels = e.channels
    BY <1>1, <1>4, <2>2, ForwardTables, ItemTypes
  <2> HIDE DEF q
  <2>4. TabledBut(Thread!remove_association(q, i), i)
    BY <1>1, <1>4, <2>2, <2>3, UnlistTables
  <2>5. QED
    BY <2>1, <2>3, <2>4
<1>5. QED
  BY <1>3, <1>4

\* handle_pkt_reset clears the channel's queue and ends its association (a314.cc:938).
LEMMA ResetTables ==
  ASSUME NEW p, Tabled(p), NEW i \in DOMAIN p.channels
  PROVE  TabledBut(Thread!handle_pkt_reset(p, i), i)
<1> DEFINE q == Thread!clear_packet_queue(p, i)
           f == Thread!Forward(q, i, "RESET", Thread!Nothing)
<1>1. p.channels[i].association \in Clients \union {NoOne}
  BY ClientOf DEF Tabled, TabledBut
<1>2. TabledBut(p, i)
  BY Weaken
<1>3. /\ TabledBut(q, i) /\ DOMAIN q.channels = DOMAIN p.channels
      /\ q.channels[i].association = p.channels[i].association
  BY <1>2, ClearTables
<1>4. Thread!handle_pkt_reset(p, i) =
        IF p.channels[i].association = NoOne THEN q ELSE Thread!remove_association(f, i)
  BY Zenon DEF Thread!handle_pkt_reset
<1> HIDE DEF q
<1>5. ASSUME p.channels[i].association # NoOne
      PROVE  TabledBut(Thread!remove_association(f, i), i)
  <2>1. TabledBut(f, i) /\ f.channels = q.channels
    BY <1>1, <1>3, <1>5, ForwardTables, ItemTypes
  <2> HIDE DEF f
  <2>2. QED
    BY <1>1, <1>3, <1>5, <2>1, UnlistTables
<1>6. QED
  BY <1>3, <1>4, <1>5

\* a packet of the Amiga
LEMMA PktTables ==
  ASSUME NEW p, Tabled(p), NEW m \in AmigaPackets, ~Thread!Duplicate(p, m)
  PROVE  Tabled(Thread!handle_received_pkt(p, m))
<1> DEFINE i == m.id
           q == CASE m.type = "CONNECT" -> Thread!handle_pkt_connect(p, i, m.data.session)
                  [] m.type # "CONNECT" /\ i \notin DOMAIN p.channels -> p
                  [] m.type = "DATA" /\ i \in DOMAIN p.channels -> Thread!handle_pkt_data(p, i, m.data)
                  [] m.type = "EOS" /\ i \in DOMAIN p.channels -> Thread!handle_pkt_eos(p, i)
                  [] m.type = "RESET" /\ i \in DOMAIN p.channels -> Thread!handle_pkt_reset(p, i)
<1>1. /\ m.type \in {"CONNECT", "DATA", "EOS", "RESET"} /\ i \in Ids /\ m.data \in Items
      /\ m.data.session \in Sessions \union {NoOne}
  BY ItemTypes DEF AmigaPackets
<1>2. Thread!handle_received_pkt(p, m) = Thread!remove_channel_if_not_associated_and_empty_pq(q, i)
  BY Zenon DEF Thread!handle_received_pkt
<1>3. TabledBut(q, i)
  <2>1. CASE m.type = "CONNECT"
    <3>1. q = Thread!handle_pkt_connect(p, i, m.data.session)
      BY <2>1
    <3>2. i \notin DOMAIN p.channels
      BY <2>1 DEF Thread!Duplicate
    <3>3. QED
      BY <1>1, <3>1, <3>2, ConnectTables
  <2>2. CASE m.type # "CONNECT" /\ i \notin DOMAIN p.channels
    <3>1. q = p
      BY <2>2
    <3>2. QED
      BY <3>1, Weaken
  <2>3. CASE m.type = "DATA" /\ i \in DOMAIN p.channels
    <3>1. q = Thread!handle_pkt_data(p, i, m.data)
      BY <2>3
    <3>2. QED
      BY <1>1, <2>3, <3>1, DataTables, Weaken
  <2>4. CASE m.type = "EOS" /\ i \in DOMAIN p.channels
    <3>1. q = Thread!handle_pkt_eos(p, i)
      BY <2>4
    <3>2. QED
      BY <2>4, <3>1, EosTables
  <2>5. CASE m.type = "RESET" /\ i \in DOMAIN p.channels
    <3>1. q = Thread!handle_pkt_reset(p, i)
      BY <2>5
    <3>2. QED
      BY <2>5, <3>1, ResetTables
  <2>6. QED
    BY <1>1, <2>1, <2>2, <2>3, <2>4, <2>5
<1>4. QED
  BY <1>2, <1>3, RemoveTables

-----------------------------------------------------------------------------
(* Messages of the clients. *)

\* handle_msg_register_req (a314.cc:483).
LEMMA RegisterTables ==
  ASSUME NEW p, Tabled(p), NEW c \in Clients
  PROVE  Tabled(Thread!handle_msg_register_req(p, c))
<1> DEFINE q == [p EXCEPT !.services = Thread!Extend(@, Name[c], c)]
           s == Thread!Extend(p.services, Name[c], c)
<1>1. p \in ThreadStates /\ p.services \in ServiceMaps /\ TabledBut(p, 0)
  BY DEF Tabled, TabledBut, ThreadStates
<1>2. s \in ServiceMaps
  <2>1. s \in [DOMAIN p.services \union {Name[c]} -> Clients]
    BY <1>1 DEF ServiceMaps, Thread!Extend
  <2>2. DOMAIN p.services \union {Name[c]} \subseteq {Name[d] : d \in Clients}
    BY <1>1 DEF ServiceMaps
  <2> HIDE DEF s
  <2>3. QED
    BY <2>1, <2>2 DEF ServiceMaps
<1> HIDE DEF s
<1>3. /\ q \in ThreadStates /\ q.channels = p.channels /\ q.pi_queue = p.pi_queue
      /\ q.associations = p.associations
  BY <1>1, <1>2 DEF ThreadStates, s
<1>4. TabledBut(q, 0)
  BY <1>1, <1>3, SameTables
<1>5. /\ Thread!Msg("REGISTER_RES", 0, Thread!Result(0)) \in ToClient
      /\ Thread!Msg("REGISTER_RES", 0, Thread!Result(1)) \in ToClient
  BY ItemTypes DEF Thread!Msg, ToClient
<1> HIDE DEF q
<1>6. /\ Tabled(Thread!create_and_send_msg(p, c, Thread!Msg("REGISTER_RES", 0, Thread!Result(0))))
      /\ Tabled(Thread!create_and_send_msg(q, c, Thread!Msg("REGISTER_RES", 0, Thread!Result(1))))
  BY <1>1, <1>4, <1>5, MsgTables DEF Tabled
<1>7. QED
  BY <1>6 DEF Thread!handle_msg_register_req, q

\* a channel that has packets needs no client
LEMMA Strengthen ==
  ASSUME NEW p, NEW i \in DOMAIN p.channels, TabledBut(p, i), p.channels[i].packet_queue # <<>>
  PROVE  Tabled(p)
<1>1. p \in ThreadStates /\ Queued(p) /\ Listed(p) /\ Kept(p, i)
  BY DEF TabledBut
<1>2. Kept(p, 0)
  BY <1>1 DEF Kept
<1>3. QED
  BY <1>1, <1>2 DEF Tabled, TabledBut

\* an enqueued packet keeps the channel when its client is gone
LEMMA EnqueueUnlistTables ==
  ASSUME NEW p, NEW i \in DOMAIN p.channels, TabledBut(p, i), p.channels[i].association \in Clients,
         NEW t \in {"CONNECT_RESPONSE", "DATA", "EOS", "RESET"}, NEW x \in Items
  PROVE  Tabled(Thread!remove_association(Thread!create_and_enqueue_packet(p, i, t, x), i))
<1> DEFINE q == Thread!create_and_enqueue_packet(p, i, t, x)
           u == Thread!remove_association(q, i)
<1>1. /\ Tabled(q) /\ DOMAIN q.channels = DOMAIN p.channels
      /\ q.channels[i].association = p.channels[i].association
      /\ q.channels[i].packet_queue # <<>>
  BY EnqueueTables
<1> HIDE DEF q
<1>2. TabledBut(q, i)
  BY <1>1, Weaken
<1>3. /\ TabledBut(u, i) /\ DOMAIN u.channels = DOMAIN q.channels
      /\ u.channels[i].packet_queue = q.channels[i].packet_queue
  BY <1>1, <1>2, UnlistTables
<1> HIDE DEF u
<1>4. Tabled(u)
  BY <1>1, <1>3, Strengthen
<1>5. QED
  BY <1>4 DEF u, q

\* handle_msg_connect_response: a refusal ends the association, a packet follows (a314.cc:621).
LEMMA ResponseTables ==
  ASSUME NEW p, Tabled(p), NEW i \in DOMAIN p.channels, p.channels[i].association \in Clients,
         NEW r \in Nat
  PROVE  Tabled(Thread!handle_msg_connect_response(p, i, r))
<1> DEFINE q == Thread!create_and_enqueue_packet(p, i, "CONNECT_RESPONSE", Thread!Result(r))
<1>1. Thread!handle_msg_connect_response(p, i, r) =
        IF r = 0 THEN q ELSE Thread!remove_association(q, i)
  BY Zenon DEF Thread!handle_msg_connect_response
<1>2. TabledBut(p, i) /\ Thread!Result(r) \in Items
  BY Weaken, ItemTypes
<1>3. Tabled(q)
  BY <1>2, EnqueueTables
<1>4. Tabled(Thread!remove_association(q, i))
  BY <1>2, EnqueueUnlistTables
<1>5. QED
  BY <1>1, <1>3, <1>4

\* handle_msg_eos (a314.cc:643).
LEMMA MsgEosTables ==
  ASSUME NEW p, Tabled(p), NEW i \in DOMAIN p.channels, p.channels[i].association \in Clients
  PROVE  Tabled(Thread!handle_msg_eos(p, i))
<1> DEFINE e == [p EXCEPT !.channels[i].got_eos_from_client = TRUE]
           q == Thread!create_and_enqueue_packet(e, i, "EOS", Thread!Nothing)
<1>1. /\ TabledBut(e, i) /\ DOMAIN e.channels = DOMAIN p.channels
      /\ e.channels[i].association = p.channels[i].association
  BY Weaken, FlagTables
<1>2. Thread!handle_msg_eos(p, i) \in {p, q, Thread!remove_association(q, i)}
  <2>1. CASE p.channels[i].got_eos_from_client
    <3>1. Thread!handle_msg_eos(p, i) = p
      BY <2>1, Zenon DEF Thread!handle_msg_eos
    <3>2. QED
      BY <3>1
  <2>2. CASE ~p.channels[i].got_eos_from_client /\ p.channels[i].got_eos_from_ami
    <3>1. Thread!handle_msg_eos(p, i) = Thread!remove_association(q, i)
      BY <2>2, Zenon DEF Thread!handle_msg_eos
    <3>2. QED
      BY <3>1
  <2>3. CASE ~p.channels[i].got_eos_from_client /\ ~p.channels[i].got_eos_from_ami
    <3>1. Thread!handle_msg_eos(p, i) = q
      BY <2>3, Zenon DEF Thread!handle_msg_eos
    <3>2. QED
      BY <3>1
  <2>4. QED
    BY <2>1, <2>2, <2>3
<1> HIDE DEF e
<1>3. Tabled(q) /\ Tabled(Thread!remove_association(q, i))
  BY <1>1, ItemTypes, EnqueueTables, EnqueueUnlistTables
<1>4. QED
  BY <1>2, <1>3

\* handle_msg_reset: association, queue, then a RESET packet (a314.cc:658).
LEMMA MsgResetTables ==
  ASSUME NEW p, Tabled(p), NEW i \in DOMAIN p.channels, p.channels[i].association \in Clients
  PROVE  Tabled(Thread!handle_msg_reset(p, i))
<1> DEFINE u == Thread!remove_association(p, i)
           e == Thread!clear_packet_queue(u, i)
<1>1. TabledBut(u, i) /\ DOMAIN u.channels = DOMAIN p.channels
  BY Weaken, UnlistTables
<1>2. Thread!handle_msg_reset(p, i) = Thread!create_and_enqueue_packet(e, i, "RESET", Thread!Nothing)
  BY Zenon DEF Thread!handle_msg_reset
<1> HIDE DEF u
<1>3. TabledBut(e, i) /\ DOMAIN e.channels = DOMAIN u.channels
  BY <1>1, ClearTables
<1> HIDE DEF e
<1>4. QED
  BY <1>1, <1>2, <1>3, ItemTypes, EnqueueTables

\* a message of a client
LEMMA MessageTables ==
  ASSUME NEW p, Tabled(p), NEW c \in Clients, NEW m \in FromClient
  PROVE  Tabled(Thread!handle_received_message(p, c, m))
<1> DEFINE found == Thread!get_associated_channel_by_stream_id(p, c, m.sid)
           i == CHOOSE j \in found : TRUE
           h == Thread!handle_received_message(p, c, m)
<1>1. /\ m.type \in {"REGISTER_REQ", "CONNECT_RESPONSE", "DATA", "EOS", "RESET"}
      /\ m.data \in Items /\ m.data.number \in Nat
  BY ItemTypes DEF FromClient
<1>2. CASE m.type = "REGISTER_REQ"
  <2>1. h = Thread!handle_msg_register_req(p, c)
    BY <1>2, Zenon DEF Thread!handle_received_message
  <2>2. QED
    BY <2>1, RegisterTables
<1>3. CASE m.type # "REGISTER_REQ" /\ found = {}
  <2>1. h = p
    BY <1>3, Zenon DEF Thread!handle_received_message
  <2>2. QED
    BY <2>1
<1>4. CASE m.type # "REGISTER_REQ" /\ found # {}
  <2>1. i \in found
    BY <1>4
  <2>2. i \in DOMAIN p.channels /\ Thread!InQueue(i, p.associations[c])
    BY <2>1, Zenon DEF Thread!get_associated_channel_by_stream_id
  <2>3. h = CASE m.type = "CONNECT_RESPONSE" -> Thread!handle_msg_connect_response(p, i, m.data.number)
              [] m.type = "DATA" -> Thread!create_and_enqueue_packet(p, i, "DATA", m.data)
              [] m.type = "EOS" -> Thread!handle_msg_eos(p, i)
              [] m.type = "RESET" -> Thread!handle_msg_reset(p, i)
    BY <1>4, Zenon DEF Thread!handle_received_message
  <2> HIDE DEF i, found, h
  <2>4. p.channels[i].association \in Clients
    <3>1. i \in Elems(p.associations[c])
      BY <2>2 DEF Thread!InQueue, Elems
    <3>2. i \in Of(p, c)
      BY <3>1 DEF Tabled, TabledBut, Listed
    <3>3. QED
      BY <3>2 DEF Of
  <2>5. CASE m.type = "CONNECT_RESPONSE"
    BY <1>1, <2>2, <2>3, <2>4, <2>5, ResponseTables DEF h
  <2>6. CASE m.type = "DATA"
    BY <1>1, <2>2, <2>3, <2>6, Weaken, EnqueueTables DEF h
  <2>7. CASE m.type = "EOS"
    BY <2>2, <2>3, <2>4, <2>7, MsgEosTables DEF h
  <2>8. CASE m.type = "RESET"
    BY <2>2, <2>3, <2>4, <2>8, MsgResetTables DEF h
  <2>9. QED
    BY <1>1, <1>4, <2>5, <2>6, <2>7, <2>8
<1>5. QED
  BY <1>2, <1>3, <1>4

-----------------------------------------------------------------------------
(* Ends of sessions and of connections, and the sending of packets. *)

\* close_all_logical_channels clears every table at once (a314.cc:1093).
LEMMA CloseAllTables ==
  ASSUME NEW p, Tabled(p)
  PROVE  Tabled(Thread!close_all_logical_channels(p))
<1> DEFINE sent(c) == [k \in DOMAIN p.associations[c] |->
                         Thread!Msg("RESET", p.channels[p.associations[c][k]].stream_id,
                                    Thread!Nothing)]
           as == [c \in Clients |-> <<>>]
           cn == [c \in Clients |-> Thread!AfterWrites(p.conn[c], Len(sent(c)))]
           to == [c \in Clients |-> IF p.conn[c] = "up" THEN p.toCli[c] \o sent(c) ELSE p.toCli[c]]
           q == Thread!close_all_logical_channels(p)
<1>1. /\ p \in ThreadStates /\ p.conn \in [Clients -> Conns] /\ p.toCli \in [Clients -> Seq(ToClient)]
      /\ p.associations \in [Clients -> Seq(Ids)] /\ Listed(p)
  BY DEF Tabled, TabledBut, ThreadStates
<1>2. ASSUME NEW c \in Clients PROVE sent(c) \in Seq(ToClient) /\ Len(sent(c)) \in Nat
  <2>1. p.associations[c] \in Seq(Ids)
    BY <1>1
  <2>2. DOMAIN p.associations[c] = 1..Len(p.associations[c]) /\ Len(p.associations[c]) \in Nat
    BY <2>1, LenProperties
  <2>3. ASSUME NEW k \in DOMAIN p.associations[c]
        PROVE  Thread!Msg("RESET", p.channels[p.associations[c][k]].stream_id, Thread!Nothing)
                 \in ToClient
    <3> DEFINE j == p.associations[c][k]
    <3>1. j \in Elems(p.associations[c])
      BY DEF Elems
    <3>2. j \in DOMAIN p.channels
      BY <3>1, <1>1 DEF Listed, Of
    <3>3. p.channels[j] \in Channel
      BY <3>2, <1>1, MapsOfChannels DEF ThreadStates
    <3>4. p.channels[j].stream_id \in Nat
      BY <3>3, ChannelFields
    <3> HIDE DEF j
    <3>5. QED
      BY <3>4, ItemTypes DEF Thread!Msg, ToClient, j
  <2>4. sent(c) \in [1..Len(p.associations[c]) -> ToClient]
    BY <2>2, <2>3
  <2> HIDE DEF sent
  <2>5. sent(c) \in Seq(ToClient)
    BY <2>2, <2>4, SeqDef
  <2>6. QED
    BY <2>5, LenProperties
<1>3. q = [p EXCEPT !.pi_queue = <<>>, !.channels = <<>>, !.associations = as, !.conn = cn,
                    !.toCli = to]
  BY <1>1 DEF Thread!close_all_logical_channels, ThreadStates
<1> HIDE DEF q, sent
<1>4. cn \in [Clients -> Conns]
  BY <1>1, <1>2, AfterWritesType
<1>5. to \in [Clients -> Seq(ToClient)]
  <2>1. ASSUME NEW c \in Clients
        PROVE  (IF p.conn[c] = "up" THEN p.toCli[c] \o sent(c) ELSE p.toCli[c]) \in Seq(ToClient)
    <3>1. p.toCli[c] \in Seq(ToClient)
      BY <1>1
    <3>2. QED
      BY <1>2, <3>1, ConcatJoins
  <2>2. QED
    BY <2>1
<1>6. as \in [Clients -> Seq(Ids)]
  BY NothingQueued
<1>7. <<>> \in ChannelMaps /\ DOMAIN <<>> = {}
  <2>1. <<>> \in [{} -> Channel] /\ {} \in SUBSET Ids
    OBVIOUS
  <2>2. QED
    BY <2>1, MapsOfChannels
<1> HIDE DEF cn, to, as
<1>8. /\ q.channels = <<>> /\ q.pi_queue = <<>> /\ q.associations = as
  BY <1>1, <1>3 DEF ThreadStates
<1>9. q \in ThreadStates
  <2>1. <<>> \in Seq(Ids)
    OBVIOUS
  <2>2. QED
    BY <1>1, <1>3, <1>4, <1>5, <1>6, <1>7, <2>1 DEF ThreadStates
<1>10. Full(q) = {} /\ \A c : Of(q, c) = {}
  BY <1>7, <1>8 DEF Full, Of
<1>11. Queued(q) /\ Kept(q, 0)
  BY <1>7, <1>8, <1>10, NothingQueued DEF Queued, Kept
<1>12. Listed(q)
  BY <1>8, <1>10, NothingQueued DEF Listed, as
<1>13. QED
  BY <1>9, <1>11, <1>12 DEF Tabled, TabledBut, q

\* close_and_remove_connection: each of its channels gets one RESET packet (a314.cc:706).
LEMMA CloseTables ==
  ASSUME NEW p, Tabled(p), NEW c \in Clients
  PROVE  Tabled(Thread!close_and_remove_connection(p, c))
<1> DEFINE mine == Of(p, c)
           sv == [s \in {t \in DOMAIN p.services : p.services[t] # c} |-> p.services[s]]
           left(i) == [[[p.channels[i] EXCEPT !.association = NoOne] EXCEPT !.stream_id = 0]
                         EXCEPT !.packet_queue = <<Thread!Pkt("RESET", i, Thread!Nothing)>>]
           ch == [i \in DOMAIN p.channels |-> IF i \in mine THEN left(i) ELSE p.channels[i]]
           pq == WithoutAll(p.pi_queue, mine) \o p.associations[c]
           q == Thread!close_and_remove_connection(p, c)
<1>1. /\ p \in ThreadStates /\ p.conn \in [Clients -> Conns] /\ p.toCli \in [Clients -> Seq(ToClient)]
      /\ p.fromCli \in [Clients -> Seq(FromClient)] /\ p.associations \in [Clients -> Seq(Ids)]
      /\ p.pi_queue \in Seq(Ids) /\ p.channels \in ChannelMaps /\ p.services \in ServiceMaps
      /\ Queued(p) /\ Listed(p) /\ Kept(p, 0)
  BY DEF Tabled, TabledBut, ThreadStates
<1>2. q = [p EXCEPT !.services = sv, !.channels = ch, !.pi_queue = pq,
                    !.associations = [p.associations EXCEPT ![c] = <<>>],
                    !.conn = [p.conn EXCEPT ![c] = "none"],
                    !.toCli = [p.toCli EXCEPT ![c] = <<>>],
                    !.fromCli = [p.fromCli EXCEPT ![c] = <<>>]]
  BY <1>1, SameHelpers DEF Thread!close_and_remove_connection, ThreadStates, Of
<1>3. sv \in ServiceMaps
  <2>1. sv \in [{t \in DOMAIN p.services : p.services[t] # c} -> Clients]
    BY <1>1 DEF ServiceMaps
  <2>2. {t \in DOMAIN p.services : p.services[t] # c} \subseteq {Name[d] : d \in Clients}
    BY <1>1 DEF ServiceMaps
  <2> HIDE DEF sv
  <2>3. QED
    BY <2>1, <2>2 DEF ServiceMaps
<1>4. ASSUME NEW i \in DOMAIN p.channels
      PROVE  /\ left(i) \in Channel /\ left(i).association = NoOne /\ left(i).packet_queue # <<>>
  <2> DEFINE m == Thread!Pkt("RESET", i, Thread!Nothing)
             y == p.channels[i]
  <2>1. y \in Channel /\ i \in Ids
    BY <1>1, MapsOfChannels
  <2>2. m \in PiPackets
    BY <2>1, ItemTypes DEF Thread!Pkt, PiPackets
  <2> HIDE DEF m, y
  <2>3. <<m>> \in Seq(PiPackets) /\ <<m>> # <<>>
    BY <2>2
  <2> DEFINE n == <<m>>
  <2>4. n \in Seq(PiPackets) /\ n # <<>>
    BY <2>3
  <2> HIDE DEF n
  <2> DEFINE z == [[[y EXCEPT !.association = NoOne] EXCEPT !.stream_id = 0] EXCEPT !.packet_queue = n]
  <2>5. z \in Channel /\ z.association = NoOne /\ z.packet_queue = n
    BY <2>1, <2>4 DEF Channel
  <2>6. left(i) = z
    BY DEF m, y, n
  <2> HIDE DEF z
  <2>7. QED
    BY <2>4, <2>5, <2>6
<1> HIDE DEF left
<1>5. ch \in ChannelMaps /\ DOMAIN ch = DOMAIN p.channels
  <2>1. ch \in [DOMAIN p.channels -> Channel]
    BY <1>1, <1>4, MapsOfChannels
  <2>2. DOMAIN p.channels \in SUBSET Ids
    BY <1>1, MapsOfChannels
  <2>3. QED
    BY <2>1, <2>2, MapsOfChannels
<1>6. /\ pq \in Seq(Ids) /\ NoRepeats(pq) /\ Elems(pq) = (Full(p) \ mine) \union mine
  <2>1. /\ WithoutAll(p.pi_queue, mine) \in Seq(Ids) /\ NoRepeats(WithoutAll(p.pi_queue, mine))
        /\ Elems(WithoutAll(p.pi_queue, mine)) = Full(p) \ mine
    BY <1>1, WithoutAllLeaves DEF Queued
  <2>2. /\ p.associations[c] \in Seq(Ids) /\ NoRepeats(p.associations[c])
        /\ Elems(p.associations[c]) = mine
    BY <1>1 DEF Listed
  <2>3. QED
    BY <2>1, <2>2, ConcatJoins
<1> HIDE DEF q, sv, pq
<1>7. /\ q.channels = ch /\ q.pi_queue = pq
      /\ q.associations = [p.associations EXCEPT ![c] = <<>>]
  BY <1>1, <1>2 DEF ThreadStates
<1>8. q \in ThreadStates
  <2>1. /\ [p.associations EXCEPT ![c] = <<>>] \in [Clients -> Seq(Ids)]
        /\ [p.conn EXCEPT ![c] = "none"] \in [Clients -> Conns]
        /\ [p.toCli EXCEPT ![c] = <<>>] \in [Clients -> Seq(ToClient)]
        /\ [p.fromCli EXCEPT ![c] = <<>>] \in [Clients -> Seq(FromClient)]
    BY <1>1, NothingQueued DEF Conns
  <2> HIDE DEF ch
  <2>2. QED
    BY <1>1, <1>2, <1>3, <1>5, <1>6, <2>1 DEF ThreadStates
<1>9. \A i \in DOMAIN p.channels : ch[i] = IF i \in mine THEN left(i) ELSE p.channels[i]
  OBVIOUS
<1> HIDE DEF ch
<1>10. Full(q) = (Full(p) \ mine) \union mine
  BY <1>4, <1>5, <1>7, <1>9 DEF Full, Of
<1>11. \A d \in Clients : Of(q, d) = IF d = c THEN {} ELSE Of(p, d)
  BY <1>4, <1>5, <1>7, <1>9, ClientAssumption DEF Of, ClientAssumption
<1>12. Queued(q)
  BY <1>6, <1>7, <1>10 DEF Queued
<1>13. Listed(q)
  <2>1. ASSUME NEW d \in Clients
        PROVE  NoRepeats(q.associations[d]) /\ Elems(q.associations[d]) = Of(q, d)
    <3>1. CASE d = c
      <4>1. q.associations[d] = <<>>
        BY <1>1, <1>7, <3>1
      <4>2. QED
        BY <4>1, <3>1, <1>11, NothingQueued
    <3>2. CASE d # c
      <4>1. q.associations[d] = p.associations[d]
        BY <1>1, <1>7, <3>2
      <4>2. QED
        BY <4>1, <3>2, <1>1, <1>11 DEF Listed
    <3>3. QED
      BY <3>1, <3>2
  <2>2. QED
    BY <2>1 DEF Listed
<1>14. Kept(q, 0)
  BY <1>1, <1>4, <1>5, <1>7, <1>9 DEF Kept
<1>15. QED
  BY <1>8, <1>12, <1>13, <1>14 DEF Tabled, TabledBut, q

\* flush_send_queue: a channel with packets left goes to the back, one without leaves (a314.cc:1020).
LEMMA FlushTables ==
  ASSUME NEW p, Tabled(p), p.pi_queue # <<>>
  PROVE  Tabled(Thread!flush_send_queue(p)) /\ Thread!NextPacket(p) \in PiPackets
<1> DEFINE i == Head(p.pi_queue)
           ch == p.channels[i]
           left == Tail(ch.packet_queue)
           y == [ch EXCEPT !.packet_queue = left]
           q == [p EXCEPT !.channels[i].packet_queue = left, !.pi_queue = Tail(@)]
           r == [q EXCEPT !.pi_queue = Append(@, i)]
<1>1. /\ p \in ThreadStates /\ p.pi_queue \in Seq(Ids) /\ p.channels \in ChannelMaps
      /\ Queued(p) /\ Listed(p) /\ Kept(p, i)
  BY Weaken DEF Tabled, TabledBut, ThreadStates
<1>2. /\ i \in Ids /\ i \in Elems(p.pi_queue) /\ Tail(p.pi_queue) \in Seq(Ids)
      /\ Elems(p.pi_queue) = {i} \union Elems(Tail(p.pi_queue))
      /\ NoRepeats(Tail(p.pi_queue)) /\ i \notin Elems(Tail(p.pi_queue))
  BY <1>1, TailLeaves DEF Queued
<1> HIDE DEF i
<1>3. i \in DOMAIN p.channels /\ ch.packet_queue # <<>> /\ ch \in Channel
  BY <1>1, <1>2, MapsOfChannels DEF Queued, Full
<1>4. left \in Seq(PiPackets) /\ Head(ch.packet_queue) \in PiPackets
  BY <1>3, ChannelFields, TailLeaves
<1>5. Thread!NextPacket(p) \in PiPackets
  BY <1>4 DEF Thread!NextPacket, i
<1>6. y \in Channel /\ y.association = ch.association /\ y.packet_queue = left
  BY <1>3, <1>4, ChannelFields
<1>7. q = [p EXCEPT !.channels = [p.channels EXCEPT ![i] = y], !.pi_queue = Tail(p.pi_queue)]
  BY <1>1 DEF ThreadStates
<1>8. Thread!flush_send_queue(p) =
        IF left # <<>> THEN r ELSE Thread!remove_channel_if_not_associated_and_empty_pq(q, i)
  BY Zenon DEF Thread!flush_send_queue, i
<1> HIDE DEF q, y, left
<1>9. /\ q.channels = [p.channels EXCEPT ![i] = y] /\ q.pi_queue = Tail(p.pi_queue)
      /\ q.associations = p.associations
  BY <1>1, <1>7 DEF ThreadStates
<1>10. /\ q.channels \in ChannelMaps /\ DOMAIN q.channels = DOMAIN p.channels
       /\ q.channels[i] = y /\ \A j \in DOMAIN p.channels : j # i => q.channels[j] = p.channels[j]
  BY <1>1, <1>3, <1>6, <1>9, ChannelReplaced
<1>11. q \in ThreadStates
  BY <1>1, <1>2, <1>7, <1>9, <1>10 DEF ThreadStates
<1>12. \A c : Of(q, c) = Of(p, c)
  BY <1>6, <1>10 DEF Of
<1>13. Listed(q)
  BY <1>1, <1>9, <1>12 DEF Listed
<1>14. Kept(q, i)
  BY <1>1, <1>10 DEF Kept
<1>15. CASE left # <<>>
  <2>1. /\ r.channels = q.channels /\ r.associations = q.associations
        /\ r.pi_queue = Append(Tail(p.pi_queue), i)
    BY <1>9, <1>11 DEF ThreadStates
  <2>2. /\ r.pi_queue \in Seq(Ids) /\ NoRepeats(r.pi_queue) /\ Elems(r.pi_queue) = Full(p)
    <3>1. Elems(p.pi_queue) = Full(p)
      BY <1>1 DEF Queued
    <3> DEFINE t == Tail(p.pi_queue)
    <3>2. t \in Seq(Ids) /\ i \in Ids /\ NoRepeats(t) /\ i \notin Elems(t)
      BY <1>2
    <3>3. Elems(t) \union {i} = Full(p)
      BY <3>1, <1>2
    <3> HIDE DEF t
    <3>4. /\ Append(t, i) \in Seq(Ids) /\ NoRepeats(Append(t, i))
          /\ Elems(Append(t, i)) = Elems(t) \union {i}
      BY <3>2, AppendAdds
    <3>5. r.pi_queue = Append(t, i)
      BY <2>1 DEF t
    <3>6. QED
      BY <3>3, <3>4, <3>5
  <2>3. Full(q) = Full(p)
    BY <1>3, <1>6, <1>10, <1>15 DEF Full
  <2>4. r \in ThreadStates
    BY <1>11, <2>1, <2>2 DEF ThreadStates
  <2> HIDE DEF r
  <2>5. Full(r) = Full(q) /\ \A c : Of(r, c) = Of(q, c)
    BY <2>1 DEF Full, Of
  <2>6. Queued(r) /\ Listed(r) /\ Kept(r, i)
    BY <1>13, <1>14, <2>1, <2>2, <2>3, <2>5 DEF Queued, Listed, Kept
  <2>7. TabledBut(r, i) /\ i \in DOMAIN r.channels /\ r.channels[i].packet_queue # <<>>
    BY <1>3, <1>6, <1>10, <1>15, <2>1, <2>4, <2>6 DEF TabledBut
  <2>8. Tabled(r)
    BY <2>7, Strengthen
  <2>9. QED
    BY <1>5, <1>8, <1>15, <2>8
<1>16. CASE left = <<>>
  <2>1. Full(q) = Full(p) \ {i}
    BY <1>3, <1>6, <1>10, <1>16 DEF Full
  <2>2. Queued(q)
    <3>1. Elems(p.pi_queue) = Full(p)
      BY <1>1 DEF Queued
    <3>2. Elems(Tail(p.pi_queue)) = Full(p) \ {i}
      BY <3>1, <1>2
    <3>3. QED
      BY <3>2, <1>2, <1>9, <2>1 DEF Queued
  <2>3. TabledBut(q, i)
    BY <1>11, <1>13, <1>14, <2>2 DEF TabledBut
  <2>4. QED
    BY <1>5, <1>8, <1>16, <2>3, RemoveTables
<1>17. QED
  BY <1>15, <1>16

-----------------------------------------------------------------------------
(* The driver. *)

Reads == {r \in Requests : r.op \in {"READ", "SHORT"}}
Writes == {r \in Requests : r.op \in {"WRITE", "EOS"}}
Flags == {"RCVD_EOS_FROM_APP", "RCVD_EOS_FROM_RPI", "SENT_EOS_TO_APP", "SENT_EOS_TO_RPI",
          "CLOSED", "SHOULD_SEND_RESET"}
Replies == {"idle", "held", "OK", "EOS", "RESET", "IN_USE", "UNKNOWN", "lost"}
SocketType == [key : Keys, session : Sessions, pending_connect : Sessions \union {NoOne},
               pending_read : Reads \union {NoOne}, pending_write : Writes \union {NoOne},
               flags : SUBSET Flags, rq : Seq(Items)]

\* the requests a socket holds are of its application, and a closed one holds none
PendS(s) == {s.pending_connect, s.pending_read, s.pending_write} \ {NoOne}
Quiet(s) == /\ "CLOSED" \in s.flags => PendS(s) = {}
            /\ "SHOULD_SEND_RESET" \in s.flags => "CLOSED" \in s.flags
Sockets == {s \in SocketType : Quiet(s) /\ \A r \in PendS(s) : r.key = s.key}
SocketMaps == UNION {[D -> Sockets] : D \in SUBSET Ids}
OneEach(f) == \A i, j \in DOMAIN f : f[i].key = f[j].key => i = j
PendAll(f) == UNION {PendS(f[i]) : i \in DOMAIN f}

DriverStates ==
  [socket : SocketMaps, send_queue : Seq(Ids), next_stream_id : Ids,
   io : [Requests -> Replies], read : [Sessions -> Seq(Items)], eosRead : SUBSET Sessions,
   written : [Sessions -> Nat], eosWritten : SUBSET Sessions, a2r : Seq(AmigaPackets)]

Held(d) == {r \in Requests : d.io[r] = "held"}
\* the packets that the A314 thread is taking are in the ring
Typed(d) ==
  /\ d \in DriverStates
  /\ OneEach(d.socket)
  /\ Elems(d.send_queue) \subseteq DOMAIN d.socket
  /\ arrived \in Nat /\ arrived <= Len(d.a2r) /\ Len(d.a2r) <= A2RCap
Sound(d) == Typed(d) /\ Held(d) = PendAll(d.socket)

\* A table of sockets is a function on stream ids.
LEMMA MapsOfSockets ==
  /\ \A f \in SocketMaps : /\ f = [i \in DOMAIN f |-> f[i]] /\ DOMAIN f \subseteq Ids
                           /\ \A i \in DOMAIN f : f[i] \in Sockets
  /\ \A D \in SUBSET Ids : \A f \in [D -> Sockets] : f \in SocketMaps
  BY DEF SocketMaps

\* The fields of a socket.
LEMMA SocketFields ==
  ASSUME NEW s \in Sockets
  PROVE  /\ s.key \in Keys /\ s.session \in Sessions /\ s.pending_connect \in Sessions \union {NoOne}
         /\ s.pending_read \in Reads \union {NoOne} /\ s.pending_write \in Writes \union {NoOne}
         /\ s.flags \in SUBSET Flags /\ s.rq \in Seq(Items) /\ s \in SocketType
         /\ \A r \in PendS(s) : r.key = s.key
         /\ Quiet(s)
  BY DEF Sockets, SocketType

\* Sessions, reads and writes are requests.
LEMMA RequestKinds ==
  /\ Sessions \subseteq Requests /\ Reads \subseteq Requests /\ Writes \subseteq Requests
  /\ NoOne \notin Requests
  /\ \A r \in Requests : r.key \in Keys /\ r.op \in Ops
  /\ \A r \in Sessions : r.op = "CONNECT"
  /\ \A r \in Reads : r.op \in {"READ", "SHORT"}
  /\ \A r \in Writes : r.op \in {"WRITE", "EOS"}
<1>1. \A r \in Requests : r.key \in Keys /\ r.op \in Ops
  BY DEF Requests
<1>2. QED
  BY <1>1, RequestAssumption DEF RequestAssumption, Sessions, Reads, Writes

\* A socket holds requests.
LEMMA PendIn ==
  ASSUME NEW s \in Sockets
  PROVE  PendS(s) \subseteq Requests /\ NoOne \notin PendS(s)
  BY SocketFields, RequestKinds DEF PendS

\* A socket may be changed in place.
LEMMA SocketReplaced ==
  ASSUME NEW f \in SocketMaps, OneEach(f), NEW i \in DOMAIN f, NEW s \in Sockets, s.key = f[i].key
  PROVE  LET g == [f EXCEPT ![i] = s] IN
         /\ g \in SocketMaps /\ OneEach(g) /\ DOMAIN g = DOMAIN f /\ g[i] = s
         /\ PendAll(g) = (PendAll(f) \ PendS(f[i])) \union PendS(s)
<1> DEFINE g == [f EXCEPT ![i] = s]
<1>1. /\ f = [j \in DOMAIN f |-> f[j]] /\ DOMAIN f \subseteq Ids /\ \A j \in DOMAIN f : f[j] \in Sockets
  BY MapsOfSockets
<1>2. /\ DOMAIN g = DOMAIN f /\ g[i] = s /\ \A j \in DOMAIN f : j # i => g[j] = f[j]
      /\ g \in [DOMAIN f -> Sockets]
  BY <1>1
<1>3. g \in SocketMaps
  BY <1>1, <1>2, MapsOfSockets
<1> HIDE DEF g
<1>4. OneEach(g)
  BY <1>2 DEF OneEach
<1>5. ASSUME NEW j \in DOMAIN f, j # i PROVE PendS(f[j]) \intersect PendS(f[i]) = {}
  BY <1>1, <1>5, SocketFields DEF OneEach
<1>6. PendAll(g) = (PendAll(f) \ PendS(f[i])) \union PendS(s)
  <2>1. ASSUME NEW r \in PendAll(g) PROVE r \in (PendAll(f) \ PendS(f[i])) \union PendS(s)
    <3>1. PICK j \in DOMAIN f : r \in PendS(g[j])
      BY <1>2 DEF PendAll
    <3>2. CASE j = i
      BY <3>1, <3>2, <1>2
    <3>3. CASE j # i
      <4>1. r \in PendS(f[j]) /\ r \notin PendS(f[i])
        BY <3>1, <3>3, <1>2, <1>5
      <4>2. QED
        BY <4>1 DEF PendAll
    <3>4. QED
      BY <3>2, <3>3
  <2>2. ASSUME NEW r \in PendAll(f), r \notin PendS(f[i]) PROVE r \in PendAll(g)
    <3>1. PICK j \in DOMAIN f : r \in PendS(f[j])
      BY DEF PendAll
    <3>2. g[j] = f[j]
      BY <3>1, <2>2, <1>2
    <3>3. QED
      BY <3>1, <3>2, <1>2 DEF PendAll
  <2>3. PendS(s) \subseteq PendAll(g)
    BY <1>2 DEF PendAll
  <2>4. QED
    BY <2>1, <2>2, <2>3
<1>7. QED
  BY <1>2, <1>3, <1>4, <1>6 DEF g

\* A socket that goes takes what it holds.
LEMMA SocketDropped ==
  ASSUME NEW f \in SocketMaps, OneEach(f), NEW i \in DOMAIN f
  PROVE  LET g == Device!Drop(f, i) IN
         /\ g \in SocketMaps /\ OneEach(g) /\ DOMAIN g = DOMAIN f \ {i}
         /\ PendAll(g) = PendAll(f) \ PendS(f[i])
<1> DEFINE g == Device!Drop(f, i)
<1>1. /\ DOMAIN f \subseteq Ids /\ \A j \in DOMAIN f : f[j] \in Sockets
  BY MapsOfSockets
<1>2. /\ DOMAIN g = DOMAIN f \ {i} /\ \A j \in DOMAIN g : g[j] = f[j]
      /\ g \in [DOMAIN f \ {i} -> Sockets]
  BY <1>1 DEF Device!Drop
<1>3. g \in SocketMaps
  <2>1. DOMAIN f \ {i} \in SUBSET Ids
    BY <1>1
  <2>2. QED
    BY <1>2, <2>1, MapsOfSockets
<1> HIDE DEF g
<1>4. OneEach(g)
  BY <1>2 DEF OneEach
<1>5. ASSUME NEW j \in DOMAIN f, j # i PROVE PendS(f[j]) \intersect PendS(f[i]) = {}
  BY <1>1, <1>5, SocketFields DEF OneEach
<1>6. PendAll(g) = PendAll(f) \ PendS(f[i])
  <2>1. ASSUME NEW r \in PendAll(g) PROVE r \in PendAll(f) \ PendS(f[i])
    <3>1. PICK j \in DOMAIN g : r \in PendS(g[j])
      BY DEF PendAll
    <3>2. r \in PendS(f[j]) /\ j \in DOMAIN f /\ j # i
      BY <3>1, <1>2
    <3>3. QED
      BY <3>2, <1>5 DEF PendAll
  <2>2. ASSUME NEW r \in PendAll(f), r \notin PendS(f[i]) PROVE r \in PendAll(g)
    <3>1. PICK j \in DOMAIN f : r \in PendS(f[j])
      BY DEF PendAll
    <3>2. j \in DOMAIN g /\ g[j] = f[j]
      BY <3>1, <2>2, <1>2
    <3>3. QED
      BY <3>1, <3>2 DEF PendAll
  <2>3. QED
    BY <2>1, <2>2
<1>7. QED
  BY <1>2, <1>3, <1>4, <1>6 DEF g

\* A socket of an application that has none may be added.
LEMMA SocketAdded ==
  ASSUME NEW f \in SocketMaps, OneEach(f), NEW i \in Ids, i \notin DOMAIN f, NEW s \in Sockets,
         \A j \in DOMAIN f : f[j].key # s.key
  PROVE  LET g == Device!Extend(f, i, s) IN
         /\ g \in SocketMaps /\ OneEach(g) /\ DOMAIN g = DOMAIN f \union {i} /\ g[i] = s
         /\ PendAll(g) = PendAll(f) \union PendS(s)
<1> DEFINE g == Device!Extend(f, i, s)
<1>1. /\ DOMAIN f \subseteq Ids /\ \A j \in DOMAIN f : f[j] \in Sockets
  BY MapsOfSockets
<1>2. /\ DOMAIN g = DOMAIN f \union {i} /\ g[i] = s /\ \A j \in DOMAIN f : g[j] = f[j]
      /\ g = [j \in DOMAIN f \union {i} |-> g[j]]
  BY DEF Device!Extend
<1> HIDE DEF g
<1>3. g \in SocketMaps
  <2>1. \A j \in DOMAIN f \union {i} : g[j] \in Sockets
    BY <1>1, <1>2
  <2>2. g \in [DOMAIN f \union {i} -> Sockets]
    BY <2>1, <1>2
  <2>3. DOMAIN f \union {i} \in SUBSET Ids
    BY <1>1
  <2>4. QED
    BY <2>2, <2>3, MapsOfSockets
<1>4. OneEach(g)
  BY <1>2 DEF OneEach
<1>5. PendAll(g) = PendAll(f) \union PendS(s)
  <2>1. ASSUME NEW r \in PendAll(g) PROVE r \in PendAll(f) \union PendS(s)
    <3>1. PICK j \in DOMAIN f \union {i} : r \in PendS(g[j])
      BY <1>2 DEF PendAll
    <3>2. QED
      BY <3>1, <1>2 DEF PendAll
  <2>2. ASSUME NEW r \in PendAll(f) PROVE r \in PendAll(g)
    <3>1. PICK j \in DOMAIN f : r \in PendS(f[j])
      BY DEF PendAll
    <3>2. QED
      BY <3>1, <1>2 DEF PendAll
  <2>3. PendS(s) \subseteq PendAll(g)
    BY <1>2 DEF PendAll
  <2>4. QED
    BY <2>1, <2>2, <2>3
<1>6. QED
  BY <1>2, <1>3, <1>4, <1>5 DEF g

\* a request is replied to, or begins to wait
LEMMA ReplyWrites ==
  ASSUME NEW d, Typed(d), NEW r \in Requests, NEW x \in Replies
  PROVE  LET u == Device!ReplyMsg(d, r, x) IN
         /\ Typed(u) /\ u.socket = d.socket /\ u.send_queue = d.send_queue /\ u.a2r = d.a2r
         /\ Held(u) = IF x = "held" THEN Held(d) \union {r} ELSE Held(d) \ {r}
<1> DEFINE u == Device!ReplyMsg(d, r, x)
<1>1. d \in DriverStates /\ d.io \in [Requests -> Replies]
  BY DEF Typed, DriverStates
<1>2. u = [d EXCEPT !.io = [d.io EXCEPT ![r] = x]]
  BY <1>1 DEF Device!ReplyMsg, DriverStates
<1> HIDE DEF u
<1>3. [d.io EXCEPT ![r] = x] \in [Requests -> Replies]
  BY <1>1
<1>4. /\ u \in DriverStates /\ u.io = [d.io EXCEPT ![r] = x]
      /\ u.socket = d.socket /\ u.send_queue = d.send_queue /\ u.a2r = d.a2r
  BY <1>1, <1>2, <1>3 DEF DriverStates
<1>5. Typed(u)
  BY <1>4 DEF Typed
<1>6. Held(u) = IF x = "held" THEN Held(d) \union {r} ELSE Held(d) \ {r}
  <2>1. \A t \in Requests : u.io[t] = IF t = r THEN x ELSE d.io[t]
    BY <1>1, <1>4
  <2>2. CASE x = "held"
    BY <2>1, <2>2 DEF Held
  <2>3. CASE x # "held"
    BY <2>1, <2>3 DEF Held
  <2>4. QED
    BY <2>2, <2>3
<1>7. QED
  BY <1>4, <1>5, <1>6 DEF u

\* a socket changes
LEMMA SocketWrites ==
  ASSUME NEW d, Typed(d), NEW i \in DOMAIN d.socket, NEW s \in Sockets, s.key = d.socket[i].key
  PROVE  LET u == [d EXCEPT !.socket = [d.socket EXCEPT ![i] = s]] IN
         /\ Typed(u) /\ Held(u) = Held(d) /\ u.send_queue = d.send_queue /\ u.a2r = d.a2r
         /\ DOMAIN u.socket = DOMAIN d.socket /\ u.socket[i] = s
         /\ PendAll(u.socket) = (PendAll(d.socket) \ PendS(d.socket[i])) \union PendS(s)
<1>1. d \in DriverStates /\ d.socket \in SocketMaps /\ OneEach(d.socket)
  BY DEF Typed, DriverStates
<1> DEFINE g == [d.socket EXCEPT ![i] = s]
           u == [d EXCEPT !.socket = [d.socket EXCEPT ![i] = s]]
<1>2. /\ g \in SocketMaps /\ OneEach(g) /\ DOMAIN g = DOMAIN d.socket /\ g[i] = s
      /\ PendAll(g) = (PendAll(d.socket) \ PendS(d.socket[i])) \union PendS(s)
  BY <1>1, SocketReplaced
<1>3. u = [d EXCEPT !.socket = g]
  OBVIOUS
<1> HIDE DEF g, u
<1>4. /\ u \in DriverStates /\ u.socket = g /\ u.io = d.io
      /\ u.send_queue = d.send_queue /\ u.a2r = d.a2r
  BY <1>1, <1>2, <1>3 DEF DriverStates
<1>5. Typed(u)
  BY <1>2, <1>4 DEF Typed
<1>6. Held(u) = Held(d)
  BY <1>4 DEF Held
<1>7. QED
  BY <1>2, <1>4, <1>5, <1>6 DEF u

\* a packet is put into the ring, if there is room
LEMMA PacketWrites ==
  ASSUME NEW d, Typed(d), Device!room_in_a2r(d), NEW t \in {"CONNECT", "DATA", "EOS", "RESET"},
         NEW i \in Ids, NEW x \in Items
  PROVE  LET u == Device!append_a2r_packet(d, t, i, x) IN
         /\ Typed(u) /\ Held(u) = Held(d) /\ u.send_queue = d.send_queue /\ u.socket = d.socket
         /\ u.written = d.written
<1> DEFINE u == Device!append_a2r_packet(d, t, i, x)
           m == Device!Pkt(t, i, x)
<1>1. d \in DriverStates /\ d.a2r \in Seq(AmigaPackets) /\ Len(d.a2r) < A2RCap
  BY DEF Typed, DriverStates, Device!room_in_a2r
<1>2. m \in AmigaPackets
  BY DEF Device!Pkt, AmigaPackets
<1>3. u = [d EXCEPT !.a2r = Append(d.a2r, m)]
  BY <1>1 DEF Device!append_a2r_packet, DriverStates
<1> HIDE DEF u, m
<1>4. /\ Append(d.a2r, m) \in Seq(AmigaPackets)
      /\ Len(Append(d.a2r, m)) = Len(d.a2r) + 1 /\ Len(d.a2r) \in Nat
  BY <1>1, <1>2
<1>5. /\ u \in DriverStates /\ u.socket = d.socket /\ u.io = d.io
      /\ u.send_queue = d.send_queue /\ u.a2r = Append(d.a2r, m) /\ u.written = d.written
  BY <1>1, <1>3, <1>4 DEF DriverStates
<1>6. arrived <= Len(u.a2r) /\ Len(u.a2r) <= A2RCap
  <2>1. A2RCap \in Nat /\ arrived \in Nat /\ arrived <= Len(d.a2r)
    BY CapAssumption DEF CapAssumption, Typed
  <2>2. QED
    BY <1>1, <1>4, <1>5, <2>1
<1>7. Typed(u)
  BY <1>5, <1>6 DEF Typed
<1>8. Held(u) = Held(d)
  BY <1>5 DEF Held
<1>9. QED
  BY <1>5, <1>7, <1>8 DEF u

\* what the application has got and given
LEMMA CountWrites ==
  ASSUME NEW d, Typed(d), NEW n \in Sessions, NEW u, NEW x \in Items,
         \/ u = [d EXCEPT !.read[n] = Append(@, x)]
         \/ u = [d EXCEPT !.eosRead = @ \union {n}]
         \/ u = [d EXCEPT !.written[n] = @ + 1]
         \/ u = [d EXCEPT !.eosWritten = @ \union {n}]
  PROVE  /\ Typed(u) /\ Held(u) = Held(d) /\ u.send_queue = d.send_queue /\ u.a2r = d.a2r
         /\ u.socket = d.socket
<1>1. /\ d \in DriverStates /\ d.read \in [Sessions -> Seq(Items)] /\ d.eosRead \in SUBSET Sessions
      /\ d.written \in [Sessions -> Nat] /\ d.eosWritten \in SUBSET Sessions
  BY DEF Typed, DriverStates
<1>2. /\ [d.read EXCEPT ![n] = Append(@, x)] \in [Sessions -> Seq(Items)]
      /\ d.eosRead \union {n} \in SUBSET Sessions /\ d.eosWritten \union {n} \in SUBSET Sessions
      /\ [d.written EXCEPT ![n] = @ + 1] \in [Sessions -> Nat]
  BY <1>1, AppendAdds
<1>3. \/ u = [d EXCEPT !.read = [d.read EXCEPT ![n] = Append(@, x)]]
      \/ u = [d EXCEPT !.eosRead = d.eosRead \union {n}]
      \/ u = [d EXCEPT !.written = [d.written EXCEPT ![n] = @ + 1]]
      \/ u = [d EXCEPT !.eosWritten = d.eosWritten \union {n}]
  BY <1>1 DEF DriverStates
<1>4. /\ u \in DriverStates /\ u.socket = d.socket /\ u.io = d.io
      /\ u.send_queue = d.send_queue /\ u.a2r = d.a2r
  BY <1>1, <1>2, <1>3 DEF DriverStates
<1>5. Typed(u)
  BY <1>4 DEF Typed
<1>6. Held(u) = Held(d)
  BY <1>4 DEF Held
<1>7. QED
  BY <1>4, <1>5, <1>6

\* add_to_send_queue and remove_from_send_queue move no request (sockets.c:71,84).
LEMMA QueueWrites ==
  ASSUME NEW d, Typed(d), NEW i \in DOMAIN d.socket
  PROVE  /\ LET u == Device!add_to_send_queue(d, i) IN
              Typed(u) /\ Held(u) = Held(d) /\ u.socket = d.socket
         /\ LET u == Device!remove_from_send_queue(d, i) IN
              /\ Typed(u) /\ Held(u) = Held(d) /\ u.socket = d.socket /\ i \notin Elems(u.send_queue)
              /\ u.a2r = d.a2r
<1> DEFINE u == Device!add_to_send_queue(d, i)
           v == Device!remove_from_send_queue(d, i)
<1>1. /\ d \in DriverStates /\ d.send_queue \in Seq(Ids) /\ Elems(d.send_queue) \subseteq DOMAIN d.socket
      /\ i \in Ids
  BY MapsOfSockets DEF Typed, DriverStates
<1>2. /\ u = [d EXCEPT !.send_queue = Append(d.send_queue, i)]
      /\ v = [d EXCEPT !.send_queue = Without(d.send_queue, i)]
  BY <1>1, SameHelpers DEF Device!add_to_send_queue, Device!remove_from_send_queue, DriverStates
<1>3. /\ Append(d.send_queue, i) \in Seq(Ids)
      /\ Elems(Append(d.send_queue, i)) = Elems(d.send_queue) \union {i}
  BY <1>1, AppendAdds
<1>4. /\ Without(d.send_queue, i) \in Seq(Ids)
      /\ Elems(Without(d.send_queue, i)) = Elems(d.send_queue) \ {i}
  BY <1>1, WithoutLeaves
<1> HIDE DEF u, v
<1>5. /\ u \in DriverStates /\ u.socket = d.socket /\ u.io = d.io /\ u.a2r = d.a2r
      /\ u.send_queue = Append(d.send_queue, i)
  BY <1>1, <1>2, <1>3 DEF DriverStates
<1>6. /\ v \in DriverStates /\ v.socket = d.socket /\ v.io = d.io /\ v.a2r = d.a2r
      /\ v.send_queue = Without(d.send_queue, i)
  BY <1>1, <1>2, <1>4 DEF DriverStates
<1>7. Typed(u) /\ Held(u) = Held(d)
  BY <1>1, <1>3, <1>5 DEF Typed, Held
<1>8. Typed(v) /\ Held(v) = Held(d) /\ i \notin Elems(v.send_queue)
  BY <1>1, <1>4, <1>6 DEF Typed, Held
<1>9. QED
  BY <1>5, <1>6, <1>7, <1>8 DEF u, v

\* delete_socket: the requests of the socket are no longer in a socket (sockets.c:65).
LEMMA DeleteWrites ==
  ASSUME NEW d, Typed(d), NEW i \in DOMAIN d.socket, i \notin Elems(d.send_queue)
  PROVE  LET u == Device!delete_socket(d, i) IN
         Typed(u) /\ Held(u) = Held(d) /\ PendAll(u.socket) = PendAll(d.socket) \ PendS(d.socket[i])
<1> DEFINE u == Device!delete_socket(d, i)
           g == Device!Drop(d.socket, i)
<1>1. d \in DriverStates /\ d.socket \in SocketMaps /\ OneEach(d.socket)
  BY DEF Typed, DriverStates
<1>2. u = [d EXCEPT !.socket = g]
  BY <1>1 DEF Device!delete_socket, DriverStates
<1>3. /\ g \in SocketMaps /\ OneEach(g) /\ DOMAIN g = DOMAIN d.socket \ {i}
      /\ PendAll(g) = PendAll(d.socket) \ PendS(d.socket[i])
  BY <1>1, SocketDropped
<1> HIDE DEF u, g
<1>4. /\ u \in DriverStates /\ u.socket = g /\ u.io = d.io /\ u.a2r = d.a2r
      /\ u.send_queue = d.send_queue
  BY <1>1, <1>2, <1>3 DEF DriverStates
<1>5. Typed(u) /\ Held(u) = Held(d)
  BY <1>3, <1>4 DEF Typed, Held
<1>6. QED
  BY <1>3, <1>4, <1>5 DEF u
\* The driver and the channels speak of the same requests.
LEMMA SameRequests == Device!Requests = Requests
  BY DEF Device!Requests, Requests, Device!Ops, Ops


\* close_socket replies to what the socket holds, and the socket holds nothing
LEMMA CloseWrites ==
  ASSUME NEW d, Typed(d), NEW i \in DOMAIN d.socket, NEW b \in BOOLEAN
  PROVE  LET u == Device!close_socket(d, i, b) IN
         /\ Typed(u) /\ Held(u) = Held(d) \ PendS(d.socket[i])
         /\ PendAll(u.socket) = PendAll(d.socket) \ PendS(d.socket[i])
<1> DEFINE s == d.socket[i]
           held == Device!Pending(s)
           io1 == [r \in Requests |-> IF r \in held THEN "RESET" ELSE d.io[r]]
           o == [d EXCEPT !.io = [r \in Device!Requests |-> IF r \in held THEN "RESET" ELSE @[r]]]
           e == Device!remove_from_send_queue(o, i)
           closed == [s EXCEPT !.pending_connect = NoOne, !.pending_read = NoOne,
                               !.pending_write = NoOne, !.rq = <<>>,
                               !.flags = @ \union {"CLOSED", "SHOULD_SEND_RESET"}]
           p == Device!append_a2r_packet(e, "RESET", i, Device!Nothing)
           f == [e EXCEPT !.socket[i] = closed]
           u == Device!close_socket(d, i, b)
<1>1. /\ d \in DriverStates /\ d.socket \in SocketMaps /\ OneEach(d.socket) /\ s \in Sockets
      /\ d.io \in [Requests -> Replies] /\ i \in Ids
  BY MapsOfSockets DEF Typed, DriverStates
<1>2. held = PendS(s)
  BY DEF Device!Pending, PendS
<1>3. /\ ~b => u = Device!delete_socket(e, i)
      /\ b /\ Device!CanSend(e) => u = Device!delete_socket(p, i)
      /\ b /\ ~Device!CanSend(e) => u = Device!add_to_send_queue(f, i)
  <2>1. CASE ~b
    BY <2>1 DEF Device!close_socket
  <2>2. CASE b /\ Device!CanSend(e)
    BY <2>2 DEF Device!close_socket
  <2>3. CASE b /\ ~Device!CanSend(e)
    BY <2>3 DEF Device!close_socket
  <2>4. QED
    BY <2>1, <2>2, <2>3
<1> HIDE DEF u
<1>4. /\ Typed(o) /\ o.socket = d.socket /\ Held(o) = Held(d) \ PendS(s)
  <2>1. o = [d EXCEPT !.io = io1]
    BY <1>1, SameRequests DEF DriverStates
  <2>2. io1 \in [Requests -> Replies] /\ \A r \in Requests : io1[r] = "held" <=> r \notin held /\ d.io[r] = "held"
    BY <1>1 DEF Replies
  <2> HIDE DEF o, io1, held
  <2>3. /\ o \in DriverStates /\ o.socket = d.socket /\ o.io = io1 /\ o.a2r = d.a2r
        /\ o.send_queue = d.send_queue
    BY <1>1, <2>1, <2>2 DEF DriverStates
  <2>4. Typed(o)
    BY <2>3 DEF Typed
  <2>5. Held(o) = Held(d) \ PendS(s)
    BY <1>2, <2>2, <2>3 DEF Held
  <2>6. QED
    BY <2>3, <2>4, <2>5
<1> HIDE DEF o
<1>5. /\ Typed(e) /\ e.socket = d.socket /\ Held(e) = Held(d) \ PendS(s) /\ i \notin Elems(e.send_queue)
  BY <1>4, QueueWrites
<1> HIDE DEF e
<1>6. CASE ~b
  <2>1. u = Device!delete_socket(e, i)
    BY <1>3, <1>6
  <2>2. QED
    BY <1>5, <2>1, DeleteWrites DEF u
<1>7. CASE b /\ Device!CanSend(e)
  <2>1. u = Device!delete_socket(p, i)
    BY <1>3, <1>7
  <2>2. Device!room_in_a2r(e)
    BY <1>7 DEF Device!CanSend
  <2>3. /\ Typed(p) /\ p.socket = d.socket /\ Held(p) = Held(d) \ PendS(s) /\ i \notin Elems(p.send_queue)
    BY <1>1, <1>5, <2>2, PacketWrites, ItemTypes
  <2> HIDE DEF p
  <2>4. QED
    BY <2>1, <2>3, DeleteWrites DEF u
<1>8. CASE b /\ ~Device!CanSend(e)
  <2>1. u = Device!add_to_send_queue(f, i)
    BY <1>3, <1>8
  <2>2. closed \in Sockets /\ closed.key = s.key /\ PendS(closed) = {}
    <3>1. /\ closed \in SocketType /\ closed.key = s.key
          /\ "CLOSED" \in closed.flags
      <4>1. s \in SocketType
        BY <1>1, SocketFields
      <4>2. <<>> \in Seq(Items)
        OBVIOUS
      <4>3. {"CLOSED", "SHOULD_SEND_RESET"} \subseteq Flags
        BY DEF Flags
      <4> HIDE DEF s
      <4>4. QED
        BY <4>1, <4>2, <4>3 DEF SocketType
    <3>2. /\ closed.pending_connect = NoOne /\ closed.pending_read = NoOne
          /\ closed.pending_write = NoOne
      BY <1>1, SocketFields DEF SocketType
    <3> HIDE DEF closed
    <3>3. PendS(closed) = {}
      BY <3>2 DEF PendS
    <3>4. QED
      BY <3>1, <3>3 DEF Sockets, Quiet
  <2>3. f = [e EXCEPT !.socket = [e.socket EXCEPT ![i] = closed]]
    BY <1>5 DEF Typed, DriverStates
  <2> HIDE DEF f, closed
  <2>7. closed \in Sockets /\ closed.key = e.socket[i].key /\ i \in DOMAIN e.socket
    BY <1>5, <2>2
  <2>8. /\ Typed(f) /\ Held(f) = Held(e) /\ DOMAIN f.socket = DOMAIN e.socket
        /\ PendAll(f.socket) = (PendAll(e.socket) \ PendS(e.socket[i])) \union PendS(closed)
    BY <1>5, <2>7, <2>3, SocketWrites
  <2>4. /\ Typed(f) /\ Held(f) = Held(e) /\ DOMAIN f.socket = DOMAIN e.socket
        /\ PendAll(f.socket) = PendAll(d.socket) \ PendS(s)
    BY <1>5, <2>2, <2>8
  <2>5. Typed(u) /\ Held(u) = Held(f) /\ u.socket = f.socket
    BY <1>5, <2>1, <2>4, QueueWrites
  <2>6. QED
    BY <1>5, <2>4, <2>5 DEF u
<1>9. QED
  BY <1>6, <1>7, <1>8

\* close_socket without a RESET: the requests it held are replied to (a314driver.c:53).
LEMMA CloseQuietly ==
  ASSUME NEW d, Typed(d), NEW i \in DOMAIN d.socket
  PROVE  LET u == Device!close_socket(d, i, FALSE) IN
         /\ Typed(u) /\ Held(u) = Held(d) \ PendS(d.socket[i])
         /\ PendAll(u.socket) = PendAll(d.socket) \ PendS(d.socket[i])
<1>1. PICK b \in BOOLEAN : b = FALSE
  OBVIOUS
<1>2. QED
  BY <1>1, CloseWrites

\* a socket changes, but not in what it holds
Kin(s) == {y \in SocketType : /\ y.key = s.key /\ y.pending_connect = s.pending_connect
                              /\ y.pending_read = s.pending_read
                              /\ y.pending_write = s.pending_write /\ y.session = s.session
                              /\ \A flag \in {"CLOSED", "SHOULD_SEND_RESET"} :
                                   flag \in y.flags <=> flag \in s.flags}
Alike(d, u, i) ==
  /\ Typed(u) /\ Held(u) = Held(d) /\ u.send_queue = d.send_queue /\ u.a2r = d.a2r
  /\ DOMAIN u.socket = DOMAIN d.socket
  /\ PendS(u.socket[i]) = PendS(d.socket[i])
  /\ u.socket[i].pending_write = d.socket[i].pending_write
  /\ u.socket[i].session = d.socket[i].session /\ u.socket[i].key = d.socket[i].key
  /\ Device!Closed(u.socket[i]) <=> Device!Closed(d.socket[i])
  /\ PendAll(u.socket) = PendAll(d.socket)

\* A socket that changes in other fields holds what it held.
LEMMA SocketKeeps ==
  ASSUME NEW d, Typed(d), NEW i \in DOMAIN d.socket, NEW y \in Kin(d.socket[i])
  PROVE  Alike(d, [d EXCEPT !.socket = [d.socket EXCEPT ![i] = y]], i)
<1> DEFINE s == d.socket[i]
           u == [d EXCEPT !.socket = [d.socket EXCEPT ![i] = y]]
<1>1. d.socket \in SocketMaps /\ s \in Sockets
  BY MapsOfSockets DEF Typed, DriverStates
<1>2. /\ y \in SocketType /\ y.key = s.key /\ y.pending_connect = s.pending_connect
      /\ y.pending_read = s.pending_read /\ y.pending_write = s.pending_write
      /\ y.session = s.session
      /\ \A flag \in {"CLOSED", "SHOULD_SEND_RESET"} : flag \in y.flags <=> flag \in s.flags
  BY DEF Kin
<1>3. PendS(y) = PendS(s)
  BY <1>2 DEF PendS
<1> HIDE DEF s
<1>4. y \in Sockets
  <2>1. Quiet(s) /\ \A r \in PendS(s) : r.key = s.key
    BY <1>1, SocketFields
  <2>2. Quiet(y)
    BY <1>2, <1>3, <2>1 DEF Quiet
  <2>3. QED
    BY <1>2, <1>3, <2>1, <2>2 DEF Sockets
<1>5. /\ Typed(u) /\ Held(u) = Held(d) /\ u.send_queue = d.send_queue /\ u.a2r = d.a2r
      /\ DOMAIN u.socket = DOMAIN d.socket /\ u.socket[i] = y
      /\ PendAll(u.socket) = (PendAll(d.socket) \ PendS(s)) \union PendS(y)
  BY <1>2, <1>4, SocketWrites DEF s
<1> HIDE DEF u
<1>6. PendS(s) \subseteq PendAll(d.socket)
  BY DEF PendAll, s
<1>7. Alike(d, u, i)
  BY <1>2, <1>3, <1>5, <1>6 DEF Alike, s, Device!Closed
<1>8. QED
  BY <1>7 DEF u

\* a flag of a socket is set
LEMMA FlagIsSet ==
  ASSUME NEW d, Typed(d), NEW i \in DOMAIN d.socket, NEW flag \in Flags \ {"CLOSED", "SHOULD_SEND_RESET"}
  PROVE  Alike(d, [d EXCEPT !.socket[i].flags = @ \union {flag}], i)
<1> DEFINE s == d.socket[i]
           y == [s EXCEPT !.flags = s.flags \union {flag}]
           u == [d EXCEPT !.socket[i].flags = @ \union {flag}]
<1>1. d \in DriverStates /\ d.socket \in SocketMaps /\ s \in SocketType
  BY MapsOfSockets, SocketFields DEF Typed, DriverStates
<1>2. u = [d EXCEPT !.socket = [d.socket EXCEPT ![i] = y]]
  BY <1>1 DEF DriverStates
<1>3. y \in Kin(s)
  <2> HIDE DEF s
  <2>1. QED
    BY <1>1 DEF SocketType, Kin
<1> HIDE DEF y, u
<1>4. QED
  BY <1>2, <1>3, SocketKeeps DEF u

\* the data that waits in a socket changes
LEMMA DataWaits ==
  ASSUME NEW d, Typed(d), NEW i \in DOMAIN d.socket, NEW q \in Seq(Items)
  PROVE  Alike(d, [d EXCEPT !.socket[i].rq = q], i)
<1> DEFINE s == d.socket[i]
           y == [s EXCEPT !.rq = q]
           u == [d EXCEPT !.socket[i].rq = q]
<1>1. d \in DriverStates /\ d.socket \in SocketMaps /\ s \in SocketType
  BY MapsOfSockets, SocketFields DEF Typed, DriverStates
<1>2. u = [d EXCEPT !.socket = [d.socket EXCEPT ![i] = y]]
  BY <1>1 DEF DriverStates
<1>3. y \in Kin(s)
  <2> HIDE DEF s
  <2>1. QED
    BY <1>1 DEF SocketType, Kin
<1> HIDE DEF y, u
<1>4. QED
  BY <1>2, <1>3, SocketKeeps DEF u

\* SetEosFlag closes the socket if both ends have ended: it does not lose what it holds
LEMMA FlagWrites ==
  ASSUME NEW d, Sound(d), NEW i \in DOMAIN d.socket, NEW flag \in Flags \ {"CLOSED", "SHOULD_SEND_RESET"}
  PROVE  Sound(Device!SetEosFlag(d, i, flag))
<1> DEFINE e == [d EXCEPT !.socket[i].flags = @ \union {flag}]
<1>1. Typed(d) /\ Held(d) = PendAll(d.socket)
  BY DEF Sound
<1>2. Alike(d, e, i)
  BY <1>1, FlagIsSet
<1>3. Device!SetEosFlag(d, i, flag) \in {e, Device!close_socket(e, i, FALSE)}
  BY Zenon DEF Device!SetEosFlag
<1> HIDE DEF e
<1>4. Sound(e)
  BY <1>1, <1>2 DEF Sound, Alike
<1>5. Sound(Device!close_socket(e, i, FALSE))
  <2>1. Typed(e) /\ i \in DOMAIN e.socket /\ Held(e) = PendAll(e.socket)
    BY <1>1, <1>2 DEF Alike
  <2>2. QED
    BY <2>1, CloseQuietly DEF Sound
<1>6. QED
  BY <1>3, <1>4, <1>5

\* what a socket holds changes in one place
LEMMA ReadChanges ==
  ASSUME NEW d, Typed(d), NEW i \in DOMAIN d.socket, NEW r \in Reads \union {NoOne},
         r # NoOne => r.key = d.socket[i].key /\ ~Device!Closed(d.socket[i])
  PROVE  LET u == [d EXCEPT !.socket[i].pending_read = r] IN
         /\ Typed(u) /\ Held(u) = Held(d) /\ u.send_queue = d.send_queue /\ u.a2r = d.a2r
         /\ DOMAIN u.socket = DOMAIN d.socket
         /\ PendAll(u.socket) = (PendAll(d.socket) \ {d.socket[i].pending_read}) \union ({r} \ {NoOne})
<1> DEFINE s == d.socket[i]
           y == [s EXCEPT !.pending_read = r]
           u == [d EXCEPT !.socket[i].pending_read = r]
<1>1. d \in DriverStates /\ d.socket \in SocketMaps /\ s \in Sockets
  BY MapsOfSockets DEF Typed, DriverStates
<1>2. u = [d EXCEPT !.socket = [d.socket EXCEPT ![i] = y]]
  BY <1>1 DEF DriverStates
<1> HIDE DEF s
<1>3. s \in SocketType /\ Quiet(s) /\ \A q \in PendS(s) : q.key = s.key
  BY <1>1, SocketFields
<1>4. /\ y \in SocketType /\ y.key = s.key /\ y.pending_read = r
      /\ y.pending_connect = s.pending_connect /\ y.pending_write = s.pending_write
      /\ y.flags = s.flags
  BY <1>3 DEF SocketType
<1> HIDE DEF y
<1>5. s.pending_read \notin {s.pending_connect, s.pending_write} \ {NoOne}
  BY <1>3, RequestKinds DEF SocketType
<1>6. /\ PendS(y) = (PendS(s) \ {s.pending_read}) \union ({r} \ {NoOne})
      /\ s.pending_read \in PendS(s) \union {NoOne}
  BY <1>4, <1>5 DEF PendS
<1>7. y \in Sockets
  <2>1. Quiet(y)
    <3>1. CASE r = NoOne
      BY <1>3, <1>4, <1>6, <3>1 DEF Quiet
    <3>2. CASE r # NoOne
      BY <1>3, <1>4, <3>2 DEF Quiet, Device!Closed, s
    <3>3. QED
      BY <3>1, <3>2
  <2>2. QED
    BY <1>3, <1>4, <1>6, <2>1 DEF Sockets, s
<1> DEFINE v == [d EXCEPT !.socket = [d.socket EXCEPT ![i] = y]]
<1>8. /\ Typed(v) /\ Held(v) = Held(d) /\ v.send_queue = d.send_queue /\ v.a2r = d.a2r
      /\ DOMAIN v.socket = DOMAIN d.socket
      /\ PendAll(v.socket) = (PendAll(d.socket) \ PendS(s)) \union PendS(y)
  BY <1>4, <1>7, SocketWrites DEF s
<1>9. u = v
  BY <1>2
<1> HIDE DEF v
<1>10. PendS(s) \subseteq PendAll(d.socket) /\ NoOne \notin PendAll(d.socket)
  BY DEF PendAll, PendS, s
<1> HIDE DEF u
<1>11. PendAll(u.socket) = (PendAll(d.socket) \ {s.pending_read}) \union ({r} \ {NoOne})
  BY <1>6, <1>8, <1>10, <1>9
<1>12. QED
  BY <1>8, <1>11, <1>9 DEF u, s

\* pending_write takes the place of what was there.
LEMMA WriteChanges ==
  ASSUME NEW d, Typed(d), NEW i \in DOMAIN d.socket, NEW r \in Writes \union {NoOne},
         r # NoOne => r.key = d.socket[i].key /\ ~Device!Closed(d.socket[i])
  PROVE  LET u == [d EXCEPT !.socket[i].pending_write = r] IN
         /\ Typed(u) /\ Held(u) = Held(d) /\ u.send_queue = d.send_queue /\ u.a2r = d.a2r
         /\ DOMAIN u.socket = DOMAIN d.socket
         /\ PendAll(u.socket) = (PendAll(d.socket) \ {d.socket[i].pending_write}) \union ({r} \ {NoOne})
<1> DEFINE s == d.socket[i]
           y == [s EXCEPT !.pending_write = r]
           u == [d EXCEPT !.socket[i].pending_write = r]
<1>1. d \in DriverStates /\ d.socket \in SocketMaps /\ s \in Sockets
  BY MapsOfSockets DEF Typed, DriverStates
<1>2. u = [d EXCEPT !.socket = [d.socket EXCEPT ![i] = y]]
  BY <1>1 DEF DriverStates
<1> HIDE DEF s
<1>3. s \in SocketType /\ Quiet(s) /\ \A q \in PendS(s) : q.key = s.key
  BY <1>1, SocketFields
<1>4. /\ y \in SocketType /\ y.key = s.key /\ y.pending_write = r
      /\ y.pending_connect = s.pending_connect /\ y.pending_read = s.pending_read
      /\ y.flags = s.flags
  BY <1>3 DEF SocketType
<1> HIDE DEF y
<1>5. s.pending_write \notin {s.pending_connect, s.pending_read} \ {NoOne}
  BY <1>3, RequestKinds DEF SocketType
<1>6. /\ PendS(y) = (PendS(s) \ {s.pending_write}) \union ({r} \ {NoOne})
      /\ s.pending_write \in PendS(s) \union {NoOne}
  BY <1>4, <1>5 DEF PendS
<1>7. y \in Sockets
  <2>1. Quiet(y)
    <3>1. CASE r = NoOne
      BY <1>3, <1>4, <1>6, <3>1 DEF Quiet
    <3>2. CASE r # NoOne
      BY <1>3, <1>4, <3>2 DEF Quiet, Device!Closed, s
    <3>3. QED
      BY <3>1, <3>2
  <2>2. QED
    BY <1>3, <1>4, <1>6, <2>1 DEF Sockets, s
<1> DEFINE v == [d EXCEPT !.socket = [d.socket EXCEPT ![i] = y]]
<1>8. /\ Typed(v) /\ Held(v) = Held(d) /\ v.send_queue = d.send_queue /\ v.a2r = d.a2r
      /\ DOMAIN v.socket = DOMAIN d.socket
      /\ PendAll(v.socket) = (PendAll(d.socket) \ PendS(s)) \union PendS(y)
  BY <1>4, <1>7, SocketWrites DEF s
<1>9. u = v
  BY <1>2
<1> HIDE DEF v
<1>10. PendS(s) \subseteq PendAll(d.socket) /\ NoOne \notin PendAll(d.socket)
  BY DEF PendAll, PendS, s
<1> HIDE DEF u
<1>11. PendAll(u.socket) = (PendAll(d.socket) \ {s.pending_write}) \union ({r} \ {NoOne})
  BY <1>6, <1>8, <1>10, <1>9
<1>12. QED
  BY <1>8, <1>11, <1>9 DEF u, s

\* pending_connect takes the place of what was there.
LEMMA ConnectChanges ==
  ASSUME NEW d, Typed(d), NEW i \in DOMAIN d.socket, NEW r \in Sessions \union {NoOne},
         r # NoOne => r.key = d.socket[i].key /\ ~Device!Closed(d.socket[i])
  PROVE  LET u == [d EXCEPT !.socket[i].pending_connect = r] IN
         /\ Typed(u) /\ Held(u) = Held(d) /\ u.send_queue = d.send_queue /\ u.a2r = d.a2r
         /\ DOMAIN u.socket = DOMAIN d.socket
         /\ PendAll(u.socket) = (PendAll(d.socket) \ {d.socket[i].pending_connect}) \union ({r} \ {NoOne})
<1> DEFINE s == d.socket[i]
           y == [s EXCEPT !.pending_connect = r]
           u == [d EXCEPT !.socket[i].pending_connect = r]
<1>1. d \in DriverStates /\ d.socket \in SocketMaps /\ s \in Sockets
  BY MapsOfSockets DEF Typed, DriverStates
<1>2. u = [d EXCEPT !.socket = [d.socket EXCEPT ![i] = y]]
  BY <1>1 DEF DriverStates
<1> HIDE DEF s
<1>3. s \in SocketType /\ Quiet(s) /\ \A q \in PendS(s) : q.key = s.key
  BY <1>1, SocketFields
<1>4. /\ y \in SocketType /\ y.key = s.key /\ y.pending_connect = r
      /\ y.pending_read = s.pending_read /\ y.pending_write = s.pending_write
      /\ y.flags = s.flags
  BY <1>3 DEF SocketType
<1> HIDE DEF y
<1>5. s.pending_connect \notin {s.pending_read, s.pending_write} \ {NoOne}
  BY <1>3, RequestKinds DEF SocketType
<1>6. /\ PendS(y) = (PendS(s) \ {s.pending_connect}) \union ({r} \ {NoOne})
      /\ s.pending_connect \in PendS(s) \union {NoOne}
  BY <1>4, <1>5 DEF PendS
<1>7. y \in Sockets
  <2>1. Quiet(y)
    <3>1. CASE r = NoOne
      BY <1>3, <1>4, <1>6, <3>1 DEF Quiet
    <3>2. CASE r # NoOne
      BY <1>3, <1>4, <3>2 DEF Quiet, Device!Closed, s
    <3>3. QED
      BY <3>1, <3>2
  <2>2. QED
    BY <1>3, <1>4, <1>6, <2>1 DEF Sockets, s
<1> DEFINE v == [d EXCEPT !.socket = [d.socket EXCEPT ![i] = y]]
<1>8. /\ Typed(v) /\ Held(v) = Held(d) /\ v.send_queue = d.send_queue /\ v.a2r = d.a2r
      /\ DOMAIN v.socket = DOMAIN d.socket
      /\ PendAll(v.socket) = (PendAll(d.socket) \ PendS(s)) \union PendS(y)
  BY <1>4, <1>7, SocketWrites DEF s
<1>9. u = v
  BY <1>2
<1> HIDE DEF v
<1>10. PendS(s) \subseteq PendAll(d.socket) /\ NoOne \notin PendAll(d.socket)
  BY DEF PendAll, PendS, s
<1> HIDE DEF u
<1>11. PendAll(u.socket) = (PendAll(d.socket) \ {s.pending_connect}) \union ({r} \ {NoOne})
  BY <1>6, <1>8, <1>10, <1>9
<1>12. QED
  BY <1>8, <1>11, <1>9 DEF u, s

-----------------------------------------------------------------------------
(* Its replies. *)

\* A read that gets data is replied to (a314driver.c:331).
LEMMA DataReplied ==
  ASSUME NEW d, Typed(d), NEW r \in Requests, NEW i \in DOMAIN d.socket, NEW x \in Items
  PROVE  LET u == Device!ReplyData(d, r, i, x) IN
         /\ Typed(u) /\ Held(u) = Held(d) \ {r} /\ u.socket = d.socket
         /\ u.send_queue = d.send_queue /\ u.a2r = d.a2r
<1> DEFINE e == Device!ReplyMsg(d, r, "OK")
           n == d.socket[i].session
           u == [e EXCEPT !.read[n] = Append(@, x)]
<1>1. n \in Sessions
  BY MapsOfSockets, SocketFields DEF Typed, DriverStates
<1>2. /\ Typed(e) /\ Held(e) = Held(d) \ {r} /\ e.socket = d.socket
      /\ e.send_queue = d.send_queue /\ e.a2r = d.a2r
  <2>1. "OK" \in Replies /\ "OK" # "held"
    BY DEF Replies
  <2>2. QED
    BY <2>1, ReplyWrites
<1>3. Device!ReplyData(d, r, i, x) = u
  BY DEF Device!ReplyData
<1> HIDE DEF e, n
<1>4. /\ Typed(u) /\ Held(u) = Held(e) /\ u.send_queue = e.send_queue /\ u.a2r = e.a2r
      /\ u.socket = e.socket
  BY <1>1, <1>2, CountWrites
<1>5. QED
  BY <1>2, <1>3, <1>4

\* A read that gets EOS is replied to (a314driver.c:344).
LEMMA EosReplied ==
  ASSUME NEW d, Typed(d), NEW r \in Requests, NEW i \in DOMAIN d.socket,
         Held(d) \ {r} = PendAll(d.socket)
  PROVE  Sound(Device!ReplyEos(d, r, i))
<1> DEFINE e == Device!ReplyMsg(d, r, "EOS")
           n == d.socket[i].session
           f == [e EXCEPT !.eosRead = @ \union {n}]
<1>1. n \in Sessions
  BY MapsOfSockets, SocketFields DEF Typed, DriverStates
<1>2. Typed(e) /\ Held(e) = Held(d) \ {r} /\ e.socket = d.socket
  <2>1. "EOS" \in Replies /\ "EOS" # "held"
    BY DEF Replies
  <2>2. QED
    BY <2>1, ReplyWrites
<1>3. Device!ReplyEos(d, r, i) = Device!SetEosFlag(f, i, "SENT_EOS_TO_APP")
  BY DEF Device!ReplyEos
<1> HIDE DEF e, n
<1>4. Typed(f) /\ Held(f) = Held(e) /\ f.socket = e.socket
  <2>1. PICK x \in Items : TRUE
    BY ItemTypes
  <2>2. QED
    BY <1>1, <1>2, CountWrites
<1> HIDE DEF f
<1>5. Sound(f) /\ i \in DOMAIN f.socket
  BY <1>2, <1>4 DEF Sound
<1>6. "SENT_EOS_TO_APP" \in Flags \ {"CLOSED", "SHOULD_SEND_RESET"}
  BY DEF Flags
<1>7. QED
  BY <1>3, <1>5, <1>6, FlagWrites

\* A write that is sent is replied to (a314driver.c:373).
LEMMA DataSent ==
  ASSUME NEW d, Typed(d), Device!room_in_a2r(d), NEW r \in Requests, NEW i \in DOMAIN d.socket
  PROVE  LET u == Device!SendData(d, r, i) IN
         /\ Typed(u) /\ Held(u) = Held(d) \ {r} /\ u.socket = d.socket
         /\ u.send_queue = d.send_queue
<1> DEFINE n == d.socket[i].session
           x == Device!Item(n, d.written[n] + 1)
           e == Device!append_a2r_packet(d, "DATA", i, x)
           f == Device!ReplyMsg(e, r, "OK")
           u == [f EXCEPT !.written[n] = @ + 1]
<1>1. n \in Sessions /\ i \in Ids
  BY MapsOfSockets, SocketFields DEF Typed, DriverStates
<1>2. x \in Items
  <2>1. d.written[n] \in Nat
    BY <1>1 DEF Typed, DriverStates
  <2>2. QED
    BY <1>1, <2>1 DEF Device!Item, Items
<1>3. Device!SendData(d, r, i) = u
  BY DEF Device!SendData
<1> HIDE DEF x, n
<1>4. Typed(e) /\ Held(e) = Held(d) /\ e.send_queue = d.send_queue /\ e.socket = d.socket
  BY <1>1, <1>2, PacketWrites
<1> HIDE DEF e
<1>5. Typed(f) /\ Held(f) = Held(d) \ {r} /\ f.send_queue = d.send_queue /\ f.socket = d.socket
  <2>1. "OK" \in Replies /\ "OK" # "held"
    BY DEF Replies
  <2>2. QED
    BY <1>4, <2>1, ReplyWrites
<1> HIDE DEF f
<1>6. Typed(u) /\ Held(u) = Held(f) /\ u.send_queue = f.send_queue /\ u.socket = f.socket
  BY <1>1, <1>2, <1>5, CountWrites
<1>7. QED
  BY <1>3, <1>5, <1>6

\* An EOS that is sent is replied to (a314driver.c:404).
LEMMA EosSent ==
  ASSUME NEW d, Typed(d), Device!room_in_a2r(d), NEW r \in Requests, NEW i \in DOMAIN d.socket,
         Held(d) \ {r} = PendAll(d.socket)
  PROVE  Sound(Device!SendEos(d, r, i))
<1> DEFINE n == d.socket[i].session
           e == Device!append_a2r_packet(d, "EOS", i, Device!Nothing)
           f == Device!ReplyMsg(e, r, "OK")
           u == [f EXCEPT !.eosWritten = @ \union {n}]
<1>1. n \in Sessions /\ i \in Ids
  BY MapsOfSockets, SocketFields DEF Typed, DriverStates
<1>2. Device!Nothing \in Items
  BY ItemTypes
<1>3. Device!SendEos(d, r, i) = Device!SetEosFlag([f EXCEPT !.eosWritten = @ \union {n}], i, "SENT_EOS_TO_RPI")
  BY DEF Device!SendEos
<1> HIDE DEF n
<1>4. Typed(e) /\ Held(e) = Held(d) /\ e.send_queue = d.send_queue /\ e.socket = d.socket
  BY <1>1, <1>2, PacketWrites
<1> HIDE DEF e
<1>5. Typed(f) /\ Held(f) = Held(d) \ {r} /\ f.send_queue = d.send_queue /\ f.socket = d.socket
  <2>1. "OK" \in Replies /\ "OK" # "held"
    BY DEF Replies
  <2>2. QED
    BY <1>4, <2>1, ReplyWrites
<1> HIDE DEF f
<1>6. Typed(u) /\ Held(u) = Held(f) /\ u.send_queue = f.send_queue /\ u.socket = f.socket
  BY <1>1, <1>2, <1>5, CountWrites
<1> HIDE DEF u
<1>7. Sound(u) /\ i \in DOMAIN u.socket
  BY <1>5, <1>6 DEF Sound
<1>8. "SENT_EOS_TO_RPI" \in Flags \ {"CLOSED", "SHOULD_SEND_RESET"}
  BY DEF Flags
<1>9. Sound(Device!SetEosFlag(u, i, "SENT_EOS_TO_RPI"))
  BY <1>7, <1>8, FlagWrites
<1>10. QED
  BY <1>3, <1>9 DEF u

-----------------------------------------------------------------------------
(* Stream ids: there are more of them than sockets. *)

\* Fewer sockets than ids: some id is free.
LEMMA SomeIdFree ==
  ASSUME NEW f \in SocketMaps, OneEach(f)
  PROVE  \E i \in Ids : i \notin DOMAIN f
<1> SUFFICES ASSUME Ids \subseteq DOMAIN f PROVE FALSE
  OBVIOUS
<1> DEFINE g == [i \in Ids |-> f[i].key]
<1>1. DOMAIN f \subseteq Ids /\ \A i \in DOMAIN f : f[i] \in Sockets
  BY MapsOfSockets
<1>2. g \in [Ids -> Keys]
  BY <1>1, SocketFields
<1>3. IsFiniteSet(Ids) /\ Cardinality(Ids) = NumIds
  <2>1. NumIds \in Int /\ 1 \in Int /\ NumIds > 0 /\ NumIds - 1 + 1 = NumIds
    BY IdAssumption DEF IdAssumption
  <2>2. IsFiniteSet(1..NumIds) /\ Cardinality(1..NumIds) = IF 1 > NumIds THEN 0 ELSE NumIds - 1 + 1
    BY <2>1, FS_Interval
  <2>3. QED
    BY <2>1, <2>2 DEF Ids
<1>4. IsFiniteSet(Keys) /\ Cardinality(Keys) < Cardinality(Ids)
  BY <1>3, IdAssumption DEF IdAssumption
<1> HIDE DEF g
<1>5. \E i, j \in Ids : i # j /\ g[i] = g[j]
  BY <1>2, <1>3, <1>4, FS_PigeonHole
<1>6. QED
  BY <1>1, <1>5 DEF g, OneEach

\* next_stream_id walks through all the ids.
LEMMA Wraps ==
  ASSUME NEW n \in Nat \ {0}, NEW a \in Nat
  PROVE  /\ a % n \in 0..(n - 1)
         /\ a < n => a % n = a /\ (a + n) % n = a
<1>1. a % n \in 0..(n - 1)
  OBVIOUS
<1>2. ASSUME a < n PROVE a % n = a
  BY <1>2
<1>3. ASSUME a < n PROVE (a + n) % n = a
  BY <1>3
<1>4. QED
  BY <1>1, <1>2, <1>3

\* allocate_stream_id finds an id that no socket has (sockets.c:40).
LEMMA IdIsFree ==
  ASSUME NEW d, Typed(d)
  PROVE  Device!allocate_stream_id(d) \in Ids /\ Device!allocate_stream_id(d) \notin DOMAIN d.socket
<1> DEFINE Nth(k) == ((d.next_stream_id + k - 1) % NumIds) + 1
           Free == {k \in 0..(NumIds - 1) : Nth(k) \notin DOMAIN d.socket}
<1>1. /\ d.socket \in SocketMaps /\ OneEach(d.socket) /\ d.next_stream_id \in Ids
      /\ NumIds \in Nat \ {0}
  BY IdAssumption DEF Typed, DriverStates, IdAssumption
<1>2. \A k \in 0..(NumIds - 1) : Nth(k) \in Ids
  <2>1. ASSUME NEW k \in 0..(NumIds - 1) PROVE Nth(k) \in Ids
    <3>1. d.next_stream_id + k - 1 \in Nat
      BY <1>1 DEF Ids
    <3>2. (d.next_stream_id + k - 1) % NumIds \in 0..(NumIds - 1)
      BY <1>1, <3>1, Wraps
    <3>3. QED
      BY <1>1, <3>2 DEF Ids
  <2>2. QED
    BY <2>1
<1>3. Free # {}
  <2>1. PICK i \in Ids : i \notin DOMAIN d.socket
    BY <1>1, SomeIdFree
  <2>2. i - 1 \in Nat /\ i - 1 < NumIds /\ i \in Nat
    BY <1>1, <2>1 DEF Ids
  <2>3. (i - 1) % NumIds = i - 1 /\ (i - 1 + NumIds) % NumIds = i - 1
    BY <1>1, <2>2, Wraps
  <2>4. \E k \in 0..(NumIds - 1) : d.next_stream_id + k - 1 \in {i - 1, i - 1 + NumIds}
    <3>1. CASE i >= d.next_stream_id
      <4>1. i - d.next_stream_id \in 0..(NumIds - 1)
        BY <1>1, <2>1, <3>1 DEF Ids
      <4>2. d.next_stream_id + (i - d.next_stream_id) - 1 = i - 1
        BY <1>1, <2>1 DEF Ids
      <4>3. QED
        BY <4>1, <4>2
    <3>2. CASE i < d.next_stream_id
      <4>1. i - d.next_stream_id + NumIds \in 0..(NumIds - 1)
        BY <1>1, <2>1, <3>2 DEF Ids
      <4>2. d.next_stream_id + (i - d.next_stream_id + NumIds) - 1 = i - 1 + NumIds
        BY <1>1, <2>1 DEF Ids
      <4>3. QED
        BY <4>1, <4>2
    <3>3. QED
      BY <1>1, <2>1, <3>1, <3>2 DEF Ids
  <2>5. PICK k \in 0..(NumIds - 1) : d.next_stream_id + k - 1 \in {i - 1, i - 1 + NumIds}
    BY <2>4
  <2>6. (d.next_stream_id + k - 1) % NumIds = i - 1
    BY <2>3, <2>5
  <2>7. Nth(k) = i
    BY <2>2, <2>6
  <2>8. QED
    BY <2>1, <2>7
<1>4. PICK k \in Free : \A m \in Free : k <= m
  <2>1. Free \subseteq Nat
    BY <1>1
  <2> HIDE DEF Free
  <2>2. QED
    BY <1>3, <2>1, Least
<1>5. /\ k \in 0..(NumIds - 1) /\ Nth(k) \notin DOMAIN d.socket
      /\ \A m \in 0..(k - 1) : Nth(m) \in DOMAIN d.socket
  <2>1. ASSUME NEW m \in 0..(k - 1), Nth(m) \notin DOMAIN d.socket PROVE FALSE
    <3>1. k \in Int /\ NumIds \in Int /\ k <= NumIds - 1
      BY <1>1, <1>4
    <3>2. m \in 0..(NumIds - 1) /\ m < k /\ m \in Int
      BY <3>1, <2>1
    <3>3. k <= m
      BY <1>4, <2>1, <3>2
    <3>4. QED
      BY <3>1, <3>2, <3>3
  <2>2. QED
    BY <1>4, <2>1
<1> DEFINE First(m) == /\ Nth(m) \notin DOMAIN d.socket
                       /\ \A j \in 0..(m - 1) : Nth(j) \in DOMAIN d.socket
           c == CHOOSE m \in 0..(NumIds - 1) : First(m)
<1>6. c \in 0..(NumIds - 1) /\ First(c)
  <2>1. \E m \in 0..(NumIds - 1) : First(m)
    BY <1>5
  <2> HIDE DEF First
  <2>2. QED
    BY <2>1
<1>7. Device!allocate_stream_id(d) = Nth(c)
  BY DEF Device!allocate_stream_id
<1> HIDE DEF c
<1>8. QED
  BY <1>2, <1>6, <1>7

-----------------------------------------------------------------------------
(* Requests of the applications: each is replied to, or held by one socket. *)

\* close_socket keeps the sockets sound, with and without a RESET.
LEMMA CloseSound ==
  ASSUME NEW d, Sound(d), NEW i \in DOMAIN d.socket
  PROVE  Sound(Device!close_socket(d, i, TRUE)) /\ Sound(Device!close_socket(d, i, FALSE))
<1>1. Typed(d) /\ Held(d) = PendAll(d.socket)
  BY DEF Sound
<1>2. Sound(Device!close_socket(d, i, FALSE))
  BY <1>1, CloseQuietly DEF Sound
<1>3. Sound(Device!close_socket(d, i, TRUE))
  <2>1. PICK b \in BOOLEAN : b = TRUE
    OBVIOUS
  <2>2. QED
    BY <1>1, <2>1, CloseWrites DEF Sound
<1>4. QED
  BY <1>2, <1>3

\* So does a reply to a request that no socket holds.
LEMMA ReplySound ==
  ASSUME NEW d, Sound(d), NEW r \in Requests, r \notin Held(d), NEW x \in Replies, x # "held"
  PROVE  LET u == Device!ReplyMsg(d, r, x) IN
         /\ Sound(u) /\ u.socket = d.socket /\ u.send_queue = d.send_queue /\ u.a2r = d.a2r
         /\ Held(u) = Held(d)
<1> DEFINE u == Device!ReplyMsg(d, r, x)
<1>1. Typed(d) /\ Held(d) = PendAll(d.socket)
  BY DEF Sound
<1>2. /\ Typed(u) /\ u.socket = d.socket /\ u.send_queue = d.send_queue /\ u.a2r = d.a2r
      /\ Held(u) = Held(d) \ {r}
  BY <1>1, ReplyWrites
<1> HIDE DEF u
<1>3. QED
  BY <1>1, <1>2 DEF Sound, u

\* handle_app_connect (a314driver.c:286).
LEMMA ConnectSound ==
  ASSUME NEW d, Sound(d), NEW r \in Sessions, r \notin Held(d),
         \A j \in DOMAIN d.socket : d.socket[j].key # r.key
  PROVE  Sound(Device!handle_app_connect(d, r))
<1> DEFINE i == Device!allocate_stream_id(d)
           s == [key |-> r.key, session |-> r, pending_connect |-> r, pending_read |-> NoOne,
                 pending_write |-> NoOne, flags |-> {}, rq |-> <<>>]
           c == Device!ReplyMsg(d, r, "held")
           e == [c EXCEPT !.socket = Device!Extend(@, i, s), !.next_stream_id = (i % NumIds) + 1]
           g == Device!Extend(d.socket, i, s)
           p == Device!append_a2r_packet(e, "CONNECT", i, Device!Item(r, 0))
           q == Device!add_to_send_queue(e, i)
           u == Device!handle_app_connect(d, r)
<1>1. /\ Typed(d) /\ Held(d) = PendAll(d.socket) /\ d.socket \in SocketMaps /\ OneEach(d.socket)
      /\ r \in Requests
  BY RequestKinds DEF Sound, Typed, DriverStates
<1>2. i \in Ids /\ i \notin DOMAIN d.socket
  BY <1>1, IdIsFree
<1>3. IF Device!CanSend(d) THEN u = p ELSE u = q
  BY DEF Device!handle_app_connect
<1> HIDE DEF i, u
<1>4. s \in Sockets /\ s.key = r.key /\ PendS(s) = {r}
  <2>1. PendS(s) = {r}
    BY <1>1, RequestKinds DEF PendS
  <2>2. r.key \in Keys /\ <<>> \in Seq(Items) /\ {} \in SUBSET Flags
    BY <1>1, RequestKinds
  <2>3. s \in SocketType /\ s.key = r.key
    BY <2>2 DEF SocketType
  <2>4. Quiet(s)
    BY DEF Quiet
  <2> HIDE DEF s
  <2>5. QED
    BY <2>1, <2>3, <2>4 DEF Sockets
<1>5. /\ Typed(c) /\ c.socket = d.socket /\ c.send_queue = d.send_queue /\ c.a2r = d.a2r
      /\ Held(c) = Held(d) \union {r}
  <2>1. "held" \in Replies
    BY DEF Replies
  <2>2. QED
    BY <1>1, <2>1, ReplyWrites
<1> HIDE DEF c, s
<1>6. /\ g \in SocketMaps /\ OneEach(g) /\ DOMAIN g = DOMAIN d.socket \union {i}
      /\ PendAll(g) = PendAll(d.socket) \union PendS(s)
  BY <1>1, <1>2, <1>4, SocketAdded
<1>7. (i % NumIds) + 1 \in Ids
  <2>1. NumIds \in Nat \ {0} /\ i \in Nat
    BY <1>2, IdAssumption DEF IdAssumption, Ids
  <2>2. i % NumIds \in 0..(NumIds - 1)
    BY <2>1, Wraps
  <2>3. QED
    BY <2>1, <2>2 DEF Ids
<1> DEFINE nx == (i % NumIds) + 1
<1>8. e = [c EXCEPT !.socket = g, !.next_stream_id = nx]
  BY <1>5 DEF Typed, DriverStates
<1> HIDE DEF g, e, nx
<1>9. /\ e \in DriverStates /\ e.socket = g /\ e.io = c.io /\ e.send_queue = d.send_queue
      /\ e.a2r = d.a2r
  BY <1>5, <1>6, <1>7, <1>8 DEF Typed, DriverStates, nx
<1>10. /\ Typed(e) /\ Held(e) = PendAll(e.socket) /\ i \in DOMAIN e.socket
  <2>1. Typed(e)
    BY <1>1, <1>6, <1>9 DEF Typed
  <2>2. Held(e) = Held(c)
    BY <1>9 DEF Held
  <2>3. QED
    BY <1>1, <1>4, <1>5, <1>6, <1>9, <2>1, <2>2
<1>11. CASE Device!CanSend(d)
  <2>1. Device!room_in_a2r(e)
    BY <1>9, <1>11 DEF Device!CanSend, Device!room_in_a2r
  <2>2. Device!Item(r, 0) \in Items
    BY DEF Device!Item, Items
  <2>3. Typed(p) /\ Held(p) = Held(e) /\ p.socket = e.socket
    BY <1>2, <1>10, <2>1, <2>2, PacketWrites
  <2>4. u = p
    BY <1>3, <1>11
  <2> HIDE DEF p
  <2>5. QED
    BY <1>10, <2>3, <2>4 DEF Sound, u
<1>12. CASE ~Device!CanSend(d)
  <2>1. Typed(q) /\ Held(q) = Held(e) /\ q.socket = e.socket
    BY <1>10, QueueWrites
  <2>2. u = q
    BY <1>3, <1>12
  <2> HIDE DEF q
  <2>3. QED
    BY <1>10, <2>1, <2>2 DEF Sound, u
<1>13. QED
  BY <1>11, <1>12

\* handle_app_read (a314driver.c:310).
LEMMA ReadSound ==
  ASSUME NEW d, Sound(d), NEW r \in Reads, r \notin Held(d), NEW i \in DOMAIN d.socket,
         r.key = d.socket[i].key, ~Device!Closed(d.socket[i])
  PROVE  Sound(Device!handle_app_read(d, r, i))
<1> DEFINE s == d.socket[i]
           free == s.pending_connect = NoOne /\ s.pending_read = NoOne
           u == Device!handle_app_read(d, r, i)
           x == Device!ReplyMsg(d, r, "RESET")
           e == Device!ReplyData(d, r, i, Head(s.rq))
           h == Device!ReplyMsg(d, r, "held")
<1>1. /\ Typed(d) /\ Held(d) = PendAll(d.socket) /\ r \in Requests /\ r # NoOne /\ s \in Sockets
      /\ s.rq \in Seq(Items) /\ r.op \in {"READ", "SHORT"}
  BY RequestKinds, MapsOfSockets, SocketFields DEF Sound, Typed, DriverStates
<1>2. CASE ~free \/ (s.rq # <<>> /\ r.op = "SHORT")
  <2>1. u = Device!close_socket(x, i, TRUE)
    BY <1>2 DEF Device!handle_app_read
  <2>2. "RESET" \in Replies /\ "RESET" # "held"
    BY DEF Replies
  <2>3. Sound(x) /\ x.socket = d.socket
    BY <1>1, <2>2, ReplySound
  <2> HIDE DEF u, x
  <2>4. QED
    BY <2>1, <2>3, CloseSound DEF u
<1>3. CASE free /\ s.rq # <<>> /\ r.op = "READ"
  <2>1. u = [e EXCEPT !.socket[i].rq = Tail(@)]
    BY <1>3 DEF Device!handle_app_read
  <2>2. Head(s.rq) \in Items /\ Tail(s.rq) \in Seq(Items)
    BY <1>1, <1>3
  <2>3. Typed(e) /\ Held(e) = Held(d) \ {r} /\ e.socket = d.socket
    BY <1>1, <2>2, DataReplied
  <2> HIDE DEF u, e
  <2>4. u = [e EXCEPT !.socket[i].rq = Tail(s.rq)]
    BY <2>1, <2>3 DEF Typed, DriverStates
  <2>5. Alike(e, u, i)
    BY <2>2, <2>3, <2>4, DataWaits
  <2>6. QED
    BY <1>1, <2>3, <2>5 DEF Sound, Alike, u
<1>4. CASE free /\ s.rq = <<>> /\ "RCVD_EOS_FROM_RPI" \in s.flags
  <2>1. u = Device!ReplyEos(d, r, i)
    BY <1>4 DEF Device!handle_app_read
  <2>2. Held(d) \ {r} = PendAll(d.socket)
    BY <1>1
  <2>3. QED
    BY <1>1, <2>1, <2>2, EosReplied
<1>5. CASE free /\ s.rq = <<>> /\ "RCVD_EOS_FROM_RPI" \notin s.flags
  <2>1. u = [h EXCEPT !.socket[i].pending_read = r]
    BY <1>5 DEF Device!handle_app_read
  <2>2. Typed(h) /\ Held(h) = Held(d) \union {r} /\ h.socket = d.socket
    <3>1. "held" \in Replies
      BY DEF Replies
    <3>2. QED
      BY <1>1, <3>1, ReplyWrites
  <2> HIDE DEF h
  <2>3. /\ Typed(u) /\ Held(u) = Held(h)
        /\ PendAll(u.socket) = (PendAll(h.socket) \ {h.socket[i].pending_read}) \union ({r} \ {NoOne})
    BY <2>1, <2>2, ReadChanges
  <2>4. NoOne \notin PendAll(d.socket)
    BY DEF PendAll, PendS
  <2> HIDE DEF u
  <2>5. QED
    BY <1>1, <1>5, <2>2, <2>3, <2>4 DEF Sound, u
<1>6. QED
  BY <1>1, <1>2, <1>3, <1>4, <1>5

\* a write or an EOS waits in the send queue
LEMMA WaitSound ==
  ASSUME NEW d, Sound(d), NEW r \in Writes, r \notin Held(d), NEW i \in DOMAIN d.socket,
         r.key = d.socket[i].key, d.socket[i].pending_write = NoOne, ~Device!Closed(d.socket[i])
  PROVE  Sound(Device!Wait(d, r, i))
<1> DEFINE h == Device!ReplyMsg(d, r, "held")
           v == [h EXCEPT !.socket[i].pending_write = r]
           u == Device!add_to_send_queue(v, i)
<1>1. Typed(d) /\ Held(d) = PendAll(d.socket) /\ r \in Requests /\ r # NoOne
  BY RequestKinds DEF Sound
<1>2. Typed(h) /\ Held(h) = Held(d) \union {r} /\ h.socket = d.socket
  <2>1. "held" \in Replies
    BY DEF Replies
  <2>2. QED
    BY <1>1, <2>1, ReplyWrites
<1>3. Device!Wait(d, r, i) = u
  BY DEF Device!Wait
<1> HIDE DEF h
<1>4. /\ Typed(v) /\ Held(v) = Held(h) /\ DOMAIN v.socket = DOMAIN h.socket
      /\ PendAll(v.socket) = (PendAll(h.socket) \ {h.socket[i].pending_write}) \union ({r} \ {NoOne})
  BY <1>2, WriteChanges
<1>5. NoOne \notin PendAll(d.socket)
  BY DEF PendAll, PendS
<1> HIDE DEF v
<1>6. Typed(u) /\ Held(u) = Held(v) /\ u.socket = v.socket
  BY <1>2, <1>4, QueueWrites
<1> HIDE DEF u
<1>7. Sound(u)
  BY <1>1, <1>2, <1>4, <1>5, <1>6 DEF Sound
<1>8. QED
  BY <1>3, <1>7

\* handle_app_write (a314driver.c:360).
LEMMA WriteSound ==
  ASSUME NEW d, Sound(d), NEW r \in Writes, r \notin Held(d), NEW i \in DOMAIN d.socket,
         r.key = d.socket[i].key, ~Device!Closed(d.socket[i])
  PROVE  Sound(Device!handle_app_write(d, r, i))
<1> DEFINE u == Device!handle_app_write(d, r, i)
           x == Device!ReplyMsg(d, r, "RESET")
           e == Device!SendData(d, r, i)
           may == Device!MayWrite(d.socket[i])
<1>1. Typed(d) /\ Held(d) = PendAll(d.socket) /\ r \in Requests
  BY RequestKinds DEF Sound
<1>2. CASE ~may
  <2>1. u = Device!close_socket(x, i, TRUE)
    BY <1>2 DEF Device!handle_app_write
  <2>2. "RESET" \in Replies /\ "RESET" # "held"
    BY DEF Replies
  <2>3. Sound(x) /\ x.socket = d.socket
    BY <1>1, <2>2, ReplySound
  <2> HIDE DEF u, x
  <2>4. QED
    BY <2>1, <2>3, CloseSound DEF u
<1>3. CASE may /\ Device!CanSend(d)
  <2>1. u = e
    BY <1>3 DEF Device!handle_app_write
  <2>2. Device!room_in_a2r(d)
    BY <1>3 DEF Device!CanSend
  <2>3. Typed(e) /\ Held(e) = Held(d) \ {r} /\ e.socket = d.socket
    BY <1>1, <2>2, DataSent
  <2> HIDE DEF u, e
  <2>4. QED
    BY <1>1, <2>1, <2>3 DEF Sound, u
<1>4. CASE may /\ ~Device!CanSend(d)
  <2>1. u = Device!Wait(d, r, i)
    BY <1>4 DEF Device!handle_app_write
  <2>2. d.socket[i].pending_write = NoOne
    BY <1>4 DEF Device!MayWrite
  <2>3. QED
    BY <2>1, <2>2, WaitSound
<1>5. QED
  BY <1>2, <1>3, <1>4

\* handle_app_eos (a314driver.c:390).
LEMMA EosSound ==
  ASSUME NEW d, Sound(d), NEW r \in Writes, r \notin Held(d), NEW i \in DOMAIN d.socket,
         r.key = d.socket[i].key, ~Device!Closed(d.socket[i])
  PROVE  Sound(Device!handle_app_eos(d, r, i))
<1> DEFINE u == Device!handle_app_eos(d, r, i)
           x == Device!ReplyMsg(d, r, "RESET")
           e == [d EXCEPT !.socket[i].flags = @ \union {"RCVD_EOS_FROM_APP"}]
           may == Device!MayWrite(d.socket[i])
<1>1. Typed(d) /\ Held(d) = PendAll(d.socket) /\ r \in Requests
  BY RequestKinds DEF Sound
<1>2. CASE ~may
  <2>1. u = Device!close_socket(x, i, TRUE)
    BY <1>2 DEF Device!handle_app_eos
  <2>2. "RESET" \in Replies /\ "RESET" # "held"
    BY DEF Replies
  <2>3. Sound(x) /\ x.socket = d.socket
    BY <1>1, <2>2, ReplySound
  <2> HIDE DEF u, x
  <2>4. QED
    BY <2>1, <2>3, CloseSound DEF u
<1>3. ASSUME may PROVE u = IF Device!CanSend(d) THEN Device!SendEos(e, r, i) ELSE Device!Wait(e, r, i)
  BY <1>3 DEF Device!handle_app_eos
<1>4. Alike(d, e, i)
  <2>1. "RCVD_EOS_FROM_APP" \in Flags \ {"CLOSED", "SHOULD_SEND_RESET"}
    BY DEF Flags
  <2>2. QED
    BY <1>1, <2>1, FlagIsSet
<1> HIDE DEF u, e
<1>5. /\ Sound(e) /\ i \in DOMAIN e.socket /\ Typed(e) /\ e.a2r = d.a2r /\ r.key = e.socket[i].key
      /\ Held(e) = Held(d) /\ e.socket[i].pending_write = d.socket[i].pending_write
      /\ ~Device!Closed(e.socket[i])
  BY <1>1, <1>4 DEF Sound, Alike
<1>6. CASE may /\ Device!CanSend(d)
  <2>1. Device!room_in_a2r(e)
    BY <1>5, <1>6 DEF Device!CanSend, Device!room_in_a2r
  <2>2. Held(e) \ {r} = PendAll(e.socket)
    BY <1>5 DEF Sound
  <2>3. Sound(Device!SendEos(e, r, i))
    BY <1>1, <1>5, <2>1, <2>2, EosSent
  <2>4. QED
    BY <1>3, <1>6, <2>3 DEF u
<1>7. CASE may /\ ~Device!CanSend(d)
  <2>1. e.socket[i].pending_write = NoOne
    BY <1>5, <1>7 DEF Device!MayWrite
  <2>2. Sound(Device!Wait(e, r, i))
    BY <1>5, <2>1, WaitSound
  <2>3. QED
    BY <1>3, <1>7, <2>2 DEF u
<1>8. QED
  BY <1>2, <1>6, <1>7

\* handle_app_request, of whatever kind (a314driver.c:425).
LEMMA RequestSound ==
  ASSUME NEW d, Sound(d), NEW r \in Requests, r \notin Held(d)
  PROVE  Sound(Device!handle_app_request(d, r))
<1> DEFINE open == Device!SocketsOf(d, r.key)
           i == CHOOSE j \in open : TRUE
           u == Device!handle_app_request(d, r)
<1>1. open = {j \in DOMAIN d.socket : d.socket[j].key = r.key}
  BY DEF Device!SocketsOf
<1>2. /\ r.op \in {"CONNECT", "READ", "SHORT", "WRITE", "EOS", "RESET"}
      /\ r.op = "CONNECT" => r \in Sessions
      /\ r.op \in {"READ", "SHORT"} => r \in Reads
      /\ r.op \in {"WRITE", "EOS"} => r \in Writes
  BY RequestKinds DEF Sessions, Reads, Writes, Ops
<1>3. /\ {"IN_USE", "OK", "RESET"} \subseteq Replies /\ "held" \notin {"IN_USE", "OK", "RESET"}
  BY DEF Replies
<1>4. CASE r.op = "CONNECT" /\ open = {}
  <2>1. u = Device!handle_app_connect(d, r)
    BY <1>4 DEF Device!handle_app_request
  <2>2. \A j \in DOMAIN d.socket : d.socket[j].key # r.key
    BY <1>1, <1>4
  <2>3. QED
    BY <1>2, <1>4, <2>1, <2>2, ConnectSound
<1>5. CASE r.op = "CONNECT" /\ open # {}
  <2>1. u = Device!ReplyMsg(d, r, "IN_USE")
    BY <1>5 DEF Device!handle_app_request
  <2>2. QED
    BY <1>3, <2>1, ReplySound
<1>6. CASE r.op # "CONNECT" /\ (open = {} \/ Device!Closed(d.socket[i]))
  <2>1. u = Device!ReplyMsg(d, r, IF r.op = "RESET" THEN "OK" ELSE "RESET")
    BY <1>6 DEF Device!handle_app_request
  <2>2. u \in {Device!ReplyMsg(d, r, "OK"), Device!ReplyMsg(d, r, "RESET")}
    BY <2>1
  <2>3. QED
    BY <1>3, <2>2, ReplySound
<1>7. CASE r.op # "CONNECT" /\ ~(open = {} \/ Device!Closed(d.socket[i]))
  <2>1. i \in DOMAIN d.socket /\ r.key = d.socket[i].key /\ ~Device!Closed(d.socket[i])
    <3>1. i \in open
      BY <1>7
    <3>2. ~Device!Closed(d.socket[i])
      BY <1>7
    <3> HIDE DEF i
    <3>3. QED
      BY <1>1, <3>1, <3>2
  <2>2. CASE r.op \in {"READ", "SHORT"}
    <3>1. u = Device!handle_app_read(d, r, i)
      BY <1>7, <2>2 DEF Device!handle_app_request
    <3> HIDE DEF i
    <3>2. QED
      BY <1>2, <2>1, <2>2, <3>1, ReadSound
  <2>3. CASE r.op = "WRITE"
    <3>1. u = Device!handle_app_write(d, r, i)
      BY <1>7, <2>3 DEF Device!handle_app_request
    <3> HIDE DEF i
    <3>2. QED
      BY <1>2, <2>1, <2>3, <3>1, WriteSound
  <2>4. CASE r.op = "EOS"
    <3>1. u = Device!handle_app_eos(d, r, i)
      BY <1>7, <2>4 DEF Device!handle_app_request
    <3> HIDE DEF i
    <3>2. QED
      BY <1>2, <2>1, <2>4, <3>1, EosSound
  <2>5. CASE r.op = "RESET"
    <3> DEFINE x == Device!ReplyMsg(d, r, "OK")
    <3>1. u = Device!close_socket(x, i, TRUE)
      BY <1>7, <2>5 DEF Device!handle_app_request
    <3> HIDE DEF i, u
    <3>2. Sound(x) /\ x.socket = d.socket
      BY <1>3, ReplySound
    <3> HIDE DEF x
    <3>3. QED
      BY <2>1, <3>1, <3>2, CloseSound DEF u
  <2>6. QED
    BY <1>2, <1>7, <2>2, <2>3, <2>4, <2>5
<1>8. QED
  BY <1>4, <1>5, <1>6, <1>7

-----------------------------------------------------------------------------
(* Packets of the Raspberry Pi. *)

\* handle_pkt_connect_response (a314driver.c:120).
LEMMA ConnectResponseSound ==
  ASSUME NEW d, Sound(d), NEW i \in DOMAIN d.socket, NEW result
  PROVE  Sound(Device!handle_pkt_connect_response(d, i, result))
<1> DEFINE r == d.socket[i].pending_connect
           e == [d EXCEPT !.socket[i].pending_connect = NoOne]
           u == Device!handle_pkt_connect_response(d, i, result)
           ok == Device!ReplyMsg(e, r, "OK")
           no == Device!ReplyMsg(e, r, "UNKNOWN")
<1>1. Typed(d) /\ Held(d) = PendAll(d.socket) /\ r \in Sessions \union {NoOne}
  BY MapsOfSockets, SocketFields DEF Sound, Typed, DriverStates
<1>2. CASE r = NoOne
  BY <1>2 DEF Device!handle_pkt_connect_response
<1>3. ASSUME r # NoOne PROVE u = IF result = 0 THEN ok ELSE Device!close_socket(no, i, FALSE)
  BY <1>3 DEF Device!handle_pkt_connect_response
<1>4. /\ Typed(e) /\ Held(e) = Held(d) /\ DOMAIN e.socket = DOMAIN d.socket
      /\ PendAll(e.socket) = (PendAll(d.socket) \ {r}) \union ({NoOne} \ {NoOne})
  BY <1>1, ConnectChanges
<1> HIDE DEF e, u, r
<1>5. CASE r # NoOne
  <2>1. r \in Requests /\ {"OK", "UNKNOWN"} \subseteq Replies /\ "held" \notin {"OK", "UNKNOWN"}
    BY <1>1, <1>5, RequestKinds DEF Replies
  <2>2. /\ Typed(ok) /\ Held(ok) = Held(e) \ {r} /\ ok.socket = e.socket
        /\ Typed(no) /\ Held(no) = Held(e) \ {r} /\ no.socket = e.socket
    BY <1>4, <2>1, ReplyWrites
  <2> HIDE DEF ok, no
  <2>3. Sound(ok) /\ Sound(no) /\ i \in DOMAIN no.socket
    BY <1>1, <1>4, <2>2 DEF Sound
  <2>4. Sound(Device!close_socket(no, i, FALSE))
    BY <2>3, CloseSound
  <2>5. QED
    BY <1>3, <1>5, <2>3, <2>4 DEF u
<1>6. QED
  BY <1>2, <1>5 DEF u

\* handle_pkt_data (a314driver.c:149).
LEMMA DataSound ==
  ASSUME NEW d, Sound(d), NEW i \in DOMAIN d.socket, NEW x \in Items
  PROVE  Sound(Device!handle_pkt_data(d, i, x))
<1> DEFINE s == d.socket[i]
           r == s.pending_read
           u == Device!handle_pkt_data(d, i, x)
           e == Device!ReplyData(d, r, i, x)
<1>1. /\ Typed(d) /\ Held(d) = PendAll(d.socket) /\ r \in Reads \union {NoOne}
      /\ s.rq \in Seq(Items)
  BY MapsOfSockets, SocketFields DEF Sound, Typed, DriverStates
<1>2. CASE r = NoOne
  <2>1. u = [d EXCEPT !.socket[i].rq = Append(@, x)]
    BY <1>2 DEF Device!handle_pkt_data
  <2>2. u = [d EXCEPT !.socket[i].rq = Append(s.rq, x)]
    BY <1>1, <2>1 DEF Typed, DriverStates
  <2>3. Append(s.rq, x) \in Seq(Items)
    BY <1>1
  <2> HIDE DEF u
  <2>4. Alike(d, u, i)
    BY <1>1, <2>2, <2>3, DataWaits
  <2>5. QED
    BY <1>1, <2>4 DEF Sound, Alike, u
<1>3. CASE r # NoOne /\ r.op = "SHORT"
  <2>1. u = Device!close_socket(d, i, TRUE)
    BY <1>3 DEF Device!handle_pkt_data
  <2>2. QED
    BY <2>1, CloseSound
<1>4. CASE r # NoOne /\ r.op # "SHORT"
  <2>1. u = [e EXCEPT !.socket[i].pending_read = NoOne]
    BY <1>4 DEF Device!handle_pkt_data
  <2>2. r \in Requests
    BY <1>1, <1>4, RequestKinds
  <2>3. Typed(e) /\ Held(e) = Held(d) \ {r} /\ e.socket = d.socket
    BY <1>1, <2>2, DataReplied
  <2> HIDE DEF u, e
  <2> DEFINE v == [e EXCEPT !.socket[i].pending_read = NoOne]
  <2>4. /\ Typed(v) /\ Held(v) = Held(e)
        /\ PendAll(v.socket) = (PendAll(e.socket) \ {e.socket[i].pending_read}) \union ({NoOne} \ {NoOne})
    BY <2>3, ReadChanges
  <2> HIDE DEF v
  <2>5. Sound(v)
    BY <1>1, <2>3, <2>4 DEF Sound
  <2>6. QED
    BY <2>1, <2>5 DEF u, v
<1>5. QED
  BY <1>2, <1>3, <1>4

\* handle_pkt_eos (a314driver.c:178).
LEMMA EosPacketSound ==
  ASSUME NEW d, Sound(d), NEW i \in DOMAIN d.socket
  PROVE  Sound(Device!handle_pkt_eos(d, i))
<1> DEFINE r == d.socket[i].pending_read
           f == [d EXCEPT !.socket[i].flags = @ \union {"RCVD_EOS_FROM_RPI"}]
           e == [f EXCEPT !.socket[i].pending_read = NoOne]
           u == Device!handle_pkt_eos(d, i)
<1>1. Typed(d) /\ Held(d) = PendAll(d.socket) /\ r \in Reads \union {NoOne}
  BY MapsOfSockets, SocketFields DEF Sound, Typed, DriverStates
<1>2. u = IF r = NoOne THEN e ELSE Device!ReplyEos(e, r, i)
  <2>1. [d EXCEPT !.socket[i].flags = @ \union {"RCVD_EOS_FROM_RPI"},
                  !.socket[i].pending_read = NoOne] = e
    BY Zenon
  <2>2. QED
    BY <2>1, Zenon DEF Device!handle_pkt_eos
<1> HIDE DEF u
<1>3. Alike(d, f, i) /\ f.socket[i].pending_read = r
  <2>1. "RCVD_EOS_FROM_RPI" \in Flags \ {"CLOSED", "SHOULD_SEND_RESET"}
    BY DEF Flags
  <2>2. Alike(d, f, i)
    BY <1>1, <2>1, FlagIsSet
  <2>3. f.socket[i].pending_read = r
    BY <1>1 DEF Typed, DriverStates
  <2>4. QED
    BY <2>2, <2>3
<1> HIDE DEF f
<1>4. /\ Typed(e) /\ Held(e) = Held(f) /\ DOMAIN e.socket = DOMAIN f.socket
      /\ PendAll(e.socket) = (PendAll(f.socket) \ {r}) \union ({NoOne} \ {NoOne})
  <2>1. Typed(f) /\ i \in DOMAIN f.socket
    BY <1>3 DEF Alike
  <2>2. QED
    BY <1>3, <2>1, ReadChanges
<1> HIDE DEF e
<1>5. Held(e) \ {r} = PendAll(e.socket) /\ i \in DOMAIN e.socket
  BY <1>1, <1>3, <1>4 DEF Alike
<1>6. CASE r = NoOne
  <2>1. NoOne \notin Held(e)
    BY RequestKinds DEF Held
  <2>2. QED
    BY <1>2, <1>4, <1>5, <1>6, <2>1 DEF Sound, u
<1>7. CASE r # NoOne
  <2>1. r \in Requests
    BY <1>1, <1>7, RequestKinds
  <2> HIDE DEF r
  <2>2. Sound(Device!ReplyEos(e, r, i))
    BY <1>4, <1>5, <2>1, EosReplied
  <2>3. QED
    BY <1>2, <1>7, <2>2 DEF u
<1>8. QED
  BY <1>6, <1>7

\* handle_r2a_packet, of whatever type (a314driver.c:198).
LEMMA PacketSound ==
  ASSUME NEW d, Sound(d), NEW p \in PiPackets
  PROVE  Sound(Device!handle_r2a_packet(d, p))
<1> DEFINE u == Device!handle_r2a_packet(d, p)
<1>1. p.type \in {"CONNECT_RESPONSE", "DATA", "EOS", "RESET"} /\ p.data \in Items
  BY DEF PiPackets
<1>2. CASE p.id \notin DOMAIN d.socket
  BY <1>2 DEF Device!handle_r2a_packet
<1>3. CASE p.id \in DOMAIN d.socket /\ p.type = "RESET"
  <2>1. u = Device!close_socket(d, p.id, FALSE)
    BY <1>3 DEF Device!handle_r2a_packet
  <2>2. QED
    BY <1>3, <2>1, CloseSound
<1>4. CASE p.id \in DOMAIN d.socket /\ p.type # "RESET"
  <2>1. CASE Device!Closed(d.socket[p.id])
    BY <1>4, <2>1 DEF Device!handle_r2a_packet
  <2>2. CASE ~Device!Closed(d.socket[p.id]) /\ p.type = "CONNECT_RESPONSE"
    <3>1. u = Device!handle_pkt_connect_response(d, p.id, p.data.number)
      BY <1>4, <2>2 DEF Device!handle_r2a_packet
    <3>2. QED
      BY <1>4, <3>1, ConnectResponseSound
  <2>3. CASE ~Device!Closed(d.socket[p.id]) /\ p.type = "DATA"
    <3>1. u = Device!handle_pkt_data(d, p.id, p.data)
      BY <1>4, <2>3 DEF Device!handle_r2a_packet
    <3>2. QED
      BY <1>1, <1>4, <3>1, DataSound
  <2>4. CASE ~Device!Closed(d.socket[p.id]) /\ p.type = "EOS"
    <3>1. u = Device!handle_pkt_eos(d, p.id)
      BY <1>4, <2>4 DEF Device!handle_r2a_packet
    <3>2. QED
      BY <1>4, <3>1, EosPacketSound
  <2>5. QED
    BY <1>1, <1>4, <2>1, <2>2, <2>3, <2>4
<1>5. QED
  BY <1>2, <1>3, <1>4

\* A pending write is taken from its socket.
LEMMA WriteTaken ==
  ASSUME NEW d, Typed(d), NEW i \in DOMAIN d.socket
  PROVE  LET u == [d EXCEPT !.socket[i].pending_write = NoOne] IN
         /\ Typed(u) /\ Held(u) = Held(d) /\ DOMAIN u.socket = DOMAIN d.socket /\ u.a2r = d.a2r
         /\ PendAll(u.socket) =
              (PendAll(d.socket) \ {d.socket[i].pending_write}) \union ({NoOne} \ {NoOne})
  BY WriteChanges

\* what waits is sent when there is room
LEMMA RoomSound ==
  ASSUME NEW d, Sound(d), d.send_queue # <<>>, Device!room_in_a2r(d)
  PROVE  Sound(Device!handle_room_in_a2r(d))
<1> DEFINE i == Head(d.send_queue)
           s == d.socket[i]
           e == Device!remove_from_send_queue(d, i)
           w == s.pending_write
           f == [e EXCEPT !.socket[i].pending_write = NoOne]
           c == Device!append_a2r_packet(e, "CONNECT", i, Device!Item(s.session, 0))
           x == Device!append_a2r_packet(e, "RESET", i, Device!Nothing)
           u == Device!handle_room_in_a2r(d)
<1>1. /\ Typed(d) /\ Held(d) = PendAll(d.socket) /\ d.send_queue \in Seq(Ids)
      /\ d.socket \in SocketMaps /\ Elems(d.send_queue) \subseteq DOMAIN d.socket
  BY DEF Sound, Typed, DriverStates
<1>2. i \in DOMAIN d.socket /\ i \in Ids
  <2>1. i \in Elems(d.send_queue) /\ i \in Ids
    BY <1>1, TailLeaves
  <2>2. QED
    BY <1>1, <2>1
<1>3. /\ s \in Sockets /\ w \in Writes \union {NoOne} /\ s.session \in Sessions /\ Quiet(s)
      /\ s.pending_connect \in Sessions \union {NoOne}
  BY <1>1, <1>2, MapsOfSockets, SocketFields
<1>4. /\ s.pending_connect # NoOne => u = c
      /\ s.pending_connect = NoOne /\ w # NoOne =>
           u = IF w.op = "WRITE" THEN Device!SendData(f, w, i) ELSE Device!SendEos(f, w, i)
      /\ s.pending_connect = NoOne /\ w = NoOne /\ "SHOULD_SEND_RESET" \in s.flags =>
           u = Device!delete_socket(x, i)
      /\ s.pending_connect = NoOne /\ w = NoOne /\ "SHOULD_SEND_RESET" \notin s.flags => u = e
  BY DEF Device!handle_room_in_a2r
<1>5. /\ Typed(e) /\ Held(e) = Held(d) /\ e.socket = d.socket /\ i \notin Elems(e.send_queue)
      /\ e.a2r = d.a2r
  BY <1>1, <1>2, QueueWrites
<1>6. Device!room_in_a2r(e)
  BY <1>5 DEF Device!room_in_a2r
<1> HIDE DEF u, e, i, s
<1>7. CASE s.pending_connect # NoOne
  <2>1. Device!Item(s.session, 0) \in Items
    BY <1>3 DEF Device!Item, Items
  <2>2. Typed(c) /\ Held(c) = Held(e) /\ c.socket = e.socket
    BY <1>2, <1>5, <1>6, <2>1, PacketWrites
  <2> HIDE DEF c
  <2>3. QED
    BY <1>1, <1>4, <1>5, <1>7, <2>2 DEF Sound, u
<1>8. CASE s.pending_connect = NoOne /\ w # NoOne
  <2>1. w \in Requests
    BY <1>3, <1>8, RequestKinds
  <2>7. Typed(e) /\ i \in DOMAIN e.socket /\ e.socket[i].pending_write = w
    BY <1>2, <1>5 DEF s
  <2> HIDE DEF w
  <2>8. /\ Typed(f) /\ Held(f) = Held(e) /\ DOMAIN f.socket = DOMAIN e.socket /\ f.a2r = e.a2r
        /\ PendAll(f.socket) =
             (PendAll(e.socket) \ {e.socket[i].pending_write}) \union ({NoOne} \ {NoOne})
    BY <2>7, WriteTaken
  <2>2. /\ Typed(f) /\ Held(f) = Held(e) /\ DOMAIN f.socket = DOMAIN e.socket /\ f.a2r = e.a2r
        /\ PendAll(f.socket) = (PendAll(e.socket) \ {w}) \union ({NoOne} \ {NoOne})
    BY <2>7, <2>8
  <2> HIDE DEF f
  <2>3. Device!room_in_a2r(f) /\ i \in DOMAIN f.socket /\ Held(f) \ {w} = PendAll(f.socket)
    BY <1>1, <1>2, <1>5, <1>6, <2>2 DEF Device!room_in_a2r
  <2> HIDE DEF w
  <2>4. Sound(Device!SendEos(f, w, i))
    BY <2>1, <2>2, <2>3, EosSent
  <2>5. Sound(Device!SendData(f, w, i))
    <3> DEFINE v == Device!SendData(f, w, i)
    <3>1. Typed(v) /\ Held(v) = Held(f) \ {w} /\ v.socket = f.socket
      BY <2>1, <2>2, <2>3, DataSent
    <3> HIDE DEF v
    <3>2. Sound(v)
      BY <2>3, <3>1 DEF Sound
    <3>3. QED
      BY <3>2 DEF v
  <2>6. QED
    BY <1>4, <1>8, <2>4, <2>5 DEF u
<1>9. CASE s.pending_connect = NoOne /\ w = NoOne /\ "SHOULD_SEND_RESET" \in s.flags
  <2>1. Typed(x) /\ Held(x) = Held(e) /\ x.send_queue = e.send_queue /\ x.socket = e.socket
    BY <1>2, <1>5, <1>6, ItemTypes, PacketWrites
  <2> HIDE DEF x
  <2> DEFINE v == Device!delete_socket(x, i)
  <2>2. Typed(v) /\ Held(v) = Held(x) /\ PendAll(v.socket) = PendAll(x.socket) \ PendS(x.socket[i])
    BY <1>2, <1>5, <2>1, DeleteWrites
  <2> HIDE DEF v
  <2>3. PendS(s) = {}
    BY <1>3, <1>9 DEF Quiet
  <2>4. Sound(v)
    BY <1>1, <1>5, <2>1, <2>2, <2>3 DEF Sound, s
  <2>5. QED
    BY <1>4, <1>9, <2>4 DEF u, v
<1>10. CASE s.pending_connect = NoOne /\ w = NoOne /\ "SHOULD_SEND_RESET" \notin s.flags
  BY <1>1, <1>4, <1>5, <1>10 DEF Sound, u
<1>11. QED
  BY <1>7, <1>8, <1>9, <1>10

-----------------------------------------------------------------------------
(* The steps. *)

PathInv ==
  /\ r2a \in Seq(PiPackets) /\ send_buf \in Seq(PiPackets)
  /\ room \in Nat /\ room + Len(send_buf) + Len(r2a) <= R2ACap
LoopInv ==
  /\ received \in Nat /\ arrived \in Nat /\ received <= arrived /\ arrived <= Len(a2r)
  /\ pc \in {"epoll", "receive", "messages", "flush", "dead"} /\ cc \in Clients \union {NoOne}
  /\ started \in BOOLEAN
  /\ pc \in {"epoll", "messages"} => received = 0 /\ arrived = 0 /\ send_buf = <<>>
  /\ pc = "receive" => received < arrived
  /\ pc = "messages" => cc \in Clients
StreamTypes == [client : Clients \union {NoOne}, sid : Nat, sent : Nat,
                st : {"none", "open", "eos", "done"}, got : Seq(Items),
                ended : BOOLEAN, eos : BOOLEAN]
EndsInv ==
  /\ stream \in [Sessions -> StreamTypes]
  /\ closes \in 0..MaxCloses /\ reboots \in 0..MaxReboots
Inv == Tabled(thread) /\ Sound(driver) /\ PathInv /\ LoopInv /\ EndsInv

\* An action of the thread leaves what its handler returns.
LEMMA ThreadIs ==
  ASSUME NEW q \in ThreadStates, NEW next, ThreadBecomes(q, next)
  PROVE  thread' = q
  BY DEF ThreadBecomes, ThreadStates, thread
\* An action of the driver leaves what its handler returns.
LEMMA DriverIs ==
  ASSUME NEW q \in DriverStates, DriverBecomes(q)
  PROVE  driver' = q
  BY DEF DriverBecomes, DriverStates, driver
\* The thread keeps its state in steps of others,
LEMMA ThreadStays == UNCHANGED <<table, wires>> => thread' = thread
  BY DEF table, wires, thread
\* and so does the driver.
LEMMA DriverStays == UNCHANGED <<amiga, a2r>> => driver' = driver
  BY DEF amiga, driver

\* The variables of the thread, from its state.
LEMMA ThreadFields ==
  ASSUME Tabled(thread)
  PROVE  /\ conn \in [Clients -> Conns] /\ toCli \in [Clients -> Seq(ToClient)]
         /\ fromCli \in [Clients -> Seq(FromClient)] /\ cc_next_stream_id \in [Clients -> Nat]
         /\ channels \in ChannelMaps /\ pi_queue \in Seq(Ids) /\ services \in ServiceMaps
         /\ associations \in [Clients -> Seq(Ids)]
  BY DEF Tabled, TabledBut, ThreadStates, thread

\* A handler that keeps the tables keeps them in the variables.
LEMMA ThreadSteps ==
  ASSUME NEW q, Tabled(q), NEW next, ThreadBecomes(q, next)
  PROVE  Tabled(thread)' /\ pc' \in {next, "dead"}
<1>1. q \in ThreadStates
  BY DEF Tabled, TabledBut
<1>2. thread' = q
  BY <1>1, ThreadIs
<1>3. pc' \in {next, "dead"}
  BY DEF ThreadBecomes
<1>4. QED
  BY <1>2, <1>3

\* Messages and connections may change without the tables.
LEMMA WiresChange ==
  ASSUME Tabled(thread), UNCHANGED <<channels, pi_queue, services, associations>>,
         cc_next_stream_id' \in [Clients -> Nat], conn' \in [Clients -> Conns],
         toCli' \in [Clients -> Seq(ToClient)], fromCli' \in [Clients -> Seq(FromClient)]
  PROVE  Tabled(thread)'
<1>1. thread' \in ThreadStates
  BY ThreadFields DEF ThreadStates, thread
<1>2. /\ thread'.channels = thread.channels /\ thread'.pi_queue = thread.pi_queue
      /\ thread'.associations = thread.associations
  BY DEF thread
<1>3. TabledBut(thread, 0)
  BY DEF Tabled
<1>4. TabledBut(thread', 0)
  BY <1>1, <1>2, <1>3, SameTables
<1>5. QED
  BY <1>4 DEF Tabled

\* A handler of the driver leaves the sockets sound in the variables,
LEMMA DriverSteps ==
  ASSUME NEW q, Sound(q), driver' = q, arrived' \in Nat, arrived' <= Len(q.a2r)
  PROVE  Sound(driver)'
<1>1. /\ q \in DriverStates /\ OneEach(q.socket) /\ Elems(q.send_queue) \subseteq DOMAIN q.socket
      /\ Len(q.a2r) <= A2RCap /\ Held(q) = PendAll(q.socket)
  BY DEF Sound, Typed
<1>2. QED
  BY <1>1 DEF Sound, Typed

\* with what the thread is taking still in the ring.
LEMMA DriverHandles ==
  ASSUME Sound(driver), LoopInv, NEW q, Sound(q), DriverBecomes(q), UNCHANGED <<loop>>
  PROVE  Sound(driver)' /\ LoopInv'
<1>1. q \in DriverStates /\ arrived \in Nat /\ arrived <= Len(q.a2r) /\ arrived' = arrived
  BY DEF Sound, Typed, loop
<1>2. driver' = q /\ a2r' = q.a2r
  BY <1>1, DriverIs DEF DriverBecomes
<1>3. Sound(driver)'
  BY <1>1, <1>2, DriverSteps
<1>4. LoopInv'
  BY <1>1, <1>2 DEF LoopInv, loop
<1>5. QED
  BY <1>3, <1>4

\* At the start nothing is connected.
LEMMA InitInv == Init => Inv
<1> SUFFICES ASSUME Init PROVE Inv
  OBVIOUS
<1>1. Tabled(thread)
  <2>1. /\ channels = <<>> /\ pi_queue = <<>> /\ services = <<>>
        /\ associations = [c \in Clients |-> <<>>] /\ cc_next_stream_id = [c \in Clients |-> 1]
        /\ conn = [c \in Clients |-> "none"]
        /\ toCli = [c \in Clients |-> <<>>] /\ fromCli = [c \in Clients |-> <<>>]
    BY DEF Init
  <2>2. DOMAIN channels = {} /\ DOMAIN services = {} /\ Elems(<<>>) = {} /\ NoRepeats(<<>>)
    BY <2>1 DEF Elems, NoRepeats
  <2>3. channels \in ChannelMaps
    <3>1. channels \in [{} -> Channel]
      BY <2>1, <2>2
    <3>2. QED
      BY <3>1 DEF ChannelMaps
  <2>4. services \in ServiceMaps
    <3>1. services \in [{} -> Clients]
      BY <2>1, <2>2
    <3>2. QED
      BY <3>1 DEF ServiceMaps
  <2>5. thread \in ThreadStates
    BY <2>1, <2>3, <2>4 DEF ThreadStates, thread, Conns
  <2>6. Queued(thread) /\ Listed(thread) /\ Kept(thread, 0)
    BY <2>1, <2>2 DEF Queued, Listed, Kept, Full, Of, thread
  <2>7. QED
    BY <2>5, <2>6 DEF Tabled, TabledBut
<1>2. Sound(driver)
  <2>1. /\ socket = <<>> /\ send_queue = <<>> /\ next_stream_id = 1
        /\ io = [r \in Requests |-> "idle"]
        /\ read = [n \in Sessions |-> <<>>] /\ eosRead = {} /\ written = [n \in Sessions |-> 0]
        /\ eosWritten = {} /\ a2r = <<>> /\ arrived = 0
    BY DEF Init
  <2>2. DOMAIN socket = {} /\ Elems(<<>>) = {}
    BY <2>1 DEF Elems
  <2>3. socket \in SocketMaps
    <3>1. socket \in [{} -> Sockets]
      BY <2>1, <2>2
    <3>2. QED
      BY <3>1 DEF SocketMaps
  <2>4. 1 \in Ids
    BY IdAssumption DEF IdAssumption, Ids
  <2>5. driver \in DriverStates
    BY <2>1, <2>3, <2>4 DEF DriverStates, driver, Replies
  <2>6. Typed(driver)
    BY <2>1, <2>2, <2>5, CapAssumption DEF Typed, driver, OneEach, CapAssumption
  <2>7. Held(driver) = {} /\ PendAll(socket) = {}
    BY <2>1, <2>2 DEF Held, PendAll, driver
  <2>8. QED
    BY <2>6, <2>7 DEF Sound, driver
<1>3. PathInv
  BY CapAssumption DEF Init, PathInv, CapAssumption
<1>4. LoopInv
  BY DEF Init, LoopInv
<1>5. EndsInv
  <2>1. NoStream \in StreamTypes
    BY DEF NoStream, StreamTypes
  <2>2. QED
    BY <2>1, BoundAssumption DEF Init, EndsInv, BoundAssumption
<1>6. QED
  BY <1>1, <1>2, <1>3, <1>4, <1>5 DEF Inv

\* An application makes a request.
LEMMA AppRequestInv ==
  ASSUME Inv, NEW r \in Requests, AppRequest(r)
  PROVE  Inv'
<1> DEFINE q == Device!handle_app_request(driver, r)
<1>1. Sound(driver) /\ r \notin Held(driver)
  BY DEF Inv, AppRequest, Held, driver
<1>2. Sound(q)
  BY <1>1, RequestSound
<1>3. DriverBecomes(q) /\ UNCHANGED <<r2a, table, loop, wires, stream, counts>>
  BY DEF AppRequest
<1> HIDE DEF q
<1>4. Sound(driver)' /\ LoopInv'
  BY <1>1, <1>2, <1>3, DriverHandles DEF Inv
<1>5. Tabled(thread)' /\ PathInv' /\ EndsInv'
  BY <1>3, ThreadStays DEF Inv, PathInv, EndsInv, loop, counts
<1>6. QED
  BY <1>4, <1>5 DEF Inv

\* The driver takes a packet; there is room for one more.
LEMMA ReceiveR2AInv == Inv /\ ReceiveR2A => Inv'
<1> SUFFICES ASSUME Inv, ReceiveR2A PROVE Inv'
  OBVIOUS
<1> DEFINE q == Device!handle_r2a_packet(driver, Head(r2a))
<1>1. Sound(driver) /\ r2a \in Seq(PiPackets) /\ r2a # <<>>
  BY DEF Inv, PathInv, ReceiveR2A
<1>2. /\ Head(r2a) \in PiPackets /\ Tail(r2a) \in Seq(PiPackets) /\ Len(Tail(r2a)) = Len(r2a) - 1
      /\ Len(r2a) \in Nat
  BY <1>1
<1>3. Sound(q)
  BY <1>1, <1>2, PacketSound
<1>4. DriverBecomes(q) /\ r2a' = Tail(r2a) /\ UNCHANGED <<table, loop, wires, stream, counts>>
  BY DEF ReceiveR2A
<1> HIDE DEF q
<1>5. Sound(driver)' /\ LoopInv'
  BY <1>1, <1>3, <1>4, DriverHandles DEF Inv
<1>6. Tabled(thread)' /\ EndsInv'
  BY <1>4, ThreadStays DEF Inv, EndsInv, counts
<1>7. PathInv'
  <2>1. send_buf' = send_buf /\ room' = room /\ Len(send_buf) \in Nat /\ R2ACap \in Nat /\ PathInv
    BY <1>4, CapAssumption DEF loop, Inv, PathInv, CapAssumption
  <2>2. QED
    BY <1>2, <1>4, <2>1 DEF PathInv
<1>8. QED
  BY <1>5, <1>6, <1>7 DEF Inv

\* The driver serves its send queue.
LEMMA SendQueuedInv == Inv /\ SendQueued => Inv'
<1> SUFFICES ASSUME Inv, SendQueued PROVE Inv'
  OBVIOUS
<1> DEFINE q == Device!handle_room_in_a2r(driver)
<1>1. Sound(driver) /\ driver.send_queue # <<>> /\ Device!room_in_a2r(driver)
  BY DEF Inv, SendQueued, driver
<1>2. Sound(q)
  BY <1>1, RoomSound
<1>3. DriverBecomes(q) /\ UNCHANGED <<r2a, table, loop, wires, stream, counts>>
  BY DEF SendQueued
<1> HIDE DEF q
<1>4. Sound(driver)' /\ LoopInv'
  BY <1>1, <1>2, <1>3, DriverHandles DEF Inv
<1>5. Tabled(thread)' /\ PathInv' /\ EndsInv'
  BY <1>3, ThreadStays DEF Inv, PathInv, EndsInv, loop, counts
<1>6. QED
  BY <1>4, <1>5 DEF Inv

\* A reset of the Amiga: new sockets, every request lost, the rings as they were.
LEMMA RebootInv == Inv /\ Reboot => Inv'
<1> SUFFICES ASSUME Inv, Reboot PROVE Inv'
  OBVIOUS
<1>1. /\ socket' = <<>> /\ send_queue' = <<>> /\ next_stream_id' = 1
      /\ io' = [r \in Requests |-> IF io[r] = "held" THEN "lost" ELSE io[r]]
      /\ started' = TRUE /\ reboots' = reboots + 1 /\ reboots < MaxReboots
      /\ UNCHANGED <<read, eosRead, written, eosWritten, a2r, r2a, table, pc, cc, arrived, received,
                     room, send_buf, wires, stream, closes>>
  BY DEF Reboot
<1>2. Tabled(thread)' /\ PathInv' /\ LoopInv'
  BY <1>1, ThreadStays DEF Inv, PathInv, LoopInv
<1>3. EndsInv'
  BY <1>1, BoundAssumption DEF Inv, EndsInv, BoundAssumption
<1>4. Sound(driver)'
  <2>1. DOMAIN <<>> = {} /\ Elems(<<>>) = {}
    BY DEF Elems
  <2>2. <<>> \in SocketMaps
    <3>1. <<>> \in [{} -> Sockets]
      OBVIOUS
    <3>2. QED
      BY <3>1 DEF SocketMaps
  <2>3. /\ io \in [Requests -> Replies] /\ read \in [Sessions -> Seq(Items)]
        /\ eosRead \in SUBSET Sessions /\ written \in [Sessions -> Nat]
        /\ eosWritten \in SUBSET Sessions /\ a2r \in Seq(AmigaPackets)
        /\ arrived \in Nat /\ arrived <= Len(a2r) /\ Len(a2r) <= A2RCap
    BY DEF Inv, Sound, Typed, DriverStates, driver
  <2>4. io' \in [Requests -> Replies] /\ \A r \in Requests : io'[r] # "held"
    <3>1. "lost" \in Replies
      BY DEF Replies
    <3>2. QED
      BY <1>1, <2>3, <3>1
  <2>5. 1 \in Ids
    BY IdAssumption DEF IdAssumption, Ids
  <2>6. driver' \in DriverStates
    BY <1>1, <2>2, <2>3, <2>4, <2>5 DEF DriverStates, driver
  <2>7. Typed(driver)'
    BY <1>1, <2>1, <2>3, <2>6 DEF Typed, driver, OneEach
  <2>8. Held(driver)' = {} /\ PendAll(driver.socket)' = {}
    BY <1>1, <2>1, <2>4 DEF Held, PendAll, driver
  <2>9. QED
    BY <2>7, <2>8 DEF Sound
<1>5. QED
  BY <1>2, <1>3, <1>4 DEF Inv

\* Steps in which the driver has no part.
LEMMA DriverWaits ==
  ASSUME Sound(driver), UNCHANGED <<amiga, a2r, arrived>>
  PROVE  Sound(driver)'
<1>1. driver' = driver /\ arrived' \in Nat /\ arrived' <= Len(driver.a2r)
  BY DriverStays DEF Sound, Typed
<1>2. QED
  BY <1>1, DriverSteps

\* The thread learns how much there is to read.
LEMMA IrqInv == Inv /\ Irq => Inv'
<1> SUFFICES ASSUME Inv, Irq PROVE Inv'
  OBVIOUS
<1> DEFINE q == IF started THEN Thread!close_all_logical_channels(thread) ELSE thread
           next == IF a2r = <<>> THEN "flush" ELSE "receive"
<1>1. /\ pc = "epoll" /\ ThreadBecomes(q, next) /\ started' = FALSE
      /\ arrived' = Len(a2r) /\ room' = R2ACap - Len(r2a)
      /\ UNCHANGED <<amiga, a2r, r2a, cc, received, send_buf, stream, counts>>
  BY DEF Irq
<1>2. Tabled(q)
  BY CloseAllTables DEF Inv
<1>3. next \in {"flush", "receive"} /\ (next = "receive" => a2r # <<>>)
  OBVIOUS
<1> HIDE DEF q, next
<1>4. Tabled(thread)' /\ pc' \in {next, "dead"}
  BY <1>1, <1>2, ThreadSteps
<1>5. /\ a2r \in Seq(AmigaPackets) /\ r2a \in Seq(PiPackets) /\ send_buf = <<>> /\ room \in Nat
      /\ room + Len(send_buf) + Len(r2a) <= R2ACap /\ received = 0 /\ R2ACap \in Nat
  BY <1>1, CapAssumption DEF Inv, Sound, Typed, DriverStates, driver, PathInv, LoopInv, CapAssumption
<1>6. Sound(driver)'
  <2>1. driver' = driver
    BY <1>1, DriverStays
  <2>2. arrived' \in Nat /\ arrived' <= Len(driver.a2r)
    BY <1>1, <1>5 DEF driver
  <2>3. QED
    BY <2>1, <2>2, DriverSteps DEF Inv
<1>7. PathInv'
  BY <1>1, <1>5 DEF PathInv
<1>8. LoopInv'
  <2>1. a2r # <<>> => Len(a2r) > 0
    BY <1>5
  <2>5. received' = 0 /\ arrived' = Len(a2r) /\ Len(a2r) \in Nat /\ a2r' = a2r
    BY <1>1, <1>5
  <2>6. started' \in BOOLEAN
    BY <1>1
  <2>7. cc' \in Clients \union {NoOne}
    BY <1>1 DEF Inv, LoopInv
  <2>3. pc' \in {"flush", "receive", "dead"} /\ (pc' = "receive" => Len(a2r) > 0)
    BY <1>3, <1>4, <2>1
  <2>4. QED
    BY <2>3, <2>5, <2>6, <2>7 DEF LoopInv
<1>9. EndsInv'
  BY <1>1 DEF Inv, EndsInv, counts
<1>10. QED
  BY <1>4, <1>6, <1>7, <1>8, <1>9 DEF Inv

\* The thread handles a packet.
LEMMA ReceiveA2RInv == Inv /\ ReceiveA2R => Inv'
<1> SUFFICES ASSUME Inv, ReceiveA2R PROVE Inv'
  OBVIOUS
<1> DEFINE m == a2r[received + 1]
           q == Thread!handle_received_pkt(thread, m)
           next == IF received + 1 < arrived THEN "receive" ELSE "flush"
<1>1. /\ pc = "receive" /\ received' = received + 1
      /\ UNCHANGED <<amiga, a2r, r2a, cc, arrived, room, send_buf, started, stream, counts>>
      /\ IF Thread!Duplicate(thread, m) THEN pc' = "dead" /\ UNCHANGED <<table, wires>>
                                        ELSE ThreadBecomes(q, next)
  BY DEF ReceiveA2R
<1>2. /\ received \in Nat /\ arrived \in Nat /\ received < arrived /\ arrived <= Len(a2r)
      /\ a2r \in Seq(AmigaPackets)
  BY <1>1 DEF Inv, LoopInv, Sound, Typed, DriverStates, driver
<1>3. m \in AmigaPackets
  <2>1. received + 1 \in 1..Len(a2r)
    BY <1>2
  <2>2. QED
    BY <1>2, <2>1
<1>4. Tabled(thread)' /\ pc' \in {"dead", next}
  <2>1. CASE Thread!Duplicate(thread, m)
    BY <1>1, <2>1, ThreadStays DEF Inv
  <2>2. CASE ~Thread!Duplicate(thread, m)
    <3>1. Tabled(q)
      BY <1>3, <2>2, PktTables DEF Inv
    <3>2. ThreadBecomes(q, next)
      BY <1>1, <2>2
    <3> HIDE DEF q, next
    <3>3. QED
      BY <3>1, <3>2, ThreadSteps
  <2>3. QED
    BY <2>1, <2>2
<1>5. Sound(driver)' /\ PathInv' /\ EndsInv'
  BY <1>1, DriverWaits DEF Inv, PathInv, EndsInv, counts
<1>6. LoopInv'
  <2>1. pc' \in {"dead", "flush", "receive"} /\ (pc' = "receive" => received + 1 < arrived)
    BY <1>4
  <2>2. /\ received' = received + 1 /\ arrived' = arrived /\ a2r' = a2r /\ cc' = cc
        /\ started' = started /\ cc \in Clients \union {NoOne} /\ started \in BOOLEAN
    BY <1>1 DEF Inv, LoopInv
  <2>3. QED
    BY <1>2, <2>1, <2>2 DEF LoopInv
<1>7. QED
  BY <1>4, <1>5, <1>6 DEF Inv

\* The thread sends a packet, if there is room.
LEMMA FlushPacketInv == Inv /\ FlushPacket => Inv'
<1> SUFFICES ASSUME Inv, FlushPacket PROVE Inv'
  OBVIOUS
<1> DEFINE m == Thread!NextPacket(thread)
           q == Thread!flush_send_queue(thread)
<1>1. /\ pc = "flush" /\ pi_queue # <<>> /\ room > 0
      /\ send_buf' = Append(send_buf, m) /\ room' = room - 1 /\ ThreadBecomes(q, "flush")
      /\ UNCHANGED <<amiga, a2r, r2a, cc, arrived, received, started, stream, counts>>
  BY DEF FlushPacket
<1>2. Tabled(q) /\ m \in PiPackets
  BY <1>1, FlushTables DEF Inv, thread
<1> HIDE DEF m, q
<1>3. Tabled(thread)' /\ pc' \in {"flush", "dead"}
  BY <1>1, <1>2, ThreadSteps
<1>4. Sound(driver)' /\ EndsInv'
  BY <1>1, DriverWaits DEF Inv, EndsInv, counts
<1>5. PathInv'
  <2>1. /\ send_buf \in Seq(PiPackets) /\ r2a \in Seq(PiPackets) /\ room \in Nat
        /\ room + Len(send_buf) + Len(r2a) <= R2ACap /\ R2ACap \in Nat
    BY CapAssumption DEF Inv, PathInv, CapAssumption
  <2>2. /\ Append(send_buf, m) \in Seq(PiPackets)
        /\ Len(Append(send_buf, m)) = Len(send_buf) + 1 /\ Len(send_buf) \in Nat /\ Len(r2a) \in Nat
    BY <1>2, <2>1
  <2>3. QED
    BY <1>1, <2>1, <2>2 DEF PathInv
<1>6. LoopInv'
  BY <1>1, <1>3 DEF Inv, LoopInv
<1>7. QED
  BY <1>3, <1>4, <1>5, <1>6 DEF Inv

\* The thread stores its indices: the packets leave one ring and enter the other.
LEMMA PublishInv == Inv /\ Publish => Inv'
<1> SUFFICES ASSUME Inv, Publish PROVE Inv'
  OBVIOUS
<1>1. /\ pc' = "epoll" /\ cc' = NoOne /\ r2a' = r2a \o send_buf /\ send_buf' = <<>>
      /\ a2r' = SubSeq(a2r, received + 1, Len(a2r)) /\ received' = 0 /\ arrived' = 0
      /\ UNCHANGED <<amiga, table, room, started, wires, stream, counts>>
  BY DEF Publish
<1>2. Tabled(thread)' /\ EndsInv'
  BY <1>1, ThreadStays DEF Inv, EndsInv, counts
<1>3. PathInv'
  <2>1. /\ send_buf \in Seq(PiPackets) /\ r2a \in Seq(PiPackets) /\ room \in Nat
        /\ room + Len(send_buf) + Len(r2a) <= R2ACap /\ R2ACap \in Nat
    BY CapAssumption DEF Inv, PathInv, CapAssumption
  <2>2. /\ r2a \o send_buf \in Seq(PiPackets) /\ Len(r2a \o send_buf) = Len(r2a) + Len(send_buf)
        /\ Len(send_buf) \in Nat /\ Len(r2a) \in Nat
    BY <2>1
  <2>3. QED
    BY <1>1, <2>1, <2>2 DEF PathInv
<1>4. LoopInv' /\ a2r' \in Seq(AmigaPackets) /\ Len(a2r') <= A2RCap
  <2>1. /\ a2r \in Seq(AmigaPackets) /\ Len(a2r) <= A2RCap /\ received \in Nat
        /\ arrived \in Nat /\ received <= arrived /\ arrived <= Len(a2r) /\ A2RCap \in Nat
        /\ started \in BOOLEAN
    BY CapAssumption DEF Inv, LoopInv, Sound, Typed, DriverStates, driver, CapAssumption
  <2>2. /\ a2r' \in Seq(AmigaPackets) /\ Len(a2r') \in Nat
        /\ Len(a2r') = Len(a2r) - received
    <3>1. received + 1 \in 1..(Len(a2r) + 1) /\ Len(a2r) \in 0..Len(a2r) /\ Len(a2r) \in Nat
      BY <2>1
    <3>2. /\ SubSeq(a2r, received + 1, Len(a2r)) \in Seq(AmigaPackets)
          /\ Len(SubSeq(a2r, received + 1, Len(a2r))) =
               IF received + 1 <= Len(a2r) THEN Len(a2r) - (received + 1) + 1 ELSE 0
      BY <2>1, <3>1, SubSeqProperties
    <3>3. QED
      BY <1>1, <2>1, <3>2
  <2>3. LoopInv'
    BY <1>1, <2>1, <2>2 DEF LoopInv
  <2>4. QED
    BY <2>1, <2>2, <2>3
<1>5. Sound(driver)'
  <2> DEFINE q == [driver EXCEPT !.a2r = a2r']
  <2>0. driver' = q
    <3> DEFINE x == a2r'
    <3>1. q = [socket |-> socket, send_queue |-> send_queue, next_stream_id |-> next_stream_id,
               io |-> io, read |-> read, eosRead |-> eosRead, written |-> written,
               eosWritten |-> eosWritten, a2r |-> x]
      <4> HIDE DEF x
      <4>1. [driver EXCEPT !.a2r = x] =
               [socket |-> socket, send_queue |-> send_queue, next_stream_id |-> next_stream_id,
                io |-> io, read |-> read, eosRead |-> eosRead, written |-> written,
                eosWritten |-> eosWritten, a2r |-> x]
        BY DEF driver
      <4>2. QED
        BY <4>1 DEF x
    <3>2. /\ socket' = socket /\ send_queue' = send_queue /\ next_stream_id' = next_stream_id
          /\ io' = io /\ read' = read /\ eosRead' = eosRead /\ written' = written
          /\ eosWritten' = eosWritten
      BY <1>1 DEF amiga
    <3> HIDE DEF q
    <3>3. QED
      BY <3>1, <3>2 DEF driver
  <2>1. driver \in DriverStates /\ driver' = q
    BY <2>0 DEF Inv, Sound, Typed
  <2>2. /\ q \in DriverStates /\ q.socket = driver.socket /\ q.send_queue = driver.send_queue
        /\ q.io = driver.io /\ q.a2r = a2r'
    BY <1>4, <2>1 DEF DriverStates
  <2> HIDE DEF q
  <2>3. arrived' = 0 /\ 0 <= Len(a2r')
    BY <1>1, <1>4 DEF LoopInv
  <2>4. /\ OneEach(q.socket) /\ Elems(q.send_queue) \subseteq DOMAIN q.socket
        /\ Held(q) = PendAll(q.socket)
    BY <2>2 DEF Inv, Sound, Typed, Held
  <2>5. Typed(driver)'
    BY <1>4, <2>1, <2>2, <2>3, <2>4 DEF Typed
  <2>6. (Held(driver) = PendAll(driver.socket))'
    BY <2>1, <2>4
  <2>7. QED
    BY <2>5, <2>6 DEF Sound
<1>6. QED
  BY <1>2, <1>3, <1>4, <1>5 DEF Inv

\* a step of the thread that leaves the rings and its loop where they are
LEMMA EventInv ==
  ASSUME Inv, Tabled(thread)',
         UNCHANGED <<amiga, a2r, r2a, arrived, received, room, send_buf, started, stream, counts>>,
         pc' \in {"epoll", "messages", "flush", "dead"}, cc' \in Clients \union {NoOne},
         pc' = "messages" => cc' \in Clients,
         pc \in {"epoll", "messages"}
  PROVE  Inv'
<1>1. Sound(driver)' /\ PathInv' /\ EndsInv'
  BY DriverWaits DEF Inv, PathInv, EndsInv, counts
<1>2. LoopInv'
  BY DEF Inv, LoopInv
<1>3. QED
  BY <1>1, <1>2 DEF Inv

\* A client connects.
LEMMA ServerReadyInv ==
  ASSUME Inv, NEW c \in Clients, handle_server_socket_ready(c)
  PROVE  Inv'
<1>1. /\ pc = "epoll" /\ conn' = [conn EXCEPT ![c] = "up"]
      /\ cc_next_stream_id' = [cc_next_stream_id EXCEPT ![c] = 1]
      /\ fromCli' = [fromCli EXCEPT ![c] = <<Thread!Msg("REGISTER_REQ", 0, Thread!Nothing)>>]
      /\ UNCHANGED <<amiga, a2r, r2a, channels, pi_queue, services, associations, loop, toCli,
                     stream, counts>>
  BY DEF handle_server_socket_ready, Thread!Nothing, Nothing, Thread!Result, Result, Thread!Item, Item
<1>2. Thread!Msg("REGISTER_REQ", 0, Thread!Nothing) \in FromClient
  BY ItemTypes DEF Thread!Msg, FromClient
<1>3. Tabled(thread)'
  <2>1. Tabled(thread)
    BY DEF Inv
  <2>2. /\ conn' \in [Clients -> Conns] /\ cc_next_stream_id' \in [Clients -> Nat]
        /\ fromCli' \in [Clients -> Seq(FromClient)] /\ toCli' \in [Clients -> Seq(ToClient)]
    BY <1>1, <1>2, <2>1, ThreadFields DEF Conns
  <2>3. QED
    BY <1>1, <2>1, <2>2, WiresChange
<1>4. QED
  BY <1>1, <1>3, EventInv DEF loop, Inv, LoopInv

\* The thread finds a connection closed.
LEMMA ConnectionEventInv ==
  ASSUME Inv, NEW c \in Clients, ConnectionEvent(c)
  PROVE  Inv'
<1>1. /\ pc = "epoll" /\ cc' = c
      /\ UNCHANGED <<amiga, a2r, r2a, arrived, received, room, send_buf, started, stream, counts>>
      /\ \/ ThreadBecomes(Thread!close_and_remove_connection(thread, c), "flush")
         \/ pc' = "messages" /\ UNCHANGED <<table, wires>>
  BY DEF ConnectionEvent
<1>2. Tabled(thread)' /\ pc' \in {"messages", "flush", "dead"}
  <2>1. CASE ThreadBecomes(Thread!close_and_remove_connection(thread, c), "flush")
    BY <2>1, CloseTables, ThreadSteps DEF Inv
  <2>2. CASE pc' = "messages" /\ UNCHANGED <<table, wires>>
    BY <2>2, ThreadStays DEF Inv
  <2>3. QED
    BY <1>1, <2>1, <2>2
<1>3. QED
  BY <1>1, <1>2, EventInv

\* The thread handles a message.
LEMMA ReadMessageInv == Inv /\ ReadMessage => Inv'
<1> SUFFICES ASSUME Inv, ReadMessage PROVE Inv'
  OBVIOUS
<1> DEFINE p == [thread EXCEPT !.fromCli[cc] = Tail(@)]
           m == Head(fromCli[cc])
           q == Thread!handle_received_message(p, cc, m)
<1>1. /\ pc = "messages" /\ fromCli[cc] # <<>> /\ ThreadBecomes(q, "messages")
      /\ UNCHANGED <<amiga, a2r, r2a, cc, arrived, received, room, send_buf, started, stream, counts>>
  BY DEF ReadMessage
<1>2. cc \in Clients /\ Tabled(thread)
  BY <1>1 DEF Inv, LoopInv
<1>3. fromCli[cc] \in Seq(FromClient) /\ fromCli \in [Clients -> Seq(FromClient)]
  BY <1>2, ThreadFields
<1>4. m \in FromClient /\ Tail(fromCli[cc]) \in Seq(FromClient)
  BY <1>1, <1>3
<1>5. Tabled(p)
  <2>1. thread \in ThreadStates /\ TabledBut(thread, 0)
    BY <1>2 DEF Tabled, TabledBut
  <2>2. p = [thread EXCEPT !.fromCli = [fromCli EXCEPT ![cc] = Tail(fromCli[cc])]]
    BY DEF thread
  <2>3. [fromCli EXCEPT ![cc] = Tail(fromCli[cc])] \in [Clients -> Seq(FromClient)]
    BY <1>3, <1>4
  <2> HIDE DEF p
  <2>4. /\ p \in ThreadStates /\ p.channels = thread.channels /\ p.pi_queue = thread.pi_queue
        /\ p.associations = thread.associations
    BY <2>1, <2>2, <2>3 DEF ThreadStates
  <2>5. QED
    BY <2>1, <2>4, SameTables DEF Tabled
<1> HIDE DEF p, m
<1>6. Tabled(q)
  BY <1>2, <1>4, <1>5, MessageTables
<1> HIDE DEF q
<1>7. Tabled(thread)' /\ pc' \in {"messages", "dead"}
  BY <1>1, <1>6, ThreadSteps
<1>8. QED
  BY <1>1, <1>2, <1>7, EventInv

\* The thread has read the messages of a connection.
LEMMA MessagesReadInv == Inv /\ MessagesRead => Inv'
<1> SUFFICES ASSUME Inv, MessagesRead PROVE Inv'
  OBVIOUS
<1>1. /\ pc = "messages"
      /\ UNCHANGED <<amiga, a2r, r2a, cc, arrived, received, room, send_buf, started, stream, counts>>
      /\ \/ pc' = "flush" /\ UNCHANGED <<table, wires>>
         \/ ThreadBecomes(Thread!close_and_remove_connection(thread, cc), "flush")
         \/ pc' = "dead" /\ UNCHANGED <<table, wires>>
  <2>1. CASE conn[cc] = "up"
    BY <2>1 DEF MessagesRead
  <2>2. CASE conn[cc] \in {"closed", "broken"}
    BY <2>2 DEF MessagesRead
  <2>3. CASE conn[cc] \notin {"up", "closed", "broken"}
    BY <2>3 DEF MessagesRead
  <2>4. QED
    BY <2>1, <2>2, <2>3
<1>2. cc \in Clients /\ Tabled(thread)
  BY <1>1 DEF Inv, LoopInv
<1>3. Tabled(thread)' /\ pc' \in {"flush", "dead"}
  <2>1. CASE ThreadBecomes(Thread!close_and_remove_connection(thread, cc), "flush")
    BY <1>2, <2>1, CloseTables, ThreadSteps
  <2>2. CASE pc' \in {"flush", "dead"} /\ UNCHANGED <<table, wires>>
    BY <1>2, <2>2, ThreadStays
  <2>3. QED
    BY <1>1, <2>1, <2>2
<1>4. QED
  BY <1>1, <1>2, <1>3, EventInv

-----------------------------------------------------------------------------
(* The clients. *)

\* A client takes the first message.
LEMMA Reads1 ==
  ASSUME Inv, NEW c \in Clients, ClientReads(c)
  PROVE  /\ Tabled(thread) /\ Head(toCli[c]) \in ToClient
         /\ toCli' \in [Clients -> Seq(ToClient)]
<1>1. toCli \in [Clients -> Seq(ToClient)] /\ Tabled(thread)
  BY ThreadFields DEF Inv
<1>2. toCli[c] \in Seq(ToClient) /\ toCli[c] # <<>> /\ toCli' = [toCli EXCEPT ![c] = Tail(@)]
  BY <1>1 DEF ClientReads
<1>3. Head(toCli[c]) \in ToClient /\ Tail(toCli[c]) \in Seq(ToClient)
  BY <1>2
<1>4. QED
  BY <1>1, <1>2, <1>3

\* a step of a client
LEMMA ClientInv ==
  ASSUME Inv,
         UNCHANGED <<amiga, a2r, r2a, table, loop, reboots>>,
         conn' \in [Clients -> Conns], toCli' \in [Clients -> Seq(ToClient)],
         fromCli' \in [Clients -> Seq(FromClient)], stream' \in [Sessions -> StreamTypes],
         closes' \in 0..MaxCloses
  PROVE  Inv'
<1>1. Tabled(thread)'
  <2>1. Tabled(thread)
    BY DEF Inv
  <2>2. UNCHANGED <<channels, pi_queue, services, associations, cc_next_stream_id>>
    BY DEF table
  <2>3. cc_next_stream_id' \in [Clients -> Nat]
    BY <2>1, <2>2, ThreadFields
  <2>4. QED
    BY <2>1, <2>2, <2>3, WiresChange
<1>2. Sound(driver)' /\ PathInv' /\ LoopInv'
  BY DriverWaits DEF Inv, PathInv, LoopInv, loop
<1>3. EndsInv'
  BY DEF Inv, EndsInv
<1>4. QED
  BY <1>1, <1>2, <1>3 DEF Inv

\* How a client leaves is one of the stages.
LEMMA LeftType ==
  ASSUME NEW c
  PROVE  Left(c) \in Conns
  BY DEF Left, Conns

\* What the steps of the clients start from.
LEMMA EndsOf ==
  ASSUME Inv
  PROVE  /\ stream \in [Sessions -> StreamTypes] /\ closes \in 0..MaxCloses
         /\ conn \in [Clients -> Conns] /\ toCli \in [Clients -> Seq(ToClient)]
         /\ fromCli \in [Clients -> Seq(FromClient)]
  BY ThreadFields DEF Inv, EndsInv

\* A client sends a message.
LEMMA SaysTypes ==
  ASSUME fromCli \in [Clients -> Seq(FromClient)], NEW c, NEW m \in FromClient, Says(c, m)
  PROVE  fromCli' \in [Clients -> Seq(FromClient)]
<1>1. fromCli' = [fromCli EXCEPT ![c] = Append(@, m)]
  BY DEF Says
<1>2. \A d \in Clients : Append(fromCli[d], m) \in Seq(FromClient)
  BY AppendAdds
<1>3. QED
  BY <1>1, <1>2

\* The items of the three modules are the same.
LEMMA SameItems ==
  /\ Thread!Nothing = Nothing /\ \A k : Thread!Result(k) = Result(k)
  /\ \A n, k : Thread!Item(n, k) = Item(n, k)
  BY DEF Thread!Nothing, Nothing, Thread!Result, Result, Thread!Item, Item

\* The client learns that it is registered.
LEMMA RegisterResInv ==
  ASSUME Inv, NEW c \in Clients, RegisterRes(c)
  PROVE  Inv'
<1>1. /\ ClientReads(c) /\ conn' \in {conn, [conn EXCEPT ![c] = Left(c)]}
      /\ UNCHANGED <<amiga, a2r, r2a, table, loop, fromCli, stream, counts>>
  BY DEF RegisterRes
<1>2. conn' \in [Clients -> Conns]
  BY <1>1, EndsOf, LeftType
<1>3. QED
  BY <1>1, <1>2, Reads1, EndsOf, ClientInv DEF counts

\* The client answers a CONNECT.
LEMMA ClientConnectInv ==
  ASSUME Inv, NEW c \in Clients, ClientConnect(c)
  PROVE  Inv'
<1> DEFINE m == Head(toCli[c])
<1>1. /\ ClientReads(c) /\ UNCHANGED <<amiga, a2r, r2a, table, loop, conn, counts>>
  BY DEF ClientConnect
<1>2. PICK result \in Answers :
        /\ Says(c, Thread!Msg("CONNECT_RESPONSE", m.sid, Thread!Result(result)))
        /\ stream' = [stream EXCEPT ![m.data.session] =
                        [NoStream EXCEPT !.client = c, !.sid = m.sid,
                                         !.st = IF result = 0 THEN "open" ELSE "done"]]
  BY DEF ClientConnect, Thread!Result, Result, Thread!Item, Item
<1>3. m \in ToClient /\ toCli' \in [Clients -> Seq(ToClient)]
  BY <1>1, Reads1
<1>4. result \in Nat
  BY AnswerAssumption DEF AnswerAssumption
<1>5. fromCli' \in [Clients -> Seq(FromClient)]
  <2>1. m.sid \in Nat
    BY <1>3 DEF ToClient
  <2> HIDE DEF m
  <2>2. Thread!Msg("CONNECT_RESPONSE", m.sid, Thread!Result(result)) \in FromClient
    BY <1>4, <2>1, ItemTypes DEF Thread!Msg, FromClient
  <2>3. QED
    BY <1>2, <2>2, EndsOf, SaysTypes
<1>6. stream' \in [Sessions -> StreamTypes]
  <2>1. m.sid \in Nat
    BY <1>3 DEF ToClient
  <2> HIDE DEF m
  <2> DEFINE v == [NoStream EXCEPT !.client = c, !.sid = m.sid,
                                   !.st = IF result = 0 THEN "open" ELSE "done"]
  <2>2. v \in StreamTypes
    <3>1. NoStream \in StreamTypes
      BY DEF NoStream, StreamTypes
    <3>2. CASE result = 0
      BY <2>1, <3>1, <3>2 DEF StreamTypes
    <3>3. CASE result # 0
      BY <2>1, <3>1, <3>3 DEF StreamTypes
    <3>4. QED
      BY <3>2, <3>3
  <2>3. stream' = [stream EXCEPT ![m.data.session] = v]
    BY <1>2
  <2> HIDE DEF v
  <2>4. QED
    BY <2>2, <2>3, EndsOf
<1>7. QED
  BY <1>1, <1>3, <1>5, <1>6, EndsOf, ClientInv DEF counts

\* The client takes data, an EOS or a RESET.
LEMMA ClientPacketInv ==
  ASSUME Inv, NEW c \in Clients, ClientPacket(c)
  PROVE  Inv'
<1> DEFINE m == Head(toCli[c])
           n == StreamOf(c, m.sid)
           v == CASE m.type = "DATA" -> [stream[n] EXCEPT !.got = Append(@, m.data)]
                  [] m.type = "EOS" -> [stream[n] EXCEPT !.st = "done", !.eos = TRUE, !.ended = TRUE]
                  [] m.type = "RESET" -> [stream[n] EXCEPT !.st = "done"]
<1>1. /\ ClientReads(c) /\ UNCHANGED <<amiga, a2r, r2a, table, loop, conn, counts>>
      /\ m.type \in {"DATA", "EOS", "RESET"}
  BY DEF ClientPacket
<1>2. m \in ToClient /\ toCli' \in [Clients -> Seq(ToClient)]
  BY <1>1, Reads1
<1>3. CASE ~Knows(c, m.sid) \/ stream[n].st = "done"
  <2>1. UNCHANGED <<stream, fromCli>>
    BY <1>3 DEF ClientPacket
  <2>2. QED
    BY <1>1, <1>2, <2>1, EndsOf, ClientInv DEF counts
<1>4. CASE ~(~Knows(c, m.sid) \/ stream[n].st = "done")
  <2>1. /\ stream' = [stream EXCEPT ![n] = v]
        /\ Says(c, Thread!Msg("EOS", m.sid, Thread!Nothing)) \/ UNCHANGED fromCli
    <3>1. stream' = [stream EXCEPT ![n] = v]
      BY <1>4 DEF ClientPacket
    <3>2. Says(c, Thread!Msg("EOS", m.sid, Nothing)) \/ UNCHANGED fromCli
      BY <1>4 DEF ClientPacket
    <3>3. QED
      BY <3>1, <3>2, SameItems
  <2>2. m.sid \in Nat /\ m.data \in Items
    BY <1>2 DEF ToClient
  <2>3. n \in Sessions
    BY <1>4 DEF Knows, StreamOf
  <2> HIDE DEF n
  <2>4. stream[n] \in StreamTypes /\ stream[n].got \in Seq(Items)
    BY <2>3, EndsOf DEF StreamTypes
  <2>5. v \in StreamTypes
    <3>1. Append(stream[n].got, m.data) \in Seq(Items)
      BY <2>2, <2>4
    <3> HIDE DEF m
    <3>2. CASE m.type = "DATA"
      BY <2>4, <3>1, <3>2 DEF StreamTypes
    <3>3. CASE m.type = "EOS"
      BY <2>4, <3>3 DEF StreamTypes
    <3>4. CASE m.type = "RESET"
      BY <2>4, <3>4 DEF StreamTypes
    <3>5. QED
      BY <1>1, <3>2, <3>3, <3>4
  <2> HIDE DEF v, m
  <2>6. stream' \in [Sessions -> StreamTypes]
    BY <2>1, <2>5, EndsOf
  <2>7. fromCli' \in [Clients -> Seq(FromClient)]
    <3>1. Thread!Msg("EOS", m.sid, Thread!Nothing) \in FromClient
      BY <2>2, ItemTypes DEF Thread!Msg, FromClient
    <3>2. QED
      BY <2>1, <3>1, EndsOf, SaysTypes
  <2>8. QED
    BY <1>1, <1>2, <2>6, <2>7, EndsOf, ClientInv DEF counts
<1>5. QED
  BY <1>3, <1>4

\* The client sends data, an EOS or a RESET.
LEMMA ClientSendInv ==
  ASSUME Inv, NEW n \in Sessions, NEW type \in Speaks, ClientSend(n, type)
  PROVE  Inv'
<1> DEFINE s == stream[n]
           x == IF type = "DATA" THEN Thread!Item(n, s.sent + 1) ELSE Thread!Nothing
           m == Thread!Msg(type, s.sid, x)
           v == CASE type = "DATA" -> [s EXCEPT !.sent = @ + 1]
                  [] type = "EOS" -> [s EXCEPT !.st = "eos", !.ended = TRUE]
                  [] type = "RESET" -> [s EXCEPT !.st = "done"]
<1>1. /\ UNCHANGED <<amiga, a2r, r2a, table, loop, conn, toCli, counts>>
      /\ Says(s.client, m) /\ stream' = [stream EXCEPT ![n] = v]
  <2> DEFINE y == IF type = "DATA" THEN Item(n, s.sent + 1) ELSE Nothing
  <2>1. /\ UNCHANGED <<amiga, a2r, r2a, table, loop, conn, toCli, counts>>
        /\ Says(s.client, Thread!Msg(type, s.sid, y)) /\ stream' = [stream EXCEPT ![n] = v]
    <3>1. UNCHANGED <<amiga, a2r, r2a, table, loop, conn, toCli, counts>>
      BY DEF ClientSend
    <3>2. Says(s.client, Thread!Msg(type, s.sid, y))
      BY DEF ClientSend
    <3>3. stream' = [stream EXCEPT ![n] = v]
      BY DEF ClientSend
    <3>4. QED
      BY <3>1, <3>2, <3>3
  <2>2. x = y
    BY SameItems
  <2> HIDE DEF x, y, v
  <2>3. QED
    BY <2>1, <2>2
<1>2. s \in StreamTypes /\ s.sid \in Nat /\ s.sent \in Nat
  BY EndsOf DEF StreamTypes
<1>3. type \in {"DATA", "EOS", "RESET"}
  BY AnswerAssumption DEF AnswerAssumption
<1>4. x \in Items
  <2> HIDE DEF s
  <2>1. s.sent + 1 \in Nat
    BY <1>2
  <2>2. Thread!Item(n, s.sent + 1) \in Items
    BY <2>1 DEF Thread!Item, Items
  <2>3. QED
    BY <2>2, ItemTypes
<1> HIDE DEF x, s
<1>5. m \in FromClient
  BY <1>2, <1>3, <1>4 DEF Thread!Msg, FromClient
<1>6. v \in StreamTypes
  <2>1. CASE type = "DATA"
    BY <1>2, <2>1 DEF StreamTypes
  <2>2. CASE type = "EOS"
    BY <1>2, <2>2 DEF StreamTypes
  <2>3. CASE type = "RESET"
    BY <1>2, <2>3 DEF StreamTypes
  <2>4. QED
    BY <1>3, <2>1, <2>2, <2>3
<1> HIDE DEF v, m
<1>7. stream' \in [Sessions -> StreamTypes] /\ fromCli' \in [Clients -> Seq(FromClient)]
  BY <1>1, <1>5, <1>6, EndsOf, SaysTypes
<1>8. QED
  BY <1>1, <1>7, EndsOf, ClientInv DEF counts

\* The client ends.
LEMMA ClientCloseInv ==
  ASSUME Inv, NEW c \in Clients, ClientClose(c)
  PROVE  Inv'
<1>1. /\ closes < MaxCloses /\ closes' = closes + 1 /\ UNCHANGED <<toCli, fromCli>>
      /\ conn' = [conn EXCEPT ![c] = Left(c)]
      /\ stream' = [n \in Sessions |-> IF stream[n].client # c THEN stream[n]
                                       ELSE [stream[n] EXCEPT !.client = NoOne, !.st = "done"]]
      /\ UNCHANGED <<amiga, a2r, r2a, table, loop, reboots>>
  BY DEF ClientClose
<1>2. conn' \in [Clients -> Conns]
  BY <1>1, EndsOf, LeftType
<1>3. stream' \in [Sessions -> StreamTypes]
  <2>1. ASSUME NEW n \in Sessions
        PROVE  [stream[n] EXCEPT !.client = NoOne, !.st = "done"] \in StreamTypes
    <3>1. stream[n] \in StreamTypes
      BY EndsOf
    <3>2. QED
      BY <3>1 DEF StreamTypes
  <2>2. QED
    BY <1>1, <2>1, EndsOf
<1>4. closes' \in 0..MaxCloses
  <2>1. closes \in 0..MaxCloses
    BY EndsOf
  <2>2. MaxCloses \in Nat
    BY BoundAssumption DEF BoundAssumption
  <2>3. closes < MaxCloses /\ closes' = closes + 1
    BY <1>1
  <2>4. QED
    BY <2>1, <2>2, <2>3
<1>5. QED
  BY <1>1, <1>2, <1>3, <1>4, EndsOf, ClientInv

-----------------------------------------------------------------------------
(* The theorems. *)

\* Every step keeps the invariant.
LEMMA NextInv == Inv /\ [Next]_vars => Inv'
<1> SUFFICES ASSUME Inv, [Next]_vars PROVE Inv'
  OBVIOUS
<1>1. ASSUME NEW r \in Requests, AppRequest(r) PROVE Inv'
  BY <1>1, AppRequestInv
<1>2. CASE ReceiveR2A \/ SendQueued \/ Reboot
  BY <1>2, ReceiveR2AInv, SendQueuedInv, RebootInv
<1>3. CASE ThreadStep
  <2>1. CASE Irq \/ ReceiveA2R \/ FlushPacket \/ Publish
    BY <2>1, IrqInv, ReceiveA2RInv, FlushPacketInv, PublishInv
  <2>2. CASE ReadMessage \/ MessagesRead
    BY <2>2, ReadMessageInv, MessagesReadInv
  <2>3. ASSUME NEW c \in Clients, ConnectionEvent(c) PROVE Inv'
    BY <2>3, ConnectionEventInv
  <2>4. QED
    BY <1>3, <2>1, <2>2, <2>3 DEF ThreadStep
<1>4. ASSUME NEW c \in Clients, ClientStep(c) \/ ClientClose(c) \/ handle_server_socket_ready(c)
      PROVE  Inv'
  BY <1>4, RegisterResInv, ClientConnectInv, ClientPacketInv, ClientCloseInv, ServerReadyInv
     DEF ClientStep
<1>5. ASSUME NEW n \in Sessions, NEW type \in Speaks, ClientSend(n, type) PROVE Inv'
  BY <1>5, ClientSendInv
<1>6. CASE UNCHANGED vars
  <2>1. /\ UNCHANGED <<amiga, a2r, r2a, table, loop, wires, stream, counts>>
    BY <1>6 DEF vars
  <2>2. Tabled(thread)' /\ Sound(driver)' /\ PathInv' /\ LoopInv' /\ EndsInv'
    BY <2>1, ThreadStays, DriverWaits DEF Inv, PathInv, LoopInv, EndsInv, loop, counts
  <2>3. QED
    BY <2>2 DEF Inv
<1>7. QED
  BY <1>1, <1>2, <1>3, <1>4, <1>5, <1>6 DEF Next, DriverStep

\* The invariant holds in every state.
LEMMA AlwaysInv == Spec => []Inv
<1>1. QED
  BY InitInv, NextInv, PTL DEF Spec

\* The tables of a314.cc agree whatever the Amiga and the clients do: send_queue has, once
\* each, the channels with packets to send, a connection lists the channels that name it
\* (associate_logical_channel, remove_association), and a channel without a client has a
\* packet left, so that flush_send_queue removes it.
THEOREM TheTablesAgree == Spec => []TablesAgree
<1>1. Inv => TablesAgree
  <2> SUFFICES ASSUME Inv PROVE TablesAgree
    OBVIOUS
  <2>1. Queued(thread) /\ Listed(thread) /\ Kept(thread, 0) /\ thread \in ThreadStates
    BY DEF Inv, Tabled, TabledBut
  <2>2. NoRepeats(pi_queue) /\ Elems(pi_queue) = {i \in DOMAIN channels : channels[i].packet_queue # <<>>}
    BY <2>1 DEF Queued, Full, thread
  <2>3. \A c \in Clients : /\ NoRepeats(associations[c])
                           /\ Elems(associations[c]) = {i \in DOMAIN channels : channels[i].association = c}
    BY <2>1 DEF Listed, Of, thread
  <2>4. \A i \in DOMAIN channels : channels[i].association = NoOne => channels[i].packet_queue # <<>>
    <3>1. DOMAIN channels \subseteq Ids /\ 0 \notin Ids
      BY <2>1, MapsOfChannels DEF ThreadStates, thread, Ids
    <3>2. QED
      BY <2>1, <3>1 DEF Kept, thread
  <2>5. QED
    BY <2>2, <2>3, <2>4 DEF TablesAgree, Elems
<1>2. QED
  BY AlwaysInv, <1>1, PTL

\* The sockets of a314.device hold every request that the driver has not replied to, each in
\* one place, and no other: ReplyMsg is called once for every request (a314driver.c).
THEOREM EachRequestIsHeld == Spec => []RequestsHeld
<1>1. Inv => RequestsHeld
  <2> SUFFICES ASSUME Inv, NEW r \in Requests
               PROVE  Cardinality(Holders(r)) = IF io[r] = "held" THEN 1 ELSE 0
    BY DEF RequestsHeld
  <2> DEFINE fields == {"pending_connect", "pending_read", "pending_write"}
  <2>1. /\ socket \in SocketMaps /\ OneEach(socket) /\ Held(driver) = PendAll(socket)
        /\ r # NoOne
    BY RequestKinds DEF Inv, Sound, Typed, DriverStates, driver
  <2>2. io[r] = "held" <=> r \in PendAll(socket)
    BY <2>1 DEF Held, driver
  <2>3. \A i \in DOMAIN socket : socket[i] \in Sockets /\ socket[i] \in SocketType
    BY <2>1, MapsOfSockets, SocketFields
  <2>4. \A i \in DOMAIN socket : /\ socket[i]["pending_connect"] = socket[i].pending_connect
                                 /\ socket[i]["pending_read"] = socket[i].pending_read
                                 /\ socket[i]["pending_write"] = socket[i].pending_write
    BY <2>3 DEF SocketType
  <2>5. CASE io[r] # "held"
    <3>1. Holders(r) = {}
      <4>1. ASSUME NEW h \in Holders(r) PROVE FALSE
        <5>1. PICK i \in DOMAIN socket, f \in fields : socket[i][f] = r
          BY <4>1 DEF Holders
        <5>2. r \in PendS(socket[i])
          BY <2>1, <2>4, <5>1 DEF PendS
        <5>3. QED
          BY <2>2, <2>5, <5>2 DEF PendAll
      <4>2. QED
        BY <4>1
    <3>2. QED
      BY <2>5, <3>1, FS_EmptySet
  <2>6. CASE io[r] = "held"
    <3>1. PICK i \in DOMAIN socket : r \in PendS(socket[i])
      BY <2>2, <2>6 DEF PendAll
    <3>2. PICK f \in fields : socket[i][f] = r
      BY <2>4, <3>1 DEF PendS
    <3>3. ASSUME NEW j \in DOMAIN socket, NEW g \in fields, socket[j][g] = r
          PROVE  j = i /\ g = f
      <4>1. r \in PendS(socket[j])
        BY <2>1, <2>4, <3>3 DEF PendS
      <4>2. r.key = socket[i].key /\ r.key = socket[j].key
        BY <2>3, <3>1, <4>1, SocketFields
      <4>3. j = i
        BY <2>1, <4>2 DEF OneEach
      <4>4. /\ socket[i].pending_connect \in Sessions \union {NoOne}
            /\ socket[i].pending_read \in Reads \union {NoOne}
            /\ socket[i].pending_write \in Writes \union {NoOne}
        BY <2>3, SocketFields
      <4>5. g = f
        BY <2>1, <2>4, <3>2, <3>3, <4>3, <4>4, RequestKinds
      <4>6. QED
        BY <4>3, <4>5
    <3>4. Holders(r) = {<<i, f>>}
      BY <3>2, <3>3 DEF Holders
    <3>5. QED
      BY <2>6, <3>4, FS_Singleton
  <2>7. QED
    BY <2>5, <2>6
<1>2. QED
  BY AlwaysInv, <1>1, PTL

\* The types of the state of the device, the thread, the rings and the clients: among them, no
\* ring takes more packets than it has room for (append_a2r_packet, flush_send_queue), and
\* what the thread takes of a round is there (receive_from_a2r).
THEOREM ChannelsTypes == Spec => []TypeOK
<1>1. Inv => TypeOK
  <2> SUFFICES ASSUME Inv PROVE TypeOK
    OBVIOUS
  <2>1. AmigaPackets \subseteq Packets /\ PiPackets \subseteq Packets
    BY DEF AmigaPackets, PiPackets, Packets
  <2>2. ToClient \subseteq Messages /\ FromClient \subseteq Messages
    BY DEF ToClient, FromClient, Messages
  <2>3. DOMAIN socket \subseteq Ids /\ \A i \in DOMAIN socket : socket[i] \in Socket
    <3>1. socket \in SocketMaps
      BY DEF Inv, Sound, Typed, DriverStates, driver
    <3>2. SocketType \subseteq Socket
      BY RequestKinds DEF SocketType, Socket, Flags
    <3>3. QED
      BY <3>1, <3>2, MapsOfSockets, SocketFields
  <2>4. /\ send_queue \in Seq(Ids) /\ next_stream_id \in Ids
        /\ io \in [Requests -> {"idle", "held", "OK", "EOS", "RESET", "IN_USE", "UNKNOWN", "lost"}]
        /\ read \in [Sessions -> Seq(Items)] /\ eosRead \subseteq Sessions
        /\ written \in [Sessions -> Nat] /\ eosWritten \subseteq Sessions
        /\ a2r \in Seq(AmigaPackets) /\ Len(a2r) <= A2RCap
    BY DEF Inv, Sound, Typed, DriverStates, driver, Replies
  <2>5. a2r \in Seq(Packets)
    BY <2>1, <2>4
  <2>6. r2a \in Seq(Packets) /\ Len(r2a) + Len(send_buf) <= R2ACap /\ send_buf \in Seq(Packets)
        /\ room \in 0..R2ACap
    <3>1. /\ r2a \in Seq(PiPackets) /\ send_buf \in Seq(PiPackets) /\ room \in Nat
          /\ room + Len(send_buf) + Len(r2a) <= R2ACap /\ R2ACap \in Nat
      BY CapAssumption DEF Inv, PathInv, CapAssumption
    <3>2. Len(r2a) \in Nat /\ Len(send_buf) \in Nat
      BY <3>1
    <3>3. r2a \in Seq(Packets) /\ send_buf \in Seq(Packets)
      BY <2>1, <3>1
    <3>4. QED
      BY <3>1, <3>2, <3>3
  <2>7. Tabled(thread)
    BY DEF Inv
  <2>8. DOMAIN channels \subseteq Ids /\ \A i \in DOMAIN channels : channels[i] \in LogicalChannel
    <3>1. channels \in ChannelMaps
      BY <2>7, ThreadFields
    <3>2. Channel \subseteq LogicalChannel
      BY <2>1 DEF Channel, LogicalChannel
    <3>3. QED
      BY <3>1, <3>2, MapsOfChannels
  <2>9. pi_queue \in Seq(Ids) /\ \A s \in DOMAIN services : services[s] \in Clients
    BY <2>7, ThreadFields DEF ServiceMaps
  <2>10. /\ associations \in [Clients -> Seq(Ids)] /\ cc_next_stream_id \in [Clients -> Nat]
         /\ conn \in [Clients -> {"none", "up", "closed", "failed", "broken", "SIGPIPE"}]
         /\ toCli \in [Clients -> Seq(Messages)] /\ fromCli \in [Clients -> Seq(Messages)]
    BY <2>2, <2>7, ThreadFields DEF Conns
  <2>11. /\ pc \in {"epoll", "receive", "messages", "flush", "dead"} /\ cc \in Clients \union {NoOne}
         /\ received \in 0..arrived /\ arrived \in 0..Len(a2r) /\ started \in BOOLEAN
    <3>1. Len(a2r) \in Nat
      BY <2>4
    <3>2. QED
      BY <3>1 DEF Inv, LoopInv
  <2>12. /\ stream \in [Sessions -> [client : Clients \union {NoOne}, sid : Nat, sent : Nat,
                                     st : {"none", "open", "eos", "done"}, got : Seq(Items),
                                     ended : BOOLEAN, eos : BOOLEAN]]
         /\ closes \in 0..MaxCloses /\ reboots \in 0..MaxReboots
    BY DEF Inv, EndsInv, StreamTypes
  <2>13. QED
    BY <2>3, <2>4, <2>5, <2>6, <2>8, <2>9, <2>10, <2>11, <2>12 DEF TypeOK
<1>2. QED
  BY AlwaysInv, <1>1, PTL
=====================
