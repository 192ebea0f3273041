-------------------------- MODULE FilteringLemmas --------------------------
(***************************************************************************)
(* What the filter Only preserves, by induction on how much of the queue   *)
(* it has seen.  The induction is by least counterexample (WFMin), which   *)
(* needs a set of numbers and no operator argument.                        *)
(***************************************************************************)
EXTENDS Filtering, SequenceTheorems, WellFoundedInduction, TLAPS

(* A set of naturals that has a member has a least one.                    *)
LEMMA LeastNumber ==
  ASSUME NEW C \in SUBSET Nat, C # {}
  PROVE  \E m \in C : \A x \in C : m <= x
<1> DEFINE R == {ss \in Nat \X Nat : ss[1] < ss[2]}
<1>1. IsWellFoundedOn(R, Nat)
  BY NatLessThanWellFounded, Zenon DEF OpToRel
<1>2. \E x \in C : \A y \in C : ~ (<<y, x>> \in R)
  <2> HIDE DEF R
  <2> QED BY <1>1, WFMin, Zenon
<1>3. PICK m \in C : \A y \in C : ~ (<<y, m>> \in R)
  BY <1>2
<1>4. ASSUME NEW x \in C PROVE m <= x
  <2>1. m \in Nat /\ x \in Nat /\ ~ (<<x, m>> \in R)
    BY <1>3
  <2> QED BY <2>1
<1> QED BY <1>4

(* A set of naturals with 0 and the successor of each member has them all. *)
LEMMA NatSetInduction ==
  ASSUME NEW T \in SUBSET Nat, 0 \in T, \A n \in T : n + 1 \in T
  PROVE  T = Nat
<1> DEFINE C == Nat \ T
<1>1. SUFFICES ASSUME C # {} PROVE FALSE
  OBVIOUS
<1>2. PICK m \in C : \A x \in C : m <= x
  <2>1. C \subseteq Nat /\ C # {}
    BY <1>1
  <2> HIDE DEF C
  <2> QED BY <2>1, LeastNumber
<1>3. m \in Nat /\ m # 0 /\ m - 1 \in Nat /\ ~ (m <= m - 1)
  OBVIOUS
<1>4. m - 1 \in T
  BY <1>2, <1>3
<1> QED BY <1>3, <1>4

(* The recursive definition of Kept has a solution on every prefix.        *)
IsKept(g, q, K, n) ==
  g = [i \in 0..n |-> IF i = 0 THEN << >>
                      ELSE IF q[i] \in K THEN Append(g[i - 1], q[i])
                      ELSE g[i - 1]]

LEMMA KeptExists ==
  ASSUME NEW q, NEW K, NEW n \in Nat
  PROVE  \E g : IsKept(g, q, K, n)
<1> DEFINE T == {k \in Nat : \E g : IsKept(g, q, K, k)}
<1>1. 0 \in T
  <2> DEFINE g == [i \in 0..0 |-> << >>]
  <2>1. IsKept(g, q, K, 0)
    BY DEF IsKept
  <2> QED BY <2>1
<1>2. ASSUME NEW k \in T PROVE k + 1 \in T
  <2>1. PICK g : IsKept(g, q, K, k)
    OBVIOUS
  <2> DEFINE last == IF q[k + 1] \in K THEN Append(g[k], q[k + 1]) ELSE g[k]
             h == [i \in 0..(k + 1) |-> IF i = k + 1 THEN last ELSE g[i]]
  <2>2. IsKept(h, q, K, k + 1)
    <3>1. SUFFICES ASSUME NEW i \in 0..(k + 1)
                   PROVE  h[i] = IF i = 0 THEN << >>
                                 ELSE IF q[i] \in K THEN Append(h[i - 1], q[i])
                                 ELSE h[i - 1]
      BY Zenon DEF IsKept
    <3>2. CASE i = k + 1
      BY <3>2
    <3>3. CASE i # k + 1
      <4>1. i \in 0..k /\ h[i] = g[i] /\ (i # 0 => h[i - 1] = g[i - 1])
        BY <3>3
      <4>2. g[i] = IF i = 0 THEN << >>
                   ELSE IF q[i] \in K THEN Append(g[i - 1], q[i])
                   ELSE g[i - 1]
        BY <2>1, <4>1, Zenon DEF IsKept
      <4> HIDE DEF h
      <4> QED BY <4>1, <4>2
    <3> QED BY <3>2, <3>3
  <2> QED BY <2>2
<1>3. T = Nat
  <2> HIDE DEF T
  <2>1. T \in SUBSET Nat
    BY DEF T
  <2> QED BY <1>1, <1>2, <2>1, NatSetInduction
<1> QED BY <1>3

LEMMA KeptUnfold ==
  ASSUME NEW S, NEW q \in Seq(S), NEW K
  PROVE  IsKept(Kept(q, K), q, K, Len(q))
<1> DEFINE kept[i \in 0..Len(q)] ==
             IF i = 0           THEN << >>
             ELSE IF q[i] \in K THEN Append(kept[i - 1], q[i])
                                ELSE kept[i - 1]
<1>1. \E g : IsKept(g, q, K, Len(q))
  <2>1. Len(q) \in Nat
    OBVIOUS
  <2> QED BY <2>1, KeptExists, Zenon
<1>2. IsKept(kept, q, K, Len(q))
  BY <1>1, Zenon DEF IsKept
<1> HIDE DEF kept
<1>3. Kept(q, K) = kept
  BY DEF Kept, kept
<1> QED BY <1>2, <1>3, Zenon

LEMMA KeptSteps ==
  ASSUME NEW S, NEW q \in Seq(S), NEW K
  PROVE  /\ Kept(q, K)[0] = << >>
         /\ \A i \in 0..(Len(q) - 1) :
              Kept(q, K)[i + 1] = IF q[i + 1] \in K THEN Append(Kept(q, K)[i], q[i + 1])
                                  ELSE Kept(q, K)[i]
<1>1. PICK k : k = Kept(q, K)
  OBVIOUS
<1>2. IsKept(k, q, K, Len(q))
  BY <1>1, KeptUnfold, Zenon
<1>3. /\ k[0] = << >>
      /\ \A i \in 0..(Len(q) - 1) :
           k[i + 1] = IF q[i + 1] \in K THEN Append(k[i], q[i + 1]) ELSE k[i]
  <2>1. Len(q) \in Nat
    OBVIOUS
  <2>2. \A i \in 0..Len(q) : k[i] = IF i = 0 THEN << >>
                                   ELSE IF q[i] \in K THEN Append(k[i - 1], q[i])
                                   ELSE k[i - 1]
    BY <1>2, Zenon DEF IsKept
  <2>3. k[0] = << >>
    BY <2>1, <2>2
  <2>4. ASSUME NEW i \in 0..(Len(q) - 1)
        PROVE  k[i + 1] = IF q[i + 1] \in K THEN Append(k[i], q[i + 1]) ELSE k[i]
    <3>1. i + 1 \in 0..Len(q) /\ i + 1 # 0 /\ (i + 1) - 1 = i
      BY <2>1
    <3> QED BY <2>2, <3>1
  <2> QED BY <2>3, <2>4
<1> QED BY <1>1, <1>3, Zenon

LEMMA FunctionIsSeq ==
  ASSUME NEW S, NEW n \in Nat, NEW f, f = [i \in 1..n |-> f[i]], \A i \in 1..n : f[i] \in S
  PROVE  f \in Seq(S) /\ Len(f) = n /\ DOMAIN f = 1..n
<1>1. f \in [1..n -> S]
  BY Zenon
<1> QED BY <1>1

LEMMA AppendRange ==
  ASSUME NEW S, NEW s \in Seq(S), NEW e \in S
  PROVE  Range(Append(s, e)) = Range(s) \cup {e}
<1>1. /\ Len(Append(s, e)) = Len(s) + 1
      /\ DOMAIN Append(s, e) = 1..(Len(s) + 1) /\ DOMAIN s = 1..Len(s)
      /\ \A i \in 1..Len(s) : Append(s, e)[i] = s[i]
      /\ Append(s, e)[Len(s) + 1] = e
  OBVIOUS
<1>2. Len(s) \in Nat
  OBVIOUS
<1> QED BY <1>1, <1>2 DEF Range

(***************************************************************************)
(* FilterProperties: the filter of a queue is a queue of the kept entries  *)
(* of the queue and of nothing else.                                       *)
(***************************************************************************)
THEOREM FilterProperties ==
  ASSUME NEW S, NEW q \in Seq(S), NEW K
  PROVE  /\ Only(q, K) \in Seq(S)
         /\ Range(Only(q, K)) = Range(q) \cap K
<1> DEFINE seen(n) == {q[j] : j \in 1..n}
<1>1. PICK k : k = Kept(q, K)
  OBVIOUS
<1>2. /\ k[0] = << >>
      /\ \A i \in 0..(Len(q) - 1) :
           k[i + 1] = IF q[i + 1] \in K THEN Append(k[i], q[i + 1]) ELSE k[i]
  BY <1>1, KeptSteps
<1> DEFINE P(n) == k[n] \in Seq(S) /\ Range(k[n]) = seen(n) \cap K
           T == {n \in Nat : n <= Len(q) => P(n)}
<1>3. P(0)
  <2>1. seen(0) = {} /\ Range(<< >>) = {}
    BY DEF Range
  <2> QED BY <1>2, <2>1
<1>4. ASSUME NEW n \in Nat, n + 1 <= Len(q), P(n) PROVE P(n + 1)
  <2>1. /\ n \in 0..(Len(q) - 1) /\ q[n + 1] \in S
        /\ seen(n + 1) = seen(n) \cup {q[n + 1]}
    BY <1>4
  <2> HIDE DEF seen
  <2>2. CASE q[n + 1] \in K
    <3>1. k[n + 1] = Append(k[n], q[n + 1])
      BY <1>2, <2>1, <2>2
    <3>2. k[n + 1] \in Seq(S)
      BY <1>4, <2>1, <3>1
    <3>3. Range(k[n + 1]) = Range(k[n]) \cup {q[n + 1]}
      BY <1>4, <2>1, <3>1, AppendRange
    <3> QED BY <1>4, <2>1, <2>2, <3>2, <3>3
  <2>3. CASE q[n + 1] \notin K
    <3>1. k[n + 1] = k[n]
      BY <1>2, <2>1, <2>3
    <3> QED BY <1>4, <2>1, <2>3, <3>1
  <2> QED BY <2>2, <2>3
<1>5. T = Nat
  <2> HIDE DEF P
  <2>1. T \in SUBSET Nat /\ 0 \in T
    BY <1>3
  <2>2. \A n \in T : n + 1 \in T
    BY <1>4
  <2> HIDE DEF T
  <2> QED BY <2>1, <2>2, NatSetInduction
<1>6. P(Len(q))
  <2> HIDE DEF P
  <2> QED BY <1>5
<1>7. seen(Len(q)) = Range(q)
  BY DEF Range
<1>8. Only(q, K) = k[Len(q)]
  BY <1>1 DEF Only
<1> HIDE DEF seen
<1> QED BY <1>6, <1>7, <1>8

(***************************************************************************)
(* IsInjective(q): the queue has no entry twice.                           *)
(***************************************************************************)
LEMMA AppendDistinct ==
  ASSUME NEW S, NEW s \in Seq(S), NEW e \in S, IsInjective(s), e \notin Range(s)
  PROVE  IsInjective(Append(s, e))
<1>1. /\ DOMAIN Append(s, e) = 1..(Len(s) + 1) /\ DOMAIN s = 1..Len(s)
      /\ \A i \in 1..Len(s) : Append(s, e)[i] = s[i]
      /\ Append(s, e)[Len(s) + 1] = e
      /\ Len(s) \in Nat
  OBVIOUS
<1>2. \A i \in 1..Len(s) : s[i] # e
  BY <1>1 DEF Range
<1> QED BY <1>1, <1>2 DEF IsInjective

LEMMA ConcatDistinct ==
  ASSUME NEW S, NEW s \in Seq(S), NEW t \in Seq(S), IsInjective(s), IsInjective(t),
         Range(s) \cap Range(t) = {}
  PROVE  IsInjective(s \o t)
<1>1. /\ DOMAIN (s \o t) = 1..(Len(s) + Len(t))
      /\ DOMAIN s = 1..Len(s) /\ DOMAIN t = 1..Len(t)
      /\ Len(s) \in Nat /\ Len(t) \in Nat
      /\ \A i \in 1..(Len(s) + Len(t)) :
           (s \o t)[i] = IF i <= Len(s) THEN s[i] ELSE t[i - Len(s)]
  BY ConcatProperties
<1>2. \A i \in 1..Len(s), j \in 1..Len(t) : s[i] # t[j]
  BY <1>1 DEF Range
<1>3. SUFFICES ASSUME NEW i \in 1..(Len(s) + Len(t)), NEW j \in 1..(Len(s) + Len(t)),
                      (s \o t)[i] = (s \o t)[j]
               PROVE  i = j
  BY <1>1 DEF IsInjective
<1> DEFINE a == i - Len(s)
           b == j - Len(s)
<1>4. /\ i > Len(s) => a \in 1..Len(t) /\ (s \o t)[i] = t[a]
      /\ j > Len(s) => b \in 1..Len(t) /\ (s \o t)[j] = t[b]
      /\ i <= Len(s) => i \in 1..Len(s) /\ (s \o t)[i] = s[i]
      /\ j <= Len(s) => j \in 1..Len(s) /\ (s \o t)[j] = s[j]
  BY <1>1
<1>5. CASE i <= Len(s) /\ j <= Len(s)
  BY <1>1, <1>3, <1>4, <1>5 DEF IsInjective
<1>6. CASE i > Len(s) /\ j > Len(s)
  <2>1. a = b
    <3> HIDE DEF a, b
    <3> QED BY <1>1, <1>3, <1>4, <1>6 DEF IsInjective
  <2> QED BY <2>1, <1>1
<1>7. CASE i <= Len(s) /\ j > Len(s)
  BY <1>2, <1>3, <1>4, <1>7
<1>8. CASE i > Len(s) /\ j <= Len(s)
  BY <1>2, <1>3, <1>4, <1>8
<1> QED BY <1>1, <1>5, <1>6, <1>7, <1>8

(***************************************************************************)
(* FilterDistinct: filtering a queue without repetitions makes none.       *)
(***************************************************************************)
THEOREM FilterDistinct ==
  ASSUME NEW S, NEW q \in Seq(S), NEW K, IsInjective(q)
  PROVE  IsInjective(Only(q, K))
<1> DEFINE seen(n) == {q[j] : j \in 1..n}
<1>1. PICK k : k = Kept(q, K)
  OBVIOUS
<1>2. /\ k[0] = << >>
      /\ \A i \in 0..(Len(q) - 1) :
           k[i + 1] = IF q[i + 1] \in K THEN Append(k[i], q[i + 1]) ELSE k[i]
  BY <1>1, KeptSteps
<1> DEFINE P(n) == k[n] \in Seq(S) /\ Range(k[n]) \subseteq seen(n) /\ IsInjective(k[n])
           T == {n \in Nat : n <= Len(q) => P(n)}
<1>3. P(0)
  BY <1>2 DEF Range, IsInjective
<1>4. ASSUME NEW n \in Nat, n + 1 <= Len(q), P(n) PROVE P(n + 1)
  <2>1. /\ n \in 0..(Len(q) - 1) /\ q[n + 1] \in S
        /\ seen(n + 1) = seen(n) \cup {q[n + 1]}
        /\ q[n + 1] \notin seen(n)
    BY <1>4 DEF IsInjective
  <2> HIDE DEF seen
  <2>2. CASE q[n + 1] \in K
    <3>1. k[n + 1] = Append(k[n], q[n + 1])
      BY <1>2, <2>1, <2>2
    <3>2. k[n + 1] \in Seq(S)
      BY <1>4, <2>1, <3>1
    <3>3. Range(k[n + 1]) = Range(k[n]) \cup {q[n + 1]}
      BY <1>4, <2>1, <3>1, AppendRange
    <3>4. IsInjective(k[n + 1])
      BY <1>4, <2>1, <3>1, AppendDistinct
    <3> QED BY <1>4, <2>1, <3>2, <3>3, <3>4
  <2>3. CASE q[n + 1] \notin K
    <3>1. k[n + 1] = k[n]
      BY <1>2, <2>1, <2>3
    <3> QED BY <1>4, <2>1, <3>1
  <2> QED BY <2>2, <2>3
<1>5. T = Nat
  <2> HIDE DEF P
  <2>1. T \in SUBSET Nat /\ 0 \in T
    BY <1>3
  <2>2. \A n \in T : n + 1 \in T
    BY <1>4
  <2> HIDE DEF T
  <2> QED BY <2>1, <2>2, NatSetInduction
<1>6. P(Len(q))
  <2> HIDE DEF P
  <2> QED BY <1>5
<1> QED BY <1>1, <1>6, Zenon DEF Only

(***************************************************************************)
(* The filter sees one entry at a time: what it keeps of a queue does not  *)
(* depend on what comes behind it, nor on the part of K outside the queue. *)
(***************************************************************************)
LEMMA KeptOfPrefix ==
  ASSUME NEW S, NEW s \in Seq(S), NEW t \in Seq(S), NEW K, NEW L, Len(s) <= Len(t),
         \A i \in 1..Len(s) : s[i] = t[i] /\ (s[i] \in K <=> t[i] \in L)
  PROVE  Only(s, K) = Kept(t, L)[Len(s)]
<1>1. PICK k, l : k = Kept(s, K) /\ l = Kept(t, L)
  OBVIOUS
<1>2. /\ k[0] = << >> /\ l[0] = << >>
      /\ \A i \in 0..(Len(s) - 1) :
           k[i + 1] = IF s[i + 1] \in K THEN Append(k[i], s[i + 1]) ELSE k[i]
      /\ \A i \in 0..(Len(t) - 1) :
           l[i + 1] = IF t[i + 1] \in L THEN Append(l[i], t[i + 1]) ELSE l[i]
  BY <1>1, KeptSteps
<1> DEFINE T == {n \in Nat : n <= Len(s) => k[n] = l[n]}
<1>3. 0 \in T /\ T \in SUBSET Nat
  BY <1>2
<1>4. \A n \in T : n + 1 \in T
  <2>1. SUFFICES ASSUME NEW n \in Nat, n + 1 <= Len(s), k[n] = l[n] PROVE k[n + 1] = l[n + 1]
    OBVIOUS
  <2>2. n \in 0..(Len(s) - 1) /\ n \in 0..(Len(t) - 1) /\ n + 1 \in 1..Len(s)
    BY <2>1
  <2> QED BY <1>2, <2>1, <2>2
<1>5. T = Nat
  <2> HIDE DEF T
  <2> QED BY <1>3, <1>4, NatSetInduction
<1>6. k[Len(s)] = l[Len(s)]
  BY <1>5
<1> QED BY <1>1, <1>6, Zenon DEF Only

(* The members of K among the first n numbers, in their order.             *)
Numbers(n) == [i \in 1..n |-> i]

LEMMA NumbersFacts ==
  ASSUME NEW n \in Nat
  PROVE  /\ Numbers(n) \in Seq(Nat) /\ Len(Numbers(n)) = n
         /\ \A i \in 1..n : Numbers(n)[i] = i
BY DEF Numbers

LEMMA NextNumber ==
  ASSUME NEW n \in Nat, NEW K
  PROVE  Only(Numbers(n + 1), K) = IF n + 1 \in K THEN Append(Only(Numbers(n), K), n + 1)
                                   ELSE Only(Numbers(n), K)
<1>1. PICK s, t : s = Numbers(n) /\ t = Numbers(n + 1)
  OBVIOUS
<1>2. /\ s \in Seq(Nat) /\ Len(s) = n /\ \A i \in 1..n : s[i] = i
      /\ t \in Seq(Nat) /\ Len(t) = n + 1 /\ \A i \in 1..n + 1 : t[i] = i
  BY <1>1, NumbersFacts
<1>3. Only(s, K) = Kept(t, K)[Len(s)]
  BY <1>2, KeptOfPrefix
<1>4. Kept(t, K)[n + 1] = IF t[n + 1] \in K THEN Append(Kept(t, K)[n], t[n + 1])
                          ELSE Kept(t, K)[n]
  BY <1>2, KeptSteps
<1> QED BY <1>1, <1>2, <1>3, <1>4 DEF Only

LEMMA NumbersSkipped ==
  ASSUME NEW i \in Nat, NEW j \in Nat, NEW K, i <= j, \A x \in (i + 1)..j : x \notin K
  PROVE  Only(Numbers(j), K) = Only(Numbers(i), K)
<1> DEFINE T == {d \in Nat : i + d <= j => Only(Numbers(i + d), K) = Only(Numbers(i), K)}
<1>1. 0 \in T /\ T \in SUBSET Nat
  OBVIOUS
<1>2. \A d \in T : d + 1 \in T
  <2>1. SUFFICES ASSUME NEW d \in Nat, i + d + 1 <= j, Only(Numbers(i + d), K) = Only(Numbers(i), K)
                 PROVE  Only(Numbers(i + (d + 1)), K) = Only(Numbers(i), K)
    OBVIOUS
  <2>2. i + d \in Nat /\ i + (d + 1) = (i + d) + 1 /\ (i + d) + 1 \notin K
    BY <2>1
  <2> QED BY <2>1, <2>2, NextNumber
<1>3. T = Nat
  <2> HIDE DEF T
  <2> QED BY <1>1, <1>2, NatSetInduction
<1>4. j - i \in Nat /\ i + (j - i) = j
  OBVIOUS
<1>5. j - i \in T
  BY <1>3, <1>4
<1> QED BY <1>4, <1>5

(* Of a filter of numbers, only the part of K among them matters.          *)
LEMMA NumbersAgree ==
  ASSUME NEW n \in Nat, NEW K, NEW L, \A i \in 1..n : i \in K <=> i \in L
  PROVE  Only(Numbers(n), K) = Only(Numbers(n), L)
<1>1. PICK s : s = Numbers(n)
  OBVIOUS
<1>2. s \in Seq(Nat) /\ Len(s) = n /\ \A i \in 1..n : s[i] = i
  BY <1>1, NumbersFacts
<1>3. Only(s, K) = Kept(s, L)[Len(s)]
  BY <1>2, KeptOfPrefix
<1> QED BY <1>1, <1>3 DEF Only

(***************************************************************************)
(* The filter and the two ends of a mailbox: a message put at the end, one *)
(* taken from the head; and a mailbox of which it keeps everything.        *)
(***************************************************************************)
LEMMA FilterOfAppend ==
  ASSUME NEW S, NEW q \in Seq(S), NEW e \in S, NEW K
  PROVE  Only(Append(q, e), K) = IF e \in K THEN Append(Only(q, K), e) ELSE Only(q, K)
<1>1. PICK r : r = Append(q, e)
  OBVIOUS
<1>2. /\ r \in Seq(S) /\ Len(r) = Len(q) + 1 /\ r[Len(q) + 1] = e /\ Len(q) \in Nat
      /\ \A i \in 1..Len(q) : r[i] = q[i]
  BY <1>1
<1>3. Only(q, K) = Kept(r, K)[Len(q)]
  BY <1>2, KeptOfPrefix
<1>4. Kept(r, K)[Len(q) + 1] = IF r[Len(q) + 1] \in K
                               THEN Append(Kept(r, K)[Len(q)], r[Len(q) + 1])
                               ELSE Kept(r, K)[Len(q)]
  BY <1>2, KeptSteps
<1> QED BY <1>1, <1>2, <1>3, <1>4 DEF Only

LEMMA FilterOfTail ==
  ASSUME NEW S, NEW q \in Seq(S), NEW K, q # << >>
  PROVE  /\ Head(q) \in K => Only(q, K) = << Head(q) >> \o Only(Tail(q), K)
         /\ Head(q) \notin K => Only(q, K) = Only(Tail(q), K)
<1>1. PICK r, k, l : r = Tail(q) /\ k = Kept(q, K) /\ l = Kept(r, K)
  OBVIOUS
<1>2. /\ r \in Seq(S) /\ Len(q) = Len(r) + 1 /\ Len(r) \in Nat
      /\ \A i \in 1..Len(r) : r[i] = q[i + 1]
      /\ Head(q) = q[1]
  BY <1>1
<1>3. /\ k[0] = << >> /\ l[0] = << >>
      /\ \A i \in 0..(Len(q) - 1) :
           k[i + 1] = IF q[i + 1] \in K THEN Append(k[i], q[i + 1]) ELSE k[i]
      /\ \A i \in 0..(Len(r) - 1) :
           l[i + 1] = IF r[i + 1] \in K THEN Append(l[i], r[i + 1]) ELSE l[i]
  <2>1. /\ k[0] = << >>
        /\ \A i \in 0..(Len(q) - 1) :
             k[i + 1] = IF q[i + 1] \in K THEN Append(k[i], q[i + 1]) ELSE k[i]
    BY <1>1, KeptSteps
  <2>2. /\ l[0] = << >>
        /\ \A i \in 0..(Len(r) - 1) :
             l[i + 1] = IF r[i + 1] \in K THEN Append(l[i], r[i + 1]) ELSE l[i]
    <3>1. r \in Seq(S) /\ l = Kept(r, K)
      BY <1>1, <1>2
    <3> QED BY <3>1, KeptSteps
  <2> QED BY <2>1, <2>2
<1>4. PICK c : c = IF q[1] \in K THEN << q[1] >> ELSE << >>
  OBVIOUS
<1>5. c \in Seq(S) /\ c \o << >> = c
  <2>1. q[1] \in S
    BY <1>2
  <2>2. << q[1] >> \in Seq(S) /\ << >> \in Seq(S)
    BY <2>1
  <2>3. c \in Seq(S)
    BY <1>4, <2>2
  <2> QED BY <2>3
<1> DEFINE P(n) == l[n] \in Seq(S) /\ k[n + 1] = c \o l[n]
           T == {n \in Nat : n <= Len(r) => P(n)}
<1>6. P(0)
  <2>1. k[1] = IF q[1] \in K THEN Append(<< >>, q[1]) ELSE << >>
    <3>1. 0 \in 0..(Len(q) - 1) /\ 0 + 1 = 1
      BY <1>2
    <3> QED BY <1>3, <3>1
  <2>2. PICK e : e = q[1]
    OBVIOUS
  <2>3. Append(<< >>, e) = << e >>
    OBVIOUS
  <2>4. k[1] = c
    BY <1>4, <2>1, <2>2, <2>3
  <2>5. << >> \in Seq(S)
    OBVIOUS
  <2> QED BY <1>3, <1>5, <2>4, <2>5
<1>7. ASSUME NEW n \in Nat, n + 1 <= Len(r), P(n) PROVE P(n + 1)
  <2>1. PICK m, e, b : m = n + 1 /\ e = r[n + 1] /\ b = l[n]
    OBVIOUS
  <2>2. /\ m \in 0..(Len(q) - 1) /\ n \in 0..(Len(r) - 1)
        /\ e = q[m + 1] /\ e \in S
    BY <1>2, <1>7, <2>1
  <2>3. b \in Seq(S) /\ k[m] = c \o b
    BY <1>7, <2>1
  <2>4. /\ k[m + 1] = IF e \in K THEN Append(c \o b, e) ELSE c \o b
        /\ l[m] = IF e \in K THEN Append(b, e) ELSE b
    BY <1>3, <2>1, <2>2, <2>3
  <2>5. Append(b, e) \in Seq(S)
    BY <2>2, <2>3
  <2>6. Append(c \o b, e) = c \o Append(b, e)
    <3>1. << e >> \in Seq(S) /\ c \o b \in Seq(S)
      BY <1>5, <2>2, <2>3
    <3>2. Append(c \o b, e) = (c \o b) \o << e >> /\ Append(b, e) = b \o << e >>
      BY <2>2, <2>3, <3>1, AppendIsConcat
    <3> QED BY <1>5, <2>3, <3>1, <3>2, ConcatAssociative
  <2> QED BY <2>1, <2>3, <2>4, <2>5, <2>6
<1>8. T = Nat
  <2> HIDE DEF P
  <2>1. T \in SUBSET Nat /\ 0 \in T
    BY <1>6
  <2>2. \A n \in T : n + 1 \in T
    BY <1>7
  <2> HIDE DEF T
  <2> QED BY <2>1, <2>2, NatSetInduction
<1>9. P(Len(r))
  <2> HIDE DEF P
  <2> QED BY <1>2, <1>8
<1>10. Only(q, K) = k[Len(r) + 1] /\ Only(r, K) = l[Len(r)]
  BY <1>1, <1>2 DEF Only
<1>11. << >> \o l[Len(r)] = l[Len(r)]
  BY <1>9
<1> QED BY <1>1, <1>2, <1>4, <1>9, <1>10, <1>11

LEMMA FilterKeepsAll ==
  ASSUME NEW S, NEW q \in Seq(S), NEW K, \A i \in 1..Len(q) : q[i] \in K
  PROVE  Only(q, K) = q
<1>1. PICK k : k = Kept(q, K)
  OBVIOUS
<1>2. /\ k[0] = << >>
      /\ \A i \in 0..(Len(q) - 1) : k[i + 1] = Append(k[i], q[i + 1])
  <2>1. Len(q) \in Nat
    OBVIOUS
  <2>2. \A i \in 0..(Len(q) - 1) : i + 1 \in 1..Len(q)
    BY <2>1
  <2> QED BY <1>1, <2>2, KeptSteps
<1> DEFINE P(n) == k[n] \in Seq(S) /\ Len(k[n]) = n /\ \A i \in 1..n : k[n][i] = q[i]
           T == {n \in Nat : n <= Len(q) => P(n)}
<1>3. P(0)
  BY <1>2
<1>4. ASSUME NEW n \in Nat, n + 1 <= Len(q), P(n) PROVE P(n + 1)
  <2>1. PICK a, e : a = k[n] /\ e = q[n + 1]
    OBVIOUS
  <2>2. a \in Seq(S) /\ Len(a) = n /\ e \in S /\ \A i \in 1..n : a[i] = q[i]
    BY <1>4, <2>1
  <2>3. k[n + 1] = Append(a, e)
    BY <1>2, <1>4, <2>1
  <2>4. PICK b : b = Append(a, e)
    OBVIOUS
  <2>5. b \in Seq(S) /\ Len(b) = n + 1 /\ b[n + 1] = e /\ \A i \in 1..n : b[i] = a[i]
    BY <2>2, <2>4
  <2>6. \A i \in 1..(n + 1) : b[i] = q[i]
    BY <2>1, <2>2, <2>5
  <2> QED BY <2>3, <2>4, <2>5, <2>6
<1>5. T = Nat
  <2> HIDE DEF P
  <2>1. T \in SUBSET Nat /\ 0 \in T
    BY <1>3
  <2>2. \A n \in T : n + 1 \in T
    BY <1>4
  <2> HIDE DEF T
  <2> QED BY <2>1, <2>2, NatSetInduction
<1>6. P(Len(q))
  <2> HIDE DEF P
  <2> QED BY <1>5
<1>7. PICK a : a = k[Len(q)]
  OBVIOUS
<1>8. a \in Seq(S) /\ Len(a) = Len(q) /\ \A i \in 1..Len(a) : a[i] = q[i]
  BY <1>6, <1>7
<1>9. a = q
  BY <1>8, SeqEqual
<1> QED BY <1>1, <1>7, <1>9 DEF Only
=============================================================================
