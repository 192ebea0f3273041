------------------------- MODULE NettyServerProofs -------------------------
(***************************************************************************)
(* Theorems about the four netty servers, for any set of clients and any   *)
(* number of units they send.                                              *)
(***************************************************************************)
EXTENDS NettyServer, FilteringLemmas

(* What a client has sent is what has been handled, then the frames of the *)
(* current read, then what is still in the socket.                         *)
IsSplit(sent, read, unread) ==
  /\ Len(read) + Len(unread) <= Len(sent)
  /\ \A k \in 1..Len(read) : read[k] = sent[Len(sent) - Len(unread) - Len(read) + k]
  /\ \A k \in 1..Len(unread) : unread[k] = sent[Len(sent) - Len(unread) + k]
HandledOf(sent, read, unread) == SubSeq(sent, 1, Len(sent) - Len(unread) - Len(read))

(* The listening channel is closed before the main thread goes on, and the *)
(* event loops are shut down by the main thread.                           *)
ShutdownInOrder == main = "ended" \/ loops # "running" => ~ listening

(* A handler is in the middle of a read only of a connection that has been *)
(* opened; it may be over.  Replies are kept back by telnet only, in the   *)
(* middle of a read, and not when the connection is over.                  *)
ReadsMatch(c) ==
  /\ IsSplit(asked[c], frames[c], inbound[c])
  /\ frames[c] # << >> => reading[c]
  /\ reading[c] => conn[c] \notin {"none", "accepted"}
  /\ outbound[c] # << >> => server = Telnet /\ conn[c] = "open" /\ reading[c]

(* What the client has got and what is kept back are together what it is   *)
(* due, as long as its connection is open.                                 *)
RepliesMatch(c) ==
  /\ conn[c] \in {"none", "accepted"} => received[c] = << >> /\ Handled(c) = << >>
  /\ conn[c] = "open" => received[c] \o outbound[c] = Due(c)
  /\ IsPrefix(received[c], Due(c))

CloseIsSaid(c) ==
  conn[c] = "closed" /\ listening =>
    \/ "bye" \in Range(received[c])
    \/ server = Echo /\ IsSuffix(END, received[c])
    \/ Range(Handled(c)) \cap {"shutdown", TooLong} # {}

ClientInv(c) == ReadsMatch(c) /\ RepliesMatch(c) /\ CloseIsSaid(c)

Inv == TypeOK /\ ShutdownInOrder /\ \A c \in Clients : ClientInv(c)

-----------------------------------------------------------------------------
(* Sequences.                                                              *)
LEMMA PrefixByIndex ==
  ASSUME NEW S, NEW s \in Seq(S), NEW t \in Seq(S)
  PROVE  IsPrefix(s, t) <=> Len(s) <= Len(t) /\ \A i \in 1..Len(s) : s[i] = t[i]
<1>1. ASSUME Len(s) <= Len(t)
      PROVE  /\ SubSeq(t, 1, Len(s)) \in Seq(S) /\ Len(SubSeq(t, 1, Len(s))) = Len(s)
             /\ \A i \in 1..Len(s) : SubSeq(t, 1, Len(s))[i] = t[i]
  BY <1>1
<1>2. SubSeq(s, 1, Len(s)) = s
  BY SubSeqFull
<1>3. ASSUME Len(s) <= Len(t), \A i \in 1..Len(s) : s[i] = t[i]
      PROVE  s = SubSeq(t, 1, Len(s))
  BY <1>1, <1>3, SeqEqual
<1> QED BY <1>1, <1>2, <1>3 DEF IsPrefix

LEMMA ConcatFacts ==
  ASSUME NEW S, NEW s \in Seq(S), NEW t \in Seq(S)
  PROVE  /\ s \o t \in Seq(S) /\ Len(s \o t) = Len(s) + Len(t)
         /\ \A i \in 1..Len(s) : (s \o t)[i] = s[i]
         /\ \A i \in 1..Len(t) : (s \o t)[Len(s) + i] = t[i]
OBVIOUS

LEMMA PrefixOfConcat ==
  ASSUME NEW S, NEW s \in Seq(S), NEW t \in Seq(S), NEW u \in Seq(S)
  PROVE  /\ s \o t \in Seq(S)
         /\ IsPrefix(s, s \o t)
         /\ IsPrefix(s, t) => IsPrefix(s, t \o u)
         /\ IsPrefix(t, u) => IsPrefix(s \o t, s \o u)
<1>1. PICK st, tu, su : st = s \o t /\ tu = t \o u /\ su = s \o u
  OBVIOUS
<1>2. /\ Len(s) \in Nat /\ Len(t) \in Nat /\ Len(u) \in Nat
      /\ st \in Seq(S) /\ tu \in Seq(S) /\ su \in Seq(S)
      /\ Len(st) = Len(s) + Len(t) /\ Len(tu) = Len(t) + Len(u)
      /\ Len(su) = Len(s) + Len(u)
  BY <1>1
<1>3. /\ \A i \in 1..Len(s) : st[i] = s[i]
      /\ \A i \in 1..Len(s) : su[i] = s[i]
      /\ \A i \in 1..Len(t) : tu[i] = t[i]
  BY <1>1
<1>4. /\ \A i \in 1..Len(t) : st[Len(s) + i] = t[i]
      /\ \A i \in 1..Len(u) : su[Len(s) + i] = u[i]
  BY <1>1
<1>5. IsPrefix(s, st)
  <2>1. Len(s) <= Len(st)
    BY <1>2
  <2> QED BY <2>1, <1>2, <1>3, PrefixByIndex
<1>6. IsPrefix(s, t) => IsPrefix(s, tu)
  <2> SUFFICES ASSUME IsPrefix(s, t) PROVE IsPrefix(s, tu)
    OBVIOUS
  <2>1. Len(s) <= Len(t) /\ \A i \in 1..Len(s) : s[i] = t[i]
    BY PrefixByIndex
  <2>2. \A i \in 1..Len(s) : i \in 1..Len(t)
    BY <2>1, <1>2
  <2>3. Len(s) <= Len(tu) /\ \A i \in 1..Len(s) : s[i] = tu[i]
    BY <2>1, <2>2, <1>2, <1>3
  <2> QED BY <2>3, <1>2, PrefixByIndex
<1>7. IsPrefix(t, u) => IsPrefix(st, su)
  <2> SUFFICES ASSUME IsPrefix(t, u) PROVE IsPrefix(st, su)
    OBVIOUS
  <2>1. Len(t) <= Len(u) /\ \A i \in 1..Len(t) : t[i] = u[i]
    BY PrefixByIndex
  <2>2. ASSUME NEW i \in 1..Len(st) PROVE st[i] = su[i]
    <3>1. CASE i <= Len(s)
      <4>1. i \in 1..Len(s)
        BY <3>1
      <4> QED BY <4>1, <1>3
    <3>2. CASE i > Len(s)
      <4>1. PICK k : k = i - Len(s)
        OBVIOUS
      <4>2. k \in 1..Len(t) /\ k \in 1..Len(u) /\ i = Len(s) + k
        BY <3>2, <4>1, <2>1, <1>2
      <4> QED BY <4>2, <2>1, <1>4
    <3> QED BY <3>1, <3>2, <1>2
  <2>3. Len(st) <= Len(su)
    BY <2>1, <1>2
  <2> QED BY <2>2, <2>3, <1>2, PrefixByIndex
<1> QED BY <1>1, <1>2, <1>5, <1>6, <1>7

LEMMA SuffixOfConcat ==
  ASSUME NEW S, NEW s \in Seq(S), NEW t \in Seq(S)
  PROVE  IsSuffix(t, s \o t)
<1>1. PICK r, q, u : r = Reverse(t) /\ q = Reverse(s \o t) /\ u = s \o t
  OBVIOUS
<1>2. /\ Len(s) \in Nat /\ Len(t) \in Nat /\ u \in Seq(S) /\ Len(u) = Len(s) + Len(t)
      /\ \A i \in 1..Len(t) : u[Len(s) + i] = t[i]
  BY <1>1
<1>3. /\ r = [i \in 1..Len(t) |-> t[(Len(t) - i) + 1]]
      /\ q = [i \in 1..Len(u) |-> u[(Len(u) - i) + 1]]
  BY <1>1 DEF Reverse
<1>4. /\ \A i \in 1..Len(t) : (Len(t) - i) + 1 \in 1..Len(t)
      /\ \A i \in 1..Len(u) : (Len(u) - i) + 1 \in 1..Len(u)
  BY <1>2
<1>5. r \in Seq(S) /\ Len(r) = Len(t)
  BY <1>2, <1>3, <1>4
<1>6. q \in Seq(S) /\ Len(q) = Len(u)
  BY <1>2, <1>3, <1>4
<1>7. ASSUME NEW i \in 1..Len(t) PROVE r[i] = q[i]
  <2>1. r[i] = t[(Len(t) - i) + 1] /\ q[i] = u[(Len(u) - i) + 1]
    BY <1>2, <1>3
  <2>2. (Len(u) - i) + 1 = Len(s) + ((Len(t) - i) + 1)
    BY <1>2
  <2> QED BY <2>1, <2>2, <1>2, <1>4
<1>8. IsPrefix(r, q)
  BY <1>2, <1>5, <1>6, <1>7, PrefixByIndex
<1> QED BY <1>1, <1>8 DEF IsSuffix

LEMMA RangeOfConcat ==
  ASSUME NEW S, NEW s \in Seq(S), NEW t \in Seq(S)
  PROVE  Range(s \o t) = Range(s) \cup Range(t)
<1>1. PICK u : u = s \o t
  OBVIOUS
<1>2. /\ Len(s) \in Nat /\ Len(t) \in Nat
      /\ DOMAIN s = 1..Len(s) /\ DOMAIN t = 1..Len(t) /\ DOMAIN u = 1..(Len(s) + Len(t))
      /\ \A i \in 1..Len(s) : u[i] = s[i]
      /\ \A i \in 1..Len(t) : u[Len(s) + i] = t[i]
  BY <1>1
<1>3. ASSUME NEW i \in 1..(Len(s) + Len(t)) PROVE u[i] \in Range(s) \cup Range(t)
  <2>1. CASE i <= Len(s)
    BY <2>1, <1>2 DEF Range
  <2>2. CASE i > Len(s)
    <3>1. i - Len(s) \in 1..Len(t) /\ i = Len(s) + (i - Len(s))
      BY <2>2, <1>2
    <3> QED BY <3>1, <1>2 DEF Range
  <2> QED BY <2>1, <2>2, <1>2
<1>4. Range(s) \subseteq Range(u)
  BY <1>2 DEF Range
<1>5. ASSUME NEW i \in 1..Len(t) PROVE t[i] \in Range(u)
  <2>1. Len(s) + i \in 1..(Len(s) + Len(t))
    BY <1>2
  <2> QED BY <2>1, <1>2 DEF Range
<1>6. Range(u) \subseteq Range(s) \cup Range(t)
  BY <1>2, <1>3 DEF Range
<1>7. Range(t) \subseteq Range(u)
  BY <1>2, <1>5 DEF Range
<1> QED BY <1>1, <1>4, <1>6, <1>7

(* How the stream of a client moves on.                                    *)
LEMMA FirstPart ==
  ASSUME NEW S, NEW a \in Seq(S), NEW n \in 0..Len(a)
  PROVE  /\ SubSeq(a, 1, n) \in Seq(S) /\ Len(SubSeq(a, 1, n)) = n
         /\ \A k \in 1..n : SubSeq(a, 1, n)[k] = a[k]
OBVIOUS

LEMMA SendSplit ==
  ASSUME NEW S, NEW a \in Seq(S), NEW f \in Seq(S), NEW i \in Seq(S), IsSplit(a, f, i), NEW u \in S
  PROVE  /\ IsSplit(Append(a, u), f, Append(i, u))
         /\ HandledOf(Append(a, u), f, Append(i, u)) = HandledOf(a, f, i)
<1>1. PICK b, j : b = Append(a, u) /\ j = Append(i, u)
  OBVIOUS
<1>2. /\ Len(a) \in Nat /\ Len(f) \in Nat /\ Len(i) \in Nat
      /\ b \in Seq(S) /\ j \in Seq(S) /\ Len(b) = Len(a) + 1 /\ Len(j) = Len(i) + 1
      /\ \A k \in 1..Len(a) : b[k] = a[k] 
      /\ \A k \in 1..Len(i) : j[k] = i[k]
      /\ b[Len(a) + 1] = u /\ j[Len(i) + 1] = u
  BY <1>1
<1>3. Len(f) + Len(i) <= Len(a)
  BY DEF IsSplit
<1>4. Len(f) + Len(j) <= Len(b) /\ Len(b) - Len(j) = Len(a) - Len(i)
  BY <1>2, <1>3
<1>5. ASSUME NEW k \in 1..Len(f) PROVE f[k] = b[Len(b) - Len(j) - Len(f) + k]
  <2>1. Len(a) - Len(i) - Len(f) + k \in 1..Len(a)
    BY <1>2, <1>3
  <2> QED BY <2>1, <1>2, <1>4 DEF IsSplit
<1>6. ASSUME NEW k \in 1..Len(j) PROVE j[k] = b[Len(b) - Len(j) + k]
  <2>1. CASE k <= Len(i)
    <3>1. Len(a) - Len(i) + k \in 1..Len(a) /\ k \in 1..Len(i)
      BY <2>1, <1>2, <1>3
    <3> QED BY <3>1, <1>2, <1>4 DEF IsSplit
  <2>2. CASE k = Len(i) + 1
    BY <2>2, <1>2, <1>3
  <2> QED BY <2>1, <2>2, <1>2
<1>7. IsSplit(b, f, j)
  BY <1>4, <1>5, <1>6 DEF IsSplit
<1>8. HandledOf(b, f, j) = HandledOf(a, f, i)
  <2>1. PICK n : n = Len(a) - Len(i) - Len(f)
    OBVIOUS
  <2>2. n \in 0..Len(a) /\ Len(b) - Len(j) - Len(f) = n
    BY <2>1, <1>2, <1>3, <1>4
  <2>3. HandledOf(b, f, j) = SubSeq(b, 1, n) /\ HandledOf(a, f, i) = SubSeq(a, 1, n)
    BY <2>1, <2>2 DEF HandledOf
  <2>4. PICK g, h : g = SubSeq(b, 1, n) /\ h = SubSeq(a, 1, n)
    OBVIOUS
  <2>5. g \in Seq(S) /\ Len(g) = n /\ \A k \in 1..n : g[k] = b[k]
    BY <2>2, <2>4, <1>2, FirstPart
  <2>6. h \in Seq(S) /\ Len(h) = n /\ \A k \in 1..n : h[k] = a[k]
    BY <2>2, <2>4, FirstPart
  <2>7. ASSUME NEW k \in 1..n PROVE g[k] = h[k]
    <3>1. k \in 1..Len(a)
      BY <2>2
    <3> QED BY <3>1, <2>5, <2>6, <1>2
  <2> QED BY <2>3, <2>4, <2>5, <2>6, <2>7, SeqEqual
<1> QED BY <1>1, <1>7, <1>8

LEMMA ReadSplit ==
  ASSUME NEW S, NEW a \in Seq(S), NEW i \in Seq(S), IsSplit(a, << >>, i), NEW n \in 1..Len(i)
  PROVE  /\ SubSeq(i, 1, n) \in Seq(S) /\ SubSeq(i, n + 1, Len(i)) \in Seq(S)
         /\ IsSplit(a, SubSeq(i, 1, n), SubSeq(i, n + 1, Len(i)))
         /\ HandledOf(a, SubSeq(i, 1, n), SubSeq(i, n + 1, Len(i))) = HandledOf(a, << >>, i)
<1>1. PICK f, j : f = SubSeq(i, 1, n) /\ j = SubSeq(i, n + 1, Len(i))
  OBVIOUS
<1>2. /\ Len(a) \in Nat /\ Len(i) \in Nat /\ n \in Nat /\ n <= Len(i) /\ Len(<< >>) = 0
      /\ f \in Seq(S) /\ Len(f) = n /\ \A k \in 1..n : f[k] = i[k]
  BY <1>1
<1>3. /\ j \in Seq(S) /\ Len(j) = Len(i) - n /\ \A k \in 1..(Len(i) - n) : j[k] = i[n + k]
  <2>1. \A k \in (n + 1)..Len(i) : i[k] \in S
    BY <1>2
  <2>2. j \in Seq(S) /\ Len(j) = Len(i) - n
    BY <1>1, <1>2, <2>1, SubSeqProperties
  <2>3. \A k \in 1..(Len(i) - n) : j[k] = i[(n + 1) + k - 1]
    BY <1>1, <1>2, <2>1, SubSeqProperties
  <2> QED BY <2>2, <2>3, <1>2
<1>4. Len(i) <= Len(a) /\ \A k \in 1..Len(i) : i[k] = a[Len(a) - Len(i) + k]
  BY <1>2 DEF IsSplit
<1>5. ASSUME NEW k \in 1..Len(j) PROVE j[k] = a[Len(a) - Len(j) + k]
  <2>1. n + k \in 1..Len(i) /\ Len(a) - Len(i) + (n + k) = Len(a) - Len(j) + k
    BY <1>2, <1>3, <1>4
  <2> QED BY <2>1, <1>3, <1>4
<1>6. ASSUME NEW k \in 1..Len(f) PROVE f[k] = a[Len(a) - Len(j) - Len(f) + k]
  <2>1. k \in 1..Len(i) /\ Len(a) - Len(i) + k = Len(a) - Len(j) - Len(f) + k
    BY <1>2, <1>3, <1>4
  <2> QED BY <2>1, <1>2, <1>4
<1>7. IsSplit(a, f, j)
  BY <1>2, <1>3, <1>4, <1>5, <1>6 DEF IsSplit
<1>8. Len(a) - Len(j) - Len(f) = Len(a) - Len(i) - Len(<< >>)
  BY <1>2, <1>3
<1> QED BY <1>1, <1>2, <1>3, <1>7, <1>8 DEF HandledOf

LEMMA TakeFirst ==
  ASSUME NEW S, NEW a \in Seq(S), NEW f \in Seq(S), NEW i \in Seq(S), IsSplit(a, f, i), f # << >>
  PROVE  /\ IsSplit(a, Tail(f), i)
         /\ HandledOf(a, Tail(f), i) = Append(HandledOf(a, f, i), Head(f))
<1>1. PICK g, n : g = Tail(f) /\ n = Len(a) - Len(i) - Len(f)
  OBVIOUS
<1>2. /\ Len(a) \in Nat /\ Len(i) \in Nat /\ Len(f) \in Nat \ {0}
      /\ g \in Seq(S) /\ Len(g) = Len(f) - 1 /\ \A k \in 1..Len(g) : g[k] = f[k + 1]
      /\ Head(f) = f[1] /\ Head(f) \in S
  BY <1>1, EmptySeq, HeadTailProperties
<1>3. n \in 0..Len(a) /\ n + 1 \in 1..Len(a) /\ n + 1 = Len(a) - Len(i) - Len(g)
      /\ Len(f) + Len(i) <= Len(a)
  BY <1>1, <1>2 DEF IsSplit
<1>4. \A k \in 1..Len(f) : f[k] = a[n + k]
  BY <1>1 DEF IsSplit
<1>5. ASSUME NEW k \in 1..Len(g) PROVE g[k] = a[Len(a) - Len(i) - Len(g) + k]
  <2>1. PICK m : m = Len(a) - Len(i) - Len(g)
    OBVIOUS
  <2>2. n \in Int /\ Len(g) \in Int /\ Len(f) = Len(g) + 1 /\ m = n + 1
    BY <2>1, <1>2, <1>3
  <2>3. k + 1 \in 1..Len(f) /\ n + (k + 1) = m + k
    BY <2>2
  <2> QED BY <2>1, <2>3, <1>2, <1>4
<1>6. IsSplit(a, g, i)
  <2>1. Len(g) + Len(i) <= Len(a)
    BY <1>2, <1>3
  <2> QED BY <2>1, <1>5 DEF IsSplit
<1>7. HandledOf(a, g, i) = Append(HandledOf(a, f, i), Head(f))
  <2>1. PICK h, l : h = HandledOf(a, f, i) /\ l = HandledOf(a, g, i)
    OBVIOUS
  <2>2. h = SubSeq(a, 1, n) /\ l = SubSeq(a, 1, n + 1)
    BY <2>1, <1>1, <1>3 DEF HandledOf
  <2>3. h \in Seq(S) /\ Len(h) = n /\ \A k \in 1..n : h[k] = a[k]
    BY <2>2, <1>3, FirstPart
  <2>4. n + 1 \in 0..Len(a)
    BY <1>3
  <2>5. l \in Seq(S) /\ Len(l) = n + 1 /\ \A k \in 1..(n + 1) : l[k] = a[k]
    BY <2>2, <2>4, FirstPart
  <2>6. /\ Append(h, Head(f)) \in Seq(S) /\ Len(Append(h, Head(f))) = n + 1
        /\ \A k \in 1..n : Append(h, Head(f))[k] = h[k]
        /\ Append(h, Head(f))[n + 1] = Head(f)
    BY <2>3, <1>2
  <2>7. Head(f) = a[n + 1]
    BY <1>2, <1>4
  <2>8. \A k \in 1..(n + 1) : l[k] = Append(h, Head(f))[k]
    BY <2>3, <2>5, <2>6, <2>7, <1>3
  <2> QED BY <2>1, <2>5, <2>6, <2>8, SeqEqual
<1> QED BY <1>1, <1>6, <1>7

LEMMA TakeAll ==
  ASSUME NEW S, NEW a \in Seq(S), NEW f \in Seq(S), NEW i \in Seq(S), IsSplit(a, f, i)
  PROVE  /\ IsSplit(a, << >>, i)
         /\ HandledOf(a, << >>, i) = HandledOf(a, f, i) \o f
<1>1. PICK n, m : n = Len(a) - Len(i) - Len(f) /\ m = Len(a) - Len(i)
  OBVIOUS
<1>2. /\ Len(a) \in Nat /\ Len(i) \in Nat /\ Len(f) \in Nat /\ Len(<< >>) = 0
      /\ n \in 0..Len(a) /\ m = n + Len(f) /\ m \in 0..Len(a)
      /\ m = Len(a) - Len(i) - Len(<< >>)
  BY <1>1 DEF IsSplit
<1>3. \A k \in 1..Len(f) : f[k] = a[n + k]
  BY <1>1 DEF IsSplit
<1>4. IsSplit(a, << >>, i)
  BY <1>1, <1>2, SMTT(30) DEF IsSplit
<1>5. PICK h, l : h = HandledOf(a, f, i) /\ l = HandledOf(a, << >>, i)
  OBVIOUS
<1>6. h \in Seq(S) /\ Len(h) = n /\ \A k \in 1..n : h[k] = a[k]
  <2>1. h = SubSeq(a, 1, n)
    BY <1>1, <1>5 DEF HandledOf
  <2> QED BY <2>1, <1>2, FirstPart
<1>7. l \in Seq(S) /\ Len(l) = m /\ \A k \in 1..m : l[k] = a[k]
  <2>1. l = SubSeq(a, 1, m)
    BY <1>2, <1>5 DEF HandledOf
  <2> QED BY <2>1, <1>2, FirstPart
<1>8. PICK w : w = h \o f
  OBVIOUS
<1>9. /\ w \in Seq(S) /\ Len(w) = m
      /\ \A k \in 1..n : w[k] = h[k]
      /\ \A k \in 1..Len(f) : w[n + k] = f[k]
  <2>1. h \in Seq(S)
    BY <1>6
  <2>2. w \in Seq(S) /\ Len(w) = Len(h) + Len(f)
    BY <2>1, <1>8
  <2>3. \A k \in 1..Len(h) : w[k] = h[k]
    BY <2>1, <1>8
  <2>4. \A k \in 1..Len(f) : w[Len(h) + k] = f[k]
    BY <2>1, <1>8
  <2> QED BY <2>2, <2>3, <2>4, <1>2, <1>6
<1>10. ASSUME NEW k \in 1..m PROVE l[k] = w[k]
  <2>1. CASE k <= n
    <3>1. k \in 1..n
      BY <2>1, <1>2
    <3> QED BY <3>1, <1>6, <1>7, <1>9
  <2>2. CASE k > n
    <3>1. PICK j : j = k - n
      OBVIOUS
    <3>2. j \in 1..Len(f) /\ n + j = k
      BY <2>2, <3>1, <1>2
    <3>3. w[n + j] = f[j] /\ f[j] = a[n + j]
      BY <3>2, <1>3, <1>9
    <3> QED BY <3>2, <3>3, <1>7
  <2> QED BY <2>1, <2>2, <1>2
<1>11. l = h \o f
  BY <1>7, <1>9, <1>10, <1>8, SeqEqual
<1> QED BY <1>4, <1>5, <1>11

-----------------------------------------------------------------------------
(* What the state of one client is made of.                                *)
Texts   == Units \cup {"welcome"}
Replied == Answers \cup {"welcome"}

LEMMA RepliedFacts ==
  /\ \A q \in Seq(Answers) : q \in Seq(Units) /\ q \in Seq(Texts) /\ q \in Seq(Replied)
  /\ \A q \in Seq(Replied) : q \in Seq(Texts)
<1>1. Answers \subseteq Units /\ Answers \subseteq Texts /\ Answers \subseteq Replied
      /\ Replied \subseteq Texts
  BY DEF Answers, Texts, Replied
<1> QED BY <1>1

LEMMA ClientFacts ==
  ASSUME TypeOK, NEW c \in Clients
  PROVE  /\ asked[c] \in Seq(Units) /\ inbound[c] \in Seq(Units) /\ frames[c] \in Seq(Units)
         /\ outbound[c] \in Seq(Answers) /\ outbound[c] \in Seq(Units)
         /\ outbound[c] \in Seq(Texts) /\ frames[c] \in Seq(Texts)
         /\ received[c] \in Seq(Texts) /\ received[c] \in Seq(Replied)
         /\ reading[c] \in BOOLEAN
         /\ conn[c] \in {"none", "accepted", "open", "closed", "lost"}
         /\ Greeting \in Seq(Texts) /\ Greeting \in Seq(Replied)
         /\ server = Discard => Greeting = << >>
         /\ server = Echo => Greeting = << >>
<1>1. /\ asked \in [Clients -> Seq(Units)] /\ inbound \in [Clients -> Seq(Units)]
      /\ frames \in [Clients -> Seq(Units)] /\ outbound \in [Clients -> Seq(Answers)]
      /\ received \in [Clients -> Seq(Replied)]
      /\ reading \in [Clients -> BOOLEAN]
      /\ conn \in [Clients -> {"none", "accepted", "open", "closed", "lost"}]
  BY DEF TypeOK, Replied
<1>2. \A q \in Seq(Units) : q \in Seq(Texts)
  BY DEF Texts
<1>3. /\ Greeting \in Seq(Replied)
      /\ server = Discard => Greeting = << >>
      /\ server = Echo => Greeting = << >>
  <2>1. "welcome" \in Replied
    BY DEF Replied
  <2>2. <<"welcome">> \in Seq(Replied)
    BY <2>1
  <2>3. << >> \in Seq(Replied)
    OBVIOUS
  <2>4. Greeting \in Seq(Replied)
    BY <2>2, <2>3 DEF Greeting
  <2> QED BY <2>4 DEF Greeting, Telnet, File, Discard, Echo
<1>4. /\ asked[c] \in Seq(Units) /\ inbound[c] \in Seq(Units) /\ frames[c] \in Seq(Units)
      /\ outbound[c] \in Seq(Answers) /\ received[c] \in Seq(Replied)
      /\ reading[c] \in BOOLEAN
      /\ conn[c] \in {"none", "accepted", "open", "closed", "lost"}
  BY <1>1
<1> QED BY <1>2, <1>3, <1>4, RepliedFacts

LEMMA HandledFacts ==
  ASSUME TypeOK, NEW c \in Clients, IsSplit(asked[c], frames[c], inbound[c])
  PROVE  /\ Handled(c) = HandledOf(asked[c], frames[c], inbound[c])
         /\ Handled(c) \in Seq(Units) /\ Handled(c) \in Seq(Texts)
         /\ Due(c) = IF server = Discard THEN Greeting ELSE Greeting \o Handled(c)
         /\ Due(c) \in Seq(Texts)
<1>1. Handled(c) = HandledOf(asked[c], frames[c], inbound[c])
  BY DEF Handled, HandledOf
<1>2. Len(asked[c]) - Len(inbound[c]) - Len(frames[c]) \in 0..Len(asked[c])
  <2>1. PICK x, y, z : x = Len(asked[c]) /\ y = Len(inbound[c]) /\ z = Len(frames[c])
    OBVIOUS
  <2>2. x \in Nat /\ y \in Nat /\ z \in Nat
    BY <2>1, ClientFacts
  <2>3. z + y <= x
    BY <2>1 DEF IsSplit
  <2>4. x - y - z \in 0..x
    BY <2>2, <2>3
  <2> QED BY <2>1, <2>4
<1>3. Handled(c) \in Seq(Units)
  BY <1>2, ClientFacts, FirstPart DEF Handled
<1>4. Handled(c) \in Seq(Texts)
  BY <1>3 DEF Texts
<1>5. Due(c) = IF server = Discard THEN Greeting ELSE Greeting \o Handled(c)
  <2>1. CASE server = Discard
    <3>1. Replies(Handled(c)) = << >>
      BY <2>1 DEF Replies
    <3> QED BY <2>1, <3>1, ClientFacts, ConcatEmptySeq DEF Due
  <2>2. CASE server # Discard
    BY <2>2 DEF Due, Replies
  <2> QED BY <2>1, <2>2
<1>6. Due(c) \in Seq(Texts)
  BY <1>4, <1>5, ClientFacts, ConcatFacts
<1> QED BY <1>1, <1>3, <1>4, <1>5, <1>6

(* A step that moves one connection.                                       *)
Untouched(d) ==
  /\ conn'[d] = conn[d] /\ asked'[d] = asked[d] /\ inbound'[d] = inbound[d]
  /\ frames'[d] = frames[d] /\ reading'[d] = reading[d] /\ outbound'[d] = outbound[d]
  /\ received'[d] = received[d]

LEMMA UntouchedInv ==
  ASSUME NEW d \in Clients, ClientInv(d), Untouched(d), server' = server,
         listening' => listening
  PROVE  ClientInv(d)'
<1>1. Handled(d)' = Handled(d)
  BY DEF Handled, Untouched
<1>2. Due(d)' = Due(d)
  BY <1>1 DEF Due, Greeting, Replies
<1>3. ReadsMatch(d)'
  BY DEF ClientInv, ReadsMatch, Untouched
<1>4. RepliesMatch(d)'
  BY <1>1, <1>2 DEF ClientInv, RepliesMatch, Untouched
<1>5. CloseIsSaid(d)'
  BY <1>1 DEF ClientInv, CloseIsSaid, Untouched
<1> QED BY <1>3, <1>4, <1>5 DEF ClientInv

LEMMA OneClientMoves ==
  ASSUME Inv, NEW c \in Clients, TypeOK', ClientInv(c)',
         main' = main, loops' = loops, listening' = listening, server' = server,
         \A d \in Clients : d # c => Untouched(d)
  PROVE  Inv'
<1>1. \A d \in Clients : d # c => ClientInv(d)'
  BY UntouchedInv DEF Inv
<1>2. \A d \in Clients : ClientInv(d)'
  BY <1>1
<1>3. ShutdownInOrder'
  BY DEF Inv, ShutdownInOrder
<1> QED BY <1>2, <1>3 DEF Inv

(* What has closed a connection stays handled.                             *)
LEMMA CloseKept ==
  ASSUME NEW c \in Clients, ClientInv(c), conn'[c] = conn[c], received'[c] = received[c],
         server' = server, listening' = listening,
         Range(Handled(c)) \subseteq Range(Handled(c)')
  PROVE  CloseIsSaid(c)'
BY DEF ClientInv, CloseIsSaid

-----------------------------------------------------------------------------
LEMMA InitInv == Init => Inv
<1> SUFFICES ASSUME Init PROVE Inv
  OBVIOUS
<1>1. TypeOK
  <2>1. /\ asked \in [Clients -> Seq(Units)] /\ inbound \in [Clients -> Seq(Units)]
        /\ frames \in [Clients -> Seq(Units)] /\ outbound \in [Clients -> Seq(Answers)]
        /\ received \in [Clients -> Seq(Answers \cup {"welcome"})]
    BY DEF Init
  <2>2. /\ conn \in [Clients -> {"none", "accepted", "open", "closed", "lost"}]
        /\ reading \in [Clients -> BOOLEAN] /\ unitsLeft \in 0..MaxUnits
    BY BoundAssumption DEF Init
  <2> QED BY <2>1, <2>2 DEF Init, TypeOK
<1>2. ShutdownInOrder
  BY DEF Init, ShutdownInOrder
<1>3. ASSUME NEW c \in Clients PROVE ClientInv(c)
  <2>1. /\ conn[c] = "none" /\ ~ reading[c] /\ received[c] = << >> /\ frames[c] = << >>
        /\ asked[c] = << >> /\ inbound[c] = << >> /\ outbound[c] = << >>
    BY DEF Init
  <2>2. Len(<< >>) = 0
    OBVIOUS
  <2>3. IsSplit(asked[c], frames[c], inbound[c])
    BY <2>1, <2>2 DEF IsSplit
  <2>4. Handled(c) = << >>
    BY <2>1, <2>2, SubSeqEmpty DEF Handled
  <2>5. IsPrefix(received[c], Due(c))
    <3>1. Due(c) \in Seq(Texts) /\ received[c] \in Seq(Texts)
      BY <1>1, <2>3, HandledFacts, ClientFacts
    <3>2. Len(received[c]) <= Len(Due(c)) /\ \A i \in 1..Len(received[c]) : received[c][i] = Due(c)[i]
      BY <3>1, <2>1, <2>2
    <3> QED BY <3>1, <3>2, PrefixByIndex
  <2>6. ReadsMatch(c)
    BY <2>1, <2>3 DEF ReadsMatch
  <2>7. RepliesMatch(c)
    BY <2>1, <2>4, <2>5 DEF RepliesMatch
  <2>8. CloseIsSaid(c)
    BY <2>1 DEF CloseIsSaid
  <2> QED BY <2>6, <2>7, <2>8 DEF ClientInv
<1> QED BY <1>1, <1>2, <1>3 DEF Inv

(* The clients.                                                            *)
LEMMA ConnectInv ==
  ASSUME Inv, NEW c \in Clients, Connect(c)
  PROVE  Inv'
<1>1. /\ conn' = [conn EXCEPT ![c] = "accepted"] /\ conn[c] = "none"
      /\ UNCHANGED <<program, traffic, unitsLeft>>
  BY DEF Connect
<1>2. TypeOK'
  BY <1>1 DEF Inv, TypeOK, program, traffic, Units, Answers
<1>3. \A d \in Clients : d # c => Untouched(d)
  BY <1>1 DEF Inv, TypeOK, Untouched, traffic
<1>4. /\ conn'[c] = "accepted" /\ asked'[c] = asked[c] /\ inbound'[c] = inbound[c]
      /\ frames'[c] = frames[c] /\ reading'[c] = reading[c] /\ outbound'[c] = outbound[c]
      /\ received'[c] = received[c] /\ server' = server
  BY <1>1 DEF Inv, TypeOK, traffic, program
<1>5. ClientInv(c)
  BY DEF Inv
<1>6. Handled(c)' = Handled(c) /\ Due(c)' = Due(c)
  BY <1>4 DEF Handled, Due, Greeting, Replies
<1>7. ReadsMatch(c)'
  BY <1>1, <1>4, <1>5 DEF ClientInv, ReadsMatch
<1>8. RepliesMatch(c)'
  BY <1>1, <1>4, <1>5, <1>6 DEF ClientInv, RepliesMatch
<1>9. CloseIsSaid(c)'
  BY <1>4 DEF CloseIsSaid
<1> QED BY <1>1, <1>2, <1>3, <1>7, <1>8, <1>9, OneClientMoves DEF ClientInv, program

LEMMA SendInv ==
  ASSUME Inv, NEW c \in Clients, Send(c)
  PROVE  Inv'
<1>1. PICK u \in Units : /\ asked' = [asked EXCEPT ![c] = Append(@, u)]
                         /\ inbound' = [inbound EXCEPT ![c] = Append(@, u)]
  BY DEF Send
<1>2. /\ unitsLeft > 0 /\ unitsLeft' = unitsLeft - 1
      /\ UNCHANGED <<program, conn, frames, reading, outbound, received>>
  BY DEF Send
<1>3. ClientInv(c) /\ TypeOK
  BY DEF Inv
<1>4. Append(asked[c], u) \in Seq(Units) /\ Append(inbound[c], u) \in Seq(Units)
  BY <1>3, ClientFacts
<1>5. TypeOK'
  <2>1. asked' \in [Clients -> Seq(Units)] /\ inbound' \in [Clients -> Seq(Units)]
    BY <1>1, <1>3, <1>4 DEF TypeOK
  <2>2. unitsLeft' \in 0..MaxUnits
    BY <1>2, <1>3, BoundAssumption DEF TypeOK
  <2> QED BY <1>2, <1>3, <2>1, <2>2 DEF TypeOK, program, Units, Answers
<1>6. \A d \in Clients : d # c => Untouched(d)
  BY <1>1, <1>2, <1>3 DEF TypeOK, Untouched
<1>7. /\ asked'[c] = Append(asked[c], u) /\ inbound'[c] = Append(inbound[c], u)
      /\ conn'[c] = conn[c] /\ frames'[c] = frames[c] /\ reading'[c] = reading[c]
      /\ outbound'[c] = outbound[c] /\ received'[c] = received[c]
      /\ server' = server /\ listening' = listening
  BY <1>1, <1>2, <1>3 DEF TypeOK, program
<1>8. IsSplit(asked'[c], frames'[c], inbound'[c])
  BY <1>3, <1>7, ClientFacts, SendSplit DEF ClientInv, ReadsMatch
<1>9. Handled(c)' = Handled(c)
  <2>1. HandledOf(asked'[c], frames'[c], inbound'[c]) = HandledOf(asked[c], frames[c], inbound[c])
    BY <1>3, <1>7, ClientFacts, SendSplit DEF ClientInv, ReadsMatch
  <2> QED BY <2>1 DEF Handled, HandledOf
<1>10. Due(c)' = Due(c)
  BY <1>7, <1>9 DEF Due, Greeting, Replies
<1>11. ReadsMatch(c)'
  BY <1>3, <1>7, <1>8 DEF ClientInv, ReadsMatch
<1>12. RepliesMatch(c)'
  BY <1>3, <1>7, <1>9, <1>10 DEF ClientInv, RepliesMatch
<1>13. CloseIsSaid(c)'
  BY <1>3, <1>7, <1>9 DEF ClientInv, CloseIsSaid
<1> QED BY <1>2, <1>5, <1>6, <1>11, <1>12, <1>13, OneClientMoves DEF ClientInv, program

(* Losing a connection, at any time, and closing it between two reads.     *)
LEMMA LoseInv ==
  ASSUME Inv, NEW c \in Clients, Lose(c)
  PROVE  Inv'
<1>1. /\ conn' = [conn EXCEPT ![c] = "lost"] /\ conn[c] = "open"
      /\ outbound' = [outbound EXCEPT ![c] = << >>]
      /\ UNCHANGED <<program, asked, inbound, frames, reading, received, unitsLeft>>
  BY DEF Lose
<1>2. ClientInv(c) /\ TypeOK
  BY DEF Inv
<1>3. TypeOK'
  <2>1. << >> \in Seq(Answers)
    OBVIOUS
  <2>2. outbound' \in [Clients -> Seq(Answers)]
    BY <1>1, <1>2, <2>1 DEF TypeOK
  <2>3. conn' \in [Clients -> {"none", "accepted", "open", "closed", "lost"}]
    BY <1>1, <1>2 DEF TypeOK
  <2> QED BY <1>1, <1>2, <2>2, <2>3 DEF TypeOK, program, Units, Answers
<1>4. \A d \in Clients : d # c => Untouched(d)
  BY <1>1, <1>2 DEF TypeOK, Untouched
<1>5. /\ conn'[c] = "lost" /\ asked'[c] = asked[c] /\ inbound'[c] = inbound[c]
      /\ frames'[c] = frames[c] /\ reading'[c] = reading[c] /\ outbound'[c] = << >>
      /\ received'[c] = received[c] /\ server' = server
  BY <1>1, <1>2 DEF TypeOK, program
<1>6. Handled(c)' = Handled(c) /\ Due(c)' = Due(c)
  BY <1>5 DEF Handled, Due, Greeting, Replies
<1>7. ReadsMatch(c)'
  BY <1>2, <1>5 DEF ClientInv, ReadsMatch
<1>8. RepliesMatch(c)'
  BY <1>2, <1>5, <1>6 DEF ClientInv, RepliesMatch
<1>9. CloseIsSaid(c)'
  BY <1>5 DEF CloseIsSaid
<1> QED BY <1>1, <1>3, <1>4, <1>7, <1>8, <1>9, OneClientMoves DEF ClientInv, program

LEMMA CloseAllInv ==
  ASSUME Inv, NEW c \in Clients, CloseAll(c)
  PROVE  Inv'
<1>1. /\ conn' = [conn EXCEPT ![c] = "closed"] /\ conn[c] \in {"accepted", "open"} /\ ~ reading[c]
      /\ loops = "shuttingDown" /\ UNCHANGED <<program, traffic, unitsLeft>>
  BY DEF CloseAll, Close
<1>2. TypeOK'
  BY <1>1 DEF Inv, TypeOK, program, traffic, Units, Answers
<1>3. \A d \in Clients : d # c => Untouched(d)
  BY <1>1 DEF Inv, TypeOK, Untouched, traffic
<1>4. /\ conn'[c] = "closed" /\ asked'[c] = asked[c] /\ inbound'[c] = inbound[c]
      /\ frames'[c] = frames[c] /\ reading'[c] = reading[c] /\ outbound'[c] = outbound[c]
      /\ received'[c] = received[c] /\ server' = server /\ listening' = listening
  BY <1>1 DEF Inv, TypeOK, traffic, program
<1>5. ClientInv(c) /\ ~ listening
  BY <1>1 DEF Inv, ShutdownInOrder
<1>6. Handled(c)' = Handled(c) /\ Due(c)' = Due(c)
  BY <1>4 DEF Handled, Due, Greeting, Replies
<1>7. ReadsMatch(c)'
  BY <1>1, <1>4, <1>5 DEF ClientInv, ReadsMatch
<1>8. RepliesMatch(c)'
  BY <1>1, <1>4, <1>5, <1>6 DEF ClientInv, RepliesMatch
<1>9. CloseIsSaid(c)'
  BY <1>4, <1>5 DEF CloseIsSaid
<1> QED BY <1>1, <1>2, <1>3, <1>7, <1>8, <1>9, OneClientMoves DEF ClientInv, program

-----------------------------------------------------------------------------
(* The handlers.                                                           *)
LEMMA ConcatAppend ==
  ASSUME NEW S, NEW s \in Seq(S), NEW t \in Seq(S), NEW e \in S
  PROVE  /\ s \o Append(t, e) = Append(s \o t, e)
         /\ Append(t, e) = t \o <<e>> /\ <<e>> \in Seq(S) /\ Append(t, e) \in Seq(S)
<1>1. Append(t, e) = t \o <<e>> /\ <<e>> \in Seq(S) /\ s \o t \in Seq(S) /\ Append(t, e) \in Seq(S)
  BY AppendIsConcat
<1>2. Append(s \o t, e) = (s \o t) \o <<e>>
  BY <1>1, AppendIsConcat
<1>3. (s \o t) \o <<e>> = s \o (t \o <<e>>)
  BY <1>1, ConcatAssociative
<1> QED BY <1>1, <1>2, <1>3

LEMMA ServersDiffer == Telnet # Discard /\ Telnet # Echo /\ Telnet # File /\ Echo # Discard
                       /\ File # Discard /\ File # Echo
BY DEF Telnet, Echo, File, Discard

(* A unit is handled: what the client is due grows by the reply to it.     *)
LEMMA HandleFirst ==
  ASSUME TypeOK, NEW c \in Clients, IsSplit(asked[c], frames[c], inbound[c]), server # Discard,
         frames[c] # << >>, frames'[c] = Tail(frames[c]), asked'[c] = asked[c],
         inbound'[c] = inbound[c], server' = server
  PROVE  /\ IsSplit(asked'[c], frames'[c], inbound'[c])
         /\ Head(frames[c]) \in Units /\ Head(frames[c]) \in Texts
         /\ Handled(c)' = Append(Handled(c), Head(frames[c]))
         /\ Due(c)' = Append(Due(c), Head(frames[c]))
<1>1. PICK q : q = Head(frames[c])
  OBVIOUS
<1>2. q \in Units /\ q \in Texts
  BY <1>1, ClientFacts, HeadTailProperties DEF Texts
<1>3. /\ IsSplit(asked'[c], frames'[c], inbound'[c])
      /\ HandledOf(asked'[c], frames'[c], inbound'[c])
           = Append(HandledOf(asked[c], frames[c], inbound[c]), q)
  BY <1>1, ClientFacts, TakeFirst
<1>4. Handled(c)' = Append(Handled(c), q)
  BY <1>3 DEF Handled, HandledOf
<1>5. Due(c)' = Greeting \o Handled(c)'
  BY DEF Due, Replies, Greeting
<1>6. Due(c) = Greeting \o Handled(c) /\ Handled(c) \in Seq(Texts) /\ Greeting \in Seq(Texts)
  BY HandledFacts, ClientFacts
<1>7. Greeting \o Append(Handled(c), q) = Append(Greeting \o Handled(c), q)
  BY <1>2, <1>6, ConcatAppend
<1> QED BY <1>1, <1>2, <1>3, <1>4, <1>5, <1>6, <1>7

LEMMA HandleAll ==
  ASSUME TypeOK, NEW c \in Clients, IsSplit(asked[c], frames[c], inbound[c]),
         frames'[c] = << >>, asked'[c] = asked[c],
         inbound'[c] = inbound[c], server' = server
  PROVE  /\ IsSplit(asked'[c], frames'[c], inbound'[c])
         /\ Handled(c)' = Handled(c) \o frames[c]
         /\ Due(c)' = IF server = Discard THEN Due(c) ELSE Due(c) \o frames[c]
<1>1. /\ IsSplit(asked'[c], frames'[c], inbound'[c])
      /\ HandledOf(asked'[c], frames'[c], inbound'[c])
           = HandledOf(asked[c], frames[c], inbound[c]) \o frames[c]
  <2>1. PICK a, f, i : a = asked[c] /\ f = frames[c] /\ i = inbound[c]
    OBVIOUS
  <2>2. a \in Seq(Units) /\ f \in Seq(Units) /\ i \in Seq(Units) /\ IsSplit(a, f, i)
    BY <2>1, ClientFacts
  <2>3. IsSplit(a, << >>, i) /\ HandledOf(a, << >>, i) = HandledOf(a, f, i) \o f
    BY <2>2, TakeAll
  <2> QED BY <2>1, <2>3
<1>2. Handled(c)' = Handled(c) \o frames[c]
  BY <1>1 DEF Handled, HandledOf
<1>3. CASE server = Discard
  <2>1. Due(c)' = Due(c)
    BY <1>3 DEF Due, Replies, Greeting
  <2> QED BY <1>1, <1>2, <1>3, <2>1
<1>4. CASE server # Discard
  <2>1. Due(c)' = Greeting \o Handled(c)'
    BY <1>4 DEF Due, Replies, Greeting
  <2>2. /\ Due(c) = Greeting \o Handled(c) /\ Handled(c) \in Seq(Texts)
        /\ Greeting \in Seq(Texts) /\ frames[c] \in Seq(Texts)
    BY <1>4, HandledFacts, ClientFacts
  <2>3. PICK g, h, f : g = Greeting /\ h = Handled(c) /\ f = frames[c]
    OBVIOUS
  <2>4. g \in Seq(Texts) /\ h \in Seq(Texts) /\ f \in Seq(Texts)
    BY <2>2, <2>3
  <2>5. (g \o h) \o f = g \o (h \o f)
    BY <2>4, ConcatAssociative
  <2>6. Due(c)' = Due(c) \o frames[c]
    BY <1>2, <2>1, <2>2, <2>3, <2>5
  <2> QED BY <1>1, <1>2, <1>4, <2>6
<1> QED BY <1>3, <1>4

LEMMA ChannelActiveInv ==
  ASSUME Inv, NEW c \in Clients, ChannelActive(c)
  PROVE  Inv'
<1>1. /\ conn[c] = "accepted" /\ conn' = [conn EXCEPT ![c] = "open"]
      /\ received' = [received EXCEPT ![c] = Greeting]
      /\ UNCHANGED <<program, asked, inbound, frames, reading, outbound, unitsLeft>>
  BY DEF ChannelActive
<1>2. ClientInv(c) /\ TypeOK /\ Greeting \in Seq(Texts) /\ Greeting \in Seq(Replied)
  BY ClientFacts DEF Inv
<1>3. TypeOK'
  <2>1. received' \in [Clients -> Seq(Answers \cup {"welcome"})]
    BY <1>1, <1>2 DEF TypeOK, Replied
  <2> QED BY <1>1, <1>2, <2>1 DEF TypeOK, program, Units, Answers
<1>4. \A d \in Clients : d # c => Untouched(d)
  BY <1>1, <1>2 DEF TypeOK, Untouched
<1>5. /\ conn'[c] = "open" /\ asked'[c] = asked[c] /\ inbound'[c] = inbound[c]
      /\ frames'[c] = frames[c] /\ reading'[c] = reading[c] /\ outbound'[c] = outbound[c]
      /\ received'[c] = Greeting /\ server' = server
  BY <1>1, <1>2 DEF TypeOK, program
<1>6. ~ reading[c] /\ frames[c] = << >> /\ outbound[c] = << >> /\ Handled(c) = << >>
  BY <1>1, <1>2 DEF ClientInv, ReadsMatch, RepliesMatch, Telnet
<1>7. Handled(c)' = Handled(c) /\ Due(c)' = Due(c)
  BY <1>5 DEF Handled, Due, Greeting, Replies
<1>8. Due(c) = Greeting
  <2>1. Due(c) = IF server = Discard THEN Greeting ELSE Greeting \o << >>
    BY <1>2, <1>6, HandledFacts DEF ClientInv, ReadsMatch
  <2> QED BY <1>2, <2>1, ConcatEmptySeq
<1>9. ReadsMatch(c)'
  BY <1>2, <1>5, <1>6 DEF ClientInv, ReadsMatch
<1>10. RepliesMatch(c)'
  <2>1. Greeting \o << >> = Greeting
    BY <1>2, ConcatEmptySeq
  <2>2. IsPrefix(Greeting, Greeting)
    BY <1>2, PrefixByIndex
  <2> QED BY <1>5, <1>6, <1>7, <1>8, <2>1, <2>2 DEF RepliesMatch
<1>11. CloseIsSaid(c)'
  BY <1>5 DEF CloseIsSaid
<1> QED BY <1>1, <1>3, <1>4, <1>9, <1>10, <1>11, OneClientMoves DEF ClientInv, program

LEMMA ReadInv ==
  ASSUME Inv, NEW c \in Clients, Read(c)
  PROVE  Inv'
<1>1. PICK n \in 1..Len(inbound[c]) :
        /\ frames' = [frames EXCEPT ![c] = SubSeq(inbound[c], 1, n)]
        /\ inbound' = [inbound EXCEPT ![c] = SubSeq(@, n + 1, Len(@))]
  BY DEF Read
<1>2. /\ conn[c] = "open" /\ ~ reading[c]
      /\ reading' = [reading EXCEPT ![c] = TRUE]
      /\ UNCHANGED <<program, conn, asked, outbound, received, unitsLeft>>
  BY DEF Read
<1>3. ClientInv(c) /\ TypeOK
  BY DEF Inv
<1>4. frames[c] = << >> /\ outbound[c] = << >>
  BY <1>2, <1>3 DEF ClientInv, ReadsMatch
<1>5. PICK f, i : f = SubSeq(inbound[c], 1, n) /\ i = SubSeq(inbound[c], n + 1, Len(inbound[c]))
  OBVIOUS
<1>6. /\ f \in Seq(Units) /\ i \in Seq(Units) /\ IsSplit(asked[c], f, i)
      /\ HandledOf(asked[c], f, i) = HandledOf(asked[c], frames[c], inbound[c])
  <2>1. IsSplit(asked[c], << >>, inbound[c])
    BY <1>3, <1>4 DEF ClientInv, ReadsMatch
  <2> QED BY <2>1, <1>3, <1>4, <1>5, ClientFacts, ReadSplit, SMTT(30)
<1>7. TypeOK'
  <2>1. /\ frames' \in [Clients -> Seq(Units)] /\ inbound' \in [Clients -> Seq(Units)]
        /\ reading' \in [Clients -> BOOLEAN]
    BY <1>1, <1>2, <1>3, <1>5, <1>6 DEF TypeOK
  <2>2. Units' = Units /\ Answers' = Answers
    BY <1>2 DEF program, Units, Answers
  <2> QED BY <1>2, <1>3, <2>1, <2>2, SMTT(30) DEF TypeOK, program
<1>8. \A d \in Clients : d # c => Untouched(d)
  BY <1>1, <1>2, <1>3 DEF TypeOK, Untouched
<1>9. /\ conn'[c] = conn[c] /\ asked'[c] = asked[c] /\ inbound'[c] = i
      /\ frames'[c] = f /\ outbound'[c] = outbound[c]
      /\ received'[c] = received[c] /\ server' = server
  BY <1>1, <1>2, <1>3, <1>5 DEF TypeOK, program
<1>10. reading'[c]
  BY <1>2, <1>3 DEF TypeOK
<1>11. Handled(c)' = Handled(c)
  BY <1>6, <1>9 DEF Handled, HandledOf
<1>12. Due(c)' = Due(c)
  BY <1>9, <1>11 DEF Due, Greeting, Replies
<1>13. ReadsMatch(c)'
  BY <1>2, <1>4, <1>6, <1>9, <1>10 DEF ReadsMatch
<1>14. RepliesMatch(c)'
  BY <1>2, <1>3, <1>9, <1>11, <1>12 DEF ClientInv, RepliesMatch
<1>15. CloseIsSaid(c)'
  BY <1>2, <1>9 DEF CloseIsSaid
<1> QED BY <1>2, <1>7, <1>8, <1>13, <1>14, <1>15, OneClientMoves DEF ClientInv, program

LEMMA TelnetReadInv ==
  ASSUME Inv, NEW c \in Clients, TelnetRead(c)
  PROVE  Inv'
<1>1. PICK q : q = Head(frames[c])
  OBVIOUS
<1>2. /\ server = Telnet /\ frames[c] # << >>
      /\ frames' = [frames EXCEPT ![c] = Tail(@)]
      /\ closing' = (closing \/ q = "shutdown")
      /\ conn' = IF q = "shutdown"
                 THEN [conn EXCEPT ![c] = IF @ \in {"accepted", "open"} THEN "closed" ELSE @]
                 ELSE conn
      /\ outbound' = [outbound EXCEPT ![c] = IF conn'[c] = "open" THEN Append(@, q) ELSE << >>]
      /\ UNCHANGED <<server, listening, main, loops, asked, inbound, reading, received, unitsLeft>>
      /\ q # TooLong
  BY <1>1 DEF TelnetRead, Close
<1>3. ClientInv(c) /\ TypeOK
  BY DEF Inv
<1>4. reading[c] /\ conn[c] \in {"open", "closed", "lost"}
  BY <1>2, <1>3, ClientFacts DEF ClientInv, ReadsMatch
<1>5. /\ frames'[c] = Tail(frames[c]) /\ asked'[c] = asked[c] /\ inbound'[c] = inbound[c]
      /\ reading'[c] = reading[c] /\ received'[c] = received[c]
      /\ server' = server /\ listening' = listening
      /\ conn'[c] = IF q = "shutdown" /\ conn[c] = "open" THEN "closed" ELSE conn[c]
      /\ outbound'[c] = IF conn'[c] = "open" THEN Append(outbound[c], q) ELSE << >>
  BY <1>2, <1>3, <1>4 DEF TypeOK
<1>6. /\ IsSplit(asked'[c], frames'[c], inbound'[c]) /\ q \in Units /\ q \in Texts
      /\ Handled(c)' = Append(Handled(c), q) /\ Due(c)' = Append(Due(c), q)
  BY <1>1, <1>2, <1>3, <1>5, HandleFirst, ServersDiffer DEF ClientInv, ReadsMatch
<1>7. TypeOK'
  <2> q \in Answers
    BY <1>2, <1>6 DEF Answers
  <2>1. /\ Tail(frames[c]) \in Seq(Units)
        /\ Append(outbound[c], q) \in Seq(Answers) /\ << >> \in Seq(Answers)
    BY <1>2, <1>3, ClientFacts, HeadTailProperties
  <2>2. frames' \in [Clients -> Seq(Units)] /\ outbound' \in [Clients -> Seq(Answers)]
    BY <1>2, <1>3, <2>1 DEF TypeOK
  <2>3. conn' \in [Clients -> {"none", "accepted", "open", "closed", "lost"}]
    BY <1>2, <1>3 DEF TypeOK
  <2>4. closing' \in BOOLEAN
    BY <1>2, <1>3 DEF TypeOK
  <2>5. Units' = Units /\ Answers' = Answers
    BY <1>5 DEF Units, Answers
  <2> QED BY <1>2, <1>3, <2>2, <2>3, <2>4, <2>5, SMTT(30) DEF TypeOK
<1>8. \A d \in Clients : d # c => Untouched(d)
  BY <1>2, <1>3 DEF TypeOK, Untouched
<1>9. Due(c) \in Seq(Texts) /\ received[c] \in Seq(Texts) /\ outbound[c] \in Seq(Texts)
      /\ Handled(c) \in Seq(Texts)
  BY <1>3, HandledFacts, ClientFacts DEF ClientInv, ReadsMatch
<1>10. ReadsMatch(c)'
  BY <1>2, <1>4, <1>5, <1>6 DEF ReadsMatch
<1>11. RepliesMatch(c)'
  <2>1. IsPrefix(received[c], Append(Due(c), q))
    <3>1. PICK r, d : r = received[c] /\ d = Due(c)
      OBVIOUS
    <3>2. r \in Seq(Texts) /\ d \in Seq(Texts) /\ IsPrefix(r, d)
      BY <3>1, <1>3, <1>9 DEF ClientInv, RepliesMatch
    <3>3. Append(d, q) = d \o <<q>> /\ <<q>> \in Seq(Texts)
      BY <3>2, <1>6, ConcatAppend
    <3>4. IsPrefix(r, d \o <<q>>)
      BY <3>2, <3>3, PrefixOfConcat
    <3> QED BY <3>1, <3>3, <3>4
  <2>2. ASSUME conn'[c] = "open" PROVE received'[c] \o outbound'[c] = Due(c)'
    <3>1. conn[c] = "open" /\ outbound'[c] = Append(outbound[c], q)
      BY <2>2, <1>4, <1>5
    <3>2. received[c] \o outbound[c] = Due(c)
      BY <3>1, <1>3 DEF ClientInv, RepliesMatch
    <3>3. received[c] \o Append(outbound[c], q) = Append(received[c] \o outbound[c], q)
      <4>1. PICK r, o : r = received[c] /\ o = outbound[c]
        OBVIOUS
      <4>2. r \in Seq(Texts) /\ o \in Seq(Texts)
        BY <4>1, <1>9
      <4>3. r \o Append(o, q) = Append(r \o o, q)
        BY <4>2, <1>6, ConcatAppend
      <4> QED BY <4>1, <4>3
    <3> QED BY <3>1, <3>2, <3>3, <1>5, <1>6
  <2>3. conn'[c] \notin {"none", "accepted"}
    BY <1>4, <1>5
  <2> QED BY <2>1, <2>2, <2>3, <1>5, <1>6 DEF RepliesMatch
<1>12. CloseIsSaid(c)'
  <2>1. Range(Append(Handled(c), q)) = Range(Handled(c)) \cup {q}
    BY <1>6, <1>9, AppendRange
  <2>2. CASE q = "shutdown"
    BY <2>1, <2>2, <1>6 DEF CloseIsSaid
  <2>3. CASE q # "shutdown"
    BY <2>1, <2>3, <1>3, <1>5, <1>6 DEF ClientInv, CloseIsSaid
  <2> QED BY <2>2, <2>3
<1> QED BY <1>2, <1>7, <1>8, <1>10, <1>11, <1>12, OneClientMoves DEF ClientInv

(* exceptionCaught: the connection is over, or was; the line is handled.   *)
LEMMA LineTooLongInv ==
  ASSUME Inv, NEW c \in Clients, LineTooLong(c)
  PROVE  Inv'
<1>1. PICK r, d : r = received[c] /\ d = Due(c)
  OBVIOUS
<1>2. /\ frames[c] # << >> /\ Head(frames[c]) = TooLong
      /\ frames' = [frames EXCEPT ![c] = Tail(@)]
      /\ reading' = [reading EXCEPT ![c] = server = Telnet \/ Len(frames[c]) > 1]
      /\ outbound' = [outbound EXCEPT ![c] = << >>]
      /\ conn' = [conn EXCEPT ![c] = IF @ \in {"accepted", "open"} THEN "closed" ELSE @]
      /\ UNCHANGED <<program, asked, inbound, received, unitsLeft>>
  BY DEF LineTooLong, Close
<1>3. ClientInv(c) /\ TypeOK
  BY DEF Inv
<1>4. reading[c] /\ conn[c] \in {"open", "closed", "lost"}
  BY <1>2, <1>3, ClientFacts DEF ClientInv, ReadsMatch
<1>5. server # Discard
  <2>1. TooLong \in Units
    BY <1>2, <1>3, ClientFacts, HeadTailProperties
  <2> QED BY <2>1, ServersDiffer DEF Units, TooLong, Discard, Telnet, Echo, File
<1>6. /\ frames'[c] = Tail(frames[c]) /\ asked'[c] = asked[c] /\ inbound'[c] = inbound[c]
      /\ received'[c] = r /\ outbound'[c] = << >> /\ server' = server
      /\ conn'[c] \in {"closed", "lost"}
  BY <1>1, <1>2, <1>3, <1>4 DEF TypeOK, program
<1>7. reading'[c] <=> server = Telnet \/ Len(frames[c]) > 1
  BY <1>2, <1>3, Zenon DEF TypeOK
<1>8. /\ IsSplit(asked'[c], frames'[c], inbound'[c]) /\ TooLong \in Texts
      /\ Handled(c)' = Append(Handled(c), TooLong) /\ Due(c)' = Append(d, TooLong)
  BY <1>1, <1>2, <1>3, <1>5, <1>6, HandleFirst DEF ClientInv, ReadsMatch
<1>9. d \in Seq(Texts) /\ r \in Seq(Texts) /\ Handled(c) \in Seq(Texts) /\ IsPrefix(r, d)
  BY <1>1, <1>3, HandledFacts, ClientFacts DEF ClientInv, ReadsMatch, RepliesMatch
<1>10. TypeOK'
  <2>1. Tail(frames[c]) \in Seq(Units) /\ << >> \in Seq(Answers)
    BY <1>2, <1>3, ClientFacts, HeadTailProperties
  <2>2. frames' \in [Clients -> Seq(Units)] /\ outbound' \in [Clients -> Seq(Answers)]
    BY <1>2, <1>3, <2>1 DEF TypeOK
  <2>3. conn' \in [Clients -> {"none", "accepted", "open", "closed", "lost"}]
    BY <1>2, <1>3 DEF TypeOK
  <2>4. reading' \in [Clients -> BOOLEAN]
    BY <1>2, <1>3 DEF TypeOK
  <2> QED BY <1>2, <1>3, <2>2, <2>3, <2>4, SMTT(30) DEF TypeOK, program, Units, Answers
<1>11. \A e \in Clients : e # c => Untouched(e)
  BY <1>2, <1>3 DEF TypeOK, Untouched
<1>12. ReadsMatch(c)'
  <2>1. Tail(frames[c]) # << >> => Len(frames[c]) > 1
    BY <1>2, <1>3, ClientFacts, HeadTailProperties, EmptySeq
  <2> QED BY <2>1, <1>6, <1>7, <1>8 DEF ReadsMatch
<1>13. RepliesMatch(c)'
  <2>1. Append(d, TooLong) = d \o <<TooLong>> /\ <<TooLong>> \in Seq(Texts)
    BY <1>8, <1>9, ConcatAppend
  <2>2. IsPrefix(r, d \o <<TooLong>>)
    BY <2>1, <1>9, PrefixOfConcat
  <2> QED BY <2>1, <2>2, <1>6, <1>8 DEF RepliesMatch
<1>14. CloseIsSaid(c)'
  <2>1. Range(Append(Handled(c), TooLong)) = Range(Handled(c)) \cup {TooLong}
    BY <1>8, <1>9, AppendRange
  <2> QED BY <2>1, <1>8 DEF CloseIsSaid
<1> QED BY <1>2, <1>10, <1>11, <1>12, <1>13, <1>14, OneClientMoves DEF ClientInv, program

-----------------------------------------------------------------------------
(* The flush at the end of a read: all replies go out, or with a "bye"     *)
(* among them at least those up to the first one.                          *)
LEMMA TelnetReadCompleteInv ==
  ASSUME Inv, NEW c \in Clients, TelnetReadComplete(c)
  PROVE  Inv'
<1>1. PICK r, o : r = received[c] /\ o = outbound[c]
  OBVIOUS
<1>2. /\ server = Telnet /\ reading[c] /\ frames[c] = << >>
      /\ reading' = [reading EXCEPT ![c] = FALSE]
      /\ outbound' = [outbound EXCEPT ![c] = << >>]
      /\ UNCHANGED <<program, asked, inbound, frames, unitsLeft>>
  BY DEF TelnetReadComplete
<1>3. \/ /\ "bye" \in Range(o)
         /\ conn' = [conn EXCEPT ![c] = IF @ \in {"accepted", "open"} THEN "closed" ELSE @]
         /\ \E n \in FirstBye(o)..Len(o) : received' = [received EXCEPT ![c] = @ \o SubSeq(o, 1, n)]
      \/ /\ "bye" \notin Range(o)
         /\ conn' = conn
         /\ received' = [received EXCEPT ![c] = @ \o o]
  BY <1>1 DEF TelnetReadComplete, Close
<1>4. ClientInv(c) /\ TypeOK
  BY DEF Inv
<1>5. /\ o \in Seq(Units) /\ o \in Seq(Texts) /\ r \in Seq(Texts)
      /\ o \in Seq(Answers) /\ o \in Seq(Replied) /\ r \in Seq(Replied)
      /\ Due(c) \in Seq(Texts)
  BY <1>1, <1>4, ClientFacts, HandledFacts, RepliedFacts DEF ClientInv, ReadsMatch
<1>6. /\ conn[c] \in {"open", "closed", "lost"}
      /\ conn[c] = "open" => r \o o = Due(c)
      /\ conn[c] # "open" => o = << >>
      /\ IsPrefix(r, Due(c)) /\ IsSplit(asked[c], frames[c], inbound[c])
  BY <1>1, <1>2, <1>4, ClientFacts DEF ClientInv, ReadsMatch, RepliesMatch
<1>7. /\ asked'[c] = asked[c] /\ inbound'[c] = inbound[c] /\ frames'[c] = << >>
      /\ outbound'[c] = << >> /\ server' = server /\ listening' = listening
      /\ IsSplit(asked'[c], frames'[c], inbound'[c])
  BY <1>2, <1>4, <1>6 DEF TypeOK, program
<1>8. ~ reading'[c]
  BY <1>2, <1>4 DEF TypeOK
<1>9. Handled(c)' = Handled(c) /\ Due(c)' = Due(c)
  BY <1>2 DEF Handled, Due, Greeting, Replies, program
<1>10. ReadsMatch(c)'
  BY <1>7, <1>8 DEF ReadsMatch
<1>11. \A d \in Clients : d # c => Untouched(d)
  BY <1>2, <1>3, <1>4 DEF TypeOK, Untouched
<1>12. ASSUME received' \in [Clients -> Seq(Replied)],
              conn' \in [Clients -> {"none", "accepted", "open", "closed", "lost"}]
       PROVE  TypeOK'
  <2>1. reading' \in [Clients -> BOOLEAN] /\ outbound' \in [Clients -> Seq(Answers)]
    <3>1. << >> \in Seq(Answers)
      OBVIOUS
    <3> QED BY <1>2, <1>4, <3>1 DEF TypeOK
  <2>2. Units' = Units /\ Answers' = Answers
    BY <1>7 DEF Units, Answers
  <2> QED BY <1>2, <1>4, <1>12, <2>1, <2>2 DEF TypeOK, program, Replied
<1>13. CASE "bye" \in Range(o)
  <2>1. conn' = [conn EXCEPT ![c] = "closed"]
    <3>1. conn[c] = "open"
      <4>1. o # << >>
        BY <1>5, <1>13 DEF Range
      <4> QED BY <4>1, <1>6
    <3> QED BY <3>1, <1>3, <1>13
  <2>2. PICK n \in FirstBye(o)..Len(o) : received' = [received EXCEPT ![c] = @ \o SubSeq(o, 1, n)]
    BY <1>3, <1>13
  <2>3. PICK b : b = FirstBye(o)
    OBVIOUS
  <2>4. b \in DOMAIN o /\ o[b] = "bye"
    <3>1. DOMAIN o = 1..Len(o) /\ Len(o) \in Nat
      BY <1>5
    <3> DEFINE C == {i \in 1..Len(o) : o[i] = "bye"}
    <3>2. C \in SUBSET Nat /\ C # {}
      BY <1>13, <3>1 DEF Range
    <3>3. PICK m \in C : \A x \in C : m <= x
      BY <3>2, LeastNumber
    <3>4. \A j \in 1..(m - 1) : o[j] # "bye"
      <4> SUFFICES ASSUME NEW j \in 1..(m - 1), o[j] = "bye" PROVE FALSE
        OBVIOUS
      <4>1. m \in Nat /\ m <= Len(o)
        BY <3>1
      <4>2. j \in 1..Len(o) /\ j < m
        BY <3>1, <4>1
      <4>3. j \in C
        BY <4>2
      <4> QED BY <3>3, <4>1, <4>2, <4>3
    <3>5. m \in DOMAIN o /\ o[m] = "bye"
      BY <3>1
    <3> QED BY <2>3, <3>4, <3>5 DEF FirstBye
  <2>5. n \in 0..Len(o) /\ b \in 1..n /\ b \in Nat
    <3>1. DOMAIN o = 1..Len(o) /\ Len(o) \in Nat
      BY <1>5
    <3> QED BY <3>1, <2>2, <2>3, <2>4
  <2>6. PICK s : s = SubSeq(o, 1, n)
    OBVIOUS
  <2>7. s \in Seq(Texts) /\ Len(s) = n /\ \A k \in 1..n : s[k] = o[k]
    BY <1>5, <2>5, <2>6, FirstPart
  <2>8. received'[c] = r \o s /\ conn'[c] = "closed" /\ r \o s \in Seq(Replied)
    <3>1. s \in Seq(Replied)
      BY <1>5, <2>5, <2>6, FirstPart
    <3>2. r \o s \in Seq(Replied)
      BY <3>1, <1>5, ConcatFacts
    <3> QED BY <2>1, <2>2, <2>6, <3>2, <1>1, <1>4 DEF TypeOK
  <2>9. TypeOK'
    <3>1. received' = [received EXCEPT ![c] = r \o s]
      BY <2>2, <2>6, <1>1
    <3>2. received' \in [Clients -> Seq(Replied)]
      BY <3>1, <2>8, <1>4 DEF TypeOK, Replied
    <3>3. conn' \in [Clients -> {"none", "accepted", "open", "closed", "lost"}]
      BY <2>1, <1>4 DEF TypeOK
    <3> QED BY <3>2, <3>3, <1>12
  <2>10. o # << >>
    BY <2>4
  <2>11. IsPrefix(r \o s, Due(c))
    <3>1. r \o o = Due(c)
      BY <1>6, <2>10
    <3>2. IsPrefix(s, o)
      BY <1>5, <2>5, <2>7, PrefixByIndex, SMTT(30)
    <3>3. IsPrefix(r \o s, r \o o)
      BY <1>5, <2>7, <3>2, PrefixOfConcat
    <3> QED BY <3>1, <3>3
  <2>12. RepliesMatch(c)'
    BY <2>8, <2>11, <1>9 DEF RepliesMatch
  <2>13. "bye" \in Range(r \o s)
    <3>1. s[b] = "bye" /\ b \in DOMAIN s
      BY <2>4, <2>5, <2>7
    <3>2. Range(r \o s) = Range(r) \cup Range(s)
      BY <1>5, <2>7, RangeOfConcat
    <3> QED BY <3>1, <3>2 DEF Range
  <2>14. CloseIsSaid(c)'
    BY <2>8, <2>13 DEF CloseIsSaid
  <2> QED BY <2>9, <2>12, <2>14, <1>2, <1>10, <1>11, OneClientMoves DEF ClientInv, program
<1>14. CASE "bye" \notin Range(o)
  <2>1. conn' = conn /\ received' = [received EXCEPT ![c] = @ \o o]
    BY <1>3, <1>14
  <2>2. received'[c] = r \o o /\ r \o o \in Seq(Replied)
    <3>1. r \o o \in Seq(Replied)
      BY <1>5, ConcatFacts
    <3> QED BY <2>1, <3>1, <1>1, <1>4 DEF TypeOK
  <2>3. TypeOK'
    <3>1. received' = [received EXCEPT ![c] = r \o o]
      BY <2>1, <1>1
    <3>2. received' \in [Clients -> Seq(Replied)]
      BY <3>1, <2>2, <1>4 DEF TypeOK, Replied
    <3>3. conn' \in [Clients -> {"none", "accepted", "open", "closed", "lost"}]
      BY <2>1, <1>4 DEF TypeOK
    <3> QED BY <3>2, <3>3, <1>12
  <2>4. CASE conn[c] = "open"
    <3>1. received'[c] = Due(c)
      BY <2>2, <2>4, <1>6
    <3>2. IsPrefix(Due(c), Due(c)) /\ Due(c) \o << >> = Due(c)
      BY <1>5, PrefixByIndex, ConcatEmptySeq
    <3>3. RepliesMatch(c)'
      BY <2>1, <2>4, <3>1, <3>2, <1>7, <1>9 DEF RepliesMatch
    <3>4. CloseIsSaid(c)'
      BY <2>1, <2>4 DEF CloseIsSaid
    <3> QED BY <2>3, <3>3, <3>4, <1>2, <1>10, <1>11, OneClientMoves DEF ClientInv, program
  <2>5. CASE conn[c] # "open"
    <3>1. received'[c] = r
      BY <2>2, <2>5, <1>5, <1>6, ConcatEmptySeq
    <3>2. RepliesMatch(c)'
      <4>1. conn'[c] \in {"closed", "lost"}
        BY <2>1, <2>5, <1>6
      <4> QED BY <4>1, <3>1, <1>6, <1>9 DEF RepliesMatch
    <3>3. CloseIsSaid(c)'
      BY <2>1, <3>1, <1>1, <1>4, <1>7, <1>9 DEF ClientInv, CloseIsSaid
    <3> QED BY <2>3, <3>2, <3>3, <1>2, <1>10, <1>11, OneClientMoves DEF ClientInv, program
  <2> QED BY <2>4, <2>5, <1>6
<1> QED BY <1>13, <1>14

LEMMA EchoReadInv ==
  ASSUME Inv, NEW c \in Clients, EchoRead(c)
  PROVE  Inv'
<1>1. PICK r, f : r = received[c] /\ f = frames[c]
  OBVIOUS
<1>2. /\ server = Echo /\ reading[c]
      /\ frames' = [frames EXCEPT ![c] = << >>]
      /\ reading' = [reading EXCEPT ![c] = FALSE]
      /\ received' = [received EXCEPT ![c] = IF conn[c] = "open" THEN r \o f ELSE r]
      /\ conn' = IF f = END
                 THEN [conn EXCEPT ![c] = IF @ \in {"accepted", "open"} THEN "closed" ELSE @]
                 ELSE conn
      /\ closing' = (closing \/ f = END)
      /\ UNCHANGED <<server, listening, main, loops, asked, inbound, outbound, unitsLeft>>
  BY <1>1, ServersDiffer DEF EchoRead, Reply, Close, Replies, Inv, TypeOK
<1>3. ClientInv(c) /\ TypeOK
  BY DEF Inv
<1>4. /\ conn[c] \in {"open", "closed", "lost"} /\ outbound[c] = << >>
      /\ IsSplit(asked[c], frames[c], inbound[c])
      /\ r \in Seq(Texts) /\ f \in Seq(Texts) /\ Due(c) \in Seq(Texts)
      /\ r \in Seq(Replied) /\ f \in Seq(Units)
      /\ Handled(c) \in Seq(Texts) /\ IsPrefix(r, Due(c))
  BY <1>1, <1>2, <1>3, ClientFacts, HandledFacts, ServersDiffer DEF ClientInv, ReadsMatch, RepliesMatch
<1>5. conn[c] = "open" => r = Due(c)
  BY <1>1, <1>3, <1>4, ConcatEmptySeq DEF ClientInv, RepliesMatch
<1>6. /\ frames'[c] = << >> /\ asked'[c] = asked[c] /\ inbound'[c] = inbound[c]
      /\ received'[c] = (IF conn[c] = "open" THEN r \o f ELSE r) /\ outbound'[c] = << >>
      /\ server' = server /\ listening' = listening
      /\ conn'[c] = IF f = END /\ conn[c] = "open" THEN "closed" ELSE conn[c]
  BY <1>2, <1>3, <1>4 DEF TypeOK
<1>7. ~ reading'[c]
  BY <1>2, <1>3 DEF TypeOK
<1>8. /\ IsSplit(asked'[c], frames'[c], inbound'[c])
      /\ Handled(c)' = Handled(c) \o f
      /\ Due(c)' = Due(c) \o f
  BY <1>1, <1>2, <1>3, <1>4, <1>6, HandleAll, ServersDiffer
<1>9. r \o f \in Seq(Texts) /\ IsPrefix(r \o f, r \o f) /\ (r \o f) \o << >> = r \o f
  <2>1. PICK w : w = r \o f
    OBVIOUS
  <2>2. w \in Seq(Texts)
    BY <2>1, <1>4, ConcatFacts
  <2>3. IsPrefix(w, w) /\ w \o << >> = w
    BY <2>2, PrefixByIndex, ConcatEmptySeq
  <2> QED BY <2>1, <2>2, <2>3
<1>10. TypeOK'
  <2>1. frames' \in [Clients -> Seq(Units)] /\ reading' \in [Clients -> BOOLEAN]
    BY <1>2, <1>3 DEF TypeOK
  <2>2. received' \in [Clients -> Seq(Replied)]
    <3>1. TooLong \notin Units
      BY <1>2 DEF Units, TooLong, Echo, Telnet, File, Discard
    <3>2. Units \subseteq Replied
      BY <3>1 DEF Replied, Answers
    <3>3. f \in Seq(Replied)
      BY <3>2, <1>4
    <3>4. r \o f \in Seq(Replied)
      BY <3>3, <1>4, ConcatFacts
    <3> QED BY <1>2, <1>3, <1>4, <3>4 DEF TypeOK, Replied
  <2>3. conn' \in [Clients -> {"none", "accepted", "open", "closed", "lost"}]
    BY <1>2, <1>3 DEF TypeOK
  <2>4. closing' \in BOOLEAN
    BY <1>2, <1>3 DEF TypeOK
  <2>5. Units' = Units /\ Answers' = Answers
    BY <1>6 DEF Units, Answers
  <2>6. /\ asked' \in [Clients -> Seq(Units)] /\ inbound' \in [Clients -> Seq(Units)]
        /\ outbound' \in [Clients -> Seq(Answers)]
    BY <1>2, <1>3 DEF TypeOK
  <2>7. /\ server' \in {Telnet, Echo, File, Discard} /\ listening' \in BOOLEAN
        /\ main' \in {"waiting", "ended"}
        /\ loops' \in {"running", "shuttingDown", "terminated"} /\ unitsLeft' \in 0..MaxUnits
    BY <1>2, <1>3 DEF TypeOK
  <2> QED BY <2>1, <2>2, <2>3, <2>4, <2>5, <2>6, <2>7 DEF TypeOK, Replied
<1>11. \A d \in Clients : d # c => Untouched(d)
  BY <1>2, <1>3 DEF TypeOK, Untouched
<1>12. ReadsMatch(c)'
  BY <1>6, <1>7, <1>8 DEF ReadsMatch
<1>13. RepliesMatch(c)'
  <2>1. IsPrefix(r, Due(c) \o f)
    BY <1>4, PrefixOfConcat
  <2> QED BY <2>1, <1>4, <1>5, <1>6, <1>8, <1>9 DEF RepliesMatch
<1>14. CloseIsSaid(c)'
  <2>1. CASE conn[c] = "open"
    <3>1. f = END => IsSuffix(END, r \o f)
      BY <1>4, SuffixOfConcat
    <3> QED BY <2>1, <3>1, <1>2, <1>6 DEF CloseIsSaid
  <2>2. CASE conn[c] # "open"
    <3>1. Range(Handled(c)) \subseteq Range(Handled(c) \o f)
      BY <1>4, RangeOfConcat
    <3> QED BY <2>2, <3>1, <1>1, <1>3, <1>6, <1>8, CloseKept
  <2> QED BY <2>1, <2>2
<1> QED BY <1>2, <1>10, <1>11, <1>12, <1>13, <1>14, OneClientMoves DEF ClientInv

LEMMA FileReadInv ==
  ASSUME Inv, NEW c \in Clients, FileRead(c)
  PROVE  Inv'
<1>1. PICK r, q : r = received[c] /\ q = Head(frames[c])
  OBVIOUS
<1>2. /\ server = File /\ frames[c] # << >> /\ q # TooLong
      /\ frames' = [frames EXCEPT ![c] = Tail(@)]
      /\ reading' = [reading EXCEPT ![c] = Len(frames[c]) > 1]
      /\ received' = [received EXCEPT ![c] = IF conn[c] = "open" THEN r \o <<q>> ELSE r]
      /\ UNCHANGED <<program, conn, asked, inbound, outbound, unitsLeft>>
  BY <1>1, ServersDiffer DEF FileRead, Reply, Replies, Inv, TypeOK
<1>3. ClientInv(c) /\ TypeOK
  BY DEF Inv
<1>4. /\ conn[c] \in {"open", "closed", "lost"} /\ outbound[c] = << >>
      /\ IsSplit(asked[c], frames[c], inbound[c])
      /\ r \in Seq(Texts) /\ Due(c) \in Seq(Texts)
      /\ r \in Seq(Replied) /\ Handled(c) \in Seq(Texts) /\ IsPrefix(r, Due(c))
  BY <1>1, <1>2, <1>3, ClientFacts, HandledFacts, ServersDiffer DEF ClientInv, ReadsMatch, RepliesMatch
<1>5. conn[c] = "open" => r = Due(c)
  BY <1>1, <1>3, <1>4, ConcatEmptySeq DEF ClientInv, RepliesMatch
<1>6. /\ frames'[c] = Tail(frames[c]) /\ asked'[c] = asked[c] /\ inbound'[c] = inbound[c]
      /\ received'[c] = (IF conn[c] = "open" THEN r \o <<q>> ELSE r)
      /\ outbound'[c] = << >> /\ conn'[c] = conn[c]
      /\ server' = server /\ listening' = listening
  BY <1>2, <1>3, <1>4 DEF TypeOK, program
<1>7. reading'[c] = (Len(frames[c]) > 1)
  BY <1>2, <1>3 DEF TypeOK
<1>8. /\ IsSplit(asked'[c], frames'[c], inbound'[c])
      /\ q \in Units /\ q \in Texts /\ Due(c)' = Append(Due(c), q)
      /\ Handled(c)' = Append(Handled(c), q)
  BY <1>1, <1>2, <1>3, <1>4, <1>6, HandleFirst, ServersDiffer
<1>9. /\ Append(r, q) = r \o <<q>> /\ Append(r, q) \in Seq(Texts)
      /\ Append(Due(c), q) = Due(c) \o <<q>> /\ <<q>> \in Seq(Texts)
  BY <1>4, <1>8, ConcatAppend
<1>10. TypeOK'
  <2>1. Tail(frames[c]) \in Seq(Units)
    BY <1>2, <1>3, ClientFacts, HeadTailProperties
  <2>2. frames' \in [Clients -> Seq(Units)]
    BY <1>2, <1>3, <2>1 DEF TypeOK
  <2>3. reading' \in [Clients -> BOOLEAN]
    BY <1>2, <1>3 DEF TypeOK
  <2>4. received' \in [Clients -> Seq(Replied)]
    <3>1. q \in Replied
      BY <1>2, <1>8 DEF Replied, Answers
    <3>2. r \o <<q>> \in Seq(Replied)
      BY <3>1, <1>4, ConcatAppend
    <3> QED BY <1>2, <1>3, <1>4, <3>2 DEF TypeOK, Replied
  <2>5. Units' = Units /\ Answers' = Answers
    BY <1>6 DEF Units, Answers
  <2> QED BY <1>2, <1>3, <2>2, <2>3, <2>4, <2>5, SMTT(30) DEF TypeOK, Replied, program
<1>11. \A d \in Clients : d # c => Untouched(d)
  BY <1>2, <1>3 DEF TypeOK, Untouched
<1>12. ReadsMatch(c)'
  <2>1. Tail(frames[c]) # << >> => Len(frames[c]) > 1
    BY <1>2, <1>3, ClientFacts, HeadTailProperties, EmptySeq
  <2> QED BY <2>1, <1>4, <1>6, <1>7, <1>8 DEF ReadsMatch
<1>13. RepliesMatch(c)'
  <2>1. IsPrefix(Append(r, q), Append(r, q)) /\ Append(r, q) \o << >> = Append(r, q)
    <3>1. PICK w : w = Append(r, q)
      OBVIOUS
    <3>2. w \in Seq(Texts)
      BY <3>1, <1>9
    <3>3. IsPrefix(w, w) /\ w \o << >> = w
      BY <3>2, PrefixByIndex, ConcatEmptySeq
    <3> QED BY <3>1, <3>3
  <2>2. IsPrefix(r, Due(c) \o <<q>>)
    BY <1>4, <1>9, PrefixOfConcat
  <2>3. CASE conn[c] = "open"
    BY <2>1, <2>3, <1>5, <1>6, <1>8, <1>9 DEF RepliesMatch
  <2>4. CASE conn[c] # "open"
    BY <2>2, <2>4, <1>4, <1>6, <1>8, <1>9 DEF RepliesMatch
  <2> QED BY <2>3, <2>4
<1>14. CloseIsSaid(c)'
  <2>1. CASE conn[c] = "open"
    BY <2>1, <1>6 DEF CloseIsSaid
  <2>2. CASE conn[c] # "open"
    <3>1. Range(Append(Handled(c), q)) = Range(Handled(c)) \cup {q}
      BY <1>4, <1>8, AppendRange
    <3> QED BY <2>2, <3>1, <1>1, <1>3, <1>6, <1>8, CloseKept
  <2> QED BY <2>1, <2>2
<1> QED BY <1>2, <1>10, <1>11, <1>12, <1>13, <1>14, OneClientMoves DEF ClientInv, program

LEMMA DiscardReadInv ==
  ASSUME Inv, NEW c \in Clients, DiscardRead(c)
  PROVE  Inv'
<1>1. /\ server = Discard /\ reading[c]
      /\ frames' = [frames EXCEPT ![c] = << >>]
      /\ reading' = [reading EXCEPT ![c] = FALSE]
      /\ UNCHANGED <<program, conn, asked, inbound, outbound, received, unitsLeft>>
  BY DEF DiscardRead
<1>2. ClientInv(c) /\ TypeOK
  BY DEF Inv
<1>3. /\ conn[c] \notin {"none", "accepted"} /\ outbound[c] = << >>
      /\ IsSplit(asked[c], frames[c], inbound[c])
      /\ Handled(c) \in Seq(Texts) /\ frames[c] \in Seq(Texts)
  BY <1>1, <1>2, ClientFacts, HandledFacts, ServersDiffer DEF ClientInv, ReadsMatch
<1>4. /\ frames'[c] = << >> /\ asked'[c] = asked[c] /\ inbound'[c] = inbound[c]
      /\ received'[c] = received[c] /\ outbound'[c] = outbound[c] /\ conn'[c] = conn[c]
      /\ server' = server
  BY <1>1, <1>2 DEF TypeOK, program
<1>5. ~ reading'[c]
  BY <1>1, <1>2 DEF TypeOK
<1>6. /\ IsSplit(asked'[c], frames'[c], inbound'[c]) /\ Due(c)' = Due(c)
      /\ Handled(c)' = Handled(c) \o frames[c]
  BY <1>1, <1>2, <1>3, <1>4, HandleAll
<1>7. TypeOK'
  <2>1. frames' \in [Clients -> Seq(Units)] /\ reading' \in [Clients -> BOOLEAN]
    BY <1>1, <1>2 DEF TypeOK
  <2> QED BY <1>1, <1>2, <2>1 DEF TypeOK, program, Units, Answers
<1>8. \A d \in Clients : d # c => Untouched(d)
  BY <1>1, <1>2 DEF TypeOK, Untouched
<1>9. ReadsMatch(c)'
  BY <1>3, <1>4, <1>5, <1>6 DEF ReadsMatch
<1>10. RepliesMatch(c)'
  BY <1>2, <1>3, <1>4, <1>6 DEF ClientInv, RepliesMatch
<1>11. CloseIsSaid(c)'
  <2>1. Range(Handled(c)) \subseteq Range(Handled(c) \o frames[c])
    BY <1>3, RangeOfConcat
  <2> QED BY <2>1, <1>1, <1>2, <1>4, <1>6, CloseKept DEF program
<1> QED BY <1>1, <1>7, <1>8, <1>9, <1>10, <1>11, OneClientMoves DEF ClientInv, program

(* The boss loop, the main thread and the end of the event loops.          *)
LEMMA ShutdownInv ==
  ASSUME Inv, CloseListening \/ MainWakes \/ LoopsEnd
  PROVE  Inv'
<1>1. /\ UNCHANGED <<server, conn, traffic, unitsLeft>> /\ (listening' => listening)
      /\ closing' = closing
  BY DEF CloseListening, MainWakes, LoopsEnd, Inv, TypeOK
<1>2. ShutdownInOrder' /\ listening' \in BOOLEAN /\ main' \in {"waiting", "ended"}
      /\ loops' \in {"running", "shuttingDown", "terminated"}
  <2>1. CASE CloseListening
    BY <2>1 DEF CloseListening, Inv, TypeOK, ShutdownInOrder
  <2>2. CASE MainWakes
    BY <2>2 DEF MainWakes, Inv, TypeOK, ShutdownInOrder
  <2>3. CASE LoopsEnd
    BY <2>3 DEF LoopsEnd, Inv, TypeOK, ShutdownInOrder
  <2> QED BY <2>1, <2>2, <2>3
<1>3. TypeOK'
  BY <1>1, <1>2 DEF Inv, TypeOK, traffic, Units, Answers
<1>4. ASSUME NEW c \in Clients PROVE ClientInv(c)'
  BY <1>1, UntouchedInv DEF Inv, Untouched, traffic
<1> QED BY <1>2, <1>3, <1>4 DEF Inv

-----------------------------------------------------------------------------
LEMMA NextInv == Inv /\ [Next]_vars => Inv'
<1> SUFFICES ASSUME Inv, [Next]_vars PROVE Inv'
  OBVIOUS
<1>1. ASSUME NEW c \in Clients, Connect(c) \/ Send(c) \/ Lose(c) \/ CloseAll(c) PROVE Inv'
  BY <1>1, ConnectInv, SendInv, LoseInv, CloseAllInv
<1>2. ASSUME NEW c \in Clients, Handle(c) PROVE Inv'
  BY <1>2, ChannelActiveInv, ReadInv, TelnetReadInv, TelnetReadCompleteInv,
     LineTooLongInv, EchoReadInv, FileReadInv, DiscardReadInv DEF Handle
<1>3. CASE CloseListening \/ MainWakes \/ LoopsEnd
  BY <1>3, ShutdownInv
<1>4. CASE UNCHANGED vars
  <2>1. TypeOK' /\ ShutdownInOrder'
    BY <1>4 DEF Inv, TypeOK, ShutdownInOrder, vars, program, traffic, Units, Answers
  <2>2. ASSUME NEW c \in Clients PROVE ClientInv(c)'
    BY <1>4, UntouchedInv DEF Inv, Untouched, vars, program, traffic
  <2> QED BY <2>1, <2>2 DEF Inv
<1> QED BY <1>1, <1>2, <1>3, <1>4 DEF Next

(* InvHolds: the invariant above is kept by every event of every thread.   *)
THEOREM InvHolds == Spec => []Inv
<1>1. Init => Inv
  BY InitInv
<1>2. Inv /\ [Next]_vars => Inv'
  BY NextInv
<1> QED BY <1>1, <1>2, PTL DEF Spec

(* TypeCorrect: the servers' channels, flags and streams keep their types. *)
THEOREM TypeCorrect == Spec => []TypeOK
<1>1. Inv => TypeOK
  BY DEF Inv
<1> QED BY <1>1, InvHolds, PTL

(* RepliesInOrder: each client of each server gets the replies to what it  *)
(* has sent in order and without a gap, whatever the others do, however    *)
(* the stream is cut, and whenever connection or server are closed.        *)
THEOREM RepliesInOrder == Spec => []AnswersInOrder
<1>1. Inv => AnswersInOrder
  <2> SUFFICES ASSUME Inv, NEW c \in Clients
               PROVE  /\ IsPrefix(received[c], Due(c))
                      /\ conn[c] = "open" /\ ~ reading[c] => received[c] = Due(c)
    BY DEF AnswersInOrder
  <2>1. ClientInv(c) /\ received[c] \in Seq(Texts)
    BY ClientFacts DEF Inv
  <2>2. ~ reading[c] => outbound[c] = << >>
    BY <2>1 DEF ClientInv, ReadsMatch
  <2> QED BY <2>1, <2>2, ConcatEmptySeq DEF ClientInv, RepliesMatch
<1> QED BY <1>1, InvHolds, PTL

(* ClosesAreSaid: while it listens, a server closes a connection only when *)
(* that client has asked for it, and for "bye" and "END" not before it has *)
(* answered, or has sent a line at which the decoder throws.               *)
THEOREM ClosesAreSaid == Spec => []EveryCloseIsSaid
<1>1. Inv => EveryCloseIsSaid
  BY DEF Inv, ClientInv, CloseIsSaid, EveryCloseIsSaid
<1> QED BY <1>1, InvHolds, PTL
=============================================================================
