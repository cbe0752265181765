------------------------ MODULE RoutingCommandsProofs ------------------------
(***************************************************************************)
(* Proofs about RoutingCommands: for any assets, any number of commands    *)
(* and of starts of the daemon, and wherever the select! drops the hub's   *)
(* next(): what a run applies are the commands of the stream in their      *)
(* order, all of them as long as no work in hand was dropped; every asset  *)
(* with a limit is then listened to; and a limit goes only for a Del that  *)
(* no later adjustment overrides.                                          *)
(***************************************************************************)
EXTENDS RoutingCommands, SequenceTheorems, WellFoundedInduction, TLAPS

(***************************************************************************)
(* The strengthening.                                                      *)
(***************************************************************************)
Entries == [op : {"New"}, asset : Assets] \union [op : {"Adj"}, id : AllLimits]
             \union [op : {"Del"}, id : AllLimits, weak : BOOLEAN]

Lists ==
  /\ stream \in Seq(Entries) /\ group \in Numbers
  /\ applied \in Seq(1..group) /\ batch \in Seq(1..group) /\ command_queue \in Seq(1..group)

Shapes ==
  /\ MaxRuns \in Nat /\ run \in 0..MaxRuns /\ cmd \in Numbers /\ inherited \subseteq Numbers
  /\ checked \in BOOLEAN /\ fresh \in BOOLEAN /\ cancelled \in BOOLEAN
  /\ sub \in {"down", "read", "ack", "sleep"} /\ (sub # "down" => run > 0)
  /\ (sub = "ack" => cmd = group /\ group > 0) /\ (sub \in {"read", "sleep"} => cmd = 0)
  /\ hub \in {"start", "book", "tick", "listen"}

\* A New waits for its book at the head of the batch, its asset in use.
Hub ==
  /\ (hub = "book") = (batch # <<>>)
  /\ hub \in {"start", "listen"} => dirty = {}
  /\ hub = "book" => stream[Head(batch)].op = "New" /\ stream[Head(batch)].asset \in DOMAIN assets
  /\ assets \in [DOMAIN assets -> SUBSET AllLimits]
  /\ DOMAIN assets \subseteq Assets /\ dirty \subseteq DOMAIN assets /\ listen_books \subseteq Assets

\* Commands go from the stream to the queue, the batch and the applied ones in
\* the order of their numbers.
Ordered(q) == \A m, n \in DOMAIN q : m < n => q[m] < q[n]
Precedes(q, r) == \A m \in DOMAIN q, n \in DOMAIN r : q[m] < r[n]
Below(q, c) == \A n \in DOMAIN q : q[n] < c

Numbered(q, o) == \A n \in DOMAIN q : q[n] = o + n

InOrder(p, q, r) ==
  /\ Ordered(p) /\ Ordered(q) /\ Ordered(r)
  /\ Precedes(p, q) /\ Precedes(p, r) /\ Precedes(q, r)
  /\ sub = "ack" => Below(p, cmd) /\ Below(q, cmd) /\ Below(r, cmd)

Order == InOrder(applied, batch, command_queue)

\* None is missing while nothing was dropped.
Contiguous(p, q, r) ==
  sub # "down" /\ ~cancelled =>
    /\ Numbered(p, 0) /\ Numbered(q, Len(p)) /\ Numbered(r, Len(p) + Len(q))
    /\ Len(p) + Len(q) + Len(r) = IF cmd = 0 THEN group ELSE group - 1

NoGap == Contiguous(applied, batch, command_queue)

\* An asset with limits that is not listened to yet is dirty.
Listens ==
  ~cancelled => \A a \in DOMAIN assets : assets[a] # {} => a \in listen_books \union dirty

RoutingInv == Shapes /\ Lists /\ Hub /\ Order /\ NoGap /\ Listens
-----------------------------------------------------------------------------
(***************************************************************************)
(* Sequences.                                                              *)
(***************************************************************************)
\* A sequence cut after k places.
LEMMA CutIs ==
  ASSUME NEW S, NEW q \in Seq(S), NEW k \in 0..Len(q)
  PROVE  /\ Len(q) \in Nat /\ DOMAIN q = 1..Len(q) /\ \A n \in 1..Len(q) : q[n] \in S
         /\ SubSeq(q, 1, k) \in Seq(S) /\ Len(SubSeq(q, 1, k)) = k /\ DOMAIN SubSeq(q, 1, k) = 1..k
         /\ \A n \in 1..k : SubSeq(q, 1, k)[n] = q[n]
         /\ SubSeq(q, k + 1, Len(q)) \in Seq(S)
         /\ Len(SubSeq(q, k + 1, Len(q))) = Len(q) - k /\ DOMAIN SubSeq(q, k + 1, Len(q)) = 1..(Len(q) - k)
         /\ \A n \in 1..(Len(q) - k) : SubSeq(q, k + 1, Len(q))[n] = q[k + n]
<1> DEFINE L == Len(q)
           b == k + 1
           front == SubSeq(q, 1, k)
           back == SubSeq(q, b, L)
<1>1. L \in Nat /\ DOMAIN q = 1..L /\ \A n \in 1..L : q[n] \in S
  BY LenProperties, ElementOfSeq
<1>2. k \in Int /\ b \in Int /\ b = k + 1 /\ L \in Int /\ 0 <= k /\ k <= L
  BY <1>1
<1> HIDE DEF L, b
<1>3. front \in Seq(S) /\ Len(front) = k /\ \A n \in 1..k : front[n] = q[n]
  <2>1. /\ \A n \in 1..k : q[n] \in S /\ 1 \in Int
    BY <1>1, <1>2
  <2>2. /\ front \in Seq(S)
        /\ Len(front) = IF 1 <= k THEN k - 1 + 1 ELSE 0
        /\ \A n \in 1..(k - 1 + 1) : front[n] = q[1 + n - 1]
    BY <1>2, <2>1, SubSeqProperties
  <2> QED  BY <1>2, <2>2
<1>4. back \in Seq(S) /\ Len(back) = L - k /\ \A n \in 1..(L - k) : back[n] = q[k + n]
  <2>1. \A n \in b..L : q[n] \in S
    BY <1>1, <1>2
  <2>2. /\ back \in Seq(S)
        /\ Len(back) = IF b <= L THEN L - b + 1 ELSE 0
        /\ \A n \in 1..(L - b + 1) : back[n] = q[b + n - 1]
    BY <1>2, <2>1, SubSeqProperties
  <2>3. Len(back) = L - k
    BY <1>1, <1>2, <2>2
  <2>4. ASSUME NEW n \in 1..(L - k)  PROVE back[n] = q[k + n]
    <3>1. n \in 1..(L - b + 1) /\ b + n - 1 = k + n
      BY <1>1, <1>2
    <3> QED  BY <2>2, <3>1
  <2> QED  BY <2>2, <2>3, <2>4
<1> HIDE DEF front, back
<1>5. DOMAIN front = 1..k /\ DOMAIN back = 1..(L - k)
  BY <1>3, <1>4, LenProperties
<1> QED  BY <1>1, <1>2, <1>3, <1>4, <1>5 DEF L, b, front, back

\* From place o on, x is q up to its place n.
Holds(x, o, q, n) == \A m \in 1..n : x[o + m] = q[m]

\* Two sequences, one after the other.
LEMMA JoinedIs ==
  ASSUME NEW S, NEW p \in Seq(S), NEW q \in Seq(S)
  PROVE  /\ Len(p) \in Nat /\ DOMAIN p = 1..Len(p) /\ Len(q) \in Nat /\ DOMAIN q = 1..Len(q)
         /\ p \o q \in Seq(S) /\ Len(p \o q) = Len(p) + Len(q) /\ DOMAIN (p \o q) = 1..(Len(p) + Len(q))
         /\ \A n \in 1..Len(p) : (p \o q)[n] = p[n]
         /\ \A n \in 1..Len(q) : (p \o q)[Len(p) + n] = q[n]
         /\ Holds(p \o q, Len(p), q, Len(q))
<1> DEFINE a == Len(p)
           b == Len(q)
           r == p \o q
<1>1. a \in Nat /\ DOMAIN p = 1..a /\ b \in Nat /\ DOMAIN q = 1..b
  BY LenProperties
<1>2. /\ r \in Seq(S) /\ Len(r) = a + b
      /\ \A n \in 1..(a + b) : r[n] = IF n <= a THEN p[n] ELSE q[n - a]
  BY ConcatProperties
<1>3. DOMAIN r = 1..(a + b)
  BY <1>2, LenProperties
<1> HIDE DEF a, b, r
<1>4. \A n \in 1..a : r[n] = p[n]
  BY <1>1, <1>2
<1>5. ASSUME NEW n \in 1..b  PROVE r[a + n] = q[n]
  <2> DEFINE c == a + n
  <2>1. c \in 1..(a + b) /\ ~(c <= a) /\ c - a = n
    BY <1>1
  <2> HIDE DEF c
  <2>2. r[c] = q[n]
    BY <1>2, <2>1
  <2> QED  BY <2>2 DEF c
<1>6. Holds(r, a, q, b)
  BY <1>5 DEF Holds
<1> QED  BY <1>1, <1>2, <1>3, <1>4, <1>5, <1>6 DEF a, b, r

\* The first k of the commands taken, q, are applied after those applied before, p.
Moves(p, q, k, d, b) == d = p \o SubSeq(q, 1, k) /\ b = SubSeq(q, k + 1, Len(q))

\* What that keeps.
LEMMA CommandsMove ==
  ASSUME NEW S \in SUBSET Int, NEW did \in Seq(S), NEW queue \in Seq(S), NEW k \in 0..Len(queue),
         NEW d, NEW b, Moves(did, queue, k, d, b)
  PROVE  /\ d \in Seq(S) /\ b \in Seq(S)
         /\ Len(d) + Len(b) = Len(did) + Len(queue)
         /\ Ordered(did) /\ Ordered(queue) /\ Precedes(did, queue) => Ordered(d) /\ Ordered(b) /\ Precedes(d, b)
         /\ \A r : Precedes(did, r) /\ Precedes(queue, r) => Precedes(d, r) /\ Precedes(b, r)
         /\ \A c : Below(did, c) /\ Below(queue, c) => Below(d, c) /\ Below(b, c)
         /\ Numbered(did, 0) /\ Numbered(queue, Len(did)) => Numbered(d, 0) /\ Numbered(b, Len(d))
<1>0. d = did \o SubSeq(queue, 1, k) /\ b = SubSeq(queue, k + 1, Len(queue))
  BY DEF Moves
<1> DEFINE f == SubSeq(queue, 1, k)
           D == Len(did)
           L == Len(queue)
<1>1. /\ L \in Nat /\ DOMAIN queue = 1..L /\ \A n \in 1..L : queue[n] \in S
      /\ f \in Seq(S) /\ Len(f) = k /\ DOMAIN f = 1..k
      /\ b \in Seq(S) /\ Len(b) = L - k /\ DOMAIN b = 1..(L - k)
  BY <1>0, CutIs
<1>2. \A n \in 1..k : f[n] = queue[n]
  BY CutIs
<1>3. \A n \in 1..(L - k) : b[n] = queue[k + n]
  BY <1>0, CutIs
<1>4. k \in Nat /\ k <= L
  <2>1. k \in 0..L /\ L \in Nat
    BY LenProperties
  <2> HIDE DEF L
  <2> QED  BY <2>1
<1> HIDE DEF f, L
<1>5. /\ D \in Nat /\ DOMAIN did = 1..D
      /\ d \in Seq(S) /\ Len(d) = D + k /\ DOMAIN d = 1..(D + k)
      /\ \A n \in 1..D : d[n] = did[n]
  BY <1>0, <1>1, JoinedIs DEF f
<1>6. \A m \in 1..k : d[D + m] = queue[m]
  <2>1. \A m \in 1..k : (did \o f)[D + m] = f[m]
    BY <1>1, JoinedIs
  <2>2. d = did \o f
    BY <1>0 DEF f
  <2> QED  BY <1>2, <2>1, <2>2
<1>7. \A n \in 1..D : did[n] \in Int
  BY ElementOfSeq
<1>8. \A n \in 1..L : queue[n] \in Int
  BY <1>1
<1> HIDE DEF D
<1>9. \A n \in 1..(D + k) : n \in 1..D \/ \E m \in 1..k : n = D + m
  <2> SUFFICES ASSUME NEW n \in 1..(D + k), n \notin 1..D  PROVE \E m \in 1..k : n = D + m
    OBVIOUS
  <2>1. n - D \in 1..k /\ n = D + (n - D)
    BY <1>4, <1>5
  <2> QED  BY <2>1
<1>10. /\ \A n \in 1..(L - k) : k + n \in 1..L
       /\ \A m \in 1..k : m \in 1..L
  BY <1>1, <1>4
<1>11. ASSUME Ordered(did), Ordered(queue), Precedes(did, queue)
       PROVE  Ordered(d) /\ Ordered(b) /\ Precedes(d, b)
  <2>1. Ordered(b)
    <3> SUFFICES ASSUME NEW m \in 1..(L - k), NEW n \in 1..(L - k), m < n  PROVE b[m] < b[n]
      BY <1>1 DEF Ordered
    <3>1. k + m \in 1..L /\ k + n \in 1..L /\ k + m < k + n
      BY <1>4, <1>10
    <3>2. queue[k + m] < queue[k + n]
      BY <1>1, <1>11, <3>1 DEF Ordered
    <3> QED  BY <1>3, <3>2
  <2>2. Precedes(d, b)
    <3> SUFFICES ASSUME NEW m \in 1..(D + k), NEW n \in 1..(L - k)  PROVE d[m] < b[n]
      BY <1>1, <1>5 DEF Precedes
    <3>1. CASE m \in 1..D
      BY <1>1, <1>3, <1>5, <1>10, <1>11, <3>1 DEF Precedes
    <3>2. ASSUME NEW j \in 1..k, m = D + j  PROVE d[m] < b[n]
      <4>1. j < k + n /\ j \in 1..L /\ k + n \in 1..L
        BY <1>4, <1>10
      <4>2. queue[j] < queue[k + n]
        BY <1>1, <1>11, <4>1 DEF Ordered
      <4> QED  BY <1>3, <1>6, <3>2, <4>2
    <3> QED  BY <1>9, <3>1, <3>2
  <2>3. Ordered(d)
    <3> SUFFICES ASSUME NEW m \in 1..(D + k), NEW n \in 1..(D + k), m < n  PROVE d[m] < d[n]
      BY <1>5 DEF Ordered
    <3>1. CASE m \in 1..D /\ n \in 1..D
      BY <1>5, <1>11, <3>1 DEF Ordered
    <3>2. ASSUME m \in 1..D, NEW j \in 1..k, n = D + j  PROVE d[m] < d[n]
      BY <1>1, <1>5, <1>6, <1>10, <1>11, <3>2 DEF Precedes
    <3>3. ASSUME NEW h \in 1..k, m = D + h, NEW j \in 1..k, n = D + j  PROVE d[m] < d[n]
      <4>1. h < j /\ h \in 1..L /\ j \in 1..L
        BY <1>4, <1>5, <1>10, <3>3
      <4>2. queue[h] < queue[j]
        BY <1>1, <1>11, <4>1 DEF Ordered
      <4> QED  BY <1>6, <3>3, <4>2
    <3>4. ASSUME NEW h \in 1..k, m = D + h, n \in 1..D  PROVE FALSE
      BY <1>4, <1>5, <3>4
    <3> QED  BY <1>9, <3>1, <3>2, <3>3, <3>4
  <2> QED  BY <2>1, <2>2, <2>3
<1>12. ASSUME NEW r, Precedes(did, r), Precedes(queue, r)  PROVE Precedes(d, r) /\ Precedes(b, r)
  <2>1. Precedes(b, r)
    BY <1>1, <1>3, <1>10, <1>12 DEF Precedes
  <2>2. ASSUME NEW m \in 1..(D + k), NEW n \in DOMAIN r  PROVE d[m] < r[n]
    <3>1. CASE m \in 1..D
      BY <1>5, <1>12, <3>1 DEF Precedes
    <3>2. ASSUME NEW j \in 1..k, m = D + j  PROVE d[m] < r[n]
      BY <1>1, <1>6, <1>10, <1>12, <3>2 DEF Precedes
    <3> QED  BY <1>9, <3>1, <3>2
  <2> QED  BY <1>5, <2>1, <2>2 DEF Precedes
<1>13. ASSUME NEW c, Below(did, c), Below(queue, c)  PROVE Below(d, c) /\ Below(b, c)
  <2>1. Below(b, c)
    BY <1>1, <1>3, <1>10, <1>13 DEF Below
  <2>2. ASSUME NEW m \in 1..(D + k)  PROVE d[m] < c
    <3>1. CASE m \in 1..D
      BY <1>5, <1>13, <3>1 DEF Below
    <3>2. ASSUME NEW j \in 1..k, m = D + j  PROVE d[m] < c
      BY <1>1, <1>6, <1>10, <1>13, <3>2 DEF Below
    <3> QED  BY <1>9, <3>1, <3>2
  <2> QED  BY <1>5, <2>1, <2>2 DEF Below
<1>14. ASSUME Numbered(did, 0), Numbered(queue, D)  PROVE Numbered(d, 0) /\ Numbered(b, Len(d))
  <2>0. (\A n \in 1..D : did[n] = 0 + n) /\ (\A n \in 1..L : queue[n] = D + n)
    BY <1>1, <1>5, <1>14 DEF Numbered
  <2>1. ASSUME NEW m \in 1..(D + k)  PROVE d[m] = 0 + m
    <3>1. CASE m \in 1..D
      BY <1>5, <2>0, <3>1
    <3>2. ASSUME NEW j \in 1..k, m = D + j  PROVE d[m] = 0 + m
      <4>1. d[D + j] = queue[j] /\ queue[j] = D + j
        BY <1>6, <1>10, <2>0
      <4>2. m = 0 + m
        BY <1>4, <1>5
      <4> QED  BY <3>2, <4>1, <4>2
    <3> QED  BY <1>9, <3>1, <3>2
  <2>2. ASSUME NEW n \in 1..(L - k)  PROVE b[n] = Len(d) + n
    <3>1. queue[k + n] = D + (k + n)
      BY <1>1, <1>10, <2>0
    <3>2. D + (k + n) = (D + k) + n
      BY <1>4, <1>5
    <3> QED  BY <1>3, <1>5, <3>1, <3>2
  <2> QED  BY <1>1, <1>5, <2>1, <2>2 DEF Numbered
<1>15. Len(d) + Len(b) = D + L
  <2>1. (D + k) + (L - k) = D + L
    BY <1>1, <1>4, <1>5
  <2> QED  BY <1>1, <1>5, <2>1
<1> QED  BY <1>1, <1>5, <1>11, <1>12, <1>13, <1>14, <1>15 DEF D, L

\* A sequence that starts in x, at place o, and goes on in y.
LEMMA OffsetIs ==
  ASSUME NEW S, NEW x \in Seq(S), NEW y \in Seq(S), NEW q \in Seq(S), NEW o \in Nat, NEW k \in Nat,
         Len(x) = o + k, Len(q) = k + Len(y), Holds(x, o, q, k), Holds(q, k, y, Len(y))
  PROVE  Holds(x \o y, o, q, Len(q))
<1> DEFINE t == x \o y
           Y == Len(y)
<1>1. Y \in Nat
  BY LenProperties
<1>3. \A n \in 1..Len(x) : t[n] = x[n]
  BY JoinedIs
<1>4. \A n \in 1..Y : t[Len(x) + n] = y[n]
  BY JoinedIs
<1> HIDE DEF t, Y
<1>5. Len(q) = k + Y /\ \A n \in 1..Y : y[n] = q[k + n]
  BY DEF Y, Holds
<1>6. ASSUME NEW m \in 1..(k + Y)  PROVE t[o + m] = q[m]
  <2>1. CASE m <= k
    <3>1. m \in 1..k /\ o + m \in 1..(o + k)
      BY <1>1, <2>1
    <3> QED  BY <1>3, <3>1 DEF Holds
  <2>2. CASE ~(m <= k)
    <3>1. m - k \in 1..Y /\ (o + k) + (m - k) = o + m /\ k + (m - k) = m
      BY <1>1, <2>2
    <3>2. t[(o + k) + (m - k)] = y[m - k] /\ y[m - k] = q[k + (m - k)]
      BY <1>4, <1>5, <3>1
    <3> QED  BY <3>1, <3>2
  <2> QED  BY <2>1, <2>2
<1> QED  BY <1>5, <1>6 DEF Holds, t

\* What the step has taken and what of it it has applied.
LEMMA NewlyIs ==
  ASSUME NEW S, NEW p \in Seq(S), NEW did \in Seq(S), NEW o \in Nat, Len(did) = Len(p) + o,
         NEW queue \in Seq(S), NEW k \in 0..Len(queue),
         NEW d, NEW b, Moves(did, queue, k, d, b)
  PROVE  LET new == SubSeq(d, Len(p) + 1, Len(d))
         IN  /\ DOMAIN new = 1..(o + k) /\ Holds(new, o, queue, k)
             /\ Len(new \o b) = o + Len(queue) /\ Holds(new \o b, o, queue, Len(queue))
<1> DEFINE new == SubSeq(d, Len(p) + 1, Len(d))
<1>0. d = did \o SubSeq(queue, 1, k) /\ b = SubSeq(queue, k + 1, Len(queue))
  BY DEF Moves
<1> DEFINE f == SubSeq(queue, 1, k)
           P == Len(p)
           L == Len(queue)
<1>1. /\ L \in Nat /\ f \in Seq(S) /\ Len(f) = k /\ P \in Nat
      /\ b \in Seq(S) /\ Len(b) = L - k /\ k \in Nat /\ k <= L
  BY <1>0, CutIs, LenProperties
<1>2. \A n \in 1..k : f[n] = queue[n]
  BY CutIs
<1>3. \A n \in 1..(L - k) : b[n] = queue[k + n]
  BY <1>0, CutIs
<1> HIDE DEF f, L, P
<1>4. d \in Seq(S) /\ Len(d) = (P + o) + k
  BY <1>0, <1>1, JoinedIs DEF f, P
<1>5. \A m \in 1..k : d[(P + o) + m] = queue[m]
  <2>0. f \in Seq(S) /\ Len(f) = k
    BY <1>1
  <2>3. Holds(did \o f, Len(did), f, Len(f))
    BY <2>0, JoinedIs
  <2>1. \A m \in 1..k : (did \o f)[Len(did) + m] = f[m]
    BY <2>0, <2>3, Zenon DEF Holds
  <2>2. d = did \o f
    BY <1>0 DEF f
  <2> QED  BY <1>2, <2>1, <2>2 DEF P
<1>6. P \in 0..Len(d)
  BY <1>1, <1>4
<1>7. new \in Seq(S) /\ Len(new) = o + k /\ DOMAIN new = 1..(o + k)
  <2>1. new \in Seq(S) /\ Len(new) = Len(d) - P /\ DOMAIN new = 1..(Len(d) - P)
    BY <1>4, <1>6, CutIs DEF P
  <2>2. Len(d) - P = o + k
    BY <1>1, <1>4
  <2> QED  BY <2>1, <2>2
<1>8. Holds(new, o, queue, k)
  <2>1. \A n \in 1..(Len(d) - P) : new[n] = d[P + n]
    BY <1>4, <1>6, CutIs DEF P
  <2>2. ASSUME NEW m \in 1..k  PROVE new[o + m] = queue[m]
    <3>1. o + m \in 1..(Len(d) - P) /\ P + (o + m) = (P + o) + m
      BY <1>1, <1>4
    <3> QED  BY <1>5, <2>1, <3>1
  <2> QED  BY <2>2 DEF Holds
<1> HIDE DEF new
<1>9. Holds(queue, k, b, Len(b))
  BY <1>1, <1>3 DEF Holds
<1>10. /\ new \in Seq(S) /\ b \in Seq(S) /\ k \in Nat
       /\ Len(new) = o + k /\ Len(queue) = k + Len(b)
  BY <1>1, <1>7 DEF L
<1>11. Holds(new \o b, o, queue, Len(queue))
  BY <1>8, <1>9, <1>10, OffsetIs
<1>12. Len(new \o b) = (o + k) + (L - k) /\ (o + k) + (L - k) = o + L
  <2>1. Len(new \o b) = Len(new) + Len(b)
    BY <1>10, JoinedIs
  <2>2. (o + k) + (L - k) = o + L
    BY <1>1
  <2>3. Len(new \o b) = (o + k) + (L - k)
    BY <1>1, <1>10, <2>1, Zenon
  <2> QED  BY <2>2, <2>3, Zenon
<1>14. Len(new \o b) = o + Len(queue)
  BY <1>12, Zenon DEF L
<1> QED  BY <1>7, <1>8, <1>11, <1>14, Zenon DEF new

\* A sequence without its first element, and that one appended to another.
LEMMA HeadMoves ==
  ASSUME NEW S, NEW p \in Seq(S), NEW q \in Seq(S), q # <<>>
  PROVE  /\ Len(q) \in Nat \ {0} /\ 1 \in 0..Len(q) /\ Head(q) = q[1] /\ Head(q) \in S
         /\ Append(p, Head(q)) = p \o SubSeq(q, 1, 1)
         /\ Tail(q) = SubSeq(q, 1 + 1, Len(q))
<1>1. Len(q) \in Nat \ {0} /\ Head(q) = q[1]
  BY EmptySeq
<1>2. 1 \in 1..Len(q) /\ 1 \in 0..Len(q) /\ q[1] \in S
  BY <1>1, ElementOfSeq
<1>3. SubSeq(q, 1, 1) = <<q[1]>>
  <2>1. SubSeq(q, 1, 1) = <<q[1]>> \o SubSeq(q, 1 + 1, 1)
    BY <1>2, SubSeqRecursiveFirst
  <2>2. SubSeq(q, 1 + 1, 1) = <<>>
    BY SubSeqEmpty
  <2>3. <<q[1]>> \in Seq(S)
    BY <1>2
  <2> QED  BY <2>1, <2>2, <2>3, ConcatEmptySeq
<1>4. Append(p, Head(q)) = p \o <<q[1]>>
  BY <1>1, <1>2, AppendIsConcat
<1>5. Tail(q) = SubSeq(q, 2, Len(q))
  BY TailIsSubSeq
<1> QED  BY <1>1, <1>2, <1>3, <1>4, <1>5
-----------------------------------------------------------------------------
(***************************************************************************)
(* What apply_commands does up to its next await.                          *)
(***************************************************************************)
\* A set of naturals that is not empty has a least element.
LEMMA LeastNatural ==
  ASSUME NEW T, T \subseteq Nat, T # {}
  PROVE  \E x \in T : \A y \in T : x <= y
<1>1. PICK x \in T : \A y \in T : ~ (<<y, x>> \in OpToRel(<, Nat))
  BY NatLessThanWellFounded, WFMin
<1>2. ASSUME NEW y \in T  PROVE x <= y
  <2>1. <<y, x>> \in Nat \X Nat /\ <<y, x>>[1] = y /\ <<y, x>>[2] = x
    OBVIOUS
  <2>2. ~ (y < x)
    BY <1>1, <2>1 DEF OpToRel
  <2> QED  BY <2>2
<1> QED  BY <1>2

\* The commands before the first New, and what comes after them, if anything.
LEMMA ReadyIs ==
  ASSUME NEW S, NEW queue \in Seq(S)
  PROVE  LET k == Ready(queue) IN k \in 0..Len(queue) /\ (k # Len(queue) => stream[queue[k + 1]].op = "New")
<1> DEFINE k == Ready(queue)
           L == Len(queue)
           T == {n \in DOMAIN queue : stream[queue[n]].op = "New"} \union {L + 1}
           least == Min(T)
<1>1. L \in Nat /\ DOMAIN queue = 1..L
  BY LenProperties
<1>2. T \subseteq Nat /\ T # {} /\ T \subseteq 1..(L + 1) /\ L + 1 \in T
  BY <1>1
<1>3. \E x \in T : \A y \in T : x <= y
  BY <1>2, LeastNatural
<1>4. least \in T
  BY <1>3 DEF Min
<1>5. k = least - 1
  BY DEF Ready
<1>6. least = L + 1 \/ stream[queue[least]].op = "New"
  BY <1>4
<1>7. L \in Nat /\ least \in 1..(L + 1)
  BY <1>1, <1>2, <1>4
<1> HIDE DEF L, T, least, k
<1>8. k \in 0..L /\ k + 1 = least
  BY <1>5, <1>7
<1>9. k # L => stream[queue[k + 1]].op = "New"
  BY <1>5, <1>6, <1>7, <1>8
<1> QED  BY <1>8, <1>9 DEF L, k

\* Assets that go have no limits; the others are kept, and await their tick.
LEMMA SweepIs ==
  ASSUME NEW as, NEW ds \in SUBSET DOMAIN as, Sweep(as, ds)
  PROVE  /\ dirty' \subseteq ds /\ dirty' \subseteq DOMAIN assets' /\ DOMAIN assets' \subseteq DOMAIN as
         /\ assets' = [a \in DOMAIN assets' |-> as[a]]
         /\ \A a \in DOMAIN as : as[a] # {} => a \in DOMAIN assets' /\ (a \in ds => a \in dirty')
         /\ hub' = IF dirty' = {} THEN "listen" ELSE "tick"
<1>1. PICK gone \in SUBSET {a \in ds : as[a] = {}} :
        /\ assets' = [a \in DOMAIN as \ gone |-> as[a]]
        /\ dirty' = ds \ gone
        /\ hub' = IF dirty' = {} THEN "listen" ELSE "tick"
  BY DEF Sweep
<1>2. DOMAIN assets' = DOMAIN as \ gone
  BY <1>1
<1>3. assets' = [a \in DOMAIN assets' |-> as[a]]
  BY <1>1, <1>2
<1> QED  BY <1>1, <1>2, <1>3

\* The first k commands of the queue are applied, and hub stands where the rest
\* of the queue says; no limit comes up, and one goes only if it is deleted.
ProceedsBy(k, queue, as, ds, did) ==
  /\ Moves(did, queue, k, applied', batch')
  /\ hub' \in {"book", "tick", "listen"} /\ (hub' = "book") = (k # Len(queue))
  /\ hub' = "listen" => dirty' = {}
  /\ k # Len(queue) => stream[queue[k + 1]].op = "New" /\ stream[queue[k + 1]].asset \in DOMAIN assets'
  /\ dirty' \subseteq DOMAIN assets'
  /\ \A a \in DOMAIN assets' : a \in DOMAIN as \/ (k # Len(queue) /\ a = stream[queue[k + 1]].asset)
  /\ assets' = [a \in DOMAIN assets' |-> assets'[a]]
  /\ \A a \in DOMAIN assets' : assets'[a] # {} =>
       a \in DOMAIN as /\ assets'[a] \subseteq as[a] /\ (a \in ds => a \in dirty')
  /\ LimitsIn(as) \ LimitsIn(assets') \subseteq Deleted(queue, k)

\* That is what Proceed does, with some k.
LEMMA ProceedIs ==
  ASSUME NEW S, NEW queue \in Seq(S), NEW as, NEW ds \in SUBSET DOMAIN as, NEW did, Proceed(queue, as, ds, did)
  PROVE  \E k \in 0..Len(queue) : ProceedsBy(k, queue, as, ds, did)
<1> DEFINE k == Ready(queue)
<1> DEFINE gone == Deleted(queue, k)
           left == [a \in DOMAIN as |-> as[a] \ gone]
           found == {a \in DOMAIN as : as[a] \intersect (gone \union Adjusted(queue, k)) # {}}
           new == stream[queue[k + 1]].asset
<1>1. /\ batch' = SubSeq(queue, k + 1, Len(queue)) /\ applied' = did \o SubSeq(queue, 1, k)
      /\ k = Len(queue) => Sweep(left, ds \union found)
      /\ k # Len(queue) =>
           /\ assets' = [a \in DOMAIN as \union {new} |-> IF a \in DOMAIN as THEN left[a] ELSE {}]
           /\ dirty' = ds \union found
           /\ hub' = "book"
  BY DEF Proceed
<1> HIDE DEF k
<1>2. k \in 0..Len(queue) /\ (k # Len(queue) => stream[queue[k + 1]].op = "New")
  BY ReadyIs DEF k
<1> DEFINE D == DOMAIN as
<1>3. DOMAIN left = D /\ \A a \in D : left[a] = as[a] \ gone
  OBVIOUS
<1>4. ds \union found \in SUBSET D
  OBVIOUS
<1> HIDE DEF gone, left, found
\* Either way these four hold, and the rest follows from them.
<1>5. /\ dirty' \subseteq DOMAIN assets'
      /\ \A a \in DOMAIN assets' : assets'[a] = IF a \in D THEN left[a] ELSE {}
      /\ \A a \in D : left[a] # {} => a \in DOMAIN assets' /\ (a \in ds => a \in dirty')
      /\ assets' = [a \in DOMAIN assets' |-> assets'[a]]
  <2>1. CASE k = Len(queue)
    <3>1. /\ dirty' \subseteq DOMAIN assets' /\ DOMAIN assets' \subseteq DOMAIN left
          /\ assets' = [a \in DOMAIN assets' |-> left[a]]
          /\ \A a \in DOMAIN left : left[a] # {} => a \in DOMAIN assets' /\ (a \in ds \union found => a \in dirty')
      BY <1>1, <1>3, <1>4, <2>1, SweepIs
    <3> QED  BY <1>3, <3>1
  <2>2. CASE k # Len(queue)
    <3>1. DOMAIN assets' = D \union {new}
      BY <1>1, <2>2
    <3> QED  BY <1>1, <1>4, <2>2, <3>1
  <2> QED  BY <2>1, <2>2
<1>6. /\ hub' \in {"book", "tick", "listen"} /\ (hub' = "book") = (k # Len(queue))
      /\ hub' = "listen" => dirty' = {}
      /\ \A a \in DOMAIN assets' : a \in D \/ (k # Len(queue) /\ a = new)
      /\ k # Len(queue) => new \in DOMAIN assets'
  <2>1. CASE k = Len(queue)
    <3>1. DOMAIN assets' \subseteq DOMAIN left /\ hub' = IF dirty' = {} THEN "listen" ELSE "tick"
      BY <1>1, <1>3, <1>4, <2>1, SweepIs
    <3> QED  BY <1>3, <2>1, <3>1
  <2>2. CASE k # Len(queue)
    BY <1>1, <2>2
  <2> QED  BY <2>1, <2>2
<1>7. ASSUME NEW l \in LimitsIn(as), l \notin LimitsIn(assets')  PROVE l \in gone
  <2>1. PICK a \in D : l \in as[a]
    BY DEF LimitsIn
  <2>2. SUFFICES ASSUME l \notin gone  PROVE FALSE
    OBVIOUS
  <2>3. l \in left[a]
    BY <1>3, <2>1, <2>2
  <2>4. a \in DOMAIN assets' /\ l \in assets'[a]
    BY <1>5, <2>3
  <2> QED  BY <1>7, <2>4 DEF LimitsIn
<1>8. ASSUME NEW a \in DOMAIN assets', assets'[a] # {}
      PROVE  a \in D /\ assets'[a] \subseteq as[a] /\ (a \in ds => a \in dirty')
  BY <1>3, <1>5, <1>8
<1>9. Moves(did, queue, k, applied', batch')
  BY <1>1 DEF Moves
<1>10. LimitsIn(as) \ LimitsIn(assets') \subseteq Deleted(queue, k)
  BY <1>7 DEF gone
<1>11. ProceedsBy(k, queue, as, ds, did)
  BY <1>1, <1>2, <1>5, <1>6, <1>8, <1>9, <1>10 DEF ProceedsBy
<1> QED  BY <1>2, <1>11
-----------------------------------------------------------------------------
(***************************************************************************)
(* The steps of the hub.                                                   *)
(***************************************************************************)
\* Applying the next k commands taken keeps what is known of their order.
LEMMA OrderMoves ==
  ASSUME Lists, NEW p \in Seq(1..group), NEW q \in Seq(1..group), NEW r, NEW k \in 0..Len(q),
         NEW d, NEW b, Moves(p, q, k, d, b), InOrder(p, q, r), Contiguous(p, q, r)
  PROVE  d \in Seq(1..group) /\ b \in Seq(1..group) /\ InOrder(d, b, r) /\ Contiguous(d, b, r)
<1> DEFINE S == 1..group
<1>1. S \in SUBSET Int
  BY DEF Lists, Numbers
<1> HIDE DEF S
<1>2. p \in Seq(S) /\ q \in Seq(S)
  BY DEF S
<1>3. /\ d \in Seq(S) /\ b \in Seq(S)
      /\ Len(d) + Len(b) = Len(p) + Len(q)
  BY <1>1, <1>2, CommandsMove
<1>4. InOrder(d, b, r)
  <2>1. Ordered(d) /\ Ordered(b) /\ Precedes(d, b)
    BY <1>1, <1>2, CommandsMove DEF InOrder
  <2>2. Precedes(d, r) /\ Precedes(b, r)
    BY <1>1, <1>2, CommandsMove DEF InOrder
  <2>3. ASSUME Below(p, cmd), Below(q, cmd)  PROVE Below(d, cmd) /\ Below(b, cmd)
    BY <1>1, <1>2, <2>3, CommandsMove
  <2> QED  BY <2>1, <2>2, <2>3 DEF InOrder
<1>5. ASSUME Numbered(p, 0), Numbered(q, Len(p))  PROVE Numbered(d, 0) /\ Numbered(b, Len(d))
  BY <1>1, <1>2, <1>5, CommandsMove
<1>6. Contiguous(d, b, r)
  BY <1>3, <1>5 DEF Contiguous
<1> QED  BY <1>3, <1>4, <1>6 DEF S

\* What Proceed leaves keeps the invariant.
LEMMA ProceedKeeps ==
  ASSUME Shapes, Lists, listen_books \subseteq Assets,
         UNCHANGED <<busVars, run, sub, cmd, listen_books, inherited, cancelled>>,
         NEW did \in Seq(1..group), NEW queue \in Seq(1..group), command_queue' \in Seq(1..group),
         NEW as, as \in [DOMAIN as -> SUBSET AllLimits], DOMAIN as \subseteq Assets, NEW ds \in SUBSET DOMAIN as,
         InOrder(did, queue, command_queue'), Contiguous(did, queue, command_queue'),
         ~cancelled => \A a \in DOMAIN as : as[a] # {} => a \in listen_books \union ds,
         Proceed(queue, as, ds, did)
  PROVE  RoutingInv'
<1> DEFINE S == 1..group
           L == Len(queue)
<1>0. PICK k \in 0..L : ProceedsBy(k, queue, as, ds, did)
  BY ProceedIs
<1>1. /\ Moves(did, queue, k, applied', batch')
      /\ hub' \in {"book", "tick", "listen"} /\ (hub' = "book") = (k # L)
      /\ hub' = "listen" => dirty' = {}
      /\ k # L => stream[queue[k + 1]].op = "New" /\ stream[queue[k + 1]].asset \in DOMAIN assets'
      /\ dirty' \subseteq DOMAIN assets'
      /\ \A a \in DOMAIN assets' : a \in DOMAIN as \/ (k # L /\ a = stream[queue[k + 1]].asset)
      /\ assets' = [a \in DOMAIN assets' |-> assets'[a]]
      /\ \A a \in DOMAIN assets' : assets'[a] # {} =>
           a \in DOMAIN as /\ assets'[a] \subseteq as[a] /\ (a \in ds => a \in dirty')
  BY <1>0 DEF ProceedsBy
<1>2. batch' = SubSeq(queue, k + 1, L)
  BY <1>1 DEF Moves
<1>3. /\ applied' \in Seq(S) /\ batch' \in Seq(S)
      /\ InOrder(applied', batch', command_queue') /\ Contiguous(applied', batch', command_queue')
  BY <1>1, OrderMoves
<1>4. L \in Nat /\ \A n \in 1..L : queue[n] \in S
  BY LenProperties, ElementOfSeq
<1> HIDE DEF L
<1>5. (k # L) = (batch' # <<>>) /\ (k # L => Head(batch') = queue[k + 1])
  <2>1. Len(batch') = L - k /\ \A n \in 1..(L - k) : batch'[n] = queue[k + n]
    BY <1>2, CutIs DEF L
  <2>2. CASE k = L
    <3>1. Len(batch') = 0
      BY <1>4, <2>1, <2>2
    <3>2. batch' = <<>>
      BY <1>3, <3>1, EmptySeq
    <3> QED  BY <2>2, <3>2
  <2>3. CASE k # L
    <3>1. 1 \in 1..(L - k) /\ L - k # 0
      BY <1>1, <1>4, <2>3
    <3>2. batch'[1] = queue[k + 1] /\ batch' # <<>>
      BY <2>1, <3>1, EmptySeq
    <3>3. Head(batch') = batch'[1]
      BY <1>3, <3>2, HeadMoves
    <3> QED  BY <2>3, <3>2, <3>3
  <2> QED  BY <2>2, <2>3
<1>6. UNCHANGED <<stream, group, run, sub, cmd, listen_books, inherited, cancelled, checked, fresh>>
  BY DEF busVars
<1>7. Numbers' = Numbers /\ AllLimits' = AllLimits /\ Entries' = Entries
  BY <1>6 DEF Numbers, AllLimits, Entries
<1>8. Shapes'
  BY <1>1, <1>6, <1>7 DEF Shapes
<1>9. Lists'
  BY <1>3, <1>6, <1>7 DEF Lists
<1>10. DOMAIN assets' \subseteq Assets /\ assets' \in [DOMAIN assets' -> SUBSET AllLimits]
  <2>1. ASSUME k # L  PROVE stream[queue[k + 1]].asset \in Assets
    <3>1. k + 1 \in 1..L
      BY <1>1, <1>4, <2>1
    <3>2. queue[k + 1] \in 1..group
      BY <1>4, <3>1
    <3>3. queue[k + 1] \in 1..Len(stream) /\ stream \in Seq(Entries)
      BY <3>2 DEF Lists, Numbers
    <3>4. stream[queue[k + 1]] \in Entries
      BY <3>3, ElementOfSeq
    <3>5. stream[queue[k + 1]].op = "New"
      BY <1>1, <2>1
    <3> QED  BY <3>4, <3>5 DEF Entries
  <2>2. DOMAIN assets' \subseteq Assets
    BY <1>1, <2>1
  <2>3. \A a \in DOMAIN assets' : assets'[a] \in SUBSET AllLimits
    BY <1>1
  <2> QED  BY <1>1, <2>2, <2>3
<1>11. Hub'
  <2>1. (hub' = "book") = (batch' # <<>>)
    BY <1>1, <1>5
  <2>2. hub' = "book" => stream'[Head(batch')].op = "New" /\ stream'[Head(batch')].asset \in DOMAIN assets'
    BY <1>1, <1>5, <1>6
  <2>3. hub' \in {"start", "listen"} => dirty' = {}
    BY <1>1
  <2>4. listen_books' \subseteq Assets
    BY <1>6
  <2> QED  BY <1>1, <1>7, <1>10, <2>1, <2>2, <2>3, <2>4 DEF Hub
<1>12. Order' /\ NoGap'
  BY <1>3, <1>6 DEF Order, NoGap, InOrder, Contiguous
<1>13. Listens'
  <2> SUFFICES ASSUME ~cancelled', NEW a \in DOMAIN assets', assets'[a] # {}
               PROVE  a \in listen_books' \union dirty'
    BY DEF Listens
  <2>1. a \in DOMAIN as /\ as[a] # {} /\ (a \in ds => a \in dirty')
    BY <1>1
  <2>2. \A x \in DOMAIN as : as[x] # {} => x \in listen_books \union ds
    <3>1. ~cancelled
      BY <1>6
    <3> QED  BY <3>1, Zenon
  <2> QED  BY <1>6, <2>1, <2>2
<1> QED  BY <1>8, <1>9, <1>11, <1>12, <1>13 DEF RoutingInv

\* With no command at all there is nothing to put in order.
LEMMA NothingIs ==
  /\ Len(<<>>) = 0 /\ DOMAIN <<>> = {} /\ \A S : <<>> \in Seq(S)
  /\ Ordered(<<>>)
  /\ \A r : Precedes(<<>>, r) /\ Precedes(r, <<>>) /\ Below(<<>>, r) /\ Numbered(<<>>, r)
<1>1. \A S : <<>> \in Seq(S) /\ Len(<<>>) = 0
  BY EmptySeq
<1>2. <<>> \in Seq({}) /\ Len(<<>>) = 0
  BY <1>1
<1>3. DOMAIN <<>> = 1..Len(<<>>)
  BY <1>2, LenProperties
<1>4. DOMAIN <<>> = {}
  BY <1>2, <1>3
<1> QED  BY <1>1, <1>4 DEF Ordered, Precedes, Below, Numbered

\* Its next() takes all that is in the queue; it held nothing before.
LEMMA TakeCommandsKeeps == RoutingInv /\ TakeCommands => RoutingInv'
<1> SUFFICES ASSUME RoutingInv, TakeCommands  PROVE RoutingInv'
  OBVIOUS
<1>1. /\ Shapes /\ Lists /\ Hub /\ Order /\ NoGap /\ Listens
      /\ hub = "start" /\ command_queue' = <<>>
      /\ Proceed(command_queue, assets, {}, applied)
      /\ UNCHANGED <<busVars, run, sub, cmd, listen_books, inherited, cancelled>>
  BY DEF RoutingInv, TakeCommands, QueueTaken
<1>2. /\ batch = <<>> /\ dirty = {} /\ listen_books \subseteq Assets
      /\ assets \in [DOMAIN assets -> SUBSET AllLimits] /\ DOMAIN assets \subseteq Assets
  BY <1>1 DEF Hub
<1>3. InOrder(applied, command_queue, command_queue')
  BY <1>1, <1>2, NothingIs DEF Order, InOrder
<1>4. Contiguous(applied, command_queue, command_queue')
  <2> SUFFICES ASSUME sub # "down" /\ ~cancelled
               PROVE  /\ Numbered(applied, 0) /\ Numbered(command_queue, Len(applied))
                      /\ Len(applied) + Len(command_queue) + 0 = IF cmd = 0 THEN group ELSE group - 1
    BY <1>1, NothingIs DEF Contiguous
  <2>1. /\ Numbered(applied, 0) /\ Numbered(command_queue, Len(applied) + 0)
        /\ Len(applied) + 0 + Len(command_queue) = IF cmd = 0 THEN group ELSE group - 1
    BY <1>1, <1>2, NothingIs DEF NoGap, Contiguous
  <2>2. Len(applied) \in Nat /\ Len(command_queue) \in Nat
    BY <1>1, LenProperties DEF Lists
  <2> QED  BY <2>1, <2>2
<1>5. /\ applied \in Seq(1..group) /\ command_queue \in Seq(1..group) /\ command_queue' \in Seq(1..group)
      /\ {} \in SUBSET DOMAIN assets
  BY <1>1, NothingIs DEF Lists
<1>6. ~cancelled => \A a \in DOMAIN assets : assets[a] # {} => a \in listen_books \union {}
  BY <1>1, <1>2 DEF Listens
<1> QED  BY <1>1, <1>2, <1>3, <1>4, <1>5, <1>6, ProceedKeeps

\* The book is there: the New at the head of the batch adds its limit.
LEMMA AddLimitKeeps == RoutingInv /\ AddLimit => RoutingInv'
<1> SUFFICES ASSUME RoutingInv, AddLimit  PROVE RoutingInv'
  OBVIOUS
<1> DEFINE new == Head(batch)
           asset == stream[new].asset
           limit == [run |-> run, new |-> new]
           added == [assets EXCEPT ![asset] = @ \union {limit}]
           did == Append(applied, new)
           queue == Tail(batch)
           ds == dirty \union {asset}
<1>1. /\ Shapes /\ Lists /\ Hub /\ Order /\ NoGap /\ Listens
      /\ sub # "down" /\ hub = "book" /\ command_queue' = command_queue
      /\ Proceed(queue, added, ds, did)
      /\ UNCHANGED <<busVars, run, sub, cmd, listen_books, inherited, cancelled>>
  BY DEF RoutingInv, AddLimit, DirtyWith
<1>2. /\ batch # <<>> /\ asset \in DOMAIN assets /\ listen_books \subseteq Assets /\ dirty \subseteq DOMAIN assets
      /\ assets \in [DOMAIN assets -> SUBSET AllLimits] /\ DOMAIN assets \subseteq Assets
  BY <1>1 DEF Hub
<1>3. applied \in Seq(1..group) /\ batch \in Seq(1..group) /\ command_queue' \in Seq(1..group)
  BY <1>1 DEF Lists
<1>4. 1 \in 0..Len(batch) /\ new \in 1..group /\ Moves(applied, batch, 1, did, queue)
  BY <1>2, <1>3, HeadMoves DEF Moves
<1>5. limit \in AllLimits
  BY <1>1, <1>4 DEF Shapes, Lists, AllLimits, Numbers
<1> HIDE DEF limit, did, queue
<1>6. /\ did \in Seq(1..group) /\ queue \in Seq(1..group)
      /\ InOrder(did, queue, command_queue) /\ Contiguous(did, queue, command_queue)
  BY <1>1, <1>3, <1>4, OrderMoves DEF Order, NoGap
<1>7. DOMAIN added = DOMAIN assets /\ \A a \in DOMAIN added :
        added[a] = IF a = asset THEN assets[a] \union {limit} ELSE assets[a]
  BY <1>2
<1>8. added = [a \in DOMAIN added |-> added[a]]
  OBVIOUS
<1> HIDE DEF added, asset
<1>9. added \in [DOMAIN added -> SUBSET AllLimits]
  BY <1>2, <1>5, <1>7, <1>8
<1>10. ~cancelled => \A a \in DOMAIN added : added[a] # {} => a \in listen_books \union ds
  BY <1>1, <1>7 DEF Listens
<1>11. ds \in SUBSET DOMAIN added /\ DOMAIN added \subseteq Assets
  BY <1>2, <1>7
<1> HIDE DEF ds
<1> QED  BY <1>1, <1>2, <1>3, <1>6, <1>9, <1>10, <1>11, ProceedKeeps

\* The tick of a dirty asset is subscribed to.
LEMMA PushAssetTickKeeps == RoutingInv /\ PushAssetTick => RoutingInv'
<1> SUFFICES ASSUME RoutingInv, PushAssetTick  PROVE RoutingInv'
  OBVIOUS
<1>1. PICK a \in dirty : assets[a] # {} /\ listen_books' = listen_books \union {a} /\ Sweep(assets, dirty \ {a})
  BY DEF PushAssetTick
<1>2. /\ Shapes /\ Lists /\ Hub /\ Order /\ NoGap /\ Listens
      /\ sub # "down" /\ hub = "tick"
      /\ UNCHANGED <<stream, checked, group, fresh, run, sub, cmd, command_queue, batch, applied, inherited, cancelled>>
  BY DEF RoutingInv, PushAssetTick, busVars
<1>3. /\ dirty \subseteq DOMAIN assets /\ assets \in [DOMAIN assets -> SUBSET AllLimits]
      /\ DOMAIN assets \subseteq Assets /\ listen_books \subseteq Assets /\ batch = <<>>
  BY <1>2 DEF Hub
<1>4. dirty \ {a} \in SUBSET DOMAIN assets
  BY <1>3
<1>5. /\ dirty' \subseteq dirty \ {a} /\ dirty' \subseteq DOMAIN assets' /\ DOMAIN assets' \subseteq DOMAIN assets
      /\ assets' = [x \in DOMAIN assets' |-> assets[x]]
      /\ \A x \in DOMAIN assets : assets[x] # {} => x \in DOMAIN assets' /\ (x \in dirty \ {a} => x \in dirty')
      /\ hub' = IF dirty' = {} THEN "listen" ELSE "tick"
  BY <1>1, <1>4, SweepIs
<1>6. Numbers' = Numbers /\ AllLimits' = AllLimits /\ Entries' = Entries
  BY <1>2 DEF Numbers, AllLimits, Entries
<1>7. Shapes' /\ Lists'
  BY <1>2, <1>5, <1>6 DEF Shapes, Lists
<1>8. Hub'
  <2>1. assets' \in [DOMAIN assets' -> SUBSET AllLimits]
    BY <1>3, <1>5
  <2>2. DOMAIN assets' \subseteq Assets /\ listen_books' \subseteq Assets
    BY <1>1, <1>3, <1>5
  <2>3. hub' \in {"listen", "tick"} /\ (hub' = "listen" => dirty' = {})
    BY <1>5
  <2> QED  BY <1>2, <1>3, <1>5, <1>6, <2>1, <2>2, <2>3 DEF Hub
<1>9. Order' /\ NoGap'
  BY <1>2 DEF Order, NoGap, InOrder, Contiguous
<1>10. Listens'
  <2> SUFFICES ASSUME ~cancelled', NEW x \in DOMAIN assets', assets'[x] # {}
               PROVE  x \in listen_books' \union dirty'
    BY DEF Listens
  <2>1. ~cancelled
    BY <1>2
  <2>2. \A y \in DOMAIN assets : assets[y] # {} => y \in listen_books \union dirty
    BY <1>2, <2>1, Zenon DEF Listens
  <2>3. x \in DOMAIN assets /\ assets[x] # {}
    BY <1>5
  <2> QED  BY <1>1, <1>5, <2>2, <2>3
<1> QED  BY <1>7, <1>8, <1>9, <1>10 DEF RoutingInv
-----------------------------------------------------------------------------
(***************************************************************************)
(* The other steps.                                                        *)
(***************************************************************************)
\* What there is to number grows with the stream and the runs.
LEMMA NumbersGrow ==
  ASSUME run \in Nat, run' \in Nat, run <= run', Len(stream) \in Nat, Len(stream') \in Nat, Len(stream) <= Len(stream')
  PROVE  Numbers \subseteq Numbers' /\ AllLimits \subseteq AllLimits' /\ Entries \subseteq Entries'
<1>1. Numbers \subseteq Numbers' /\ 1..run \subseteq 1..run'
  BY DEF Numbers
<1>2. AllLimits \subseteq AllLimits'
  BY <1>1 DEF AllLimits
<1> QED  BY <1>1, <1>2 DEF Entries

\* A client publishes: no command that is already known changes.
LEMMA ClientKeeps == RoutingInv /\ Client => RoutingInv'
<1> SUFFICES ASSUME RoutingInv, Client  PROVE RoutingInv'
  OBVIOUS
<1>1. Shapes /\ Lists /\ Hub /\ Order /\ NoGap /\ Listens
  BY DEF RoutingInv
<1>2. /\ group' = group /\ run' = run /\ sub' = sub /\ cmd' = cmd /\ command_queue' = command_queue
      /\ UNCHANGED <<hub, batch, dirty, assets, listen_books, applied, cancelled, inherited>>
  BY DEF Client, RequireActiveConsumer, Publish, ConsumerGoesIdle, hubVars
<1>3. checked' \in BOOLEAN /\ fresh' \in BOOLEAN
  BY <1>1 DEF Client, RequireActiveConsumer, Publish, ConsumerGoesIdle, Shapes
<1>4. Order' /\ NoGap' /\ Listens'
  BY <1>1, <1>2 DEF Order, NoGap, InOrder, Contiguous, Listens
<1>5. stream' = stream \/ \E c \in Commands : stream' = Append(stream, c)
  BY DEF Client, RequireActiveConsumer, Publish, ConsumerGoesIdle
<1>6. Limits \subseteq AllLimits
  BY <1>1 DEF Hub, Limits, LimitsIn
<1>7. Commands \subseteq Entries
  <2>1. \A a \in Assets : [op |-> "New", asset |-> a] \in Entries
    BY DEF Entries
  <2> QED  BY <1>6 DEF Commands, Entries
<1>8. /\ stream \in Seq(Entries) /\ stream' \in Seq(Entries)
      /\ Len(stream) \in Nat /\ Len(stream') \in Nat /\ Len(stream) <= Len(stream')
      /\ \A n \in 1..Len(stream) : stream'[n] = stream[n]
  <2>1. stream \in Seq(Entries) /\ Len(stream) \in Nat
    BY <1>1, LenProperties DEF Lists
  <2>2. ASSUME NEW c \in Entries, stream' = Append(stream, c)
        PROVE  /\ stream' \in Seq(Entries) /\ Len(stream') = Len(stream) + 1
               /\ \A n \in 1..Len(stream) : stream'[n] = stream[n]
    BY <2>1, <2>2, AppendProperties
  <2>3. CASE stream' = stream
    BY <2>1, <2>3
  <2>4. CASE \E c \in Commands : stream' = Append(stream, c)
    <3>1. /\ stream' \in Seq(Entries) /\ Len(stream') = Len(stream) + 1
          /\ \A n \in 1..Len(stream) : stream'[n] = stream[n]
      BY <1>7, <2>2, <2>4
    <3> QED  BY <2>1, <3>1
  <2> QED  BY <1>5, <2>3, <2>4
<1>9. Numbers \subseteq Numbers' /\ AllLimits \subseteq AllLimits' /\ Entries \subseteq Entries'
  BY <1>1, <1>2, <1>8, NumbersGrow DEF Shapes
<1>10. Shapes'
  BY <1>1, <1>2, <1>3, <1>9 DEF Shapes
<1>11. Lists'
  <2>1. stream' \in Seq(Entries')
    BY <1>8, <1>9, SeqMonotonic
  <2> QED  BY <1>1, <1>2, <1>9, <2>1 DEF Lists
<1>12. Hub'
  <2>1. ASSUME hub = "book"  PROVE stream'[Head(batch)] = stream[Head(batch)]
    <3>1. batch \in Seq(1..group) /\ batch # <<>> /\ group \in 0..Len(stream)
      BY <1>1, <2>1 DEF Hub, Lists, Numbers
    <3>2. Head(batch) \in 1..group
      BY <3>1, HeadMoves
    <3> QED  BY <1>8, <3>1, <3>2
  <2>2. assets \in [DOMAIN assets -> SUBSET AllLimits']
    BY <1>1, <1>9 DEF Hub
  <2> QED  BY <1>1, <1>2, <2>1, <2>2 DEF Hub
<1> QED  BY <1>4, <1>10, <1>11, <1>12 DEF RoutingInv

\* A fresh hub has nothing in hand.
LEMMA StreamSubscriberKeeps == RoutingInv /\ StreamSubscriber => RoutingInv'
<1> SUFFICES ASSUME RoutingInv, StreamSubscriber  PROVE RoutingInv'
  OBVIOUS
<1>1. Shapes /\ Lists
  BY DEF RoutingInv
<1>2. /\ run < MaxRuns /\ run' = run + 1 /\ sub' = "read" /\ inherited' = inherited \union ({cmd} \ {0})
      /\ group' = 0 /\ fresh' = FALSE /\ stream' = stream /\ checked' = checked
      /\ cmd' = 0 /\ command_queue' = <<>> /\ hub' = "start" /\ batch' = <<>> /\ dirty' = {}
      /\ assets' = [a \in {} |-> {}] /\ listen_books' = {} /\ applied' = <<>> /\ cancelled' = FALSE
  BY DEF StreamSubscriber, FreshHub, NewGroup, NoAssets
<1>3. run \in Nat /\ run' \in Nat /\ run <= run' /\ Len(stream) \in Nat /\ stream \in Seq(Entries)
  BY <1>1, <1>2, LenProperties DEF Shapes, Lists
<1>4. Numbers' = Numbers /\ 0 \in Numbers /\ Entries \subseteq Entries'
  BY <1>2, <1>3, NumbersGrow DEF Numbers
<1>5. Shapes'
  <2>1. MaxRuns \in Nat /\ run' \in 0..MaxRuns /\ run' > 0
    BY <1>1, <1>2 DEF Shapes
  <2>2. inherited' \subseteq Numbers'
    BY <1>1, <1>2, <1>4 DEF Shapes
  <2>3. cmd' \in Numbers' /\ checked' \in BOOLEAN /\ fresh' \in BOOLEAN /\ cancelled' \in BOOLEAN
    BY <1>1, <1>2, <1>4 DEF Shapes
  <2> QED  BY <1>2, <2>1, <2>2, <2>3 DEF Shapes
<1>6. Lists'
  BY <1>2, <1>3, <1>4, SeqMonotonic, NothingIs DEF Lists
<1>7. DOMAIN assets' = {}
  BY <1>2
<1>8. Hub' /\ Listens'
  BY <1>2, <1>7 DEF Hub, Listens
<1>9. Order'
  BY <1>2, NothingIs DEF Order, InOrder
<1>10. NoGap'
  BY <1>2, NothingIs DEF NoGap, Contiguous
<1> QED  BY <1>5, <1>6, <1>8, <1>9, <1>10 DEF RoutingInv

\* Nothing is asked of a hub that is down but the shapes.
LEMMA StopKeeps == RoutingInv /\ Stop => RoutingInv'
<1> SUFFICES ASSUME RoutingInv, Stop  PROVE RoutingInv'
  OBVIOUS
<1>1. /\ Shapes /\ Lists /\ Hub /\ Order /\ NoGap /\ Listens /\ sub' = "down"
      /\ UNCHANGED <<stream, checked, group, fresh, run, cmd, command_queue, inherited>>
      /\ UNCHANGED <<hub, batch, dirty, assets, listen_books, applied, cancelled>>
  BY DEF RoutingInv, Stop, busVars, hubVars
<1>2. Numbers' = Numbers /\ AllLimits' = AllLimits /\ Entries' = Entries
  BY <1>1 DEF Numbers, AllLimits, Entries
<1>3. Shapes' /\ Lists' /\ Hub' /\ Listens'
  BY <1>1, <1>2 DEF Shapes, Lists, Hub, Listens
<1>4. Order' /\ NoGap'
  BY <1>1 DEF Order, NoGap, InOrder, Contiguous
<1> QED  BY <1>3, <1>4 DEF RoutingInv

\* The next entry is beyond everything read so far.
LEMMA ReadGroupKeeps == RoutingInv /\ ReadGroup => RoutingInv'
<1> SUFFICES ASSUME RoutingInv, ReadGroup  PROVE RoutingInv'
  OBVIOUS
<1>1. /\ Shapes /\ Lists /\ Hub /\ Order /\ NoGap /\ Listens /\ sub = "read" /\ fresh' = TRUE
      /\ UNCHANGED <<stream, checked, run, command_queue, inherited>>
      /\ UNCHANGED <<hub, batch, dirty, assets, listen_books, applied, cancelled>>
  BY DEF RoutingInv, ReadGroup, hubVars
<1>2. \/ group < Len(stream) /\ group' = group + 1 /\ cmd' = group + 1 /\ sub' = "ack"
      \/ sub' = "sleep" /\ group' = group /\ cmd' = cmd
  BY DEF ReadGroup
<1>3. Numbers' = Numbers /\ AllLimits' = AllLimits /\ Entries' = Entries
  BY <1>1 DEF Numbers, AllLimits, Entries
<1>4. cmd = 0 /\ group \in 0..Len(stream) /\ Len(stream) \in Nat
  BY <1>1, LenProperties DEF Shapes, Lists, Numbers
<1>5. group' \in Numbers /\ cmd' \in Numbers /\ 1..group \subseteq 1..group'
  BY <1>2, <1>4 DEF Numbers
<1>6. Shapes' /\ Hub' /\ Listens'
  <2>1. sub' = "ack" => cmd' = group' /\ group' > 0
    BY <1>2, <1>4
  <2> QED  BY <1>1, <1>2, <1>3, <1>4, <1>5, <2>1 DEF Shapes, Hub, Listens
<1>7. Lists'
  BY <1>1, <1>3, <1>5, SeqMonotonic DEF Lists
<1>8. Order'
  <2>1. ASSUME NEW q \in Seq(1..group)  PROVE Below(q, group + 1)
    BY <1>4, LenProperties, ElementOfSeq DEF Below
  <2>2. Below(applied, group + 1) /\ Below(batch, group + 1) /\ Below(command_queue, group + 1)
    BY <1>1, <2>1 DEF Lists
  <2> QED  BY <1>1, <1>2, <2>2 DEF Order, InOrder
<1>9. NoGap'
  <2> SUFFICES ASSUME ~cancelled
               PROVE  /\ Numbered(applied, 0) /\ Numbered(batch, Len(applied))
                      /\ Numbered(command_queue, Len(applied) + Len(batch))
                      /\ Len(applied) + Len(batch) + Len(command_queue) = IF cmd' = 0 THEN group' ELSE group' - 1
    BY <1>1 DEF NoGap, Contiguous
  <2>1. /\ Numbered(applied, 0) /\ Numbered(batch, Len(applied))
        /\ Numbered(command_queue, Len(applied) + Len(batch))
        /\ Len(applied) + Len(batch) + Len(command_queue) = group
    BY <1>1, <1>4 DEF NoGap, Contiguous
  <2>2. group = IF cmd' = 0 THEN group' ELSE group' - 1
    BY <1>2, <1>4
  <2> QED  BY <2>1, <2>2
<1> QED  BY <1>6, <1>7, <1>8, <1>9 DEF RoutingInv

\* The hub's next() is dropped; what it had taken is gone, which cancelled says.
LEMMA DropKeeps ==
  ASSUME Shapes, Hub, Listens, sub # "down", EndSelect,
         UNCHANGED <<stream, checked, group, fresh, run, inherited>>, cmd' = 0
  PROVE  Shapes' /\ Hub' /\ Listens' /\ batch' = <<>> /\ (~cancelled' => ~cancelled /\ batch = <<>>)
<1>1. /\ sub' = "read" /\ hub' = "start" /\ batch' = <<>> /\ dirty' = {}
      /\ cancelled' = (cancelled \/ batch # <<>> \/ dirty # {})
      /\ assets' = assets /\ listen_books' = listen_books /\ applied' = applied
  BY DEF EndSelect, NoLocals
<1>2. Numbers' = Numbers /\ AllLimits' = AllLimits /\ 0 \in Numbers'
  BY DEF Numbers, AllLimits, Shapes
<1>3. ~cancelled' => ~cancelled /\ batch = <<>> /\ dirty = {}
  BY <1>1
<1>4. Hub' /\ Listens'
  BY <1>1, <1>2, <1>3 DEF Hub, Listens
<1>5. Shapes'
  <2>1. cancelled' \in BOOLEAN
    BY <1>1
  <2>2. UNCHANGED <<checked, fresh, run, inherited>>
    OBVIOUS
  <2> QED  BY <1>1, <1>2, <2>1, <2>2 DEF Shapes
<1> QED  BY <1>1, <1>3, <1>4, <1>5

\* What was read goes to the end of the queue.
LEMMA AcknowledgeKeeps == RoutingInv /\ Acknowledge => RoutingInv'
<1> SUFFICES ASSUME RoutingInv, Acknowledge  PROVE RoutingInv'
  OBVIOUS
<1>1. /\ Shapes /\ Lists /\ Hub /\ Order /\ NoGap /\ Listens /\ sub = "ack" /\ EndSelect
      /\ command_queue' = Append(command_queue, cmd) /\ cmd' = 0 /\ sub' = "read"
      /\ UNCHANGED <<stream, checked, group, fresh, run, inherited>> /\ applied' = applied
  BY DEF RoutingInv, Acknowledge, Pushed, EndSelect, busVars
<1>2. /\ Shapes' /\ Hub' /\ Listens' /\ batch' = <<>>
      /\ ~cancelled' => ~cancelled /\ batch = <<>>
  BY <1>1, DropKeeps
<1> DEFINE Q == Len(command_queue)
           queue == Append(command_queue, cmd)
<1>3. /\ cmd = group /\ group \in Nat /\ cmd \in 1..group
      /\ applied \in Seq(1..group) /\ command_queue \in Seq(1..group)
  BY <1>1, LenProperties DEF Shapes, Lists, Numbers
<1>4. /\ queue \in Seq(1..group) /\ Len(queue) = Q + 1 /\ queue[Q + 1] = cmd
      /\ \A n \in 1..Q : queue[n] = command_queue[n]
  BY <1>3, AppendProperties
<1>5. Q \in Nat /\ DOMAIN command_queue = 1..Q
  BY <1>3, LenProperties
<1> HIDE DEF Q, queue
<1>6. DOMAIN queue = 1..(Q + 1)
  BY <1>4, LenProperties
<1>7. Lists'
  <2>1. Numbers' = Numbers /\ Entries' = Entries
    BY <1>1 DEF Numbers, AllLimits, Entries
  <2> QED  BY <1>1, <1>2, <1>3, <1>4, <2>1, NothingIs DEF Lists, queue
<1>8. Order'
  <2>1. Ordered(command_queue) /\ Below(command_queue, cmd) /\ Precedes(applied, command_queue)
        /\ Below(applied, cmd) /\ Ordered(applied)
    BY <1>1 DEF Order, InOrder
  <2>2. ASSUME NEW n \in 1..(Q + 1)  PROVE n \in 1..Q \/ n = Q + 1
    BY <1>5
  <2>3. Ordered(queue)
    <3> SUFFICES ASSUME NEW m \in 1..(Q + 1), NEW n \in 1..(Q + 1), m < n  PROVE queue[m] < queue[n]
      BY <1>6 DEF Ordered
    <3>1. m \in 1..Q
      BY <1>5
    <3>2. CASE n \in 1..Q
      BY <1>4, <1>5, <2>1, <3>1, <3>2 DEF Ordered
    <3>3. CASE n = Q + 1
      BY <1>4, <1>5, <2>1, <3>1, <3>3 DEF Below
    <3> QED  BY <2>2, <3>2, <3>3
  <2>4. Precedes(applied, queue)
    <3> SUFFICES ASSUME NEW m \in DOMAIN applied, NEW n \in 1..(Q + 1)  PROVE applied[m] < queue[n]
      BY <1>6 DEF Precedes
    <3>1. CASE n \in 1..Q
      BY <1>4, <1>5, <2>1, <3>1 DEF Precedes
    <3>2. CASE n = Q + 1
      BY <1>4, <2>1, <3>2 DEF Below
    <3> QED  BY <2>2, <3>1, <3>2
  <2> QED  BY <1>1, <1>2, <2>1, <2>3, <2>4, NothingIs DEF Order, InOrder, queue
<1>9. NoGap'
  <2> SUFFICES ASSUME ~cancelled'
               PROVE  /\ Numbered(applied, 0) /\ Numbered(queue, Len(applied) + 0)
                      /\ Len(applied) + 0 + Len(queue) = group
    BY <1>1, <1>2, NothingIs DEF NoGap, Contiguous, queue
  <2>1. ~cancelled /\ batch = <<>>
    BY <1>2
  <2>2. /\ Numbered(applied, 0) /\ Numbered(command_queue, Len(applied) + 0)
        /\ Len(applied) + 0 + Q = group - 1
    <3>1. sub # "down" /\ cmd # 0
      BY <1>1, <1>3
    <3>2. /\ Numbered(applied, 0) /\ Numbered(command_queue, Len(applied) + Len(batch))
          /\ Len(applied) + Len(batch) + Q = IF cmd = 0 THEN group ELSE group - 1
      BY <1>1, <2>1, <3>1, Zenon DEF NoGap, Contiguous, Q
    <3>3. Len(batch) = 0
      BY <2>1, NothingIs
    <3> QED  BY <3>1, <3>2, <3>3
  <2>3. Len(applied) \in Nat
    BY <1>3, LenProperties
  <2>4. ASSUME NEW n \in 1..(Q + 1)  PROVE queue[n] = (Len(applied) + 0) + n
    <3>1. CASE n \in 1..Q
      BY <1>4, <1>5, <2>2, <3>1 DEF Numbered
    <3>2. CASE n = Q + 1
      BY <1>3, <1>4, <1>5, <2>2, <2>3, <3>2
    <3> QED  BY <1>5, <3>1, <3>2
  <2>5. Len(applied) + 0 + Len(queue) = group
    BY <1>3, <1>4, <1>5, <2>2, <2>3
  <2> QED  BY <1>6, <2>2, <2>4, <2>5 DEF Numbered
<1> QED  BY <1>2, <1>7, <1>8, <1>9 DEF RoutingInv

\* 100ms without a command.
LEMMA NothingReadKeeps == RoutingInv /\ NothingRead => RoutingInv'
<1> SUFFICES ASSUME RoutingInv, NothingRead  PROVE RoutingInv'
  OBVIOUS
<1>1. /\ Shapes /\ Lists /\ Hub /\ Order /\ NoGap /\ Listens /\ sub = "sleep" /\ EndSelect
      /\ command_queue' = command_queue /\ cmd' = cmd /\ cmd = 0 /\ sub' = "read"
      /\ UNCHANGED <<stream, checked, group, fresh, run, inherited>> /\ applied' = applied
  BY DEF RoutingInv, NothingRead, EndSelect, busVars, Shapes
<1>2. /\ Shapes' /\ Hub' /\ Listens' /\ batch' = <<>>
      /\ ~cancelled' => ~cancelled /\ batch = <<>>
  BY <1>1, DropKeeps
<1>3. Numbers' = Numbers /\ Entries' = Entries
  BY <1>1 DEF Numbers, AllLimits, Entries
<1>4. Lists'
  BY <1>1, <1>2, <1>3, NothingIs DEF Lists
<1>5. Order'
  BY <1>1, <1>2, NothingIs DEF Order, InOrder
<1>6. NoGap'
  BY <1>1, <1>2 DEF NoGap, Contiguous
<1> QED  BY <1>2, <1>4, <1>5, <1>6 DEF RoutingInv

\* The strengthening is an invariant.
LEMMA RoutingInvariant == Spec => []RoutingInv
<1>1. Init => RoutingInv
  <2> SUFFICES ASSUME Init  PROVE RoutingInv
    OBVIOUS
  <2>1. /\ stream = <<>> /\ checked = FALSE /\ group = 0 /\ fresh = FALSE
        /\ run = 0 /\ sub = "down" /\ cmd = 0 /\ command_queue = <<>>
        /\ hub = "start" /\ batch = <<>> /\ dirty = {} /\ assets = [a \in {} |-> {}] /\ listen_books = {}
        /\ applied = <<>> /\ inherited = {} /\ cancelled = FALSE
    BY DEF Init, NoAssets
  <2>2. Numbers = 0..0
    BY <2>1, NothingIs DEF Numbers
  <2>3. MaxRuns \in Nat
    BY RoutingAssumption DEF RoutingAssumption
  <2>4. Shapes
    <3>1. run \in 0..MaxRuns /\ cmd \in Numbers /\ inherited \subseteq Numbers
      BY <2>1, <2>2, <2>3
    <3> QED  BY <2>1, <2>3, <3>1 DEF Shapes
  <2>5. Lists
    BY <2>1, <2>2, NothingIs DEF Lists
  <2>6. DOMAIN assets = {}
    BY <2>1
  <2>7. Hub /\ Listens
    BY <2>1, <2>6 DEF Hub, Listens
  <2>8. Order /\ NoGap
    BY <2>1, NothingIs DEF Order, InOrder, NoGap, Contiguous
  <2> QED  BY <2>4, <2>5, <2>7, <2>8 DEF RoutingInv
<1>2. RoutingInv /\ [Next]_vars => RoutingInv'
  <2> SUFFICES ASSUME RoutingInv, [Next]_vars  PROVE RoutingInv'
    OBVIOUS
  <2>1. CASE Client
    BY <2>1, ClientKeeps
  <2>2. CASE StreamSubscriber
    BY <2>2, StreamSubscriberKeeps
  <2>3. CASE Stop
    BY <2>3, StopKeeps
  <2>4. CASE Subscriber
    BY <2>4, ReadGroupKeeps, AcknowledgeKeeps, NothingReadKeeps DEF Subscriber
  <2>5. CASE RoutingHub
    BY <2>5, TakeCommandsKeeps, AddLimitKeeps, PushAssetTickKeeps DEF RoutingHub
  <2>6. CASE UNCHANGED vars
    <3>1. UNCHANGED <<stream, checked, group, fresh, run, sub, cmd, command_queue, hub, batch, dirty,
                      assets, listen_books, applied, cancelled, inherited>>
      BY <2>6 DEF vars, busVars, hubVars
    <3> QED  BY <3>1 DEF RoutingInv, Shapes, Lists, Hub, Order, InOrder, NoGap, Contiguous, Listens,
                         Numbers, AllLimits, Entries
  <2> QED  BY <2>1, <2>2, <2>3, <2>4, <2>5, <2>6 DEF Next
<1> QED  BY <1>1, <1>2, PTL DEF Spec
-----------------------------------------------------------------------------
(***************************************************************************)
(* What follows from it.                                                   *)
(***************************************************************************)
\* No run applies a command twice or before an earlier one.
THEOREM AppliesInOrderOnceTheorem == Spec => []AppliesInOrderOnce
<1>1. RoutingInv => AppliesInOrderOnce
  BY DEF RoutingInv, Order, InOrder, Ordered, AppliesInOrderOnce
<1> QED  BY <1>1, RoutingInvariant, PTL

\* A hub that waits for ticks waits for one of every asset with a limit, unless
\* its next() was dropped with work in hand.
THEOREM ListensToAllAssetsTheorem == Spec => []ListensToAllAssets
<1>1. RoutingInv => ListensToAllAssets
  BY DEF RoutingInv, Hub, Listens, ListensToAllAssets
<1> QED  BY <1>1, RoutingInvariant, PTL

\* Commands numbered on, one sequence after the other.
LEMMA NumberedOn ==
  ASSUME NEW S \in SUBSET Int, NEW p \in Seq(S), NEW q \in Seq(S), NEW s, s = p \o q,
         Numbered(p, 0), Numbered(q, Len(p))
  PROVE  s \in Seq(S) /\ Len(s) = Len(p) + Len(q) /\ Numbered(s, 0)
<1> DEFINE a == Len(p)
           b == Len(q)
<1>1. /\ a \in Nat /\ DOMAIN p = 1..a /\ b \in Nat /\ DOMAIN q = 1..b
      /\ s \in Seq(S) /\ Len(s) = a + b /\ DOMAIN s = 1..(a + b)
      /\ \A n \in 1..a : s[n] = p[n]
  BY JoinedIs
<1>2. \A n \in 1..b : s[a + n] = q[n]
  <2>1. Holds(p \o q, Len(p), q, Len(q))
    BY JoinedIs
  <2> QED  BY <2>1 DEF Holds
<1>3. (\A n \in 1..a : p[n] = 0 + n) /\ \A n \in 1..b : q[n] = a + n
  BY <1>1 DEF Numbered
<1> HIDE DEF a, b
<1>4. ASSUME NEW n \in 1..(a + b)  PROVE s[n] = 0 + n
  <2>1. CASE n <= a
    BY <1>1, <1>3, <2>1
  <2>2. CASE ~(n <= a)
    <3>1. n - a \in 1..b /\ a + (n - a) = n
      BY <1>1, <2>2
    <3>2. s[a + (n - a)] = q[n - a] /\ q[n - a] = a + (n - a)
      BY <1>2, <1>3, <3>1
    <3>3. n = 0 + n
      BY <1>1
    <3> QED  BY <3>1, <3>2, <3>3
  <2> QED  BY <2>1, <2>2
<1> QED  BY <1>1, <1>4 DEF a, b, Numbered

\* The state keeps its shape, and while no work in hand was dropped the hub has
\* had, has or will get every command of the stream in order.
THEOREM HandlesAllInOrderTheorem == Spec => []HandlesAllInOrder
<1> SUFFICES ASSUME RoutingInv  PROVE HandlesAllInOrder
  BY RoutingInvariant, PTL
<1>1. Shapes /\ Lists /\ Hub /\ Order /\ NoGap
  BY DEF RoutingInv
<1>2. group \in Nat /\ 1..group \subseteq Numbers /\ Len(stream) \in Nat
  BY <1>1, LenProperties DEF Lists, Numbers
<1>3. TypeOK
  <2>1. applied \in Seq(Numbers) /\ batch \in Seq(Numbers) /\ command_queue \in Seq(Numbers)
    BY <1>1, <1>2, SeqMonotonic DEF Lists
  <2>2. dirty \subseteq Assets /\ DOMAIN assets \subseteq Assets /\ listen_books \subseteq Assets
    BY <1>1 DEF Hub
  <2>3. /\ (hub = "book") = (batch # <<>>) /\ (hub \in {"start", "listen"} => dirty = {})
        /\ assets \in [DOMAIN assets -> SUBSET AllLimits]
    BY <1>1 DEF Hub
  <2>4. {checked, fresh, cancelled} \subseteq BOOLEAN
    BY <1>1 DEF Shapes
  <2>5. stream \in Seq(Entries)
    BY <1>1 DEF Lists
  <2>6. group \in Numbers
    BY <1>1 DEF Lists
  <2>7. /\ run \in 0..MaxRuns /\ cmd \in Numbers /\ inherited \subseteq Numbers
        /\ sub \in {"down", "read", "ack", "sleep"} /\ hub \in {"start", "book", "tick", "listen"}
    BY <1>1 DEF Shapes
  <2> QED  BY <2>1, <2>2, <2>3, <2>4, <2>5, <2>6, <2>7 DEF TypeOK, Entries
<1>4. ASSUME sub # "down", ~cancelled
      PROVE  applied \o batch \o command_queue \o InHand = [n \in 1..group |-> n]
  <2> DEFINE S == 1..group
             P == Len(applied)
             B == Len(batch)
             Q == Len(command_queue)
             x == applied \o batch
             y == x \o command_queue
             z == y \o InHand
  <2>1. /\ S \in SUBSET Int /\ applied \in Seq(S) /\ batch \in Seq(S) /\ command_queue \in Seq(S)
        /\ P \in Nat /\ B \in Nat /\ Q \in Nat
    BY <1>1, <1>2, LenProperties DEF Lists
  <2>2. /\ Numbered(applied, 0) /\ Numbered(batch, P) /\ Numbered(command_queue, P + B)
        /\ P + B + Q = IF cmd = 0 THEN group ELSE group - 1
    BY <1>1, <1>4, Zenon DEF NoGap, Contiguous
  <2> HIDE DEF S
  <2>3. x \in Seq(S) /\ Len(x) = P + B /\ Numbered(x, 0)
    BY <2>1, <2>2, NumberedOn
  <2> HIDE DEF x
  <2>4. y \in Seq(S) /\ Len(y) = P + B + Q /\ Numbered(y, 0)
    <3>1. Numbered(command_queue, Len(x))
      BY <2>2, <2>3
    <3> HIDE DEF P, B, Q
    <3>2. y \in Seq(S) /\ Len(y) = Len(x) + Len(command_queue) /\ Numbered(y, 0)
      BY <2>1, <2>3, <3>1, NumberedOn
    <3> QED  BY <2>3, <3>2 DEF Q
  <2>5. InHand \in Seq(S) /\ Len(y) + Len(InHand) = group /\ Numbered(InHand, Len(y))
    <3>1. CASE cmd = 0
      <4>1. InHand = <<>>
        BY <3>1 DEF InHand
      <4> QED  BY <1>2, <2>2, <2>4, <3>1, <4>1, NothingIs
    <3>2. CASE cmd # 0
      <4>1. cmd = group /\ group > 0
        BY <1>1, <1>4, <3>2 DEF Shapes
      <4>2. InHand = <<group>> /\ group \in S /\ P + B + Q = group - 1
        BY <1>2, <2>2, <3>2, <4>1 DEF InHand, S
      <4>3. InHand \in Seq(S) /\ Len(InHand) = 1 /\ DOMAIN InHand = 1..1 /\ InHand[1] = group
        BY <4>2
      <4> QED  BY <1>2, <2>1, <2>4, <4>2, <4>3 DEF Numbered
    <3> QED  BY <3>1, <3>2
  <2> HIDE DEF y
  <2>6. z \in Seq(S) /\ Len(z) = group /\ Numbered(z, 0)
    BY <2>1, <2>4, <2>5, NumberedOn
  <2> HIDE DEF z
  <2>7. DOMAIN z = 1..group /\ z \in [1..group -> S]
    BY <2>6, LenProperties
  <2>8. \A n \in 1..group : z[n] = n
    BY <1>2, <2>6, <2>7 DEF Numbered
  <2>9. z = [n \in 1..group |-> n]
    BY <2>7, <2>8
  <2> QED  BY <2>9 DEF x, y, z
<1> QED  BY <1>3, <1>4 DEF HandlesAllInOrder

\* A Del among the commands just applied that no later adjustment overrides.
AnsweredBy(l, new, taken) ==
  \E n \in DOMAIN new :
    LET c == stream[new[n]]
    IN /\ c.op = "Del" /\ c.id = l
       /\ c.weak => \A m \in (n + 1)..Len(taken) :
             LET later == stream[taken[m]] IN ~(later.op = "Adj" /\ later.id = l)

\* What is deleted is answered by such a Del.
LEMMA DeletedIsAnswered ==
  ASSUME NEW S, NEW p \in Seq(S), NEW did \in Seq(S), NEW o \in Nat, Len(did) = Len(p) + o,
         NEW queue \in Seq(S), NEW k \in 0..Len(queue), NEW d, NEW b, Moves(did, queue, k, d, b),
         NEW l \in Deleted(queue, k)
  PROVE  AnsweredBy(l, SubSeq(d, Len(p) + 1, Len(d)), SubSeq(d, Len(p) + 1, Len(d)) \o b)
<1> DEFINE new == SubSeq(d, Len(p) + 1, Len(d))
           taken == new \o b
           L == Len(queue)
<1>1. /\ DOMAIN new = 1..(o + k) /\ Holds(new, o, queue, k)
      /\ Len(taken) = o + L /\ Holds(taken, o, queue, L)
  BY NewlyIs
<1>2. PICK m \in 1..k : stream[queue[m]].op = "Del" /\ ~Dominated(queue, m) /\ l = stream[queue[m]].id
  BY DEF Deleted
<1>3. k \in 0..L /\ L \in Nat
  BY LenProperties
<1> HIDE DEF new, taken, L
<1>4. o + m \in DOMAIN new /\ new[o + m] = queue[m]
  BY <1>1, <1>3 DEF Holds
<1>5. ASSUME stream[queue[m]].weak, NEW i \in ((o + m) + 1)..Len(taken),
             stream[taken[i]].op = "Adj", stream[taken[i]].id = l
      PROVE  FALSE
  <2>1. i - o \in (m + 1)..L /\ i - o \in 1..L /\ o + (i - o) = i
    BY <1>1, <1>3
  <2>2. taken[i] = queue[i - o]
    BY <1>1, <2>1 DEF Holds
  <2> QED  BY <1>2, <1>5, <2>1, <2>2 DEF Dominated, L
<1>6. AnsweredBy(l, new, taken)
  BY <1>2, <1>4, <1>5 DEF AnsweredBy
<1> QED  BY <1>6 DEF new, taken

\* A limit goes only for a Del that was just applied and that, if weak, no
\* later adjustment taken with it overrides.
THEOREM WeakDelYieldsTheorem == Spec => WeakDelYields
<1> DEFINE new == SubSeq(applied', Len(applied) + 1, Len(applied'))
           Yields == run' = run => \A l \in Limits \ Limits' : AnsweredBy(l, new, new \o batch')
<1>1. RoutingInv /\ [Next]_vars => [Yields]_vars
  <2> SUFFICES ASSUME RoutingInv, Next, run' = run, NEW l \in Limits, l \notin Limits'
               PROVE  AnsweredBy(l, new, new \o batch')
    OBVIOUS
  <2>1. Shapes /\ Lists /\ Hub
    BY DEF RoutingInv
  <2>2. assets' # assets
    BY DEF Limits
  <2>3. applied \in Seq(1..group) /\ Len(applied) \in Nat
    BY <2>1, LenProperties DEF Lists
  <2>4. CASE Client \/ Stop \/ Subscriber
    <3>1. assets' = assets
      BY <2>4 DEF Client, RequireActiveConsumer, Publish, ConsumerGoesIdle, Stop, Subscriber, ReadGroup,
                  Acknowledge, NothingRead, EndSelect, hubVars
    <3> QED  BY <2>2, <3>1
  <2>5. CASE StreamSubscriber
    BY <2>1, <2>5 DEF StreamSubscriber, Shapes
  <2>6. CASE TakeCommands
    <3>1. Proceed(command_queue, assets, {}, applied) /\ {} \in SUBSET DOMAIN assets
      BY <2>6 DEF TakeCommands
    <3>2. command_queue \in Seq(1..group)
      BY <2>1 DEF Lists
    <3>3. PICK k \in 0..Len(command_queue) : ProceedsBy(k, command_queue, assets, {}, applied)
      BY <3>1, <3>2, ProceedIs
    <3>4. Moves(applied, command_queue, k, applied', batch') /\ l \in Deleted(command_queue, k)
      BY <3>3 DEF ProceedsBy, Limits
    <3>5. Len(applied) = Len(applied) + 0
      BY <2>3
    <3> QED  BY <2>3, <3>2, <3>4, <3>5, DeletedIsAnswered
  <2>7. CASE AddLimit
    <3> DEFINE first == Head(batch)
               asset == stream[first].asset
               added == [assets EXCEPT ![asset] = @ \union {[run |-> run, new |-> first]}]
               did == Append(applied, first)
               queue == Tail(batch)
               ds == dirty \union {asset}
    <3>1. Proceed(queue, added, ds, did) /\ hub = "book"
      BY <2>7 DEF AddLimit, DirtyWith
    <3>2. batch \in Seq(1..group) /\ batch # <<>> /\ dirty \subseteq DOMAIN assets /\ asset \in DOMAIN assets
      BY <2>1, <3>1 DEF Lists, Hub
    <3>3. first \in 1..group
      BY <3>2, HeadMoves
    <3>4. queue \in Seq(1..group) /\ did \in Seq(1..group) /\ Len(did) = Len(applied) + 1
      BY <2>3, <3>2, <3>3, HeadTailProperties, AppendProperties
    <3>5. DOMAIN added = DOMAIN assets /\ ds \in SUBSET DOMAIN added
      BY <3>2
    <3>6. l \in LimitsIn(added)
      BY <3>5 DEF Limits, LimitsIn
    <3> HIDE DEF added, did, queue, ds
    <3>7. PICK k \in 0..Len(queue) : ProceedsBy(k, queue, added, ds, did)
      BY <3>1, <3>4, <3>5, ProceedIs
    <3>8. Moves(did, queue, k, applied', batch') /\ l \in Deleted(queue, k)
      BY <3>6, <3>7 DEF ProceedsBy, Limits
    <3> QED  BY <2>3, <3>4, <3>8, DeletedIsAnswered
  <2>8. CASE PushAssetTick
    <3>1. PICK a \in dirty : Sweep(assets, dirty \ {a})
      BY <2>8 DEF PushAssetTick
    <3>2. dirty \ {a} \in SUBSET DOMAIN assets
      BY <2>1 DEF Hub
    <3>3. /\ assets' = [x \in DOMAIN assets' |-> assets[x]]
          /\ \A x \in DOMAIN assets : assets[x] # {} => x \in DOMAIN assets'
      BY <3>1, <3>2, SweepIs
    <3>4. PICK x \in DOMAIN assets : l \in assets[x]
      BY DEF Limits, LimitsIn
    <3>5. x \in DOMAIN assets' /\ l \in assets'[x]
      BY <3>3, <3>4
    <3> QED  BY <3>5 DEF Limits, LimitsIn
  <2> QED  BY <2>4, <2>5, <2>6, <2>7, <2>8 DEF Next, RoutingHub
<1>2. RoutingInv /\ [Next]_vars => [run' = run =>
       LET newly == SubSeq(applied', Len(applied) + 1, Len(applied'))
           taken == newly \o batch'
       IN \A l \in Limits \ Limits' : \E n \in DOMAIN newly :
            LET c == stream[newly[n]]
            IN /\ c.op = "Del" /\ c.id = l
               /\ c.weak => \A m \in (n + 1)..Len(taken) :
                     LET later == stream[taken[m]] IN ~(later.op = "Adj" /\ later.id = l)]_vars
  BY <1>1 DEF AnsweredBy
<1> QED  BY <1>2, RoutingInvariant, PTL DEF Spec, WeakDelYields
=============================================================================
