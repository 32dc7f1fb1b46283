--------------------------- MODULE RunQueueProofs ---------------------------
(***************************************************************************)
(* What the operations of the runnable queue do to the set of queued       *)
(* tasks: each keeps the queue free of duplicates and changes its range by *)
(* exactly the task it adds or removes, for every position.                *)
(***************************************************************************)
EXTENDS RunQueue, SequenceTheorems, TLAPS

\* A duplicate-free sequence of elements of S whose range is R.
Queue(q, S, R) == q \in Seq(S) /\ IsInjective(q) /\ Range(q) = R

Position == Int \cup {AtEnd}

\* Lengthening an injective sequence by a fresh element at index k, and
\* dropping the element at index k.
Wider(r, q, n, k, t) ==
  /\ DOMAIN q = 1 .. n
  /\ DOMAIN r = 1 .. n + 1
  /\ \A i \in 1 .. n + 1 :
       r[i] = IF i < k THEN q[i] ELSE IF i = k THEN t ELSE q[i - 1]

Narrower(r, q, n, k) ==
  /\ DOMAIN q = 1 .. n
  /\ DOMAIN r = 1 .. n - 1
  /\ \A i \in 1 .. n - 1 : r[i] = IF i < k THEN q[i] ELSE q[i + 1]

\* Putting a fresh element in at index k, what deque.insert() does to the
\* runnable queue, keeps it duplicate-free and adds just that element.
LEMMA Widen ==
  ASSUME NEW n \in Nat, NEW k \in 1 .. n + 1, NEW q, NEW r, NEW t,
         IsInjective(q), t \notin Range(q), Wider(r, q, n, k, t)
  PROVE  IsInjective(r) /\ Range(r) = Range(q) \cup {t}
<1> USE DEF Wider
<1>1. \A i \in 1 .. n : q[i] # t
  BY DEF Range
<1>2. IsInjective(r)
  <2>1. SUFFICES ASSUME NEW i \in 1 .. n + 1, NEW j \in 1 .. n + 1, i < j
                 PROVE  r[i] # r[j]
    BY DEF IsInjective
  <2>2. CASE i < k /\ j < k
    BY <2>1, <2>2 DEF IsInjective
  <2>3. CASE i < k /\ j = k
    BY <2>1, <2>3, <1>1
  <2>4. CASE i < k /\ j > k
    <3>1. j - 1 \in 1 .. n /\ i \in 1 .. n /\ j - 1 # i /\ r[j] = q[j - 1]
      BY <2>1, <2>4
    <3> QED BY <2>4, <3>1 DEF IsInjective
  <2>5. CASE i = k
    <3>1. j - 1 \in 1 .. n /\ r[j] = q[j - 1]
      BY <2>1, <2>5
    <3> QED BY <2>5, <3>1, <1>1
  <2>6. CASE i > k
    <3>1. /\ j - 1 \in 1 .. n /\ i - 1 \in 1 .. n /\ i - 1 # j - 1
          /\ r[j] = q[j - 1] /\ r[i] = q[i - 1]
      BY <2>1, <2>6
    <3> QED BY <3>1 DEF IsInjective
  <2> QED BY <2>1, <2>2, <2>3, <2>4, <2>5, <2>6
<1>3. Range(q) \cup {t} \subseteq Range(r)
  <2>1. r[k] = t
    OBVIOUS
  <2>2. ASSUME NEW i \in 1 .. n PROVE q[i] \in Range(r)
    <3>1. CASE i < k
      BY <3>1 DEF Range
    <3>2. CASE i >= k
      <4>1. i + 1 \in 1 .. n + 1 /\ r[i + 1] = q[i]
        BY <3>2
      <4> QED BY <4>1 DEF Range
    <3> QED BY <3>1, <3>2
  <2> QED BY <2>1, <2>2 DEF Range
<1>4. Range(r) \subseteq Range(q) \cup {t}
  <2>1. ASSUME NEW i \in 1 .. n + 1 PROVE r[i] \in Range(q) \cup {t}
    <3>1. CASE i > k
      <4>1. i - 1 \in 1 .. n /\ r[i] = q[i - 1]
        BY <3>1
      <4> QED BY <4>1 DEF Range
    <3>2. CASE i <= k
      BY <3>2 DEF Range
    <3> QED BY <3>1, <3>2
  <2> QED BY <2>1 DEF Range
<1> QED BY <1>2, <1>3, <1>4

\* Taking the element at index k out, what deque.remove() and popleft() do,
\* keeps the queue duplicate-free and drops just that element.
LEMMA Narrow ==
  ASSUME NEW n \in Nat, NEW k \in 1 .. n, NEW q, NEW r,
         IsInjective(q), Narrower(r, q, n, k)
  PROVE  IsInjective(r) /\ Range(r) = Range(q) \ {q[k]}
<1> USE DEF Narrower
<1>1. IsInjective(r)
  <2>1. SUFFICES ASSUME NEW i \in 1 .. n - 1, NEW j \in 1 .. n - 1, i < j
                 PROVE  r[i] # r[j]
    BY DEF IsInjective
  <2>2. CASE j < k
    BY <2>1, <2>2 DEF IsInjective
  <2>3. CASE i < k /\ j >= k
    <3>1. j + 1 \in 1 .. n /\ i \in 1 .. n /\ j + 1 # i /\ r[j] = q[j + 1]
      BY <2>1, <2>3
    <3> QED BY <2>3, <3>1 DEF IsInjective
  <2>4. CASE i >= k
    <3>1. /\ j + 1 \in 1 .. n /\ i + 1 \in 1 .. n /\ i + 1 # j + 1
          /\ r[j] = q[j + 1] /\ r[i] = q[i + 1]
      BY <2>1, <2>4
    <3> QED BY <3>1 DEF IsInjective
  <2> QED BY <2>1, <2>2, <2>3, <2>4
<1>2. Range(q) \ {q[k]} \subseteq Range(r)
  <2>1. ASSUME NEW i \in 1 .. n, i # k PROVE q[i] \in Range(r)
    <3>1. CASE i < k
      <4>1. i \in 1 .. n - 1 /\ r[i] = q[i]
        BY <3>1
      <4> QED BY <4>1 DEF Range
    <3>2. CASE i > k
      <4>1. i - 1 \in 1 .. n - 1 /\ r[i - 1] = q[i]
        BY <3>2
      <4> QED BY <4>1 DEF Range
    <3> QED BY <2>1, <3>1, <3>2
  <2> QED BY <2>1 DEF Range
<1>3. Range(r) \subseteq Range(q) \ {q[k]}
  <2>1. ASSUME NEW i \in 1 .. n - 1 PROVE r[i] \in Range(q) \ {q[k]}
    <3>1. CASE i < k
      <4>1. i \in 1 .. n /\ r[i] = q[i]
        BY <3>1
      <4> QED BY <3>1, <4>1 DEF Range, IsInjective
    <3>2. CASE i >= k
      <4>1. i + 1 \in 1 .. n /\ r[i] = q[i + 1]
        BY <3>2
      <4> QED BY <3>2, <4>1 DEF Range, IsInjective
    <3> QED BY <3>1, <3>2
  <2> QED BY <2>1 DEF Range
<1> QED BY <1>1, <1>2, <1>3

\* deque.append() of a task that is not queued.
LEMMA AppendQueue ==
  ASSUME NEW S, NEW q \in Seq(S), IsInjective(q), NEW t \in S, t \notin Range(q)
  PROVE  Queue(Append(q, t), S, Range(q) \cup {t})
<1> DEFINE r == Append(q, t)
<1>1. r \in Seq(S) /\ Len(r) = Len(q) + 1 /\ DOMAIN r = 1 .. Len(q) + 1
  OBVIOUS
<1>2. \A i \in 1 .. Len(q) + 1 : r[i] = IF i <= Len(q) THEN q[i] ELSE t
  OBVIOUS
<1>3. DOMAIN q = 1 .. Len(q) /\ Len(q) \in Nat
  OBVIOUS
<1> HIDE DEF r
<1>4. IsInjective(r)
  BY <1>1, <1>2, <1>3 DEF IsInjective, Range
<1>5. Range(r) = Range(q) \cup {t}
  <2>1. r[Len(q) + 1] = t
    BY <1>2, <1>3
  <2> QED BY <2>1, <1>1, <1>2, <1>3 DEF Range
<1> QED BY <1>1, <1>4, <1>5 DEF Queue, r

\* deque.insert() of a task that is not queued, at any index.
LEMMA InsertQueue ==
  ASSUME NEW S, NEW q \in Seq(S), IsInjective(q), NEW t \in S, t \notin Range(q),
         NEW k \in 1 .. Len(q) + 1
  PROVE  Queue(InsertBefore(q, k, t), S, Range(q) \cup {t})
<1> DEFINE a == SubSeq(q, 1, k - 1)
           b == SubSeq(q, k, Len(q))
           c == a \o <<t>>
           r == c \o b
<1>1. /\ Len(q) \in Nat /\ k \in Nat
      /\ DOMAIN q = 1 .. Len(q)
  OBVIOUS
<1>2. /\ a \in Seq(S) /\ Len(a) = k - 1
      /\ \A i \in 1 .. k - 1 : a[i] = q[i]
  BY <1>1
<1>3. /\ b \in Seq(S) /\ Len(b) = Len(q) - k + 1
      /\ \A i \in 1 .. Len(q) - k + 1 : b[i] = q[i + k - 1]
  BY <1>1
<1> HIDE DEF a, b
<1>4. /\ c \in Seq(S) /\ Len(c) = k
      /\ \A i \in 1 .. k : c[i] = IF i < k THEN a[i] ELSE t
  BY <1>1, <1>2
<1> HIDE DEF c
<1>5. /\ r \in Seq(S) /\ Len(r) = Len(q) + 1
      /\ DOMAIN r = 1 .. Len(q) + 1
      /\ \A i \in 1 .. Len(q) + 1 : r[i] = IF i <= k THEN c[i] ELSE b[i - k]
  <2>1. /\ r \in Seq(S)
        /\ Len(r) = Len(c) + Len(b)
        /\ \A i \in 1 .. Len(c) + Len(b) :
             r[i] = IF i <= Len(c) THEN c[i] ELSE b[i - Len(c)]
    BY Zenon, <1>3, <1>4, ConcatProperties
  <2>2. DOMAIN r = 1 .. Len(r)
    BY <2>1
  <2> HIDE DEF r
  <2> QED BY <2>1, <2>2, <1>1, <1>3, <1>4
<1> HIDE DEF r
<1>6. \A i \in 1 .. Len(q) + 1 :
        r[i] = IF i < k THEN q[i] ELSE IF i = k THEN t ELSE q[i - 1]
  BY SMTT(20), <1>1, <1>2, <1>3, <1>4, <1>5
<1>7. IsInjective(r) /\ Range(r) = Range(q) \cup {t}
  <2>1. Wider(r, q, Len(q), k, t)
    BY <1>1, <1>5, <1>6 DEF Wider
  <2> QED BY <2>1, <1>1, Widen
<1>8. InsertBefore(q, k, t) = r
  BY DEF InsertBefore, r, c, a, b
<1> QED BY <1>5, <1>7, <1>8 DEF Queue

\* FifoRunnableQueue.discard(): the task is gone, whether it was queued or
\* not, and nobody else is.
LEMMA RemoveQueue ==
  ASSUME NEW S, NEW q \in Seq(S), IsInjective(q), NEW t
  PROVE  Queue(Discard(q, t), S, Range(q) \ {t})
<1>1. CASE t \notin Range(q)
  BY <1>1 DEF Queue, Discard
<1>2. CASE t \in Range(q)
  <2>1. PICK k \in 1 .. Len(q) : q[k] = t
    BY <1>2 DEF Range
  <2>2. \A i \in 1 .. Len(q) : q[i] = t => i = k
    BY <2>1 DEF IsInjective
  <2>3. (CHOOSE i \in 1 .. Len(q) : q[i] = t) = k
    BY <2>1, <2>2
  <2>4. Discard(q, t) = SubSeq(q, 1, k - 1) \o SubSeq(q, k + 1, Len(q))
    BY Zenon, <1>2, <2>3 DEF Discard
  <2> DEFINE a == SubSeq(q, 1, k - 1)
             b == SubSeq(q, k + 1, Len(q))
             r == a \o b
  <2>5. Len(q) \in Nat /\ k \in Nat /\ DOMAIN q = 1 .. Len(q)
    OBVIOUS
  <2>6. /\ a \in Seq(S) /\ Len(a) = k - 1
        /\ \A i \in 1 .. k - 1 : a[i] = q[i]
    BY <2>1, <2>5
  <2>7. /\ b \in Seq(S) /\ Len(b) = Len(q) - k
        /\ \A i \in 1 .. Len(q) - k : b[i] = q[i + k]
    <3>1. k + 1 \in Int /\ Len(q) \in Int /\ \A i \in k + 1 .. Len(q) : q[i] \in S
      BY <2>5
    <3>2. /\ b \in Seq(S)
          /\ Len(b) = IF k + 1 <= Len(q) THEN Len(q) - (k + 1) + 1 ELSE 0
          /\ \A i \in 1 .. Len(q) - (k + 1) + 1 : b[i] = q[(k + 1) + i - 1]
      BY <3>1, SubSeqProperties
    <3> HIDE DEF b
    <3> DEFINE n == Len(q)
    <3>3. n \in Nat /\ k \in 1 .. n
      BY <2>5
    <3> HIDE DEF n
    <3>4. /\ n - (k + 1) + 1 = n - k
          /\ k + 1 <= n \/ n - k = 0
      BY SMTT(20), <3>3
    <3>5. /\ Len(q) - (k + 1) + 1 = Len(q) - k
          /\ ~(k + 1 <= Len(q)) => Len(q) - k = 0
      BY ZenonT(30), <3>4 DEF n
    <3>6. ASSUME NEW i \in 1 .. Len(q) - k
          PROVE  b[i] = q[i + k]
      <4>1. (k + 1) + i - 1 = i + k
        BY <2>5
      <4> QED BY Zenon, <3>2, <3>5, <4>1
    <3> QED BY Zenon, <3>2, <3>5, <3>6
  <2> HIDE DEF a, b
  <2>8. /\ r \in Seq(S) /\ Len(r) = Len(q) - 1
        /\ DOMAIN r = 1 .. Len(q) - 1
        /\ \A i \in 1 .. Len(q) - 1 : r[i] = IF i < k THEN a[i] ELSE b[i - k + 1]
    <3>1. /\ r \in Seq(S)
          /\ Len(r) = Len(a) + Len(b)
          /\ \A i \in 1 .. Len(a) + Len(b) :
               r[i] = IF i <= Len(a) THEN a[i] ELSE b[i - Len(a)]
      BY Zenon, <2>6, <2>7, ConcatProperties
    <3>2. DOMAIN r = 1 .. Len(r)
      BY <3>1
    <3> HIDE DEF r
    <3> QED BY <3>1, <3>2, <2>1, <2>5, <2>6, <2>7
  <2> HIDE DEF r
  <2>9. \A i \in 1 .. Len(q) - 1 : r[i] = IF i < k THEN q[i] ELSE q[i + 1]
    <3>1. SUFFICES ASSUME NEW i \in 1 .. Len(q) - 1
                   PROVE  r[i] = IF i < k THEN q[i] ELSE q[i + 1]
      OBVIOUS
    <3>2. CASE i < k
      <4>1. i \in 1 .. k - 1
        BY <2>5, <3>2
      <4>2. a[i] = q[i]
        BY <2>6, <4>1
      <4> QED BY <2>8, <3>2, <4>2
    <3>3. CASE i >= k
      <4>1. i - k + 1 \in 1 .. Len(q) - k /\ (i - k + 1) + k = i + 1
        BY <2>5, <3>3
      <4>2. b[i - k + 1] = q[i + 1]
        BY <2>7, <4>1
      <4> QED BY <2>8, <3>3, <4>2, <2>5
    <3> QED BY <3>2, <3>3, <2>5
  <2>10. IsInjective(r) /\ Range(r) = Range(q) \ {t}
    <3>1. Narrower(r, q, Len(q), k)
      BY <2>5, <2>8, <2>9 DEF Narrower
    <3> QED BY <3>1, <2>1, <2>5, Narrow
  <2>11. Discard(q, t) = r
    BY <2>4 DEF r, a, b
  <2> QED BY <2>8, <2>10, <2>11 DEF Queue
<1> QED BY <1>1, <1>2

\* FifoRunnableQueue.add(), for any position.
LEMMA PlaceQueue ==
  ASSUME NEW S, NEW q \in Seq(S), IsInjective(q), NEW t \in S, t \notin Range(q),
         NEW p \in Position
  PROVE  Queue(Place(q, t, p), S, Range(q) \cup {t})
<1>1. CASE p = AtEnd
  BY <1>1, AppendQueue DEF Place
<1>2. CASE p # AtEnd
  <2> DEFINE n == NormaliseInsertPosition(p, Len(q))
             k == 1 + (IF n <= Len(q) THEN n ELSE Len(q))
  <2>1. p \in Int /\ Len(q) \in Nat
    BY <1>2 DEF Position
  <2>2. n \in Nat
    BY <2>1 DEF NormaliseInsertPosition
  <2> HIDE DEF n
  <2>3. k \in 1 .. Len(q) + 1
    BY <2>1, <2>2
  <2> HIDE DEF k
  <2>4. Queue(InsertBefore(q, k, t), S, Range(q) \cup {t})
    BY <2>3, InsertQueue
  <2> QED BY <1>2, <2>4 DEF Place, DequeInsert, k, n
<1> QED BY <1>1, <1>2

\* _make_runnable() on the queue: a queued task keeps its place, another is
\* added.
LEMMA AddQueue ==
  ASSUME NEW S, NEW q \in Seq(S), IsInjective(q), NEW t \in S, NEW p \in Position
  PROVE  Queue(Add(q, t, p), S, Range(q) \cup {t})
<1>1. CASE t \in Range(q)
  BY <1>1 DEF Add, Queue
<1>2. CASE t \notin Range(q)
  BY <1>2, PlaceQueue DEF Add
<1> QED BY <1>1, <1>2

\* reschedule() permutes the queue.
LEMMA RescheduleQueue ==
  ASSUME NEW S, NEW q \in Seq(S), IsInjective(q), NEW t \in Range(q),
         NEW p \in Position
  PROVE  Queue(Reschedule(q, t, p), S, Range(q))
<1> DEFINE r == Discard(q, t)
<1>1. Queue(r, S, Range(q) \ {t})
  BY RemoveQueue
<1>2. t \in S
  BY DEF Range
<1>3. r \in Seq(S) /\ IsInjective(r) /\ t \notin Range(r)
  BY <1>1 DEF Queue
<1> HIDE DEF r
<1>4. Queue(Place(r, t, p), S, Range(r) \cup {t})
  BY <1>2, <1>3, PlaceQueue
<1>5. Range(r) \cup {t} = Range(q)
  BY <1>1 DEF Queue
<1> QED BY Zenon, <1>4, <1>5 DEF Reschedule, r

\* yield_to() queues the caller and loses nobody.
LEMMA YieldToQueue ==
  ASSUME NEW S, NEW q \in Seq(S), IsInjective(q), NEW t \in Range(q),
         NEW c \in S, c \notin Range(q), NEW p \in Position
  PROVE  Queue(YieldTo(q, t, c, p), S, Range(q) \cup {c})
<1> DEFINE h == Reschedule(q, t, 0)
           r == Discard(h, c)
           index == 1 + NormaliseInsertPosition(p, Len(r) - 1)
<1>1. Queue(h, S, Range(q))
  BY RescheduleQueue DEF Position
<1> HIDE DEF h
<1>2. Queue(r, S, Range(h) \ {c})
  BY <1>1, RemoveQueue DEF Queue
<1>3. Queue(r, S, Range(q))
  BY <1>1, <1>2 DEF Queue
<1> HIDE DEF r
<1>4. CASE p = AtEnd
  <2>1. Queue(Append(r, c), S, Range(q) \cup {c})
    BY <1>3, AppendQueue DEF Queue
  <2> QED BY <1>4, <2>1 DEF YieldTo, r, h
<1>5. CASE p # AtEnd
  <2>1. p \in Int /\ Len(r) \in Nat
    BY <1>3, <1>5 DEF Position, Queue
  <2>2. index \in Position
    BY <2>1 DEF NormaliseInsertPosition, Position
  <2> HIDE DEF index
  <2>3. Queue(Add(r, c, index), S, Range(q) \cup {c})
    BY SMTT(20), <1>3, <2>2, AddQueue DEF Queue
  <2> QED BY <1>5, <2>3 DEF YieldTo, r, h, index
<1> QED BY <1>4, <1>5

\* pop_next()
LEMMA PopQueue ==
  ASSUME NEW S, NEW q \in Seq(S), IsInjective(q), q # <<>>
  PROVE  Head(q) \in Range(q) /\ Queue(PopNext(q), S, Range(q) \ {Head(q)})
<1> DEFINE r == PopNext(q)
<1>1. Len(q) \in Nat /\ Len(q) # 0 /\ DOMAIN q = 1 .. Len(q) /\ Head(q) = q[1]
  OBVIOUS
<1>2. r \in Seq(S) /\ Narrower(r, q, Len(q), 1)
  BY <1>1 DEF PopNext, Narrower
<1>3. 1 \in 1 .. Len(q)
  BY <1>1
<1> HIDE DEF r
<1>4. IsInjective(r) /\ Range(r) = Range(q) \ {q[1]}
  BY <1>1, <1>2, <1>3, Narrow
<1>5. q[1] \in Range(q)
  BY <1>1, <1>3 DEF Range
<1> QED BY <1>1, <1>2, <1>4, <1>5 DEF Queue, r

\* Event.set() appends all waiters to the queue.
LEMMA ConcatQueue ==
  ASSUME NEW S, NEW q \in Seq(S), IsInjective(q), NEW w \in Seq(S), IsInjective(w),
         Range(q) \cap Range(w) = {}
  PROVE  Queue(q \o w, S, Range(q) \cup Range(w))
<1> DEFINE r == q \o w
<1>1. /\ DOMAIN q = 1 .. Len(q) /\ DOMAIN w = 1 .. Len(w)
      /\ Len(q) \in Nat /\ Len(w) \in Nat
  OBVIOUS
<1>2. /\ r \in Seq(S) /\ Len(r) = Len(q) + Len(w)
      /\ \A i \in 1 .. Len(q) + Len(w) :
           r[i] = IF i <= Len(q) THEN q[i] ELSE w[i - Len(q)]
  BY ConcatProperties
<1>3. DOMAIN r = 1 .. Len(q) + Len(w)
  BY <1>2
<1> HIDE DEF r
<1>4. ASSUME NEW i \in DOMAIN r
      PROVE  \/ i \in DOMAIN q /\ r[i] = q[i] /\ r[i] \in Range(q)
             \/ /\ i - Len(q) \in DOMAIN w /\ r[i] = w[i - Len(q)]
                /\ r[i] \in Range(w)
  <2>1. CASE i <= Len(q)
    BY <1>1, <1>2, <1>3, <2>1 DEF Range
  <2>2. CASE i > Len(q)
    <3>1. i - Len(q) \in 1 .. Len(w) /\ r[i] = w[i - Len(q)]
      BY <1>1, <1>2, <1>3, <2>2
    <3> QED BY <1>1, <3>1 DEF Range
  <2> QED BY <1>1, <1>3, <2>1, <2>2
<1>5. IsInjective(r)
  <2>1. SUFFICES ASSUME NEW i \in DOMAIN r, NEW j \in DOMAIN r, r[i] = r[j]
                 PROVE  i = j
    BY DEF IsInjective
  <2>2. CASE i \in DOMAIN q /\ r[i] = q[i] /\ j \in DOMAIN q /\ r[j] = q[j]
    BY Zenon, <2>1, <2>2 DEF IsInjective
  <2>3. CASE /\ i - Len(q) \in DOMAIN w /\ r[i] = w[i - Len(q)]
             /\ j - Len(q) \in DOMAIN w /\ r[j] = w[j - Len(q)]
    <3>1. i - Len(q) = j - Len(q)
      BY Zenon, <2>1, <2>3 DEF IsInjective
    <3> QED BY <1>1, <1>3, <3>1
  <2> QED BY <1>4, <2>1, <2>2, <2>3
<1>6. Range(r) = Range(q) \cup Range(w)
  <2>1. Range(r) \subseteq Range(q) \cup Range(w)
    BY <1>4 DEF Range
  <2>2. ASSUME NEW i \in DOMAIN q PROVE q[i] \in Range(r)
    BY <1>1, <1>2, <1>3 DEF Range
  <2>3. ASSUME NEW i \in DOMAIN w PROVE w[i] \in Range(r)
    <3>1. Len(q) + i \in DOMAIN r /\ r[Len(q) + i] = w[i]
      BY <1>1, <1>2, <1>3
    <3> QED BY <3>1 DEF Range
  <2> QED BY SMTT(20), <2>1, <2>2, <2>3 DEF Range
<1> QED BY <1>2, <1>5, <1>6 DEF Queue, r
=============================================================================
