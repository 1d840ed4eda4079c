--------------------------- MODULE Camera_proofs ---------------------------
(***************************************************************************)
(* Proofs about Camera, for any number of buffers, failures and options.   *)
(*                                                                         *)
(* A queue is taken as one sequence, from the next buffer its driver gives *)
(* to the last it got: filling a buffer does not change it.  The sequences *)
(* of the camera and of the PxP stay equal but for the extra buffer, which *)
(* is somewhere in the first or not at all (Lock), so that both give the   *)
(* same buffer.  What is held follows the list of steps as long as none    *)
(* failed that the program does not look at (ProgramHolds).                *)
(***************************************************************************)
EXTENDS Camera, TLAPS, SequenceTheorems, FiniteSetTheorems, WellFoundedInduction

(* The queue of a driver: whether it runs, the buffers it has, those it is *)
(* done with.  All are those from the next it gives to the last it got.    *)
N        == V4L2_BUF_NUM
Queue    == [on : BOOLEAN, queue : Seq(Buffers), done : Seq(Buffers)]
All(q)   == q.done \o q.queue

Distinct(s) == \A i, j \in 1 .. Len(s) : s[i] = s[j] => i = j
Has(s, b)   == \E i \in 1 .. Len(s) : s[i] = b

(* The camera's queue is that of the PxP but for the extra buffer, which   *)
(* is in it once or not at all.                                            *)
InsertedAt(c, o, k) ==
    /\ k \in 1 .. Len(o) + 1 /\ Len(c) = Len(o) + 1 /\ c[k] = N
    /\ \A i \in 1 .. k - 1 : c[i] = o[i]
    /\ \A i \in k + 1 .. Len(c) : c[i] = o[i - 1]
Lock(c, o) == ~Has(o, N) /\ (c = o \/ \E k \in 1 .. Len(o) + 1 : InsertedAt(c, o, k))

-----------------------------------------------------------------------------
(* Queues as sequences.                                                    *)
LEMMA PutFirst ==
    ASSUME NEW S, NEW h \in S, NEW t \in Seq(S)
    PROVE  /\ <<h>> \o t \in Seq(S) /\ <<h>> \o t # <<>>
           /\ Head(<<h>> \o t) = h /\ Tail(<<h>> \o t) = t
<1>1. <<h>> \in Seq(S) /\ Len(<<h>>) = 1 /\ <<h>>[1] = h
  OBVIOUS
<1>2. /\ <<h>> \o t \in Seq(S) /\ Len(<<h>> \o t) = 1 + Len(t)
      /\ \A i \in 1 .. 1 + Len(t) : (<<h>> \o t)[i] = IF i <= 1 THEN <<h>>[i] ELSE t[i - 1]
  BY <1>1, ConcatProperties
<1> DEFINE s == <<h>> \o t
<1>3. Len(t) \in Nat
  OBVIOUS
<1> HIDE DEF s
<1>4. s \in Seq(S) /\ Len(s) = 1 + Len(t) /\ s[1] = h /\ \A i \in 1 .. Len(t) : s[i + 1] = t[i]
  BY <1>1, <1>2, <1>3 DEF s
<1>5. s # <<>> /\ Head(s) = h /\ Tail(s) \in Seq(S) /\ Len(Tail(s)) = Len(t)
      /\ \A i \in 1 .. Len(t) : Tail(s)[i] = t[i]
  BY <1>3, <1>4
<1>6. Tail(s) = t
  BY <1>5, SeqEqual
<1>7. QED
  BY <1>4, <1>5, <1>6 DEF s

LEMMA HeadAndTail ==
    ASSUME NEW S, NEW s \in Seq(S), s # <<>>
    PROVE  /\ Head(s) \in S /\ Tail(s) \in Seq(S) /\ Head(s) = s[1]
           /\ s = <<Head(s)>> \o Tail(s)
<1> DEFINE h == Head(s)
<1> DEFINE t == Tail(s)
<1>1. h \in S /\ t \in Seq(S) /\ Len(t) = Len(s) - 1 /\ \A i \in 1 .. Len(t) : t[i] = s[i + 1]
  BY HeadTailProperties
<1>2. h = s[1] /\ Len(s) \in Nat \ {0}
  OBVIOUS
<1> HIDE DEF h, t
<1>3. <<h>> \in Seq(S) /\ Len(<<h>>) = 1 /\ <<h>>[1] = h
  BY <1>1
<1>4. /\ <<h>> \o t \in Seq(S) /\ Len(<<h>> \o t) = 1 + Len(t)
      /\ \A i \in 1 .. 1 + Len(t) : (<<h>> \o t)[i] = IF i <= 1 THEN <<h>>[i] ELSE t[i - 1]
  BY <1>1, <1>3, ConcatProperties
<1>5. Len(<<h>> \o t) = Len(s) /\ \A i \in 1 .. Len(s) : s[i] = (<<h>> \o t)[i]
  BY <1>1, <1>2, <1>3, <1>4
<1>6. s = <<h>> \o t
  BY <1>4, <1>5, SeqEqual
<1>7. QED
  BY <1>1, <1>2, <1>6 DEF h, t

LEMMA Regroup ==
    \A s, t, u \in Seq(Buffers) : (s \o t) \o u = s \o (t \o u)
  BY ConcatAssociative

LEMMA FillKeeps ==
    ASSUME NEW q \in Queue, q.queue # <<>>
    PROVE  /\ Filled(q) \in Queue /\ Filled(q).on = q.on
           /\ All(Filled(q)) = All(q)
<1>1. q.queue \in Seq(Buffers) /\ q.done \in Seq(Buffers)
  BY DEF Queue
<1>2. /\ Head(q.queue) \in Buffers /\ Tail(q.queue) \in Seq(Buffers)
      /\ q.queue = <<Head(q.queue)>> \o Tail(q.queue)
  BY <1>1, HeadAndTail
<1>3. /\ Filled(q).on = q.on /\ Filled(q).queue = Tail(q.queue)
      /\ Filled(q).done = Append(q.done, Head(q.queue)) /\ Filled(q) \in Queue
  <2>1. Append(q.done, Head(q.queue)) \in Seq(Buffers)
    BY <1>1, <1>2
  <2>2. QED
    BY <1>1, <1>2, <2>1 DEF Filled, Queue
<1>4. Append(q.done, Head(q.queue)) = q.done \o <<Head(q.queue)>>
  BY <1>1, <1>2, AppendIsConcat
<1>5. <<Head(q.queue)>> \in Seq(Buffers)
  BY <1>2
<1>6. (q.done \o <<Head(q.queue)>>) \o Tail(q.queue) = q.done \o (<<Head(q.queue)>> \o Tail(q.queue))
  BY <1>1, <1>2, <1>5, Regroup
<1>7. QED
  BY <1>2, <1>3, <1>4, <1>6 DEF All

LEMMA AllIsASequence == \A q \in Queue : All(q) \in Seq(Buffers)
  BY DEF All, Queue

LEMMA DqbufTakes ==
    ASSUME NEW q \in Queue, q.done # <<>>
    PROVE  /\ Dqbuf(q) \in Queue /\ Dqbuf(q).on = q.on
           /\ Head(q.done) \in Buffers /\ All(Dqbuf(q)) \in Seq(Buffers)
           /\ All(q) = <<Head(q.done)>> \o All(Dqbuf(q))
<1>1. q.queue \in Seq(Buffers) /\ q.done \in Seq(Buffers)
  BY DEF Queue
<1>2. /\ Head(q.done) \in Buffers /\ Tail(q.done) \in Seq(Buffers)
      /\ q.done = <<Head(q.done)>> \o Tail(q.done)
  BY <1>1, HeadAndTail
<1>3. /\ Dqbuf(q).on = q.on /\ Dqbuf(q).queue = q.queue
      /\ Dqbuf(q).done = Tail(q.done) /\ Dqbuf(q) \in Queue
  BY <1>1, <1>2 DEF Dqbuf, Queue
<1>4. <<Head(q.done)>> \in Seq(Buffers)
  BY <1>2
<1>5. (<<Head(q.done)>> \o Tail(q.done)) \o q.queue = <<Head(q.done)>> \o (Tail(q.done) \o q.queue)
  BY <1>1, <1>2, <1>4, Regroup
<1>6. QED
  BY <1>2, <1>3, <1>5, AllIsASequence DEF All

LEMMA QbufAppends ==
    ASSUME NEW q \in Queue, NEW b \in Buffers
    PROVE  /\ Qbuf(q, b) \in Queue /\ Qbuf(q, b).on = q.on
           /\ All(Qbuf(q, b)) = Append(All(q), b)
<1>1. q.queue \in Seq(Buffers) /\ q.done \in Seq(Buffers) /\ <<b>> \in Seq(Buffers)
  BY DEF Queue
<1>2. Append(q.queue, b) = q.queue \o <<b>> /\ Append(All(q), b) = All(q) \o <<b>>
  BY <1>1, AppendIsConcat, AllIsASequence
<1>3. /\ Qbuf(q, b).on = q.on /\ Qbuf(q, b).queue = Append(q.queue, b)
      /\ Qbuf(q, b).done = q.done /\ Qbuf(q, b) \in Queue
  <2>1. Append(q.queue, b) \in Seq(Buffers)
    BY <1>1
  <2>2. \A s \in Seq(Buffers) : [q EXCEPT !.queue = s] \in Queue
    BY DEF Queue
  <2>3. q = [on |-> q.on, queue |-> q.queue, done |-> q.done]
    BY DEF Queue
  <2>4. QED
    BY <2>1, <2>2, <2>3 DEF Qbuf
<1>4. (q.done \o q.queue) \o <<b>> = q.done \o (q.queue \o <<b>>)
  BY <1>1, Regroup
<1>5. QED
  BY <1>2, <1>3, <1>4 DEF All

-----------------------------------------------------------------------------
(* What a buffer more at either end of a sequence changes.                 *)
LEMMA ConsAt ==
    ASSUME NEW h \in Buffers, NEW t \in Seq(Buffers), NEW s, s = <<h>> \o t
    PROVE  /\ s \in Seq(Buffers) /\ Len(s) = Len(t) + 1 /\ Len(t) \in Nat
           /\ s[1] = h
           /\ \A i \in 1 .. Len(t) : s[i + 1] = t[i]
           /\ \A i \in 2 .. Len(t) + 1 : s[i] = t[i - 1]
<1>1. <<h>> \in Seq(Buffers) /\ Len(<<h>>) = 1 /\ <<h>>[1] = h
  OBVIOUS
<1>2. /\ s \in Seq(Buffers) /\ Len(s) = 1 + Len(t)
      /\ \A i \in 1 .. 1 + Len(t) : s[i] = IF i <= 1 THEN <<h>>[i] ELSE t[i - 1]
  BY <1>1, ConcatProperties
<1>3. Len(t) \in Nat
  OBVIOUS
<1>4. QED
  BY <1>1, <1>2, <1>3

LEMMA AppendAt ==
    ASSUME NEW b \in Buffers, NEW t \in Seq(Buffers), NEW s, s = Append(t, b)
    PROVE  /\ s \in Seq(Buffers) /\ Len(s) = Len(t) + 1 /\ Len(t) \in Nat
           /\ s[Len(t) + 1] = b
           /\ \A i \in 1 .. Len(t) : s[i] = t[i]
  BY AppendProperties

LEMMA HasCons ==
    ASSUME NEW h \in Buffers, NEW t \in Seq(Buffers), NEW s, s = <<h>> \o t, NEW b
    PROVE  Has(s, b) <=> h = b \/ Has(t, b)
<1>1. Has(s, b) => h = b \/ Has(t, b)
  <2>1. ASSUME NEW i \in 1 .. Len(s), s[i] = b, h # b PROVE Has(t, b)
    <3>1. i \in 2 .. Len(t) + 1 /\ t[i - 1] = b
      BY <2>1, ConsAt
    <3>2. i - 1 \in 1 .. Len(t)
      BY <3>1, ConsAt
    <3>3. QED
      BY <3>1, <3>2 DEF Has
  <2>2. QED
    BY <2>1 DEF Has
<1>2. h = b => Has(s, b)
  <2>1. 1 \in 1 .. Len(s) /\ s[1] = h
    BY ConsAt
  <2>2. QED
    BY <2>1 DEF Has
<1>3. Has(t, b) => Has(s, b)
  <2>1. ASSUME NEW i \in 1 .. Len(t), t[i] = b PROVE Has(s, b)
    <3>1. i + 1 \in 1 .. Len(s) /\ s[i + 1] = b
      BY <2>1, ConsAt
    <3>2. QED
      BY <3>1 DEF Has
  <2>2. QED
    BY <2>1 DEF Has
<1>4. QED
  BY <1>1, <1>2, <1>3

LEMMA HasAppend ==
    ASSUME NEW h \in Buffers, NEW t \in Seq(Buffers), NEW s, s = Append(t, h), NEW b
    PROVE  Has(s, b) <=> Has(t, b) \/ h = b
<1>1. Has(s, b) => h = b \/ Has(t, b)
  BY AppendAt DEF Has
<1>2. h = b => Has(s, b)
  <2>1. Len(s) \in 1 .. Len(s) /\ s[Len(s)] = h
    BY AppendAt
  <2>2. QED
    BY <2>1 DEF Has
<1>3. Has(t, b) => Has(s, b)
  <2>1. ASSUME NEW i \in 1 .. Len(t), t[i] = b PROVE Has(s, b)
    <3>1. i \in 1 .. Len(s) /\ s[i] = b
      BY <2>1, AppendAt
    <3>2. QED
      BY <3>1 DEF Has
  <2>2. QED
    BY <2>1 DEF Has
<1>4. QED
  BY <1>1, <1>2, <1>3

LEMMA DistinctCons ==
    ASSUME NEW h \in Buffers, NEW t \in Seq(Buffers), NEW s, s = <<h>> \o t, Distinct(s)
    PROVE  Distinct(t) /\ ~Has(t, h)
<1>1. ASSUME NEW i \in 1 .. Len(t), NEW j \in 1 .. Len(t), t[i] = t[j] PROVE i = j
  <2>1. i + 1 \in 1 .. Len(s) /\ j + 1 \in 1 .. Len(s) /\ s[i + 1] = t[i] /\ s[j + 1] = t[j]
    BY ConsAt
  <2>2. i + 1 = j + 1
    BY <1>1, <2>1 DEF Distinct
  <2>3. QED
    BY <2>2, ConsAt
<1>2. ASSUME NEW i \in 1 .. Len(t), t[i] = h PROVE FALSE
  <2>1. i + 1 \in 1 .. Len(s) /\ 1 \in 1 .. Len(s) /\ s[i + 1] = h /\ s[1] = h
    BY <1>2, ConsAt
  <2>2. i + 1 = 1
    BY <2>1 DEF Distinct
  <2>3. QED
    BY <2>2, ConsAt
<1>3. QED
  BY <1>1, <1>2 DEF Distinct, Has

LEMMA DistinctAppend ==
    ASSUME NEW h \in Buffers, NEW t \in Seq(Buffers), NEW s, s = Append(t, h), Distinct(t), ~Has(t, h)
    PROVE  Distinct(s)
<1> SUFFICES ASSUME NEW i \in 1 .. Len(s), NEW j \in 1 .. Len(s), s[i] = s[j] PROVE i = j
  BY DEF Distinct
<1>1. CASE i \in 1 .. Len(t) /\ j \in 1 .. Len(t)
  BY <1>1, AppendAt DEF Distinct
<1>2. CASE i \notin 1 .. Len(t)
  <2>1. i = Len(t) + 1 /\ s[i] = h
    BY <1>2, AppendAt
  <2>2. j \notin 1 .. Len(t)
    BY <2>1, AppendAt DEF Has
  <2>3. QED
    BY <2>1, <2>2, AppendAt
<1>3. CASE j \notin 1 .. Len(t)
  <2>1. j = Len(t) + 1 /\ s[j] = h
    BY <1>3, AppendAt
  <2>2. i \notin 1 .. Len(t)
    BY <2>1, AppendAt DEF Has
  <2>3. QED
    BY <2>1, <2>2, AppendAt
<1>4. QED
  BY <1>1, <1>2, <1>3

(* Both queues give a buffer: it is the same one.                          *)
LEMMA LockGives ==
    ASSUME NEW h \in Buffers, NEW t \in Seq(Buffers), NEW g \in Buffers, NEW u \in Seq(Buffers),
           h # N, Lock(<<h>> \o t, <<g>> \o u)
    PROVE  g = h /\ Lock(t, u)
<1> DEFINE c == <<h>> \o t
<1> DEFINE o == <<g>> \o u
<1>c. /\ c \in Seq(Buffers) /\ Len(c) = Len(t) + 1 /\ Len(t) \in Nat /\ c[1] = h
      /\ (\A i \in 1 .. Len(t) : c[i + 1] = t[i])
      /\ Head(c) = h /\ Tail(c) = t
  BY ConsAt, PutFirst
<1>o. /\ o \in Seq(Buffers) /\ Len(o) = Len(u) + 1 /\ Len(u) \in Nat /\ o[1] = g
      /\ (\A i \in 1 .. Len(u) : o[i + 1] = u[i])
      /\ Head(o) = g /\ Tail(o) = u
  BY ConsAt, PutFirst
<1>n. ~Has(u, N)
  BY HasCons DEF Lock
<1>l. c = o \/ \E k \in 1 .. Len(o) + 1 : InsertedAt(c, o, k)
  BY DEF Lock
<1> HIDE DEF c, o
<1>1. CASE c = o
  BY <1>1, <1>c, <1>o, <1>n DEF Lock
<1>2. ASSUME NEW k \in 1 .. Len(o) + 1, InsertedAt(c, o, k) PROVE g = h /\ Lock(t, u)
  <2>1. k # 1
    BY <1>2, <1>c DEF InsertedAt
  <2>2. k - 1 \in 1 .. Len(u) + 1 /\ 1 \in 1 .. k - 1
    BY <2>1, <1>o
  <2>3. g = h
    BY <1>2, <2>2, <1>c, <1>o DEF InsertedAt
  <2>4. Len(t) = Len(u) + 1 /\ t[k - 1] = N
    <3>1. k = (k - 1) + 1 /\ k - 1 \in 1 .. Len(t)
      BY <1>2, <2>2, <1>c, <1>o DEF InsertedAt
    <3>2. c[k] = t[k - 1]
      BY <3>1, <1>c
    <3>3. QED
      BY <3>2, <1>2, <1>c, <1>o DEF InsertedAt
  <2>5. ASSUME NEW i \in 1 .. (k - 1) - 1 PROVE t[i] = u[i]
    <3>1. i + 1 \in 1 .. k - 1 /\ i \in 1 .. Len(t) /\ i \in 1 .. Len(u)
      BY <2>2, <2>4, <1>o
    <3>2. c[i + 1] = o[i + 1]
      BY <1>2, <3>1 DEF InsertedAt
    <3>3. QED
      BY <3>1, <3>2, <1>c, <1>o
  <2>6. ASSUME NEW i \in (k - 1) + 1 .. Len(t) PROVE t[i] = u[i - 1]
    <3>1. /\ i + 1 \in k + 1 .. Len(c) /\ i \in 1 .. Len(t) /\ i - 1 \in 1 .. Len(u)
          /\ (i + 1) - 1 = (i - 1) + 1
      BY <2>2, <2>4, <1>c, <1>o
    <3>2. c[i + 1] = o[(i + 1) - 1]
      BY <1>2, <3>1 DEF InsertedAt
    <3>3. QED
      BY <3>1, <3>2, <1>c, <1>o
  <2>7. InsertedAt(t, u, k - 1)
    BY <2>2, <2>4, <2>5, <2>6 DEF InsertedAt
  <2>8. QED
    BY <2>2, <2>3, <2>7, <1>n DEF Lock
<1>3. QED
  BY <1>1, <1>2, <1>l

(* The camera gives the extra buffer: nothing is between the others now.   *)
LEMMA LockExtra ==
    ASSUME NEW t \in Seq(Buffers), NEW o \in Seq(Buffers), Lock(<<N>> \o t, o), N \in Buffers
    PROVE  Lock(t, o)
<1> DEFINE c == <<N>> \o t
<1>c. /\ c \in Seq(Buffers) /\ Len(c) = Len(t) + 1 /\ Len(t) \in Nat /\ c[1] = N
      /\ \A i \in 2 .. Len(t) + 1 : c[i] = t[i - 1]
      /\ \A i \in 1 .. Len(t) : c[i + 1] = t[i]
  BY ConsAt
<1>l. c = o \/ \E k \in 1 .. Len(o) + 1 : InsertedAt(c, o, k)
  BY DEF Lock
<1>n. ~Has(o, N)
  BY DEF Lock
<1> HIDE DEF c
<1>1. c # o
  BY <1>c, <1>n DEF Has
<1>2. ASSUME NEW k \in 1 .. Len(o) + 1, InsertedAt(c, o, k) PROVE t = o
  <2>0. Len(o) \in Nat
    OBVIOUS
  <2>1. k = 1
    <3>1. SUFFICES ASSUME k # 1 PROVE FALSE
      OBVIOUS
    <3>2. 1 \in 1 .. k - 1 /\ 1 \in 1 .. Len(o)
      BY <3>1, <2>0
    <3>3. QED
      BY <3>2, <1>2, <1>c, <1>n DEF Has, InsertedAt
  <2>2. Len(t) = Len(o)
    BY <1>2, <1>c, <2>0 DEF InsertedAt
  <2>3. ASSUME NEW i \in 1 .. Len(t) PROVE t[i] = o[i]
    <3>1. i + 1 \in k + 1 .. Len(c) /\ (i + 1) - 1 = i
      BY <2>1, <1>c
    <3>2. QED
      BY <3>1, <1>2, <1>c DEF InsertedAt
  <2>4. QED
    BY <2>2, <2>3, SeqEqual
<1>3. QED
  BY <1>1, <1>2, <1>l, <1>n DEF Lock

(* Both queues get the same buffer, or the camera the extra one.           *)
LEMMA LockAppend ==
    ASSUME NEW c \in Seq(Buffers), NEW o \in Seq(Buffers), NEW b \in Buffers, b # N, Lock(c, o)
    PROVE  Lock(Append(c, b), Append(o, b))
<1> DEFINE d == Append(c, b)
<1> DEFINE p == Append(o, b)
<1>d. /\ d \in Seq(Buffers) /\ Len(d) = Len(c) + 1 /\ Len(c) \in Nat
      /\ d[Len(c) + 1] = b /\ \A i \in 1 .. Len(c) : d[i] = c[i]
  BY AppendAt
<1>p. /\ p \in Seq(Buffers) /\ Len(p) = Len(o) + 1 /\ Len(o) \in Nat
      /\ p[Len(o) + 1] = b /\ \A i \in 1 .. Len(o) : p[i] = o[i]
  BY AppendAt
<1>n. ~Has(p, N)
  BY HasAppend DEF Lock
<1>1. c = o => d = p
  OBVIOUS
<1>l. c = o \/ \E k \in 1 .. Len(o) + 1 : InsertedAt(c, o, k)
  BY DEF Lock
<1> HIDE DEF d, p
<1>2. ASSUME NEW k \in 1 .. Len(o) + 1, InsertedAt(c, o, k) PROVE Lock(d, p)
  <2>0. Len(c) = Len(o) + 1 /\ c[k] = N
    BY <1>2 DEF InsertedAt
  <2>1. k \in 1 .. Len(p) + 1 /\ Len(d) = Len(p) + 1 /\ d[k] = N
    BY <2>0, <1>d, <1>p
  <2>2. ASSUME NEW i \in 1 .. k - 1 PROVE d[i] = p[i]
    <3>1. i \in 1 .. Len(o) /\ i \in 1 .. Len(c)
      BY <2>0, <1>p
    <3>2. QED
      BY <3>1, <1>2, <1>d, <1>p DEF InsertedAt
  <2>3. ASSUME NEW i \in k + 1 .. Len(d) PROVE d[i] = p[i - 1]
    <3>1. CASE i = Len(d)
      <4>1. d[i] = b
        BY <3>1, <1>d
      <4>2. i - 1 = Len(o) + 1
        BY <3>1, <2>0, <1>d, <1>p
      <4>3. QED
        BY <4>1, <4>2, <1>p
    <3>2. CASE i # Len(d)
      <4>1. i \in k + 1 .. Len(c) /\ i \in 1 .. Len(c) /\ i - 1 \in 1 .. Len(o)
        BY <3>2, <2>0, <1>d, <1>p
      <4>2. QED
        BY <4>1, <1>2, <1>d, <1>p DEF InsertedAt
    <3>3. QED
      BY <3>1, <3>2
  <2>4. InsertedAt(d, p, k)
    BY <2>1, <2>2, <2>3 DEF InsertedAt
  <2>5. QED
    BY <2>1, <2>4, <1>n DEF Lock
<1>3. QED
  BY <1>1, <1>2, <1>l, <1>n DEF Lock, d, p

LEMMA LockRequeue ==
    ASSUME NEW c \in Seq(Buffers), NEW o \in Seq(Buffers), N \in Buffers, Lock(c, o), ~Has(c, N)
    PROVE  Lock(Append(c, N), o)
<1> DEFINE d == Append(c, N)
<1>d. /\ d \in Seq(Buffers) /\ Len(d) = Len(c) + 1 /\ Len(c) \in Nat
      /\ d[Len(c) + 1] = N /\ \A i \in 1 .. Len(c) : d[i] = c[i]
  BY AppendAt
<1> HIDE DEF d
<1>1. c = o
  <2>1. ASSUME NEW k \in 1 .. Len(o) + 1, InsertedAt(c, o, k) PROVE FALSE
    <3>1. k \in 1 .. Len(c) /\ c[k] = N
      BY <2>1 DEF InsertedAt
    <3>2. QED
      BY <3>1 DEF Has
  <2>2. QED
    BY <2>1 DEF Lock
<1>2. InsertedAt(d, o, Len(o) + 1) /\ Len(o) + 1 \in 1 .. Len(o) + 1
  BY <1>1, <1>d DEF InsertedAt
<1>3. QED
  BY <1>2 DEF Lock, d

-----------------------------------------------------------------------------
(* The invariant.                                                          *)

Channel == {"lib", "chan", "mem", "mem_o", "conf"}
Busy    == {"run", "infer", "queue"}

(* The steps before the loop, its passes, and those after it.              *)
Opening == {"pxp_init", "signal", "device_pxp_init", "model_init", "label_init", "create",
            "pxp_check_capabilities", "pxp_config_output", "pxp_config_buffer"}
Filling == {"pxp_config_windows", "pxp_config_controls", "pxp_start"}
Early   == Opening \cup {"camera_init", "framebuffer_init", "pxp_engine_init", "camera_enable"}
                   \cup Filling
Passing == {"turn", "dqcam", "dqout", "qcam", "qout", "give", "pxp_run", "copy"}
Closing == {"quit", "join", "close", "camera_stop", "camera_cleanup", "pxp_stop", "pxp_cleanup",
            "device_pxp_deinit", "camera_disable", "pxp_deinit"}
Over    == {"exit", "wild"}

StepsOf(p) ==
    CASE p = "pxpv4l2" ->
            {"pxp_init", "signal", "pxp_check_capabilities", "pxp_config_output",
             "pxp_config_buffer", "camera_init", "turn", "dqcam", "dqout", "qcam", "qout",
             "close", "camera_stop", "camera_cleanup", "pxp_stop", "pxp_cleanup"} \cup Filling
      [] p = "pxpv4l2vision" ->
            (Opening \cup {"camera_init"} \cup Filling \cup Passing \cup Closing)
              \ {"pxp_run", "copy", "camera_disable", "pxp_deinit"}
      [] p = "visionpxp" ->
            {"framebuffer_init", "camera_init", "pxp_engine_init", "camera_enable", "signal",
             "turn", "dqcam", "pxp_run", "copy", "qcam", "camera_disable", "pxp_deinit"}
      [] OTHER -> {"framebuffer_init", "camera_init", "turn"}

TypesFit ==
    /\ program \in Programs /\ pc \in StepsOf(program) \cup Over
    /\ cam \in Queue /\ out \in Queue
    /\ hand \in [cam : Buffers \cup {NoBuffer}, out : Buffers \cup {NoBuffer}]
    /\ ai \in [has_task : BOOLEAN, quit : BOOLEAN]
    /\ worker \in {"none", "lock", "wait", "run", "infer", "queue", "gone"}
    /\ tries \in 0 .. 2 /\ failures \in 0 .. MaxFailures

(* Until the loop nothing moves: no buffer is in a hand, no task given.    *)
StillBefore ==
    /\ pc \in Early =>
          /\ gone = {} /\ hand = [cam |-> NoBuffer, out |-> NoBuffer]
          /\ ~ai.has_task /\ worker \notin Busy /\ "requeue" \notin failed
    /\ pc \in Early /\ (program = "visionpxp" => pc # "signal") =>
          ~cam.on /\ cam.done = <<>> /\ ~out.on /\ out.done = <<>>
    /\ program \in Both /\ pc \in {"camera_init"} \cup Filling => out.queue = Numbers(N)
    /\ program \in Both /\ pc \in Filling =>
          cam.queue = Numbers(IF program = "pxpv4l2vision" THEN N + 1 ELSE N)
    /\ program = "visionpxp" /\ pc \in {"framebuffer_init", "camera_init"} => cam.queue = <<>>
    /\ program = "visionpxp" /\ pc \in {"pxp_engine_init", "camera_enable"} =>
          cam.queue \in {<<>>, Numbers(N)}

(* Only pxpv4l2vision has a worker, from create on.                        *)
WorkerFits ==
    /\ program # "pxpv4l2vision" => worker = "none" /\ ~ai.has_task /\ "requeue" \notin failed
    /\ pc \in {"pxp_init", "signal", "device_pxp_init", "model_init", "label_init", "create"} =>
          worker = "none"
    /\ program = "visionvideo" => ~cam.on
    /\ program \in {"visionpxp", "visionvideo"} => hand.out = NoBuffer

(* Where the loop is, which buffers are in its hands, and that the camera  *)
(* has those of the PxP in the same order.                                 *)
InStep ==
    /\ pc \in {"dqout", "qcam", "qout", "give", "pxp_run", "copy"} => cam.on
    /\ pc \in {"turn", "dqcam"} /\ program # "visionvideo" =>
          hand = [cam |-> NoBuffer, out |-> NoBuffer]
    /\ pc \in {"dqout", "give", "pxp_run", "copy"} => hand.out = NoBuffer
    /\ pc \in {"dqout", "qcam", "pxp_run", "copy"} => hand.cam \in Buffers
    /\ pc = "give" => hand.cam = N
    /\ pc = "dqout" => hand.cam # N /\ Lock(<<hand.cam>> \o All(cam), All(out))
    /\ pc = "qcam" /\ program \in Both => hand.cam # N /\ hand.out = hand.cam
    /\ pc = "qout" => /\ hand.out \in Buffers \ {N} /\ hand.cam = NoBuffer
                      /\ Lock(All(cam), Append(All(out), hand.out))
    /\ program \in Both /\ cam.on /\ pc \in {"turn", "dqcam", "qcam", "give"} =>
          Lock(All(cam), All(out))

(* While the camera runs, no buffer is in two places, and the extra one is *)
(* in one unless giving it back failed.                                    *)
ExtraPlace ==
    /\ Has(All(cam), N) => ~ai.has_task /\ worker \notin Busy
    /\ hand.cam = N => ~ai.has_task /\ worker \notin Busy
    /\ ai.has_task => worker \notin Busy
    /\ "requeue" \notin failed <=>
          Has(All(cam), N) \/ hand.cam = N \/ ai.has_task \/ worker \in Busy

OnePlace ==
    cam.on => /\ Distinct(All(cam)) /\ ~Has(All(cam), hand.cam)
              /\ program = "pxpv4l2" => ~Has(All(cam), N)
              /\ program = "pxpv4l2vision" => ExtraPlace

PassFits == InStep /\ OnePlace /\ FramesGoInStep

(* What is held where, unless a step failed that nobody looks at.          *)
Handled == failed \cap Unhandled = {}
ProgramHolds ==
    /\ program = "pxpv4l2vision" =>
          /\ pc \notin {"pxp_init", "signal", "device_pxp_init", "exit"} =>
                Channel \subseteq held /\ gone = {}
          /\ pc \notin {"pxp_init", "signal", "device_pxp_init", "model_init", "exit"} =>
                {"interpreter", "tensors"} \subseteq held
    /\ program = "visionpxp" =>
          /\ pc \in {"camera_init", "pxp_engine_init"} => "fb" \in held
          /\ pc \in {"pxp_engine_init", "camera_enable"} => "bufs" \in held
          /\ pc \notin {"framebuffer_init", "camera_init", "pxp_engine_init", "exit"} =>
                Channel \subseteq held /\ gone = {} /\ "bufs" \in held
    /\ program = "visionvideo" /\ pc = "turn" => "bufs" \in held

HeldFits ==
    /\ gone \subseteq Channel /\ held \cap gone = {}
    /\ program \in Both /\ (cam.on \/ pc \in {"camera_init"} \cup Filling) => "maps" \in held
    /\ pc \in {"pxp_stop", "pxp_cleanup", "device_pxp_deinit"} => ~cam.on
    /\ program = "visionpxp" /\ (cam.on \/ (pc \in {"pxp_engine_init", "camera_enable"}
                                            /\ cam.queue # <<>>)) => "bufs" \in held
    /\ Handled => wild = {} /\ ProgramHolds

(* The window is the one of the options, the picture that of one pass.     *)
SettingsFit ==
    /\ settings = Default \/ \E os \in Commands : settings = Parse(os)
    /\ crop = NoWindow \/ (crop = Window(settings) /\ pc # "pxp_init")
    /\ picture = <<>> \/ picture = yuyv_to_xrgb8888(Pairs, Rows)

CameraInv == TypesFit /\ StillBefore /\ WorkerFits /\ PassFits /\ HeldFits /\ SettingsFit

-----------------------------------------------------------------------------
(* The steps of the programs.                                              *)
LEMMA MainSteps ==
    ASSUME program = "pxpv4l2"
    PROVE  /\ After("pxp_init") = "signal" /\ After("signal") = "pxp_check_capabilities"
           /\ After("pxp_check_capabilities") = "pxp_config_output"
           /\ After("pxp_config_output") = "pxp_config_buffer"
           /\ After("pxp_config_buffer") = "camera_init"
           /\ After("camera_init") = "pxp_config_windows"
           /\ After("pxp_config_windows") = "pxp_config_controls"
           /\ After("pxp_config_controls") = "pxp_start" /\ After("pxp_start") = "turn"
           /\ After("turn") = "close" /\ After("close") = "camera_stop"
           /\ After("camera_stop") = "camera_cleanup" /\ After("camera_cleanup") = "pxp_stop"
           /\ After("pxp_stop") = "pxp_cleanup" /\ After("pxp_cleanup") = "exit"
<1>1. Plan = main
  BY DEF Plan
<1>2. Len(main) = 15 /\ \A i, j \in 1 .. 15 : main[i] = main[j] => i = j
  BY DEF main
<1>3. \A i \in 1 .. 15 : After(main[i]) = IF i = 15 THEN "exit" ELSE main[i + 1]
  BY <1>1, <1>2 DEF After
<1>4. QED
  BY <1>3 DEF main

LEMMA VisionSteps ==
    ASSUME program = "pxpv4l2vision"
    PROVE  /\ After("pxp_init") = "signal" /\ After("signal") = "device_pxp_init"
           /\ After("device_pxp_init") = "model_init" /\ After("model_init") = "label_init"
           /\ After("label_init") = "create" /\ After("create") = "pxp_check_capabilities"
           /\ After("pxp_check_capabilities") = "pxp_config_output"
           /\ After("pxp_config_output") = "pxp_config_buffer"
           /\ After("pxp_config_buffer") = "camera_init"
           /\ After("camera_init") = "pxp_config_windows"
           /\ After("pxp_config_windows") = "pxp_config_controls"
           /\ After("pxp_config_controls") = "pxp_start" /\ After("pxp_start") = "turn"
           /\ After("turn") = "quit" /\ After("quit") = "join" /\ After("join") = "close"
           /\ After("close") = "camera_stop"
           /\ After("camera_stop") = "camera_cleanup" /\ After("camera_cleanup") = "pxp_stop"
           /\ After("pxp_stop") = "pxp_cleanup" /\ After("pxp_cleanup") = "device_pxp_deinit"
           /\ After("device_pxp_deinit") = "exit"
<1>1. Plan = vision_main
  BY DEF Plan
<1>2. Len(vision_main) = 22 /\ \A i, j \in 1 .. 22 : vision_main[i] = vision_main[j] => i = j
  BY DEF vision_main
<1>3. \A i \in 1 .. 22 : After(vision_main[i]) = IF i = 22 THEN "exit" ELSE vision_main[i + 1]
  BY <1>1, <1>2 DEF After
<1>4. QED
  BY <1>3 DEF vision_main

LEMMA PxpSteps ==
    ASSUME program = "visionpxp"
    PROVE  /\ After("framebuffer_init") = "camera_init" /\ After("camera_init") = "pxp_engine_init"
           /\ After("pxp_engine_init") = "camera_enable" /\ After("camera_enable") = "signal"
           /\ After("signal") = "turn" /\ After("turn") = "camera_disable"
           /\ After("camera_disable") = "pxp_deinit" /\ After("pxp_deinit") = "exit"
<1>1. Plan = visionpxp_main
  BY DEF Plan
<1>2. Len(visionpxp_main) = 8 /\ \A i, j \in 1 .. 8 : visionpxp_main[i] = visionpxp_main[j] => i = j
  BY DEF visionpxp_main
<1>3. \A i \in 1 .. 8 : After(visionpxp_main[i]) = IF i = 8 THEN "exit" ELSE visionpxp_main[i + 1]
  BY <1>1, <1>2 DEF After
<1>4. QED
  BY <1>3 DEF visionpxp_main

LEMMA VideoSteps ==
    ASSUME program = "visionvideo"
    PROVE  After("framebuffer_init") = "camera_init" /\ After("camera_init") = "turn"
<1>1. Plan = visionvideo_main
  BY DEF Plan
<1>2. Len(visionvideo_main) = 3 /\ \A i, j \in 1 .. 3 : visionvideo_main[i] = visionvideo_main[j] => i = j
  BY DEF visionvideo_main
<1>3. \A i \in 1 .. 3 : After(visionvideo_main[i]) = IF i = 3 THEN "exit" ELSE visionvideo_main[i + 1]
  BY <1>1, <1>2 DEF After
<1>4. QED
  BY <1>3 DEF visionvideo_main

LEMMA Counts == N \in Nat /\ N \in Buffers /\ NoBuffer \notin Buffers
  BY CameraAssumption DEF N, Buffers

(* What both queues are given at first.                                    *)
LEMMA FirstBuffers ==
    ASSUME NEW n \in {N, N + 1}
    PROVE  /\ Numbers(n) \in Seq(Buffers) /\ Len(Numbers(n)) = n
           /\ \A i \in 1 .. n : Numbers(n)[i] = i - 1
           /\ Distinct(Numbers(n))
           /\ Has(Numbers(n), N) <=> n = N + 1
<1>1. N \in Nat /\ Buffers = 0 .. N
  BY Counts DEF Buffers, N
<1>2. /\ Numbers(n) \in Seq(Buffers) /\ Len(Numbers(n)) = n
      /\ \A i \in 1 .. n : Numbers(n)[i] = i - 1
  BY <1>1 DEF Numbers
<1>3. Distinct(Numbers(n))
  BY <1>1, <1>2 DEF Distinct
<1>4. Has(Numbers(n), N) <=> n = N + 1
  BY <1>1, <1>2 DEF Has
<1>5. QED
  BY <1>2, <1>3, <1>4

LEMMA FirstLock == Lock(Numbers(N), Numbers(N)) /\ Lock(Numbers(N + 1), Numbers(N))
<1>1. ~Has(Numbers(N), N) /\ N \in Nat
  BY FirstBuffers, Counts
<1>2. InsertedAt(Numbers(N + 1), Numbers(N), N + 1)
  <2>1. Len(Numbers(N)) = N /\ \A i \in 1 .. N : Numbers(N)[i] = i - 1
    BY FirstBuffers
  <2>2. Len(Numbers(N + 1)) = N + 1 /\ \A i \in 1 .. N + 1 : Numbers(N + 1)[i] = i - 1
    BY FirstBuffers
  <2>3. QED
    BY <1>1, <2>1, <2>2 DEF InsertedAt
<1>3. N + 1 \in 1 .. Len(Numbers(N)) + 1
  BY <1>1, FirstBuffers
<1>4. QED
  BY <1>1, <1>2, <1>3 DEF Lock

-----------------------------------------------------------------------------
(* What changes little.                                                    *)

(* The options are parsed once.                                            *)
LEMMA SettingsKeep ==
    ASSUME SettingsFit, UNCHANGED setup, pc' # "pxp_init" \/ pc' = pc
    PROVE  SettingsFit'
  BY DEF SettingsFit, setup, Window, Default, NoWindow

(* A camera that does not run, or stops.                                   *)
LEMMA PassStops ==
    ASSUME PassFits, UNCHANGED hand, ~cam'.on,
           pc' \notin Passing \/ (pc' = "turn" /\ program' = "visionvideo")
    PROVE  PassFits'
  BY DEF PassFits, InStep, OnePlace, FramesGoInStep, Passing, Both

(* A step that takes no buffer and gives none.                             *)
LEMMA PassKeeps ==
    ASSUME PassFits, UNCHANGED <<program, hand>>,
           cam'.on = cam.on, All(cam)' = All(cam), All(out)' = All(out),
           ai'.has_task = ai.has_task, worker' \in Busy <=> worker \in Busy,
           "requeue" \in failed' <=> "requeue" \in failed,
           pc' = pc \/ pc' \notin Passing \/ {pc, pc'} \subseteq {"turn", "dqcam"}
    PROVE  PassFits'
<1>1. FramesGoInStep'
  BY DEF PassFits, FramesGoInStep
<1>2. OnePlace'
  BY DEF PassFits, OnePlace, ExtraPlace
<1>3. InStep'
  BY DEF PassFits, InStep, Passing
<1>4. QED
  BY <1>1, <1>2, <1>3 DEF PassFits

(* After the loop nobody asks what the worker has.                         *)
LEMMA Grows ==
    ASSUME failed \subseteq failed', Handled'
    PROVE  Handled
  BY DEF Handled

(* A step that takes nothing and gives nothing back, once all is taken.    *)
LEMMA HeldKeeps ==
    ASSUME HeldFits, UNCHANGED <<program, held, gone, wild>>, failed \subseteq failed',
           cam'.on => cam.on, pc \notin Early \cup Over, pc' \notin (Early \cup Over) \ {"exit"},
           pc' = "turn" => pc = "turn" \/ program # "visionvideo",
           pc' \in {"pxp_stop", "pxp_cleanup", "device_pxp_deinit"} => ~cam'.on
    PROVE  HeldFits'
<1>1. Handled' => Handled
  BY Grows
<1>2. ASSUME ProgramHolds PROVE ProgramHolds'
  BY <1>2 DEF ProgramHolds, Early, Opening, Filling, Over
<1>3. QED
  BY <1>1, <1>2 DEF HeldFits, Early, Opening, Filling, Over

(* A step of another thread that takes nothing and gives nothing back.     *)
LEMMA HeldStays ==
    ASSUME HeldFits, UNCHANGED <<program, pc, held, gone, wild>>, failed \subseteq failed',
           cam'.on = cam.on, pc \in {"pxp_engine_init", "camera_enable"} => UNCHANGED cam
    PROVE  HeldFits'
<1>1. Handled' => Handled
  BY Grows
<1>2. ASSUME ProgramHolds PROVE ProgramHolds'
  BY <1>2 DEF ProgramHolds
<1>3. QED
  BY <1>1, <1>2 DEF HeldFits, Early, Opening, Filling, Over

(* Beyond the beginning, what the beginning is like does not matter.       *)
LEMMA BeforeIsOver ==
    ASSUME pc' \notin Early
    PROVE  StillBefore'
  BY DEF StillBefore, Early, Opening, Filling

LEMMA WorkerKeeps ==
    ASSUME WorkerFits, UNCHANGED <<program, worker>>, ai'.has_task = ai.has_task,
           cam'.on => cam.on, hand'.out = hand.out, "requeue" \in failed' => "requeue" \in failed,
           \/ pc' = pc \/ worker = "none"
           \/ pc' \notin {"pxp_init", "signal", "device_pxp_init", "model_init", "label_init", "create"}
    PROVE  WorkerFits'
  BY DEF WorkerFits

-----------------------------------------------------------------------------
(* The steps up to the loop.                                               *)

LEMMA InitStep ==
    ASSUME CameraInv, NEW p \in Both, Init(p)
    PROVE  CameraInv'
<1>1. /\ program = p /\ program' = p /\ pc = "pxp_init" /\ pc' \in {"signal", "exit"}
      /\ failures' \in 0 .. MaxFailures /\ failed \subseteq failed'
  BY MainSteps, VisionSteps, CameraAssumption
     DEF Init, At, Both, Proceed, Exits, Fails, Well, luck, CameraInv, TypesFit
<1>2. TypesFit'
  BY <1>1 DEF CameraInv, TypesFit, Init, queues, thread, StepsOf, Opening, Over, Both
<1>3. ~cam.on /\ worker = "none" /\ UNCHANGED <<cam, out, hand, ai, worker>>
  BY <1>1 DEF CameraInv, StillBefore, WorkerFits, Init, queues, thread, Early, Opening, Both
<1>4. "requeue" \in failed' => "requeue" \in failed
  BY DEF Init, Fails, Well, luck
<1>5. StillBefore'
  BY <1>1, <1>3, <1>4 DEF CameraInv, StillBefore, Init, Early, Opening, Filling, Both
<1>6. WorkerFits'
  BY <1>1, <1>3, <1>4, WorkerKeeps DEF CameraInv
<1>7. PassFits'
  BY <1>1, <1>3, PassStops DEF CameraInv, Passing
<1>8. HeldFits'
  <2>1. gone = {} /\ UNCHANGED <<gone, wild>>
    BY <1>1 DEF CameraInv, StillBefore, Early, Opening, Init
  <2>2. Handled' => Handled
    BY <1>1, Grows
  <2>3. ProgramHolds'
    BY <1>1 DEF ProgramHolds, Both
  <2>4. QED
    BY <1>1, <1>3, <2>1, <2>2, <2>3 DEF CameraInv, HeldFits, Both, Filling
<1>9. SettingsFit'
  <2>1. UNCHANGED <<crop, picture>> /\ crop = NoWindow
    BY <1>1 DEF Init, CameraInv, SettingsFit
  <2>2. settings' = settings \/ \E os \in Commands : settings' = Parse(os)
    BY DEF Init
  <2>3. QED
    BY <2>1, <2>2 DEF CameraInv, SettingsFit, Default, NoWindow, Parse
<1>10. QED
  BY <1>2, <1>5, <1>6, <1>7, <1>8, <1>9 DEF CameraInv

LEMMA Outset ==
    ASSUME CameraInv, pc \in Early, program = "visionpxp" => pc # "signal"
    PROVE  /\ ~cam.on /\ cam.done = <<>> /\ out.done = <<>>
           /\ gone = {} /\ hand = [cam |-> NoBuffer, out |-> NoBuffer]
           /\ ~ai.has_task /\ worker \notin Busy /\ "requeue" \notin failed
  BY DEF CameraInv, StillBefore

(* A step that takes what it needs for the next one, or leaves.            *)
LEMMA TakesStep ==
    ASSUME CameraInv, NEW p \in Both,
           NEW step \in {"pxp_check_capabilities", "pxp_config_output", "pxp_config_controls"},
           Takes(p, step, {})
    PROVE  CameraInv'
<1>1. /\ program = p /\ program' = p /\ pc = step
      /\ pc' \in {"pxp_config_output", "pxp_config_buffer", "pxp_start", "exit"}
      /\ (pc' = "pxp_start" => pc = "pxp_config_controls")
      /\ failures' \in 0 .. MaxFailures /\ failed \subseteq failed'
      /\ ("requeue" \in failed' => "requeue" \in failed)
  BY MainSteps, VisionSteps, CameraAssumption
     DEF Takes, At, Both, Proceed, Exits, Fails, Well, luck, CameraInv, TypesFit
<1>2. UNCHANGED <<cam, out, hand, ai, worker, tries, held, gone, wild, settings, crop, picture>>
  BY DEF Takes, queues, thread, setup
<1>3. TypesFit'
  BY <1>1, <1>2 DEF CameraInv, TypesFit, StepsOf, Opening, Filling, Over, Both
<1>4. ~cam.on
  BY <1>1, Outset DEF Early, Opening, Filling, Both
<1>5. StillBefore'
  BY <1>1, <1>2 DEF CameraInv, StillBefore, Early, Opening, Filling, Both
<1>6. WorkerFits'
  BY <1>1, <1>2, WorkerKeeps DEF CameraInv
<1>7. PassFits'
  BY <1>1, <1>2, <1>4, PassStops DEF CameraInv, Passing
<1>8. HeldFits'
  <2>1. Handled' => Handled
    BY <1>1, Grows
  <2>2. ProgramHolds => ProgramHolds'
    BY <1>1, <1>2 DEF ProgramHolds, Both
  <2>3. QED
    BY <1>1, <1>2, <1>4, <2>1, <2>2 DEF CameraInv, HeldFits, Both, Filling
<1>9. SettingsFit'
  BY <1>1, <1>2, SettingsKeep DEF CameraInv, setup
<1>10. QED
  BY <1>3, <1>5, <1>6, <1>7, <1>8, <1>9 DEF CameraInv

LEMMA ConfigBufferStep ==
    ASSUME CameraInv, NEW p \in Both, pxp_config_buffer(p)
    PROVE  CameraInv'
<1>1. /\ program = p /\ program' = p /\ pc = "pxp_config_buffer"
      /\ \/ pc' = "camera_init" /\ out' = [out EXCEPT !.queue = Numbers(N)] /\ held' = held \cup {"maps"}
         \/ pc' = "exit" /\ UNCHANGED <<held, out>>
      /\ failures' \in 0 .. MaxFailures /\ failed \subseteq failed'
      /\ ("requeue" \in failed' => "requeue" \in failed)
  BY MainSteps, VisionSteps, CameraAssumption
     DEF pxp_config_buffer, At, Both, Proceed, Exits, Fails, Well, luck, CameraInv, TypesFit, N
<1>2. UNCHANGED <<cam, hand, ai, worker, tries, gone, wild, settings, crop, picture>>
  BY DEF pxp_config_buffer, thread, setup
<1>3. TypesFit'
  <2>1. out' \in Queue
    BY <1>1, FirstBuffers DEF CameraInv, TypesFit, Queue
  <2>2. QED
    BY <1>1, <1>2, <2>1 DEF CameraInv, TypesFit, StepsOf, Opening, Filling, Over, Both
<1>4. ~cam.on /\ gone = {}
  BY <1>1, Outset DEF Early, Opening, Filling, Both
<1>5. StillBefore'
  <2>1. out' = [out EXCEPT !.queue = Numbers(N)] =>
            out'.queue = Numbers(N) /\ out'.done = out.done /\ out'.on = out.on
    BY DEF CameraInv, TypesFit, Queue
  <2>2. QED
    BY <1>1, <1>2, <2>1 DEF CameraInv, StillBefore, Early, Opening, Filling, Both
<1>6. WorkerFits'
  BY <1>1, <1>2, WorkerKeeps DEF CameraInv
<1>7. PassFits'
  BY <1>1, <1>2, <1>4, PassStops DEF CameraInv, Passing
<1>8. HeldFits'
  <2>1. Handled' => Handled
    BY <1>1, Grows
  <2>2. ProgramHolds => ProgramHolds'
    BY <1>1, <1>2 DEF ProgramHolds, Both
  <2>3. QED
    BY <1>1, <1>2, <1>4, <2>1, <2>2 DEF CameraInv, HeldFits, Both, Filling
<1>9. SettingsFit'
  BY <1>1, <1>2, SettingsKeep DEF CameraInv, setup
<1>10. QED
  BY <1>3, <1>5, <1>6, <1>7, <1>8, <1>9 DEF CameraInv

LEMMA ConfigWindowsStep ==
    ASSUME CameraInv, NEW p \in Both, pxp_config_windows(p)
    PROVE  CameraInv'
<1>1. /\ program = p /\ program' = p /\ pc = "pxp_config_windows"
      /\ \/ pc' = "pxp_config_controls" /\ crop' = Window(settings)
         \/ pc' = "exit" /\ UNCHANGED crop
      /\ failures' \in 0 .. MaxFailures /\ failed \subseteq failed'
      /\ ("requeue" \in failed' => "requeue" \in failed)
  BY MainSteps, VisionSteps, CameraAssumption
     DEF pxp_config_windows, At, Both, Proceed, Exits, Fails, Well, luck, CameraInv, TypesFit
<1>2. UNCHANGED <<cam, out, hand, ai, worker, tries, held, gone, wild, settings, picture>>
  BY DEF pxp_config_windows, thread, queues
<1>3. TypesFit'
  BY <1>1, <1>2 DEF CameraInv, TypesFit, StepsOf, Opening, Filling, Over, Both
<1>4. ~cam.on
  BY <1>1, Outset DEF Early, Opening, Filling, Both
<1>5. StillBefore'
  BY <1>1, <1>2 DEF CameraInv, StillBefore, Early, Opening, Filling, Both
<1>6. WorkerFits'
  BY <1>1, <1>2, WorkerKeeps DEF CameraInv
<1>7. PassFits'
  BY <1>1, <1>2, <1>4, PassStops DEF CameraInv, Passing
<1>8. HeldFits'
  <2>1. Handled' => Handled
    BY <1>1, Grows
  <2>2. ProgramHolds => ProgramHolds'
    BY <1>1, <1>2 DEF ProgramHolds, Both
  <2>3. QED
    BY <1>1, <1>2, <1>4, <2>1, <2>2 DEF CameraInv, HeldFits, Both, Filling
<1>9. SettingsFit'
  BY <1>1, <1>2 DEF CameraInv, SettingsFit, Window
<1>10. QED
  BY <1>3, <1>5, <1>6, <1>7, <1>8, <1>9 DEF CameraInv

LEMMA CameraInitStep ==
    ASSUME CameraInv, camera_init \/ vision_camera_init
    PROVE  CameraInv'
<1> DEFINE first == Numbers(IF program = "pxpv4l2vision" THEN N + 1 ELSE N)
<1>1. /\ program \in Both /\ program' = program /\ pc = "camera_init"
      /\ \/ /\ pc' = "pxp_config_windows" /\ cam' = [cam EXCEPT !.queue = first]
            /\ held' = held \cup {"cam", "bufs"}
         \/ pc' = "exit" /\ UNCHANGED <<held, cam>>
      /\ failures' \in 0 .. MaxFailures /\ failed \subseteq failed'
      /\ ("requeue" \in failed' => "requeue" \in failed)
  BY MainSteps, VisionSteps, CameraAssumption
     DEF camera_init, vision_camera_init, CameraInit, At, Both, Proceed, Exits, Fails, Well, luck,
         CameraInv, TypesFit, N
<1>2. UNCHANGED <<out, hand, ai, worker, tries, gone, wild, settings, crop, picture>>
  BY DEF camera_init, vision_camera_init, CameraInit, thread, setup
<1>3. first \in Seq(Buffers)
  BY FirstBuffers
<1>4. /\ cam' \in Queue /\ cam'.on = cam.on /\ cam'.done = cam.done
      /\ pc' = "pxp_config_windows" => cam'.queue = first
  BY <1>1, <1>3 DEF CameraInv, TypesFit, Queue
<1>5. ~cam.on /\ gone = {}
  BY <1>1, Outset DEF Early, Opening, Filling, Both
<1>6. TypesFit'
  BY <1>1, <1>2, <1>4 DEF CameraInv, TypesFit, StepsOf, Opening, Filling, Over, Both
<1>7. StillBefore'
  BY <1>1, <1>2, <1>4 DEF CameraInv, StillBefore, Early, Opening, Filling, Both
<1>8. WorkerFits'
  BY <1>1, <1>2, <1>4, WorkerKeeps DEF CameraInv
<1>9. PassFits'
  BY <1>1, <1>2, <1>4, <1>5, PassStops DEF CameraInv, Passing
<1>10. HeldFits'
  <2>1. Handled' => Handled
    BY <1>1, Grows
  <2>2. ProgramHolds => ProgramHolds'
    BY <1>1, <1>2 DEF ProgramHolds, Both
  <2>3. QED
    BY <1>1, <1>2, <1>4, <1>5, <2>1, <2>2 DEF CameraInv, HeldFits, Both, Filling
<1>11. SettingsFit'
  BY <1>1, <1>2, SettingsKeep DEF CameraInv, setup
<1>12. QED
  BY <1>6, <1>7, <1>8, <1>9, <1>10, <1>11 DEF CameraInv

LEMMA SignalStep ==
    ASSUME CameraInv, NEW p \in Both \cup {"visionpxp"}, signal(p)
    PROVE  CameraInv'
<1>1. /\ program = p /\ program' = p /\ pc = "signal" /\ held' = held \cup {"signal"}
      /\ pc' = CASE p = "pxpv4l2" -> "pxp_check_capabilities"
                 [] p = "pxpv4l2vision" -> "device_pxp_init"
                 [] p = "visionpxp" -> "turn"
  BY MainSteps, VisionSteps, PxpSteps DEF signal, At, Proceed, Both
<1>2. UNCHANGED <<cam, out, hand, ai, worker, tries, gone, wild, settings, crop, picture,
                  failed, failures>>
  BY DEF signal, thread, setup, queues, luck
<1>3. TypesFit'
  BY <1>1, <1>2 DEF CameraInv, TypesFit, StepsOf, Opening, Filling, Passing, Over, Both
<1>4. gone = {} /\ hand = [cam |-> NoBuffer, out |-> NoBuffer] /\ (p # "visionpxp" => ~cam.on)
  BY <1>1 DEF CameraInv, StillBefore, Early, Opening, Both
<1>5. StillBefore'
  BY <1>1, <1>2 DEF CameraInv, StillBefore, Early, Opening, Filling, Both
<1>6. WorkerFits'
  BY <1>1, <1>2, WorkerKeeps DEF CameraInv, WorkerFits
<1>7. PassFits'
  <2>1. CASE p # "visionpxp"
    BY <1>1, <1>2, <1>4, <2>1, PassStops DEF CameraInv, Passing, Both
  <2>2. CASE p = "visionpxp"
    BY <1>1, <1>2, <1>4, <2>2
       DEF CameraInv, PassFits, InStep, OnePlace, FramesGoInStep, Both
  <2>3. QED
    BY <2>1, <2>2
<1>8. HeldFits'
  <2>1. Handled' => Handled
    BY <1>2 DEF Handled
  <2>2. ProgramHolds => ProgramHolds'
    BY <1>1, <1>2 DEF ProgramHolds, Both
  <2>3. QED
    BY <1>1, <1>2, <1>4, <2>1, <2>2 DEF CameraInv, HeldFits, Both, Filling
<1>9. SettingsFit'
  BY <1>1, <1>2, SettingsKeep DEF CameraInv, setup, Both
<1>10. QED
  BY <1>3, <1>5, <1>6, <1>7, <1>8, <1>9 DEF CameraInv

LEMMA ChannelStep ==
    ASSUME CameraInv, device_pxp_init
    PROVE  CameraInv'
<1>1. /\ program = "pxpv4l2vision" /\ program' = program /\ pc = "device_pxp_init"
      /\ \/ pc' = "model_init" /\ held' = held \cup Channel
         \/ pc' = "exit" /\ UNCHANGED held
      /\ failures' \in 0 .. MaxFailures /\ failed \subseteq failed'
      /\ ("requeue" \in failed' => "requeue" \in failed)
  BY VisionSteps, CameraAssumption
     DEF device_pxp_init, At, Proceed, Exits, Fails, Well, luck, CameraInv, TypesFit, Channel,
         TakeChannel, pxp_get_mem, pxp_request_channel, pxp_lib_init
<1>2. UNCHANGED <<cam, out, hand, ai, worker, tries, gone, wild, settings, crop, picture>>
  BY DEF device_pxp_init, thread, queues, setup
<1>3. TypesFit'
  BY <1>1, <1>2 DEF CameraInv, TypesFit, StepsOf, Opening, Filling, Over, Both
<1>4. ~cam.on /\ gone = {}
  BY <1>1, Outset DEF Early, Opening, Filling, Both
<1>5. StillBefore'
  BY <1>1, <1>2 DEF CameraInv, StillBefore, Early, Opening, Filling, Both
<1>6. WorkerFits'
  BY <1>1, <1>2, WorkerKeeps DEF CameraInv, WorkerFits
<1>7. PassFits'
  BY <1>1, <1>2, <1>4, PassStops DEF CameraInv, Passing
<1>8. HeldFits'
  <2>1. Handled' => Handled
    BY <1>1, Grows
  <2>2. ProgramHolds'
    BY <1>1, <1>2, <1>4 DEF ProgramHolds, Both
  <2>3. QED
    BY <1>1, <1>2, <1>4, <2>1, <2>2 DEF CameraInv, HeldFits, Both, Filling
<1>9. SettingsFit'
  BY <1>1, <1>2, SettingsKeep DEF CameraInv, setup
<1>10. QED
  BY <1>3, <1>5, <1>6, <1>7, <1>8, <1>9 DEF CameraInv

LEMMA ModelStep ==
    ASSUME CameraInv, model_init \/ label_init
    PROVE  CameraInv'
<1>1. /\ program = "pxpv4l2vision" /\ program' = program
      /\ \/ pc = "model_init" /\ pc' = "label_init"
         \/ pc = "label_init" /\ pc' = "create"
      /\ held \subseteq held' /\ held' \subseteq held \cup {"interpreter", "tensors", "labels"}
      /\ failures' \in 0 .. MaxFailures /\ failed \subseteq failed'
      /\ ("requeue" \in failed' => "requeue" \in failed)
  BY VisionSteps, CameraAssumption
     DEF model_init, label_init, At, Proceed, Fails, Well, luck, CameraInv, TypesFit
<1>2. UNCHANGED <<cam, out, hand, ai, worker, tries, gone, wild, settings, crop, picture>>
  BY DEF model_init, label_init, thread, queues, setup
<1>3. TypesFit'
  BY <1>1, <1>2 DEF CameraInv, TypesFit, StepsOf, Opening, Filling, Over, Both
<1>4. ~cam.on /\ gone = {}
  BY <1>1, Outset DEF Early, Opening, Filling, Both
<1>5. StillBefore'
  BY <1>1, <1>2 DEF CameraInv, StillBefore, Early, Opening, Filling, Both
<1>6. WorkerFits'
  BY <1>1, <1>2, WorkerKeeps DEF CameraInv, WorkerFits
<1>7. PassFits'
  BY <1>1, <1>2, <1>4, PassStops DEF CameraInv, Passing
<1>8. HeldFits'
  <2>1. Handled' => Handled
    BY <1>1, Grows
  <2>2. pc = "model_init" /\ Handled' => {"interpreter", "tensors"} \subseteq held'
    BY DEF model_init, label_init, At, Handled, Unhandled, Fails
  <2>3. Handled' /\ ProgramHolds => ProgramHolds'
    BY <1>1, <1>2, <2>2 DEF ProgramHolds, Both
  <2>4. QED
    BY <1>1, <1>2, <1>4, <2>1, <2>3 DEF CameraInv, HeldFits, Both, Filling
<1>9. SettingsFit'
  BY <1>1, <1>2, SettingsKeep DEF CameraInv, setup
<1>10. QED
  BY <1>3, <1>5, <1>6, <1>7, <1>8, <1>9 DEF CameraInv

LEMMA CreateStep ==
    ASSUME CameraInv, worker_thread_init
    PROVE  CameraInv'
<1>1. /\ program = "pxpv4l2vision" /\ program' = program
      /\ pc = "create" /\ pc' = "pxp_check_capabilities"
      /\ worker' = "lock" /\ ai' = [has_task |-> FALSE, quit |-> FALSE]
  BY VisionSteps DEF worker_thread_init, At, Proceed
<1>2. UNCHANGED <<cam, out, hand, tries, held, gone, wild, settings, crop, picture, failed, failures>>
  BY DEF worker_thread_init, queues, setup, luck
<1>3. TypesFit'
  BY <1>1, <1>2 DEF CameraInv, TypesFit, StepsOf, Opening, Filling, Over, Both
<1>4. ~cam.on /\ gone = {}
  BY <1>1, Outset DEF Early, Opening, Filling, Both
<1>5. StillBefore'
  BY <1>1, <1>2 DEF CameraInv, StillBefore, Early, Opening, Filling, Both, Busy
<1>6. WorkerFits'
  BY <1>1, <1>2 DEF CameraInv, WorkerFits
<1>7. PassFits'
  BY <1>1, <1>2, <1>4, PassStops DEF CameraInv, Passing
<1>8. HeldFits'
  <2>1. Handled' => Handled
    BY <1>2 DEF Handled
  <2>2. ProgramHolds => ProgramHolds'
    BY <1>1, <1>2 DEF ProgramHolds, Both
  <2>3. QED
    BY <1>1, <1>2, <1>4, <2>1, <2>2 DEF CameraInv, HeldFits, Both, Filling
<1>9. SettingsFit'
  BY <1>1, <1>2, SettingsKeep DEF CameraInv, setup
<1>10. QED
  BY <1>3, <1>5, <1>6, <1>7, <1>8, <1>9 DEF CameraInv

(* Both queues are full and untouched when they start.                     *)
LEMMA StartStep ==
    ASSUME CameraInv, NEW p \in Both, StartStreams(p)
    PROVE  CameraInv'
<1> DEFINE n == IF program = "pxpv4l2vision" THEN N + 1 ELSE N
<1>1. /\ program = p /\ program' = p /\ pc = "pxp_start" /\ pc' \in {"turn", "exit"}
      /\ cam' = [cam EXCEPT !.on = cam.queue # <<>>] \/ cam' = cam
      /\ (pc' = "turn" => out' = [out EXCEPT !.on = out.queue # <<>>]) /\ (pc' = "exit" => out' = out)
      /\ failures' \in 0 .. MaxFailures /\ failed \subseteq failed'
      /\ ("requeue" \in failed' => "requeue" \in failed)
  BY MainSteps, VisionSteps, CameraAssumption
     DEF StartStreams, camera_enable, StreamOn, At, Both, Proceed, Exits, Fails, Well, luck,
         CameraInv, TypesFit
<1>2. UNCHANGED <<hand, ai, worker, tries, held, gone, wild, settings, crop, picture>>
  BY DEF StartStreams, thread, setup
<1>3. /\ ~cam.on /\ cam.done = <<>> /\ out.done = <<>> /\ gone = {} /\ ~ai.has_task
      /\ hand = [cam |-> NoBuffer, out |-> NoBuffer]
      /\ worker \notin Busy /\ "requeue" \notin failed
  BY <1>1, Outset DEF Early, Opening, Filling, Both
<1>4. cam.queue = Numbers(n) /\ out.queue = Numbers(N) /\ n \in {N, N + 1}
  BY <1>1 DEF CameraInv, StillBefore, Filling
<1>5. /\ cam' \in Queue /\ cam'.queue = cam.queue /\ cam'.done = cam.done
      /\ out' \in Queue /\ out'.queue = out.queue /\ out'.done = out.done
  BY <1>1 DEF CameraInv, TypesFit, Queue
<1>6. All(cam)' = Numbers(n) /\ All(out)' = Numbers(N)
  <2>1. Numbers(n) \in Seq(Buffers) /\ Numbers(N) \in Seq(Buffers)
    BY <1>4, FirstBuffers
  <2>2. <<>> \o Numbers(n) = Numbers(n) /\ <<>> \o Numbers(N) = Numbers(N)
    BY <2>1, ConcatEmptySeq
  <2>3. QED
    BY <1>3, <1>4, <1>5, <2>2 DEF All
<1>7. TypesFit'
  BY <1>1, <1>2, <1>5 DEF CameraInv, TypesFit, StepsOf, Opening, Filling, Passing, Over, Both
<1>8. StillBefore'
  BY <1>1, BeforeIsOver DEF Early, Opening, Filling
<1>9. WorkerFits'
  BY <1>1, <1>2 DEF CameraInv, WorkerFits, Both
<1>10. PassFits'
  <2>1. InStep'
    <3>1. Lock(All(cam)', All(out)')
      BY <1>6, FirstLock
    <3>2. QED
      BY <1>1, <1>2, <1>3, <3>1 DEF InStep, Both
  <2>2. OnePlace'
    <3>1. Distinct(All(cam)') /\ (Has(All(cam)', N) <=> n = N + 1)
      BY <1>4, <1>6, FirstBuffers
    <3>2. ~Has(All(cam)', NoBuffer)
      <4>1. Numbers(n) \in Seq(Buffers)
        BY <1>4, FirstBuffers
      <4>2. QED
        BY <1>6, <4>1, Counts DEF Has
    <3>3. hand'.cam = NoBuffer /\ hand.cam # N
      BY <1>2, <1>3, Counts
    <3>4. N # N + 1
      BY Counts
    <3>5. p = "pxpv4l2vision" => ExtraPlace'
      BY <1>1, <1>2, <1>3, <3>1, <3>3 DEF ExtraPlace, Busy
    <3>6. QED
      BY <1>1, <3>1, <3>2, <3>3, <3>4, <3>5 DEF OnePlace
  <2>3. FramesGoInStep'
    BY <1>2, <1>3 DEF FramesGoInStep
  <2>4. QED
    BY <2>1, <2>2, <2>3 DEF PassFits
<1>11. HeldFits'
  <2>1. Handled' => Handled
    BY <1>1, Grows
  <2>2. ProgramHolds => ProgramHolds'
    BY <1>1, <1>2 DEF ProgramHolds, Both
  <2>3. QED
    BY <1>1, <1>2, <1>3, <2>1, <2>2 DEF CameraInv, HeldFits, Both, Filling
<1>12. SettingsFit'
  BY <1>1, <1>2, SettingsKeep DEF CameraInv, setup
<1>13. QED
  BY <1>7, <1>8, <1>9, <1>10, <1>11, <1>12 DEF CameraInv

-----------------------------------------------------------------------------
(* The loop.                                                               *)

(* Breaking out of it, whichever call failed.                              *)
LEMMA BreakStep ==
    ASSUME CameraInv, program \in Loop, Break, failures' \in 0 .. MaxFailures,
           pc \in {"dqcam", "dqout", "qcam", "qout"},
           UNCHANGED <<program, setup, quitflag, held, gone, cam, out, hand, thread, wild>>
    PROVE  CameraInv'
<1>1. /\ pc' \in {"close", "quit", "camera_disable"}
      /\ program = "pxpv4l2" => pc' = "close"
      /\ program = "pxpv4l2vision" => pc' = "quit"
      /\ program = "visionpxp" => pc' = "camera_disable"
      /\ failed' = failed \cup {"loop"}
  BY MainSteps, VisionSteps, PxpSteps DEF Break, Loop
<1>2. TypesFit'
  BY <1>1 DEF CameraInv, TypesFit, StepsOf, Loop, Closing, Over, thread
<1>3. StillBefore'
  BY <1>1, BeforeIsOver DEF Early, Opening, Filling
<1>4. WorkerFits'
  BY <1>1, WorkerKeeps DEF CameraInv, thread
<1>5. PassFits'
  BY <1>1, PassKeeps DEF CameraInv, thread, Passing
<1>6. HeldFits'
  BY <1>1, HeldKeeps DEF CameraInv, Early, Opening, Filling, Over
<1>7. SettingsFit'
  BY <1>1, SettingsKeep DEF CameraInv
<1>8. QED
  BY <1>2, <1>3, <1>4, <1>5, <1>6, <1>7 DEF CameraInv

LEMMA TurnStep ==
    ASSUME CameraInv, Turn
    PROVE  CameraInv'
<1>1. /\ program \in Loop /\ program' = program /\ pc = "turn"
      /\ pc' \in {"dqcam", "close", "quit", "camera_disable"}
      /\ program = "pxpv4l2" => pc' \in {"dqcam", "close"}
      /\ program = "pxpv4l2vision" => pc' \in {"dqcam", "quit"}
      /\ program = "visionpxp" => pc' \in {"dqcam", "camera_disable"}
  BY MainSteps, VisionSteps, PxpSteps DEF Turn, Proceed, Loop
<1>2. UNCHANGED <<cam, out, hand, ai, worker, tries, held, gone, wild, settings, crop, picture,
                  failed, failures>>
  BY DEF Turn, queues, thread, setup, luck
<1>3. TypesFit'
  BY <1>1, <1>2 DEF CameraInv, TypesFit, StepsOf, Loop, Passing, Closing, Over
<1>4. StillBefore'
  BY <1>1, BeforeIsOver DEF Early, Opening, Filling
<1>5. WorkerFits'
  BY <1>1, <1>2, WorkerKeeps DEF CameraInv
<1>6. PassFits'
  BY <1>1, <1>2, PassKeeps DEF CameraInv, Passing
<1>7. HeldFits'
  BY <1>1, <1>2, HeldKeeps DEF CameraInv, Early, Opening, Filling, Over
<1>8. SettingsFit'
  BY <1>1, <1>2, SettingsKeep DEF CameraInv, setup
<1>9. QED
  BY <1>3, <1>4, <1>5, <1>6, <1>7, <1>8 DEF CameraInv

(* A step of the loop that moves a buffer: what it has to show.            *)
LEMMA BufferStep ==
    ASSUME CameraInv, UNCHANGED <<program, settings, crop, picture, held, gone, ai, worker, tries, wild,
                                  failed, failures>>,
           pc \in Passing, pc' \in Passing, pc' \in StepsOf(program), program \in Loop,
           cam' \in Queue, out' \in Queue, cam'.on = cam.on,
           hand' \in [cam : Buffers \cup {NoBuffer}, out : Buffers \cup {NoBuffer}],
           program = "visionpxp" => hand'.out = NoBuffer,
           PassFits'
    PROVE  CameraInv'
<1>1. TypesFit'
  BY DEF CameraInv, TypesFit
<1>2. StillBefore'
  BY BeforeIsOver DEF Early, Opening, Filling, Passing
<1>3. WorkerFits'
  BY DEF CameraInv, WorkerFits, Passing, Loop
<1>4. HeldFits'
  BY HeldKeeps DEF CameraInv, Early, Opening, Filling, Over, Passing, Loop
<1>5. SettingsFit'
  BY SettingsKeep DEF CameraInv, setup, Passing
<1>6. QED
  BY <1>1, <1>2, <1>3, <1>4, <1>5 DEF CameraInv

(* The camera gives a buffer: the extra one, or that the PxP has next.     *)
LEMMA TakeCameraStep ==
    ASSUME CameraInv, TakeCamera
    PROVE  CameraInv'
<1>1. CASE Break /\ UNCHANGED <<cam, hand>>
  <2>1. failures' \in 0 .. MaxFailures
    BY <1>1, CameraAssumption DEF TakeCamera, Broken, Break, Well, luck, CameraInv, TypesFit
  <2>2. QED
    BY <1>1, <2>1, BreakStep DEF TakeCamera
<1>2. CASE /\ cam.on /\ cam.done # <<>> /\ cam' = Dqbuf(cam)
           /\ hand' = [hand EXCEPT !.cam = Head(cam.done)]
           /\ pc' = Route(Head(cam.done)) /\ Well
  <2> DEFINE h == Head(cam.done)
  <2> DEFINE t == All(Dqbuf(cam))
  <2>1. /\ program \in Loop /\ pc = "dqcam" /\ cam \in Queue /\ out \in Queue
        /\ UNCHANGED <<program, settings, crop, picture, held, gone, out, ai, worker, tries, wild,
                       failed, failures>>
    BY <1>2 DEF TakeCamera, setup, thread, Well, luck, CameraInv, TypesFit
  <2>2. /\ cam' \in Queue /\ cam'.on /\ h \in Buffers /\ t \in Seq(Buffers)
        /\ All(cam) = <<h>> \o t /\ All(cam)' = t /\ All(out)' = All(out)
    BY <1>2, <2>1, DqbufTakes
  <2>3. /\ hand' \in [cam : Buffers \cup {NoBuffer}, out : Buffers \cup {NoBuffer}]
        /\ hand'.cam = h /\ hand'.out = NoBuffer /\ hand.cam = NoBuffer /\ hand.cam # N
    BY <1>2, <2>1, <2>2, Counts DEF CameraInv, TypesFit, PassFits, InStep, Loop
  <2> HIDE DEF h, t
  <2>4. /\ program = "visionpxp" => pc' = "pxp_run"
        /\ program \in Both /\ h = N => pc' = "give"
        /\ program \in Both /\ h # N => pc' = "dqout"
    BY <1>2, <2>1 DEF Route, Extra, h, N, Loop, Both
  <2>5. Distinct(t) /\ ~Has(t, h) /\ \A b : Has(All(cam), b) <=> h = b \/ Has(t, b)
    <3>1. Distinct(All(cam))
      BY <1>2 DEF CameraInv, PassFits, OnePlace
    <3>2. QED
      BY <2>2, <3>1, DistinctCons, HasCons
  <2>6. program \in Both => Lock(<<h>> \o t, All(out))
    BY <1>2, <2>1, <2>2 DEF CameraInv, PassFits, InStep
  <2>7. program = "pxpv4l2" => h # N
    BY <1>2, <2>5 DEF CameraInv, PassFits, OnePlace
  <2>8. InStep'
    <3>1. CASE program \in Both /\ h = N
      <4>1. Lock(t, All(out))
        <5>1. Lock(<<N>> \o t, All(out)) /\ All(out) \in Seq(Buffers)
          BY <2>1, <2>6, <3>1, AllIsASequence
        <5>2. QED
          BY <2>2, <5>1, LockExtra, Counts
      <4>2. QED
        BY <2>1, <2>2, <2>3, <2>4, <3>1, <4>1 DEF InStep
    <3>2. CASE program \in Both /\ h # N
      BY <2>1, <2>2, <2>3, <2>4, <2>6, <3>2 DEF InStep
    <3>3. CASE program = "visionpxp"
      BY <2>1, <2>2, <2>3, <2>4, <3>3 DEF InStep, Both
    <3>4. QED
      BY <2>1, <3>1, <3>2, <3>3 DEF Loop, Both
  <2>9. OnePlace'
    <3>1. program = "pxpv4l2vision" => ExtraPlace'
      BY <1>2, <2>1, <2>2, <2>3, <2>5 DEF CameraInv, PassFits, OnePlace, ExtraPlace
    <3>2. program = "pxpv4l2" => ~Has(t, N)
      BY <1>2, <2>5 DEF CameraInv, PassFits, OnePlace
    <3>3. QED
      BY <2>1, <2>2, <2>3, <2>5, <3>1, <3>2 DEF OnePlace
  <2>10. FramesGoInStep'
    BY <2>3 DEF FramesGoInStep
  <2>11. pc' \in Passing /\ pc' \in StepsOf(program)
    BY <2>1, <2>4, <2>7 DEF Passing, StepsOf, Loop, Both
  <2>12. PassFits'
    BY <2>8, <2>9, <2>10 DEF PassFits
  <2>13. QED
    BY <1>2, <2>1, <2>2, <2>3, <2>11, <2>12, BufferStep DEF Passing
<1>3. QED
  BY <1>1, <1>2 DEF TakeCamera, Broken

(* The PxP gives the same buffer.                                          *)
LEMMA TakeOutStep ==
    ASSUME CameraInv, TakeOut
    PROVE  CameraInv'
<1>1. CASE Broken /\ UNCHANGED <<out, hand>>
  <2>1. failures' \in 0 .. MaxFailures /\ program \in Loop
    BY <1>1, CameraAssumption DEF TakeOut, Broken, CameraInv, TypesFit, Both, Loop
  <2>2. QED
    BY <1>1, <2>1, BreakStep DEF TakeOut, Broken
<1>2. CASE /\ out.done # <<>> /\ out' = Dqbuf(out)
           /\ hand' = [hand EXCEPT !.out = Head(out.done)]
           /\ pc' = "qcam" /\ Well
  <2> DEFINE g == Head(out.done)
  <2> DEFINE u == All(Dqbuf(out))
  <2>1. /\ program \in Both /\ program \in Loop /\ pc = "dqout" /\ cam \in Queue /\ out \in Queue
        /\ UNCHANGED <<program, settings, crop, picture, held, gone, cam, ai, worker, tries, wild,
                       failed, failures>>
    BY <1>2 DEF TakeOut, setup, thread, Well, luck, CameraInv, TypesFit, Both, Loop
  <2>2. /\ out' \in Queue /\ g \in Buffers /\ u \in Seq(Buffers)
        /\ All(out) = <<g>> \o u /\ All(out)' = u /\ All(cam)' = All(cam)
    BY <1>2, <2>1, DqbufTakes
  <2>3. /\ hand' \in [cam : Buffers \cup {NoBuffer}, out : Buffers \cup {NoBuffer}]
        /\ hand'.cam = hand.cam /\ hand'.out = g
    BY <1>2, <2>2 DEF CameraInv, TypesFit
  <2> HIDE DEF g, u
  <2>4. /\ hand.cam \in Buffers /\ hand.cam # N /\ cam.on
        /\ Lock(<<hand.cam>> \o All(cam), <<g>> \o u)
    BY <2>1, <2>2 DEF CameraInv, PassFits, InStep
  <2>5. g = hand.cam /\ Lock(All(cam), u)
    BY <2>1, <2>2, <2>4, LockGives, AllIsASequence
  <2>6. InStep'
    BY <1>2, <2>1, <2>2, <2>3, <2>4, <2>5 DEF InStep
  <2>7. OnePlace'
    BY <2>1, <2>2, <2>3 DEF CameraInv, PassFits, OnePlace, ExtraPlace
  <2>8. FramesGoInStep'
    BY <2>3, <2>5 DEF FramesGoInStep
  <2>9. pc' \in Passing /\ pc' \in StepsOf(program) /\ program # "visionpxp"
    BY <1>2, <2>1 DEF Passing, StepsOf, Both
  <2>10. PassFits'
    BY <2>6, <2>7, <2>8 DEF PassFits
  <2>11. QED
    BY <2>1, <2>2, <2>3, <2>9, <2>10, BufferStep DEF Passing
<1>3. QED
  BY <1>1, <1>2 DEF TakeOut

LEMMA ReturnCameraStep ==
    ASSUME CameraInv, ReturnCamera
    PROVE  CameraInv'
<1>1. CASE Broken /\ UNCHANGED <<cam, hand>>
  <2>1. failures' \in 0 .. MaxFailures /\ program \in Loop
    BY <1>1, CameraAssumption DEF ReturnCamera, Broken, CameraInv, TypesFit
  <2>2. QED
    BY <1>1, <2>1, BreakStep DEF ReturnCamera, Broken
<1>2. CASE /\ cam' = Qbuf(cam, hand.cam)
           /\ hand' = [hand EXCEPT !.cam = NoBuffer]
           /\ pc' = (IF program = "visionpxp" THEN "turn" ELSE "qout")
           /\ Well
  <2> DEFINE b == hand.cam
  <2>1. /\ program \in Loop /\ pc = "qcam" /\ cam \in Queue /\ out \in Queue /\ b \in Buffers /\ cam.on
        /\ UNCHANGED <<program, settings, crop, picture, held, gone, out, ai, worker, tries, wild,
                       failed, failures>>
    BY <1>2 DEF ReturnCamera, setup, thread, Well, luck, CameraInv, TypesFit, PassFits, InStep
  <2>2. /\ cam' \in Queue /\ cam'.on /\ All(cam)' = Append(All(cam), b)
        /\ All(cam) \in Seq(Buffers) /\ All(out) \in Seq(Buffers) /\ All(out)' = All(out)
    BY <1>2, <2>1, QbufAppends, AllIsASequence
  <2>3. /\ hand' \in [cam : Buffers \cup {NoBuffer}, out : Buffers \cup {NoBuffer}]
        /\ hand'.cam = NoBuffer /\ hand'.out = hand.out /\ NoBuffer # N
        /\ program = "visionpxp" => hand'.out = NoBuffer
    BY <1>2, Counts DEF CameraInv, TypesFit, WorkerFits
  <2>4. program \in Both => b # N /\ hand.out = b /\ Lock(All(cam), All(out))
    BY <2>1 DEF CameraInv, PassFits, InStep
  <2>5. Distinct(All(cam)) /\ ~Has(All(cam), b)
    BY <2>1 DEF CameraInv, PassFits, OnePlace
  <2>6. /\ Distinct(All(cam)')
        /\ \A x : Has(All(cam)', x) <=> Has(All(cam), x) \/ b = x
    BY <2>1, <2>2, <2>5, DistinctAppend, HasAppend
  <2>7. ~Has(All(cam), NoBuffer)
    BY <2>2, Counts DEF Has
  <2>8. InStep'
    <3>1. CASE program \in Both
      <4>1. Lock(All(cam)', Append(All(out)', b))
        BY <2>1, <2>2, <2>4, <3>1, LockAppend
      <4>2. QED
        BY <1>2, <2>1, <2>2, <2>3, <2>4, <3>1, <4>1 DEF InStep, Both
    <3>2. CASE program = "visionpxp"
      BY <1>2, <2>1, <2>3, <3>2 DEF InStep, Both
    <3>3. QED
      BY <2>1, <3>1, <3>2 DEF Loop, Both
  <2>9. OnePlace'
    <3>1. program = "pxpv4l2vision" => ExtraPlace'
      BY <2>1, <2>3, <2>4, <2>6 DEF CameraInv, PassFits, OnePlace, ExtraPlace, Both
    <3>2. ~Has(All(cam)', NoBuffer)
      BY <2>1, <2>6, <2>7, Counts
    <3>3. program = "pxpv4l2" => ~Has(All(cam)', N)
      BY <2>1, <2>4, <2>6 DEF CameraInv, PassFits, OnePlace, Both
    <3>4. QED
      BY <2>1, <2>3, <2>6, <3>1, <3>2, <3>3 DEF OnePlace
  <2>10. FramesGoInStep'
    BY <2>3 DEF FramesGoInStep
  <2>11. pc' \in Passing /\ pc' \in StepsOf(program)
    BY <1>2, <2>1 DEF Passing, StepsOf, Loop
  <2>12. PassFits'
    BY <2>8, <2>9, <2>10 DEF PassFits
  <2>13. QED
    BY <2>1, <2>2, <2>3, <2>11, <2>12, BufferStep DEF Passing
<1>3. QED
  BY <1>1, <1>2 DEF ReturnCamera

LEMMA ReturnOutStep ==
    ASSUME CameraInv, ReturnOut
    PROVE  CameraInv'
<1>1. CASE Broken /\ UNCHANGED <<out, hand>>
  <2>1. failures' \in 0 .. MaxFailures /\ program \in Loop
    BY <1>1, CameraAssumption DEF ReturnOut, Broken, CameraInv, TypesFit, Both, Loop
  <2>2. QED
    BY <1>1, <2>1, BreakStep DEF ReturnOut, Broken
<1>2. CASE /\ out' = Qbuf(out, hand.out)
           /\ hand' = [hand EXCEPT !.out = NoBuffer]
           /\ pc' = "turn" /\ Well
  <2>1. /\ program \in Both /\ program \in Loop /\ pc = "qout" /\ cam \in Queue /\ out \in Queue
        /\ hand.out \in Buffers /\ hand.cam = NoBuffer /\ cam.on
        /\ UNCHANGED <<program, settings, crop, picture, held, gone, cam, ai, worker, tries, wild,
                       failed, failures>>
    BY <1>2 DEF ReturnOut, setup, thread, Well, luck, CameraInv, TypesFit, PassFits, InStep, Both, Loop
  <2>2. out' \in Queue /\ All(out)' = Append(All(out), hand.out) /\ All(cam)' = All(cam)
    BY <1>2, <2>1, QbufAppends
  <2>3. /\ hand' \in [cam : Buffers \cup {NoBuffer}, out : Buffers \cup {NoBuffer}]
        /\ hand' = [cam |-> NoBuffer, out |-> NoBuffer] /\ hand'.cam = hand.cam
    BY <1>2, <2>1 DEF CameraInv, TypesFit
  <2>4. Lock(All(cam)', All(out)')
    BY <2>1, <2>2 DEF CameraInv, PassFits, InStep
  <2>5. InStep'
    BY <1>2, <2>1, <2>3, <2>4 DEF InStep
  <2>6. OnePlace'
    BY <2>1, <2>2, <2>3 DEF CameraInv, PassFits, OnePlace, ExtraPlace
  <2>7. FramesGoInStep'
    BY <2>3 DEF FramesGoInStep
  <2>8. pc' \in Passing /\ pc' \in StepsOf(program) /\ program # "visionpxp"
    BY <1>2, <2>1 DEF Passing, StepsOf, Both
  <2>9. PassFits'
    BY <2>5, <2>6, <2>7 DEF PassFits
  <2>10. QED
    BY <2>1, <2>2, <2>3, <2>8, <2>9, BufferStep DEF Passing
<1>3. QED
  BY <1>1, <1>2 DEF ReturnOut

-----------------------------------------------------------------------------
(* After the loop.                                                         *)

(* A step that stops the camera or leaves it alone, and gives back nothing *)
(* the camera needs.                                                       *)
LEMMA ClosingStep ==
    ASSUME CameraInv, program \in Both,
           UNCHANGED <<program, settings, crop, picture, gone, hand, ai, worker, tries, wild>>,
           pc \in Closing, pc' \in Closing \cup {"exit"}, pc' \in StepsOf(program) \cup Over,
           out' \in Queue, cam' = cam \/ cam' = Stopped,
           held' \subseteq held, held \cap (Channel \cup {"interpreter", "tensors"}) \subseteq held',
           cam'.on => "maps" \in held' /\ All(out)' = All(out),
           pc' \in {"pxp_stop", "pxp_cleanup", "device_pxp_deinit"} => ~cam'.on,
           failures' \in 0 .. MaxFailures, failed \subseteq failed',
           "requeue" \in failed' <=> "requeue" \in failed
    PROVE  CameraInv'
<1>1. /\ cam' \in Queue /\ (cam'.on => cam' = cam /\ cam.on)
      /\ pc \notin Early \cup Over /\ pc \notin Passing
      /\ pc' \notin Early /\ pc' \notin Passing /\ pc' # "wild"
  <2>1. Stopped \in Queue /\ ~Stopped.on
    BY DEF Stopped, Queue
  <2>2. QED
    BY <2>1 DEF CameraInv, TypesFit, Early, Opening, Filling, Over, Closing, Passing
<1>2. TypesFit'
  BY <1>1 DEF CameraInv, TypesFit
<1>3. StillBefore'
  BY <1>1, BeforeIsOver
<1>4. WorkerFits'
  <2>1. pc' \notin {"pxp_init", "signal", "device_pxp_init", "model_init", "label_init", "create"}
    BY <1>1 DEF Early, Opening
  <2>2. QED
    BY <1>1, <2>1, WorkerKeeps DEF CameraInv
<1>5. PassFits'
  <2>1. CASE ~cam'.on
    BY <1>1, <2>1, PassStops DEF CameraInv
  <2>2. CASE cam'.on
    BY <1>1, <2>2, PassKeeps DEF CameraInv
  <2>3. QED
    BY <2>1, <2>2
<1>6. HeldFits'
  <2>1. Handled' => Handled
    BY Grows
  <2>2. ProgramHolds => ProgramHolds'
    BY <1>1 DEF ProgramHolds, Both, Early, Opening, Filling, Over, Channel
  <2>3. QED
    BY <1>1, <2>1, <2>2 DEF CameraInv, HeldFits, Both, Early, Opening, Filling
<1>7. SettingsFit'
  BY <1>1, SettingsKeep DEF CameraInv, setup, Early, Opening
<1>8. QED
  BY <1>2, <1>3, <1>4, <1>5, <1>6, <1>7 DEF CameraInv

LEMMA MapsAreHeld == CameraInv /\ program \in Both /\ cam.on => "maps" \in held
  BY DEF CameraInv, HeldFits

LEMMA CloseStrayStep ==
    ASSUME CameraInv, CloseStray
    PROVE  CameraInv'
<1>1. PICK fd \in SUBSET {"cam", "vfd"} :
         held' = held \ fd /\ cam' = IF "cam" \in fd THEN Stopped ELSE cam
  BY DEF CloseStray
<1>2. /\ program \in Both /\ pc = "close" /\ pc' \in {"camera_stop", "exit"}
      /\ UNCHANGED <<program, settings, crop, picture, gone, out, hand, ai, worker, tries, wild,
                     failed, failures>>
  BY MainSteps, VisionSteps DEF CloseStray, Proceed, Exits, setup, thread, luck, Both
<1>3. pc' \in StepsOf(program) \cup Over
  BY <1>2 DEF StepsOf, Closing, Over, Both
<1>4. cam'.on => "maps" \in held'
  BY <1>1, <1>2, MapsAreHeld DEF Stopped
<1>5. out' \in Queue /\ failures' \in 0 .. MaxFailures
  BY <1>2 DEF CameraInv, TypesFit
<1>6. QED
  BY <1>1, <1>2, <1>3, <1>4, <1>5, ClosingStep DEF Closing, Channel

LEMMA CameraStopStep ==
    ASSUME CameraInv, NEW p \in Both, camera_stop(p) \/ camera_cleanup(p)
    PROVE  CameraInv'
<1>1. /\ program = p /\ program' = p
      /\ \/ pc = "camera_stop" /\ pc' = "camera_cleanup" /\ held' = held
         \/ pc = "camera_stop" /\ pc' = "exit" /\ held' = held
         \/ pc = "camera_cleanup" /\ pc' = "pxp_stop" /\ held' = held \ {"cam", "bufs"} /\ cam' = Stopped
      /\ cam' = cam \/ cam' = Stopped
      /\ failures' \in 0 .. MaxFailures /\ failed \subseteq failed'
      /\ ("requeue" \in failed' <=> "requeue" \in failed)
      /\ UNCHANGED <<settings, crop, picture, gone, out, hand, ai, worker, tries, wild>>
  BY MainSteps, VisionSteps, CameraAssumption
     DEF camera_stop, camera_cleanup, At, Both, Proceed, Exits, Fails, Well, luck, StreamOff,
         CameraInv, TypesFit, setup, thread
<1>2. pc' \in StepsOf(program) \cup Over
  BY <1>1 DEF StepsOf, Closing, Over, Both
<1>3. cam'.on => "maps" \in held'
  BY <1>1, MapsAreHeld DEF Stopped
<1>4. out' \in Queue /\ (pc' = "pxp_stop" => ~cam'.on)
  BY <1>1 DEF CameraInv, TypesFit, Stopped
<1>5. QED
  BY <1>1, <1>2, <1>3, <1>4, ClosingStep DEF Closing, Channel

LEMMA PxpStopStep ==
    ASSUME CameraInv, NEW p \in Both, pxp_stop(p) \/ pxp_cleanup(p)
    PROVE  CameraInv'
<1>1. /\ program = p /\ program' = p
      /\ \/ pc = "pxp_stop" /\ pc' = "pxp_cleanup" /\ held' = held \ {"maps"} /\ out' = Stopped
         \/ pc = "pxp_stop" /\ pc' = "exit" /\ held' = held /\ out' = out
         \/ /\ pc = "pxp_cleanup" /\ pc' = After("pxp_cleanup")
            /\ held' = held \ {"vfd", "pxp", "buffers"} /\ out' = out
      /\ failures' \in 0 .. MaxFailures /\ failed \subseteq failed'
      /\ ("requeue" \in failed' <=> "requeue" \in failed)
      /\ UNCHANGED <<settings, crop, picture, gone, cam, hand, ai, worker, tries, wild>>
  BY MainSteps, VisionSteps, CameraAssumption
     DEF pxp_stop, pxp_cleanup, At, Both, Proceed, Exits, Fails, Well, luck, StreamOff,
         CameraInv, TypesFit, setup, thread, queues
<1>2. pc' \in {"exit", "pxp_cleanup", "device_pxp_deinit"} /\ pc' \in StepsOf(program) \cup Over
  BY <1>1, MainSteps, VisionSteps DEF StepsOf, Closing, Over, Both
<1>3. ~cam.on
  BY <1>1 DEF CameraInv, HeldFits
<1>4. out' \in Queue
  <2>1. Stopped \in Queue
    BY DEF Stopped, Queue
  <2>2. QED
    BY <1>1, <2>1 DEF CameraInv, TypesFit
<1>5. QED
  BY <1>1, <1>2, <1>3, <1>4, ClosingStep DEF Closing, Channel

(* The channel goes back, all of it.                                       *)
LEMMA GivesChannel ==
    ASSUME GiveChannel, held \cap gone = {}, gone \subseteq Channel
    PROVE  /\ held' = held \ Channel /\ gone' \subseteq Channel /\ held' \cap gone' = {}
  BY DEF GiveChannel, pxp_uninit, pxp_release_channel, pxp_put_mem, Channel

LEMMA DeinitStep ==
    ASSUME CameraInv, device_pxp_deinit \/ pxp_deinit
    PROVE  CameraInv'
<1>1. /\ program' = program
      /\ \/ program = "pxpv4l2vision" /\ pc = "device_pxp_deinit"
         \/ program = "visionpxp" /\ pc = "pxp_deinit"
      /\ \/ "conf" \in gone /\ pc' = "wild" /\ wild' # {} /\ UNCHANGED <<held, gone>>
         \/ GiveChannel /\ pc' = "exit" /\ wild' = wild
      /\ UNCHANGED <<settings, crop, picture, cam, out, hand, ai, worker, tries, failed, failures>>
  BY VisionSteps, PxpSteps
     DEF device_pxp_deinit, pxp_deinit, Deinit, At, Proceed, GoesWild, Tame, setup, queues, thread, luck
<1>2. TypesFit'
  BY <1>1 DEF CameraInv, TypesFit, Over
<1>3. StillBefore'
  BY <1>1, BeforeIsOver DEF Early, Opening, Filling
<1>4. WorkerFits'
  BY <1>1, WorkerKeeps DEF CameraInv
<1>5. PassFits'
  BY <1>1, PassKeeps DEF CameraInv, Passing
<1>6. HeldFits'
  <2>1. gone' \subseteq Channel /\ held' \cap gone' = {} /\ held' \subseteq held
        /\ (pc' = "exit" => held' = held \ Channel)
    BY <1>1, GivesChannel DEF CameraInv, HeldFits
  <2>2. Handled => ProgramHolds /\ gone = {} /\ wild = {}
    BY <1>1 DEF CameraInv, HeldFits, ProgramHolds
  <2>3. Handled' => Handled
    BY <1>1 DEF Handled
  <2>4. Handled' => pc' = "exit" /\ wild' = {}
    BY <1>1, <2>2, <2>3
  <2>5. pc' = "exit" => ProgramHolds'
    BY <1>1 DEF ProgramHolds
  <2>6. "maps" \in held => "maps" \in held'
    BY <1>1, <2>1 DEF Channel
  <2>7. "bufs" \in held => "bufs" \in held'
    BY <1>1, <2>1 DEF Channel
  <2>8. QED
    BY <1>1, <2>1, <2>4, <2>5, <2>6, <2>7 DEF CameraInv, HeldFits, Both, Filling
<1>7. SettingsFit'
  BY <1>1, SettingsKeep DEF CameraInv, setup
<1>8. QED
  BY <1>2, <1>3, <1>4, <1>5, <1>6, <1>7 DEF CameraInv

-----------------------------------------------------------------------------
(* The worker and who tells it.                                            *)

(* The main thread gives it the extra buffer.                              *)
LEMMA GiveStep ==
    ASSUME CameraInv, Give
    PROVE  CameraInv'
<1>1. /\ program = "pxpv4l2vision" /\ pc = "give" /\ pc' = "turn" /\ ai' = [ai EXCEPT !.has_task = TRUE]
      /\ worker' = IF worker = "wait" THEN "lock" ELSE worker
      /\ hand' = [hand EXCEPT !.cam = NoBuffer]
      /\ UNCHANGED <<program, settings, crop, picture, held, gone, cam, out, tries, wild, failed,
                     failures>>
  BY DEF Give, At, Woken, setup, luck
<1>2. cam.on /\ hand.cam = N /\ hand.out = NoBuffer /\ ExtraPlace /\ NoBuffer # N
  BY <1>1, Counts DEF CameraInv, PassFits, InStep, OnePlace
<1>3. hand' = [cam |-> NoBuffer, out |-> NoBuffer] /\ ai'.has_task = TRUE
  BY <1>1, <1>2 DEF CameraInv, TypesFit
<1>4. (worker' \in Busy <=> worker \in Busy) /\ (worker' = "none" <=> worker = "none")
  BY <1>1 DEF Busy
<1>5. TypesFit'
  BY <1>1, <1>3 DEF CameraInv, TypesFit, StepsOf, Passing
<1>6. StillBefore'
  BY <1>1, BeforeIsOver DEF Early, Opening, Filling
<1>7. WorkerFits'
  BY <1>1, <1>4 DEF CameraInv, WorkerFits
<1>8. InStep'
  BY <1>1, <1>2, <1>3 DEF CameraInv, PassFits, InStep, Both
<1>9. OnePlace'
  <2>1. ~Has(All(cam), NoBuffer)
    BY Counts, AllIsASequence DEF Has, CameraInv, TypesFit
  <2>2. ~Has(All(cam), N)
    BY <1>2 DEF CameraInv, PassFits, OnePlace
  <2>3. ExtraPlace'
    BY <1>1, <1>2, <1>3, <1>4, <2>2 DEF ExtraPlace
  <2>4. QED
    BY <1>1, <1>3, <2>1, <2>3 DEF CameraInv, PassFits, OnePlace
<1>10. FramesGoInStep'
  BY <1>3 DEF FramesGoInStep
<1>11. HeldFits'
  BY <1>1, HeldKeeps DEF CameraInv, Early, Opening, Filling, Over
<1>12. SettingsFit'
  BY <1>1, SettingsKeep DEF CameraInv, setup
<1>13. QED
  BY <1>5, <1>6, <1>7, <1>8, <1>9, <1>10, <1>11, <1>12 DEF CameraInv, PassFits

LEMMA TellStep ==
    ASSUME CameraInv, TellWorker \/ Join
    PROVE  CameraInv'
<1>1. /\ program = "pxpv4l2vision"
      /\ \/ pc = "quit" /\ pc' = "join"
         \/ pc = "join" /\ pc' = "close"
      /\ ai' \in [has_task : {ai.has_task}, quit : BOOLEAN]
      /\ worker' = worker \/ (worker = "wait" /\ worker' = "lock")
      /\ UNCHANGED <<program, settings, crop, picture, held, gone, cam, out, hand, tries, wild, failed,
                     failures>>
  <2>1. CASE TellWorker
    <3>1. ai' = [ai EXCEPT !.quit = TRUE] /\ ai \in [has_task : BOOLEAN, quit : BOOLEAN]
      BY <2>1 DEF TellWorker, CameraInv, TypesFit
    <3>2. ai' \in [has_task : {ai.has_task}, quit : BOOLEAN]
      BY <3>1
    <3>3. QED
      BY <2>1, <3>2, VisionSteps DEF TellWorker, At, Woken, Proceed, setup, luck, queues
  <2>2. CASE Join
    <3>1. ai \in [has_task : {ai.has_task}, quit : BOOLEAN]
      BY DEF CameraInv, TypesFit
    <3>2. QED
      BY <2>2, <3>1, VisionSteps DEF Join, At, Proceed, setup, luck, queues, thread
  <2>3. QED
    BY <2>1, <2>2
<1>2. (worker' \in Busy <=> worker \in Busy) /\ (worker' = "none" <=> worker = "none")
  BY <1>1 DEF Busy
<1>3. ai'.has_task = ai.has_task /\ ai' \in [has_task : BOOLEAN, quit : BOOLEAN]
  BY <1>1 DEF CameraInv, TypesFit
<1>4. TypesFit'
  BY <1>1, <1>3 DEF CameraInv, TypesFit, StepsOf, Closing
<1>5. StillBefore'
  BY <1>1, BeforeIsOver DEF Early, Opening, Filling
<1>6. WorkerFits'
  BY <1>1, <1>2, <1>3 DEF CameraInv, WorkerFits
<1>7. PassFits'
  BY <1>1, <1>2, <1>3, PassKeeps DEF CameraInv, Passing
<1>8. HeldFits'
  BY <1>1, HeldKeeps DEF CameraInv, Early, Opening, Filling, Over
<1>9. SettingsFit'
  BY <1>1, SettingsKeep DEF CameraInv, setup
<1>10. QED
  BY <1>4, <1>5, <1>6, <1>7, <1>8, <1>9 DEF CameraInv

(* The worker looks and, if there is a task, has it.                       *)
LEMMA LookStep ==
    ASSUME CameraInv, Look \/ Spurious
    PROVE  CameraInv'
<1>1. /\ program = "pxpv4l2vision" /\ worker \in {"lock", "wait"} /\ pc \notin Over
      /\ UNCHANGED <<program, pc, settings, crop, picture, held, gone, cam, out, hand, tries, wild,
                     failed, failures>>
      /\ \/ ~ai.has_task /\ ~ai'.has_task /\ worker' \in {"lock", "wait", "gone"}
         \/ ai.has_task /\ ai'.has_task /\ worker' \in {"lock", "gone"}
         \/ ai.has_task /\ ~ai'.has_task /\ worker' = "run"
      /\ ai' \in [has_task : BOOLEAN, quit : BOOLEAN]
  <2>1. program = "pxpv4l2vision"
    BY DEF Look, Spurious, CameraInv, WorkerFits
  <2>2. CASE Look
    <3>1. ai' = [ai EXCEPT !.has_task = @ /\ ai.quit] /\ ai \in [has_task : BOOLEAN, quit : BOOLEAN]
      BY <2>2 DEF Look, CameraInv, TypesFit
    <3>2. ai' \in [has_task : BOOLEAN, quit : BOOLEAN] /\ ai'.has_task = (ai.has_task /\ ai.quit)
      BY <3>1
    <3>3. QED
      BY <2>1, <2>2, <3>2 DEF Look, Running, Over, setup, queues, luck
  <2>3. CASE Spurious
    BY <2>1, <2>3 DEF Spurious, Running, Over, setup, queues, luck, CameraInv, TypesFit
  <2>4. QED
    BY <2>2, <2>3
<1>2. TypesFit'
  BY <1>1 DEF CameraInv, TypesFit
<1>3. StillBefore'
  BY <1>1 DEF CameraInv, StillBefore, Busy
<1>4. WorkerFits'
  BY <1>1 DEF CameraInv, WorkerFits
<1>5. PassFits'
  <2>1. OnePlace'
    BY <1>1 DEF CameraInv, PassFits, OnePlace, ExtraPlace, Busy
  <2>2. InStep' /\ FramesGoInStep'
    BY <1>1 DEF CameraInv, PassFits, InStep, FramesGoInStep
  <2>3. QED
    BY <2>1, <2>2 DEF PassFits
<1>6. HeldFits'
  BY <1>1, HeldStays DEF CameraInv
<1>7. SettingsFit'
  BY <1>1, SettingsKeep DEF CameraInv, setup
<1>8. QED
  BY <1>2, <1>3, <1>4, <1>5, <1>6, <1>7 DEF CameraInv

(* The worker converts and infers, with what it needs for it.              *)
LEMMA WorkStep ==
    ASSUME CameraInv, device_pxp_run \/ infer_run
    PROVE  CameraInv'
<1>1. /\ program = "pxpv4l2vision" /\ pc \notin Over \cup Early /\ worker \in {"run", "infer"}
      /\ UNCHANGED <<program, settings, crop, picture, cam, out, hand, ai>>
  BY DEF device_pxp_run, infer_run, Running, Over, setup, queues, CameraInv, WorkerFits, StillBefore, Busy
<1>2. Handled => Channel \subseteq held /\ {"interpreter", "tensors"} \subseteq held /\ wild = {}
  BY <1>1 DEF CameraInv, HeldFits, ProgramHolds, Early, Opening, Over
<1>3. CASE \E what \in {"run", "infer"} : GoesWild(what) /\ UNCHANGED <<worker, held, gone, tries, luck>>
  <2>1. pc' = "wild" /\ UNCHANGED <<worker, held, gone, tries, failed, failures>>
    BY <1>3 DEF GoesWild, luck
  <2>2. ~Handled
    <3>1. "conf" \notin held \/ ~({"tensors", "mem_o"} \subseteq held)
      BY <1>1, <2>1 DEF device_pxp_run, infer_run, pxp_wait_for_completion, Running, Over, Early
    <3>2. QED
      BY <3>1, <1>2 DEF Channel
  <2>3. TypesFit'
    BY <1>1, <2>1 DEF CameraInv, TypesFit, Over
  <2>4. StillBefore'
    BY <2>1, BeforeIsOver DEF Early, Opening, Filling
  <2>5. WorkerFits'
    BY <1>1, <2>1, WorkerKeeps DEF CameraInv
  <2>6. PassFits'
    BY <1>1, <2>1, PassKeeps DEF CameraInv, Passing
  <2>7. HeldFits'
    BY <1>1, <2>1, <2>2 DEF CameraInv, HeldFits, Handled, Filling
  <2>8. SettingsFit'
    BY <1>1, <2>1, SettingsKeep DEF CameraInv, setup
  <2>9. QED
    BY <2>3, <2>4, <2>5, <2>6, <2>7, <2>8 DEF CameraInv
<1>4. CASE /\ UNCHANGED <<pc, wild>> /\ worker' \in Busy /\ tries' \in 0 .. 2
           /\ \/ UNCHANGED <<held, gone, failed, failures>>
              \/ GiveChannel /\ Fails("device_pxp_run")
  <2>1. /\ failures' \in 0 .. MaxFailures /\ failed \subseteq failed'
        /\ ("requeue" \in failed' <=> "requeue" \in failed)
    BY <1>4, CameraAssumption DEF Fails, CameraInv, TypesFit
  <2>2. TypesFit'
    BY <1>1, <1>4, <2>1 DEF CameraInv, TypesFit, Busy
  <2>3. StillBefore'
    BY <1>1, <1>4, BeforeIsOver
  <2>4. WorkerFits'
    BY <1>1, <1>4 DEF CameraInv, WorkerFits
  <2>5. PassFits'
    BY <1>1, <1>4, <2>1, PassKeeps DEF CameraInv, Busy
  <2>6. HeldFits'
    <3>1. CASE UNCHANGED <<held, gone, failed, failures>>
      BY <1>1, <1>4, <2>1, <3>1, HeldStays DEF CameraInv
    <3>2. CASE GiveChannel /\ Fails("device_pxp_run")
      <4>1. ~Handled'
        BY <3>2 DEF Fails, Handled, Unhandled
      <4>2. /\ gone' \subseteq Channel /\ held' \cap gone' = {}
            /\ ("maps" \in held => "maps" \in held')
        BY <3>2, GivesChannel DEF CameraInv, HeldFits, Channel
      <4>3. QED
        BY <1>1, <1>4, <4>1, <4>2 DEF CameraInv, HeldFits
    <3>3. QED
      BY <1>4, <3>1, <3>2
  <2>7. SettingsFit'
    BY <1>1, <1>4, SettingsKeep DEF CameraInv, setup
  <2>8. QED
    BY <2>2, <2>3, <2>4, <2>5, <2>6, <2>7 DEF CameraInv
<1>5. tries \in 0 .. 2
  BY DEF CameraInv, TypesFit
<1>6. CASE device_pxp_run
  <2>1. CASE "conf" \notin held
    BY <1>3, <1>6, <2>1 DEF device_pxp_run
  <2>2. CASE "conf" \in held
    <3>1. /\ UNCHANGED <<pc, wild>>
          /\ pxp_wait_for_completion(3,
                  worker' = "infer" /\ UNCHANGED <<held, gone, luck>>,
                  worker' = "infer" /\ GiveChannel /\ Fails("device_pxp_run"))
      BY <1>6, <2>2 DEF device_pxp_run
    <3>2. worker = "run"
      BY <1>6 DEF device_pxp_run
    <3>3. tries' \in 0 .. 2 /\ worker' \in Busy
      BY <1>5, <3>1, <3>2 DEF pxp_wait_for_completion, Busy
    <3>4. \/ UNCHANGED <<held, gone, failed, failures>>
          \/ GiveChannel /\ Fails("device_pxp_run")
      BY <3>1 DEF pxp_wait_for_completion, luck
    <3>5. QED
      BY <1>4, <3>1, <3>3, <3>4
  <2>3. QED
    BY <2>1, <2>2
<1>7. CASE infer_run
  <2>1. CASE "interpreter" \in held /\ ~({"tensors", "mem_o"} \subseteq held)
    BY <1>3, <1>7, <2>1 DEF infer_run, luck
  <2>2. CASE ~("interpreter" \in held /\ ~({"tensors", "mem_o"} \subseteq held))
    BY <1>4, <1>5, <1>7, <2>2 DEF infer_run, luck, Busy
  <2>3. QED
    BY <2>1, <2>2
<1>8. QED
  BY <1>6, <1>7

(* The extra buffer goes behind all others, or is lost.                    *)
LEMMA RequeueStep ==
    ASSUME CameraInv, Requeue
    PROVE  CameraInv'
<1>1. /\ program = "pxpv4l2vision" /\ pc \notin Over \cup Early /\ worker = "queue"
      /\ UNCHANGED <<program, pc, settings, crop, picture, held, gone, out, hand, ai, tries, wild>>
      /\ \/ cam' = Qbuf(cam, N) /\ worker' = "lock" /\ UNCHANGED <<failed, failures>>
         \/ /\ cam' = cam /\ worker' = "gone" /\ failures < MaxFailures
            /\ failures' = failures + 1 /\ failed' = failed \cup {"requeue"}
  BY DEF Requeue, Running, Over, setup, luck, Well, Fails, CameraInv, WorkerFits, StillBefore, Busy, N
<1>2. cam \in Queue /\ N \in Buffers /\ failures \in 0 .. MaxFailures
  BY Counts DEF CameraInv, TypesFit
<1>3. /\ cam' \in Queue /\ cam'.on = cam.on /\ failures' \in 0 .. MaxFailures /\ failed \subseteq failed'
      /\ All(cam) \in Seq(Buffers) /\ All(out) \in Seq(Buffers) /\ All(out)' = All(out)
  <2>1. out \in Queue
    BY DEF CameraInv, TypesFit
  <2>2. All(cam) \in Seq(Buffers) /\ All(out) \in Seq(Buffers)
    BY <1>2, <2>1, AllIsASequence
  <2>3. cam' \in Queue /\ cam'.on = cam.on
    BY <1>1, <1>2, QbufAppends
  <2>4. failures' \in 0 .. MaxFailures /\ failed \subseteq failed'
    BY <1>1, <1>2, CameraAssumption
  <2>5. All(out)' = All(out)
    BY <1>1
  <2>6. QED
    BY <2>2, <2>3, <2>4, <2>5
<1>4. TypesFit'
  BY <1>1, <1>3 DEF CameraInv, TypesFit
<1>5. StillBefore'
  BY <1>1, BeforeIsOver
<1>6. WorkerFits'
  BY <1>1, <1>3 DEF CameraInv, WorkerFits, Early, Opening
<1>7. PassFits'
  <2>0. FramesGoInStep'
    BY <1>1 DEF CameraInv, PassFits, FramesGoInStep
  <2>1. CASE ~cam.on
    BY <1>1, <1>3, <2>1, <2>0 DEF CameraInv, PassFits, InStep, OnePlace
  <2>2. CASE cam.on
    <3>1. /\ ~Has(All(cam), N) /\ hand.cam # N /\ ~ai.has_task /\ "requeue" \notin failed
          /\ Distinct(All(cam)) /\ ~Has(All(cam), hand.cam)
      BY <1>1, <2>2 DEF CameraInv, PassFits, OnePlace, ExtraPlace, Busy
    <3>2. CASE cam' = cam /\ worker' = "gone" /\ failed' = failed \cup {"requeue"}
      <4>1. OnePlace'
        BY <1>1, <2>2, <3>1, <3>2 DEF OnePlace, ExtraPlace, Busy
      <4>2. InStep'
        BY <1>1, <1>3, <3>2 DEF CameraInv, PassFits, InStep
      <4>3. QED
        BY <2>0, <4>1, <4>2 DEF PassFits
    <3>3. CASE cam' = Qbuf(cam, N) /\ worker' = "lock" /\ UNCHANGED <<failed, failures>>
      <4>1. All(cam)' = Append(All(cam), N)
        BY <1>2, <3>3, QbufAppends
      <4>2. Distinct(All(cam)') /\ \A x : Has(All(cam)', x) <=> Has(All(cam), x) \/ N = x
        BY <1>2, <1>3, <3>1, <4>1, DistinctAppend, HasAppend
      <4>3. OnePlace'
        BY <1>1, <1>3, <3>1, <3>3, <4>2 DEF OnePlace, ExtraPlace, Busy
      <4>4. Lock(All(cam), All(out)) => Lock(All(cam)', All(out)')
        BY <1>2, <1>3, <3>1, <4>1, LockRequeue
      <4>5. pc = "dqout" => Lock(<<hand.cam>> \o All(cam)', All(out)')
        <5> SUFFICES ASSUME pc = "dqout" PROVE Lock(<<hand.cam>> \o All(cam)', All(out)')
          OBVIOUS
        <5> DEFINE c == <<hand.cam>> \o All(cam)
        <5>1. hand.cam \in Buffers /\ hand.cam # N /\ Lock(c, All(out))
          BY DEF CameraInv, PassFits, InStep
        <5>2. c \in Seq(Buffers) /\ ~Has(c, N)
          <6>1. c \in Seq(Buffers)
            BY <1>3, <5>1, ConsAt
          <6>2. \A h \in Buffers, t \in Seq(Buffers) : Has(<<h>> \o t, N) <=> h = N \/ Has(t, N)
            BY HasCons
          <6>3. QED
            BY <1>3, <3>1, <5>1, <6>1, <6>2
        <5>3. <<hand.cam>> \o Append(All(cam), N) = Append(c, N)
          <6>1. <<hand.cam>> \in Seq(Buffers) /\ <<N>> \in Seq(Buffers)
            BY <1>2, <5>1
          <6>2. Append(All(cam), N) = All(cam) \o <<N>> /\ Append(c, N) = c \o <<N>>
            BY <1>2, <1>3, <5>2, AppendIsConcat
          <6>3. QED
            BY <1>3, <6>1, <6>2, Regroup
        <5> HIDE DEF c
        <5>4. QED
          BY <1>2, <1>3, <4>1, <5>1, <5>2, <5>3, LockRequeue
      <4>6. pc = "qout" => Lock(All(cam)', Append(All(out)', hand.out))
        <5> SUFFICES ASSUME pc = "qout" PROVE Lock(All(cam)', Append(All(out)', hand.out))
          OBVIOUS
        <5>1. hand.out \in Buffers /\ Lock(All(cam), Append(All(out), hand.out))
          BY DEF CameraInv, PassFits, InStep
        <5>2. Append(All(out), hand.out) \in Seq(Buffers)
          BY <1>3, <5>1
        <5>3. QED
          BY <1>2, <1>3, <3>1, <4>1, <5>1, <5>2, LockRequeue
      <4>7. InStep'
        BY <1>1, <1>3, <4>4, <4>5, <4>6 DEF CameraInv, PassFits, InStep
      <4>8. QED
        BY <2>0, <4>3, <4>7 DEF PassFits
    <3>4. QED
      BY <1>1, <3>2, <3>3
  <2>3. QED
    BY <2>1, <2>2
<1>8. HeldFits'
  BY <1>1, <1>3, HeldStays DEF CameraInv, Early
<1>9. SettingsFit'
  BY <1>1, SettingsKeep DEF CameraInv, setup
<1>10. QED
  BY <1>4, <1>5, <1>6, <1>7, <1>8, <1>9 DEF CameraInv

-----------------------------------------------------------------------------
(* The drivers and the signal.                                             *)
LEMMA FillStep ==
    ASSUME CameraInv, Fill
    PROVE  CameraInv'
<1>1. /\ pc \notin Over /\ cam.on /\ cam.queue # <<>> /\ cam \in Queue
      /\ UNCHANGED <<program, settings, crop, picture, held, gone, out, hand, ai, worker, tries, failed,
                     failures>>
      /\ \/ cam' = Filled(cam) /\ UNCHANGED <<pc, wild>>
         \/ cam' = cam /\ pc' = "wild" /\ MemoryOf(Head(cam.queue)) \notin held
  BY DEF Fill, Running, Over, setup, thread, luck, Tame, GoesWild, CameraInv, TypesFit
<1>2. pc \notin Early \/ (program = "visionpxp" /\ pc = "signal")
  BY <1>1 DEF CameraInv, StillBefore
<1>3. /\ cam' \in Queue /\ cam'.on = cam.on /\ All(cam)' = All(cam) /\ All(out)' = All(out)
  BY <1>1, FillKeeps
<1>4. TypesFit'
  BY <1>1, <1>3 DEF CameraInv, TypesFit, Over
<1>5. StillBefore'
  <2>1. CASE pc' = "wild"
    BY <2>1, BeforeIsOver DEF Early, Opening, Filling
  <2>2. CASE pc' = pc
    BY <1>1, <1>2, <2>2 DEF CameraInv, StillBefore, Early, Filling, Both
  <2>3. QED
    BY <1>1, <2>1, <2>2
<1>6. WorkerFits'
  BY <1>1, <1>3, WorkerKeeps DEF CameraInv
<1>7. PassFits'
  BY <1>1, <1>3, PassKeeps DEF CameraInv, Passing
<1>8. HeldFits'
  <2>1. CASE pc' = pc
    BY <1>1, <1>2, <1>3, <2>1, HeldStays DEF CameraInv, Early, Over
  <2>2. CASE pc' = "wild" /\ MemoryOf(Head(cam.queue)) \notin held
    <3>1. ~Handled
      <4>1. SUFFICES ASSUME Handled PROVE MemoryOf(Head(cam.queue)) \in held
        BY <2>2
      <4>2. CASE program \notin Both
        BY <1>1, <4>2, CameraAssumption DEF MemoryOf, CameraInv, HeldFits, WorkerFits, TypesFit, Both
      <4>3. CASE program \in Both /\ Head(cam.queue) # N
        BY <1>1, <4>3, MapsAreHeld DEF MemoryOf, N
      <4>4. CASE program = "pxpv4l2vision"
        <5>1. "mem" \in held
          BY <1>1, <1>2, <4>1, <4>4 DEF CameraInv, HeldFits, ProgramHolds, Channel, Early, Opening, Over
        <5>2. QED
          BY <1>1, <4>4, <5>1, MapsAreHeld DEF MemoryOf, Both
      <4>5. CASE program = "pxpv4l2"
        <5>1. Has(All(cam), Head(cam.queue))
          <6>1. cam.queue \in Seq(Buffers) /\ cam.done \in Seq(Buffers)
            BY <1>1 DEF Queue
          <6>2. /\ Len(All(cam)) = Len(cam.done) + Len(cam.queue)
                /\ \A i \in 1 .. Len(cam.done) + Len(cam.queue) : All(cam)[i] =
                      IF i <= Len(cam.done) THEN cam.done[i] ELSE cam.queue[i - Len(cam.done)]
            BY <6>1, ConcatProperties DEF All
          <6>3. Len(cam.done) + 1 \in 1 .. Len(All(cam)) /\ All(cam)[Len(cam.done) + 1] = Head(cam.queue)
            <7>1. Len(cam.done) \in Nat /\ Len(cam.queue) \in Nat \ {0} /\ cam.queue[1] = Head(cam.queue)
              BY <1>1, <6>1
            <7>2. \A m \in Nat, n \in Nat \ {0} :
                     m + 1 \in 1 .. m + n /\ ~(m + 1 <= m) /\ (m + 1) - m = 1
              OBVIOUS
            <7>3. QED
              BY <6>2, <7>1, <7>2
          <6>4. QED
            BY <6>3 DEF Has
        <5>2. Head(cam.queue) # N
          BY <1>1, <4>5, <5>1 DEF CameraInv, PassFits, OnePlace
        <5>3. QED
          BY <4>3, <4>5, <5>2 DEF Both
      <4>6. QED
        BY <4>2, <4>3, <4>4, <4>5 DEF Both
    <3>2. QED
      BY <1>1, <1>3, <2>2, <3>1 DEF CameraInv, HeldFits, Handled, Filling
  <2>3. QED
    BY <1>1, <2>1, <2>2
<1>9. SettingsFit'
  BY <1>1, SettingsKeep DEF CameraInv, setup
<1>10. QED
  BY <1>4, <1>5, <1>6, <1>7, <1>8, <1>9 DEF CameraInv

LEMMA ShowStep ==
    ASSUME CameraInv, Show
    PROVE  CameraInv'
<1>1. /\ out.on /\ out.queue # <<>> /\ out \in Queue /\ out' = Filled(out)
      /\ UNCHANGED <<program, pc, settings, crop, picture, held, gone, cam, hand, ai, worker, tries,
                     failed, failures, wild>>
  BY DEF Show, setup, thread, luck, CameraInv, TypesFit
<1>2. pc \notin Early \/ (program = "visionpxp" /\ pc = "signal")
  BY <1>1 DEF CameraInv, StillBefore
<1>3. out' \in Queue /\ All(out)' = All(out) /\ All(cam)' = All(cam)
  BY <1>1, FillKeeps
<1>4. TypesFit'
  BY <1>1, <1>3 DEF CameraInv, TypesFit
<1>5. StillBefore'
  BY <1>1, <1>2 DEF CameraInv, StillBefore, Early, Filling, Both
<1>6. WorkerFits'
  BY <1>1, WorkerKeeps DEF CameraInv
<1>7. PassFits'
  BY <1>1, <1>3, PassKeeps DEF CameraInv
<1>8. HeldFits'
  BY <1>1, HeldStays DEF CameraInv
<1>9. SettingsFit'
  BY <1>1, SettingsKeep DEF CameraInv, setup
<1>10. QED
  BY <1>4, <1>5, <1>6, <1>7, <1>8, <1>9 DEF CameraInv

LEMMA NothingStep ==
    ASSUME CameraInv,
           UNCHANGED <<program, pc, settings, crop, picture, held, gone, cam, out, hand, ai, worker,
                       tries, failed, failures, wild>>
    PROVE  CameraInv'
<1>1. TypesFit'
  BY DEF CameraInv, TypesFit
<1>2. StillBefore' /\ WorkerFits'
  BY DEF CameraInv, StillBefore, WorkerFits
<1>3. PassFits'
  BY PassKeeps DEF CameraInv, All
<1>4. HeldFits'
  BY HeldStays DEF CameraInv
<1>5. SettingsFit'
  BY SettingsKeep DEF CameraInv, setup
<1>6. QED
  BY <1>1, <1>2, <1>3, <1>4, <1>5 DEF CameraInv

-----------------------------------------------------------------------------
(* visionpxp and visionvideo.                                              *)
LEMMA ScreenStep ==
    ASSUME CameraInv, NEW p \in {"visionpxp", "visionvideo"}, framebuffer_init(p)
    PROVE  CameraInv'
<1>1. /\ program = p /\ program' = p /\ pc = "framebuffer_init" /\ pc' \in {"camera_init", "exit"}
      /\ held \subseteq held' /\ held' \subseteq held \cup {"fb"}
      /\ (pc' = "camera_init" => "fb" \in held' \/ "framebuffer_init" \in failed')
      /\ failures' \in 0 .. MaxFailures /\ failed \subseteq failed'
      /\ ("requeue" \in failed' => "requeue" \in failed)
  BY PxpSteps, VideoSteps, CameraAssumption
     DEF framebuffer_init, At, Proceed, Exits, Fails, Well, luck, CameraInv, TypesFit
<1>2. UNCHANGED <<cam, out, hand, ai, worker, tries, gone, wild, settings, crop, picture>>
  BY DEF framebuffer_init, queues, thread, setup
<1>3. TypesFit'
  BY <1>1, <1>2 DEF CameraInv, TypesFit, StepsOf, Over
<1>4. ~cam.on /\ gone = {} /\ (p = "visionpxp" => cam.queue = <<>>)
  BY <1>1, Outset DEF Early, CameraInv, StillBefore
<1>5. StillBefore'
  BY <1>1, <1>2 DEF CameraInv, StillBefore, Early, Opening, Filling, Both
<1>6. WorkerFits'
  BY <1>1, <1>2, WorkerKeeps DEF CameraInv
<1>7. PassFits'
  BY <1>1, <1>2, <1>4, PassStops DEF CameraInv, Passing
<1>8. HeldFits'
  <2>1. Handled' => Handled
    BY <1>1, Grows
  <2>2. Handled' => ProgramHolds'
    BY <1>1, <1>2 DEF ProgramHolds, Handled, Unhandled
  <2>3. QED
    BY <1>1, <1>2, <1>4, <2>1, <2>2 DEF CameraInv, HeldFits, Both, Filling, Channel
<1>9. SettingsFit'
  BY <1>1, <1>2, SettingsKeep DEF CameraInv, setup
<1>10. QED
  BY <1>3, <1>5, <1>6, <1>7, <1>8, <1>9 DEF CameraInv

(* The buffers are there and queued, or they are not and nobody notices.   *)
LEMMA MmapCameraStep ==
    ASSUME CameraInv, NEW p \in {"visionpxp", "visionvideo"}, MmapCameraInit(p)
    PROVE  CameraInv'
<1>1. /\ program = p /\ program' = p /\ pc = "camera_init"
      /\ \/ /\ pc' = (IF p = "visionpxp" THEN "pxp_engine_init" ELSE "turn")
            /\ cam' = [cam EXCEPT !.queue = Numbers(N)] /\ held' = held \cup {"cam", "bufs"}
         \/ pc' = "exit" /\ UNCHANGED <<held, cam>>
         \/ /\ pc' = (IF p = "visionpxp" THEN "pxp_engine_init" ELSE "turn")
            /\ UNCHANGED cam /\ held' = held \cup {"cam"} /\ "requestbuffers" \in failed'
      /\ failures' \in 0 .. MaxFailures /\ failed \subseteq failed'
      /\ ("requeue" \in failed' => "requeue" \in failed)
  BY PxpSteps, VideoSteps, CameraAssumption
     DEF MmapCameraInit, At, Proceed, Exits, Fails, Well, luck, CameraInv, TypesFit, N
<1>2. UNCHANGED <<out, hand, ai, worker, tries, gone, wild, settings, crop, picture>>
  BY DEF MmapCameraInit, thread, setup
<1>3. ~cam.on /\ cam.done = <<>> /\ gone = {} /\ (p = "visionpxp" => cam.queue = <<>>)
  BY <1>1, Outset DEF Early, CameraInv, StillBefore
<1>4. /\ cam' \in Queue /\ cam'.on = cam.on /\ cam'.done = cam.done
      /\ cam' = cam \/ (cam'.queue = Numbers(N) /\ "bufs" \in held')
  BY <1>1, FirstBuffers DEF CameraInv, TypesFit, Queue
<1>5. TypesFit'
  BY <1>1, <1>2, <1>4 DEF CameraInv, TypesFit, StepsOf, Over
<1>6. StillBefore'
  BY <1>1, <1>2, <1>3, <1>4 DEF CameraInv, StillBefore, Early, Opening, Filling, Both
<1>7. WorkerFits'
  BY <1>1, <1>2, <1>4, WorkerKeeps DEF CameraInv
<1>8. PassFits'
  BY <1>1, <1>2, <1>3, <1>4, PassStops DEF CameraInv, Passing
<1>9. HeldFits'
  <2>1. Handled' => Handled
    BY <1>1, Grows
  <2>2. Handled' => "bufs" \in held' \/ pc' = "exit"
    BY <1>1 DEF Handled, Unhandled
  <2>3. Handled' => ProgramHolds'
    BY <1>1, <1>2, <2>1, <2>2 DEF CameraInv, HeldFits, ProgramHolds
  <2>4. QED
    BY <1>1, <1>2, <1>3, <1>4, <2>1, <2>3 DEF CameraInv, HeldFits, Both, Filling, Channel
<1>10. SettingsFit'
  BY <1>1, <1>2, SettingsKeep DEF CameraInv, setup
<1>11. QED
  BY <1>5, <1>6, <1>7, <1>8, <1>9, <1>10 DEF CameraInv

(* The channel is taken unless there is no screen.                         *)
LEMMA EngineStep ==
    ASSUME CameraInv, pxp_engine_init
    PROVE  CameraInv'
<1>1. /\ program = "visionpxp" /\ program' = program
      /\ pc = "pxp_engine_init" /\ pc' = "camera_enable"
      /\ \/ held' = held \cup Channel
         \/ held' = held /\ ("fb" \notin held \/ "pxp_engine_init" \in failed')
      /\ failures' \in 0 .. MaxFailures /\ failed \subseteq failed'
      /\ ("requeue" \in failed' => "requeue" \in failed)
  BY PxpSteps, CameraAssumption
     DEF pxp_engine_init, At, Proceed, Fails, Well, luck, CameraInv, TypesFit, Channel,
         TakeChannel, pxp_get_mem, pxp_request_channel, pxp_lib_init
<1>2. UNCHANGED <<cam, out, hand, ai, worker, tries, gone, wild, settings, crop, picture>>
  BY DEF pxp_engine_init, queues, thread, setup
<1>3. TypesFit'
  BY <1>1, <1>2 DEF CameraInv, TypesFit, StepsOf
<1>4. ~cam.on /\ gone = {}
  BY <1>1, Outset DEF Early
<1>5. StillBefore'
  BY <1>1, <1>2 DEF CameraInv, StillBefore, Early, Opening, Filling, Both
<1>6. WorkerFits'
  BY <1>1, <1>2, WorkerKeeps DEF CameraInv
<1>7. PassFits'
  BY <1>1, <1>2, <1>4, PassStops DEF CameraInv, Passing
<1>8. HeldFits'
  <2>1. Handled' => Handled
    BY <1>1, Grows
  <2>2. Handled => "fb" \in held /\ "bufs" \in held
    BY <1>1 DEF CameraInv, HeldFits, ProgramHolds
  <2>3. Handled' => Channel \subseteq held'
    BY <1>1, <2>1, <2>2 DEF Handled, Unhandled
  <2>4. Handled' => ProgramHolds'
    BY <1>1, <1>2, <1>4, <2>1, <2>2, <2>3 DEF ProgramHolds
  <2>5. QED
    BY <1>1, <1>2, <1>4, <2>1, <2>4 DEF CameraInv, HeldFits, Both, Filling
<1>9. SettingsFit'
  BY <1>1, <1>2, SettingsKeep DEF CameraInv, setup
<1>10. QED
  BY <1>3, <1>5, <1>6, <1>7, <1>8, <1>9 DEF CameraInv

LEMMA EnableStep ==
    ASSUME CameraInv, visionpxp_camera_enable
    PROVE  CameraInv'
<1>1. /\ program = "visionpxp" /\ program' = program
      /\ pc = "camera_enable" /\ pc' = "signal"
      /\ cam' = cam \/ cam' = [cam EXCEPT !.on = cam.queue # <<>>]
      /\ failures' \in 0 .. MaxFailures /\ failed \subseteq failed'
      /\ ("requeue" \in failed' => "requeue" \in failed)
  BY PxpSteps, CameraAssumption
     DEF visionpxp_camera_enable, camera_enable, StreamOn, At, Proceed, Fails, Well, luck,
         CameraInv, TypesFit
<1>2. UNCHANGED <<out, hand, ai, worker, tries, held, gone, wild, settings, crop, picture>>
  BY DEF visionpxp_camera_enable, thread, setup
<1>3. /\ ~cam.on /\ cam.done = <<>> /\ gone = {} /\ hand = [cam |-> NoBuffer, out |-> NoBuffer]
      /\ ~out.on /\ out.done = <<>>
      /\ cam.queue \in {<<>>, Numbers(N)}
  BY <1>1, Outset DEF Early, CameraInv, StillBefore
<1>4. /\ cam' \in Queue /\ cam'.done = <<>> /\ cam'.queue = cam.queue
      /\ (cam'.on => cam.queue # <<>>)
  BY <1>1, <1>3 DEF CameraInv, TypesFit, Queue
<1>5. TypesFit'
  BY <1>1, <1>2, <1>4 DEF CameraInv, TypesFit, StepsOf
<1>6. StillBefore'
  BY <1>1, <1>2, <1>4 DEF CameraInv, StillBefore, Early, Opening, Filling, Both
<1>7. WorkerFits'
  BY <1>1, <1>2 DEF CameraInv, WorkerFits
<1>8. PassFits'
  <2>1. CASE ~cam'.on
    BY <1>1, <1>2, <2>1, PassStops DEF CameraInv, Passing
  <2>2. CASE cam'.on
    <3>1. All(cam)' = Numbers(N)
      <4>1. Numbers(N) \in Seq(Buffers) /\ cam'.queue = Numbers(N)
        BY <1>3, <1>4, <2>2, FirstBuffers
      <4>2. <<>> \o Numbers(N) = Numbers(N)
        BY <4>1, ConcatEmptySeq
      <4>3. QED
        BY <1>4, <4>1, <4>2 DEF All
    <3>2. Distinct(Numbers(N)) /\ ~Has(Numbers(N), NoBuffer)
      BY FirstBuffers, Counts DEF Has
    <3>3. OnePlace'
      BY <1>1, <1>2, <1>3, <3>1, <3>2 DEF OnePlace
    <3>4. InStep' /\ FramesGoInStep'
      BY <1>1, <1>2, <1>3 DEF InStep, FramesGoInStep, Both
    <3>5. QED
      BY <3>3, <3>4 DEF PassFits
  <2>3. QED
    BY <2>1, <2>2
<1>9. HeldFits'
  <2>1. Handled' => Handled
    BY <1>1, Grows
  <2>2. ProgramHolds => ProgramHolds'
    BY <1>1, <1>2 DEF ProgramHolds
  <2>3. QED
    BY <1>1, <1>2, <1>3, <1>4, <2>1, <2>2 DEF CameraInv, HeldFits, Both, Filling
<1>10. SettingsFit'
  BY <1>1, <1>2, SettingsKeep DEF CameraInv, setup
<1>11. QED
  BY <1>5, <1>6, <1>7, <1>8, <1>9, <1>10 DEF CameraInv

(* The frame is converted and copied, with what that needs.                *)
LEMMA ConvertStep ==
    ASSUME CameraInv, pxp_run \/ copy_image_to_fb
    PROVE  CameraInv'
<1>1. /\ program = "visionpxp" /\ program' = program /\ pc \in {"pxp_run", "copy"}
      /\ UNCHANGED <<settings, crop, picture, cam, out, hand, ai, worker>>
  BY DEF pxp_run, copy_image_to_fb, At, pxp_wait_for_completion, setup, queues, thread
<1>2. Handled => Channel \subseteq held /\ "bufs" \in held /\ wild = {}
  BY <1>1 DEF CameraInv, HeldFits, ProgramHolds
<1>3. CASE \E what \in {"run", "copy"} : GoesWild(what) /\ UNCHANGED <<held, gone, tries, luck>>
  <2>1. pc' = "wild" /\ UNCHANGED <<held, gone, tries, failed, failures>>
    BY <1>3 DEF GoesWild, luck
  <2>2. ~Handled
    <3>1. ~({"mem", "conf", "bufs", "mem_o"} \subseteq held)
      BY <1>1, <2>1 DEF pxp_run, copy_image_to_fb, pxp_wait_for_completion
    <3>2. QED
      BY <3>1, <1>2 DEF Channel
  <2>3. TypesFit'
    BY <1>1, <2>1 DEF CameraInv, TypesFit, Over
  <2>4. StillBefore'
    BY <2>1, BeforeIsOver DEF Early, Opening, Filling
  <2>5. WorkerFits'
    BY <1>1, <2>1, WorkerKeeps DEF CameraInv
  <2>6. PassFits'
    BY <1>1, <2>1, PassKeeps DEF CameraInv, Passing
  <2>7. HeldFits'
    BY <1>1, <2>1, <2>2 DEF CameraInv, HeldFits, Handled, Filling
  <2>8. SettingsFit'
    BY <1>1, <2>1, SettingsKeep DEF CameraInv, setup
  <2>9. QED
    BY <2>3, <2>4, <2>5, <2>6, <2>7, <2>8 DEF CameraInv
<1>4. CASE /\ UNCHANGED wild /\ tries' \in 0 .. 2
           /\ \/ pc' = pc
              \/ pc = "pxp_run" /\ pc' = "copy"
              \/ pc = "copy" /\ pc' = "qcam"
           /\ \/ UNCHANGED <<held, gone, failed, failures>>
              \/ GiveChannel /\ Fails("pxp_run")
  <2>1. /\ failures' \in 0 .. MaxFailures /\ failed \subseteq failed'
        /\ ("requeue" \in failed' <=> "requeue" \in failed)
    BY <1>4, CameraAssumption DEF Fails, CameraInv, TypesFit
  <2>2. pc' \in {"pxp_run", "copy", "qcam"}
    BY <1>1, <1>4
  <2>3. TypesFit'
    BY <1>1, <1>4, <2>1, <2>2 DEF CameraInv, TypesFit, StepsOf
  <2>4. StillBefore'
    BY <2>2, BeforeIsOver DEF Early, Opening, Filling
  <2>5. WorkerFits'
    BY <1>1, <2>1, <2>2, WorkerKeeps DEF CameraInv
  <2>6. PassFits'
    <3>1. InStep'
      BY <1>1, <2>2 DEF CameraInv, PassFits, InStep, Both
    <3>2. OnePlace'
      BY <1>1, <2>1 DEF CameraInv, PassFits, OnePlace
    <3>3. FramesGoInStep'
      BY <1>1 DEF CameraInv, PassFits, FramesGoInStep
    <3>4. QED
      BY <3>1, <3>2, <3>3 DEF PassFits
  <2>7. HeldFits'
    <3>1. CASE UNCHANGED <<held, gone, failed, failures>>
      BY <1>1, <1>4, <2>1, <2>2, <3>1, HeldKeeps DEF CameraInv, Early, Opening, Filling, Over
    <3>2. CASE GiveChannel /\ Fails("pxp_run")
      <4>1. ~Handled'
        BY <3>2 DEF Fails, Handled, Unhandled
      <4>2. /\ gone' \subseteq Channel /\ held' \cap gone' = {}
            /\ ("bufs" \in held => "bufs" \in held')
        BY <3>2, GivesChannel DEF CameraInv, HeldFits, Channel
      <4>3. QED
        BY <1>1, <2>2, <4>1, <4>2 DEF CameraInv, HeldFits, Both
    <3>3. QED
      BY <1>4, <3>1, <3>2
  <2>8. SettingsFit'
    BY <1>1, <2>2, SettingsKeep DEF CameraInv, setup
  <2>9. QED
    BY <2>3, <2>4, <2>5, <2>6, <2>7, <2>8 DEF CameraInv
<1>5. tries \in 0 .. 2
  BY DEF CameraInv, TypesFit
<1>6. CASE pxp_run
  <2>1. CASE ~({"mem", "conf", "bufs"} \subseteq held)
    BY <1>3, <1>6, <2>1 DEF pxp_run
  <2>2. CASE {"mem", "conf", "bufs"} \subseteq held
    <3>1. /\ pc = "pxp_run" /\ UNCHANGED wild
          /\ pxp_wait_for_completion(3,
                  pc' = "copy" /\ UNCHANGED <<held, gone, luck, worker>>,
                  pc' = "copy" /\ GiveChannel /\ Fails("pxp_run") /\ UNCHANGED worker)
      BY <1>6, <2>2 DEF pxp_run, At, Tame
    <3>2. tries' \in 0 .. 2 /\ (pc' = pc \/ pc' = "copy")
      BY <1>5, <3>1 DEF pxp_wait_for_completion
    <3>3. \/ UNCHANGED <<held, gone, failed, failures>>
          \/ GiveChannel /\ Fails("pxp_run")
      BY <3>1 DEF pxp_wait_for_completion, luck
    <3>4. QED
      BY <1>4, <3>1, <3>2, <3>3
  <2>3. QED
    BY <2>1, <2>2
<1>7. CASE copy_image_to_fb
  <2>1. CASE "mem_o" \notin held
    BY <1>3, <1>7, <2>1 DEF copy_image_to_fb, thread
  <2>2. CASE "mem_o" \in held
    BY <1>4, <1>5, <1>7, <2>2 DEF copy_image_to_fb, At, Tame, thread, luck
  <2>3. QED
    BY <2>1, <2>2
<1>8. QED
  BY <1>6, <1>7

LEMMA DisableStep ==
    ASSUME CameraInv, camera_disable
    PROVE  CameraInv'
<1>1. /\ program = "visionpxp" /\ program' = program
      /\ pc = "camera_disable" /\ pc' = "pxp_deinit"
      /\ cam' = Stopped /\ held' = held \ {"cam", "fb"}
      /\ UNCHANGED <<out, hand, ai, worker, tries, gone, wild, settings, crop, picture, failed,
                     failures>>
  BY PxpSteps DEF camera_disable, At, Proceed, StreamOff, thread, setup, luck
<1>2. Stopped \in Queue /\ ~Stopped.on
  BY DEF Stopped, Queue
<1>3. TypesFit'
  BY <1>1, <1>2 DEF CameraInv, TypesFit, StepsOf
<1>4. StillBefore'
  BY <1>1, BeforeIsOver DEF Early, Opening, Filling
<1>5. WorkerFits'
  BY <1>1, <1>2, WorkerKeeps DEF CameraInv
<1>6. PassFits'
  BY <1>1, <1>2, PassStops DEF CameraInv, Passing
<1>7. HeldFits'
  <2>1. Handled' => Handled
    BY <1>1 DEF Handled
  <2>2. ProgramHolds => ProgramHolds'
    BY <1>1 DEF ProgramHolds, Channel
  <2>3. QED
    BY <1>1, <1>2, <2>1, <2>2 DEF CameraInv, HeldFits, Both
<1>8. SettingsFit'
  BY <1>1, SettingsKeep DEF CameraInv, setup
<1>9. QED
  BY <1>3, <1>4, <1>5, <1>6, <1>7, <1>8 DEF CameraInv

LEMMA DrawStep ==
    ASSUME CameraInv, visionvideo_turn
    PROVE  CameraInv'
<1>1. /\ program = "visionvideo" /\ program' = program /\ pc = "turn"
      /\ hand' = [hand EXCEPT !.cam = 0]
      /\ \/ pc' = "turn" /\ wild' = wild /\ picture' = yuyv_to_xrgb8888(Pairs, Rows)
         \/ pc' = "wild" /\ picture' = picture /\ "bufs" \notin held
      /\ UNCHANGED <<cam, out, ai, worker, tries, held, gone, settings, crop, failed, failures>>
  BY DEF visionvideo_turn, At, GoesWild, thread, luck
<1>2. 0 \in Buffers /\ 0 # NoBuffer
  BY Counts DEF Buffers, N
<1>3. /\ hand' \in [cam : Buffers \cup {NoBuffer}, out : Buffers \cup {NoBuffer}]
      /\ hand'.out = NoBuffer
  BY <1>1, <1>2 DEF CameraInv, TypesFit, WorkerFits
<1>4. ~cam.on
  BY <1>1 DEF CameraInv, WorkerFits
<1>5. TypesFit'
  BY <1>1, <1>3 DEF CameraInv, TypesFit, Over
<1>6. StillBefore'
  BY <1>1, BeforeIsOver DEF Early, Opening, Filling
<1>7. WorkerFits'
  BY <1>1, <1>3 DEF CameraInv, WorkerFits
<1>8. PassFits'
  BY <1>1, <1>3, <1>4 DEF PassFits, InStep, OnePlace, FramesGoInStep, Both
<1>9. HeldFits'
  <2>1. Handled => pc' = "turn"
    BY <1>1 DEF CameraInv, HeldFits, ProgramHolds
  <2>2. Handled' => Handled
    BY <1>1 DEF Handled
  <2>3. Handled' => ProgramHolds'
    BY <1>1, <2>1, <2>2 DEF CameraInv, HeldFits, ProgramHolds
  <2>4. QED
    BY <1>1, <1>4, <2>1, <2>2, <2>3 DEF CameraInv, HeldFits, Both, Filling
<1>10. SettingsFit'
  BY <1>1 DEF CameraInv, SettingsFit, Window
<1>11. QED
  BY <1>5, <1>6, <1>7, <1>8, <1>9, <1>10 DEF CameraInv

-----------------------------------------------------------------------------
LEMMA CameraBegins == CameraInitial => CameraInv
<1> SUFFICES ASSUME CameraInitial PROVE CameraInv
  OBVIOUS
<1>1. /\ program \in Programs /\ program \in Both \cup {"visionpxp", "visionvideo"}
      /\ pc \in {"pxp_init", "framebuffer_init"}
      /\ program \in Both => pc = "pxp_init"
      /\ program \notin Both => pc = "framebuffer_init"
  BY CameraAssumption DEF CameraInitial, Plan, Both, main, vision_main, visionpxp_main, visionvideo_main
<1>2. /\ cam = Stopped /\ out = Stopped /\ Stopped \in Queue
      /\ hand = [cam |-> NoBuffer, out |-> NoBuffer]
      /\ ai = [has_task |-> FALSE, quit |-> FALSE] /\ worker = "none"
      /\ failed = {} /\ held = {} /\ gone = {} /\ wild = {}
  BY DEF CameraInitial, Stopped, Queue
<1>3. TypesFit
  BY <1>1, <1>2, CameraAssumption DEF CameraInitial, TypesFit, StepsOf, Opening, Over, Both
<1>4. StillBefore
  BY <1>1, <1>2 DEF StillBefore, Stopped, Busy, Filling, Both
<1>5. WorkerFits
  BY <1>1, <1>2 DEF WorkerFits, Stopped
<1>6. PassFits
  BY <1>1, <1>2 DEF PassFits, InStep, OnePlace, FramesGoInStep, Stopped
<1>7. HeldFits
  BY <1>1, <1>2 DEF HeldFits, ProgramHolds, Stopped, Filling, Both
<1>8. SettingsFit
  BY DEF CameraInitial, SettingsFit
<1>9. QED
  BY <1>3, <1>4, <1>5, <1>6, <1>7, <1>8 DEF CameraInv

LEMMA CameraStep == CameraInv /\ [CameraNext]_cvars => CameraInv'
<1> SUFFICES ASSUME CameraInv, [CameraNext]_cvars PROVE CameraInv'
  OBVIOUS
<1>1. CASE Main
  <2>1. CASE pxp_init \/ video_pxp_init
    BY <2>1, InitStep DEF pxp_init, video_pxp_init, Both
  <2>2. ASSUME NEW p \in Both, VideoNext(p) PROVE CameraInv'
    <3>1. CASE signal(p)
      BY <3>1, SignalStep
    <3>2. CASE pxp_check_capabilities(p) \/ pxp_config_output(p) \/ pxp_config_controls(p)
      BY <3>2, TakesStep DEF pxp_check_capabilities, pxp_config_output, pxp_config_controls
    <3>3. CASE pxp_config_buffer(p)
      BY <3>3, ConfigBufferStep
    <3>4. CASE pxp_config_windows(p)
      BY <3>4, ConfigWindowsStep
    <3>5. CASE camera_stop(p) \/ camera_cleanup(p)
      BY <3>5, CameraStopStep
    <3>6. CASE pxp_stop(p) \/ pxp_cleanup(p)
      BY <3>6, PxpStopStep
    <3>7. QED
      BY <2>2, <3>1, <3>2, <3>3, <3>4, <3>5, <3>6 DEF VideoNext
  <2>3. CASE camera_init \/ vision_camera_init
    BY <2>3, CameraInitStep
  <2>4. ASSUME NEW p \in Both, StartStreams(p) PROVE CameraInv'
    BY <2>4, StartStep
  <2>5. CASE Turn \/ TakeCamera \/ TakeOut \/ ReturnCamera \/ ReturnOut \/ CloseStray
    BY <2>5, TurnStep, TakeCameraStep, TakeOutStep, ReturnCameraStep, ReturnOutStep, CloseStrayStep
  <2>6. CASE Give \/ TellWorker \/ Join
    BY <2>6, GiveStep, TellStep
  <2>7. CASE device_pxp_init \/ model_init \/ label_init \/ worker_thread_init
    BY <2>7, ChannelStep, ModelStep, CreateStep
  <2>8. CASE device_pxp_deinit \/ pxp_deinit
    BY <2>8, DeinitStep
  <2>9. CASE \E p \in {"visionpxp", "visionvideo"} : framebuffer_init(p)
    BY <2>9, ScreenStep
  <2>10. CASE visionpxp_camera_init \/ MmapCameraInit("visionvideo")
    BY <2>10, MmapCameraStep DEF visionpxp_camera_init
  <2>11. CASE pxp_engine_init \/ visionpxp_camera_enable
    BY <2>11, EngineStep, EnableStep
  <2>12. CASE signal("visionpxp")
    BY <2>12, SignalStep
  <2>13. CASE pxp_run \/ copy_image_to_fb \/ camera_disable \/ visionvideo_turn
    BY <2>13, ConvertStep, DisableStep, DrawStep
  <2>14. CASE pxp_start \/ vision_pxp_start
    BY <2>4, <2>5, <2>6, <2>14 DEF pxp_start, vision_pxp_start, Both
  <2>15. QED
    BY <1>1, <2>1, <2>2, <2>3, <2>5, <2>7, <2>8, <2>9, <2>10, <2>11, <2>12, <2>13, <2>14 DEF Main
<1>2. CASE device_pxp_thread \/ Spurious
  BY <1>2, LookStep, WorkStep, RequeueStep DEF device_pxp_thread
<1>3. CASE signal_thread
  BY <1>3, NothingStep DEF signal_thread, setup, queues, thread, luck
<1>4. CASE Fill \/ Show
  BY <1>4, FillStep, ShowStep
<1>5. CASE UNCHANGED cvars
  BY <1>5, NothingStep DEF cvars
<1>6. QED
  BY <1>1, <1>2, <1>3, <1>4, <1>5 DEF CameraNext

LEMMA CameraInvHolds == CameraSpec => []CameraInv
  BY CameraBegins, CameraStep, PTL DEF CameraSpec

-----------------------------------------------------------------------------
(* Nothing is used that was not taken or is already given back, the memory *)
(* under the camera included, but after one of the failures the programs   *)
(* do not handle.                                                          *)
THEOREM NothingElseIsWild == CameraSpec => []OnlyUnhandledIsWild
<1>1. CameraInv => OnlyUnhandledIsWild
  BY DEF CameraInv, HeldFits, Handled, OnlyUnhandledIsWild
<1>2. QED
  BY <1>1, CameraInvHolds, PTL

-----------------------------------------------------------------------------
(* The conversion of visionvideo.                                          *)

(* A set of numbers that is not empty has a least one.                     *)
LEMMA LeastOf ==
    ASSUME NEW T \in SUBSET Nat, T # {}
    PROVE  \E m \in T : \A n \in T : m <= n
<1>1. PICK m \in T : \A n \in T : <<n, m>> \notin OpToRel(<, Nat)
  BY NatLessThanWellFounded, WFMin
<1>2. \A n \in T : ~(n < m)
  BY <1>1 DEF OpToRel
<1>3. QED
  BY <1>2

(* Where the pair of number m goes.                                        *)
PlaceOf(w, m) == IF m <= w THEN <<m, 0>> ELSE <<(m - 1) % w, (m - 1) \div w>>

LEMMA RowOf ==
    \A w \in Nat \ {0}, m \in Nat :
       m \div w \in Nat /\ m % w \in 0 .. w - 1 /\ m = w * (m \div w) + (m % w)
<1>1. \A w \in Nat \ {0}, m \in Nat : m % w \in 0 .. w - 1
  OBVIOUS
<1>2. \A w \in Nat \ {0}, m \in Nat : m = w * (m \div w) + (m % w)
  OBVIOUS
<1>3. \A w \in Nat \ {0}, m \in Nat : m \div w \in Nat
  OBVIOUS
<1>4. QED
  BY <1>1, <1>2, <1>3

LEMMA NextRow ==
    \A w \in Nat \ {0}, m \in Nat :
       /\ m % w = 0 /\ m > 0 => m \div w = ((m - 1) \div w) + 1
       /\ m % w # 0 => m % w = ((m - 1) % w) + 1 /\ m \div w = (m - 1) \div w
<1>1. \A w \in Nat \ {0}, m \in Nat : m % w = 0 /\ m > 0 => m \div w = ((m - 1) \div w) + 1
  OBVIOUS
<1>2. \A w \in Nat \ {0}, m \in Nat :
         m % w # 0 => m % w = ((m - 1) % w) + 1 /\ m \div w = (m - 1) \div w
  OBVIOUS
<1>3. QED
  BY <1>1, <1>2

LEMMA PlaceAfter ==
    ASSUME NEW w \in Nat \ {0}, NEW n \in Nat \ {0}
    PROVE  PlaceOf(w, n) = IF Changes(n - 1, w) THEN <<0, PlaceOf(w, n - 1)[2] + 1>>
                           ELSE <<PlaceOf(w, n - 1)[1] + 1, PlaceOf(w, n - 1)[2]>>
<1>0. n - 1 \in Nat
  OBVIOUS
<1>1. CASE n <= w
  <2>1. n - 1 > 0 => (n - 1) % w # 0
    <3>1. \A a \in Nat \ {0}, m \in Nat : m > 0 /\ m < a => m % a # 0
      OBVIOUS
    <3>2. QED
      BY <1>1, <3>1
  <2>2. QED
    BY <1>1, <2>1 DEF PlaceOf, Changes
<1>2. CASE n = w + 1
  <2>1. n - 1 = w /\ w % w = 0 /\ w \div w = 1
    <3>1. \A a \in Nat \ {0} : a % a = 0 /\ a \div a = 1
      OBVIOUS
    <3>2. QED
      BY <1>2, <3>1
  <2>2. QED
    BY <1>2, <2>1 DEF PlaceOf, Changes
<1>3. CASE n > w + 1
  <2>1. /\ PlaceOf(w, n) = <<(n - 1) % w, (n - 1) \div w>>
        /\ PlaceOf(w, n - 1) = <<((n - 1) - 1) % w, ((n - 1) - 1) \div w>>
        /\ n - 1 > 0
    BY <1>3 DEF PlaceOf
  <2>2. CASE (n - 1) % w = 0
    <3>1. (n - 1) \div w = (((n - 1) - 1) \div w) + 1
      BY <1>0, <2>1, <2>2, NextRow
    <3>2. QED
      BY <2>1, <2>2, <3>1 DEF Changes
  <2>3. CASE (n - 1) % w # 0
    <3>1. /\ (n - 1) % w = (((n - 1) - 1) % w) + 1
          /\ (n - 1) \div w = ((n - 1) - 1) \div w
      BY <1>0, <2>3, NextRow
    <3>2. QED
      BY <2>1, <2>3, <3>1 DEF Changes
  <2>4. QED
    BY <2>2, <2>3
<1>4. QED
  BY <1>1, <1>2, <1>3

LEMMA Places ==
    ASSUME NEW w \in Nat \ {0}, NEW h \in Nat
    PROVE  yuyv_to_xrgb8888(w, h) = [i \in 1 .. w * h |-> PlaceOf(w, i - 1)]
<1> DEFINE E(f) == [n \in 0 .. w * h - 1 |->
                      IF n = 0 THEN <<0, 0>>
                      ELSE IF Changes(n - 1, w) THEN <<0, f[n - 1][2] + 1>>
                      ELSE <<f[n - 1][1] + 1, f[n - 1][2]>>]
<1> DEFINE g == [n \in 0 .. w * h - 1 |-> PlaceOf(w, n)]
<1>0. w * h \in Nat
  OBVIOUS
<1>1. g = E(g)
  <2>1. ASSUME NEW n \in 0 .. w * h - 1 PROVE g[n] = E(g)[n]
    <3>1. CASE n = 0
      BY <3>1 DEF PlaceOf
    <3>2. CASE n # 0
      <4>1. n \in Nat \ {0} /\ n - 1 \in 0 .. w * h - 1
        BY <1>0, <3>2
      <4>2. g[n] = PlaceOf(w, n) /\ g[n - 1] = PlaceOf(w, n - 1)
        BY <4>1
      <4>3. QED
        BY <3>2, <4>1, <4>2, PlaceAfter
    <3>3. QED
      BY <3>1, <3>2
  <2>2. QED
    BY <2>1
<1>2. ASSUME NEW f, f = E(f) PROVE f = g
  <2> DEFINE T == {n \in 0 .. w * h - 1 : f[n] # g[n]}
  <2>1. T = {}
    <3> SUFFICES ASSUME T # {} PROVE FALSE
      OBVIOUS
    <3>1. T \in SUBSET Nat
      BY <1>0
    <3>2. PICK m \in T : \A n \in T : m <= n
      BY <3>1, LeastOf
    <3>3. m \in 0 .. w * h - 1 /\ f[m] = E(f)[m] /\ g[m] = E(g)[m]
      BY <1>1, <1>2
    <3>4. m # 0
      BY <3>3
    <3>5. m - 1 \in 0 .. w * h - 1 /\ ~(m <= m - 1)
      BY <1>0, <3>3, <3>4
    <3>6. f[m - 1] = g[m - 1]
      BY <3>2, <3>5
    <3>7. E(f)[m] = E(g)[m]
      BY <3>3, <3>6
    <3>8. QED
      BY <3>3, <3>7
  <2>2. DOMAIN f = 0 .. w * h - 1 /\ f = [n \in DOMAIN f |-> f[n]]
    BY <1>2
  <2>3. QED
    BY <2>1, <2>2
<1>3. yuyv_to_xrgb8888(w, h) = [i \in 1 .. w * h |-> (CHOOSE f : f = E(f))[i - 1]]
  BY DEF yuyv_to_xrgb8888
<1>4. ASSUME NEW i \in 1 .. w * h PROVE i - 1 \in 0 .. w * h - 1 /\ g[i - 1] = PlaceOf(w, i - 1)
  BY <1>0
<1> HIDE DEF E, g
<1>5. (CHOOSE f : f = E(f)) = g
  BY <1>1, <1>2
<1>6. QED
  BY <1>3, <1>4, <1>5

(* No pair lies on another, and none far from its place.                   *)
LEMMA PairsApart == picture = yuyv_to_xrgb8888(Pairs, Rows) => PairsKeepTheirPlaces
<1> SUFFICES ASSUME picture = yuyv_to_xrgb8888(Pairs, Rows) PROVE PairsKeepTheirPlaces
  OBVIOUS
<1> DEFINE w == Pairs
<1> DEFINE x(i) == (i - 2) % w
<1> DEFINE y(i) == (i - 2) \div w
<1>1. w \in Nat \ {0} /\ Rows \in Nat /\ w * Rows \in Nat
  BY CameraAssumption
<1>2. DOMAIN picture = 1 .. w * Rows /\ \A i \in 1 .. w * Rows : picture[i] = PlaceOf(w, i - 1)
  BY <1>1, Places
<1> HIDE DEF w
<1>3. ASSUME NEW i \in 1 .. w * Rows, i <= w + 1
      PROVE  picture[i] = <<i - 1, 0>>
  <2>1. i - 1 <= w
    BY <1>1, <1>3
  <2>2. PlaceOf(w, i - 1) = <<i - 1, 0>>
    BY <2>1 DEF PlaceOf
  <2>3. QED
    BY <1>2, <2>2
<1>4. ASSUME NEW i \in 1 .. w * Rows, i > w + 1
      PROVE  /\ picture[i] = <<x(i), y(i)>> /\ x(i) \in 0 .. w - 1 /\ y(i) \in Nat
             /\ w * y(i) + x(i) = i - 2
  <2>1. i - 2 \in Nat /\ ~(i - 1 <= w) /\ (i - 1) - 1 = i - 2
    BY <1>1, <1>4
  <2>2. x(i) \in 0 .. w - 1 /\ y(i) \in Nat /\ w * y(i) + x(i) = i - 2
    BY <1>1, <2>1, RowOf
  <2>3. picture[i] = <<x(i), y(i)>>
    BY <1>2, <2>1 DEF PlaceOf
  <2>4. QED
    BY <2>2, <2>3
<1> HIDE DEF x, y
<1>5. ASSUME NEW i \in DOMAIN picture, NEW j \in DOMAIN picture, picture[i] = picture[j]
      PROVE  i = j
  <2>1. i \in 1 .. w * Rows /\ j \in 1 .. w * Rows
    BY <1>2
  <2>2. CASE i <= w + 1 /\ j <= w + 1
    BY <1>1, <1>3, <1>5, <2>1, <2>2
  <2>3. CASE i > w + 1 /\ j > w + 1
    <3>1. picture[i] = <<x(i), y(i)>> /\ picture[j] = <<x(j), y(j)>>
      BY <1>4, <2>1, <2>3
    <3>2. x(i) = x(j) /\ y(i) = y(j)
      <4>1. picture[i][1] = x(i) /\ picture[i][2] = y(i) /\ picture[j][1] = x(j) /\ picture[j][2] = y(j)
        BY <3>1
      <4>2. QED
        BY <1>5, <4>1, Zenon
    <3>3. w * y(i) + x(i) = i - 2 /\ w * y(j) + x(j) = j - 2
      BY <1>4, <2>1, <2>3
    <3>4. i - 2 = j - 2
      BY <3>2, <3>3
    <3>5. QED
      BY <2>1, <3>4
  <2>4. ASSUME NEW a \in 1 .. w * Rows, NEW b \in 1 .. w * Rows, a <= w + 1, b > w + 1,
               picture[a] = picture[b]
        PROVE  FALSE
    <3>1. a - 1 = x(b) /\ y(b) = 0
      BY <1>3, <1>4, <2>4
    <3>2. x(b) \in 0 .. w - 1 /\ w * 0 + x(b) = b - 2
      BY <1>4, <2>4, <3>1
    <3>3. QED
      BY <1>1, <2>4, <3>2
  <2>5. QED
    BY <1>1, <1>5, <2>1, <2>2, <2>3, <2>4
<1>6. ASSUME NEW i \in DOMAIN picture
      PROVE  picture[i][2] * Pairs + picture[i][1] \in {i - 1, i - 2}
  <2>1. \A a \in Nat, b \in Nat \ {0} : a * b = b * a /\ 0 * b = 0
    OBVIOUS
  <2>2. i \in 1 .. w * Rows
    BY <1>2
  <2>3. CASE i <= w + 1
    BY <1>1, <1>3, <2>1, <2>2, <2>3 DEF w
  <2>4. CASE i > w + 1
    <3>1. /\ picture[i] = <<x(i), y(i)>> /\ y(i) \in Nat
          /\ w * y(i) + x(i) = i - 2
      BY <1>4, <2>2, <2>4
    <3>2. y(i) * w = w * y(i)
      BY <1>1, <2>1, <3>1
    <3>3. picture[i][2] * w + picture[i][1] = i - 2
      BY <3>1, <3>2
    <3>4. QED
      BY <3>3 DEF w
  <2>5. QED
    BY <1>1, <2>2, <2>3, <2>4
<1>7. QED
  BY <1>5, <1>6 DEF PairsKeepTheirPlaces, IsInjective

-----------------------------------------------------------------------------
(* What the run asks, from the invariant.                                  *)
LEMMA TypesAreRight == CameraInv => CameraTypeOK
<1> SUFFICES ASSUME CameraInv PROVE CameraTypeOK
  OBVIOUS
<1>1. pc \in ToSet(Plan) \cup {"dqcam", "dqout", "qcam", "qout", "give", "pxp_run", "copy",
                               "exit", "wild"}
  <2>1. CASE program = "pxpv4l2"
    <3>1. Plan = main /\ \A i \in 1 .. 15 : main[i] \in ToSet(main)
      BY <2>1 DEF Plan, main, ToSet
    <3>2. QED
      BY <2>1, <3>1 DEF CameraInv, TypesFit, StepsOf, Filling, Over, main
  <2>2. CASE program = "pxpv4l2vision"
    <3>1. Plan = vision_main /\ \A i \in 1 .. 22 : vision_main[i] \in ToSet(vision_main)
      BY <2>2 DEF Plan, vision_main, ToSet
    <3>2. QED
      BY <2>2, <3>1
         DEF CameraInv, TypesFit, StepsOf, Opening, Filling, Passing, Closing, Over, vision_main
  <2>3. CASE program = "visionpxp"
    <3>1. Plan = visionpxp_main /\ \A i \in 1 .. 8 : visionpxp_main[i] \in ToSet(visionpxp_main)
      BY <2>3 DEF Plan, visionpxp_main, ToSet
    <3>2. QED
      BY <2>3, <3>1 DEF CameraInv, TypesFit, StepsOf, Over, visionpxp_main
  <2>4. CASE program \notin {"pxpv4l2", "pxpv4l2vision", "visionpxp"}
    <3>1. /\ Plan = visionvideo_main
          /\ \A i \in 1 .. 3 : visionvideo_main[i] \in ToSet(visionvideo_main)
      BY <2>4 DEF Plan, visionvideo_main, ToSet
    <3>2. QED
      BY <2>4, <3>1 DEF CameraInv, TypesFit, StepsOf, Over, visionvideo_main
  <2>5. QED
    BY <2>1, <2>2, <2>3, <2>4
<1>2. ASSUME NEW q \in Queue
      PROVE  q.on \in BOOLEAN /\ ToSet(q.queue) \cup ToSet(q.done) \subseteq Buffers
  <2>1. q.on \in BOOLEAN /\ q.queue \in Seq(Buffers) /\ q.done \in Seq(Buffers)
    BY DEF Queue
  <2>2. \A s \in Seq(Buffers) : ToSet(s) \subseteq Buffers
    BY DEF ToSet
  <2>3. QED
    BY <2>1, <2>2
<1>3. {hand.cam, hand.out} \subseteq Buffers \cup {NoBuffer}
  BY DEF CameraInv, TypesFit
<1>4. QED
  BY <1>1, <1>2, <1>3 DEF CameraTypeOK, CameraInv, TypesFit, HeldFits

(* A distinct buffer is once in the queue if it is in it at all.           *)
LEMMA OnceAtMost ==
    ASSUME NEW q \in Queue, Distinct(All(q)), NEW b
    PROVE  /\ Has(All(q), b) => Times(q.queue, b) + Times(q.done, b) = 1
           /\ ~Has(All(q), b) => Times(q.queue, b) = 0 /\ Times(q.done, b) = 0
           /\ b \in ToSet(q.queue) \cup ToSet(q.done) => Has(All(q), b)
<1> DEFINE s == All(q)
<1> DEFINE u == q.queue
<1> DEFINE d == q.done
<1>1. /\ s = d \o u /\ d \in Seq(Buffers) /\ u \in Seq(Buffers) /\ Distinct(s)
      /\ (Has(All(q), b) <=> Has(s, b))
  BY DEF All, Queue
<1> HIDE DEF s, u, d
<1>2. /\ s \in Seq(Buffers) /\ Len(s) = Len(d) + Len(u) /\ Len(d) \in Nat /\ Len(u) \in Nat
      /\ DOMAIN d = 1 .. Len(d) /\ DOMAIN u = 1 .. Len(u)
      /\ \A i \in 1 .. Len(d) + Len(u) : s[i] = IF i <= Len(d) THEN d[i] ELSE u[i - Len(d)]
  BY <1>1, ConcatProperties
<1>3. \A i \in DOMAIN d : i \in 1 .. Len(s) /\ s[i] = d[i]
  BY <1>2
<1>4. \A i \in DOMAIN u : Len(d) + i \in 1 .. Len(s) /\ s[Len(d) + i] = u[i]
  <2> SUFFICES ASSUME NEW i \in DOMAIN u PROVE Len(d) + i \in 1 .. Len(s) /\ s[Len(d) + i] = u[i]
    OBVIOUS
  <2>1. /\ Len(d) + i \in 1 .. Len(d) + Len(u) /\ ~(Len(d) + i <= Len(d))
        /\ (Len(d) + i) - Len(d) = i
    BY <1>2
  <2>2. QED
    BY <1>2, <2>1
<1>5. ASSUME NEW k \in 1 .. Len(s)
      PROVE  \/ k \in DOMAIN d /\ s[k] = d[k]
             \/ k - Len(d) \in DOMAIN u /\ s[k] = u[k - Len(d)] /\ k > Len(d)
  BY <1>2
<1> DEFINE D == {i \in DOMAIN d : d[i] = b}
<1> DEFINE U == {i \in DOMAIN u : u[i] = b}
<1>6. Times(q.queue, b) = Cardinality(U) /\ Times(q.done, b) = Cardinality(D)
  BY DEF Times, u, d
<1>7. CASE ~Has(s, b)
  <2>1. D = {} /\ U = {}
    BY <1>3, <1>4, <1>7 DEF Has
  <2>2. b \notin ToSet(q.queue) \cup ToSet(q.done)
    BY <2>1 DEF ToSet, u, d
  <2>3. QED
    BY <1>1, <1>6, <1>7, <2>1, <2>2, FS_EmptySet
<1>8. CASE Has(s, b)
  <2>1. PICK k \in 1 .. Len(s) : s[k] = b
    BY <1>8 DEF Has
  <2>2. \A i \in 1 .. Len(s) : s[i] = b => i = k
    BY <1>1, <2>1 DEF Distinct
  <2>3. CASE k \in DOMAIN d /\ s[k] = d[k]
    <3>1. D = {k}
      BY <1>3, <2>1, <2>2, <2>3
    <3>2. U = {}
      BY <1>2, <1>4, <2>2, <2>3
    <3>3. Cardinality(D) = 1 /\ Cardinality(U) = 0
      BY <3>1, <3>2, FS_EmptySet, FS_Singleton
    <3>4. QED
      BY <1>1, <1>6, <1>8, <3>3
  <2>4. CASE k - Len(d) \in DOMAIN u /\ s[k] = u[k - Len(d)] /\ k > Len(d)
    <3>1. U = {k - Len(d)}
      <4>1. ASSUME NEW i \in U PROVE i = k - Len(d)
        <5>1. i \in DOMAIN u /\ u[i] = b
          OBVIOUS
        <5>2. Len(d) + i \in 1 .. Len(s) /\ s[Len(d) + i] = b
          BY <1>4, <5>1
        <5>3. Len(d) + i = k /\ i \in 1 .. Len(u)
          BY <1>2, <2>2, <5>1, <5>2
        <5>4. QED
          BY <1>2, <5>3
      <4>2. k - Len(d) \in U
        BY <2>1, <2>4
      <4>3. QED
        BY <4>1, <4>2
    <3>2. D = {}
      BY <1>2, <1>3, <2>2, <2>4
    <3>3. Cardinality(D) = 0 /\ Cardinality(U) = 1
      BY <3>1, <3>2, FS_EmptySet, FS_Singleton
    <3>4. QED
      BY <1>1, <1>6, <1>8, <3>3
  <2>5. QED
    BY <1>5, <2>1, <2>3, <2>4
<1>9. QED
  BY <1>7, <1>8

LEMMA PlacesAreOne == CameraInv => BuffersHaveOnePlace
<1> SUFFICES ASSUME CameraInv, cam.on,
                    NEW b \in ToSet(cam.queue) \cup ToSet(cam.done)
                              \cup ({hand.cam} \ {NoBuffer})
                              \cup (IF worker = "none" THEN {} ELSE {V4L2_BUF_NUM})
             PROVE  Times(cam.queue, b) + Times(cam.done, b) + One(hand.cam = b)
                      + One(b = V4L2_BUF_NUM /\ ai.has_task)
                      + One(b = V4L2_BUF_NUM /\ worker \in {"run", "infer", "queue"})
                    = IF b = V4L2_BUF_NUM /\ "requeue" \in failed THEN 0 ELSE 1
  BY DEF BuffersHaveOnePlace
<1> DEFINE m == Times(cam.queue, b) + Times(cam.done, b)
<1>1. cam \in Queue /\ Distinct(All(cam)) /\ ~Has(All(cam), hand.cam)
  BY DEF CameraInv, TypesFit, PassFits, OnePlace
<1>2. /\ Has(All(cam), b) => m = 1
      /\ ~Has(All(cam), b) => m = 0
      /\ b \in ToSet(cam.queue) \cup ToSet(cam.done) => Has(All(cam), b)
  BY <1>1, OnceAtMost
<1>3. b = V4L2_BUF_NUM /\ program = "pxpv4l2vision" =>
        /\ (Has(All(cam), b) => ~ai.has_task /\ worker \notin Busy /\ hand.cam # b)
        /\ (hand.cam = b => ~ai.has_task /\ worker \notin Busy)
        /\ (ai.has_task => worker \notin Busy)
        /\ ("requeue" \notin failed <=>
              Has(All(cam), b) \/ hand.cam = b \/ ai.has_task \/ worker \in Busy)
  BY <1>1 DEF CameraInv, PassFits, OnePlace, ExtraPlace, N
<1>4. program # "pxpv4l2vision" => worker = "none" /\ ~ai.has_task /\ "requeue" \notin failed
  BY DEF CameraInv, WorkerFits
<1> HIDE DEF m
<1>5. CASE b = V4L2_BUF_NUM /\ program = "pxpv4l2vision"
  <2>1. CASE Has(All(cam), b)
    BY <1>2, <1>3, <1>5, <2>1 DEF One, Busy, m
  <2>2. CASE ~Has(All(cam), b) /\ hand.cam = b
    BY <1>2, <1>3, <1>5, <2>2 DEF One, Busy, m
  <2>3. CASE ~Has(All(cam), b) /\ hand.cam # b
    BY <1>2, <1>3, <1>5, <2>3 DEF One, Busy, m
  <2>4. QED
    BY <2>1, <2>2, <2>3
<1>6. CASE ~(b = V4L2_BUF_NUM /\ program = "pxpv4l2vision")
  <2>1. Has(All(cam), b) <=> hand.cam # b
    BY <1>1, <1>2, <1>4, <1>6
  <2>2. ~(b = V4L2_BUF_NUM /\ ai.has_task) /\ ~(b = V4L2_BUF_NUM /\ worker \in {"run", "infer", "queue"})
        /\ ~(b = V4L2_BUF_NUM /\ "requeue" \in failed)
    BY <1>4, <1>6
  <2>3. QED
    BY <1>2, <2>1, <2>2 DEF One, m
<1>7. QED
  BY <1>5, <1>6

(* Scaled down to a multiple of eight, the picture is not larger.          *)
LEMMA ScaledDown ==
    ASSUME NEW w \in Nat \ {0}, NEW h \in Nat
    PROVE  /\ Eights((w * ((16 * h) \div w)) \div 16) <= h
           /\ h <= w => Eights((h * ((16 * h) \div w)) \div 16) <= w
<1> DEFINE k == (16 * h) \div w
<1>1. k \in Nat /\ w * k <= 16 * h
  <2>1. 16 * h \in Nat
    OBVIOUS
  <2>2. \A c \in Nat \ {0}, n \in Nat : n \div c \in Nat /\ c * (n \div c) <= n
    BY RowOf
  <2>3. QED
    BY <2>1, <2>2
<1> HIDE DEF k
<1>2. \A n, c \in Nat : n <= 16 * c => n \div 16 \in Nat /\ n \div 16 <= c
  OBVIOUS
<1>3. \A n \in Nat : Eights(n) <= n
  BY DEF Eights
<1>4. Eights((w * k) \div 16) <= h
  <2>1. w * k \in Nat
    BY <1>1
  <2>2. (w * k) \div 16 \in Nat /\ (w * k) \div 16 <= h
    BY <1>1, <1>2, <2>1
  <2>3. Eights((w * k) \div 16) \in Nat
    BY <2>2 DEF Eights
  <2>4. QED
    BY <1>3, <2>2, <2>3
<1>5. ASSUME h <= w PROVE Eights((h * k) \div 16) <= w
  <2>1. k <= 16
    <3>1. \A c \in Nat \ {0}, a, n \in Nat : c * a <= 16 * n /\ n <= c => a <= 16
      OBVIOUS
    <3>2. QED
      BY <1>1, <1>5, <3>1
  <2>2. h * k \in Nat /\ h * k <= 16 * h
    BY <1>1, <2>1
  <2>3. (h * k) \div 16 \in Nat /\ (h * k) \div 16 <= h
    BY <1>2, <2>2
  <2>4. Eights((h * k) \div 16) \in Nat /\ Eights((h * k) \div 16) <= h
    <3>1. \A n \in Nat : Eights(n) \in Nat
      BY DEF Eights
    <3>2. QED
      BY <1>3, <2>3, <3>1
  <2>5. QED
    BY <1>5, <2>4
<1>6. QED
  BY <1>4, <1>5 DEF k

LEMMA WindowFits == CameraInv => TurnedWindowFits
<1> SUFFICES ASSUME CameraInv, crop.corner = "origin", settings.rotate_pass,
                    settings.sh <= settings.sw
             PROVE  crop.width <= settings.sh /\ crop.height <= settings.sw
  BY DEF TurnedWindowFits
<1>1. crop = Window(settings)
  BY DEF CameraInv, SettingsFit, NoWindow
<1>2. settings.sw \in Nat \ {0} /\ settings.sh \in Nat
  BY CameraAssumption DEF CameraInv, SettingsFit, Default
<1> DEFINE scale == (16 * settings.sh) \div settings.sw
<1>3. ~settings.dst
  BY <1>1 DEF Window
<1>4. /\ crop.width = Eights((settings.sw * scale) \div 16)
      /\ crop.height = Eights((settings.sh * scale) \div 16)
  BY <1>1, <1>3 DEF Window
<1>5. /\ Eights((settings.sw * scale) \div 16) <= settings.sh
      /\ Eights((settings.sh * scale) \div 16) <= settings.sw
  <2>1. \A w \in Nat \ {0}, h \in Nat :
           /\ Eights((w * ((16 * h) \div w)) \div 16) <= h
           /\ h <= w => Eights((h * ((16 * h) \div w)) \div 16) <= w
    BY ScaledDown
  <2>2. QED
    BY <1>2, <2>1
<1> HIDE DEF scale
<1>6. QED
  BY <1>4, <1>5

(* A frame comes out of both queues at once and goes back into both; no    *)
(* buffer is in two places, not the extra one either, which the worker has *)
(* in between; the window of a turned picture fits the screen, and the     *)
(* pairs of pixels of a converted one lie side by side.                    *)
THEOREM FramesKeepRound == CameraSpec => []FramesGoRound
<1>1. CameraInv => PairsKeepTheirPlaces
  <2>1. picture = <<>> => PairsKeepTheirPlaces
    BY DEF PairsKeepTheirPlaces, IsInjective
  <2>2. QED
    BY <2>1, PairsApart DEF CameraInv, SettingsFit
<1>2. CameraInv => FramesGoRound
  BY <1>1, TypesAreRight, PlacesAreOne, WindowFits DEF CameraInv, PassFits, FramesGoRound
<1>3. QED
  BY <1>2, CameraInvHolds, PTL
=============================================================================
