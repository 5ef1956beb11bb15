--------------------------- MODULE YxtLinkProofs ---------------------------
(***************************************************************************)
(* Proofs about YxtLink, for any number of calls, events and readers and   *)
(* any size of the transaction table.                                      *)
(*                                                                         *)
(* The argument follows the block of a call on its way.  It is early while *)
(* it is in the queue or with the writer and has not been written, late    *)
(* from the write until its answer is stored.  A block is in one place at  *)
(* a time, and as long as it is early or late nothing has been stored in   *)
(* it, nobody has been woken for it and it has not been freed.  The answer *)
(* to an event goes the other way, from the pipe to the writer.            *)
(***************************************************************************)
EXTENDS YxtLink, TLAPS, FiniteSetTheorems

In(q, i) == \E k \in DOMAIN q : q[k] = i
Once(q) == \A j, k \in DOMAIN q : q[j] = q[k] => j = k
Busy(i) == \E r \in Readers : rd[r].msg = i

\* A thread that carries nothing is idle, and what it carries fits its place.
Fits(x) ==
  /\ x.pc = "idle" => x.msg = Nil
  /\ x.pc \in {"answer", "found"} => x.msg \in Calls
  /\ x.pc = "found" => x.block = x.msg /\ WantReply(x.msg)
  /\ x.pc \in {"event", "handler", "handled", "queued", "hook"} => x.msg \in Events
Shape ==
  /\ wr.pc = "wait" => wr.item = Nil
  /\ wr.pc # "wait" => wr.item \in Items
  /\ \A r \in Readers : Fits(rd[r])

\* Only calls that want a reply get into the transaction table.
Saved ==
  /\ \A b \in 0 .. TabSize - 1 : trtab[b] # Nil => WantReply(trtab[b])
  /\ \A c \in Calls : next[c] # Nil => WantReply(next[c])

\* A block or a line of the pipe is in one place.
Single ==
  /\ Once(queue) /\ Once(toUs)
  /\ \A i \in Items : In(queue, i) => wr.item # i
  /\ \A i \in Items : In(toUs, i) => ~Busy(i)
  /\ \A r, s \in Readers : rd[r].msg = rd[s].msg /\ rd[r].msg # Nil => r = s

\* What the engine wrote and no reader is through with yet.
Around(i) == In(toUs, i) \/ Busy(i)

Early(c) == In(queue, c) \/ (wr.item = c /\ wr.pc # "sent")
Late(c) == c \in toEngine /\ (c \notin answered \/ Around(c))
Fresh(c) == reply[c] = Nil /\ sem[c] = 0 /\ frees[c] = 0
Open(c) == call[c] \in {"queued", "waiting"}

CallInv(c) ==
  /\ call[c] \in {"idle", "locked"} => ~Early(c) /\ c \notin toEngine /\ Fresh(c)
  /\ Early(c) => c \notin toEngine /\ Fresh(c)
  /\ WantReply(c) /\ Early(c) => Open(c)
  /\ WantReply(c) /\ Late(c) => Fresh(c) /\ Open(c)
  /\ c \in answered => c \in toEngine
  /\ c \notin answered => ~Around(c)
  /\ reply[c] \in {Nil, c} /\ (reply[c] = c => c \in answered)
  /\ WantReply(c) /\ reply[c] = Nil /\ (sem[c] > 0 \/ call[c] = "done") => c \notin toEngine
  /\ sem[c] > 0 => WantReply(c) /\ Open(c)
  /\ WantReply(c) /\ call[c] # "done" => frees[c] = 0
  /\ wr.item = c /\ wr.pc = "sent" =>
       c \in toEngine /\ frees[c] <= 1 /\ (WantReply(c) \/ frees[c] = 0)

\* The answer to an event that has not been queued yet.
Coming(e) ==
  \/ e \notin raised \/ In(toUs, e)
  \/ \E r \in Readers : rd[r].msg = e /\ rd[r].pc \in {"event", "handler", "handled"}

Leaving(e) == In(queue, e) \/ wr.item = e

EventInv(e) ==
  /\ e \notin raised => ~Around(e)
  /\ Coming(e) => ~Leaving(e) /\ frees[e] = 0
  /\ Leaving(e) => frees[e] = 0

AllCalls == \A c \in Calls : CallInv(c)
AllEvents == \A e \in Events : EventInv(e)

YxtInv == YxtTypeOK /\ Shape /\ Saved /\ Single /\ AllCalls /\ AllEvents

\* A call whose block is in the transaction table and waits for its answer.
InProgress(c) ==
  /\ WantReply(c)
  /\ \/ wr.item = c /\ wr.pc \in {"send", "failed"}
     \/ c \in toEngine /\ reply[c] = Nil
\* No two calls in progress hash to one bucket (id2hash()).
NoSharing ==
  \A c, d \in Calls : InProgress(c) /\ InProgress(d) /\ id2hash(c) = id2hash(d) => c = d
\* The block of a call in progress is the head of its bucket.
AtHead == \A c \in Calls : InProgress(c) => trtab[id2hash(c)] = c
-----------------------------------------------------------------------------
(* The queue and the pipe as sequences.                                    *)

\* What queueing at the end does (enqueue_request(), the engine's writes).
LEMMA AppendFacts ==
  ASSUME NEW S, NEW q \in Seq(S), NEW x \in S
  PROVE  /\ Append(q, x) \in Seq(S) /\ Len(Append(q, x)) = Len(q) + 1
         /\ \A i : In(Append(q, x), i) => In(q, i) \/ i = x
         /\ \A i : In(q, i) => In(Append(q, x), i)
         /\ In(Append(q, x), x)
         /\ Once(q) /\ ~In(q, x) => Once(Append(q, x))
<1> DEFINE p == Append(q, x)
<1>1. p \in Seq(S) /\ Len(p) = Len(q) + 1 /\ p[Len(q) + 1] = x /\ Len(q) \in Nat
  OBVIOUS
<1>2. \A k \in 1 .. Len(q) : p[k] = q[k]
  OBVIOUS
<1>3. DOMAIN q = 1 .. Len(q) /\ DOMAIN p = 1 .. Len(q) + 1
  BY <1>1
<1> HIDE DEF p
<1>4. \A i : In(p, i) => In(q, i) \/ i = x
  BY <1>1, <1>2, <1>3 DEF In
<1>5. \A i : In(q, i) => In(p, i)
  BY <1>1, <1>2, <1>3 DEF In
<1>6. In(p, x)
  BY <1>1, <1>2, <1>3 DEF In
<1>7. Once(q) /\ ~In(q, x) => Once(p)
  BY <1>1, <1>2, <1>3 DEF In, Once
<1>8. QED
  BY <1>1, <1>4, <1>5, <1>6, <1>7 DEF p

\* What taking the first does (dequeue_one(), reader_thread()).
LEMMA TailFacts ==
  ASSUME NEW S, NEW q \in Seq(S), q # <<>>
  PROVE  /\ Head(q) \in S /\ Tail(q) \in Seq(S) /\ Len(Tail(q)) = Len(q) - 1
         /\ In(q, Head(q))
         /\ \A i : In(Tail(q), i) => In(q, i)
         /\ \A i : In(q, i) => In(Tail(q), i) \/ i = Head(q)
         /\ Once(q) => Once(Tail(q)) /\ ~In(Tail(q), Head(q))
<1> DEFINE p == Tail(q)
           h == Head(q)
<1>1. /\ p \in Seq(S) /\ Len(p) = Len(q) - 1 /\ h = q[1] /\ h \in S
      /\ Len(q) \in Nat /\ Len(q) > 0
  OBVIOUS
<1>2. \A k \in 1 .. Len(q) - 1 : p[k] = q[k + 1]
  OBVIOUS
<1>3. DOMAIN q = 1 .. Len(q) /\ DOMAIN p = 1 .. Len(q) - 1
  BY <1>1
<1> HIDE DEF p, h
<1>4. In(q, h)
  BY <1>1, <1>3 DEF In
<1>5. \A i : In(p, i) => In(q, i)
  BY <1>1, <1>2, <1>3 DEF In
<1>6. \A i : In(q, i) => In(p, i) \/ i = h
  <2> SUFFICES ASSUME NEW i, NEW k \in 1 .. Len(q), q[k] = i, i # h
               PROVE  In(p, i)
    BY <1>3 DEF In
  <2>1. k - 1 \in 1 .. Len(q) - 1 /\ p[k - 1] = q[k]
    BY <1>1, <1>2
  <2>2. QED
    BY <2>1, <1>3 DEF In
<1>7. Once(q) => Once(p)
  BY <1>1, <1>2, <1>3 DEF Once
<1>8. Once(q) => ~In(p, h)
  BY <1>1, <1>2, <1>3 DEF In, Once
<1>9. QED
  BY <1>1, <1>4, <1>5, <1>6, <1>7, <1>8 DEF p, h

\* What putting two sequences together does.
LEMMA ConcatFacts ==
  ASSUME NEW S, NEW s \in Seq(S), NEW t \in Seq(S)
  PROVE  /\ s \o t \in Seq(S) /\ Len(s \o t) = Len(s) + Len(t)
         /\ \A j \in 1 .. Len(s) : (s \o t)[j] = s[j]
         /\ \A j \in Len(s) + 1 .. Len(s) + Len(t) : (s \o t)[j] = t[j - Len(s)]
OBVIOUS

\* enqueue_reply() puts the reply somewhere in the queue and loses nothing.
LEMMA InsertFacts ==
  ASSUME queue \in Seq(Items), NEW x \in Items, enqueue_reply(x)
  PROVE  /\ queue' \in Seq(Items) /\ Len(queue') = Len(queue) + 1
         /\ \A i : In(queue', i) => In(queue, i) \/ i = x
         /\ \A i : In(queue, i) => In(queue', i)
         /\ In(queue', x)
         /\ Once(queue) /\ ~In(queue, x) => Once(queue')
<1> DEFINE n == Len(queue)
<1>0. n \in Nat /\ DOMAIN queue = 1 .. n
  OBVIOUS
<1>1. PICK k \in 0 .. n :
        /\ queue' \in Seq(Items) /\ Len(queue') = n + 1
        /\ \A j \in 1 .. k : queue'[j] = queue[j]
        /\ queue'[k + 1] = x
        /\ \A j \in k + 2 .. n + 1 : queue'[j] = queue[j - 1]
  <2>1. CASE queue = <<>> /\ queue' = <<x>>
    <3>1. n = 0 /\ queue' \in Seq(Items) /\ Len(queue') = 1 /\ queue'[1] = x
      BY <2>1
    <3>2. QED
      BY <3>1
  <2>2. CASE ~(queue = <<>> /\ queue' = <<x>>)
    <3>1. PICK k \in DOMAIN queue :
            queue' = SubSeq(queue, 1, k) \o <<x>> \o SubSeq(queue, k + 1, n)
      BY <2>2 DEF enqueue_reply
    <3>2. k \in 1 .. n /\ k \in 0 .. n
      BY <1>0, <3>1
    <3> DEFINE a == SubSeq(queue, 1, k)
               b == SubSeq(queue, k + 1, n)
    <3>3. a \in Seq(Items) /\ Len(a) = k /\ \A j \in 1 .. k : a[j] = queue[j]
      BY <3>2, <1>0
    <3>4. b \in Seq(Items) /\ Len(b) = n - k /\ \A j \in 1 .. n - k : b[j] = queue[j + k]
      BY <3>2, <1>0
    <3>5. queue' = a \o <<x>> \o b
      BY <3>1
    <3> HIDE DEF a, b
    <3> DEFINE m == a \o <<x>>
    <3>6. m \in Seq(Items) /\ Len(m) = k + 1 /\ m[k + 1] = x
          /\ \A j \in 1 .. k : m[j] = a[j]
      <4>1. <<x>> \in Seq(Items) /\ Len(<<x>>) = 1 /\ <<x>>[1] = x
        OBVIOUS
      <4>2. /\ m \in Seq(Items) /\ Len(m) = Len(a) + Len(<<x>>)
            /\ \A j \in 1 .. Len(a) : m[j] = a[j]
            /\ \A j \in Len(a) + 1 .. Len(a) + Len(<<x>>) : m[j] = <<x>>[j - Len(a)]
        BY <3>3, <4>1, ConcatFacts
      <4> HIDE DEF m
      <4>3. k + 1 \in Len(a) + 1 .. Len(a) + Len(<<x>>) /\ (k + 1) - Len(a) = 1
        BY <3>2, <3>3, <4>1
      <4>4. QED
        BY <4>1, <4>2, <4>3, <3>3
    <3>7. queue' = m \o b
      BY <3>5
    <3> HIDE DEF m, n
    <3>8. /\ queue' \in Seq(Items) /\ Len(queue') = n + 1
          /\ \A j \in 1 .. k + 1 : queue'[j] = m[j]
          /\ \A j \in k + 2 .. n + 1 : queue'[j] = b[j - k - 1]
      <4>1. /\ m \o b \in Seq(Items) /\ Len(m \o b) = Len(m) + Len(b)
            /\ \A j \in 1 .. Len(m) : (m \o b)[j] = m[j]
            /\ \A j \in Len(m) + 1 .. Len(m) + Len(b) : (m \o b)[j] = b[j - Len(m)]
        BY <3>4, <3>6, ConcatFacts
      <4> DEFINE p == m \o b
      <4>p. p = queue'
        BY <3>7
      <4> HIDE DEF p
      <4>q. /\ queue' \in Seq(Items) /\ Len(queue') = Len(m) + Len(b)
            /\ \A j \in 1 .. Len(m) : queue'[j] = m[j]
            /\ \A j \in Len(m) + 1 .. Len(m) + Len(b) : queue'[j] = b[j - Len(m)]
        BY <4>1, <4>p DEF p
      <4>0. k \in Int /\ n \in Int
        BY <3>2, <1>0
      <4>2. Len(m) + Len(b) = n + 1 /\ Len(m) = k + 1 /\ (k + 1) + 1 = k + 2
        <5>1. Len(m) = k + 1 /\ Len(b) = n - k
          BY <3>4, <3>6
        <5>2. (k + 1) + (n - k) = n + 1 /\ (k + 1) + 1 = k + 2
          BY <4>0
        <5>3. QED
          BY <5>1, <5>2
      <4>3. \A j \in k + 2 .. n + 1 : j - Len(m) = j - k - 1
        BY <4>2, <3>2, <1>0
      <4>4. QED
        <5>1. Len(queue') = n + 1 /\ \A j \in 1 .. k + 1 : queue'[j] = m[j]
          BY <4>q, <4>2
        <5>2. \A j \in k + 2 .. n + 1 : queue'[j] = b[j - Len(m)]
          BY <4>q, <4>2
        <5>3. QED
          BY <4>q, <4>3, <5>1, <5>2
    <3>9. \A j \in k + 2 .. n + 1 : queue'[j] = queue[j - 1]
      <4> SUFFICES ASSUME NEW j \in k + 2 .. n + 1 PROVE queue'[j] = queue[j - 1]
        OBVIOUS
      <4>1. j - k - 1 \in 1 .. n - k /\ (j - k - 1) + k = j - 1
        BY <3>2, <1>0
      <4>2. QED
        BY <4>1, <3>4, <3>8
    <3>10. \A j \in 1 .. k : queue'[j] = queue[j]
      BY <3>2, <3>3, <3>6, <3>8
    <3>11. queue'[k + 1] = x
      BY <3>2, <3>6, <3>8
    <3>12. QED
      BY <3>2, <3>8, <3>9, <3>10, <3>11
  <2>3. QED
    BY <2>1, <2>2
<1>2. DOMAIN queue' = 1 .. n + 1
  BY <1>1
<1> HIDE DEF n
<1>3. \A i : In(queue', i) => In(queue, i) \/ i = x
  <2> SUFFICES ASSUME NEW i, NEW j \in 1 .. n + 1, queue'[j] = i, i # x
               PROVE  In(queue, i)
    BY <1>2 DEF In
  <2>1. CASE j <= k
    BY <2>1, <1>0, <1>1 DEF In
  <2>2. CASE j > k
    <3>1. j # k + 1
      BY <1>1
    <3>2. j \in k + 2 .. n + 1 /\ j - 1 \in 1 .. n
      BY <3>1, <2>2, <1>0
    <3>3. queue[j - 1] = i
      BY <3>2, <1>1
    <3>4. QED
      BY <3>2, <3>3, <1>0 DEF In
  <2>3. QED
    BY <2>1, <2>2, <1>0
<1>4. \A i : In(queue, i) => In(queue', i)
  <2> SUFFICES ASSUME NEW i, NEW j \in 1 .. n, queue[j] = i
               PROVE  In(queue', i)
    BY <1>0 DEF In
  <2>1. CASE j <= k
    BY <2>1, <1>0, <1>1, <1>2 DEF In
  <2>2. CASE j > k
    <3>1. j + 1 \in k + 2 .. n + 1 /\ (j + 1) - 1 = j /\ j + 1 \in 1 .. n + 1
      BY <2>2, <1>0
    <3>2. queue'[j + 1] = i
      BY <3>1, <1>1
    <3>3. QED
      BY <3>1, <3>2, <1>2 DEF In
  <2>3. QED
    BY <2>1, <2>2, <1>0
<1>5. In(queue', x)
  <2>1. k + 1 \in 1 .. n + 1
    BY <1>0
  <2>2. QED
    BY <2>1, <1>1, <1>2 DEF In
<1>6. Once(queue) /\ ~In(queue, x) => Once(queue')
  <2> SUFFICES ASSUME Once(queue), ~In(queue, x), NEW i \in 1 .. n + 1, NEW j \in 1 .. n + 1,
                      queue'[i] = queue'[j]
               PROVE  i = j
    BY <1>2 DEF Once
  <2> DEFINE Old(h) == IF h <= k THEN h ELSE h - 1
  <2>1. \A h \in 1 .. n + 1 : h # k + 1 => Old(h) \in 1 .. n /\ queue'[h] = queue[Old(h)]
    <3> SUFFICES ASSUME NEW h \in 1 .. n + 1, h # k + 1
                 PROVE  Old(h) \in 1 .. n /\ queue'[h] = queue[Old(h)]
      OBVIOUS
    <3>1. CASE h <= k
      BY <3>1, <1>0, <1>1
    <3>2. CASE h > k
      <4>1. h \in k + 2 .. n + 1
        BY <3>2, <1>0
      <4>2. QED
        BY <4>1, <3>2, <1>0, <1>1
    <3>3. QED
      BY <3>1, <3>2, <1>0
  <2>2. \A h \in 1 .. n + 1 : h # k + 1 => queue'[h] # x
    BY <2>1, <1>0 DEF In
  <2>3. CASE i = k + 1 \/ j = k + 1
    BY <2>2, <2>3, <1>1
  <2>4. CASE i # k + 1 /\ j # k + 1
    <3>1. Old(i) = Old(j)
      <4>1. queue[Old(i)] = queue[Old(j)] /\ Old(i) \in 1 .. n /\ Old(j) \in 1 .. n
        BY <2>1, <2>4
      <4> HIDE DEF Old
      <4>2. QED
        BY <4>1, <1>0 DEF Once
    <3>2. QED
      BY <3>1, <2>4, <1>0
  <2>5. QED
    BY <2>3, <2>4
<1>7. QED
  BY <1>1, <1>3, <1>4, <1>5, <1>6 DEF n
-----------------------------------------------------------------------------
(* Types.                                                                  *)

\* A reader thread that moves changes what that reader carries, and nothing else.
LEMMA ReaderMoves ==
  ASSUME YxtTypeOK, NEW r \in Readers, NEW x, rd' = [rd EXCEPT ![r] = x]
  PROVE  /\ rd'[r] = x /\ \A s \in Readers : s # r => rd'[s] = rd[s]
         /\ \A i : Busy(i)' => Busy(i) \/ i = x.msg
         /\ \A i : Busy(i) => Busy(i)' \/ i = rd[r].msg
<1>1. DOMAIN rd = Readers
  BY DEF YxtTypeOK
<1>2. rd'[r] = x /\ \A s \in Readers : s # r => rd'[s] = rd[s]
  BY <1>1
<1>3. QED
  BY <1>2 DEF Busy

\* The records of the threads have the shape the type invariant asks for.
LEMMA Records ==
  /\ \A pc \in {"wait", "save", "send", "sent", "failed"}, i \in Items \cup {Nil} :
       /\ Writer(pc, i) \in [pc : {"wait", "save", "send", "sent", "failed"},
                             item : Items \cup {Nil}]
       /\ Writer(pc, i).pc = pc /\ Writer(pc, i).item = i
  /\ \A pc \in ReaderStates, m \in Items \cup {Nil}, b \in Calls \cup {Nil} :
       /\ Reader(pc, m, b) \in [pc : ReaderStates, msg : Items \cup {Nil},
                               block : Calls \cup {Nil}]
       /\ Reader(pc, m, b).pc = pc /\ Reader(pc, m, b).msg = m
       /\ Reader(pc, m, b).block = b
BY DEF Writer, Reader

\* The state in which a program starts satisfies the type invariant.
LEMMA InitType == Init => YxtTypeOK
<1> SUFFICES ASSUME Init PROVE YxtTypeOK
  OBVIOUS
<1>1. queue \in Seq(Items) /\ toUs \in Seq(Items) /\ work \in Nat
  BY DEF Init
<1>2. trtab \in [0 .. TabSize - 1 -> Calls \cup {Nil}]
  BY DEF Init
<1>3. /\ next \in [Calls -> Calls \cup {Nil}] /\ prev \in [Calls -> Calls \cup {Nil}]
      /\ reply \in [Calls -> Calls \cup {Nil}]
  BY DEF Init
<1>4. sem \in [Calls -> 0 .. 1] /\ frees \in [Items -> Nat]
  BY DEF Init
<1>5. wr \in [pc : {"wait", "save", "send", "sent", "failed"}, item : Items \cup {Nil}]
  BY Records DEF Init, WriterWaits
<1>6. rd \in [Readers -> [pc : ReaderStates, msg : Items \cup {Nil}, block : Calls \cup {Nil}]]
  BY DEF Init, ReaderIdle, Reader, ReaderStates
<1>7. hmx \in Readers \cup {Nil} /\ lmx \in [Lines -> Calls \cup {Nil}]
  BY DEF Init
<1>8. call \in [Calls -> CallStates]
  BY DEF Init, CallStates
<1>9. toEngine \subseteq Items /\ answered \subseteq Calls /\ raised \subseteq Events
  BY DEF Init
<1>10. QED
  BY <1>1, <1>2, <1>3, <1>4, <1>5, <1>6, <1>7, <1>8, <1>9 DEF YxtTypeOK

\* Ending a transaction keeps the table in its type.
LEMMA EndType ==
  ASSUME YxtTypeOK, NEW c \in Calls, sem[c] = 0, end_transaction(c)
  PROVE  /\ trtab' \in [0 .. TabSize - 1 -> Calls \cup {Nil}]
         /\ next' \in [Calls -> Calls \cup {Nil}] /\ prev' \in [Calls -> Calls \cup {Nil}]
         /\ sem' \in [Calls -> 0 .. 1]
<1>1. next[c] \in Calls \cup {Nil} /\ prev[c] \in Calls \cup {Nil}
  BY DEF YxtTypeOK
<1>2. trtab' \in [0 .. TabSize - 1 -> Calls \cup {Nil}]
  BY <1>1 DEF YxtTypeOK, end_transaction
<1>3. next' \in [Calls -> Calls \cup {Nil}]
  BY <1>1 DEF YxtTypeOK, end_transaction
<1>4. prev' \in [Calls -> Calls \cup {Nil}]
  BY <1>1 DEF YxtTypeOK, end_transaction
<1>5. sem' \in [Calls -> 0 .. 1]
  BY DEF YxtTypeOK, end_transaction
<1>6. QED
  BY <1>2, <1>3, <1>4, <1>5

\* Every step of a caller keeps the type.
LEMMA CallType ==
  ASSUME YxtInv, NEW c \in Calls, CallStep(c)
  PROVE  YxtTypeOK'
<1> USE DEF YxtInv
<1>1. CASE LockLine(c)
  BY <1>1 DEF YxtTypeOK, LockLine, CallStates, tabVars, blockVars, pipeVars
<1>2. CASE EnqueueCall(c)
  <2>1. queue' \in Seq(Items)
    BY <1>2, AppendFacts DEF YxtTypeOK, EnqueueCall, enqueue_request, Items
  <2>2. call' \in [Calls -> CallStates]
    BY <1>2 DEF YxtTypeOK, EnqueueCall, CallStates
  <2>3. QED
    BY <1>2, <2>1, <2>2 DEF YxtTypeOK, EnqueueCall, tabVars, blockVars, pipeVars
<1>3. CASE PostWork(c)
  <2>1. call' \in [Calls -> CallStates] /\ lmx' \in [Lines -> Calls \cup {Nil}]
    BY <1>3 DEF YxtTypeOK, PostWork, CallStates
  <2>2. work' \in Nat
    BY <1>3 DEF YxtTypeOK, PostWork
  <2>3. QED
    BY <1>3, <2>1, <2>2 DEF YxtTypeOK, PostWork, tabVars, blockVars, pipeVars
<1>4. CASE ReturnCall(c)
  <2>1. sem[c] > 0 /\ call[c] = "waiting"
    BY <1>4 DEF ReturnCall
  <2>2. frees[c] = 0 /\ c \in Items
    BY <2>1 DEF AllCalls, CallInv, YxtTypeOK, Items
  <2>3. sem' \in [Calls -> 0 .. 1]
    BY <1>4, <2>1 DEF YxtTypeOK, ReturnCall
  <2>4. frees' \in [Items -> Nat]
    BY <1>4, <2>2 DEF YxtTypeOK, ReturnCall
  <2>5. call' \in [Calls -> CallStates] /\ lmx' \in [Lines -> Calls \cup {Nil}]
    BY <1>4 DEF YxtTypeOK, ReturnCall, CallStates
  <2>6. QED
    BY <1>4, <2>3, <2>4, <2>5 DEF YxtTypeOK, ReturnCall, tabVars, pipeVars
<1>5. QED
  BY <1>1, <1>2, <1>3, <1>4 DEF CallStep

\* Every step of the writer keeps the type.
LEMMA WriterType ==
  ASSUME YxtInv, WriterStep
  PROVE  YxtTypeOK'
<1> USE DEF YxtInv
<1> DEFINE W == [pc : {"wait", "save", "send", "sent", "failed"}, item : Items \cup {Nil}]
<1>0. wr \in W /\ wr.item \in Items \cup {Nil}
  BY DEF YxtTypeOK
<1>1. CASE WriterDequeues
  <2>1. work' \in Nat
    BY <1>1 DEF YxtTypeOK, WriterDequeues
  <2>2. queue' \in Seq(Items) /\ wr' \in W
    <3>1. CASE queue = <<>>
      BY <3>1, <1>1 DEF YxtTypeOK, WriterDequeues
    <3>2. CASE queue # <<>>
      <4>1. Head(queue) \in Items /\ Tail(queue) \in Seq(Items)
        BY <3>2, TailFacts DEF YxtTypeOK
      <4>2. Writer("save", Head(queue)) \in W
        BY <4>1, Records
      <4>3. QED
        BY <4>1, <4>2, <3>2, <1>1 DEF WriterDequeues
    <3>3. QED
      BY <3>1, <3>2
  <2>3. QED
    BY <2>1, <2>2, <1>1 DEF YxtTypeOK, WriterDequeues, tabVars, blockVars, pipeVars
<1>2. CASE WriterSaves
  <2>1. wr' \in W
    BY <1>0, <1>2, Records DEF WriterSaves
  <2>2. /\ trtab' \in [0 .. TabSize - 1 -> Calls \cup {Nil}]
        /\ next' \in [Calls -> Calls \cup {Nil}] /\ prev' \in [Calls -> Calls \cup {Nil}]
    <3>1. CASE WantReply(wr.item)
      <4>1. wr.item \in Calls /\ id2hash(wr.item) \in 0 .. TabSize - 1
        BY <3>1, ShapeAssumption DEF WantReply, id2hash
      <4>2. save_transaction(wr.item)
        BY <3>1, <1>2 DEF WriterSaves
      <4>3. trtab[id2hash(wr.item)] \in Calls \cup {Nil}
        BY <4>1 DEF YxtTypeOK
      <4>4. trtab' \in [0 .. TabSize - 1 -> Calls \cup {Nil}]
        BY <4>1, <4>2 DEF YxtTypeOK, save_transaction
      <4>5. next' \in [Calls -> Calls \cup {Nil}] /\ prev' \in [Calls -> Calls \cup {Nil}]
        BY <4>1, <4>2, <4>3 DEF YxtTypeOK, save_transaction
      <4>6. QED
        BY <4>4, <4>5
    <3>2. CASE ~WantReply(wr.item)
      BY <3>2, <1>2 DEF YxtTypeOK, WriterSaves, tabVars
    <3>3. QED
      BY <3>1, <3>2
  <2>3. QED
    BY <2>1, <2>2, <1>2 DEF YxtTypeOK, WriterSaves, blockVars, pipeVars
<1>3. CASE WriterSends
  <2>1. wr.item \in Items
    BY <1>3, <1>0 DEF WriterSends, Shape
  <2>2. wr' \in W
    BY <1>0, <1>3, Records DEF WriterSends
  <2>3. toEngine' \subseteq Items
    BY <1>3, <2>1 DEF YxtTypeOK, WriterSends
  <2>4. QED
    BY <1>3, <2>2, <2>3 DEF YxtTypeOK, WriterSends, tabVars, blockVars
<1>4. CASE WriterFinishes
  <2>1. wr.item \in Items /\ (WantReply(wr.item) => wr.item \in Calls)
    BY <1>4, <1>0 DEF WriterFinishes, Shape, WantReply
  <2>2. wr' \in W
    BY <1>4, Records DEF WriterFinishes, WriterWaits
  <2>4. frees' \in [Items -> Nat]
    <3>1. frees' = frees \/ frees' = [frees EXCEPT ![wr.item] = @ + 1]
      BY <1>4 DEF WriterFinishes
    <3>2. frees[wr.item] + 1 \in Nat
      BY <2>1 DEF YxtTypeOK
    <3>3. QED
      BY <2>1, <3>1, <3>2 DEF YxtTypeOK
  <2>5. /\ trtab' \in [0 .. TabSize - 1 -> Calls \cup {Nil}]
        /\ next' \in [Calls -> Calls \cup {Nil}] /\ prev' \in [Calls -> Calls \cup {Nil}]
        /\ sem' \in [Calls -> 0 .. 1]
    <3>1. CASE WantReply(wr.item) /\ wr.pc = "failed" /\ end_transaction(wr.item)
      <4>1. sem[wr.item] = 0
        BY <3>1, <2>1 DEF AllCalls, CallInv, Early, Fresh
      <4>2. QED
        BY <4>1, <3>1, <2>1, EndType
    <3>2. CASE UNCHANGED <<tabVars, sem>>
      BY <3>2 DEF YxtTypeOK, tabVars
    <3>3. QED
      BY <3>1, <3>2, <1>4 DEF WriterFinishes
  <2>6. QED
    BY <1>4, <2>2, <2>4, <2>5 DEF YxtTypeOK, WriterFinishes, pipeVars
<1>5. QED
  BY <1>1, <1>2, <1>3, <1>4 DEF WriterStep

\* Every step of a reader keeps the type.
LEMMA ReaderType ==
  ASSUME YxtInv, NEW r \in Readers, ReaderStep(r)
  PROVE  YxtTypeOK'
<1> USE DEF YxtInv
<1> DEFINE R == [pc : ReaderStates, msg : Items \cup {Nil}, block : Calls \cup {Nil}]
<1>0. rd \in [Readers -> R] /\ rd[r] \in R /\ rd[r].msg \in Items \cup {Nil}
  BY DEF YxtTypeOK
<1>i. ReaderIdle \in R
  BY Records DEF ReaderIdle, ReaderStates
<1>m. \A x \in R : rd' = [rd EXCEPT ![r] = x] => rd' \in [Readers -> R]
  BY <1>0
<1>a. \A pc \in ReaderStates : At(r, pc) => rd' \in [Readers -> R]
  <2> SUFFICES ASSUME NEW pc \in ReaderStates, At(r, pc) PROVE rd' \in [Readers -> R]
    OBVIOUS
  <2>1. Reader(pc, rd[r].msg, Nil) \in R
    BY <1>0, Records
  <2>2. QED
    BY <2>1, <1>m DEF At
<1>1. CASE ReadLine(r)
  <2>1. Head(toUs) \in Items /\ Tail(toUs) \in Seq(Items)
    BY <1>1, TailFacts DEF ReadLine, YxtTypeOK
  <2>2. Reader(IF Head(toUs) \in Events THEN "event" ELSE "answer", Head(toUs), Nil) \in R
    BY <2>1, Records DEF ReaderStates
  <2>3. rd' \in [Readers -> R]
    BY <2>2, <1>1, <1>m DEF ReadLine
  <2>4. QED
    BY <2>1, <2>3, <1>1 DEF YxtTypeOK, ReadLine, tabVars, blockVars
<1>2. CASE find_transaction(r)
  <2> DEFINE found == {c \in Chain(id2hash(rd[r].msg)) : c = rd[r].msg}
             x == IF found = {} THEN ReaderIdle
                  ELSE Reader("found", rd[r].msg, CHOOSE c \in found : TRUE)
  <2>1. found \subseteq Calls
    BY DEF Chain
  <2>2. x \in R
    <3>1. CASE found = {}
      BY <3>1, <1>i
    <3>2. CASE found # {}
      <4>1. (CHOOSE c \in found : TRUE) \in Calls \cup {Nil}
        BY <3>2, <2>1
      <4> HIDE DEF found
      <4>2. Reader("found", rd[r].msg, CHOOSE c \in found : TRUE) \in R
        BY <4>1, <1>0, Records DEF ReaderStates
      <4>3. QED
        BY <4>2, <3>2
    <3>3. QED
      BY <3>1, <3>2
  <2>3. rd' = [rd EXCEPT ![r] = x]
    BY <1>2 DEF find_transaction
  <2> HIDE DEF x
  <2>4. rd' \in [Readers -> R]
    BY <2>2, <2>3, <1>m
  <2>5. QED
    BY <2>4, <1>2 DEF YxtTypeOK, find_transaction, tabVars, blockVars, pipeVars
<1>3. CASE StoreReply(r)
  <2>1. rd[r].block \in Calls /\ rd[r].msg = rd[r].block /\ WantReply(rd[r].msg)
    BY <1>3 DEF StoreReply, Shape, Fits
  <2>2. Late(rd[r].msg)
    BY <2>1 DEF AllCalls, CallInv, Late, Around, Busy
  <2>3. sem[rd[r].block] = 0
    BY <2>1, <2>2 DEF AllCalls, CallInv, Fresh
  <2>4. /\ trtab' \in [0 .. TabSize - 1 -> Calls \cup {Nil}]
        /\ next' \in [Calls -> Calls \cup {Nil}] /\ prev' \in [Calls -> Calls \cup {Nil}]
        /\ sem' \in [Calls -> 0 .. 1]
    BY <2>1, <2>3, <1>3, EndType DEF StoreReply
  <2>5. reply' \in [Calls -> Calls \cup {Nil}]
    BY <2>1, <1>3 DEF StoreReply, YxtTypeOK
  <2>6. rd' \in [Readers -> R]
    BY <1>i, <1>m, <1>3 DEF StoreReply
  <2>7. QED
    BY <2>4, <2>5, <2>6, <1>3 DEF YxtTypeOK, StoreReply, pipeVars
<1>4. CASE LockHandlers(r) \/ RunHandler(r)
  <2>1. rd' \in [Readers -> R]
    BY <1>4, <1>a DEF LockHandlers, RunHandler, ReaderStates
  <2>2. hmx' \in Readers \cup {Nil}
    BY <1>4 DEF LockHandlers, RunHandler
  <2>3. QED
    BY <2>1, <2>2, <1>4 DEF YxtTypeOK, LockHandlers, RunHandler, tabVars, blockVars, pipeVars
<1>5. CASE QueueReply(r)
  <2>1. rd[r].msg \in Items
    BY <1>5 DEF QueueReply, Shape, Fits, Items
  <2>2. queue' \in Seq(Items)
    BY <2>1, <1>5, InsertFacts DEF QueueReply, YxtTypeOK
  <2>3. rd' \in [Readers -> R]
    BY <1>5, <1>a DEF QueueReply, ReaderStates
  <2>4. QED
    BY <2>2, <2>3, <1>5 DEF YxtTypeOK, QueueReply, tabVars, blockVars, pipeVars
<1>6. CASE PostReply(r)
  <2>1. Reader("hook", rd[r].msg, Nil) \in R
    BY <1>0, Records DEF ReaderStates
  <2>2. rd' \in [Readers -> R]
    BY <2>1, <1>6, <1>i, <1>m DEF PostReply
  <2>3. work' \in Nat
    BY <1>6 DEF PostReply, YxtTypeOK
  <2>4. QED
    BY <2>2, <2>3, <1>6 DEF YxtTypeOK, PostReply, tabVars, blockVars, pipeVars
<1>7. CASE HookReturns(r)
  <2>1. rd' \in [Readers -> R]
    BY <1>7, <1>i, <1>m DEF HookReturns
  <2>2. QED
    BY <2>1, <1>7 DEF YxtTypeOK, HookReturns, tabVars, blockVars, pipeVars
<1>8. QED
  BY <1>1, <1>2, <1>3, <1>4, <1>5, <1>6, <1>7 DEF ReaderStep

\* Every step of the engine keeps the type.
LEMMA EngineType ==
  ASSUME YxtInv, \/ \E c \in Calls : EngineAnswers(c)
                 \/ \E e \in Events : EngineRaises(e)
  PROVE  YxtTypeOK'
<1> USE DEF YxtInv
<1>1. ASSUME NEW c \in Calls, EngineAnswers(c) PROVE YxtTypeOK'
  <2>1. toUs' \in Seq(Items)
    BY <1>1, AppendFacts DEF EngineAnswers, YxtTypeOK, Items
  <2>2. answered' \subseteq Calls
    BY <1>1 DEF EngineAnswers, YxtTypeOK
  <2>3. QED
    BY <1>1, <2>1, <2>2 DEF YxtTypeOK, EngineAnswers, tabVars, blockVars
<1>2. ASSUME NEW e \in Events, EngineRaises(e) PROVE YxtTypeOK'
  <2>1. toUs' \in Seq(Items)
    BY <1>2, AppendFacts DEF EngineRaises, YxtTypeOK, Items
  <2>2. raised' \subseteq Events
    BY <1>2 DEF EngineRaises, YxtTypeOK
  <2>3. QED
    BY <1>2, <2>1, <2>2 DEF YxtTypeOK, EngineRaises, tabVars, blockVars
<1>3. QED
  BY <1>1, <1>2
-----------------------------------------------------------------------------
(* What threads carry, what the table holds, and that a block is in one    *)
(* place.                                                                  *)

\* find_transaction() finds only calls that wait for a reply.
LEMMA ChainIsSaved ==
  ASSUME YxtTypeOK, Saved, NEW b \in 0 .. TabSize - 1
  PROVE  \A c \in Chain(b) : WantReply(c)
<1> SUFFICES ASSUME NEW c \in Chain(b) PROVE WantReply(c)
  OBVIOUS
<1> DEFINE S == Calls \ Casts
<1>1. S \in SUBSET Calls
  OBVIOUS
<1>2. trtab[b] \in S \cup {Nil} /\ \A d \in S : next[d] \in S \cup {Nil}
  BY DEF Saved, WantReply
<1> HIDE DEF S
<1>3. c \in S
  BY <1>1, <1>2 DEF Chain
<1>4. QED
  BY <1>3 DEF S, WantReply

\* A reader's new record fits when its parts do.
LEMMA ReaderFits ==
  ASSUME YxtTypeOK, Shape, NEW r \in Readers, NEW x, rd' = [rd EXCEPT ![r] = x], Fits(x)
  PROVE  \A s \in Readers : Fits(rd'[s])
<1>1. rd'[r] = x /\ \A s \in Readers : s # r => rd'[s] = rd[s]
  BY ReaderMoves
<1>2. QED
  BY <1>1 DEF Shape

\* What find_transaction() leaves with the reader: nothing, or the call itself.
LEMMA FindFacts ==
  ASSUME YxtInv, NEW r \in Readers, find_transaction(r)
  PROVE  /\ rd[r].msg \in Calls
         /\ \/ rd' = [rd EXCEPT ![r] = ReaderIdle]
            \/ /\ WantReply(rd[r].msg)
               /\ rd' = [rd EXCEPT ![r] = Reader("found", rd[r].msg, rd[r].msg)]
<1> USE DEF YxtInv
<1> DEFINE m == rd[r].msg
           found == {c \in Chain(id2hash(m)) : c = m}
<1>1. m \in Calls
  BY DEF find_transaction, Shape, Fits
<1>2. id2hash(m) \in 0 .. TabSize - 1
  BY <1>1, ShapeAssumption DEF id2hash
<1>3. rd' = [rd EXCEPT ![r] = IF found = {} THEN ReaderIdle
                              ELSE Reader("found", m, CHOOSE c \in found : TRUE)]
  BY DEF find_transaction
<1>4. CASE found = {}
  BY <1>1, <1>3, <1>4
<1>5. CASE found # {}
  <2>1. m \in Chain(id2hash(m))
    BY <1>5
  <2>2. WantReply(m)
    BY <2>1, <1>2, ChainIsSaved
  <2>3. found = {m}
    BY <2>1
  <2>4. (CHOOSE c \in found : TRUE) = m
    BY <2>3
  <2> HIDE DEF found
  <2>5. QED
    BY <1>1, <1>3, <1>5, <2>2, <2>4
<1>6. QED
  BY <1>4, <1>5

\* Every step leaves the threads with something that fits.
LEMMA ShapeStep ==
  ASSUME YxtInv, Next
  PROVE  Shape'
<1> USE DEF YxtInv
<1>1. CASE UNCHANGED <<wr, rd>>
  BY <1>1 DEF Shape
<1>2. ASSUME WriterStep PROVE Shape'
  <2>0. wr.item \in Items \cup {Nil}
    BY DEF YxtTypeOK
  <2>1. UNCHANGED rd
    BY <1>2 DEF WriterStep, WriterDequeues, WriterSaves, WriterSends, WriterFinishes
  <2>2. (wr'.pc = "wait" => wr'.item = Nil) /\ (wr'.pc # "wait" => wr'.item \in Items)
    <3>1. CASE WriterDequeues
      <4>1. queue # <<>> => Head(queue) \in Items
        BY TailFacts DEF YxtTypeOK
      <4>2. QED
        BY <3>1, <4>1, Records DEF WriterDequeues, Shape
    <3>2. CASE WriterSaves \/ WriterSends
      <4>1. wr.item \in Items
        BY <3>2 DEF WriterSaves, WriterSends, Shape
      <4>2. QED
        BY <3>2, <4>1, Records DEF WriterSaves, WriterSends
    <3>3. CASE WriterFinishes
      BY <3>3, Records DEF WriterFinishes, WriterWaits
    <3>4. QED
      BY <1>2, <3>1, <3>2, <3>3 DEF WriterStep
  <2>3. QED
    BY <2>1, <2>2 DEF Shape
<1>3. ASSUME NEW r \in Readers, ReaderStep(r) PROVE Shape'
  <2>0. rd[r].msg \in Items \cup {Nil} /\ Fits(rd[r])
    BY DEF YxtTypeOK, Shape
  <2>1. UNCHANGED wr
    BY <1>3 DEF ReaderStep, ReadLine, find_transaction, StoreReply, LockHandlers,
                RunHandler, QueueReply, PostReply, HookReturns
  <2>2. Fits(ReaderIdle)
    BY Records DEF Fits, ReaderIdle, ReaderStates
  <2>3. \A s \in Readers : Fits(rd'[s])
    <3>1. CASE ReadLine(r)
      <4>1. Head(toUs) \in Items
        BY <3>1, TailFacts DEF ReadLine, YxtTypeOK
      <4> DEFINE pc == IF Head(toUs) \in Events THEN "event" ELSE "answer"
                 x == Reader(pc, Head(toUs), Nil)
      <4>2. x.pc = pc /\ x.msg = Head(toUs)
        BY <4>1, Records DEF ReaderStates
      <4>3. rd' = [rd EXCEPT ![r] = x]
        BY <3>1 DEF ReadLine
      <4> HIDE DEF x
      <4>4. Fits(x)
        BY <4>1, <4>2 DEF Fits, Items
      <4>5. QED
        BY <4>3, <4>4, ReaderFits
    <3>2. CASE find_transaction(r)
      <4>1. CASE rd' = [rd EXCEPT ![r] = ReaderIdle]
        BY <4>1, <2>2, ReaderFits
      <4>2. CASE /\ WantReply(rd[r].msg)
                 /\ rd' = [rd EXCEPT ![r] = Reader("found", rd[r].msg, rd[r].msg)]
        <5> DEFINE x == Reader("found", rd[r].msg, rd[r].msg)
        <5>1. rd[r].msg \in Calls
          BY <3>2, FindFacts
        <5>2. x.pc = "found" /\ x.msg = rd[r].msg /\ x.block = rd[r].msg
          BY <5>1, <2>0, Records DEF ReaderStates
        <5> HIDE DEF x
        <5>3. Fits(x)
          BY <5>1, <5>2, <4>2 DEF Fits
        <5>4. QED
          BY <4>2, <5>3, ReaderFits DEF x
      <4>3. QED
        BY <3>2, <4>1, <4>2, FindFacts
    <3>3. CASE StoreReply(r) \/ HookReturns(r)
      BY <3>3, <2>2, ReaderFits DEF StoreReply, HookReturns
    <3>4. ASSUME NEW pc \in {"handler", "handled", "queued", "hook"},
                 rd[r].pc \in {"event", "handler", "handled", "queued"},
                 rd' = [rd EXCEPT ![r] = Reader(pc, rd[r].msg, Nil)]
          PROVE  \A s \in Readers : Fits(rd'[s])
      <4> DEFINE x == Reader(pc, rd[r].msg, Nil)
      <4>1. rd[r].msg \in Events
        BY <3>4, <2>0 DEF Fits
      <4>2. x.pc = pc /\ x.msg = rd[r].msg
        BY <2>0, Records DEF ReaderStates
      <4> HIDE DEF x
      <4>3. Fits(x)
        BY <4>1, <4>2 DEF Fits
      <4>4. QED
        BY <3>4, <4>3, ReaderFits DEF x
    <3>5. CASE LockHandlers(r) \/ RunHandler(r) \/ QueueReply(r)
      BY <3>4, <3>5 DEF LockHandlers, RunHandler, QueueReply, At
    <3>6. CASE PostReply(r)
      BY <3>4, <3>6, <2>2, ReaderFits DEF PostReply
    <3>7. QED
      BY <1>3, <3>1, <3>2, <3>3, <3>5, <3>6 DEF ReaderStep
  <2>4. QED
    BY <2>1, <2>3 DEF Shape
<1>4. ASSUME NEW c \in Calls, CallStep(c) \/ EngineAnswers(c) PROVE UNCHANGED <<wr, rd>>
  BY <1>4 DEF CallStep, LockLine, EnqueueCall, PostWork, ReturnCall, EngineAnswers
<1>5. ASSUME NEW e \in Events, EngineRaises(e) PROVE UNCHANGED <<wr, rd>>
  BY <1>5 DEF EngineRaises
<1>6. Finished => UNCHANGED <<wr, rd>>
  BY DEF Finished, vars
<1>7. QED
  BY <1>1, <1>2, <1>3, <1>4, <1>5, <1>6 DEF Next

\* Every step leaves only calls that want a reply in the transaction table.
LEMMA SavedStep ==
  ASSUME YxtInv, Next
  PROVE  Saved'
<1> USE DEF YxtInv
<1>1. CASE UNCHANGED tabVars
  BY <1>1 DEF Saved, tabVars
<1>2. ASSUME NEW c \in Calls, WantReply(c), end_transaction(c) PROVE Saved'
  <2>1. id2hash(c) \in 0 .. TabSize - 1
    BY ShapeAssumption DEF id2hash
  <2>2. \A b \in 0 .. TabSize - 1 : trtab'[b] = trtab[b] \/ trtab'[b] = next[c]
    BY <1>2, <2>1 DEF end_transaction, YxtTypeOK
  <2>3. \A d \in Calls : next'[d] \in {Nil, next[c], next[d]}
    BY <1>2 DEF end_transaction
  <2>4. QED
    BY <2>2, <2>3 DEF Saved
<1>3. ASSUME WriterSaves, WantReply(wr.item) PROVE Saved'
  <2>1. save_transaction(wr.item) /\ wr.item \in Calls
    BY <1>3 DEF WriterSaves, WantReply
  <2>2. id2hash(wr.item) \in 0 .. TabSize - 1
    BY <2>1, ShapeAssumption DEF id2hash
  <2>3. \A b \in 0 .. TabSize - 1 : trtab'[b] = trtab[b] \/ trtab'[b] = wr.item
    BY <2>1, <2>2 DEF save_transaction, YxtTypeOK
  <2>4. \A d \in Calls : next'[d] \in {next[d], trtab[id2hash(wr.item)]}
    BY <2>1 DEF save_transaction, YxtTypeOK
  <2>5. QED
    BY <2>2, <2>3, <2>4, <1>3 DEF Saved
<1>4. WriterStep => Saved'
  <2>1. WriterFinishes => Saved'
    <3>1. ASSUME WriterFinishes, WantReply(wr.item), end_transaction(wr.item) PROVE Saved'
      BY <3>1, <1>2 DEF WantReply
    <3>2. QED
      BY <1>1, <3>1 DEF WriterFinishes
  <2>2. QED
    BY <1>1, <1>3, <2>1 DEF WriterStep, WriterSaves, WriterDequeues, WriterSends
<1>5. ASSUME NEW r \in Readers, ReaderStep(r) PROVE Saved'
  <2>1. CASE StoreReply(r)
    <3>1. rd[r].block \in Calls /\ WantReply(rd[r].block) /\ end_transaction(rd[r].block)
      BY <2>1 DEF StoreReply, Shape, Fits
    <3>2. QED
      BY <3>1, <1>2
  <2>2. CASE ~StoreReply(r)
    <3>1. UNCHANGED tabVars
      BY <2>2, <1>5 DEF ReaderStep, ReadLine, find_transaction, LockHandlers, RunHandler,
                        QueueReply, PostReply, HookReturns
    <3>2. QED
      BY <3>1, <1>1
  <2>3. QED
    BY <2>1, <2>2
<1>6. ASSUME NEW c \in Calls, CallStep(c) \/ EngineAnswers(c) PROVE UNCHANGED tabVars
  BY <1>6 DEF CallStep, LockLine, EnqueueCall, PostWork, ReturnCall, EngineAnswers
<1>7. ASSUME NEW e \in Events, EngineRaises(e) PROVE UNCHANGED tabVars
  BY <1>7 DEF EngineRaises
<1>8. Finished => UNCHANGED tabVars
  BY DEF Finished, vars
<1>9. QED
  BY <1>1, <1>4, <1>5, <1>6, <1>7, <1>8 DEF Next

\* A reader that keeps its line, or drops it, adds no second copy of a line.
LEMMA ReaderKeeps ==
  ASSUME YxtInv, NEW r \in Readers, NEW x, rd' = [rd EXCEPT ![r] = x],
         x.msg \in {rd[r].msg, Nil}
  PROVE  /\ \A i \in Items : Busy(i)' => Busy(i)
         /\ \A p, q \in Readers : rd'[p].msg = rd'[q].msg /\ rd'[p].msg # Nil => p = q
<1>1. rd'[r] = x /\ \A s \in Readers : s # r => rd'[s] = rd[s]
  BY ReaderMoves DEF YxtInv
<1>2. \A i \in Items : Nil # i
  BY CallsAssumption DEF Items
<1>3. \A i \in Items : Busy(i)' => Busy(i)
  BY <1>1, <1>2 DEF Busy
<1>4. \A p \in Readers : rd'[p].msg = rd[p].msg \/ rd'[p].msg = Nil
  BY <1>1
<1>5. QED
  BY <1>3, <1>4 DEF YxtInv, Single

\* A step of a reader reads a line, or keeps or drops the one it has; only
\* QueueReply touches the queue.
LEMMA ReaderEffect ==
  ASSUME YxtInv, NEW r \in Readers, ReaderStep(r)
  PROVE  \/ ReadLine(r)
         \/ /\ UNCHANGED toUs
            /\ \E x : rd' = [rd EXCEPT ![r] = x] /\ x.msg \in {rd[r].msg, Nil}
<1> USE DEF YxtInv
<1>0. rd[r].msg \in Items \cup {Nil} /\ rd[r].msg \in Items \cup {Nil}
  BY DEF YxtTypeOK
<1>1. ReaderIdle.msg = Nil
  BY Records DEF ReaderIdle, ReaderStates
<1>2. \A pc \in ReaderStates : Reader(pc, rd[r].msg, Nil).msg = rd[r].msg
  BY <1>0, Records
<1>3. CASE ReadLine(r)
  BY <1>3
<1>4. CASE find_transaction(r)
  <2>1. rd[r].msg \in Calls
    BY <1>4, FindFacts
  <2>2. Reader("found", rd[r].msg, rd[r].msg).msg = rd[r].msg
    BY <2>1, <1>0, Records DEF ReaderStates
  <2>3. \E x : rd' = [rd EXCEPT ![r] = x] /\ x.msg \in {rd[r].msg, Nil}
    <3>1. CASE rd' = [rd EXCEPT ![r] = ReaderIdle]
      BY <3>1, <1>1
    <3>2. CASE rd' = [rd EXCEPT ![r] = Reader("found", rd[r].msg, rd[r].msg)]
      BY <3>2, <2>2
    <3>3. QED
      BY <1>4, <3>1, <3>2, FindFacts
  <2>4. QED
    BY <2>3, <1>4 DEF find_transaction, pipeVars
<1>5. CASE StoreReply(r) \/ HookReturns(r)
  BY <1>1, <1>5 DEF StoreReply, HookReturns, pipeVars
<1>6. CASE LockHandlers(r) \/ RunHandler(r) \/ QueueReply(r)
  BY <1>2, <1>6 DEF LockHandlers, RunHandler, QueueReply, At, pipeVars, ReaderStates
<1>7. CASE PostReply(r)
  BY <1>1, <1>2, <1>7 DEF PostReply, pipeVars, ReaderStates
<1>8. QED
  BY <1>3, <1>4, <1>5, <1>6, <1>7 DEF ReaderStep

\* Reading a line moves it from the pipe to the reader.
LEMMA ReadFacts ==
  ASSUME YxtInv, NEW r \in Readers, ReadLine(r)
  PROVE  /\ Head(toUs) \in Items /\ In(toUs, Head(toUs)) /\ rd[r].msg = Nil
         /\ rd'[r].msg = Head(toUs)
         /\ rd'[r].pc = IF Head(toUs) \in Events THEN "event" ELSE "answer"
         /\ \A s \in Readers : s # r => rd'[s] = rd[s]
         /\ \A i : Busy(i)' => Busy(i) \/ i = Head(toUs)
         /\ \A i : In(toUs', i) => In(toUs, i)
         /\ Once(toUs') /\ ~In(toUs', Head(toUs))
         /\ \A i : Around(i)' => Around(i)
<1> USE DEF YxtInv
<1>1. /\ Head(toUs) \in Items /\ In(toUs, Head(toUs))
      /\ \A i : In(toUs', i) => In(toUs, i)
      /\ Once(toUs') /\ ~In(toUs', Head(toUs))
  BY TailFacts DEF ReadLine, YxtTypeOK, Single
<1> DEFINE pc == IF Head(toUs) \in Events THEN "event" ELSE "answer"
           x == Reader(pc, Head(toUs), Nil)
<1>2. x.pc = pc /\ x.msg = Head(toUs)
  BY <1>1, Records DEF ReaderStates
<1>3. rd' = [rd EXCEPT ![r] = x]
  BY DEF ReadLine
<1> HIDE DEF x
<1>4. /\ rd'[r] = x /\ \A s \in Readers : s # r => rd'[s] = rd[s]
      /\ \A i : Busy(i)' => Busy(i) \/ i = x.msg
  BY <1>3, ReaderMoves
<1>5. rd[r].msg = Nil
  BY DEF ReadLine, Shape, Fits
<1>6. \A i : Busy(i)' => Busy(i) \/ i = Head(toUs)
  BY <1>2, <1>4
<1>7. \A i : Around(i)' => Around(i)
  BY <1>1, <1>6 DEF Around
<1>8. QED
  BY <1>1, <1>2, <1>4, <1>5, <1>6, <1>7

\* Every step leaves each block and each line of the pipe in one place.
LEMMA SingleStep ==
  ASSUME YxtInv, Next
  PROVE  Single'
<1> USE DEF YxtInv
<1> DEFINE Queue1 == Once(queue) /\ \A i \in Items : In(queue, i) => wr.item # i
           Pipe1 == /\ Once(toUs) /\ \A i \in Items : In(toUs, i) => ~Busy(i)
                    /\ \A r, s \in Readers :
                         rd[r].msg = rd[s].msg /\ rd[r].msg # Nil => r = s
<1>0. Queue1 /\ Pipe1 /\ (Queue1' /\ Pipe1' => Single')
  BY DEF Single
<1>n. Nil \notin Items
  BY CallsAssumption DEF Items
<1>q. UNCHANGED <<queue, wr>> => Queue1'
  BY <1>0
<1>p. UNCHANGED <<toUs, rd>> => Pipe1'
  BY <1>0 DEF Busy
<1>1. ASSUME NEW c \in Calls, CallStep(c) PROVE Queue1' /\ Pipe1'
  <2>1. UNCHANGED <<toUs, rd>>
    BY <1>1 DEF CallStep, LockLine, EnqueueCall, PostWork, ReturnCall, pipeVars
  <2>2. CASE ~EnqueueCall(c)
    <3>1. UNCHANGED <<queue, wr>>
      BY <1>1, <2>2 DEF CallStep, LockLine, PostWork, ReturnCall
    <3>2. QED
      BY <2>1, <3>1, <1>q, <1>p
  <2>3. CASE EnqueueCall(c)
    <3>1. ~Early(c) /\ c \notin toEngine /\ CallInv(c)
      BY <2>3 DEF EnqueueCall, AllCalls, CallInv
    <3>2. ~In(queue, c) /\ wr.item # c
      BY <3>1 DEF Early, CallInv
    <3>3. queue' = Append(queue, c) /\ wr' = wr /\ c \in Items
      BY <2>3 DEF EnqueueCall, enqueue_request, Items
    <3>4. Once(queue') /\ \A i : In(queue', i) => In(queue, i) \/ i = c
      BY <3>2, <3>3, AppendFacts DEF Single, YxtTypeOK
    <3>5. Queue1'
      BY <3>2, <3>3, <3>4, <1>0
    <3>6. QED
      BY <3>5, <2>1, <1>p
  <2>4. QED
    BY <2>2, <2>3
<1>2. ASSUME WriterStep PROVE Queue1' /\ Pipe1'
  <2>1. UNCHANGED <<toUs, rd>>
    BY <1>2 DEF WriterStep, WriterDequeues, WriterSaves, WriterSends, WriterFinishes, pipeVars
  <2>2. CASE WriterDequeues /\ queue # <<>>
    <3>1. /\ Head(queue) \in Items /\ Once(queue') /\ ~In(queue', Head(queue))
      BY <2>2, TailFacts DEF WriterDequeues, YxtTypeOK, Single
    <3>2. wr'.item = Head(queue)
      BY <2>2, <3>1, Records DEF WriterDequeues
    <3>3. Queue1'
      BY <3>1, <3>2
    <3>4. QED
      BY <3>3, <2>1, <1>p
  <2>3. CASE ~(WriterDequeues /\ queue # <<>>)
    <3>1. wr.item \in Items \cup {Nil}
      BY DEF YxtTypeOK
    <3>2. queue' = queue /\ wr'.item \in {wr.item, Nil}
      BY <1>2, <2>3, <3>1, Records
      DEF WriterStep, WriterDequeues, WriterSaves, WriterSends, WriterFinishes, WriterWaits
    <3>3. Queue1'
      BY <3>2, <1>0, <1>n
    <3>4. QED
      BY <3>3, <2>1, <1>p
  <2>4. QED
    BY <2>2, <2>3
<1>3. ASSUME NEW r \in Readers, ReaderStep(r) PROVE Queue1' /\ Pipe1'
  <2>1. Queue1'
    <3>1. UNCHANGED wr
      BY <1>3 DEF ReaderStep, ReadLine, find_transaction, StoreReply, LockHandlers,
                  RunHandler, QueueReply, PostReply, HookReturns
    <3>2. CASE QueueReply(r)
      <4>1. rd[r].msg \in Events /\ rd[r].msg \in Items /\ enqueue_reply(rd[r].msg)
        BY <3>2 DEF QueueReply, Shape, Fits, Items
      <4>2. Coming(rd[r].msg)
        BY <3>2 DEF QueueReply, Coming
      <4>3. ~In(queue, rd[r].msg) /\ wr.item # rd[r].msg
        BY <4>1, <4>2 DEF AllEvents, EventInv, Leaving
      <4>4. Once(queue') /\ \A i : In(queue', i) => In(queue, i) \/ i = rd[r].msg
        BY <4>1, <4>3, InsertFacts DEF YxtTypeOK, Single
      <4>5. QED
        BY <4>3, <4>4, <3>1, <1>0
    <3>3. CASE ~QueueReply(r)
      <4>1. UNCHANGED queue
        BY <1>3, <3>3 DEF ReaderStep, ReadLine, find_transaction, StoreReply, LockHandlers,
                          RunHandler, PostReply, HookReturns
      <4>2. QED
        BY <3>1, <4>1, <1>q
    <3>4. QED
      BY <3>2, <3>3
  <2>2. Pipe1'
    <3>1. CASE ReadLine(r)
      <4>1. /\ Head(toUs) \in Items /\ In(toUs, Head(toUs)) /\ rd[r].msg = Nil
            /\ rd'[r].msg = Head(toUs)
            /\ \A s \in Readers : s # r => rd'[s] = rd[s]
            /\ \A i : Busy(i)' => Busy(i) \/ i = Head(toUs)
            /\ \A i : In(toUs', i) => In(toUs, i)
            /\ Once(toUs') /\ ~In(toUs', Head(toUs))
        BY <3>1, ReadFacts
      <4>2. \A s \in Readers : rd[s].msg # Head(toUs)
        BY <4>1, <1>0 DEF Busy
      <4>3. \A p, s \in Readers : rd'[p].msg = rd'[s].msg /\ rd'[p].msg # Nil => p = s
        BY <4>1, <4>2, <1>0
      <4>4. \A i \in Items : In(toUs', i) => ~Busy(i)'
        BY <4>1, <1>0
      <4>5. QED
        BY <4>1, <4>3, <4>4
    <3>2. CASE ~ReadLine(r)
      <4>1. UNCHANGED toUs
        BY <1>3, <3>2, ReaderEffect
      <4>2. PICK x : rd' = [rd EXCEPT ![r] = x] /\ x.msg \in {rd[r].msg, Nil}
        BY <1>3, <3>2, ReaderEffect
      <4>3. /\ \A i \in Items : Busy(i)' => Busy(i)
            /\ \A p, q \in Readers : rd'[p].msg = rd'[q].msg /\ rd'[p].msg # Nil => p = q
        BY <4>2, ReaderKeeps
      <4>4. QED
        BY <4>1, <4>3, <1>0
    <3>3. QED
      BY <3>1, <3>2
  <2>3. QED
    BY <2>1, <2>2
<1>4. ASSUME NEW i \in Items, ~Around(i), toUs' = Append(toUs, i), UNCHANGED <<queue, wr, rd>>
      PROVE  Queue1' /\ Pipe1'
  <2>1. ~In(toUs, i) /\ ~Busy(i)
    BY <1>4 DEF Around
  <2>2. Once(toUs') /\ \A j : In(toUs', j) => In(toUs, j) \/ j = i
    BY <1>4, <2>1, AppendFacts DEF YxtTypeOK, Single
  <2>3. \A j : Busy(j)' => Busy(j)
    BY <1>4 DEF Busy
  <2>4. Pipe1'
    BY <1>4, <2>1, <2>2, <2>3, <1>0
  <2>5. QED
    BY <2>4, <1>4, <1>q
<1>5. ASSUME NEW c \in Calls, EngineAnswers(c) PROVE Queue1' /\ Pipe1'
  <2>1. c \in Items /\ c \notin answered
    BY <1>5 DEF EngineAnswers, Items
  <2>2. ~Around(c)
    BY <2>1 DEF AllCalls, CallInv
  <2>3. QED
    BY <2>1, <2>2, <1>4, <1>5 DEF EngineAnswers
<1>6. ASSUME NEW e \in Events, EngineRaises(e) PROVE Queue1' /\ Pipe1'
  <2>1. e \in Items /\ e \notin raised
    BY <1>6 DEF EngineRaises, Items
  <2>2. ~Around(e)
    BY <2>1 DEF AllEvents, EventInv
  <2>3. QED
    BY <2>1, <2>2, <1>4, <1>6 DEF EngineRaises
<1>7. ASSUME Finished PROVE Queue1' /\ Pipe1'
  BY <1>7, <1>q, <1>p DEF Finished, vars, pipeVars
<1> HIDE DEF Queue1, Pipe1
<1>8. QED
  BY <1>0, <1>1, <1>2, <1>3, <1>5, <1>6, <1>7 DEF Next
-----------------------------------------------------------------------------
(* Calls.                                                                  *)

\* A call keeps its invariant when its own state is left alone and its block
\* and its answer have at most disappeared from somewhere.
LEMMA CallKeeps ==
  ASSUME NEW c \in Calls, CallInv(c),
         call'[c] = call[c], reply'[c] = reply[c], sem'[c] = sem[c], frees'[c] = frees[c],
         c \in toEngine' <=> c \in toEngine, c \in answered' <=> c \in answered,
         Early(c)' => Early(c), Around(c)' => Around(c),
         wr'.item = c /\ wr'.pc = "sent" => wr.item = c /\ wr.pc = "sent"
  PROVE  CallInv(c)'
BY DEF CallInv, Late, Fresh, Open

\* A step of a caller keeps the invariant of every call.
LEMMA CallerKeepsCalls ==
  ASSUME YxtInv, NEW d \in Calls, CallStep(d)
  PROVE  AllCalls'
<1> USE DEF YxtInv
<1> SUFFICES ASSUME NEW c \in Calls PROVE CallInv(c)'
  BY DEF AllCalls
<1>0. CallInv(c) /\ UNCHANGED <<reply, toEngine, answered, toUs, wr, rd>>
  BY DEF AllCalls, CallStep, LockLine, EnqueueCall, PostWork, ReturnCall, blockVars, pipeVars
<1>t. /\ DOMAIN call = Calls /\ DOMAIN sem = Calls /\ DOMAIN frees = Items
      /\ sem[c] \in 0 .. 1 /\ frees[c] \in Nat /\ c \in Items
  BY DEF YxtTypeOK, Items
<1>a. Around(c)' <=> Around(c)
  BY <1>0 DEF Around, Busy
<1>e. UNCHANGED queue => (Early(c)' <=> Early(c))
  BY <1>0 DEF Early
<1>1. CASE c # d
  <2>1. Early(c)' => Early(c)
    <3>1. CASE EnqueueCall(d)
      <4>1. \A i : In(queue', i) => In(queue, i) \/ i = d
        BY <3>1, AppendFacts DEF EnqueueCall, enqueue_request, YxtTypeOK, Items
      <4>2. QED
        BY <4>1, <1>0, <1>1 DEF Early
    <3>2. CASE ~EnqueueCall(d)
      BY <3>2, <1>e DEF CallStep, LockLine, PostWork, ReturnCall
    <3>3. QED
      BY <3>1, <3>2
  <2>2. call'[c] = call[c] /\ sem'[c] = sem[c] /\ frees'[c] = frees[c]
    BY <1>1, <1>t DEF CallStep, LockLine, EnqueueCall, PostWork, ReturnCall, blockVars
  <2>3. QED
    BY <2>1, <2>2, <1>0, <1>a, CallKeeps
<1>2. CASE c = d /\ LockLine(d)
  <2>1. call[c] = "idle" /\ call'[c] = "locked" /\ UNCHANGED <<queue, sem, frees>>
    BY <1>2, <1>t DEF LockLine, blockVars
  <2>2. QED
    BY <2>1, <1>0, <1>a, <1>e, <1>t DEF CallInv, Late, Fresh, Open
<1>3. CASE c = d /\ EnqueueCall(d)
  <2>1. call[c] = "locked" /\ call'[c] = "queued" /\ UNCHANGED <<sem, frees>>
    BY <1>3, <1>t DEF EnqueueCall, blockVars
  <2>2. QED
    BY <2>1, <1>0, <1>a, <1>t DEF CallInv, Late, Fresh, Open
<1>4. CASE c = d /\ PostWork(d)
  <2>1. /\ call[c] = "queued" /\ UNCHANGED <<queue, sem, frees>>
        /\ call'[c] = IF WantReply(c) THEN "waiting" ELSE "done"
    BY <1>4, <1>t DEF PostWork, blockVars
  <2>2. QED
    BY <2>1, <1>0, <1>a, <1>e, <1>t DEF CallInv, Late, Fresh, Open
<1>5. CASE c = d /\ ReturnCall(d)
  <2>1. /\ call[c] = "waiting" /\ sem[c] > 0 /\ call'[c] = "done" /\ UNCHANGED queue
        /\ sem'[c] = sem[c] - 1 /\ frees'[c] = frees[c] + 1
    BY <1>5, <1>t DEF ReturnCall
  <2>2. WantReply(c) /\ ~Early(c) /\ ~Late(c) /\ frees[c] = 0
    BY <2>1, <1>0 DEF CallInv, Fresh
  <2>3. ~Early(c)' /\ ~Late(c)' /\ sem'[c] = 0 /\ frees'[c] = 1
    BY <2>1, <2>2, <1>0, <1>a, <1>e, <1>t DEF Late
  <2>4. QED
    BY <2>1, <2>2, <2>3, <1>0, <1>a DEF CallInv, Fresh, Open
<1>6. QED
  BY <1>1, <1>2, <1>3, <1>4, <1>5 DEF CallStep

\* A step of the writer keeps the invariant of every call.
LEMMA WriterKeepsCalls ==
  ASSUME YxtInv, WriterStep
  PROVE  AllCalls'
<1> USE DEF YxtInv
<1> SUFFICES ASSUME NEW c \in Calls PROVE CallInv(c)'
  BY DEF AllCalls
<1>0. CallInv(c) /\ UNCHANGED <<reply, answered, toUs, rd, call>>
  BY DEF AllCalls, WriterStep, WriterDequeues, WriterSaves, WriterSends, WriterFinishes,
         blockVars, pipeVars
<1>t. /\ DOMAIN sem = Calls /\ DOMAIN frees = Items /\ wr.item \in Items \cup {Nil}
      /\ sem[c] \in 0 .. 1 /\ frees[c] \in Nat /\ c \in Items /\ c # Nil
  BY CallsAssumption DEF YxtTypeOK, Items
<1>a. Around(c)' <=> Around(c)
  BY <1>0 DEF Around, Busy
<1>1. CASE WriterDequeues
  <2>1. UNCHANGED <<toEngine, sem, frees>>
    BY <1>1 DEF WriterDequeues, pipeVars, blockVars
  <2>2. Early(c)' => Early(c)
    <3>1. CASE queue = <<>>
      BY <3>1, <1>1 DEF WriterDequeues, Early
    <3>2. CASE queue # <<>>
      <4>1. /\ Head(queue) \in Items /\ In(queue, Head(queue))
            /\ \A i : In(Tail(queue), i) => In(queue, i)
        BY <3>2, TailFacts DEF YxtTypeOK
      <4>2. wr'.item = Head(queue) /\ queue' = Tail(queue)
        BY <3>2, <1>1, <4>1, Records DEF WriterDequeues
      <4>3. QED
        BY <4>1, <4>2 DEF Early
    <3>3. QED
      BY <3>1, <3>2
  <2>3. wr'.pc # "sent"
    <3>1. queue # <<>> => Head(queue) \in Items
      BY TailFacts DEF YxtTypeOK
    <3>2. QED
      BY <3>1, <1>1, Records DEF WriterDequeues
  <2>4. QED
    BY <2>1, <2>2, <2>3, <1>0, <1>a, CallKeeps
<1>2. CASE WriterSaves
  <2>1. UNCHANGED <<queue, toEngine, sem, frees>>
    BY <1>2 DEF WriterSaves, pipeVars, blockVars
  <2>2. wr.pc = "save" /\ wr'.item = wr.item /\ wr'.pc = "send"
    BY <1>2, <1>t, Records DEF WriterSaves
  <2>3. Early(c)' => Early(c)
    BY <2>1, <2>2 DEF Early
  <2>4. QED
    BY <2>1, <2>2, <2>3, <1>0, <1>a, CallKeeps
<1>3. CASE WriterSends
  <2>1. UNCHANGED <<queue, sem, frees>> /\ wr.pc = "send"
    BY <1>3 DEF WriterSends, blockVars
  <2>2. CASE UNCHANGED toEngine /\ wr' = Writer("failed", wr.item)
    <3>1. wr'.item = wr.item /\ wr'.pc = "failed"
      BY <2>2, <1>t, Records
    <3>2. Early(c)' => Early(c)
      BY <2>1, <3>1 DEF Early
    <3>3. QED
      BY <2>1, <2>2, <3>1, <3>2, <1>0, <1>a, CallKeeps
  <2>3. CASE toEngine' = toEngine \cup {wr.item} /\ wr' = Writer("sent", wr.item)
    <3>1. wr'.item = wr.item /\ wr'.pc = "sent"
      BY <2>3, <1>t, Records
    <3>2. CASE wr.item # c
      <4>1. Early(c)' => Early(c)
        BY <2>1, <3>1, <3>2 DEF Early
      <4>2. c \in toEngine' <=> c \in toEngine
        BY <2>3, <3>2
      <4>3. QED
        BY <2>1, <3>1, <3>2, <4>1, <4>2, <1>0, <1>a, CallKeeps
    <3>3. CASE wr.item = c
      <4>1. Early(c) /\ c \notin toEngine /\ Fresh(c) /\ (WantReply(c) => Open(c))
        BY <2>1, <3>3, <1>0 DEF Early, CallInv
      <4>2. ~In(queue, c) /\ ~Early(c)'
        BY <2>1, <3>1, <3>3, <1>t DEF Early, Single
      <4>3. c \in toEngine' /\ Fresh(c)' /\ (WantReply(c) => Open(c)')
        BY <4>1, <2>1, <2>3, <3>3, <1>0 DEF Fresh, Open
      <4>4. call[c] \notin {"idle", "locked"}
        BY <4>1, <1>0 DEF CallInv
      <4>5. c \notin answered /\ ~Around(c)
        BY <4>1, <1>0 DEF CallInv
      <4>6. QED
        BY <4>1, <4>2, <4>3, <4>4, <4>5, <3>1, <3>3, <2>1, <1>0, <1>a
        DEF CallInv, Fresh, Open
    <3>4. QED
      BY <3>2, <3>3
  <2>4. QED
    BY <1>3, <2>2, <2>3 DEF WriterSends
<1>4. CASE WriterFinishes
  <2>1. /\ UNCHANGED <<queue, toEngine>> /\ wr.pc \in {"sent", "failed"}
        /\ wr'.item = Nil /\ wr'.pc = "wait"
    BY <1>4, Records DEF WriterFinishes, WriterWaits, pipeVars
  <2>2. Early(c)' => In(queue, c)
    BY <2>1, <1>t DEF Early
  <2>3. CASE wr.item # c
    <3>1. sem'[c] = sem[c] /\ frees'[c] = frees[c]
      BY <2>3, <1>4, <1>t DEF WriterFinishes, end_transaction, tabVars
    <3>2. Early(c)' => Early(c)
      BY <2>2 DEF Early
    <3>3. QED
      BY <2>1, <3>1, <3>2, <1>0, <1>a, <1>t, CallKeeps
  <2>4. CASE wr.item = c
    <3>1. ~Early(c)' /\ (Late(c)' <=> Late(c))
      BY <2>1, <2>2, <2>4, <1>0, <1>a, <1>t DEF Single, Late
    <3>2. CASE ~WantReply(c)
      <4>1. sem'[c] = sem[c] /\ frees'[c] = frees[c] + 1
        BY <2>4, <3>2, <1>4, <1>t DEF WriterFinishes
      <4>2. call[c] \notin {"idle", "locked"} /\ sem[c] = 0
        BY <2>1, <2>4, <3>2, <1>0, <1>t DEF CallInv, Early
      <4>3. QED
        BY <2>1, <2>4, <3>1, <3>2, <4>1, <4>2, <1>0, <1>a, <1>t DEF CallInv
    <3>3. CASE WantReply(c) /\ wr.pc = "failed"
      <4>1. c \notin toEngine /\ Fresh(c) /\ Open(c)
        BY <2>4, <3>3, <1>0 DEF CallInv, Early
      <4>2. sem'[c] = 1 /\ frees'[c] = 0
        BY <2>4, <3>3, <4>1, <1>4, <1>t DEF WriterFinishes, end_transaction, Fresh
      <4>3. c \notin answered /\ ~Around(c)
        BY <4>1, <1>0 DEF CallInv
      <4>4. QED
        BY <2>1, <3>1, <3>3, <4>1, <4>2, <4>3, <1>0, <1>a, <1>t
        DEF CallInv, Fresh, Open, Late
    <3>4. CASE WantReply(c) /\ wr.pc = "sent"
      <4>1. sem'[c] = sem[c] /\ (frees'[c] = frees[c] \/ frees[c] > 0)
        BY <2>4, <3>4, <1>4, <1>t DEF WriterFinishes
      <4>2. c \in toEngine /\ (frees[c] > 0 => call[c] = "done")
        BY <2>4, <3>4, <1>0, <1>t DEF CallInv
      <4>3. QED
        BY <2>1, <2>4, <3>1, <3>4, <4>1, <4>2, <1>0, <1>a, <1>t DEF CallInv, Fresh, Open
    <3>5. QED
      BY <2>1, <3>2, <3>3, <3>4
  <2>5. QED
    BY <2>3, <2>4
<1>5. QED
  BY <1>1, <1>2, <1>3, <1>4 DEF WriterStep

\* A step of a reader keeps the invariant of every call.
LEMMA ReaderKeepsCalls ==
  ASSUME YxtInv, NEW r \in Readers, ReaderStep(r)
  PROVE  AllCalls'
<1> USE DEF YxtInv
<1> SUFFICES ASSUME NEW c \in Calls PROVE CallInv(c)'
  BY DEF AllCalls
<1>0. CallInv(c) /\ UNCHANGED <<call, frees, answered, toEngine, wr>>
  BY DEF AllCalls, ReaderStep, ReadLine, find_transaction, StoreReply, LockHandlers,
         RunHandler, QueueReply, PostReply, HookReturns, blockVars, pipeVars
<1>t. /\ DOMAIN sem = Calls /\ DOMAIN reply = Calls /\ c \in Items /\ c # Nil /\ c \notin Events
      /\ sem[c] \in 0 .. 1
  BY CallsAssumption DEF YxtTypeOK, Items
<1>a. Around(c)' => Around(c)
  <2>1. CASE ReadLine(r)
    BY <2>1, ReadFacts
  <2>2. CASE ~ReadLine(r)
    <3>1. UNCHANGED toUs
      BY <2>2, ReaderEffect
    <3>2. PICK x : rd' = [rd EXCEPT ![r] = x] /\ x.msg \in {rd[r].msg, Nil}
      BY <2>2, ReaderEffect
    <3>3. Busy(c)' => Busy(c)
      BY <3>2, <1>t, ReaderKeeps
    <3>4. QED
      BY <3>1, <3>3 DEF Around
  <2>3. QED
    BY <2>1, <2>2
<1>e. Early(c)' => Early(c)
  <2>1. CASE QueueReply(r)
    <3>1. rd[r].msg \in Events /\ rd[r].msg \in Items /\ enqueue_reply(rd[r].msg)
      BY <2>1 DEF QueueReply, Shape, Fits, Items
    <3>2. \A i : In(queue', i) => In(queue, i) \/ i = rd[r].msg
      BY <3>1, InsertFacts DEF YxtTypeOK
    <3>3. QED
      BY <3>1, <3>2, <1>0, <1>t DEF Early
  <2>2. CASE ~QueueReply(r)
    <3>1. UNCHANGED queue
      BY <2>2 DEF ReaderStep, ReadLine, find_transaction, StoreReply, LockHandlers,
                  RunHandler, PostReply, HookReturns
    <3>2. QED
      BY <3>1, <1>0 DEF Early
  <2>3. QED
    BY <2>1, <2>2
<1>1. CASE StoreReply(r) /\ rd[r].msg = c
  <2>1. /\ rd[r].pc = "found" /\ rd[r].block = c /\ WantReply(c) /\ Busy(c)
        /\ queue' = queue
    BY <1>1 DEF StoreReply, Shape, Fits, Busy
  <2>2. reply'[c] = c /\ sem'[c] = sem[c] + 1
    BY <1>1, <2>1, <1>t DEF StoreReply, end_transaction
  <2>3. c \in answered /\ c \in toEngine /\ Late(c) /\ Fresh(c) /\ Open(c) /\ ~Early(c)
    BY <2>1, <1>0 DEF CallInv, Late, Around
  <2>4. ~Around(c)'
    <3>1. ReaderIdle.msg = Nil
      BY Records DEF ReaderIdle, ReaderStates
    <3>2. rd'[r] = ReaderIdle /\ \A s \in Readers : s # r => rd'[s] = rd[s]
      BY <1>1, ReaderMoves DEF StoreReply
    <3>3. \A s \in Readers : s # r => rd[s].msg # c
      BY <1>1, <1>t DEF Single
    <3>4. ~Busy(c)'
      BY <3>1, <3>2, <3>3, <1>t DEF Busy
    <3>5. ~In(toUs, c) /\ toUs' = toUs
      BY <2>1, <1>1, <1>t DEF Single, StoreReply, pipeVars
    <3>6. QED
      BY <3>4, <3>5 DEF Around
  <2>5. sem[c] = 0 /\ sem'[c] = 1
    BY <2>2, <2>3 DEF Fresh
  <2>6. ~Early(c)' /\ ~Late(c)' /\ Open(c)'
    BY <1>e, <2>3, <2>4, <1>0 DEF Late, Open
  <2>7. QED
    BY <2>1, <2>2, <2>3, <2>4, <2>5, <2>6, <1>0, <1>t DEF CallInv, Fresh, Open
<1>2. CASE ~(StoreReply(r) /\ rd[r].msg = c)
  <2>1. reply'[c] = reply[c] /\ sem'[c] = sem[c]
    <3>1. CASE StoreReply(r)
      <4>1. rd[r].block # c
        BY <3>1, <1>2 DEF StoreReply, Shape, Fits
      <4>2. QED
        BY <3>1, <4>1, <1>t DEF StoreReply, end_transaction
    <3>2. CASE ~StoreReply(r)
      BY <3>2 DEF ReaderStep, ReadLine, find_transaction, LockHandlers,
                  RunHandler, QueueReply, PostReply, HookReturns, blockVars
    <3>3. QED
      BY <3>1, <3>2
  <2>2. QED
    BY <2>1, <1>0, <1>a, <1>e, CallKeeps
<1>3. QED
  BY <1>1, <1>2

\* A step of the engine keeps the invariant of every call.
LEMMA EngineKeepsCalls ==
  ASSUME YxtInv, \/ \E c \in Calls : EngineAnswers(c)
                 \/ \E e \in Events : EngineRaises(e)
  PROVE  AllCalls'
<1> USE DEF YxtInv
<1> SUFFICES ASSUME NEW c \in Calls PROVE CallInv(c)'
  BY DEF AllCalls
<1>0. CallInv(c) /\ UNCHANGED <<queue, wr, rd, call, reply, sem, frees, toEngine>>
  BY DEF AllCalls, EngineAnswers, EngineRaises, blockVars
<1>e. Early(c)' <=> Early(c)
  BY <1>0 DEF Early
<1>b. Busy(c)' <=> Busy(c)
  BY <1>0 DEF Busy
<1>i. c \in Items /\ c \notin Events
  BY CallsAssumption DEF Items
<1>1. ASSUME NEW d \in Calls, EngineAnswers(d) PROVE CallInv(c)'
  <2>1. \A i : In(toUs', i) => In(toUs, i) \/ i = d
    <3>1. d \in Items /\ toUs \in Seq(Items)
      BY DEF YxtTypeOK, Items
    <3>2. toUs' = Append(toUs, d)
      BY <1>1 DEF EngineAnswers
    <3> HIDE DEF YxtInv
    <3>3. QED
      BY <3>1, <3>2, AppendFacts
  <2>2. CASE c # d
    <3>1. Around(c)' => Around(c)
      BY <2>1, <2>2, <1>b DEF Around
    <3>2. c \in answered' <=> c \in answered
      BY <1>1, <2>2 DEF EngineAnswers
    <3>3. QED
      BY <3>1, <3>2, <1>0, <1>e, CallKeeps
  <2>3. CASE c = d
    <3>1. c \in toEngine /\ c \notin answered /\ c \in answered'
      BY <1>1, <2>3 DEF EngineAnswers
    <3>2. Late(c) /\ ~Early(c) /\ reply[c] = Nil /\ call[c] \notin {"idle", "locked"}
      BY <3>1, <1>0, CallsAssumption DEF CallInv, Late
    <3>3. QED
      BY <3>1, <3>2, <1>0, <1>e DEF CallInv, Late, Fresh, Open
  <2>4. QED
    BY <2>2, <2>3
<1>2. ASSUME NEW d \in Events, EngineRaises(d) PROVE CallInv(c)'
  <2>1. \A i : In(toUs', i) => In(toUs, i) \/ i = d
    <3>1. d \in Items /\ toUs \in Seq(Items)
      BY DEF YxtTypeOK, Items
    <3>2. toUs' = Append(toUs, d)
      BY <1>2 DEF EngineRaises
    <3> HIDE DEF YxtInv
    <3>3. QED
      BY <3>1, <3>2, AppendFacts
  <2>2. Around(c)' => Around(c)
    BY <2>1, <1>i, <1>b DEF Around
  <2>3. UNCHANGED answered
    BY <1>2 DEF EngineRaises
  <2>4. QED
    BY <2>2, <2>3, <1>0, <1>e, CallKeeps
<1>3. QED
  BY <1>1, <1>2
-----------------------------------------------------------------------------
(* Events.                                                                 *)

\* An event keeps its invariant when it and its answer have at most
\* disappeared from somewhere.
LEMMA EventKeeps ==
  ASSUME NEW e \in Events, EventInv(e), frees'[e] = frees[e],
         e \in raised' <=> e \in raised, Around(e)' => Around(e),
         Coming(e)' => Coming(e), Leaving(e)' => Leaving(e)
  PROVE  EventInv(e)'
BY DEF EventInv

\* A step of a caller or of the writer keeps the invariant of every event.
LEMMA CallerAndWriterKeepEvents ==
  ASSUME YxtInv, (\E d \in Calls : CallStep(d)) \/ WriterStep
  PROVE  AllEvents'
<1> USE DEF YxtInv
<1> SUFFICES ASSUME NEW e \in Events PROVE EventInv(e)'
  BY DEF AllEvents
<1>0. EventInv(e) /\ UNCHANGED <<toUs, rd, raised>>
  BY DEF AllEvents, CallStep, LockLine, EnqueueCall, PostWork, ReturnCall, WriterStep,
         WriterDequeues, WriterSaves, WriterSends, WriterFinishes, pipeVars
<1>t. /\ e \in Items /\ e # Nil /\ e \notin Calls /\ DOMAIN frees = Items
      /\ wr.item \in Items \cup {Nil} /\ frees[e] \in Nat
  BY CallsAssumption DEF YxtTypeOK, Items
<1>a. (Around(e)' <=> Around(e)) /\ (Coming(e)' <=> Coming(e))
  BY <1>0 DEF Around, Coming, Busy
<1>1. ASSUME NEW d \in Calls, CallStep(d) PROVE EventInv(e)'
  <2>1. frees'[e] = frees[e] /\ wr' = wr
    BY <1>1, <1>t DEF CallStep, LockLine, EnqueueCall, PostWork, ReturnCall, blockVars
  <2>2. In(queue', e) => In(queue, e)
    <3>1. CASE EnqueueCall(d)
      <4>1. \A i : In(queue', i) => In(queue, i) \/ i = d
        BY <3>1, AppendFacts DEF EnqueueCall, enqueue_request, YxtTypeOK, Items
      <4>2. QED
        BY <4>1, <1>t
    <3>2. CASE ~EnqueueCall(d)
      BY <3>2, <1>1 DEF CallStep, LockLine, PostWork, ReturnCall
    <3>3. QED
      BY <3>1, <3>2
  <2>3. Leaving(e)' => Leaving(e)
    BY <2>1, <2>2 DEF Leaving
  <2>4. QED
    BY <2>1, <2>3, <1>0, <1>a, EventKeeps
<1>2. ASSUME WriterStep PROVE EventInv(e)'
  <2>1. CASE WriterDequeues /\ queue # <<>>
    <3>1. /\ Head(queue) \in Items /\ In(queue, Head(queue))
          /\ \A i : In(Tail(queue), i) => In(queue, i)
      BY <2>1, TailFacts DEF YxtTypeOK
    <3>2. wr'.item = Head(queue) /\ queue' = Tail(queue) /\ frees' = frees
      BY <2>1, <3>1, Records DEF WriterDequeues, blockVars
    <3>3. Leaving(e)' => Leaving(e)
      BY <3>1, <3>2 DEF Leaving
    <3>4. QED
      BY <3>2, <3>3, <1>0, <1>a, EventKeeps
  <2>2. CASE WriterSaves \/ WriterSends \/ (WriterDequeues /\ queue = <<>>)
    <3>1. wr'.item = wr.item /\ queue' = queue /\ frees' = frees
      BY <2>2, <1>t, Records DEF WriterDequeues, WriterSaves, WriterSends, blockVars
    <3>2. Leaving(e)' => Leaving(e)
      BY <3>1 DEF Leaving
    <3>3. QED
      BY <3>1, <3>2, <1>0, <1>a, EventKeeps
  <2>3. CASE WriterFinishes
    <3>1. wr'.item = Nil /\ queue' = queue
      BY <2>3, Records DEF WriterFinishes, WriterWaits
    <3>2. Leaving(e)' => Leaving(e)
      BY <3>1, <1>t DEF Leaving
    <3>3. CASE wr.item # e
      <4>1. frees'[e] = frees[e]
        BY <3>3, <2>3, <1>t DEF WriterFinishes
      <4>2. QED
        BY <4>1, <3>2, <1>0, <1>a, EventKeeps
    <3>4. CASE wr.item = e
      <4>1. ~In(queue, e) /\ Leaving(e)
        BY <3>4, <1>t DEF Single, Leaving
      <4>2. ~Coming(e) /\ ~Leaving(e)'
        BY <4>1, <3>1, <1>0, <1>t DEF EventInv, Leaving
      <4>3. e \in raised
        BY <4>2 DEF Coming
      <4>4. QED
        BY <4>2, <4>3, <1>0, <1>a DEF EventInv
    <3>5. QED
      BY <3>3, <3>4
  <2>4. QED
    BY <1>2, <2>1, <2>2, <2>3 DEF WriterStep
<1>3. QED
  BY <1>1, <1>2

\* A step of a reader keeps the invariant of every event.
LEMMA ReaderKeepsEvents ==
  ASSUME YxtInv, NEW r \in Readers, ReaderStep(r)
  PROVE  AllEvents'
<1> USE DEF YxtInv
<1> SUFFICES ASSUME NEW e \in Events PROVE EventInv(e)'
  BY DEF AllEvents
<1>0. EventInv(e) /\ UNCHANGED <<frees, raised, wr>>
  BY DEF AllEvents, ReaderStep, ReadLine, find_transaction, StoreReply, LockHandlers,
         RunHandler, QueueReply, PostReply, HookReturns, blockVars, pipeVars
<1>t. e \in Items /\ e # Nil /\ e \notin Calls /\ rd[r].msg \in Items \cup {Nil}
  BY CallsAssumption DEF YxtTypeOK, Items
<1> DEFINE Ahead == {"event", "handler", "handled"}
<1>1. CASE ReadLine(r)
  <2>1. /\ In(toUs, Head(toUs)) /\ rd[r].msg = Nil
        /\ rd'[r].msg = Head(toUs)
        /\ \A s \in Readers : s # r => rd'[s] = rd[s]
        /\ \A i : In(toUs', i) => In(toUs, i)
        /\ \A i : Around(i)' => Around(i)
    BY <1>1, ReadFacts
  <2>2. Coming(e)' => Coming(e)
    <3> SUFFICES ASSUME Coming(e)' PROVE Coming(e)
      OBVIOUS
    <3>1. CASE e \notin raised' \/ In(toUs', e)
      BY <3>1, <2>1, <1>0 DEF Coming
    <3>2. ASSUME NEW s \in Readers, rd'[s].msg = e, rd'[s].pc \in Ahead PROVE Coming(e)
      BY <3>2, <2>1 DEF Coming
    <3>3. QED
      BY <3>1, <3>2 DEF Coming
  <2>3. Leaving(e)' => Leaving(e)
    BY <1>0, <1>1 DEF Leaving, ReadLine
  <2>4. QED
    BY <2>1, <2>2, <2>3, <1>0, EventKeeps
<1>2. CASE ~ReadLine(r)
  <2>1. UNCHANGED toUs
    BY <1>2, ReaderEffect
  <2>2. PICK x : rd' = [rd EXCEPT ![r] = x] /\ x.msg \in {rd[r].msg, Nil}
    BY <1>2, ReaderEffect
  <2>3. Busy(e)' => Busy(e)
    BY <2>2, <1>t, ReaderKeeps
  <2>4. Around(e)' => Around(e)
    BY <2>1, <2>3 DEF Around
  <2>5. rd'[r] = x /\ \A s \in Readers : s # r => rd'[s] = rd[s]
    BY <2>2, ReaderMoves
  <2>6. rd'[r].pc \in Ahead /\ rd'[r].msg = e => rd[r].pc \in Ahead /\ rd[r].msg = e
    <3>1. ReaderIdle.msg = Nil
      BY Records DEF ReaderIdle, ReaderStates
    <3>2. \A pc \in ReaderStates :
            /\ Reader(pc, rd[r].msg, Nil).pc = pc
            /\ Reader(pc, rd[r].msg, Nil).msg = rd[r].msg
      BY <1>t, Records
    <3>3. rd \in [Readers -> [pc : ReaderStates, msg : Items \cup {Nil}, block : Calls \cup {Nil}]]
      BY DEF YxtTypeOK
    <3>4. CASE find_transaction(r)
      <4>1. rd[r].msg \in Calls
        BY <3>4, FindFacts
      <4>2. QED
        BY <4>1, <2>2, <2>5, <1>t
    <3>5. CASE StoreReply(r) \/ HookReturns(r)
      <4>1. rd'[r] = ReaderIdle
        BY <3>3, <3>5 DEF StoreReply, HookReturns
      <4>2. QED
        BY <4>1, <3>1, <1>t
    <3>6. CASE LockHandlers(r) \/ RunHandler(r) \/ QueueReply(r)
      <4>1. rd[r].pc \in Ahead /\ x.msg \in {rd[r].msg, Nil}
        BY <3>6, <2>2 DEF LockHandlers, RunHandler, QueueReply
      <4>2. QED
        BY <4>1, <2>5, <1>t
    <3>7. CASE PostReply(r)
      <4>1. rd'[r] = ReaderIdle \/ rd'[r] = Reader("hook", rd[r].msg, Nil)
        BY <3>3, <3>7 DEF PostReply
      <4>2. Reader("hook", rd[r].msg, Nil).pc = "hook"
        BY <3>2 DEF ReaderStates
      <4>3. QED
        BY <4>1, <4>2, <3>1, <1>t
    <3>8. QED
      BY <1>2, <3>4, <3>5, <3>6, <3>7 DEF ReaderStep
  <2>7. Coming(e)' => Coming(e)
    <3> SUFFICES ASSUME Coming(e)' PROVE Coming(e)
      OBVIOUS
    <3>1. CASE e \notin raised' \/ In(toUs', e)
      BY <3>1, <2>1, <1>0 DEF Coming
    <3>2. ASSUME NEW s \in Readers, rd'[s].msg = e, rd'[s].pc \in Ahead PROVE Coming(e)
      BY <3>2, <2>5, <2>6 DEF Coming
    <3>3. QED
      BY <3>1, <3>2 DEF Coming
  <2>8. CASE QueueReply(r) /\ rd[r].msg = e
    <3>1. Coming(e) /\ Busy(e)
      BY <2>8 DEF QueueReply, Coming, Busy
    <3>2. e \in raised /\ frees[e] = 0 /\ ~In(toUs, e)
      BY <3>1, <1>0, <1>t DEF EventInv, Around, Single
    <3>3. ~Coming(e)'
      <4>1. rd'[r].pc = "queued"
        <5>1. rd' = [rd EXCEPT ![r] = Reader("queued", rd[r].msg, Nil)]
          BY <2>8 DEF QueueReply, At
        <5>2. rd'[r] = Reader("queued", rd[r].msg, Nil)
          BY <5>1, ReaderMoves
        <5>3. QED
          BY <5>2, <1>t, Records DEF ReaderStates
      <4>2. \A s \in Readers : s # r => rd'[s].msg # e
        BY <2>5, <2>8, <1>t DEF Single
      <4>3. QED
        BY <4>1, <4>2, <3>2, <2>1, <1>0 DEF Coming
    <3>4. QED
      BY <3>2, <3>3, <1>0 DEF EventInv
  <2>9. CASE ~(QueueReply(r) /\ rd[r].msg = e)
    <3>1. In(queue', e) => In(queue, e)
      <4>1. CASE QueueReply(r)
        <5>1. rd[r].msg \in Items /\ enqueue_reply(rd[r].msg)
          BY <4>1 DEF QueueReply, Shape, Fits, Items
        <5>2. \A i : In(queue', i) => In(queue, i) \/ i = rd[r].msg
          BY <5>1, InsertFacts DEF YxtTypeOK
        <5>3. QED
          BY <5>2, <4>1, <2>9
      <4>2. CASE ~QueueReply(r)
        <5>1. UNCHANGED queue
          BY <4>2 DEF ReaderStep, ReadLine, find_transaction, StoreReply, LockHandlers,
                      RunHandler, PostReply, HookReturns
        <5>2. QED
          BY <5>1
      <4>3. QED
        BY <4>1, <4>2
    <3>2. Leaving(e)' => Leaving(e)
      BY <3>1, <1>0 DEF Leaving
    <3>3. QED
      BY <3>2, <2>4, <2>7, <1>0, EventKeeps
  <2>10. QED
    BY <2>8, <2>9
<1>3. QED
  BY <1>1, <1>2

\* A step of the engine keeps the invariant of every event.
LEMMA EngineKeepsEvents ==
  ASSUME YxtInv, \/ \E c \in Calls : EngineAnswers(c)
                 \/ \E e \in Events : EngineRaises(e)
  PROVE  AllEvents'
<1> USE DEF YxtInv
<1> SUFFICES ASSUME NEW e \in Events PROVE EventInv(e)'
  BY DEF AllEvents
<1>0. EventInv(e) /\ UNCHANGED <<queue, wr, rd, frees>>
  BY DEF AllEvents, EngineAnswers, EngineRaises, blockVars
<1>l. Leaving(e)' <=> Leaving(e)
  BY <1>0 DEF Leaving
<1>b. Busy(e)' <=> Busy(e)
  BY <1>0 DEF Busy
<1>1. ASSUME NEW i \in Items, toUs' = Append(toUs, i), i # e, e \in raised' <=> e \in raised
      PROVE  EventInv(e)'
  <2>1. In(toUs', e) => In(toUs, e)
    BY <1>1, AppendFacts DEF YxtTypeOK
  <2>2. (Around(e)' => Around(e)) /\ (Coming(e)' => Coming(e))
    BY <2>1, <1>0, <1>1, <1>b DEF Around, Coming
  <2>3. QED
    BY <2>2, <1>0, <1>1, <1>l, EventKeeps
<1>2. ASSUME NEW d \in Calls, EngineAnswers(d) PROVE EventInv(e)'
  BY <1>1, <1>2, CallsAssumption DEF EngineAnswers, Items
<1>3. ASSUME NEW d \in Events, EngineRaises(d) PROVE EventInv(e)'
  <2>1. CASE d # e
    BY <2>1, <1>1, <1>3 DEF EngineRaises, Items
  <2>2. CASE d = e
    <3>1. e \notin raised /\ e \in raised'
      BY <1>3, <2>2 DEF EngineRaises
    <3>2. Coming(e)
      BY <3>1 DEF Coming
    <3>3. QED
      BY <3>1, <3>2, <1>0, <1>l DEF EventInv
  <2>3. QED
    BY <2>1, <2>2
<1>4. QED
  BY <1>2, <1>3
-----------------------------------------------------------------------------
(* The invariant, and what follows from it.                                *)

\* The program starts in a state that satisfies the invariant.
LEMMA InitInv == Init => YxtInv
<1> SUFFICES ASSUME Init PROVE YxtInv
  OBVIOUS
<1>0. Nil \notin Items
  BY CallsAssumption DEF Items
<1>1. YxtTypeOK
  BY InitType
<1>2. wr.pc = "wait" /\ wr.item = Nil
  BY Records DEF Init, WriterWaits
<1>3. ReaderIdle.pc = "idle" /\ ReaderIdle.msg = Nil
  BY Records DEF ReaderIdle, ReaderStates
<1>4. \A r \in Readers : rd[r].pc = "idle" /\ rd[r].msg = Nil
  BY <1>3 DEF Init
<1>5. \A i \in Items : ~In(queue, i) /\ ~In(toUs, i) /\ ~Busy(i) /\ wr.item # i
  BY <1>0, <1>2, <1>4 DEF Init, In, Busy
<1>6. Shape
  BY <1>2, <1>4 DEF Shape, Fits
<1>7. Saved
  BY DEF Init, Saved
<1>8. Single
  BY <1>4, <1>5 DEF Init, Single, Once
<1>9. AllCalls
  <2> SUFFICES ASSUME NEW c \in Calls PROVE CallInv(c)
    BY DEF AllCalls
  <2>1. /\ call[c] = "idle" /\ reply[c] = Nil /\ sem[c] = 0 /\ frees[c] = 0 /\ c \in Items
        /\ c \notin toEngine /\ c \notin answered
    BY DEF Init, Items
  <2>2. ~Early(c) /\ ~Late(c) /\ ~Around(c) /\ c # Nil
    BY <2>1, <1>0, <1>2, <1>5 DEF Early, Late, Around
  <2>3. QED
    BY <2>1, <2>2, <1>2 DEF CallInv, Fresh
<1>10. AllEvents
  <2> SUFFICES ASSUME NEW e \in Events PROVE EventInv(e)
    BY DEF AllEvents
  <2>1. frees[e] = 0 /\ ~Around(e) /\ ~Leaving(e)
    BY <1>5 DEF Init, Items, Around, Leaving
  <2>2. QED
    BY <2>1 DEF EventInv
<1>11. QED
  BY <1>1, <1>6, <1>7, <1>8, <1>9, <1>10 DEF YxtInv

\* Every step keeps the invariant.
LEMMA InvStep ==
  ASSUME YxtInv, [Next]_vars
  PROVE  YxtInv'
<1>1. CASE UNCHANGED vars
  BY <1>1 DEF YxtInv, vars, tabVars, blockVars, pipeVars, YxtTypeOK, Shape, Saved, Single,
              AllCalls, AllEvents, CallInv, EventInv, Early, Late, Fresh, Open, Around,
              Coming, Leaving, Busy
<1>2. CASE Next
  <2>0. Finished => UNCHANGED vars
    BY DEF Finished
  <2>1. CASE \E c \in Calls : CallStep(c)
    BY <1>2, <2>1, CallType, ShapeStep, SavedStep, SingleStep, CallerKeepsCalls,
       CallerAndWriterKeepEvents DEF YxtInv
  <2>2. CASE WriterStep
    BY <1>2, <2>2, WriterType, ShapeStep, SavedStep, SingleStep, WriterKeepsCalls,
       CallerAndWriterKeepEvents DEF YxtInv
  <2>3. CASE \E r \in Readers : ReaderStep(r)
    BY <1>2, <2>3, ReaderType, ShapeStep, SavedStep, SingleStep, ReaderKeepsCalls,
       ReaderKeepsEvents DEF YxtInv
  <2>4. CASE (\E c \in Calls : EngineAnswers(c)) \/ (\E e \in Events : EngineRaises(e))
    BY <1>2, <2>4, EngineType, ShapeStep, SavedStep, SingleStep, EngineKeepsCalls,
       EngineKeepsEvents DEF YxtInv
  <2>5. QED
    BY <1>1, <1>2, <2>0, <2>1, <2>2, <2>3, <2>4 DEF Next
<1>3. QED
  BY <1>1, <1>2

\* The invariant holds throughout.
LEMMA Invariance == Spec => []YxtInv
<1>1. QED
  BY InitInv, InvStep, PTL DEF Spec

\* The type invariant holds: whatever the engine answers and whichever write
\* fails, a caller is woken at most once, and no block is freed more often than
\* by its caller and by a writer that reads freed memory.
THEOREM YxtTypeCorrect == Spec => []YxtTypeOK
<1>1. YxtInv => YxtTypeOK
  BY DEF YxtInv
<1>2. QED
  BY <1>1, Invariance, PTL
-----------------------------------------------------------------------------
(* The calls keep the promise of yxt_dispatch().                           *)

Waiters == Calls \ Casts
Asked == toEngine \cap Waiters
Answers == answered \cap Waiters
Result == [c \in Waiters |-> IF call[c] = "done" THEN reply[c] ELSE "none"]

\* Every step asks, answers or returns one call, or does not concern the promise.
LEMMA PromiseStep ==
  ASSUME YxtInv, [Next]_vars
  PROVE  [Promise!Next]_(Promise!vars)
<1> USE DEF YxtInv
<1>0. SUFFICES \/ UNCHANGED <<Asked, Answers, Result>>
               \/ \E c \in Waiters : Promise!Ask(c) \/ Promise!Answer(c) \/ Promise!Return(c)
  BY DEF Promise!Next, Promise!vars, Asked, Answers, Result, Waiters
<1>t. \A c \in Waiters : c \in Calls /\ WantReply(c) /\ c \in Items /\ c \notin Events
  BY CallsAssumption DEF Waiters, WantReply, Items
<1>1. CASE UNCHANGED vars
  BY <1>1 DEF vars, blockVars, pipeVars, Asked, Answers, Result
<1>2. CASE \E d \in Calls : CallStep(d)
  <2> PICK d \in Calls : CallStep(d)
    BY <1>2
  <2>1. UNCHANGED <<toEngine, answered, reply>>
    BY DEF CallStep, LockLine, EnqueueCall, PostWork, ReturnCall, blockVars, pipeVars
  <2>2. UNCHANGED <<Asked, Answers>>
    BY <2>1 DEF Asked, Answers
  <2>3. DOMAIN call = Calls
    BY DEF YxtTypeOK
  <2>4. \A c \in Waiters : c # d => call'[c] = call[c]
    BY <2>3, <1>t DEF CallStep, LockLine, EnqueueCall, PostWork, ReturnCall
  <2>5. CASE ReturnCall(d)
    <3>1. call[d] = "waiting" /\ call'[d] = "done" /\ sem[d] > 0
      BY <2>5, <2>3 DEF ReturnCall
    <3>2. /\ d \in Waiters /\ reply[d] \in {Nil, d} /\ (reply[d] = d => d \in answered)
          /\ (reply[d] = Nil => d \notin toEngine)
      BY <3>1 DEF AllCalls, CallInv, WantReply, Waiters
    <3>3. Result' = [Result EXCEPT ![d] = reply[d]] /\ Result[d] = "none"
      BY <2>1, <2>4, <3>1, <3>2 DEF Result
    <3>4. Promise!Return(d)
      BY <2>2, <3>2, <3>3 DEF Promise!Return, Asked, Answers, Result, Waiters
    <3>5. QED
      BY <3>2, <3>4
  <2>6. CASE ~ReturnCall(d)
    <3>1. d \in Waiters => (call'[d] = "done" <=> call[d] = "done")
      BY <2>3, <2>6, <1>t DEF CallStep, LockLine, EnqueueCall, PostWork
    <3>2. Result' = Result
      BY <2>1, <2>4, <3>1 DEF Result
    <3>3. QED
      BY <2>2, <3>2
  <2>7. QED
    BY <2>5, <2>6
<1>3. CASE WriterStep
  <2>1. UNCHANGED <<call, reply, answered>>
    BY <1>3 DEF WriterStep, WriterDequeues, WriterSaves, WriterSends, WriterFinishes,
                blockVars, pipeVars
  <2>2. UNCHANGED <<Answers, Result>>
    BY <2>1 DEF Answers, Result
  <2>3. CASE WriterSends /\ toEngine' = toEngine \cup {wr.item} /\ wr.item \in Waiters
    <3>1. wr.item \notin toEngine
      BY <2>3, <1>t DEF WriterSends, AllCalls, CallInv, Early
    <3>2. wr.item \notin Asked /\ Asked' = Asked \cup {wr.item}
      BY <2>3, <3>1 DEF Asked
    <3>3. Promise!Ask(wr.item)
      BY <2>2, <3>2 DEF Promise!Ask, Asked, Answers, Result, Waiters
    <3>4. QED
      BY <2>3, <3>3
  <2>4. CASE ~(WriterSends /\ toEngine' = toEngine \cup {wr.item} /\ wr.item \in Waiters)
    <3>1. Asked' = Asked
      BY <1>3, <2>4 DEF WriterStep, WriterDequeues, WriterSaves, WriterSends, WriterFinishes,
                        pipeVars, Asked
    <3>2. QED
      BY <2>2, <3>1
  <2>5. QED
    BY <2>3, <2>4
<1>4. CASE \E r \in Readers : ReaderStep(r)
  <2> PICK r \in Readers : ReaderStep(r)
    BY <1>4
  <2>1. UNCHANGED <<toEngine, answered, call>>
    BY DEF ReaderStep, ReadLine, find_transaction, StoreReply, LockHandlers,
           RunHandler, QueueReply, PostReply, HookReturns, pipeVars
  <2>2. \A c \in Waiters : call[c] = "done" => reply'[c] = reply[c]
    <3>1. CASE StoreReply(r)
      <4>1. /\ rd[r].block \in Calls /\ rd[r].block = rd[r].msg /\ WantReply(rd[r].block)
            /\ Busy(rd[r].block)
        BY <3>1 DEF StoreReply, Shape, Fits, Busy
      <4>2. call[rd[r].block] # "done"
        BY <4>1 DEF AllCalls, CallInv, Late, Around, Open
      <4>3. QED
        BY <3>1, <4>1, <4>2, <1>t DEF StoreReply, YxtTypeOK
    <3>2. CASE ~StoreReply(r)
      BY <3>2 DEF ReaderStep, ReadLine, find_transaction, LockHandlers,
                  RunHandler, QueueReply, PostReply, HookReturns, blockVars
    <3>3. QED
      BY <3>1, <3>2
  <2>3. QED
    BY <2>1, <2>2 DEF Asked, Answers, Result
<1>5. CASE \E d \in Calls : EngineAnswers(d)
  <2> PICK d \in Calls : EngineAnswers(d)
    BY <1>5
  <2>1. /\ UNCHANGED <<toEngine, call, reply>> /\ d \in toEngine /\ d \notin answered
        /\ answered' = answered \cup {d}
    BY DEF EngineAnswers, blockVars
  <2>2. UNCHANGED <<Asked, Result>>
    BY <2>1 DEF Asked, Result
  <2>3. CASE d \in Waiters
    <3>1. Promise!Answer(d)
      BY <2>1, <2>2, <2>3 DEF Promise!Answer, Asked, Answers, Result, Waiters
    <3>2. QED
      BY <2>3, <3>1
  <2>4. CASE d \notin Waiters
    BY <2>1, <2>2, <2>4 DEF Answers
  <2>5. QED
    BY <2>3, <2>4
<1>6. CASE \E e \in Events : EngineRaises(e)
  BY <1>6 DEF EngineRaises, blockVars, Asked, Answers, Result
<1>7. CASE Finished
  BY <1>1, <1>7 DEF Finished
<1>8. QED
  BY <1>1, <1>2, <1>3, <1>4, <1>5, <1>6, <1>7 DEF Next

\* Every call of yxt_dispatch() returns at most once and with the answer to that
\* very call, or with none when the request was not sent: the link implements
\* Rpc for any number of calls, readers and events and any table size.
THEOREM CallsKeepPromise == Spec => ReturnsItsAnswer
<1>1. Init => Promise!Init
  BY DEF Init, Promise!Init
<1>2. QED
  BY <1>1, PromiseStep, Invariance, PTL DEF Spec, ReturnsItsAnswer, Promise!Spec
-----------------------------------------------------------------------------
(* The semaphore of the writer.                                            *)

Posting == {c \in Calls : call[c] = "queued"}
Replying == {r \in Readers : rd[r].pc = "queued"}

\* How the size of a finite set changes with one element.
LEMMA OneMore ==
  ASSUME NEW S, IsFiniteSet(S), NEW T, NEW x, x \notin S, T = S \cup {x}
  PROVE  Cardinality(T) = Cardinality(S) + 1
BY FS_AddElement

\* A set that has lost an element has one element less.
LEMMA OneLess ==
  ASSUME NEW S, IsFiniteSet(S), NEW T, NEW x, x \in S, T = S \ {x}
  PROVE  Cardinality(T) = Cardinality(S) - 1
BY FS_RemoveElement

\* The threads that have queued and not posted are finitely many.
LEMMA FewPost ==
  /\ IsFiniteSet(Posting) /\ IsFiniteSet(Replying)
  /\ Cardinality(Posting) \in Nat /\ Cardinality(Replying) \in Nat
<1>1. Posting \subseteq Calls /\ Replying \subseteq Readers
  BY DEF Posting, Replying
<1>2. IsFiniteSet(Posting) /\ IsFiniteSet(Replying)
  BY <1>1, FiniteAssumption, FS_Subset
<1>3. QED
  BY <1>2, FS_CardinalityType

Counted == Len(queue) = work + Cardinality(Posting) + Cardinality(Replying)

\* Every step keeps the count.
LEMMA CountStep ==
  ASSUME YxtInv, Counted, [Next]_vars
  PROVE  Counted'
<1> USE DEF YxtInv
<1> DEFINE p == Cardinality(Posting)
           q == Cardinality(Replying)
<1>0. /\ p \in Nat /\ q \in Nat /\ work \in Nat /\ Len(queue) \in Nat
      /\ Len(queue) = work + p + q /\ queue \in Seq(Items)
      /\ IsFiniteSet(Posting) /\ IsFiniteSet(Replying)
  BY FewPost DEF Counted, YxtTypeOK
<1>c. UNCHANGED call => p' = p
  BY DEF Posting
<1>r. UNCHANGED rd => q' = q
  BY DEF Replying
<1>t. DOMAIN call = Calls
  BY DEF YxtTypeOK
<1>s. Counted' <=> Len(queue') = work' + p' + q'
  BY DEF Counted
<1> HIDE DEF p, q
<1>1. CASE UNCHANGED <<queue, work, call, rd>>
  BY <1>1, <1>0, <1>c, <1>r, <1>s
<1>2. ASSUME NEW c \in Calls, CallStep(c) PROVE Counted'
  <2>1. q' = q
    BY <1>2, <1>r DEF CallStep, LockLine, EnqueueCall, PostWork, ReturnCall
  <2>2. CASE LockLine(c) \/ ReturnCall(c)
    <3>1. Posting' = Posting /\ UNCHANGED <<queue, work>>
      BY <2>2, <1>t DEF LockLine, ReturnCall, Posting
    <3>2. QED
      BY <2>1, <3>1, <1>0, <1>s DEF p
  <2>3. CASE EnqueueCall(c)
    <3>1. c \notin Posting /\ Posting' = Posting \cup {c}
      BY <2>3, <1>t DEF EnqueueCall, Posting
    <3>2. p' = p + 1
      BY <3>1, <1>0, OneMore DEF p
    <3>3. Len(queue') = Len(queue) + 1 /\ work' = work
      BY <2>3, <1>0, AppendFacts DEF EnqueueCall, enqueue_request, Items
    <3>4. QED
      BY <2>1, <3>2, <3>3, <1>0, <1>s
  <2>4. CASE PostWork(c)
    <3>1. c \in Posting /\ Posting' = Posting \ {c}
      BY <2>4, <1>t DEF PostWork, Posting
    <3>2. p' = p - 1
      BY <3>1, <1>0, OneLess DEF p
    <3>3. queue' = queue /\ work' = work + 1
      BY <2>4 DEF PostWork
    <3>4. QED
      BY <2>1, <3>2, <3>3, <1>0, <1>s
  <2>5. QED
    BY <1>2, <2>2, <2>3, <2>4 DEF CallStep
<1>3. ASSUME WriterStep PROVE Counted'
  <2>1. p' = p /\ q' = q
    BY <1>3, <1>c, <1>r DEF WriterStep, WriterDequeues, WriterSaves, WriterSends, WriterFinishes
  <2>2. CASE WriterDequeues
    <3>1. work > 0 /\ work' = work - 1
      BY <2>2 DEF WriterDequeues
    <3>2. queue # <<>>
      BY <3>1, <1>0
    <3>3. Len(queue') = Len(queue) - 1
      BY <2>2, <3>2, <1>0, TailFacts DEF WriterDequeues
    <3>4. QED
      BY <2>1, <3>1, <3>3, <1>0, <1>s
  <2>3. CASE ~WriterDequeues
    <3>1. UNCHANGED <<queue, work>>
      BY <1>3, <2>3 DEF WriterStep, WriterSaves, WriterSends, WriterFinishes
    <3>2. QED
      BY <2>1, <3>1, <1>0, <1>s
  <2>4. QED
    BY <2>2, <2>3
<1>4. ASSUME NEW r \in Readers, ReaderStep(r) PROVE Counted'
  <2>1. p' = p
    BY <1>4, <1>c DEF ReaderStep, ReadLine, find_transaction, StoreReply, LockHandlers,
                      RunHandler, QueueReply, PostReply, HookReturns
  <2>2. /\ rd \in [Readers -> [pc : ReaderStates, msg : Items \cup {Nil},
                              block : Calls \cup {Nil}]]
        /\ rd[r].msg \in Items \cup {Nil}
    BY DEF YxtTypeOK
  <2>3. \A x : rd' = [rd EXCEPT ![r] = x] =>
          rd'[r] = x /\ \A s \in Readers : s # r => rd'[s] = rd[s]
    BY <2>2
  <2>i. ReaderIdle.pc = "idle"
    BY Records DEF ReaderIdle, ReaderStates
  <2>a. \A pc \in ReaderStates : Reader(pc, rd[r].msg, Nil).pc = pc
    BY <2>2, Records
  <2>4. CASE QueueReply(r)
    <3>1. rd'[r].pc = "queued" /\ \A s \in Readers : s # r => rd'[s] = rd[s]
      <4>1. rd' = [rd EXCEPT ![r] = Reader("queued", rd[r].msg, Nil)]
        BY <2>4 DEF QueueReply, At
      <4>2. QED
        BY <4>1, <2>3, <2>a DEF ReaderStates
    <3>2. r \notin Replying /\ Replying' = Replying \cup {r}
      BY <2>4, <3>1 DEF QueueReply, Replying
    <3>3. q' = q + 1
      BY <3>2, <1>0, OneMore DEF q
    <3>4. Len(queue') = Len(queue) + 1 /\ work' = work
      <4>1. rd[r].msg \in Items /\ enqueue_reply(rd[r].msg)
        BY <2>4 DEF QueueReply, Shape, Fits, Items
      <4>2. QED
        BY <2>4, <4>1, <1>0, InsertFacts DEF QueueReply
    <3>5. QED
      BY <2>1, <3>3, <3>4, <1>0, <1>s
  <2>5. CASE PostReply(r)
    <3>1. rd'[r].pc # "queued" /\ \A s \in Readers : s # r => rd'[s] = rd[s]
      BY <2>5, <2>3, <2>i, <2>a DEF PostReply, ReaderStates
    <3>2. r \in Replying /\ Replying' = Replying \ {r}
      BY <2>5, <3>1 DEF PostReply, Replying
    <3>3. q' = q - 1
      BY <3>2, <1>0, OneLess DEF q
    <3>4. queue' = queue /\ work' = work + 1
      BY <2>5 DEF PostReply
    <3>5. QED
      BY <2>1, <3>3, <3>4, <1>0, <1>s
  <2>6. CASE ~QueueReply(r) /\ ~PostReply(r)
    <3>1. UNCHANGED <<queue, work>> /\ rd[r].pc # "queued"
      BY <2>6, <1>4 DEF ReaderStep, ReadLine, find_transaction, StoreReply, LockHandlers,
                        RunHandler, HookReturns
    <3>2. rd'[r].pc # "queued" /\ \A s \in Readers : s # r => rd'[s] = rd[s]
      <4>1. CASE ReadLine(r)
        BY <4>1, ReadFacts
      <4>2. CASE find_transaction(r)
        <5>1. rd[r].msg \in Calls
          BY <4>2, FindFacts
        <5>2. Reader("found", rd[r].msg, rd[r].msg).pc = "found"
          BY <5>1, <2>2, Records DEF ReaderStates
        <5>3. \/ rd' = [rd EXCEPT ![r] = ReaderIdle]
              \/ rd' = [rd EXCEPT ![r] = Reader("found", rd[r].msg, rd[r].msg)]
          BY <4>2, FindFacts
        <5>4. QED
          BY <5>2, <5>3, <2>3, <2>i
      <4>3. CASE StoreReply(r) \/ HookReturns(r)
        BY <4>3, <2>3, <2>i DEF StoreReply, HookReturns
      <4>4. CASE LockHandlers(r) \/ RunHandler(r)
        BY <4>4, <2>3, <2>a DEF LockHandlers, RunHandler, At, ReaderStates
      <4>5. QED
        BY <1>4, <2>6, <4>1, <4>2, <4>3, <4>4 DEF ReaderStep
    <3>3. Replying' = Replying
      BY <3>1, <3>2 DEF Replying
    <3>4. QED
      BY <2>1, <3>1, <3>3, <1>0, <1>s DEF q
  <2>7. QED
    BY <2>4, <2>5, <2>6
<1>5. ASSUME NEW c \in Calls, EngineAnswers(c) PROVE Counted'
  BY <1>1, <1>5 DEF EngineAnswers
<1>6. ASSUME NEW e \in Events, EngineRaises(e) PROVE Counted'
  BY <1>1, <1>6 DEF EngineRaises
<1>7. ASSUME UNCHANGED vars PROVE Counted'
  BY <1>1, <1>7 DEF vars
<1>8. QED
  BY <1>2, <1>3, <1>4, <1>5, <1>6, <1>7 DEF Next, Finished

\* The semaphore work_available is worth the blocks in the queue less those whose
\* thread is between queueing and posting, for any number of callers and readers:
\* the writer neither sleeps on a queued block nor wakes for nothing.
THEOREM WorkCounted == Spec => []WorkIsCounted
<1>1. Init => Counted
  <2> SUFFICES ASSUME Init PROVE Counted
    OBVIOUS
  <2>1. ReaderIdle.pc = "idle"
    BY Records DEF ReaderIdle, ReaderStates
  <2>2. Posting = {} /\ Replying = {}
    BY <2>1 DEF Init, Posting, Replying
  <2>3. Cardinality({}) = 0
    BY FS_EmptySet
  <2>4. Len(queue) = 0 /\ work = 0
    BY DEF Init
  <2>5. QED
    BY <2>2, <2>3, <2>4 DEF Counted
<1>2. Counted => WorkIsCounted
  BY DEF Counted, WorkIsCounted, Posting, Replying
<1>3. QED
  BY <1>1, <1>2, CountStep, Invariance, PTL DEF Spec
-----------------------------------------------------------------------------
(* The transaction table.                                                  *)

\* A call that holds the head of its bucket is found.
LEMMA HeadIsFound ==
  ASSUME NEW c \in Calls, trtab[id2hash(c)] = c
  PROVE  c \in Chain(id2hash(c))
BY CallsAssumption DEF Chain

\* Every step of a link in which no two calls in progress share a bucket leaves
\* the block of each of them at the head of its bucket.
LEMMA HeadStep ==
  ASSUME YxtInv, AtHead, NoSharing, NoSharing', [Next]_vars
  PROVE  AtHead'
<1> USE DEF YxtInv
<1> SUFFICES ASSUME NEW c \in Calls, InProgress(c)' PROVE trtab'[id2hash(c)] = c
  BY DEF AtHead, id2hash
<1>0. WantReply(c) /\ c # Nil
  BY CallsAssumption DEF InProgress
<1>h. \A d \in Calls : id2hash(d) \in 0 .. TabSize - 1
  BY ShapeAssumption DEF id2hash
<1>1. CASE UNCHANGED trtab /\ InProgress(c)
  BY <1>1 DEF AtHead
<1>2. ASSUME NEW d \in Calls, d # c, InProgress(d), InProgress(c), end_transaction(d)
      PROVE  trtab'[id2hash(c)] = c
  <2>1. id2hash(d) # id2hash(c)
    BY <1>2 DEF NoSharing
  <2>2. QED
    BY <1>2, <1>h, <2>1 DEF end_transaction, AtHead, YxtTypeOK
<1>3. CASE \E d \in Calls : CallStep(d)
  BY <1>1, <1>3 DEF CallStep, LockLine, EnqueueCall, PostWork, ReturnCall, tabVars, blockVars,
                    pipeVars, InProgress
<1>4. CASE WriterStep
  <2>0. wr.item \in Items \cup {Nil} /\ reply' = reply
    BY <1>4 DEF YxtTypeOK, WriterStep, WriterDequeues, WriterSaves, WriterSends,
                WriterFinishes, blockVars
  <2>1. CASE WriterDequeues
    <3>1. queue # <<>> => Head(queue) \in Items
      BY TailFacts DEF YxtTypeOK
    <3>2. wr'.pc \notin {"send", "failed"} /\ UNCHANGED <<trtab, toEngine>>
      BY <2>1, <3>1, Records DEF WriterDequeues, tabVars, pipeVars
    <3>3. InProgress(c)
      BY <2>0, <3>2 DEF InProgress
    <3>4. QED
      BY <3>2, <3>3, <1>1
  <2>2. CASE WriterSaves
    <3>1. wr'.item = wr.item /\ wr'.pc = "send" /\ wr.pc = "save" /\ toEngine' = toEngine
      BY <2>2, <2>0, Records DEF WriterSaves, pipeVars
    <3>2. CASE wr.item = c
      BY <2>2, <3>2, <1>0, <1>h DEF WriterSaves, save_transaction, YxtTypeOK
    <3>3. CASE wr.item # c
      <4>1. InProgress(c)
        BY <3>1, <3>3, <2>0 DEF InProgress
      <4>2. CASE ~WantReply(wr.item)
        BY <2>2, <4>1, <4>2, <1>1 DEF WriterSaves, tabVars
      <4>3. CASE WantReply(wr.item)
        <5>1. PICK d \in Calls : d = wr.item
          BY <4>3 DEF WantReply
        <5>2. save_transaction(d) /\ InProgress(d)'
          BY <2>2, <3>1, <4>3, <5>1 DEF WriterSaves, InProgress
        <5>3. id2hash(d) # id2hash(c)
          BY <3>3, <5>1, <5>2 DEF NoSharing, id2hash
        <5>4. QED
          BY <4>1, <5>2, <5>3, <1>h DEF save_transaction, AtHead, YxtTypeOK
      <4>4. QED
        BY <4>2, <4>3
    <3>4. QED
      BY <3>2, <3>3
  <2>3. CASE WriterSends
    <3>1. UNCHANGED trtab /\ wr.pc = "send" /\ wr'.item = wr.item
      BY <2>3, <2>0, Records DEF WriterSends, tabVars
    <3>2. c \in toEngine' => c \in toEngine \/ wr.item = c
      BY <2>3 DEF WriterSends
    <3>3. InProgress(c)
      BY <2>0, <3>1, <3>2 DEF InProgress
    <3>4. QED
      BY <3>1, <3>3, <1>1
  <2>4. CASE WriterFinishes
    <3>1. wr'.pc = "wait" /\ toEngine' = toEngine
      BY <2>4, Records DEF WriterFinishes, WriterWaits, pipeVars
    <3>2. c \in toEngine /\ reply[c] = Nil /\ InProgress(c)
      BY <2>0, <3>1 DEF InProgress
    <3>3. CASE WantReply(wr.item) /\ wr.pc = "failed" /\ end_transaction(wr.item)
      <4>1. wr.item \in Calls /\ InProgress(wr.item)
        BY <3>3 DEF InProgress, WantReply
      <4>2. wr.item # c
        BY <3>2, <3>3 DEF AllCalls, CallInv, Early
      <4>3. QED
        BY <3>2, <3>3, <4>1, <4>2, <1>2
    <3>4. CASE UNCHANGED tabVars
      BY <3>2, <3>4, <1>1 DEF tabVars
    <3>5. QED
      BY <2>4, <3>3, <3>4 DEF WriterFinishes
  <2>5. QED
    BY <1>4, <2>1, <2>2, <2>3, <2>4 DEF WriterStep
<1>5. CASE \E r \in Readers : ReaderStep(r)
  <2> PICK r \in Readers : ReaderStep(r)
    BY <1>5
  <2>1. UNCHANGED <<wr, toEngine>>
    BY DEF ReaderStep, ReadLine, find_transaction, StoreReply, LockHandlers,
           RunHandler, QueueReply, PostReply, HookReturns, pipeVars
  <2>2. CASE StoreReply(r)
    <3> DEFINE d == rd[r].block
    <3>1. d \in Calls /\ d = rd[r].msg /\ WantReply(d) /\ Busy(d) /\ end_transaction(d)
      BY <2>2 DEF StoreReply, Shape, Fits, Busy
    <3>2. d \in toEngine /\ reply[d] = Nil /\ Late(d)
      BY <3>1 DEF AllCalls, CallInv, Late, Around, Fresh
    <3>3. InProgress(d)
      BY <3>1, <3>2 DEF InProgress
    <3>4. reply' = [reply EXCEPT ![d] = d]
      BY <2>2, <3>1 DEF StoreReply
    <3>5. CASE d = c
      <4>1. reply'[c] = c
        BY <3>4, <3>5 DEF YxtTypeOK
      <4>2. ~(wr.item = c /\ wr.pc \in {"send", "failed"})
        BY <3>2, <3>5 DEF AllCalls, CallInv, Early
      <4>3. QED
        BY <4>1, <4>2, <2>1, <1>0 DEF InProgress
    <3>6. CASE d # c
      <4>1. reply'[c] = reply[c]
        BY <3>4, <3>6 DEF YxtTypeOK
      <4>2. InProgress(c)
        BY <4>1, <2>1 DEF InProgress
      <4> HIDE DEF d
      <4>3. QED
        BY <4>2, <3>1, <3>3, <3>6, <1>2
    <3>7. QED
      BY <3>5, <3>6
  <2>3. CASE ~StoreReply(r)
    <3>1. UNCHANGED <<trtab, reply>>
      BY <2>3 DEF ReaderStep, ReadLine, find_transaction, LockHandlers, RunHandler,
                  QueueReply, PostReply, HookReturns, tabVars, blockVars
    <3>2. InProgress(c)
      BY <2>1, <3>1 DEF InProgress
    <3>3. QED
      BY <3>1, <3>2, <1>1
  <2>4. QED
    BY <2>2, <2>3
<1>6. CASE \/ \E d \in Calls : EngineAnswers(d)
           \/ \E e \in Events : EngineRaises(e)
  <2>1. UNCHANGED <<trtab, wr, toEngine, reply>>
    BY <1>6 DEF EngineAnswers, EngineRaises, tabVars, blockVars
  <2>2. QED
    BY <2>1, <1>1 DEF InProgress
<1>7. CASE UNCHANGED vars
  <2>1. UNCHANGED <<trtab, wr, toEngine, reply>>
    BY <1>7 DEF vars, tabVars, blockVars, pipeVars
  <2>2. QED
    BY <2>1, <1>1 DEF InProgress
<1>8. QED
  BY <1>3, <1>4, <1>5, <1>6, <1>7 DEF Next, Finished

\* As long as no two calls in progress share a bucket of the transaction table,
\* process_reply() finds every call whose answer arrives while it is waited for.
\* The numbers of gen_id() are consecutive, so this covers every run in which a
\* call is over before the one TRANS_TABLE_SIZE numbers later is sent.
THEOREM ExpectedFound == Spec /\ []NoSharing => []ExpectedIsFound
<1>1. Init => AtHead
  <2> SUFFICES ASSUME Init, NEW c \in Calls PROVE ~InProgress(c)
    BY DEF AtHead
  <2>1. wr.pc = "wait" /\ toEngine = {}
    BY Records DEF Init, WriterWaits
  <2>2. QED
    BY <2>1 DEF InProgress
<1>2. YxtInv /\ AtHead => ExpectedIsFound
  <2> SUFFICES ASSUME YxtInv, AtHead, NEW r \in Readers, rd[r].pc = "answer",
                      WantReply(rd[r].msg)
               PROVE  rd[r].msg \in Chain(id2hash(rd[r].msg))
    BY DEF ExpectedIsFound
  <2>1. rd[r].msg \in Calls /\ Busy(rd[r].msg)
    BY DEF WantReply, Busy
  <2>2. rd[r].msg \in toEngine /\ reply[rd[r].msg] = Nil
    BY <2>1 DEF YxtInv, AllCalls, CallInv, Late, Around, Fresh
  <2>3. InProgress(rd[r].msg)
    BY <2>2 DEF InProgress
  <2>4. QED
    BY <2>1, <2>3, HeadIsFound DEF AtHead
<1>3. QED
  BY <1>1, <1>2, HeadStep, Invariance, PTL DEF Spec
=============================================================================
