---------------------------- MODULE QueueLemmas ----------------------------
(* What putting an element into a queue and taking one out does to the set of *)
(* its elements.  The queues of the code are async channels and VecDeques;    *)
(* the proofs about the modules that model them need no more than this.       *)
EXTENDS Sequences, Integers, TLAPS

Elems(q) == {q[i] : i \in DOMAIN q}

\* No element of A is in the queue twice.
Once(q, A) == \A i, j \in DOMAIN q : q[i] = q[j] /\ q[i] \in A => i = j

\* The positions of a queue, and what is at them.
LEMMA DomainOfQueue ==
    ASSUME NEW S, NEW q \in Seq(S)
    PROVE  Len(q) \in Nat /\ DOMAIN q = 1..Len(q) /\ \A i \in 1..Len(q) : q[i] \in S
OBVIOUS

\* Nothing is in an empty queue.
LEMMA EmptyQueue == Elems(<<>>) = {} /\ \A A : Once(<<>>, A)
BY DEF Elems, Once

\* The elements of a queue are of its type.
LEMMA ElemsType ==
    ASSUME NEW S, NEW q \in Seq(S)
    PROVE  Elems(q) \subseteq S
BY DomainOfQueue DEF Elems

\* Appending (push_back, a channel's send) moves nothing and puts x last.
LEMMA AppendIndex ==
    ASSUME NEW S, NEW q \in Seq(S), NEW x \in S
    PROVE  /\ Append(q, x) \in Seq(S) /\ Append(q, x) # <<>>
           /\ DOMAIN Append(q, x) = 1..(Len(q) + 1) /\ Len(Append(q, x)) = Len(q) + 1
           /\ \A i \in 1..Len(q) : Append(q, x)[i] = q[i]
           /\ Append(q, x)[Len(q) + 1] = x
OBVIOUS

\* Appending adds x and nothing else.
LEMMA AppendElems ==
    ASSUME NEW S, NEW q \in Seq(S), NEW x \in S
    PROVE  Elems(Append(q, x)) = Elems(q) \cup {x}
<1>1. \A y \in Elems(q) : y \in Elems(Append(q, x))
  BY AppendIndex, DomainOfQueue DEF Elems
<1>2. x \in Elems(Append(q, x))
  BY AppendIndex, DomainOfQueue DEF Elems
<1>3. \A y \in Elems(Append(q, x)) : y \in Elems(q) \cup {x}
  <2> SUFFICES ASSUME NEW i \in 1..(Len(q) + 1) PROVE Append(q, x)[i] \in Elems(q) \cup {x}
    BY AppendIndex DEF Elems
  <2>1. CASE i = Len(q) + 1
    BY <2>1, AppendIndex
  <2>2. CASE i \in 1..Len(q)
    BY <2>2, AppendIndex, DomainOfQueue DEF Elems
  <2> QED
    BY <2>1, <2>2, DomainOfQueue
<1> QED
  BY <1>1, <1>2, <1>3

\* Appending what is not there makes no copy.
LEMMA AppendOnce ==
    ASSUME NEW S, NEW q \in Seq(S), NEW x \in S, NEW A, Once(q, A),
           x \in A => x \notin Elems(q)
    PROVE  Once(Append(q, x), A)
<1> SUFFICES ASSUME NEW i \in 1..(Len(q) + 1), NEW j \in 1..(Len(q) + 1),
                    Append(q, x)[i] = Append(q, x)[j], Append(q, x)[i] \in A
             PROVE  i = j
  BY AppendIndex DEF Once
<1>1. CASE i \in 1..Len(q) /\ j \in 1..Len(q)
  BY <1>1, AppendIndex, DomainOfQueue DEF Once
<1>2. CASE i = Len(q) + 1 /\ j \in 1..Len(q)
  BY <1>2, AppendIndex, DomainOfQueue DEF Elems
<1>3. CASE j = Len(q) + 1 /\ i \in 1..Len(q)
  BY <1>3, AppendIndex, DomainOfQueue DEF Elems
<1> QED
  BY <1>1, <1>2, <1>3, DomainOfQueue

\* Taking the head (pop_front, recv) moves every other element up by one.
LEMMA TailIndex ==
    ASSUME NEW S, NEW q \in Seq(S), q # <<>>
    PROVE  /\ Head(q) \in S /\ Tail(q) \in Seq(S) /\ Len(q) >= 1 /\ Head(q) = q[1]
           /\ DOMAIN Tail(q) = 1..(Len(q) - 1) /\ Len(Tail(q)) = Len(q) - 1
           /\ \A i \in 1..(Len(q) - 1) : Tail(q)[i] = q[i + 1]
OBVIOUS

\* Taking the head removes nothing else.
LEMMA TailElems ==
    ASSUME NEW S, NEW q \in Seq(S), q # <<>>
    PROVE  Elems(q) = Elems(Tail(q)) \cup {Head(q)}
<1>1. Head(q) \in Elems(q)
  BY TailIndex, DomainOfQueue DEF Elems
<1>2. \A y \in Elems(Tail(q)) : y \in Elems(q)
  BY TailIndex, DomainOfQueue DEF Elems
<1>3. \A y \in Elems(q) : y \in Elems(Tail(q)) \cup {Head(q)}
  <2> SUFFICES ASSUME NEW i \in 1..Len(q) PROVE q[i] \in Elems(Tail(q)) \cup {Head(q)}
    BY DomainOfQueue DEF Elems
  <2>1. CASE i = 1
    BY <2>1, TailIndex
  <2>2. CASE i # 1
    <3>1. i - 1 \in 1..(Len(q) - 1) /\ (i - 1) + 1 = i
      BY <2>2, DomainOfQueue
    <3>2. q[i] = Tail(q)[i - 1]
      BY <3>1, TailIndex
    <3> QED
      BY <3>1, <3>2, TailIndex DEF Elems
  <2> QED
    BY <2>1, <2>2
<1> QED
  BY <1>1, <1>2, <1>3

\* Of a queue without copies, the head that was taken is gone.
LEMMA TailOnce ==
    ASSUME NEW S, NEW q \in Seq(S), q # <<>>, NEW A, Once(q, A)
    PROVE  Once(Tail(q), A) /\ (Head(q) \in A => Head(q) \notin Elems(Tail(q)))
<1>1. Once(Tail(q), A)
  <2> SUFFICES ASSUME NEW i \in 1..(Len(q) - 1), NEW j \in 1..(Len(q) - 1),
                      Tail(q)[i] = Tail(q)[j], Tail(q)[i] \in A
               PROVE  i = j
    BY TailIndex DEF Once
  <2>1. i + 1 \in DOMAIN q /\ j + 1 \in DOMAIN q
    BY DomainOfQueue
  <2>2. q[i + 1] = q[j + 1] /\ q[i + 1] \in A
    BY TailIndex
  <2>3. i + 1 = j + 1
    BY <2>1, <2>2 DEF Once
  <2> QED
    BY <2>3, DomainOfQueue
<1>2. ASSUME Head(q) \in A, Head(q) \in Elems(Tail(q)) PROVE FALSE
  <2>1. PICK i \in 1..(Len(q) - 1) : Tail(q)[i] = Head(q)
    BY <1>2, TailIndex DEF Elems
  <2>2. 1 \in DOMAIN q /\ i + 1 \in DOMAIN q /\ 1 # i + 1
    BY DomainOfQueue
  <2>3. q[1] = q[i + 1] /\ q[1] \in A
    BY <1>2, <2>1, TailIndex
  <2> QED
    BY <2>2, <2>3 DEF Once
<1> QED
  BY <1>1, <1>2

\* The last elements of a queue.
LEMMA SuffixElems ==
    ASSUME NEW S, NEW q \in Seq(S), NEW n \in 0..Len(q), NEW A, Once(q, A)
    PROVE  /\ SubSeq(q, n + 1, Len(q)) \in Seq(S)
           /\ Elems(SubSeq(q, n + 1, Len(q))) \subseteq Elems(q)
           /\ Once(SubSeq(q, n + 1, Len(q)), A)
<1> DEFINE r == SubSeq(q, n + 1, Len(q))
<1>1. /\ r \in Seq(S) /\ DOMAIN r = 1..(Len(q) - n)
      /\ \A i \in 1..(Len(q) - n) : r[i] = q[i + n] /\ i + n \in DOMAIN q
  BY DomainOfQueue
<1>2. Elems(r) \subseteq Elems(q)
  BY <1>1 DEF Elems
<1>3. Once(r, A)
  <2> SUFFICES ASSUME NEW i \in 1..(Len(q) - n), NEW j \in 1..(Len(q) - n),
                      r[i] = r[j], r[i] \in A
               PROVE  i = j
    BY <1>1 DEF Once
  <2>1. i + n = j + n
    BY <1>1 DEF Once
  <2> QED
    BY <2>1, DomainOfQueue
<1> QED
  BY <1>1, <1>2, <1>3
=============================================================================
