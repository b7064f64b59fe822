----------------------- MODULE ParameterQueuesProofs -----------------------
(* The queueing guarantees for any number of parameters, executions,         *)
(* dequeuers and references.                                                 *)
EXTENDS ParameterQueues, Integers, FiniteSetTheorems, SequenceTheorems, TLAPS

(* Sequences of references laid end to end, as the done, consumed, in-transit *)
(* and ready references of a parameter queue are.                            *)

(* Concatenation of reference sequences is associative.                     *)
LEMMA ConcatAssoc ==
  ASSUME NEW x \in Seq(Nat), NEW y \in Seq(Nat), NEW z \in Seq(Nat)
  PROVE  (x \o y) \o z = x \o (y \o z)
BY SMTT(30), ConcatAssociative

(* Concatenation stays within reference sequences and adds the lengths.      *)
LEMMA ConcatClosed ==
  ASSUME NEW x \in Seq(Nat), NEW y \in Seq(Nat)
  PROVE  (x \o y) \in Seq(Nat) /\ Len(x \o y) = Len(x) + Len(y)
OBVIOUS

(* Four segments in a row, seen as the first and the other three.            *)
LEMMA FirstAndRest ==
  ASSUME NEW a \in Seq(Nat), NEW b \in Seq(Nat), NEW c \in Seq(Nat), NEW d \in Seq(Nat)
  PROVE  a \o b \o c \o d = a \o (b \o c \o d) /\ (b \o c \o d) \in Seq(Nat)
<1>0. b \o c \in Seq(Nat)
  BY ConcatClosed
<1>1. a \o ((b \o c) \o d) = (a \o (b \o c)) \o d
  <2>1. ASSUME NEW e \in Seq(Nat) PROVE (a \o e) \o d = a \o (e \o d)
    BY SMTT(30), ConcatAssoc
  <2> QED
    BY <1>0, <2>1, Zenon
<1>2. a \o (b \o c) = (a \o b) \o c
  BY ConcatAssoc, Zenon
<1>3. (b \o c \o d) \in Seq(Nat)
  BY <1>0, ConcatClosed
<1> QED
  BY <1>1, <1>2, <1>3

(* The elements of a suffix.                                                 *)
LEMMA SuffixElements ==
  ASSUME NEW w \in Seq(Nat), NEW m \in 1..(Len(w)+1)
  PROVE  /\ SubSeq(w, m, Len(w)) \in Seq(Nat)
         /\ Len(SubSeq(w, m, Len(w))) = Len(w) - m + 1
         /\ \A i \in 1..(Len(w)-m+1) : SubSeq(w, m, Len(w))[i] = w[m+i-1]
OBVIOUS

(* The elements of a concatenation.                                          *)
LEMMA ConcatElements ==
  ASSUME NEW x \in Seq(Nat), NEW y \in Seq(Nat)
  PROVE  /\ x \o y \in Seq(Nat) /\ Len(x \o y) = Len(x) + Len(y)
         /\ \A i \in 1..(Len(x) + Len(y)) :
               (x \o y)[i] = IF i <= Len(x) THEN x[i] ELSE y[i - Len(x)]
OBVIOUS

(* Dropping references from the first segment drops them from the whole:     *)
(* dequeuing done references dequeues from the pipe.                         *)
LEMMA DropFromFirst ==
  ASSUME NEW a \in Seq(Nat), NEW z \in Seq(Nat), NEW n \in 1..Len(a)
  PROVE  SubSeq(a, n+1, Len(a)) \o z = SubSeq(a \o z, n+1, Len(a \o z))
<1> DEFINE s == SubSeq(a, n+1, Len(a))
           w == a \o z
           r == SubSeq(w, n+1, Len(w))
           q == s \o z
<1>1. s \in Seq(Nat) /\ Len(s) = Len(a) - n /\ \A i \in 1..(Len(a)-n) : s[i] = a[n+i]
  OBVIOUS
<1>2. w \in Seq(Nat) /\ Len(w) = Len(a) + Len(z)
      /\ \A i \in 1..Len(w) : w[i] = IF i <= Len(a) THEN a[i] ELSE z[i - Len(a)]
  OBVIOUS
<1> HIDE DEF s, w
<1>3. r \in Seq(Nat) /\ Len(r) = Len(w) - n /\ \A i \in 1..(Len(w)-n) : r[i] = w[n+i]
  <2>1. n + 1 \in 1..(Len(w)+1)
    BY <1>2
  <2> QED
    BY <1>2, <2>1, SuffixElements
<1> HIDE DEF r
<1>4. q \in Seq(Nat) /\ Len(q) = Len(s) + Len(z)
      /\ \A i \in 1..(Len(s) + Len(z)) : q[i] = IF i <= Len(s) THEN s[i] ELSE z[i - Len(s)]
  BY <1>1, ConcatElements
<1> HIDE DEF q
<1>5. Len(q) = Len(r)
  BY <1>1, <1>2, <1>3, <1>4
<1>7. ASSUME NEW i \in 1..Len(q) PROVE q[i] = r[i]
  <2>0. /\ n \in Nat /\ Len(a) \in Nat /\ Len(z) \in Nat /\ Len(w) = Len(a) + Len(z)
        /\ Len(q) = Len(a) - n + Len(z) /\ n <= Len(a) /\ i \in Nat /\ i >= 1
        /\ i <= Len(a) - n + Len(z)
    <3>1. n \in Nat /\ Len(a) \in Nat /\ Len(z) \in Nat /\ n <= Len(a)
      OBVIOUS
    <3>2. Len(q) = Len(a) - n + Len(z)
      BY <1>1, <1>4
    <3>3. i \in 1..(Len(a) - n + Len(z))
      BY <3>2
    <3> QED
      BY <3>1, <3>2, <3>3, <1>2
  <2>a. n + i \in 1..Len(w) /\ i \in 1..(Len(w) - n)
    BY <2>0
  <2>1. r[i] = w[n+i] /\ n + i \in 1..Len(w)
    BY <2>a, <1>3
  <2>2. i \in 1..(Len(s) + Len(z)) /\ i \in Nat /\ n \in Nat /\ Len(a) \in Nat
    BY <1>4
  <2>3. CASE i <= Len(s)
    <3>0. i \in 1..Len(s) /\ i \in 1..(Len(a) - n)
      BY <2>2, <2>3, <1>1
    <3>a. s[i] = a[n+i]
      BY <3>0, <1>1
    <3>1. q[i] = s[i] /\ s[i] = a[n+i]
      BY SMTT(30), <2>2, <3>0, <3>a, <1>4
    <3>2. n + i <= Len(a)
      BY <2>2, <2>3, <1>1
    <3>3. w[n+i] = a[n+i]
      BY <2>1, <3>2, <1>2
    <3> QED
      BY <2>1, <3>1, <3>3
  <2>4. CASE ~(i <= Len(s))
    <3>1. q[i] = z[i - Len(s)]
      BY <2>2, <2>4, <1>4
    <3>2. ~(n + i <= Len(a)) /\ n + i - Len(a) = i - Len(s)
      BY <2>2, <2>4, <1>1
    <3>3. w[n+i] = z[n + i - Len(a)]
      <4> DEFINE j == n + i
      <4>1. j \in 1..Len(w) /\ ~(j <= Len(a))
        BY <2>a, <3>2
      <4> HIDE DEF j
      <4>2. w[j] = z[j - Len(a)]
        BY <4>1, <1>2
      <4> QED
        BY <4>2 DEF j
    <3> QED
      BY <2>1, <3>1, <3>2, <3>3
  <2> QED
    BY <2>2, <2>3, <2>4
<1>6. q = r
  BY <1>3, <1>4, <1>5, <1>7, SeqEqual
<1> QED
  BY <1>6 DEF s, r, q, w

(* The four segments of a parameter queue in a row.                          *)
Chain(a, b, c, d) == a \o b \o c \o d

(* What is left when n references have been taken.                           *)
Drop(s, n) == SubSeq(s, n+1, Len(s))

(* A reference taken off the last segment and held in the third.             *)
LEMMA ChainPop ==
  ASSUME NEW a \in Seq(Nat), NEW b \in Seq(Nat), NEW d \in Seq(Nat), d # <<>>
  PROVE  Chain(a, b, <<>>, d) = Chain(a, b, <<Head(d)>>, Tail(d))
BY SMTT(30) DEF Chain

(* The held reference appended to the second segment.                        *)
LEMMA ChainPush ==
  ASSUME NEW a \in Seq(Nat), NEW b \in Seq(Nat), NEW d \in Seq(Nat), NEW r \in Nat
  PROVE  Chain(a, b, <<r>>, d) = Chain(a, Append(b, r), <<>>, d)
<1>1. Append(b, r) = b \o <<r>> /\ <<r>> \in Seq(Nat)
  BY AppendIsConcat
<1>2. a \o (b \o <<r>>) = (a \o b) \o <<r>>
  BY <1>1, ConcatAssoc
<1>3. (a \o Append(b, r)) \o <<>> = a \o Append(b, r)
  BY ConcatEmptySeq, <1>1
<1> QED
  BY <1>1, <1>2, <1>3 DEF Chain

(* The second segment moved to the end of the first.                         *)
LEMMA ChainMove ==
  ASSUME NEW a \in Seq(Nat), NEW b \in Seq(Nat), NEW c \in Seq(Nat), NEW d \in Seq(Nat)
  PROVE  Chain(a, b, c, d) = Chain(a \o b, <<>>, c, d)
BY DEF Chain

(* References dropped from the first segment.                                *)
LEMMA ChainTake ==
  ASSUME NEW a \in Seq(Nat), NEW b \in Seq(Nat), NEW c \in Seq(Nat), NEW d \in Seq(Nat),
         NEW n \in 1..Len(a)
  PROVE  Chain(Drop(a, n), b, c, d) = Drop(Chain(a, b, c, d), n)
<1>1. ASSUME NEW x \in Seq(Nat)
      PROVE  x \o b \o c \o d = x \o (b \o c \o d) /\ b \o c \o d \in Seq(Nat)
  BY FirstAndRest, Zenon
<1> DEFINE s == SubSeq(a, n+1, Len(a))
           z == b \o c \o d
<1>2. s \in Seq(Nat)
  OBVIOUS
<1> HIDE DEF s
<1>3. s \o b \o c \o d = s \o z /\ z \in Seq(Nat)
  BY <1>1, <1>2, Zenon
<1>4. Chain(a, b, c, d) = a \o z
  BY <1>1, Zenon DEF Chain
<1> HIDE DEF z
<1>5. SubSeq(a, n+1, Len(a)) \o z = SubSeq(a \o z, n+1, Len(a \o z))
  BY <1>3, DropFromFirst
<1> QED
  <2>1. Chain(s, b, c, d) = s \o z
    BY <1>3, Zenon DEF Chain
  <2> QED
    BY <2>1, <1>4, <1>5, Zenon DEF s, Drop

(* What follows a sequence of references makes it longer and keeps it.       *)
LEMMA AppendGrows ==
  ASSUME NEW w \in Seq(Nat), NEW e \in Seq(Nat), e # <<>>
  PROVE  w \o e \in Seq(Nat) /\ Len(w \o e) > Len(w) /\ SubSeq(w \o e, 1, Len(w)) = w
OBVIOUS

(* The length of the whole is at least that of the first segment.            *)
LEMMA ChainLength ==
  ASSUME NEW a \in Seq(Nat), NEW b \in Seq(Nat), NEW c \in Seq(Nat), NEW d \in Seq(Nat)
  PROVE  Chain(a, b, c, d) \in Seq(Nat) /\ Len(Chain(a, b, c, d)) >= Len(a)
BY DEF Chain
-----------------------------------------------------------------------------

(* The tables' locks are held exactly while a reference is on its way from   *)
(* ready to consumed, and execution_mutex exactly while the QUEUE_AUTO       *)
(* executor is in execute_pipelined_graph.                                   *)
LockInv ==
    \A t \in Threads :
        /\ tables = t <=> pc[t] = "resolving"
        /\ pc[t] = "resolving" <=> hand[t] # NoHand
        /\ executionMutex = t <=>
              t \in AutoThreads /\ pc[t] \in {"running", "resolving", "finishing"}

(* Executors and left-over waves are all threads that resolve parameters.    *)
LEMMA SomeThreads ==
  /\ \A t \in Executors : t \in Threads
  /\ \A t \in AutoThreads : t \in Threads
  /\ \A t \in DirectThreads : t \in Threads
  /\ \A w \in LeftOvers : w \in Threads
BY DEF Threads, Executors

AwakeDequeuer == [at : {"entering", "asleep", "notified"}, param : Params, max : MaxRefs]

(* A dequeuer inside the call has a parameter and a max_refs.                *)
LEMMA Awake ==
  ASSUME TypeOK, NEW d \in Dequeuers, dequeuer[d].at # "idle"
  PROVE  dequeuer[d] \in AwakeDequeuer
BY DEF TypeOK, Idle, AwakeDequeuer

(* Sleeping and waking keep the dequeuers well formed.                       *)
LEMMA MoveDequeuer ==
  ASSUME TypeOK, NEW d \in Dequeuers, dequeuer[d].at # "idle",
         NEW where \in {"entering", "asleep", "notified"},
         dequeuer' = [dequeuer EXCEPT ![d].at = where]
  PROVE  dequeuer' \in [Dequeuers -> {Idle} \cup AwakeDequeuer]
<1>1. [dequeuer[d] EXCEPT !.at = where] \in AwakeDequeuer
  BY Awake DEF AwakeDequeuer
<1>2. dequeuer \in [Dequeuers -> {Idle} \cup AwakeDequeuer]
  BY DEF TypeOK, AwakeDequeuer
<1> QED
  BY <1>1, <1>2

(* Type correctness: what pipelining_api.rs and pipelining_executor.rs keep  *)
(* in a graph's queues is always well formed.                                *)
LEMMA TypeStep == TypeOK /\ LockInv /\ [Next]_vars => TypeOK'
<1> SUFFICES ASSUME TypeOK, LockInv, [Next]_vars PROVE TypeOK'
  OBVIOUS
<1> USE QueueAssumption DEF TypeOK, queueVars, lockVars, execVars
<1>1. ASSUME NEW p \in Params, NEW n \in BatchSizes, vxGraphParameterEnqueueReadyRef(p, n)
      PROVE  TypeOK'
  <2>1. n \in Nat /\ [i \in 1..n |-> enqueued[p] + i] \in Seq(Nat)
    OBVIOUS
  <2>2. ready' \in [Params -> Seq(Nat)] /\ enqueued' \in [Params -> Nat]
    BY SMTT(30), <1>1, <2>1 DEF vxGraphParameterEnqueueReadyRef
  <2> QED
    BY <1>1, <2>2 DEF vxGraphParameterEnqueueReadyRef
<1>2. ASSUME NEW t \in AutoThreads, SeeAllReady(t) PROVE TypeOK'
  BY <1>2 DEF SeeAllReady, Threads, Executors
<1>3. ASSUME NEW t \in AutoThreads, execute_pipelined_graph(t) PROVE TypeOK'
  BY <1>3 DEF execute_pipelined_graph, Threads, Executors
<1>4. ASSUME NEW t \in DirectThreads, BeginDirectTurn(t) PROVE TypeOK'
  BY <1>4 DEF BeginDirectTurn, Threads, Executors
<1>5. ASSUME NEW t \in Threads, NEW p \in Params, PopReady(t, p) PROVE TypeOK'
  <2>1. Head(ready[p]) \in Nat /\ Tail(ready[p]) \in Seq(Nat)
    <3>1. ready[p] \in Seq(Nat) /\ ready[p] # <<>>
      BY <1>5 DEF PopReady
    <3> QED
      BY ONLY <3>1
  <2>2. ready' \in [Params -> Seq(Nat)]
    BY <1>5, <2>1 DEF PopReady
  <2>3. hand' \in [Threads -> {NoHand} \cup [param : Params, ref : Nat]]
    BY <1>5, <2>1 DEF PopReady
  <2>4. pc' \in [Threads -> {"idle", "checked", "running", "resolving", "finishing"}]
    BY <1>5 DEF PopReady
  <2>5. left' \in [Threads -> SUBSET Params]
    BY <1>5 DEF PopReady
  <2> QED
    BY <1>5, <2>2, <2>3, <2>4, <2>5 DEF PopReady
<1>6. ASSUME NEW t \in Threads, NEW p \in Params, ResolveWithoutReady(t, p) PROVE TypeOK'
  <2>1. (IF consumed[p] = <<>> THEN 0 ELSE consumed[p][Len(consumed[p])]) \in Nat
    OBVIOUS
  <2>2. bound' \in [Threads -> [Params -> Nat]]
    BY <1>6, <2>1 DEF ResolveWithoutReady
  <2>3. left' \in [Threads -> SUBSET Params]
    BY <1>6 DEF ResolveWithoutReady
  <2> QED
    BY <1>6, <2>2, <2>3 DEF ResolveWithoutReady
<1>7. ASSUME NEW t \in Threads, PushConsumed(t) PROVE TypeOK'
  <2>1. hand[t].param \in Params /\ hand[t].ref \in Nat
    BY <1>7 DEF PushConsumed, LockInv
  <2>2. consumed' \in [Params -> Seq(Nat)]
    BY <1>7, <2>1 DEF PushConsumed
  <2>3. bound' \in [Threads -> [Params -> Nat]]
    BY <1>7, <2>1 DEF PushConsumed
  <2>4. hand' \in [Threads -> {NoHand} \cup [param : Params, ref : Nat]]
    BY <1>7 DEF PushConsumed
  <2>5. pc' \in [Threads -> {"idle", "checked", "running", "resolving", "finishing"}]
    BY <1>7 DEF PushConsumed
  <2> QED
    BY <1>7, <2>2, <2>3, <2>4, <2>5 DEF PushConsumed
<1>9. ASSUME NEW t \in Threads, EndNodes(t) PROVE TypeOK'
  BY <1>9 DEF EndNodes
<1>8. ASSUME NEW t \in Threads, FailNode(t) PROVE TypeOK'
  BY <1>8 DEF FailNode
<1>18. ASSUME NEW t \in Threads, NEW w \in Threads, FailWave(t, w) PROVE TypeOK'
  <2>1. PICK unresolved \in SUBSET left[t], used \in SUBSET (Params \ left[t]) :
          /\ left' = [left EXCEPT ![t] = Params, ![w] = unresolved]
          /\ bound' = [bound EXCEPT ![w] = [p \in Params |-> IF p \in used THEN bound[t][p] ELSE 0]]
    BY <1>18 DEF FailWave
  <2>2. left' \in [Threads -> SUBSET Params]
    BY <2>1
  <2>3. [p \in Params |-> IF p \in used THEN bound[t][p] ELSE 0] \in [Params -> Nat]
    OBVIOUS
  <2>4. bound' \in [Threads -> [Params -> Nat]]
    BY <2>1, <2>3
  <2>5. pc' \in [Threads -> {"idle", "checked", "running", "resolving", "finishing"}]
    BY <1>18 DEF FailWave
  <2> QED
    BY <1>18, <2>2, <2>4, <2>5 DEF FailWave
<1>19. ASSUME NEW w \in Threads, EndLeftOver(w) PROVE TypeOK'
  BY <1>19 DEF EndLeftOver, Unbound
<1>10. ASSUME NEW t \in Threads, NEW p \in Params, move_refs_to_done(t, p) PROVE TypeOK'
  <2>1. done' \in [Params -> Seq(Nat)] /\ consumed' \in [Params -> Seq(Nat)]
    BY <1>10 DEF move_refs_to_done
  <2>2. ASSUME NEW d \in AsleepOn(p), dequeuer' = [dequeuer EXCEPT ![d].at = "notified"]
        PROVE  dequeuer' \in [Dequeuers -> {Idle} \cup AwakeDequeuer]
    <3>1. d \in Dequeuers /\ dequeuer[d].at # "idle"
      BY DEF AsleepOn
    <3> QED
      BY <2>2, <3>1, MoveDequeuer
  <2>3. dequeuer' \in [Dequeuers -> {Idle} \cup AwakeDequeuer]
    BY <1>10, <2>2 DEF move_refs_to_done, NotifyOne, AwakeDequeuer
  <2>4. left' \in [Threads -> SUBSET Params]
    BY <1>10 DEF move_refs_to_done
  <2> QED
    BY <1>10, <2>1, <2>3, <2>4 DEF move_refs_to_done, AwakeDequeuer
<1>11. ASSUME NEW t \in Threads, EndExecution(t) PROVE TypeOK'
  BY <1>11 DEF EndExecution, Unbound
<1>12. ASSUME NEW d \in Dequeuers, NEW p \in Params, NEW max \in MaxRefs, EnterDequeue(d, p, max)
       PROVE  TypeOK'
  BY <1>12 DEF EnterDequeue
<1>13. ASSUME NEW d \in Dequeuers, SleepOnDone(d) PROVE TypeOK'
  <2>1. dequeuer' \in [Dequeuers -> {Idle} \cup AwakeDequeuer]
    BY <1>13, MoveDequeuer DEF SleepOnDone
  <2> QED
    BY <1>13, <2>1 DEF SleepOnDone, AwakeDequeuer
<1>14. ASSUME NEW d \in Dequeuers, TakeDone(d) PROVE TypeOK'
  <2> DEFINE p == dequeuer[d].param
             n == IF dequeuer[d].max < Len(done[p]) THEN dequeuer[d].max ELSE Len(done[p])
  <2>1. p \in Params /\ dequeuer[d].max \in Nat
    BY <1>14, Awake DEF TakeDone, AwakeDequeuer
  <2>2. done[p] \in Seq(Nat) /\ n \in 0..Len(done[p])
    BY <2>1
  <2>3. SubSeq(done[p], n + 1, Len(done[p])) \in Seq(Nat)
    <3> DEFINE q == done[p]
    <3> HIDE DEF q, n
    <3>1. n + 1 \in 1..(Len(q) + 1) /\ q \in Seq(Nat)
      BY <2>2 DEF q
    <3> QED
      BY <3>1, SuffixElements DEF q
  <2>4. done' = [done EXCEPT ![p] = SubSeq(done[p], n + 1, Len(done[p]))]
    BY <1>14 DEF TakeDone
  <2>5. done' \in [Params -> Seq(Nat)]
    BY <2>3, <2>4
  <2> QED
    BY <1>14, <2>5 DEF TakeDone
<1>15. ASSUME NEW d \in Dequeuers, SpuriousWake(d) PROVE TypeOK'
  <2>1. dequeuer' \in [Dequeuers -> {Idle} \cup AwakeDequeuer]
    BY <1>15, MoveDequeuer DEF SpuriousWake
  <2> QED
    BY <1>15, <2>1 DEF SpuriousWake, AwakeDequeuer
<1>16. CASE UNCHANGED vars
  BY <1>16 DEF vars
<1>17. CASE Next
  BY <1>17, SomeThreads, <1>1, <1>2, <1>3, <1>4, <1>5, <1>6, <1>7, <1>8, <1>18, <1>19, <1>9, <1>10, <1>11, <1>12,
     <1>13, <1>14, <1>15, Zenon DEF Next, BeginAuto, Resolve, Finish
<1> QED
  BY <1>16, <1>17
-----------------------------------------------------------------------------
(* An action of t leaves the locks' state of the other threads alone.        *)
LEMMA LockStep == TypeOK /\ LockInv /\ [Next]_vars => LockInv'
<1> SUFFICES ASSUME TypeOK, LockInv, [Next]_vars PROVE LockInv'
  OBVIOUS
<1> USE QueueAssumption DEF TypeOK, LockInv, queueVars, lockVars, execVars
<1>1. ASSUME UNCHANGED <<tables, executionMutex, pc, hand>>
      PROVE  LockInv'
  BY <1>1
<1>2. ASSUME NEW t \in AutoThreads, SeeAllReady(t) PROVE LockInv'
  BY <1>2 DEF SeeAllReady, Threads, Executors
<1>3. ASSUME NEW t \in AutoThreads, execute_pipelined_graph(t) PROVE LockInv'
  BY <1>3 DEF execute_pipelined_graph, Threads, Executors
<1>4. ASSUME NEW t \in DirectThreads, BeginDirectTurn(t) PROVE LockInv'
  BY <1>4 DEF BeginDirectTurn, Threads, Executors
<1>5. ASSUME NEW t \in Threads, NEW p \in Params, PopReady(t, p) PROVE LockInv'
  <2>1. hand'[t] # NoHand /\ \A u \in Threads \ {t} : hand'[u] = hand[u]
    BY <1>5 DEF PopReady, NoHand
  <2>2. tables = None /\ tables' = t /\ pc' = [pc EXCEPT ![t] = "resolving"]
        /\ pc[t] = "running" /\ executionMutex' = executionMutex
    BY <1>5 DEF PopReady
  <2> QED
    BY <2>1, <2>2
<1>6. ASSUME NEW t \in Threads, PushConsumed(t) PROVE LockInv'
  BY <1>6 DEF PushConsumed
<1>7. ASSUME NEW t \in Threads, EndNodes(t) PROVE LockInv'
  BY <1>7 DEF EndNodes
<1>8. ASSUME NEW t \in Threads, EndExecution(t) PROVE LockInv'
  BY <1>8 DEF EndExecution
<1>10. ASSUME NEW t \in Threads, FailNode(t) PROVE LockInv'
  BY <1>10 DEF FailNode
<1>11. ASSUME NEW t \in AutoThreads, NEW w \in LeftOvers, FailWave(t, w) PROVE LockInv'
  <2>1. /\ t \in Threads /\ w \in Threads /\ t # w /\ w \notin AutoThreads
        /\ pc[t] = "running" /\ pc[w] = "idle"
        /\ pc' = [pc EXCEPT ![t] = "finishing", ![w] = "running"]
        /\ UNCHANGED <<tables, executionMutex, hand>>
    BY <1>11 DEF FailWave, Threads, Executors
  <2>2. /\ pc'[t] = "finishing" /\ pc'[w] = "running"
        /\ \A u \in Threads \ {t, w} : pc'[u] = pc[u]
    BY <2>1
  <2>3. executionMutex # w
    BY <2>1
  <2> QED
    BY <2>1, <2>2, <2>3
<1>12. ASSUME NEW w \in LeftOvers, EndLeftOver(w) PROVE LockInv'
  <2>1. w \in Threads /\ w \notin AutoThreads
    BY DEF Threads, Executors
  <2> QED
    BY <1>12, <2>1 DEF EndLeftOver
<1>9. CASE Next
  <2>1. \/ UNCHANGED <<tables, executionMutex, pc, hand>>
        \/ \E t \in AutoThreads : SeeAllReady(t) \/ execute_pipelined_graph(t)
        \/ \E t \in DirectThreads : BeginDirectTurn(t)
        \/ \E t \in Threads :
              \/ \E p \in Params : PopReady(t, p)
              \/ PushConsumed(t) \/ EndNodes(t) \/ EndExecution(t) \/ FailNode(t)
        \/ \E t \in AutoThreads, w \in LeftOvers : FailWave(t, w)
        \/ \E w \in LeftOvers : EndLeftOver(w)
    BY <1>9, SomeThreads
    DEF Next, BeginAuto, Resolve, Finish, vxGraphParameterEnqueueReadyRef,
        ResolveWithoutReady, move_refs_to_done, EnterDequeue, SleepOnDone, TakeDone,
        SpuriousWake
  <2> QED
    BY <2>1, <1>1, <1>2, <1>3, <1>4, <1>5, <1>6, <1>7, <1>8, <1>10, <1>11, <1>12, Zenon
<1> QED
  BY <1>1, <1>9 DEF vars

(* The queues of a graph are always well formed, and the locks of the two    *)
(* tables and execution_mutex are held exactly where the code holds them.    *)
THEOREM TypeAndLocksCorrect == Spec => [](TypeOK /\ LockInv)
<1>1. Init => TypeOK /\ LockInv
  BY QueueAssumption DEF Init, TypeOK, LockInv, Unbound, Idle, NoHand, Threads, Executors
<1> QED
  BY <1>1, TypeStep, LockStep, PTL DEF Spec
-----------------------------------------------------------------------------
(* A step that leaves a queue's four segments alone leaves the whole alone.  *)
LEMMA QuietStep ==
  ASSUME UNCHANGED <<ready, consumed, done, tables>>,
         tables # None => hand'[tables] = hand[tables]
  PROVE  UNCHANGED Whole
BY DEF Whole, Transit

(* What a queue holds is always a sequence of references.                    *)
LEMMA Segments ==
  ASSUME TypeOK, LockInv, NEW p \in Params
  PROVE  /\ done[p] \in Seq(Nat) /\ consumed[p] \in Seq(Nat) /\ ready[p] \in Seq(Nat)
         /\ Transit(p) \in Seq(Nat)
<1>1. ASSUME tables # None, hand[tables].param = p PROVE hand[tables].ref \in Nat
  BY <1>1, QueueAssumption DEF TypeOK, LockInv, NoHand
<1> QED
  BY <1>1 DEF TypeOK, Transit

(* The whole of a queue as a chain of its segments, before and after a step. *)
LEMMA WholeIsChain ==
  ASSUME NEW p \in Params
  PROVE  /\ Whole[p] = Chain(done[p], consumed[p], Transit(p), ready[p])
         /\ Whole'[p] = Chain(done'[p], consumed'[p], Transit(p)', ready'[p])
BY DEF Whole, Chain

(* Chains that stay the same, queue by queue, leave the whole as it is.      *)
LEMMA SameWhole ==
  ASSUME \A p \in Params : Whole'[p] = Whole[p]
  PROVE  UNCHANGED Whole
BY DEF Whole

(* Each step of the queues enqueues into one pipe, dequeues from one pipe,   *)
(* or leaves them all as they are.                                           *)
LEMMA PipeStep == TypeOK /\ LockInv /\ [Next]_vars => [Pipe!Next]_Whole
<1> SUFFICES ASSUME TypeOK, LockInv, [Next]_vars PROVE [Pipe!Next]_Whole
  OBVIOUS
<1> USE QueueAssumption
<1>1. ASSUME NEW p \in Params, NEW n \in BatchSizes, vxGraphParameterEnqueueReadyRef(p, n)
      PROVE  [Pipe!Next]_Whole
  <2> DEFINE e == [i \in 1..n |-> enqueued[p] + i]
  <2>1. e \in Seq(Nat) /\ e # <<>>
    <3>1. n \in Nat \ {0} /\ enqueued[p] \in Nat
      BY DEF TypeOK
    <3>2. e \in Seq(Nat) /\ Len(e) = n
      BY <3>1
    <3> QED
      BY <3>1, <3>2
  <2>2. \A q \in Params : Transit(q)' = Transit(q)
    BY <1>1 DEF vxGraphParameterEnqueueReadyRef, Transit, lockVars, execVars
  <2>3. ready' = [ready EXCEPT ![p] = @ \o e] /\ UNCHANGED <<done, consumed>>
    BY <1>1 DEF vxGraphParameterEnqueueReadyRef
  <2> HIDE DEF e
  <2>4. ready'[p] = ready[p] \o e /\ \A q \in Params \ {p} : ready'[q] = ready[q]
    BY <2>3 DEF TypeOK
  <2>5. Whole'[p] = Chain(done[p], consumed[p], Transit(p), ready[p] \o e)
    BY <2>2, <2>3, <2>4, WholeIsChain, Zenon
  <2>w. /\ Whole[p] = Chain(done[p], consumed[p], Transit(p), ready[p])
        /\ Whole'[p] = Chain(done'[p], consumed'[p], Transit(p)', ready'[p])
    BY WholeIsChain, Zenon
  <2>s. /\ done[p] \in Seq(Nat) /\ consumed[p] \in Seq(Nat) /\ ready[p] \in Seq(Nat)
        /\ Transit(p) \in Seq(Nat)
    BY Segments, Zenon
  <2>6. Len(Whole'[p]) > Len(Whole[p]) /\ SubSeq(Whole'[p], 1, Len(Whole[p])) = Whole[p]
    <3> DEFINE a == done[p]  b == consumed[p]  c == Transit(p)  d == ready[p]
    <3>0. /\ a \in Seq(Nat) /\ b \in Seq(Nat) /\ c \in Seq(Nat) /\ d \in Seq(Nat)
          /\ Whole[p] = Chain(a, b, c, d) /\ Whole'[p] = Chain(a, b, c, d \o e)
      BY <2>5, <2>s, <2>w, Zenon
    <3> HIDE DEF a, b, c, d
    <3> DEFINE y == a \o b \o c
    <3>1. y \in Seq(Nat)
      <4>1. a \o b \in Seq(Nat)
        BY <3>0, ConcatClosed, Zenon
      <4> QED
        BY <3>0, <4>1, ConcatClosed, Zenon
    <3>2. Chain(a, b, c, d) = y \o d /\ Chain(a, b, c, d \o e) = y \o (d \o e)
      BY Zenon DEF Chain
    <3>3. d \in Seq(Nat)
      BY <3>0, Zenon
    <3> HIDE DEF y
    <3>4. y \o (d \o e) = (y \o d) \o e
      BY <2>1, <3>1, <3>3, ConcatAssoc, Zenon
    <3> DEFINE w == y \o d
    <3>5. w \in Seq(Nat)
      BY <3>1, <3>3, ConcatClosed, Zenon
    <3> HIDE DEF w
    <3>6. Len(w \o e) > Len(w) /\ SubSeq(w \o e, 1, Len(w)) = w
      BY <2>1, <3>5, AppendGrows, Zenon
    <3>7. Whole[p] = w /\ Whole'[p] = w \o e
      BY <3>0, <3>2, <3>4, Zenon DEF w
    <3> QED
      BY <3>6, <3>7, Zenon
  <2>7. \A q \in Params \ {p} : Whole'[q] = Whole[q]
    BY <2>2, <2>3, <2>4, WholeIsChain, Zenon
  <2> QED
    BY <2>6, <2>7 DEF Pipe!Next, Pipe!Enqueue, Pipe!OthersKept
<1>2. ASSUME NEW t \in Threads, NEW p \in Params, PopReady(t, p) PROVE UNCHANGED Whole
  <2>1. /\ ready[p] # <<>> /\ ready' = [ready EXCEPT ![p] = Tail(@)]
        /\ UNCHANGED <<done, consumed>> /\ tables = None
    BY <1>2 DEF PopReady
  <2>2. Transit(p) = <<>> /\ Transit(p)' = <<Head(ready[p])>>
    BY <1>2 DEF PopReady, Transit, TypeOK
  <2>3. \A q \in Params \ {p} : Transit(q)' = <<>> /\ Transit(q) = <<>>
    BY <1>2 DEF PopReady, Transit, TypeOK
  <2>4. ready'[p] = Tail(ready[p]) /\ \A q \in Params \ {p} : ready'[q] = ready[q]
    BY <2>1 DEF TypeOK
  <2>w. /\ Whole[p] = Chain(done[p], consumed[p], Transit(p), ready[p])
        /\ Whole'[p] = Chain(done'[p], consumed'[p], Transit(p)', ready'[p])
    BY WholeIsChain, Zenon
  <2>s. /\ done[p] \in Seq(Nat) /\ consumed[p] \in Seq(Nat) /\ ready[p] \in Seq(Nat)
        /\ Transit(p) \in Seq(Nat)
    BY Segments, Zenon
  <2>5. Whole'[p] = Whole[p]
    <3>1. Whole'[p] = Chain(done[p], consumed[p], <<Head(ready[p])>>, Tail(ready[p]))
      BY <2>1, <2>2, <2>4, <2>w, Zenon
    <3>2. Whole[p] = Chain(done[p], consumed[p], <<>>, ready[p])
      BY <2>2, <2>w, Zenon
    <3> QED
      BY <2>1, <2>s, <3>1, <3>2, ChainPop
  <2>6. ASSUME NEW q \in Params \ {p} PROVE Whole'[q] = Whole[q]
    <3>1. Whole[q] = Chain(done[q], consumed[q], <<>>, ready[q])
      BY <2>3, WholeIsChain, Zenon
    <3>2. Whole'[q] = Chain(done'[q], consumed'[q], <<>>, ready'[q])
      BY <2>3, WholeIsChain, Zenon
    <3> QED
      BY <2>1, <2>4, <3>1, <3>2
  <2> QED
    BY <2>5, <2>6, SameWhole
<1>3. ASSUME NEW t \in Threads, PushConsumed(t) PROVE UNCHANGED Whole
  <2> DEFINE p == hand[t].param
             r == hand[t].ref
  <2>1. p \in Params /\ r \in Nat /\ tables = t
    BY <1>3 DEF PushConsumed, LockInv, TypeOK
  <2>2. Transit(p) = <<r>> /\ \A q \in Params \ {p} : Transit(q) = <<>>
    BY <2>1 DEF Transit
  <2>3. \A q \in Params : Transit(q)' = <<>>
    BY <1>3 DEF PushConsumed, Transit
  <2>4. consumed' = [consumed EXCEPT ![p] = Append(@, r)] /\ UNCHANGED <<ready, done>>
    BY <1>3 DEF PushConsumed
  <2> HIDE DEF p, r
  <2>5. /\ consumed'[p] = Append(consumed[p], r)
        /\ \A q \in Params \ {p} : consumed'[q] = consumed[q]
    BY <2>1, <2>4 DEF TypeOK
  <2>w. \A q \in Params :
           /\ Whole[q] = Chain(done[q], consumed[q], Transit(q), ready[q])
           /\ Whole'[q] = Chain(done'[q], consumed'[q], Transit(q)', ready'[q])
    BY WholeIsChain, Zenon
  <2>s. \A q \in Params :
           done[q] \in Seq(Nat) /\ consumed[q] \in Seq(Nat) /\ ready[q] \in Seq(Nat)
    BY Segments, Zenon
  <2>6. ASSUME NEW q \in Params, q = p PROVE Whole'[q] = Whole[q]
    <3>1. Whole[q] = Chain(done[q], consumed[q], <<r>>, ready[q])
      BY <2>2, <2>6, <2>w
    <3>2. Transit(q)' = <<>> /\ done'[q] = done[q] /\ ready'[q] = ready[q]
      BY <2>3, <2>4
    <3>3. consumed'[q] = Append(consumed[q], r)
      BY <2>5, <2>6
    <3>4. Whole'[q] = Chain(done[q], Append(consumed[q], r), <<>>, ready[q])
      BY <2>w, <3>2, <3>3
    <3>5. Chain(done[q], consumed[q], <<r>>, ready[q])
             = Chain(done[q], Append(consumed[q], r), <<>>, ready[q])
      <4>1. done[q] \in Seq(Nat) /\ consumed[q] \in Seq(Nat) /\ ready[q] \in Seq(Nat)
        BY <2>s
      <4>2. ASSUME NEW e \in Nat
            PROVE  Chain(done[q], consumed[q], <<e>>, ready[q])
                      = Chain(done[q], Append(consumed[q], e), <<>>, ready[q])
        BY <4>1, ChainPush
      <4> QED
        BY <2>1, <4>2
    <3> QED
      BY <3>1, <3>4, <3>5
  <2>7. \A q \in Params \ {p} : Whole'[q] = Whole[q]
    BY <2>2, <2>3, <2>4, <2>5, WholeIsChain, ZenonT(30)
  <2> QED
    BY <2>6, <2>7, SameWhole
<1>4. ASSUME NEW t \in Threads, NEW p \in Params, move_refs_to_done(t, p)
      PROVE  UNCHANGED Whole
  <2>1. \A q \in Params : Transit(q)' = Transit(q)
    BY <1>4 DEF move_refs_to_done, Transit, lockVars
  <2>2. /\ done' = [done EXCEPT ![p] = @ \o consumed[p]]
        /\ consumed' = [consumed EXCEPT ![p] = <<>>] /\ UNCHANGED ready
    BY <1>4 DEF move_refs_to_done
  <2>3. /\ done'[p] = done[p] \o consumed[p] /\ consumed'[p] = <<>>
        /\ \A q \in Params \ {p} : done'[q] = done[q] /\ consumed'[q] = consumed[q]
    BY <2>2 DEF TypeOK
  <2>w. /\ Whole[p] = Chain(done[p], consumed[p], Transit(p), ready[p])
        /\ Whole'[p] = Chain(done'[p], consumed'[p], Transit(p)', ready'[p])
    BY WholeIsChain, Zenon
  <2>s. /\ done[p] \in Seq(Nat) /\ consumed[p] \in Seq(Nat) /\ ready[p] \in Seq(Nat)
        /\ Transit(p) \in Seq(Nat)
    BY Segments, Zenon
  <2>4. Whole'[p] = Whole[p]
    BY <2>1, <2>2, <2>3, <2>w, <2>s, ChainMove
  <2>5. \A q \in Params \ {p} : Whole'[q] = Whole[q]
    BY <2>1, <2>2, <2>3, WholeIsChain, Zenon
  <2> QED
    BY <2>4, <2>5, SameWhole
<1>5. ASSUME NEW d \in Dequeuers, TakeDone(d) PROVE [Pipe!Next]_Whole
  <2>1. PICK p \in Params : p = dequeuer[d].param /\ dequeuer[d].max \in Nat
    BY <1>5, Awake DEF TakeDone, AwakeDequeuer
  <2>0. CASE dequeuer[d].max = 0
    <3>0. done[p] \in Seq(Nat) /\ done[p] # <<>>
      BY <1>5, <2>1 DEF TakeDone, TypeOK
    <3>a. 0 < Len(done[p])
      BY <3>0
    <3>1. /\ done' = [done EXCEPT ![p] = SubSeq(@, 0 + 1, Len(@))]
          /\ UNCHANGED <<ready, consumed, tables, hand>>
      BY <1>5, <2>0, <2>1, <3>a DEF TakeDone, lockVars, execVars
    <3>2. SubSeq(done[p], 1, Len(done[p])) = done[p]
      BY <3>0
    <3>3. done' = done
      BY <3>1, <3>2 DEF TypeOK
    <3> QED
      BY <3>1, <3>3, QuietStep
  <2> SUFFICES ASSUME dequeuer[d].max # 0 PROVE [Pipe!Next]_Whole
    BY <2>0
  <2> DEFINE n == IF dequeuer[d].max < Len(done[p]) THEN dequeuer[d].max ELSE Len(done[p])
  <2>2. done[p] # <<>> /\ done[p] \in Seq(Nat)
    BY <1>5, <2>1 DEF TakeDone, TypeOK
  <2>3. Len(done[p]) \in Nat \ {0}
    BY <2>2
  <2>4. n \in 1..Len(done[p])
    BY <2>1, <2>3
  <2>5. done' = [done EXCEPT ![p] = SubSeq(@, n + 1, Len(@))] /\ UNCHANGED <<ready, consumed>>
    BY <1>5, <2>1 DEF TakeDone
  <2>6. \A q \in Params : Transit(q)' = Transit(q)
    BY <1>5 DEF TakeDone, Transit, lockVars, execVars
  <2> HIDE DEF n
  <2>7. /\ done'[p] = SubSeq(done[p], n + 1, Len(done[p]))
        /\ \A q \in Params \ {p} : done'[q] = done[q]
    BY <2>1, <2>5 DEF TypeOK
  <2>w. /\ Whole[p] = Chain(done[p], consumed[p], Transit(p), ready[p])
        /\ Whole'[p] = Chain(done'[p], consumed'[p], Transit(p)', ready'[p])
    BY WholeIsChain, Zenon
  <2>s. /\ done[p] \in Seq(Nat) /\ consumed[p] \in Seq(Nat) /\ ready[p] \in Seq(Nat)
        /\ Transit(p) \in Seq(Nat)
    BY Segments, Zenon
  <2>8. Whole'[p] = Chain(SubSeq(done[p], n + 1, Len(done[p])), consumed[p], Transit(p), ready[p])
    BY <2>1, <2>5, <2>6, <2>7, WholeIsChain, Zenon
  <2>9. Whole'[p] = SubSeq(Whole[p], n + 1, Len(Whole[p]))
    <3>1. Chain(Drop(done[p], n), consumed[p], Transit(p), ready[p])
             = Drop(Chain(done[p], consumed[p], Transit(p), ready[p]), n)
      BY <2>4, <2>s, ChainTake
    <3> QED
      BY <2>8, <2>w, <3>1, Zenon DEF Drop
  <2>10. n \in 1..Len(Whole[p])
    <3>1. Whole[p] \in Seq(Nat) /\ Len(Whole[p]) >= Len(done[p])
      <4>1. LET c == Chain(done[p], consumed[p], Transit(p), ready[p])
            IN  c \in Seq(Nat) /\ Len(c) >= Len(done[p])
        BY <2>s, ChainLength, Zenon
      <4> QED
        BY <2>w, <4>1, Zenon
    <3> QED
      BY <2>2, <2>4, <3>1
  <2>11. \A q \in Params \ {p} : Whole'[q] = Whole[q]
    BY <2>5, <2>6, <2>7, WholeIsChain, Zenon
  <2> QED
    BY <2>1, <2>9, <2>10, <2>11 DEF Pipe!Next, Pipe!Dequeue, Pipe!OthersKept
<1>6. CASE UNCHANGED <<ready, consumed, done, tables, hand>>
  BY <1>6, QuietStep
<1>7. CASE Next
  <2>1. \/ UNCHANGED <<ready, consumed, done, tables, hand>>
        \/ \E p \in Params, n \in BatchSizes : vxGraphParameterEnqueueReadyRef(p, n)
        \/ \E t \in Threads :
              \/ \E p \in Params : PopReady(t, p) \/ move_refs_to_done(t, p)
              \/ PushConsumed(t)
        \/ \E d \in Dequeuers : TakeDone(d)
    BY <1>7, SomeThreads
    DEF Next, BeginAuto, Resolve, Finish, SeeAllReady, execute_pipelined_graph,
        BeginDirectTurn, ResolveWithoutReady, EndNodes, FailNode, FailWave, EndLeftOver,
        EndExecution, EnterDequeue,
        SleepOnDone, SpuriousWake, queueVars, lockVars, execVars
  <2> QED
    BY <2>1, <1>1, <1>2, <1>3, <1>4, <1>5, <1>6
<1> QED
  BY <1>6, <1>7 DEF vars, queueVars, lockVars, execVars

(* vxGraphParameterEnqueueReadyRef and vxGraphParameterDequeueDoneRef are    *)
(* the two ends of a FIFO that loses and duplicates nothing, whatever        *)
(* executions of the graph overlap, fail, leave jobs behind or find their    *)
(* queues empty.                                                             *)
THEOREM QueuesArePipes == Spec => ImplementsPipe
<1>1. Init => Pipe!Init
  BY QueueAssumption DEF Init, Pipe!Init, Whole, Transit
<1> QED
  BY <1>1, PipeStep, TypeAndLocksCorrect, PTL DEF Spec, ImplementsPipe, Pipe!Spec
-----------------------------------------------------------------------------
(* What follows holds of executions that do not overlap, with each other or  *)
(* with what a failed one left in the pool.                                  *)
Executing(t) == pc[t] \in {"running", "resolving", "finishing"}
Serialized   == \A t, u \in Threads : Executing(t) /\ Executing(u) => t = u

(* Nothing is left in the pool.                                              *)
NoLeftOver == \A w \in LeftOvers : pc[w] = "idle"

(* Only a failing wave leaves jobs in the pool, and a wave that fails        *)
(* overlaps with what it leaves.                                             *)
LEMMA LeftOverStep ==
  ASSUME TypeOK, NoLeftOver, [Next]_vars,
         \A t \in AutoThreads, w \in LeftOvers : ~FailWave(t, w)
  PROVE  NoLeftOver'
<1> USE QueueAssumption DEF TypeOK, NoLeftOver
<1>1. ASSUME NEW w \in LeftOvers PROVE w \in Threads /\ w \notin Executors
  BY DEF Threads
<1>2. ASSUME NEW t \in Threads, NEW to, pc' = [pc EXCEPT ![t] = to], t \in LeftOvers => FALSE
      PROVE  NoLeftOver'
  BY <1>1, <1>2
<1>3. CASE UNCHANGED pc
  BY <1>3
<1>4. ASSUME NEW t \in Executors,
             SeeAllReady(t) \/ execute_pipelined_graph(t) \/ BeginDirectTurn(t)
      PROVE  NoLeftOver'
  <2>1. t \in Threads /\ t \notin LeftOvers
    BY <1>1, SomeThreads
  <2> QED
    BY <1>2, <1>4, <2>1 DEF SeeAllReady, execute_pipelined_graph, BeginDirectTurn
<1>5. ASSUME NEW t \in Executors, EndNodes(t) \/ FailNode(t) \/ EndExecution(t)
      PROVE  NoLeftOver'
  <2>1. t \in Threads /\ t \notin LeftOvers
    BY <1>1, SomeThreads
  <2> QED
    BY <1>2, <1>5, <2>1 DEF EndNodes, FailNode, EndExecution
<1>6. ASSUME NEW t \in Threads, NEW p \in Params, PopReady(t, p) PROVE NoLeftOver'
  BY <1>2, <1>6 DEF PopReady
<1>7. ASSUME NEW t \in Threads, PushConsumed(t) PROVE NoLeftOver'
  BY <1>2, <1>7 DEF PushConsumed
<1>8. ASSUME NEW w \in LeftOvers, EndLeftOver(w) PROVE NoLeftOver'
  BY <1>8 DEF EndLeftOver
<1>9. CASE Next
  <2>1. \/ UNCHANGED pc
        \/ \E t \in Executors :
              SeeAllReady(t) \/ execute_pipelined_graph(t) \/ BeginDirectTurn(t)
        \/ \E t \in Executors : EndNodes(t) \/ FailNode(t) \/ EndExecution(t)
        \/ \E t \in Threads, p \in Params : PopReady(t, p)
        \/ \E t \in Threads : PushConsumed(t)
        \/ \E w \in LeftOvers : EndLeftOver(w)
    BY <1>9 DEF Next, BeginAuto, Resolve, Finish, Executors, vxGraphParameterEnqueueReadyRef,
       ResolveWithoutReady, move_refs_to_done, EnterDequeue, SleepOnDone, TakeDone,
       SpuriousWake, execVars
  <2> QED
    BY <2>1, <1>3, <1>4, <1>5, <1>6, <1>7, <1>8, Zenon
<1> QED
  BY <1>3, <1>9 DEF vars, execVars

(* A step of a left-over wave, or one that leaves one, shows it.             *)
LEMMA NoWaveSteps ==
  ASSUME TypeOK, NoLeftOver, NoLeftOver', NEW w \in LeftOvers
  PROVE  ~EndLeftOver(w) /\ \A t \in AutoThreads : ~FailWave(t, w)
BY SomeThreads DEF NoLeftOver, FailWave, EndLeftOver, TypeOK

(* When executions do not overlap, nothing is ever left in the pool.         *)
LEMMA SerializedLeavesNothing == Spec /\ []Serialized => []NoLeftOver
<1>1. Init => NoLeftOver
  BY SomeThreads DEF Init, NoLeftOver
<1>2. TypeOK /\ NoLeftOver /\ Serialized' /\ [Next]_vars => NoLeftOver'
  <2> SUFFICES ASSUME TypeOK, NoLeftOver, Serialized', [Next]_vars PROVE NoLeftOver'
    OBVIOUS
  <2>1. ASSUME NEW t \in AutoThreads, NEW w \in LeftOvers, FailWave(t, w) PROVE FALSE
    <3>1. t \in Threads /\ w \in Threads /\ t # w
      BY QueueAssumption DEF Threads, Executors
    <3>2. pc'[t] = "finishing" /\ pc'[w] = "running"
      BY <2>1, <3>1 DEF FailWave, TypeOK
    <3> QED
      BY <3>1, <3>2 DEF Serialized, Executing
  <2> QED
    BY <2>1, LeftOverStep
<1> QED
  BY <1>1, <1>2, TypeAndLocksCorrect, PTL DEF Spec

(* No wave leaves jobs behind: no node fails, or every wave is one node.     *)
WavesComplete == MayFail = FALSE \/ LeftOvers = {}

(* Then, too, nothing is ever left in the pool.                              *)
LEMMA CompleteLeavesNothing == ASSUME WavesComplete PROVE Spec => []NoLeftOver
<1>1. Init => NoLeftOver
  BY SomeThreads DEF Init, NoLeftOver
<1>2. TypeOK /\ NoLeftOver /\ [Next]_vars => NoLeftOver'
  <2>1. \A t \in AutoThreads, w \in LeftOvers : ~FailWave(t, w)
    BY QueueAssumption DEF WavesComplete, FailWave
  <2> QED
    BY <2>1, LeftOverStep
<1> QED
  BY <1>1, <1>2, TypeAndLocksCorrect, PTL DEF Spec

(* execution_mutex serializes the executions that take it, as long as none   *)
(* leaves jobs behind that run after it has given the mutex up.              *)
THEOREM MutexSerializes ==
  ASSUME DirectThreads = {}, WavesComplete PROVE Spec => []Serialized
<1>1. LockInv /\ NoLeftOver => Serialized
  <2> SUFFICES ASSUME LockInv, NoLeftOver,
                      NEW t \in Threads, NEW u \in Threads, Executing(t), Executing(u)
               PROVE  t = u
    BY DEF Serialized
  <2>1. t \in AutoThreads /\ u \in AutoThreads
    BY DEF Threads, Executors, NoLeftOver, Executing
  <2> QED
    BY <2>1 DEF LockInv, Executing
<1> QED
  BY <1>1, CompleteLeavesNothing, TypeAndLocksCorrect, PTL

(* What an execution uses is in the consumed queue, and a thread that is not *)
(* executing uses nothing.                                                   *)
UseInv == /\ NoRefReturnedInUse
          /\ \A t \in Threads : ~Executing(t) => bound[t] = Unbound

(* Appending to a queue keeps what it contains.                              *)
LEMMA ContainsAppend ==
  ASSUME NEW s \in Seq(Nat), NEW r \in Nat
  PROVE  /\ Contains(Append(s, r), r)
         /\ \A x : Contains(s, x) => Contains(Append(s, r), x)
<1>1. /\ Len(Append(s, r)) = Len(s) + 1 /\ Append(s, r)[Len(s) + 1] = r
      /\ \A i \in 1..Len(s) : Append(s, r)[i] = s[i]
  OBVIOUS
<1>2. Len(s) \in Nat
  OBVIOUS
<1> QED
  BY <1>1, <1>2 DEF Contains

(* No step breaks the invariant as long as executions do not overlap.        *)
LEMMA UseStep ==
  /\ TypeOK /\ LockInv /\ Serialized /\ NoLeftOver /\ NoLeftOver' /\ UseInv
  /\ [Next]_vars
  => UseInv'
<1> SUFFICES ASSUME TypeOK, LockInv, Serialized, NoLeftOver, NoLeftOver', UseInv, [Next]_vars
             PROVE  UseInv'
  OBVIOUS
<1> USE QueueAssumption DEF UseInv, NoRefReturnedInUse, Executing
<1>1. CASE UNCHANGED <<consumed, pc, bound>>
  BY <1>1
<1>2. ASSUME NEW t \in Threads, UNCHANGED <<consumed, bound>>,
             \E now \in {"checked", "resolving", "finishing"} : pc' = [pc EXCEPT ![t] = now],
             pc[t] \in {"idle", "running"}, pc'[t] = "checked" => pc[t] = "idle",
             pc'[t] = "resolving" => pc[t] = "running"
      PROVE  UseInv'
  BY <1>2 DEF TypeOK
<1>3. ASSUME NEW t \in Threads, UNCHANGED <<consumed, bound>>,
             pc[t] \in {"idle", "checked"}, pc' = [pc EXCEPT ![t] = "running"]
      PROVE  UseInv'
  <2>1. bound[t] = Unbound /\ \A q \in Params : bound[t][q] = 0
    BY <1>3 DEF Unbound
  <2>2. \A u \in Threads \ {t} : pc'[u] = pc[u]
    BY <1>3 DEF TypeOK
  <2>3. Executing(t)'
    BY <1>3 DEF TypeOK
  <2> QED
    BY <2>1, <2>2, <2>3, <1>3
<1>4. ASSUME NEW t \in Threads, NEW p \in Params, ResolveWithoutReady(t, p) PROVE UseInv'
  <2> DEFINE r == IF consumed[p] = <<>> THEN 0 ELSE consumed[p][Len(consumed[p])]
  <2>1. r # 0 => Contains(consumed[p], r)
    <3>1. consumed[p] \in Seq(Nat)
      BY DEF TypeOK
    <3>2. consumed[p] # <<>> => Len(consumed[p]) \in 1..Len(consumed[p])
      BY <3>1
    <3> QED
      BY <3>2 DEF Contains
  <2>2. /\ bound' = [bound EXCEPT ![t][p] = r] /\ pc[t] = "running"
        /\ UNCHANGED <<consumed, pc>>
    BY <1>4 DEF ResolveWithoutReady, queueVars
  <2> HIDE DEF r
  <2> QED
    BY <2>1, <2>2 DEF TypeOK
<1>5. ASSUME NEW t \in Threads, PushConsumed(t) PROVE UseInv'
  <2>1. PICK p \in Params, r \in Nat : p = hand[t].param /\ r = hand[t].ref
    BY <1>5 DEF PushConsumed, LockInv, TypeOK
  <2>2. /\ consumed' = [consumed EXCEPT ![p] = Append(@, r)]
        /\ bound' = [bound EXCEPT ![t][p] = r]
        /\ pc' = [pc EXCEPT ![t] = "running"] /\ pc[t] = "resolving"
    BY <1>5, <2>1 DEF PushConsumed
  <2>3. consumed[p] \in Seq(Nat)
    BY DEF TypeOK
  <2>4. /\ Contains(consumed'[p], r)
        /\ \A q \in Params, x \in Nat : Contains(consumed[q], x) => Contains(consumed'[q], x)
    BY <2>2, <2>3, ContainsAppend DEF TypeOK
  <2>5. ASSUME NEW u \in Threads, NEW q \in Params, pc'[u] \in {"running", "resolving"},
               bound'[u][q] # 0
        PROVE  Contains(consumed'[q], bound'[u][q])
    <3>1. CASE u = t /\ q = p
      BY <3>1, <2>2, <2>4 DEF TypeOK
    <3>2. CASE ~(u = t /\ q = p)
      <4>1. bound'[u][q] = bound[u][q] /\ bound[u][q] \in Nat
        BY <3>2, <2>2 DEF TypeOK
      <4>2. pc[u] \in {"running", "resolving"}
        BY <2>2, <2>5 DEF TypeOK
      <4> QED
        BY <4>1, <4>2, <2>4, <2>5
    <3> QED
      BY <3>1, <3>2
  <2>6. \A u \in Threads : ~Executing(u)' => bound'[u] = Unbound
    BY <2>2 DEF TypeOK
  <2> QED
    BY <2>5, <2>6
<1>6. ASSUME NEW t \in Threads, NEW p \in Params, move_refs_to_done(t, p) PROVE UseInv'
  <2>1. pc[t] = "finishing" /\ UNCHANGED <<pc, bound>>
    BY <1>6 DEF move_refs_to_done
  <2>2. \A u \in Threads : pc[u] \notin {"running", "resolving"}
    BY <2>1 DEF Serialized
  <2> QED
    BY <2>1, <2>2
<1>7. ASSUME NEW t \in Threads, EndExecution(t) PROVE UseInv'
  BY <1>7 DEF EndExecution, TypeOK, queueVars
<1>8. CASE Next
  <2>0. ASSUME \/ \E p \in Params, n \in BatchSizes : vxGraphParameterEnqueueReadyRef(p, n)
               \/ \E d \in Dequeuers :
                     \/ \E p \in Params, max \in MaxRefs : EnterDequeue(d, p, max)
                     \/ SleepOnDone(d) \/ TakeDone(d) \/ SpuriousWake(d)
        PROVE  UNCHANGED <<consumed, pc, bound>>
    BY <2>0
    DEF vxGraphParameterEnqueueReadyRef, EnterDequeue, SleepOnDone, TakeDone, SpuriousWake,
        queueVars, execVars
  <2>1. \/ UNCHANGED <<consumed, pc, bound>>
        \/ \E t \in Threads :
              \/ \E p \in Params : PopReady(t, p)
              \/ EndNodes(t) \/ FailNode(t)
              \/ SeeAllReady(t)
        \/ \E t \in Threads : execute_pipelined_graph(t) \/ BeginDirectTurn(t)
        \/ \E t \in Threads :
              \/ \E p \in Params : ResolveWithoutReady(t, p) \/ move_refs_to_done(t, p)
              \/ PushConsumed(t) \/ EndExecution(t)
    <3>1. \A w \in LeftOvers : ~EndLeftOver(w) /\ \A t \in AutoThreads : ~FailWave(t, w)
      BY NoWaveSteps
    <3> QED
      BY <1>8, <2>0, <3>1, SomeThreads DEF Next, BeginAuto, Resolve, Finish
  <2>2. ASSUME NEW t \in Threads, NEW p \in Params, PopReady(t, p) PROVE UseInv'
    BY <2>2, <1>2 DEF PopReady, TypeOK
  <2>3. ASSUME NEW t \in Threads, EndNodes(t) \/ FailNode(t) PROVE UseInv'
    BY <2>3, <1>2 DEF EndNodes, FailNode, TypeOK, queueVars
  <2>4. ASSUME NEW t \in Threads, SeeAllReady(t) PROVE UseInv'
    BY <2>4, <1>2 DEF SeeAllReady, TypeOK, queueVars
  <2>5. ASSUME NEW t \in Threads, execute_pipelined_graph(t) \/ BeginDirectTurn(t)
        PROVE  UseInv'
    BY <2>5, <1>3 DEF execute_pipelined_graph, BeginDirectTurn, queueVars
  <2> QED
    BY <2>1, <2>2, <2>3, <2>4, <2>5, <1>1, <1>4, <1>5, <1>6, <1>7, Zenon
<1> QED
  BY <1>1, <1>8 DEF vars, queueVars, execVars

(* A reference in use has not been handed back, as long as executions of the *)
(* graph overlap neither with each other nor with left-over jobs: with       *)
(* failed nodes, empty queues and any number of parameters.                  *)
THEOREM SerializedKeepsRefs == Spec /\ []Serialized => []NoRefReturnedInUse
<1>1. Init => UseInv
  BY DEF Init, UseInv, NoRefReturnedInUse, Executing
<1>2. UseInv => NoRefReturnedInUse
  BY DEF UseInv
<1> QED
  BY <1>1, <1>2, UseStep, SerializedLeavesNothing, TypeAndLocksCorrect, PTL DEF Spec

(* The QUEUE_AUTO executors, which take execution_mutex, hand nothing back   *)
(* that is in use, if no failed wave leaves jobs behind.                     *)
THEOREM AutoKeepsRefs ==
  ASSUME DirectThreads = {}, WavesComplete PROVE Spec => []NoRefReturnedInUse
BY SerializedKeepsRefs, MutexSerializes, PTL
-----------------------------------------------------------------------------
(* The execution that has still to hand back the reference it consumed.      *)
Owes(t, p) == \/ pc[t] = "running" /\ p \notin left[t]
              \/ pc[t] = "resolving" /\ p \notin left[t] /\ hand[t].param # p
              \/ pc[t] = "finishing" /\ p \in left[t]

(* A queue holds one consumed reference at most, which its execution will    *)
(* hand back.                                                                *)
ConsumedInv ==
    /\ \A p \in Params : Len(consumed[p]) <= 1
    /\ \A p \in Params : consumed[p] # <<>> => \E t \in Threads : Owes(t, p)
    /\ \A t \in Threads : pc[t] = "resolving" => hand[t].param \notin left[t]

(* No step breaks the invariant as long as executions do not overlap.        *)
LEMMA ConsumedStep ==
  /\ TypeOK /\ LockInv /\ Serialized /\ NoLeftOver /\ NoLeftOver' /\ ConsumedInv
  /\ [Next]_vars
  => ConsumedInv'
<1> SUFFICES ASSUME TypeOK, LockInv, Serialized, NoLeftOver, NoLeftOver', ConsumedInv, [Next]_vars
             PROVE  ConsumedInv'
  OBVIOUS
<1> USE QueueAssumption DEF ConsumedInv, Owes
<1>0. ASSUME NEW p \in Params, consumed[p] # <<>>, NEW t \in Threads, Executing(t)
      PROVE  Owes(t, p)
  BY <1>0 DEF Serialized, Executing
<1>1. CASE UNCHANGED <<consumed, pc, left, hand>>
  BY <1>1
<1>2. ASSUME NEW t \in Threads, pc[t] \in {"idle", "checked"}, UNCHANGED <<consumed, hand>>,
             \A u \in Threads \ {t} : pc'[u] = pc[u] /\ left'[u] = left[u],
             pc'[t] # "resolving"
      PROVE  ConsumedInv'
  BY <1>2
<1>3. ASSUME NEW t \in Threads, NEW p \in Params, PopReady(t, p) PROVE ConsumedInv'
  <2>1. /\ pc[t] = "running" /\ p \in left[t] /\ UNCHANGED consumed
        /\ pc'[t] = "resolving" /\ left'[t] = left[t] \ {p} /\ hand'[t].param = p
        /\ \A u \in Threads \ {t} : pc'[u] = pc[u] /\ left'[u] = left[u] /\ hand'[u] = hand[u]
    BY <1>3 DEF PopReady, TypeOK
  <2>2. \A q \in Params : consumed[q] # <<>> => q \notin left[t]
    BY <1>0, <2>1 DEF Executing
  <2>3. \A q \in Params : consumed[q] # <<>> => Owes(t, q)'
    BY <2>1, <2>2
  <2> QED
    BY <2>1, <2>3
<1>4. ASSUME NEW t \in Threads, NEW p \in Params, ResolveWithoutReady(t, p)
      PROVE  ConsumedInv'
  <2>1. /\ UNCHANGED <<consumed, pc, hand>>
        /\ \A u \in Threads : left'[u] \subseteq left[u]
        /\ pc[t] = "running" /\ \A u \in Threads \ {t} : left'[u] = left[u]
    BY <1>4 DEF ResolveWithoutReady, queueVars, TypeOK
  <2> QED
    BY <2>1
<1>5. ASSUME NEW t \in Threads, PushConsumed(t) PROVE ConsumedInv'
  <2>1. PICK p \in Params, r \in Nat : p = hand[t].param /\ r = hand[t].ref
    BY <1>5 DEF PushConsumed, LockInv, TypeOK
  <2>2. /\ consumed' = [consumed EXCEPT ![p] = Append(@, r)] /\ UNCHANGED left
        /\ pc[t] = "resolving" /\ pc'[t] = "running"
        /\ \A u \in Threads \ {t} : pc'[u] = pc[u] /\ hand'[u] = hand[u]
    BY <1>5, <2>1 DEF PushConsumed, TypeOK
  <2>3. p \notin left[t] /\ consumed[p] = <<>>
    BY <1>0, <2>1, <2>2 DEF Executing
  <2>4. /\ Len(consumed'[p]) <= 1
        /\ \A q \in Params \ {p} : consumed'[q] = consumed[q]
    BY <2>2, <2>3 DEF TypeOK
  <2>5. \A q \in Params : consumed'[q] # <<>> => Owes(t, q)'
    BY <1>0, <2>2, <2>3, <2>4 DEF Executing
  <2> QED
    BY <2>2, <2>4, <2>5
<1>6. ASSUME NEW t \in Threads, EndNodes(t) \/ FailNode(t) PROVE ConsumedInv'
  <2>1. /\ pc[t] = "running" /\ pc'[t] = "finishing" /\ left'[t] = Params
        /\ UNCHANGED <<consumed, hand>>
        /\ \A u \in Threads \ {t} : pc'[u] = pc[u] /\ left'[u] = left[u]
    BY <1>6 DEF EndNodes, FailNode, queueVars, TypeOK
  <2> QED
    BY <2>1
<1>7. ASSUME NEW t \in Threads, NEW p \in Params, move_refs_to_done(t, p)
      PROVE  ConsumedInv'
  <2>1. /\ consumed'[p] = <<>> /\ \A q \in Params \ {p} : consumed'[q] = consumed[q]
        /\ left'[t] = left[t] \ {p} /\ pc[t] = "finishing" /\ UNCHANGED <<pc, hand>>
        /\ \A u \in Threads \ {t} : left'[u] = left[u]
    BY <1>7 DEF move_refs_to_done, TypeOK
  <2>2. \A q \in Params : consumed'[q] # <<>> => Owes(t, q)'
    BY <1>0, <2>1 DEF Executing
  <2> QED
    BY <2>1, <2>2
<1>8. ASSUME NEW t \in Threads, EndExecution(t) PROVE ConsumedInv'
  <2>1. /\ pc[t] = "finishing" /\ left[t] = {} /\ UNCHANGED <<consumed, left, hand>>
        /\ pc'[t] = "idle" /\ \A u \in Threads \ {t} : pc'[u] = pc[u]
    BY <1>8 DEF EndExecution, queueVars, TypeOK
  <2>2. \A q \in Params : consumed[q] = <<>>
    BY <1>0, <2>1 DEF Executing
  <2> QED
    BY <2>1, <2>2
<1>9. CASE Next
  <2>0. ASSUME \/ \E p \in Params, n \in BatchSizes : vxGraphParameterEnqueueReadyRef(p, n)
               \/ \E d \in Dequeuers :
                     \/ \E p \in Params, max \in MaxRefs : EnterDequeue(d, p, max)
                     \/ SleepOnDone(d) \/ TakeDone(d) \/ SpuriousWake(d)
        PROVE  UNCHANGED <<consumed, pc, left, hand>>
    BY <2>0
    DEF vxGraphParameterEnqueueReadyRef, EnterDequeue, SleepOnDone, TakeDone, SpuriousWake,
        queueVars, execVars
  <2>1. \/ UNCHANGED <<consumed, pc, left, hand>>
        \/ \E t \in Threads :
              SeeAllReady(t) \/ execute_pipelined_graph(t) \/ BeginDirectTurn(t)
        \/ \E t \in Threads :
              \/ \E p \in Params : \/ PopReady(t, p) \/ ResolveWithoutReady(t, p)
                                   \/ move_refs_to_done(t, p)
              \/ PushConsumed(t) \/ EndNodes(t) \/ FailNode(t) \/ EndExecution(t)
    <3>1. \A w \in LeftOvers : ~EndLeftOver(w) /\ \A t \in AutoThreads : ~FailWave(t, w)
      BY NoWaveSteps
    <3> QED
      BY <1>9, <2>0, <3>1, SomeThreads DEF Next, BeginAuto, Resolve, Finish
  <2>2. ASSUME NEW t \in Threads,
               SeeAllReady(t) \/ execute_pipelined_graph(t) \/ BeginDirectTurn(t)
        PROVE  ConsumedInv'
    BY <2>2, <1>2
    DEF SeeAllReady, execute_pipelined_graph, BeginDirectTurn, queueVars, TypeOK
  <2> QED
    BY <2>1, <2>2, <1>1, <1>3, <1>4, <1>5, <1>6, <1>7, <1>8, Zenon
<1> QED
  BY <1>1, <1>9 DEF vars, queueVars, execVars

(* The notified dequeuers of a queue are finitely many, before and after.    *)
LEMMA NotifiedFinite ==
  ASSUME NEW p \in Params
  PROVE  /\ IsFiniteSet(NotifiedOn(p)) /\ Cardinality(NotifiedOn(p)) \in Nat
         /\ IsFiniteSet(NotifiedOn(p)') /\ Cardinality(NotifiedOn(p)') \in Nat
<1>1. NotifiedOn(p) \subseteq Dequeuers /\ NotifiedOn(p)' \subseteq Dequeuers
  BY DEF NotifiedOn
<1> QED
  BY <1>1, QueueAssumption, FS_Subset, FS_CardinalityType

(* What happens to one dequeuer on one queue leaves the others alone.        *)
LEMMA OtherQueue ==
  ASSUME TypeOK, NEW d \in Dequeuers, NEW q \in Params,
         \A u \in Dequeuers \ {d} : dequeuer'[u] = dequeuer[u],
         dequeuer[d].at \in {"asleep", "notified"} => dequeuer[d].param # q,
         dequeuer'[d].at \in {"asleep", "notified"} => dequeuer'[d].param # q
  PROVE  AsleepOn(q)' = AsleepOn(q) /\ NotifiedOn(q)' = NotifiedOn(q)
BY DEF AsleepOn, NotifiedOn

(* A step that changes neither the done references nor who sleeps or has     *)
(* been woken strands nobody.                                                *)
LEMMA QuietQueue ==
  ASSUME NEW p \in Params, NoStrandedDequeuer, done'[p] = done[p],
         AsleepOn(p)' = AsleepOn(p), NotifiedOn(p)' = NotifiedOn(p)
  PROVE  AsleepOn(p)' # {} => Len(done'[p]) <= Cardinality(NotifiedOn(p)')
BY DEF NoStrandedDequeuer

(* Handing one reference back with one notification strands nobody.          *)
LEMMA MoveStrands ==
  ASSUME TypeOK, LockInv, ConsumedInv, NoStrandedDequeuer,
         NEW t \in Threads, NEW p \in Params, move_refs_to_done(t, p)
  PROVE  NoStrandedDequeuer'
<1>1. /\ done'[p] = done[p] \o consumed[p]
      /\ \A q \in Params \ {p} : done'[q] = done[q]
  BY DEF move_refs_to_done, TypeOK
<1>2. /\ done[p] \in Seq(Nat) /\ consumed[p] \in Seq(Nat) /\ Len(consumed[p]) <= 1
  BY DEF TypeOK, ConsumedInv
<1>3. Len(done'[p]) <= Len(done[p]) + 1 /\ Len(done'[p]) \in Nat /\ Len(done[p]) \in Nat
  <2>1. Len(done'[p]) = Len(done[p]) + Len(consumed[p])
    BY <1>1, <1>2, ConcatClosed, Zenon
  <2>2. Len(done[p]) \in Nat /\ Len(consumed[p]) \in Nat
    BY <1>2
  <2>3. Len(consumed[p]) <= 1
    BY DEF ConsumedInv
  <2> DEFINE a == Len(done'[p])
             b == Len(done[p])
             c == Len(consumed[p])
  <2>4. a = b + c /\ b \in Nat /\ c \in Nat /\ c <= 1
    BY <2>1, <2>2, <2>3, Zenon
  <2>5. a <= b + 1 /\ a \in Nat /\ b \in Nat
    <3> HIDE DEF a, b, c
    <3> QED
      BY <2>4
  <2> QED
    BY <2>5, Zenon
<1>4. CASE AsleepOn(p) = {}
  <2>1. UNCHANGED dequeuer
    BY <1>4 DEF move_refs_to_done, NotifyOne
  <2>2. \A q \in Params : AsleepOn(q)' = AsleepOn(q) /\ NotifiedOn(q)' = NotifiedOn(q)
    BY <2>1 DEF AsleepOn, NotifiedOn
  <2> QED
    BY <1>1, <1>4, <2>2, QuietQueue DEF NoStrandedDequeuer
<1>5. ASSUME NEW d \in AsleepOn(p), dequeuer' = [dequeuer EXCEPT ![d].at = "notified"]
      PROVE  NoStrandedDequeuer'
  <2>1. /\ d \in Dequeuers /\ dequeuer[d].at = "asleep" /\ dequeuer[d].param = p
        /\ dequeuer[d] \in AwakeDequeuer
    BY Awake DEF AsleepOn
  <2>2. /\ dequeuer'[d].at = "notified" /\ dequeuer'[d].param = p
        /\ \A u \in Dequeuers \ {d} : dequeuer'[u] = dequeuer[u]
    BY <1>5, <2>1 DEF TypeOK, AwakeDequeuer
  <2>3. NotifiedOn(p)' = NotifiedOn(p) \cup {d} /\ d \notin NotifiedOn(p)
    BY <2>1, <2>2 DEF NotifiedOn
  <2>4. Cardinality(NotifiedOn(p)') = Cardinality(NotifiedOn(p)) + 1
    BY <2>3, NotifiedFinite, FS_AddElement
  <2>5. Len(done[p]) <= Cardinality(NotifiedOn(p))
    BY <1>5 DEF NoStrandedDequeuer
  <2>6. Len(done'[p]) <= Cardinality(NotifiedOn(p)')
    BY <1>3, <2>4, <2>5, NotifiedFinite
  <2>7. ASSUME NEW q \in Params \ {p}
        PROVE  AsleepOn(q)' # {} => Len(done'[q]) <= Cardinality(NotifiedOn(q)')
    BY <2>1, <2>2, <1>1, OtherQueue, QuietQueue
  <2> QED
    BY <2>6, <2>7 DEF NoStrandedDequeuer
<1> QED
  BY <1>4, <1>5 DEF move_refs_to_done, NotifyOne

(* Taking references strands nobody: they are gone when their taker is, who  *)
(* takes one at least.                                                       *)
LEMMA TakeStrands ==
  ASSUME 0 \notin MaxRefs, TypeOK, NoStrandedDequeuer, NEW d \in Dequeuers, TakeDone(d)
  PROVE  NoStrandedDequeuer'
<1>1. PICK p \in Params : p = dequeuer[d].param /\ dequeuer[d].max \in Nat \ {0}
  BY QueueAssumption, Awake DEF TakeDone, AwakeDequeuer
<1> DEFINE n == IF dequeuer[d].max < Len(done[p]) THEN dequeuer[d].max ELSE Len(done[p])
           N == NotifiedOn(p)
           M == NotifiedOn(p)'
<1>2. /\ done[p] # <<>> /\ done[p] \in Seq(Nat)
      /\ done'[p] = SubSeq(done[p], n + 1, Len(done[p]))
      /\ \A q \in Params \ {p} : done'[q] = done[q]
      /\ dequeuer'[d].at = "idle" /\ dequeuer[d].at \in {"entering", "notified"}
      /\ \A u \in Dequeuers \ {d} : dequeuer'[u] = dequeuer[u]
  BY <1>1 DEF TakeDone, TypeOK, Idle
<1>3. Len(done'[p]) <= Len(done[p]) - 1 /\ Len(done'[p]) \in Nat /\ Len(done[p]) \in Nat
  <2>1. Len(done[p]) \in Nat \ {0}
    BY <1>2
  <2>2. n \in 1..Len(done[p])
    BY <2>1, <1>1
  <2> HIDE DEF n
  <2>3. n + 1 \in 1..(Len(done[p]) + 1)
    BY <2>1, <2>2
  <2>4. Len(done'[p]) = Len(done[p]) - (n + 1) + 1
    BY <1>2, <2>3, SuffixElements
  <2> QED
    BY <2>1, <2>2, <2>4
<1>4. M = N \ {d}
  BY <1>2 DEF NotifiedOn
<1>5. Cardinality(M) >= Cardinality(N) - 1
  BY <1>4, NotifiedFinite, FS_RemoveElement
<1>6. AsleepOn(p)' = AsleepOn(p)
  BY <1>2 DEF AsleepOn
<1>7. AsleepOn(p)' # {} => Len(done'[p]) <= Cardinality(NotifiedOn(p)')
  BY <1>3, <1>5, <1>6, NotifiedFinite DEF NoStrandedDequeuer
<1>8. ASSUME NEW q \in Params \ {p}
      PROVE  AsleepOn(q)' # {} => Len(done'[q]) <= Cardinality(NotifiedOn(q)')
  BY <1>1, <1>2, OtherQueue, QuietQueue
<1> QED
  BY <1>7, <1>8 DEF NoStrandedDequeuer

(* Going to sleep strands nobody: it is done with an empty queue.            *)
LEMMA SleepStrands ==
  ASSUME TypeOK, NoStrandedDequeuer, NEW d \in Dequeuers, SleepOnDone(d)
  PROVE  NoStrandedDequeuer'
<1>1. PICK p \in Params : p = dequeuer[d].param /\ dequeuer[d] \in AwakeDequeuer
  BY Awake DEF SleepOnDone, AwakeDequeuer
<1>2. /\ done[p] = <<>> /\ UNCHANGED done
      /\ dequeuer'[d].at = "asleep" /\ dequeuer'[d].param = p
      /\ \A u \in Dequeuers \ {d} : dequeuer'[u] = dequeuer[u]
  BY <1>1 DEF SleepOnDone, TypeOK, AwakeDequeuer, queueVars
<1>3. Len(done'[p]) <= Cardinality(NotifiedOn(p)')
  BY <1>2, NotifiedFinite
<1>4. ASSUME NEW q \in Params \ {p}
      PROVE  AsleepOn(q)' # {} => Len(done'[q]) <= Cardinality(NotifiedOn(q)')
  BY <1>1, <1>2, OtherQueue, QuietQueue
<1> QED
  BY <1>3, <1>4 DEF NoStrandedDequeuer

(* A spurious wakeup strands nobody.                                         *)
LEMMA WakeStrands ==
  ASSUME TypeOK, NoStrandedDequeuer, NEW d \in Dequeuers, SpuriousWake(d)
  PROVE  NoStrandedDequeuer'
<1>1. PICK p \in Params : p = dequeuer[d].param /\ dequeuer[d] \in AwakeDequeuer
  BY Awake DEF SpuriousWake, AwakeDequeuer
<1>2. /\ UNCHANGED done /\ dequeuer[d].at = "asleep"
      /\ dequeuer'[d].at = "notified" /\ dequeuer'[d].param = p
      /\ \A u \in Dequeuers \ {d} : dequeuer'[u] = dequeuer[u]
  BY <1>1 DEF SpuriousWake, TypeOK, AwakeDequeuer, queueVars
<1>3. NotifiedOn(p)' = NotifiedOn(p) \cup {d} /\ d \notin NotifiedOn(p)
      /\ AsleepOn(p) # {} /\ done'[p] = done[p] /\ Len(done[p]) \in Nat
  BY <1>1, <1>2 DEF NotifiedOn, AsleepOn, TypeOK
<1>4. Cardinality(NotifiedOn(p)') = Cardinality(NotifiedOn(p)) + 1
  BY <1>3, NotifiedFinite, FS_AddElement
<1>5. Len(done'[p]) <= Cardinality(NotifiedOn(p)')
  BY <1>3, <1>4, NotifiedFinite DEF NoStrandedDequeuer
<1>6. ASSUME NEW q \in Params \ {p}
      PROVE  AsleepOn(q)' # {} => Len(done'[q]) <= Cardinality(NotifiedOn(q)')
  BY <1>1, <1>2, OtherQueue, QuietQueue
<1> QED
  BY <1>5, <1>6 DEF NoStrandedDequeuer

(* No step strands a dequeuer as long as executions do not overlap.          *)
LEMMA StrandStep ==
  ASSUME 0 \notin MaxRefs
  PROVE  TypeOK /\ LockInv /\ ConsumedInv /\ NoStrandedDequeuer /\ [Next]_vars => NoStrandedDequeuer'
<1> SUFFICES ASSUME TypeOK, LockInv, ConsumedInv, NoStrandedDequeuer, [Next]_vars
             PROVE  NoStrandedDequeuer'
  OBVIOUS
<1>1. CASE UNCHANGED <<done, dequeuer>>
  BY <1>1 DEF NoStrandedDequeuer, AsleepOn, NotifiedOn
<1>2. ASSUME NEW d \in Dequeuers, NEW p \in Params, NEW max \in MaxRefs, EnterDequeue(d, p, max)
      PROVE  NoStrandedDequeuer'
  <2>1. /\ UNCHANGED done /\ dequeuer[d].at = "idle" /\ dequeuer'[d].at = "entering"
        /\ \A u \in Dequeuers \ {d} : dequeuer'[u] = dequeuer[u]
    BY <1>2 DEF EnterDequeue, TypeOK, queueVars
  <2> QED
    BY <2>1, OtherQueue, QuietQueue DEF NoStrandedDequeuer
<1>3. CASE Next
  <2>1. \/ UNCHANGED <<done, dequeuer>>
        \/ \E t \in Threads, p \in Params : move_refs_to_done(t, p)
        \/ \E d \in Dequeuers :
              \/ \E p \in Params, max \in MaxRefs : EnterDequeue(d, p, max)
              \/ SleepOnDone(d) \/ TakeDone(d) \/ SpuriousWake(d)
    BY <1>3, SomeThreads
    DEF Next, BeginAuto, Resolve, Finish, vxGraphParameterEnqueueReadyRef, SeeAllReady,
        execute_pipelined_graph, BeginDirectTurn, PopReady, ResolveWithoutReady, PushConsumed,
        EndNodes, FailNode, FailWave, EndLeftOver, EndExecution, queueVars
  <2> QED
    BY <2>1, <1>1, <1>2, MoveStrands, TakeStrands, SleepStrands, WakeStrands
<1> QED
  BY <1>1, <1>3 DEF vars, queueVars

(* No wakeup of done_cv is lost, as long as executions of the graph do not   *)
(* overlap, with each other or with left-over jobs: notify_one per execution *)
(* is enough for any number of dequeuers who ask for a reference at least.   *)
THEOREM SerializedStrandsNobody ==
  ASSUME 0 \notin MaxRefs PROVE Spec /\ []Serialized => []NoStrandedDequeuer
<1>1. Init => ConsumedInv /\ NoStrandedDequeuer
  BY QueueAssumption
  DEF Init, ConsumedInv, NoStrandedDequeuer, AsleepOn, NotifiedOn, Idle
<1> QED
  BY <1>1, ConsumedStep, StrandStep, SerializedLeavesNothing, TypeAndLocksCorrect, PTL DEF Spec

(* The QUEUE_AUTO executors, which take execution_mutex, strand no dequeuer, *)
(* if no failed wave leaves jobs behind and nobody asks for 0 references.    *)
THEOREM AutoStrandsNobody ==
  ASSUME DirectThreads = {}, WavesComplete, 0 \notin MaxRefs
  PROVE  Spec => []NoStrandedDequeuer
BY SerializedStrandsNobody, MutexSerializes, PTL
-----------------------------------------------------------------------------
(* r holds the numbers up to k in order, and those before them are gone.     *)
Gone(r, k) == k - Len(r)
Run(r, k)  == Gone(r, k) \in Nat /\ \A i \in 1..Len(r) : r[i] = Gone(r, k) + i

(* Enqueuing a batch continues the run, dequeuing takes its first number.    *)
LEMMA AppendToRun ==
  ASSUME NEW r \in Seq(Nat), NEW k \in Nat, NEW n \in Nat, Run(r, k)
  PROVE  LET s == r \o [i \in 1..n |-> k + i]
         IN  Run(s, k + n) /\ Gone(s, k + n) = Gone(r, k) /\ (r # <<>> => s # <<>>)
<1> DEFINE e == [i \in 1..n |-> k + i]
           l == Len(r)
<1>1. e \in Seq(Nat) /\ Len(e) = n /\ \A i \in 1..n : e[i] = k + i
  OBVIOUS
<1> HIDE DEF e
<1>2. /\ r \o e \in Seq(Nat) /\ Len(r \o e) = l + Len(e)
      /\ \A i \in 1..(l + Len(e)) : (r \o e)[i] = IF i <= l THEN r[i] ELSE e[i - l]
  BY <1>1, ConcatElements
<1>3. l \in Nat /\ (r # <<>> => l > 0)
  OBVIOUS
<1>4. k - l \in Nat /\ \A i \in 1..l : r[i] = (k - l) + i
  BY DEF Run, Gone
<1> HIDE DEF l
<1>5. Len(r \o e) = l + n /\ (k + n) - (l + n) = k - l
  BY <1>1, <1>2, <1>3
<1>6. ASSUME NEW i \in 1..(l + n) PROVE (r \o e)[i] = (k - l) + i
  <2>1. CASE i <= l
    BY <1>1, <1>2, <1>3, <1>4, <2>1
  <2>2. CASE i > l
    <3>1. i - l \in 1..n /\ k + (i - l) = (k - l) + i
      BY <1>3, <2>2
    <3>2. e[i - l] = (k - l) + i
      BY <1>1, <3>1
    <3>3. (r \o e)[i] = e[i - l]
      BY <1>1, <1>2, <1>3, <2>2
    <3> QED
      BY <3>2, <3>3
  <2>3. i <= l \/ i > l
    BY <1>3
  <2> QED
    BY <2>1, <2>2, <2>3
<1>7. r # <<>> => r \o e # <<>>
  <2>1. Len(<<>>) = 0
    OBVIOUS
  <2> QED
    BY <1>3, <1>5, <2>1
<1> QED
  BY <1>4, <1>5, <1>6, <1>7 DEF Run, Gone, e, l

LEMMA PopFromRun ==
  ASSUME NEW r \in Seq(Nat), NEW k \in Nat, r # <<>>, Run(r, k)
  PROVE  /\ Run(Tail(r), k)
         /\ Gone(Tail(r), k) = Gone(r, k) + 1 /\ Head(r) = Gone(r, k) + 1
<1> DEFINE l == Len(r)
           s == Tail(r)
           m == Len(s)
<1>1. /\ l \in Nat /\ l > 0 /\ m = l - 1 /\ Head(r) = r[1]
      /\ \A i \in 1..(l - 1) : s[i] = r[i + 1]
  OBVIOUS
<1>2. k - l \in Nat /\ \A i \in 1..l : r[i] = (k - l) + i
  BY DEF Run, Gone
<1> HIDE DEF l, s, m
<1>3. k - m = (k - l) + 1 /\ k - m \in Nat
  BY <1>1, <1>2
<1>4. Head(r) = (k - l) + 1
  BY <1>1, <1>2
<1>5. ASSUME NEW i \in 1..m PROVE s[i] = (k - m) + i
  BY <1>1, <1>2, <1>3
<1> QED
  BY <1>3, <1>4, <1>5 DEF Run, Gone, l, s, m

(* The references on a queue are the ones enqueued last, in order, and those *)
(* before them have been popped.                                             *)
Popped(p) == Gone(ready[p], enqueued[p])
Numbered  == \A p \in Params : Run(ready[p], enqueued[p])

LEMMA EnqueueNumbered ==
  ASSUME TypeOK, Numbered, NEW p \in Params, NEW n \in BatchSizes,
         vxGraphParameterEnqueueReadyRef(p, n)
  PROVE  /\ Numbered'
         /\ \A q \in Params : Popped(q)' = Popped(q) /\ (ready[q] # <<>> => ready'[q] # <<>>)
<1>1. /\ ready'[p] = ready[p] \o [i \in 1..n |-> enqueued[p] + i]
      /\ enqueued'[p] = enqueued[p] + n
      /\ \A q \in Params \ {p} : ready'[q] = ready[q] /\ enqueued'[q] = enqueued[q]
  BY DEF vxGraphParameterEnqueueReadyRef, TypeOK
<1>2. ready[p] \in Seq(Nat) /\ enqueued[p] \in Nat /\ n \in Nat /\ Run(ready[p], enqueued[p])
  BY QueueAssumption DEF TypeOK, Numbered
<1>3. /\ Run(ready'[p], enqueued'[p]) /\ Gone(ready'[p], enqueued'[p]) = Gone(ready[p], enqueued[p])
      /\ (ready[p] # <<>> => ready'[p] # <<>>)
  <2> HIDE DEF Run, Gone
  <2> QED
    BY <1>1, <1>2, AppendToRun
<1> QED
  BY <1>1, <1>3 DEF Numbered, Popped

LEMMA PopNumbered ==
  ASSUME TypeOK, Numbered, NEW t \in Threads, NEW p \in Params, PopReady(t, p)
  PROVE  /\ Numbered' /\ Popped(p)' = Popped(p) + 1 /\ Head(ready[p]) = Popped(p) + 1
         /\ \A q \in Params \ {p} : Popped(q)' = Popped(q) /\ ready'[q] = ready[q]
<1>1. /\ ready[p] # <<>> /\ ready'[p] = Tail(ready[p]) /\ enqueued' = enqueued
      /\ \A q \in Params \ {p} : ready'[q] = ready[q]
  BY DEF PopReady, TypeOK
<1>2. ready[p] \in Seq(Nat) /\ enqueued[p] \in Nat /\ Run(ready[p], enqueued[p])
  BY DEF TypeOK, Numbered
<1>3. /\ Run(ready'[p], enqueued'[p])
      /\ Gone(ready'[p], enqueued'[p]) = Gone(ready[p], enqueued[p]) + 1
      /\ Head(ready[p]) = Gone(ready[p], enqueued[p]) + 1
  BY <1>1, <1>2, PopFromRun
<1> QED
  BY <1>1, <1>3 DEF Numbered, Popped

(* The reference of p's queue that t's execution uses, and the turn it is.   *)
InUse(t, p) == IF pc[t] = "resolving" /\ hand[t].param = p THEN hand[t].ref ELSE bound[t][p]
Turn(t, p)  == IF p \in left[t] THEN Popped(p) + 1 ELSE Popped(p)

(* With one executor the queues are level between executions, and during one *)
(* the parameters that are resolved are one ahead of those that are not.     *)
Level(t)   == \A p, q \in Params : Popped(p) = Popped(q)
Resolving(t) == /\ \A p, q \in Params : Turn(t, p) = Turn(t, q)
                /\ \A p \in left[t] : ready[p] # <<>>
                /\ \A p \in Params \ left[t] : Popped(p) > 0 /\ InUse(t, p) = Popped(p)

TurnInv ==
    \A t \in Executors :
        /\ pc[t] \in {"idle", "checked", "finishing"} => Level(t)
        /\ pc[t] = "checked" => \A p \in Params : ready[p] # <<>>
        /\ pc[t] \in {"running", "resolving"} => Resolving(t)

OneExecutor == DirectThreads = {} /\ \A t, u \in AutoThreads : t = u

LEMMA TurnStep ==
  ASSUME OneExecutor, MayFail = FALSE
  PROVE  TypeOK /\ LockInv /\ NoLeftOver /\ Numbered /\ TurnInv /\ [Next]_vars
            => Numbered' /\ TurnInv'
<1> SUFFICES ASSUME TypeOK, LockInv, NoLeftOver, Numbered, TurnInv, [Next]_vars
             PROVE  Numbered' /\ TurnInv'
  OBVIOUS
<1> USE SomeThreads
<1>e. \A t, u \in Executors : t = u
  BY DEF OneExecutor, Executors
<1>p. \A p \in Params : Popped(p) \in Nat
  BY DEF Numbered, Popped, Run
<1>q. ASSUME UNCHANGED <<ready, enqueued>>
      PROVE  Numbered' /\ \A p \in Params : Popped(p)' = Popped(p)
  BY <1>q DEF Numbered, Popped
<1>1. ASSUME NEW p \in Params, NEW n \in BatchSizes, vxGraphParameterEnqueueReadyRef(p, n)
      PROVE  Numbered' /\ TurnInv'
  <2>1. /\ Numbered'
        /\ \A q \in Params : Popped(q)' = Popped(q) /\ (ready[q] # <<>> => ready'[q] # <<>>)
    BY <1>1, EnqueueNumbered
  <2>2. UNCHANGED <<pc, left, hand, bound>>
    BY <1>1 DEF vxGraphParameterEnqueueReadyRef, execVars
  <2>3. ASSUME NEW t \in Executors PROVE (Level(t) => Level(t)') /\ (Resolving(t) => Resolving(t)')
    <3>1. \A q \in Params : Turn(t, q)' = Turn(t, q) /\ InUse(t, q)' = InUse(t, q)
      BY <2>1, <2>2 DEF Turn, InUse
    <3>2. Level(t) => Level(t)'
      BY <2>1 DEF Level
    <3>3. ASSUME Resolving(t) PROVE Resolving(t)'
      <4>1. left'[t] = left[t]
        BY <2>2
      <4>2. \A p1, q \in Params : Turn(t, p1)' = Turn(t, q)'
        BY <3>1, <3>3 DEF Resolving
      <4>3. left[t] \subseteq Params
        BY DEF TypeOK
      <4>4. \A q \in left[t] : ready'[q] # <<>>
        BY <2>1, <3>3, <4>3 DEF Resolving
      <4>5. \A q \in Params \ left[t] : Popped(q)' > 0 /\ InUse(t, q)' = Popped(q)'
        BY <2>1, <3>1, <3>3 DEF Resolving
      <4> QED
        BY <4>1, <4>2, <4>4, <4>5 DEF Resolving
    <3> QED
      BY <3>2, <3>3
  <2> QED
    BY <2>1, <2>2, <2>3 DEF TurnInv
<1>2. ASSUME NEW t \in Executors, SeeAllReady(t) PROVE Numbered' /\ TurnInv'
  <2>1. /\ pc[t] = "idle" /\ pc'[t] = "checked" /\ \A p \in Params : ready[p] # <<>>
        /\ UNCHANGED <<ready, enqueued>>
    BY <1>2 DEF SeeAllReady, queueVars, TypeOK
  <2>2. Level(t)'
    BY <1>q, <2>1 DEF TurnInv, Level
  <2> QED
    BY <1>e, <1>q, <2>1, <2>2 DEF TurnInv
<1>3. ASSUME NEW t \in Executors, execute_pipelined_graph(t) PROVE Numbered' /\ TurnInv'
  <2>1. /\ pc[t] = "checked" /\ pc'[t] = "running" /\ left'[t] = Params
        /\ UNCHANGED <<ready, enqueued>>
    BY <1>3 DEF execute_pipelined_graph, queueVars, TypeOK
  <2>2. Resolving(t)'
    BY <1>q, <2>1 DEF TurnInv, Level, Resolving, Turn
  <2> QED
    BY <1>e, <1>q, <2>1, <2>2 DEF TurnInv
<1>4. ASSUME NEW t \in Executors, NEW p \in Params, PopReady(t, p) PROVE Numbered' /\ TurnInv'
  <2>1. /\ pc[t] = "running" /\ p \in left[t] /\ pc'[t] = "resolving" /\ bound' = bound
        /\ left'[t] = left[t] \ {p}
        /\ hand'[t].param = p /\ hand'[t].ref = Head(ready[p])
    BY <1>4 DEF PopReady, TypeOK
  <2>2. /\ Numbered' /\ Popped(p)' = Popped(p) + 1 /\ Head(ready[p]) = Popped(p) + 1
        /\ \A q \in Params \ {p} : Popped(q)' = Popped(q) /\ ready'[q] = ready[q]
    BY <1>4, PopNumbered
  <2>3. Resolving(t)
    BY <2>1 DEF TurnInv
  <2>4. \A q \in Params : Turn(t, q)' = Turn(t, q)
    BY <2>1, <2>2 DEF Turn
  <2>5. \A q \in left'[t] : ready'[q] # <<>>
    BY <2>1, <2>2, <2>3 DEF Resolving, TypeOK
  <2>6. \A q \in Params \ left'[t] : Popped(q)' > 0 /\ InUse(t, q)' = Popped(q)'
    BY <1>p, <2>1, <2>2, <2>3 DEF Resolving, InUse
  <2>7. Resolving(t)'
    BY <2>3, <2>4, <2>5, <2>6 DEF Resolving
  <2> QED
    BY <1>e, <2>1, <2>2, <2>7 DEF TurnInv
<1>5. ASSUME NEW t \in Executors, PushConsumed(t) PROVE Numbered' /\ TurnInv'
  <2>1. /\ pc[t] = "resolving" /\ pc'[t] = "running" /\ UNCHANGED <<ready, enqueued, left>>
        /\ bound' = [bound EXCEPT ![t][hand[t].param] = hand[t].ref]
    BY <1>5 DEF PushConsumed, TypeOK
  <2>2. \A q \in Params : InUse(t, q)' = InUse(t, q)
    BY <2>1 DEF InUse, TypeOK
  <2>3. Resolving(t)'
    BY <1>q, <2>1, <2>2 DEF TurnInv, Resolving, Turn
  <2> QED
    BY <1>e, <1>q, <2>1, <2>3 DEF TurnInv
<1>6. ASSUME NEW t \in Executors, NEW p \in Params, ResolveWithoutReady(t, p) PROVE FALSE
  BY <1>6 DEF ResolveWithoutReady, TurnInv, Resolving
<1>7. ASSUME NEW t \in Executors, EndNodes(t) PROVE Numbered' /\ TurnInv'
  <2>1. /\ pc[t] = "running" /\ pc'[t] = "finishing" /\ left[t] = {} /\ UNCHANGED <<ready, enqueued>>
    BY <1>7 DEF EndNodes, queueVars, TypeOK
  <2>2. Level(t)'
    BY <1>q, <2>1 DEF TurnInv, Resolving, Turn, Level
  <2> QED
    BY <1>e, <1>q, <2>1, <2>2 DEF TurnInv
<1>8. ASSUME NEW t \in Executors, NEW p \in Params, move_refs_to_done(t, p) PROVE Numbered' /\ TurnInv'
  <2>1. pc[t] = "finishing" /\ UNCHANGED <<pc, ready, enqueued>>
    BY <1>8 DEF move_refs_to_done
  <2>2. Level(t)'
    BY <1>q, <2>1 DEF TurnInv, Level
  <2> QED
    BY <1>e, <1>q, <2>1, <2>2 DEF TurnInv
<1>9. ASSUME NEW t \in Executors, EndExecution(t) PROVE Numbered' /\ TurnInv'
  <2>1. pc[t] = "finishing" /\ pc'[t] = "idle" /\ UNCHANGED <<ready, enqueued>>
    BY <1>9 DEF EndExecution, queueVars, TypeOK
  <2>2. Level(t)'
    BY <1>q, <2>1 DEF TurnInv, Level
  <2> QED
    BY <1>e, <1>q, <2>1, <2>2 DEF TurnInv
<1>10. CASE UNCHANGED <<ready, enqueued, execVars>>
  <2>1. ASSUME NEW t \in Executors PROVE (Level(t) => Level(t)') /\ (Resolving(t) => Resolving(t)')
    BY <1>q, <1>10 DEF Level, Resolving, Turn, InUse, execVars
  <2> QED
    BY <1>q, <1>10, <2>1 DEF TurnInv, execVars
<1>11. CASE Next
  <2>1. ASSUME NEW d \in Dequeuers,
               \/ \E p \in Params, max \in MaxRefs : EnterDequeue(d, p, max)
               \/ SleepOnDone(d) \/ TakeDone(d) \/ SpuriousWake(d)
        PROVE  UNCHANGED <<ready, enqueued, execVars>>
    BY <2>1 DEF EnterDequeue, SleepOnDone, TakeDone, SpuriousWake, queueVars
  <2>2. /\ \A t \in AutoThreads : t \in Executors
        /\ DirectThreads = {} /\ \A t \in Threads : t \in Executors \/ t \in LeftOvers
    BY DEF Executors, OneExecutor, Threads
  <2>3. ASSUME NEW w \in LeftOvers, Resolve(w) \/ EndLeftOver(w) PROVE FALSE
    BY <2>3 DEF NoLeftOver, Resolve, EndLeftOver, PopReady, ResolveWithoutReady, PushConsumed
  <2>4. \A t \in Executors : ~FailNode(t) /\ \A w \in LeftOvers : ~FailWave(t, w)
    BY DEF FailNode, FailWave
  <2> QED
    BY <2>3, <2>4, <1>1, <1>2, <1>3, <1>4, <1>5, <1>6, <1>7, <1>8, <1>9, <1>10, <1>11, <2>1, <2>2, Zenon
    DEF Next, BeginAuto, Resolve, Finish
<1> QED
  BY <1>10, <1>11 DEF vars, queueVars

(* With the one QUEUE_AUTO executor of a graph and nodes that succeed, every *)
(* execution works on the n-th reference of every queue.  A failing node     *)
(* ends an execution between two resolutions, a second executor finds the    *)
(* first one's check stale: then the queues get out of step.                 *)
THEOREM OneSetEach ==
  ASSUME OneExecutor, MayFail = FALSE PROVE Spec => []OneSetPerExecution
<1>4. Spec => []NoLeftOver
  BY CompleteLeavesNothing DEF WavesComplete
<1>1. Init => Numbered /\ TurnInv
  BY SomeThreads DEF Init, Numbered, TurnInv, Level, Popped, Run, Gone
<1>2. TypeOK /\ LockInv /\ Numbered /\ TurnInv => OneSetPerExecution
  <2> SUFFICES ASSUME TypeOK, Numbered, TurnInv, NEW t \in Executors,
                      pc[t] = "running", left[t] = {}
               PROVE  ParametersInStep(t) /\ FullSetOfRefs(t)
    BY DEF OneSetPerExecution
  <2>1. /\ \A p \in Params : bound[t][p] = Popped(p) /\ Popped(p) > 0
        /\ \A p, q \in Params : Popped(p) = Popped(q)
    BY DEF TurnInv, Resolving, Turn, InUse
  <2> QED
    BY <2>1 DEF ParametersInStep, FullSetOfRefs
<1>3. TypeOK /\ LockInv /\ NoLeftOver /\ Numbered /\ TurnInv /\ [Next]_vars
         => Numbered' /\ TurnInv'
  BY TurnStep
<1> QED
  BY <1>1, <1>2, <1>3, <1>4, TypeAndLocksCorrect, PTL DEF Spec
=============================================================================
