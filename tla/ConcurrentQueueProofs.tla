----------------------- MODULE ConcurrentQueueProofs -----------------------
(***************************************************************************)
(* Safety of ConcurrentQueue for every set of threads, every capacity and  *)
(* every number of items.                                                  *)
(***************************************************************************)
EXTENDS ConcurrentQueue, TLAPS, FiniteSetTheorems, SequenceTheorems

\* TypeOK is not inductive alone: that a predicate's thread may pop needs
\* PredicateSeesWhatIsPopped, which in turn needs the owner of the mutex.
IInv == /\ TypeOK
        /\ WithinCapacity
        /\ PredicateSeesWhatIsPopped
        /\ WakeupsCoverItems

USE ThreadsAssumption, SizesAssumption, MaxItemsAssumption

\* The threads at one place of the class are finitely many.
LEMMA AtFinite ==
  ASSUME NEW state
  PROVE  IsFiniteSet(At(state)) /\ Cardinality(At(state)) \in Nat
<1>1. At(state) \in SUBSET Threads  BY DEF At
<1>2. IsFiniteSet(At(state))  BY <1>1, FS_Subset
<1> QED  BY <1>2, FS_CardinalityType

\* No thread owns the mutex when it is free, and one owner excludes the others.
LEMMA OwnerAtPredicate ==
  ASSUME TypeOK
  PROVE  \A t \in At("predicate") : lock = t
BY DEF TypeOK, At

LEMMA InitIInv == Init => IInv
<1> SUFFICES ASSUME Init PROVE IInv  OBVIOUS
<1>1. queue \in Seq(Items) /\ outs \in Seq(Items) /\ Len(queue) = 0
  BY EmptySeq DEF Init
<1>2. At("waiting") = {} /\ At("predicate") = {}  BY DEF Init, At
<1>3. TypeOK  BY <1>1 DEF Init, TypeOK, States, Policies, Items
<1>4. WithinCapacity  BY <1>1, <1>3 DEF WithinCapacity, TypeOK
<1> QED  BY <1>2, <1>3, <1>4
         DEF IInv, PredicateSeesWhatIsPopped, WakeupsCoverItems

\* Every step preserves the domains of the variables.
LEMMA StepTypeOK ==
  ASSUME IInv, NEW t \in Threads, Step(t)
  PROVE  TypeOK'
<1> USE DEF Goto, Free, States
<1>0. /\ TypeOK /\ PredicateSeesWhatIsPopped
      /\ lock # None => pc[lock] = "predicate"
  BY DEF IInv, TypeOK
<1>1. ASSUME NEW rest \in Seq(Items), Accept(t, rest), pc[t] = "idle",
             discarded' \subseteq Items
      PROVE  TypeOK'
  <2>1. produced + 1 \in Items /\ produced' \in 0..MaxItems
    BY <1>0, <1>1 DEF TypeOK, Items, Accept
  <2>2. queue' \in Seq(Items)  BY <1>1, <2>1 DEF Accept
  <2> QED  BY <1>0, <1>1, <2>1, <2>2 DEF TypeOK, Accept
<1>2. CASE EnqueueWithRoom(t)
  BY <1>0, <1>1, <1>2 DEF EnqueueWithRoom, TypeOK
<1>3. CASE EnqueueDroppingOldest(t)
  <2>1. queue # <<>>
    BY <1>0, <1>3, EmptySeq DEF EnqueueDroppingOldest, Full, TypeOK
  <2>2. Head(queue) \in Items /\ Tail(queue) \in Seq(Items)
    BY <1>0, <2>1, HeadTailProperties DEF TypeOK
  <2> QED  BY <1>0, <1>1, <1>3, <2>2 DEF EnqueueDroppingOldest, TypeOK
<1>4. CASE NotifyOne(t)
  BY <1>0, <1>4 DEF NotifyOne, TypeOK, At
<1>5. ASSUME Pop(t), queue # <<>>, pc[t] # "predicate", lock' = lock
      PROVE  TypeOK'
  <2>1. Head(queue) \in Items /\ Tail(queue) \in Seq(Items)
    BY <1>0, <1>5, HeadTailProperties DEF TypeOK
  <2>2. outs' \in Seq(Items)  BY <1>0, <1>5, <2>1 DEF Pop, TypeOK
  <2> QED  BY <1>0, <1>5, <2>1, <2>2 DEF Pop, TypeOK
<1>6. CASE TryDequeue(t)  BY <1>5, <1>6 DEF TryDequeue
<1>7. CASE WaitDequeue(t)  BY <1>5, <1>7 DEF WaitDequeue
<1>8. CASE Block(t)  BY <1>0, <1>8 DEF Block, TypeOK
<1>9. CASE SpuriousWakeup(t)  BY <1>0, <1>9 DEF SpuriousWakeup, TypeOK
<1>10. CASE DequeueIfCall(t)
  <2>1. Head(queue) \in Nat /\ Len(queue) \in Nat
    BY <1>0, <1>10, HeadTailProperties DEF DequeueIfCall, TypeOK, Items
  <2> QED  BY <1>0, <1>10, <2>1 DEF DequeueIfCall, TypeOK
<1>11. CASE DequeueIfReturn(t)
  <2>1. queue # <<>>
    BY <1>0, <1>11 DEF DequeueIfReturn, PredicateSeesWhatIsPopped, At
  <2>2. Head(queue) \in Items /\ Tail(queue) \in Seq(Items)
    BY <1>0, <2>1, HeadTailProperties DEF TypeOK
  <2>3. \A u \in Threads : u # t => pc[u] # "predicate"
    BY <1>0, <1>11 DEF DequeueIfReturn, TypeOK
  <2>4. CASE Pop(t)
    <3>1. outs' \in Seq(Items)  BY <1>0, <2>2, <2>4 DEF Pop, TypeOK
    <3> QED  BY <1>0, <1>11, <2>2, <2>3, <2>4, <3>1
             DEF Pop, DequeueIfReturn, TypeOK
  <2>5. CASE Goto(t, "idle") /\ UNCHANGED <<max_size, policy, queue, seen,
                                            produced, outs, discarded>>
    BY <1>0, <1>11, <2>3, <2>5 DEF DequeueIfReturn, TypeOK
  <2> QED  BY <1>11, <2>4, <2>5 DEF DequeueIfReturn
<1>12. CASE Clear(t)
  <2>1. {queue[i] : i \in DOMAIN queue} \subseteq Items
    BY <1>0, ElementOfSeq, LenProperties DEF TypeOK
  <2> QED  BY <1>0, <1>12, <2>1, EmptySeq DEF Clear, TypeOK
<1> QED  BY <1>2, <1>3, <1>4, <1>6, <1>7, <1>8, <1>9, <1>10, <1>11, <1>12
         DEF Step

\* emplace_impl tests the size and makes room under the lock it pushes under.
LEMMA StepWithinCapacity ==
  ASSUME IInv, NEW t \in Threads, Step(t)
  PROVE  WithinCapacity'
<1> USE DEF WithinCapacity
<1>0. queue \in Seq(Items) /\ max_size \in Nat /\ WithinCapacity
  BY DEF IInv, TypeOK
<1>1. CASE EnqueueWithRoom(t)
  BY <1>0, <1>1 DEF EnqueueWithRoom, Full, Accept
<1>2. CASE EnqueueDroppingOldest(t)
  <2>1. queue # <<>>  BY <1>0, <1>2, EmptySeq DEF EnqueueDroppingOldest, Full
  <2>2. Tail(queue) \in Seq(Items) /\ Len(Tail(queue)) = Len(queue) - 1
    BY <1>0, <2>1, HeadTailProperties
  <2> QED  BY <1>0, <1>2, <2>2 DEF EnqueueDroppingOldest, Accept
<1>3. ASSUME Pop(t), queue # <<>>  PROVE WithinCapacity'
  BY <1>0, <1>3, HeadTailProperties DEF Pop
<1>4. CASE DequeueIfReturn(t)
  <2>1. queue # <<>>
    BY <1>4 DEF DequeueIfReturn, IInv, PredicateSeesWhatIsPopped, At
  <2> QED  BY <1>0, <1>3, <1>4, <2>1 DEF DequeueIfReturn
<1>5. CASE Clear(t)  BY <1>0, <1>5, EmptySeq DEF Clear
<1>6. CASE NotifyOne(t) \/ Block(t) \/ SpuriousWakeup(t) \/ DequeueIfCall(t)
  BY <1>0, <1>6 DEF NotifyOne, Block, SpuriousWakeup, DequeueIfCall
<1> QED  BY <1>1, <1>2, <1>3, <1>4, <1>5, <1>6
         DEF Step, TryDequeue, WaitDequeue

\* No other thread changes the queue while a predicate runs: it owns the mutex.
LEMMA StepPredicate ==
  ASSUME IInv, NEW t \in Threads, Step(t)
  PROVE  PredicateSeesWhatIsPopped'
<1> USE DEF PredicateSeesWhatIsPopped, At, Goto
<1>0. /\ PredicateSeesWhatIsPopped /\ pc \in [Threads -> States]
      /\ seen \in [Threads -> [head : Nat, size : Nat]]
      /\ \A u \in Threads : lock = u <=> pc[u] = "predicate"
  BY DEF IInv, TypeOK
<1>2. Free => At("predicate") = {}
  BY <1>0 DEF Free
<1>3. CASE EnqueueWithRoom(t) \/ EnqueueDroppingOldest(t)
  BY <1>0, <1>2, <1>3 DEF EnqueueWithRoom, EnqueueDroppingOldest, Accept
<1>4. CASE TryDequeue(t) \/ WaitDequeue(t)
  BY <1>0, <1>2, <1>4 DEF TryDequeue, WaitDequeue, Pop
<1>5. CASE NotifyOne(t)  BY <1>0, <1>5 DEF NotifyOne
<1>6. CASE Block(t)  BY <1>0, <1>2, <1>6 DEF Block
<1>7. CASE SpuriousWakeup(t)  BY <1>0, <1>7 DEF SpuriousWakeup
<1>8. CASE DequeueIfCall(t)  BY <1>0, <1>2, <1>8 DEF DequeueIfCall
<1>9. CASE DequeueIfReturn(t)
  <2>1. \A u \in Threads : u # t => pc[u] # "predicate"
    BY <1>0, <1>9 DEF DequeueIfReturn
  <2> QED  BY <1>0, <1>9, <2>1 DEF DequeueIfReturn, Pop
<1>10. CASE Clear(t)  BY <1>0, <1>2, <1>10 DEF Clear
<1> QED  BY <1>3, <1>4, <1>5, <1>6, <1>7, <1>8, <1>9, <1>10 DEF Step

\* A queued item is matched by a notification to come or a woken consumer: the
\* two sets trade members one for one, and a thread only goes to sleep when
\* nothing is queued.
LEMMA StepWakeups ==
  ASSUME IInv, NEW t \in Threads, Step(t)
  PROVE  WakeupsCoverItems'
<1> DEFINE N == At("notify")
           K == At("woken")
<1> USE DEF Goto
<1>0. /\ WakeupsCoverItems /\ pc \in [Threads -> States]
      /\ queue \in Seq(Items) /\ Len(queue) \in Nat
      /\ IsFiniteSet(N) /\ Cardinality(N) \in Nat
      /\ IsFiniteSet(K) /\ Cardinality(K) \in Nat
  BY AtFinite, LenProperties DEF IInv, TypeOK
<1> HIDE DEF N, K
<1>1. ASSUME NEW rest \in Seq(Items), Accept(t, rest), pc[t] = "idle",
             Len(rest) <= Len(queue)
      PROVE  WakeupsCoverItems'
  <2>1. N' = N \cup {t} /\ t \notin N /\ K' = K
    BY <1>0, <1>1 DEF Accept, At, N, K
  <2>2. At("waiting")' = At("waiting")  BY <1>0, <1>1 DEF Accept, At
  <2>3. Cardinality(N') = Cardinality(N) + 1  BY <1>0, <2>1, FS_AddElement
  <2>4. Len(queue') = Len(rest) + 1 /\ Len(rest) \in Nat
    BY <1>1, LenProperties DEF Accept
  <2> QED  BY <1>0, <1>1, <2>1, <2>2, <2>3, <2>4 DEF WakeupsCoverItems, N, K
<1>2. CASE EnqueueWithRoom(t)
  BY <1>0, <1>1, <1>2 DEF EnqueueWithRoom
<1>3. CASE EnqueueDroppingOldest(t)
  <2>0. max_size \in Nat  BY DEF IInv, TypeOK
  <2>1. queue # <<>>
    BY <1>0, <1>3, <2>0, EmptySeq DEF EnqueueDroppingOldest, Full
  <2>2. Tail(queue) \in Seq(Items) /\ Len(Tail(queue)) <= Len(queue)
    BY <1>0, <2>1, HeadTailProperties
  <2> QED  BY <1>1, <1>3, <2>2 DEF EnqueueDroppingOldest
<1>4. CASE NotifyOne(t)
  <2>1. CASE At("waiting") = {} /\ pc' = [pc EXCEPT ![t] = "idle"]
    BY <1>0, <1>4, <2>1 DEF At, WakeupsCoverItems
  <2>2. ASSUME NEW w \in At("waiting"),
               pc' = [pc EXCEPT ![t] = "idle", ![w] = "woken"]
        PROVE  WakeupsCoverItems'
    <3>1. N' = N \ {t} /\ t \in N /\ K' = K \cup {w} /\ w \notin K
      BY <1>0, <1>4, <2>2 DEF NotifyOne, At, N, K
    <3>2. /\ Cardinality(N') = Cardinality(N) - 1
          /\ Cardinality(K') = Cardinality(K) + 1
      BY <1>0, <3>1, FS_AddElement, FS_RemoveElement
    <3>3. queue' = queue  BY <1>4 DEF NotifyOne
    <3> QED  BY <1>0, <2>2, <3>2, <3>3 DEF WakeupsCoverItems, N, K
  <2> QED  BY <1>4, <2>1, <2>2 DEF NotifyOne
<1>5. ASSUME Pop(t), queue # <<>>, pc[t] \in {"idle", "woken", "predicate"}
      PROVE  WakeupsCoverItems'
  <2>1. Len(queue') = Len(queue) - 1  BY <1>0, <1>5, HeadTailProperties DEF Pop
  <2>2. N' = N /\ K' = K \ {t} /\ At("waiting")' = At("waiting")
    BY <1>0, <1>5 DEF Pop, At, N, K
  <2>3. Cardinality(K') >= Cardinality(K) - 1 /\ Cardinality(K') \in Nat
    <3>1. IsFiniteSet(K \ {t}) /\ Cardinality(K \ {t}) \in Nat
      BY <1>0, FS_RemoveElement, FS_CardinalityType
    <3>2. CASE t \in K
      <4>1. Cardinality(K \ {t}) = Cardinality(K) - 1
        BY <1>0, <3>2, FS_RemoveElement
      <4> QED  BY <1>0, <2>2, <3>1, <4>1
    <3>3. CASE t \notin K
      <4>1. K' = K  BY <2>2, <3>3
      <4>2. Cardinality(K') = Cardinality(K)  BY <4>1
      <4> QED  BY <1>0, <4>2
    <3> QED  BY <3>2, <3>3
  <2> QED  BY <1>0, <2>1, <2>2, <2>3 DEF WakeupsCoverItems, N, K
<1>6. CASE TryDequeue(t) \/ WaitDequeue(t)
  BY <1>5, <1>6 DEF TryDequeue, WaitDequeue
<1>7. ASSUME Len(queue') = 0, pc' \in [Threads -> States]
      PROVE  WakeupsCoverItems'
  <2>1. IsFiniteSet(N') /\ IsFiniteSet(K')
    <3>1. N' \in SUBSET Threads /\ K' \in SUBSET Threads  BY DEF N, K, At
    <3> QED  BY <3>1, FS_Subset
  <2>2. Cardinality(N') \in Nat /\ Cardinality(K') \in Nat
    BY <2>1, FS_CardinalityType
  <2> QED  BY <1>7, <2>2 DEF WakeupsCoverItems, N, K
<1>8. CASE Block(t)
  BY <1>0, <1>7, <1>8, EmptySeq DEF Block, States
<1>9. CASE SpuriousWakeup(t)
  <2>1. N' = N /\ K' = K \cup {t} /\ t \notin K /\ queue' = queue
    BY <1>0, <1>9 DEF SpuriousWakeup, At, N, K
  <2>2. Cardinality(K') = Cardinality(K) + 1  BY <1>0, <2>1, FS_AddElement
  <2>3. t \in At("waiting")  BY <1>9 DEF SpuriousWakeup, At
  <2> QED  BY <1>0, <2>1, <2>2, <2>3 DEF WakeupsCoverItems, N, K
<1>10. ASSUME queue' = queue, pc[t] \in {"idle", "predicate"},
              pc' = [pc EXCEPT ![t] = "predicate"] \/ pc' = [pc EXCEPT ![t] = "idle"]
       PROVE  WakeupsCoverItems'
  <2>1. N' = N /\ K' = K /\ At("waiting")' = At("waiting")
    BY <1>0, <1>10 DEF At, N, K
  <2> QED  BY <1>0, <1>10, <2>1 DEF WakeupsCoverItems, N, K
<1>11. CASE DequeueIfCall(t)
  BY <1>10, <1>11 DEF DequeueIfCall
<1>12. CASE DequeueIfReturn(t)
  <2>1. queue # <<>> /\ pc[t] = "predicate"
    BY <1>12 DEF DequeueIfReturn, IInv, PredicateSeesWhatIsPopped, At
  <2> QED  BY <1>5, <1>10, <1>12, <2>1 DEF DequeueIfReturn
<1>13. CASE Clear(t)
  BY <1>0, <1>7, <1>13, EmptySeq DEF Clear
<1> QED  BY <1>2, <1>3, <1>4, <1>6, <1>8, <1>9, <1>11, <1>12, <1>13 DEF Step

\* IInv is inductive.
LEMMA NextIInv == IInv /\ [Next]_vars => IInv'
<1> SUFFICES ASSUME IInv, [Next]_vars  PROVE IInv'  OBVIOUS
<1>1. ASSUME NEW t \in Threads, Step(t)  PROVE IInv'
  BY <1>1, StepTypeOK, StepWithinCapacity, StepPredicate, StepWakeups DEF IInv
<1>2. CASE UNCHANGED vars
  BY <1>2 DEF vars, IInv, TypeOK, WithinCapacity, PredicateSeesWhatIsPopped,
              WakeupsCoverItems, At
<1> QED  BY <1>1, <1>2 DEF Next

\* In every behaviour of any number of threads: the variables stay in their
\* domains and the thread inside a dequeue_if predicate is the mutex's owner.
THEOREM Typing == Spec => []TypeOK
<1>1. IInv => TypeOK  BY DEF IInv
<1> QED  BY <1>1, InitIInv, NextIInv, PTL DEF Spec

\* A bounded queue never exceeds the capacity it was constructed with.
THEOREM Capacity == Spec => []WithinCapacity
<1>1. IInv => WithinCapacity  BY DEF IInv
<1> QED  BY <1>1, InitIInv, NextIInv, PTL DEF Spec

\* wait_dequeue never sleeps through an item that no wakeup is on its way for.
THEOREM NoLostWakeup == Spec => []WakeupsCoverItems
<1>1. IInv => WakeupsCoverItems  BY DEF IInv
<1> QED  BY <1>1, InitIInv, NextIInv, PTL DEF Spec

\* dequeue_if pops exactly the head its predicate approved.
THEOREM PredicateStable == Spec => []PredicateSeesWhatIsPopped
<1>1. IInv => PredicateSeesWhatIsPopped  BY DEF IInv
<1> QED  BY <1>1, InitIInv, NextIInv, PTL DEF Spec

-----------------------------------------------------------------------------
(***************************************************************************)
(* Order and accounting.                                                   *)
(***************************************************************************)
Ordered == Fifo /\ EveryItemAccounted

\* A concatenation is increasing when its halves are and the first precedes
\* the second.
LEMMA ConcatIncreasing ==
  ASSUME NEW s1 \in Seq(Items), NEW s2 \in Seq(Items)
  PROVE  Increasing(s1 \o s2) <=>
           /\ Increasing(s1) /\ Increasing(s2)
           /\ \A i \in 1..Len(s1), j \in 1..Len(s2) : s1[i] < s2[j]
<1> DEFINE s == s1 \o s2
           m == Len(s1)
           n == Len(s2)
<1>1. /\ m \in Nat /\ n \in Nat /\ Len(s) = m + n /\ s \in Seq(Items)
      /\ DOMAIN s = 1..(m+n) /\ DOMAIN s1 = 1..m /\ DOMAIN s2 = 1..n
      /\ \A i \in 1..(m+n) : s[i] = IF i <= m THEN s1[i] ELSE s2[i-m]
  BY ConcatProperties, LenProperties
<1> HIDE DEF s, m, n
<1>2. ASSUME Increasing(s)
      PROVE  /\ Increasing(s1) /\ Increasing(s2)
             /\ \A i \in 1..m, j \in 1..n : s1[i] < s2[j]
  <2>1. Increasing(s1)  BY <1>1, <1>2 DEF Increasing
  <2>2. \A j \in 1..n : s2[j] = s[m + j]  BY <1>1
  <2>3. Increasing(s2)
    <3>1. SUFFICES ASSUME NEW i \in 1..n, NEW j \in 1..n, i < j
                   PROVE  s2[i] < s2[j]
      BY <1>1 DEF Increasing
    <3>0. m + i \in 1..(m+n) /\ m + j \in 1..(m+n) /\ m + i < m + j
      BY <1>1, <3>1
    <3>2. s[m + i] < s[m + j]  BY <1>1, <1>2, <3>0 DEF Increasing
    <3> QED  BY <2>2, <3>2
  <2>4. ASSUME NEW i \in 1..m, NEW j \in 1..n  PROVE s1[i] < s2[j]
    <3>0. i \in 1..(m+n) /\ m + j \in 1..(m+n) /\ i < m + j  BY <1>1
    <3>1. s[i] < s[m + j]  BY <1>1, <1>2, <3>0 DEF Increasing
    <3>2. s[i] = s1[i]  BY <1>1
    <3> QED  BY <2>2, <3>1, <3>2
  <2> QED  BY <2>1, <2>3, <2>4
<1>3. ASSUME Increasing(s1), Increasing(s2),
             \A i \in 1..m, j \in 1..n : s1[i] < s2[j]
      PROVE  Increasing(s)
  <2>1. SUFFICES ASSUME NEW i \in 1..(m+n), NEW j \in 1..(m+n), i < j
                 PROVE  s[i] < s[j]
    BY <1>1 DEF Increasing
  <2>2. CASE j <= m
    <3>1. i \in 1..m /\ j \in 1..m /\ s[i] = s1[i] /\ s[j] = s1[j]
      BY <1>1, <2>1, <2>2
    <3> QED  BY <1>1, <1>3, <2>1, <3>1 DEF Increasing
  <2>3. CASE i <= m /\ j > m
    <3>1. j - m \in 1..n  BY <1>1, <2>3
    <3> QED  BY <1>1, <1>3, <2>1, <2>3, <3>1
  <2>4. CASE i > m
    <3>1. i - m \in 1..n /\ j - m \in 1..n /\ i - m < j - m
      BY <1>1, <2>1, <2>4
    <3>2. s2[i - m] < s2[j - m]  BY <1>1, <1>3, <3>1 DEF Increasing
    <3> QED  BY <1>1, <2>1, <2>4, <3>2
  <2> QED  BY <1>1, <2>2, <2>3, <2>4
<1> QED  BY <1>2, <1>3 DEF s, m, n

\* An element of a sequence stands at one of its positions.
LEMMA InElements ==
  ASSUME NEW s \in Seq(Items), NEW x
  PROVE  x \in Elements(s) <=> \E i \in 1..Len(s) : s[i] = x
BY LenProperties DEF Elements

\* The items of a sequence after a pop or a push.
LEMMA ElementsOfAppend ==
  ASSUME NEW s \in Seq(Items), NEW e \in Items
  PROVE  Elements(Append(s, e)) = Elements(s) \cup {e}
<1>1. Append(s, e) \in Seq(Items) /\ Len(s) \in Nat
  BY LenProperties
<1>2. /\ Len(Append(s, e)) = Len(s) + 1 /\ Append(s, e)[Len(s) + 1] = e
      /\ \A i \in 1..Len(s) : Append(s, e)[i] = s[i]
  BY <1>1
<1>3. ASSUME NEW x
      PROVE  x \in Elements(Append(s, e)) <=> x \in Elements(s) \cup {e}
  <2>1. CASE x \in Elements(s)
    <3>1. PICK i \in 1..Len(s) : s[i] = x  BY <2>1, InElements
    <3>2. i \in 1..Len(Append(s, e)) /\ Append(s, e)[i] = x
      BY <1>1, <1>2, <3>1
    <3> QED  BY <1>1, <2>1, <3>2, InElements
  <2>2. CASE x = e
    <3>1. Len(s) + 1 \in 1..Len(Append(s, e))  BY <1>1, <1>2
    <3> QED  BY <1>1, <1>2, <2>2, <3>1, InElements
  <2>3. ASSUME x \in Elements(Append(s, e)), x # e  PROVE x \in Elements(s)
    <3>0. \E i \in 1..Len(Append(s, e)) : Append(s, e)[i] = x
      BY <1>1, <2>3, InElements
    <3>1. PICK i \in 1..Len(Append(s, e)) : Append(s, e)[i] = x  BY <3>0
    <3>2. i \in 1..Len(s) /\ s[i] = x  BY <1>1, <1>2, <2>3, <3>1
    <3> QED  BY <3>2, InElements
  <2> QED  BY <2>1, <2>2, <2>3
<1> QED  BY <1>3

LEMMA ElementsOfTail ==
  ASSUME NEW s \in Seq(Items), s # <<>>
  PROVE  Elements(s) = {Head(s)} \cup Elements(Tail(s))
<1>1. /\ Tail(s) \in Seq(Items) /\ Len(s) \in Nat \ {0}
      /\ Len(Tail(s)) = Len(s) - 1 /\ Head(s) = s[1]
      /\ \A i \in 1..Len(Tail(s)) : Tail(s)[i] = s[i+1]
  BY HeadTailProperties, EmptySeq
<1>2. ASSUME NEW x
      PROVE  x \in Elements(s) <=> x \in {Head(s)} \cup Elements(Tail(s))
  <2>1. CASE x = Head(s)
    <3>1. 1 \in 1..Len(s)  BY <1>1
    <3> QED  BY <1>1, <2>1, <3>1, InElements
  <2>2. CASE x \in Elements(Tail(s))
    <3>1. PICK i \in 1..Len(Tail(s)) : Tail(s)[i] = x
      BY <1>1, <2>2, InElements
    <3>2. i + 1 \in 1..Len(s) /\ s[i + 1] = x  BY <1>1, <3>1
    <3> QED  BY <2>2, <3>2, InElements
  <2>3. ASSUME x \in Elements(s), x # Head(s)  PROVE x \in Elements(Tail(s))
    <3>1. PICK i \in 1..Len(s) : s[i] = x  BY <2>3, InElements
    <3>2. i - 1 \in 1..Len(Tail(s)) /\ Tail(s)[i - 1] = x
      BY <1>1, <2>3, <3>1
    <3> QED  BY <1>1, <3>2, InElements
  <2> QED  BY <2>1, <2>2, <2>3
<1> QED  BY <1>2

LEMMA InitOrdered == Init => Ordered
<1> SUFFICES ASSUME Init PROVE Ordered  OBVIOUS
<1>1. outs \o queue = <<>> /\ DOMAIN <<>> = {}
  BY DEF Init
<1>2. Fifo  BY <1>1 DEF Fifo, Increasing
<1> QED  BY <1>2 DEF Ordered, Init, EveryItemAccounted, Elements

\* A partition of the accepted items stays one when the next item joins a part.
LEMMA NewItemAccounted ==
  ASSUME NEW n \in Nat, NEW Q, NEW O, NEW D, NEW R,
         Q \cup O \cup D = 1..n, D \cap (Q \cup O) = {}, R = Q \cup {n + 1}
  PROVE  R \cup O \cup D = 1..(n + 1) /\ D \cap (R \cup O) = {}
<1>1. 1..(n + 1) = (1..n) \cup {n + 1}  OBVIOUS
<1>2. n + 1 \notin D
  <2>1. n + 1 \notin 1..n  OBVIOUS
  <2> QED  BY <2>1
<1>3. R \cup O \cup D = 1..(n + 1)  BY <1>1
<1>4. D \cap (R \cup O) = {}  BY <1>2
<1> QED  BY <1>3, <1>4

\* Every step keeps the order and the accounts.
LEMMA StepOrdered ==
  ASSUME IInv, Ordered, NEW t \in Threads, Step(t)
  PROVE  Ordered'
<1> DEFINE Before(s1, s2) ==
             \A i \in 1..Len(s1), j \in 1..Len(s2) : s1[i] < s2[j]
           Chain(s1, s2) == Increasing(s1) /\ Increasing(s2) /\ Before(s1, s2)
<1>0. /\ queue \in Seq(Items) /\ outs \in Seq(Items) /\ produced \in 0..MaxItems
      /\ Chain(outs, queue) /\ EveryItemAccounted
      /\ max_size \in Nat
  BY ConcatIncreasing DEF IInv, TypeOK, Ordered, Fifo
<1>1. TypeOK'  BY StepTypeOK
<1>2. SUFFICES Chain(outs', queue') /\ EveryItemAccounted'
  BY <1>1, ConcatIncreasing DEF TypeOK, Ordered, Fifo
<1>3. /\ \A i \in 1..Len(queue) : queue[i] <= produced /\ queue[i] \in Int
      /\ \A i \in 1..Len(outs) : outs[i] <= produced /\ outs[i] \in Int
  BY <1>0, LenProperties, ElementOfSeq DEF EveryItemAccounted, Elements, Items
<1>4. queue # <<>> =>
        /\ Head(queue) \in Items /\ Tail(queue) \in Seq(Items)
        /\ Len(queue) \in Nat \ {0} /\ Head(queue) = queue[1]
        /\ Len(Tail(queue)) = Len(queue) - 1
        /\ \A i \in 1..Len(Tail(queue)) : Tail(queue)[i] = queue[i+1]
        /\ DOMAIN Tail(queue) = 1..Len(Tail(queue))
  BY <1>0, HeadTailProperties, EmptySeq, LenProperties
<1>5. queue # <<>> => /\ Chain(outs, Tail(queue))
                      /\ \A i \in 1..Len(Tail(queue)) : Head(queue) < Tail(queue)[i]
  BY <1>0, <1>4, LenProperties DEF Increasing
<1>6. queue # <<>> => Head(queue) \notin Elements(Tail(queue))
  BY <1>4, <1>5 DEF Elements, Items
<1>7. queue # <<>> => Head(queue) \notin Elements(outs)
  <2> SUFFICES ASSUME queue # <<>>, Head(queue) \in Elements(outs) PROVE FALSE
    OBVIOUS
  <2>1. PICK i \in 1..Len(outs) : outs[i] = Head(queue)  BY <1>0, InElements
  <2>2. outs[i] < queue[1]  BY <1>0, <1>4, <2>1
  <2> QED  BY <1>3, <1>4, <2>1, <2>2
<1>8. ASSUME NEW rest \in Seq(Items), Accept(t, rest), Chain(outs, rest),
             Elements(rest) \subseteq Elements(queue)
      PROVE  Chain(outs', queue') /\ Elements(queue') = Elements(rest) \cup {produced + 1}
  <2>1. /\ produced + 1 \in Items /\ Len(rest) \in Nat /\ outs' = outs
        /\ queue' = Append(rest, produced + 1) /\ DOMAIN rest = 1..Len(rest)
    BY <1>0, <1>8, LenProperties DEF Accept, Items
  <2>2. /\ Len(queue') = Len(rest) + 1 /\ DOMAIN queue' = 1..(Len(rest) + 1)
        /\ queue'[Len(rest) + 1] = produced + 1
        /\ \A i \in 1..Len(rest) : queue'[i] = rest[i]
    BY <2>1
  <2>3. \A i \in 1..Len(rest) : rest[i] <= produced /\ rest[i] \in Int
    <3>1. Elements(queue) \subseteq 1..produced
      BY <1>0 DEF EveryItemAccounted
    <3>2. ASSUME NEW i \in 1..Len(rest)  PROVE rest[i] \in 1..produced
      <4>1. rest[i] \in Elements(rest)  BY InElements
      <4> QED  BY <1>8, <3>1, <4>1
    <3> QED  BY <1>0, <3>2
  <2>4. Increasing(queue')
    BY <1>0, <1>8, <2>1, <2>2, <2>3 DEF Increasing
  <2>5. Before(outs', queue')
    BY <1>0, <1>3, <1>8, <2>1, <2>2
  <2> QED  BY <1>8, <2>1, <2>4, <2>5, ElementsOfAppend
<1>9. CASE EnqueueWithRoom(t)
  <2>1. /\ Chain(outs', queue') /\ Elements(queue') = Elements(queue) \cup {produced + 1}
        /\ discarded' = discarded /\ outs' = outs /\ produced' = produced + 1
    BY <1>0, <1>8, <1>9 DEF EnqueueWithRoom, Accept
  <2>2. /\ Elements(queue') \cup Elements(outs) \cup discarded = 1..(produced + 1)
        /\ discarded \cap (Elements(queue') \cup Elements(outs)) = {}
    BY <1>0, <2>1, NewItemAccounted DEF EveryItemAccounted
  <2> QED  BY <2>1, <2>2 DEF EveryItemAccounted
<1>10. CASE EnqueueDroppingOldest(t)
  <2>1. queue # <<>>  BY <1>0, <1>10, EmptySeq DEF EnqueueDroppingOldest, Full
  <2>2. Elements(queue) = {Head(queue)} \cup Elements(Tail(queue))
    BY <1>0, <2>1, ElementsOfTail
  <2>3. /\ Chain(outs', queue')
        /\ Elements(queue') = Elements(Tail(queue)) \cup {produced + 1}
        /\ discarded' = discarded \cup {Head(queue)}
        /\ outs' = outs /\ produced' = produced + 1
    BY <1>4, <1>5, <1>8, <1>10, <2>1, <2>2 DEF EnqueueDroppingOldest, Accept
  <2>4. Elements(Tail(queue)) \cup Elements(outs) \cup discarded' = 1..produced
    BY <1>0, <2>2, <2>3 DEF EveryItemAccounted
  <2>5. discarded' \cap (Elements(Tail(queue)) \cup Elements(outs)) = {}
    BY <1>0, <1>6, <1>7, <2>1, <2>2, <2>3 DEF EveryItemAccounted
  <2>6. /\ Elements(queue') \cup Elements(outs) \cup discarded' = 1..(produced + 1)
        /\ discarded' \cap (Elements(queue') \cup Elements(outs)) = {}
    BY <1>0, <2>3, <2>4, <2>5, NewItemAccounted
  <2> QED  BY <2>3, <2>6 DEF EveryItemAccounted
<1>11. ASSUME Pop(t), queue # <<>>
       PROVE  Chain(outs', queue') /\ EveryItemAccounted'
  <2>1. /\ outs' = Append(outs, Head(queue)) /\ queue' = Tail(queue)
        /\ discarded' = discarded /\ produced' = produced
    BY <1>11 DEF Pop
  <2>2. /\ Len(outs) \in Nat /\ Len(outs') = Len(outs) + 1
        /\ DOMAIN outs = 1..Len(outs) /\ DOMAIN outs' = 1..Len(outs')
        /\ outs'[Len(outs) + 1] = Head(queue)
        /\ \A i \in 1..Len(outs) : outs'[i] = outs[i] /\ outs[i] < Head(queue)
    BY <1>0, <1>4, <1>11, <2>1, LenProperties
  <2>3. Increasing(outs')  BY <1>0, <2>2 DEF Increasing
  <2>4. Before(outs', queue')  BY <1>5, <1>11, <2>1, <2>2
  <2>5. Elements(outs') = Elements(outs) \cup {Head(queue)}
    BY <1>0, <1>4, <1>11, <2>1, ElementsOfAppend
  <2>6. Elements(queue) = {Head(queue)} \cup Elements(queue')
    BY <1>0, <1>11, <2>1, ElementsOfTail
  <2> QED  BY <1>0, <1>5, <1>11, <2>1, <2>3, <2>4, <2>5, <2>6
           DEF EveryItemAccounted
<1>12. CASE TryDequeue(t) \/ WaitDequeue(t)
  BY <1>11, <1>12 DEF TryDequeue, WaitDequeue
<1>13. ASSUME UNCHANGED <<queue, outs, produced, discarded>>
       PROVE  Chain(outs', queue') /\ EveryItemAccounted'
  BY <1>0, <1>13 DEF EveryItemAccounted
<1>14. CASE DequeueIfReturn(t)
  <2>1. queue # <<>>
    BY <1>14 DEF DequeueIfReturn, IInv, PredicateSeesWhatIsPopped, At
  <2> QED  BY <1>11, <1>13, <1>14, <2>1 DEF DequeueIfReturn
<1>15. CASE Clear(t)
  <2>1. /\ queue' = <<>> /\ outs' = outs /\ produced' = produced
        /\ discarded' = discarded \cup Elements(queue)
    BY <1>15 DEF Clear, Elements
  <2>2. Chain(outs', queue') /\ Elements(queue') = {}
    BY <1>0, <2>1 DEF Increasing, Elements
  <2>3. Elements(queue) \cap Elements(outs) = {}
    <3> SUFFICES ASSUME NEW x \in Elements(queue), x \in Elements(outs)
                 PROVE  FALSE
      OBVIOUS
    <3>1. PICK j \in 1..Len(queue) : queue[j] = x  BY <1>0, InElements
    <3>2. PICK i \in 1..Len(outs) : outs[i] = x  BY <1>0, InElements
    <3> QED  BY <1>0, <1>3, <3>1, <3>2
  <2> QED  BY <1>0, <2>1, <2>2, <2>3 DEF EveryItemAccounted
<1>16. CASE NotifyOne(t) \/ Block(t) \/ SpuriousWakeup(t) \/ DequeueIfCall(t)
  BY <1>13, <1>16 DEF NotifyOne, Block, SpuriousWakeup, DequeueIfCall
<1> QED  BY <1>9, <1>10, <1>12, <1>14, <1>15, <1>16 DEF Step

LEMMA NextOrdered == IInv /\ Ordered /\ [Next]_vars => Ordered'
<1> SUFFICES ASSUME IInv, Ordered, [Next]_vars  PROVE Ordered'  OBVIOUS
<1>1. CASE UNCHANGED vars
  BY <1>1 DEF vars, Ordered, Fifo, EveryItemAccounted
<1> QED  BY <1>1, StepOrdered DEF Next

\* Consumers receive items in acceptance order and never one twice, whatever
\* the threads, the policy and the interleaving.
THEOREM FifoOrder == Spec => []Fifo
<1>1. Ordered => Fifo  BY DEF Ordered
<1> QED  BY <1>1, InitIInv, NextIInv, InitOrdered, NextOrdered, PTL DEF Spec

\* No accepted item is lost or in two places at once.
THEOREM Accounting == Spec => []EveryItemAccounted
<1>1. Ordered => EveryItemAccounted  BY DEF Ordered
<1> QED  BY <1>1, InitIInv, NextIInv, InitOrdered, NextOrdered, PTL DEF Spec

-----------------------------------------------------------------------------
(***************************************************************************)
(* Refinement: every step of the class is a step of the abstract queue or  *)
(* leaves it unchanged.                                                    *)
(***************************************************************************)
LEMMA InitRefines == Init => Abstract!Init
BY DEF Init, Abstract!Init, Blocked, At

LEMMA StepRefines ==
  ASSUME IInv, NEW t \in Threads, Step(t)
  PROVE  [Abstract!Next]_(Abstract!avars)
<1> USE DEF Goto
<1>0. /\ queue \in Seq(Items) /\ pc \in [Threads -> States] /\ max_size \in Nat
      /\ produced \in 0..MaxItems /\ Len(queue) \in Nat
  BY LenProperties DEF IInv, TypeOK
<1>1. ASSUME NEW rest, Accept(t, rest), pc[t] = "idle"
      PROVE  /\ Blocked' = Blocked /\ produced + 1 \in 1..MaxItems
             /\ queue' = Append(rest, produced + 1)
             /\ UNCHANGED <<max_size, policy, outs>>
  BY <1>0, <1>1 DEF Accept, Blocked, At
<1>2. CASE EnqueueWithRoom(t)
  <2>1. Abstract!Put(produced + 1)
    BY <1>0, <1>1, <1>2
       DEF EnqueueWithRoom, Full, Abstract!Put, Abstract!HasRoom, Abstract!Static
  <2> QED  BY <1>1, <1>2, <2>1 DEF EnqueueWithRoom, Abstract!Next
<1>3. CASE EnqueueDroppingOldest(t)
  <2>0. /\ queue' = Append(Tail(queue), produced + 1) /\ Blocked' = Blocked
        /\ UNCHANGED <<max_size, policy, outs>> /\ policy = "drop_oldest"
    BY <1>1, <1>3 DEF EnqueueDroppingOldest
  <2>2. ~Abstract!HasRoom
    BY <1>0, <1>3 DEF EnqueueDroppingOldest, Full, Abstract!HasRoom
  <2>1. Abstract!Put(produced + 1)
    BY <2>0, <2>2 DEF Abstract!Put, Abstract!Static
  <2> QED  BY <1>1, <1>3, <2>1 DEF EnqueueDroppingOldest, Abstract!Next
<1>4. CASE NotifyOne(t) \/ SpuriousWakeup(t) \/ DequeueIfCall(t)
  <2>1. Blocked' = Blocked
    BY <1>0, <1>4 DEF NotifyOne, SpuriousWakeup, DequeueIfCall, Blocked, At
  <2> QED  BY <1>4, <2>1 DEF NotifyOne, SpuriousWakeup, DequeueIfCall, Abstract!avars
<1>5. ASSUME Pop(t), queue # <<>>, pc[t] \in {"idle", "predicate"}
      PROVE  Abstract!Next
  <2>1. Blocked' = Blocked  BY <1>0, <1>5 DEF Pop, Blocked, At
  <2> QED  BY <1>5, <2>1 DEF Pop, Abstract!Next, Abstract!TakeNow, Abstract!Take,
                             Abstract!Static
<1>6. ASSUME Pop(t), queue # <<>>, pc[t] = "woken"
      PROVE  Abstract!Next
  <2>1. t \in Blocked /\ Blocked' = Blocked \ {t}
    BY <1>0, <1>6 DEF Pop, Blocked, At
  <2> QED  BY <1>6, <2>1 DEF Pop, Abstract!Next, Abstract!Serve, Abstract!Take,
                             Abstract!Static
<1>7. CASE TryDequeue(t) \/ WaitDequeue(t)
  BY <1>5, <1>6, <1>7 DEF TryDequeue, WaitDequeue
<1>8. CASE Block(t)
  <2>1. Blocked' = Blocked \cup {t}  BY <1>0, <1>8 DEF Block, Blocked, At
  <2> QED  BY <1>8, <2>1 DEF Block, Abstract!Next, Abstract!Wait, Abstract!Static
<1>9. CASE DequeueIfReturn(t)
  <2>1. queue # <<>> /\ pc[t] = "predicate"
    BY <1>9 DEF DequeueIfReturn, IInv, PredicateSeesWhatIsPopped, At
  <2>2. CASE Pop(t)  BY <1>5, <2>1, <2>2
  <2>3. CASE Goto(t, "idle") /\ UNCHANGED <<max_size, policy, queue, seen,
                                            produced, outs, discarded>>
    <3>1. Blocked' = Blocked  BY <1>0, <2>1, <2>3 DEF Blocked, At
    <3> QED  BY <2>3, <3>1 DEF Abstract!avars
  <2> QED  BY <1>9, <2>2, <2>3 DEF DequeueIfReturn
<1>10. CASE Clear(t)
  <2>1. Blocked' = Blocked  BY <1>10 DEF Clear, Blocked, At
  <2> QED  BY <1>10, <2>1 DEF Clear, Abstract!Next, Abstract!Discard, Abstract!Static
<1> QED  BY <1>2, <1>3, <1>4, <1>7, <1>8, <1>9, <1>10 DEF Step

\* The class implements the abstract blocking queue (its safety part): callers
\* cannot tell it from a queue with atomic operations and no condition variable.
THEOREM Refinement == Spec => Abstract!Safety
<1>1. IInv /\ [Next]_vars => [Abstract!Next]_(Abstract!avars)
  <2> SUFFICES ASSUME IInv, [Next]_vars
               PROVE  [Abstract!Next]_(Abstract!avars)
    OBVIOUS
  <2>1. CASE UNCHANGED vars
    BY <2>1 DEF vars, Abstract!avars, Blocked, At
  <2> QED  BY <2>1, StepRefines DEF Next
<1> QED  BY <1>1, InitIInv, NextIInv, InitRefines, PTL DEF Spec, Abstract!Safety
=============================================================================
