--------------------------- MODULE ShardingProofs ---------------------------
(* Proofs about Sharding, for every number of buckets, width of the hash's     *)
(* draws and set of objects: which pods show an object while the pods disagree *)
(* on the number of shards.                                                    *)
EXTENDS Sharding, JumpHashProofs, FiniteSetTheorems

\* The inductive invariant.
IInv == TypeOK /\ HashIsConsistent

\* The buckets of every key are consistent.
LEMMA BucketsConsistent ==
    ASSUME NEW key \in Keys
    PROVE  /\ BucketsOf(key) \in [0..MaxBuckets -> -1..MaxBuckets - 1]
           /\ BucketsOf(key)[0] = -1
           /\ \A n \in 1..MaxBuckets : BucketsOf(key)[n] \in 0..n - 1
           /\ \A n \in 1..MaxBuckets - 1 : BucketsOf(key)[n + 1] \in {BucketsOf(key)[n], n}
<1>1. \A n \in 0..MaxBuckets : BucketsOf(key)[n] = Hash(key, n)
    BY DEF BucketsOf
<1>2. \A n \in 0..MaxBuckets : Hash(key, n) \in IF n = 0 THEN {-1} ELSE 0..(n - 1)
    BY HashInRange
<1>3. \A n \in 0..MaxBuckets : Hash(key, n) \in -1..MaxBuckets - 1
    BY <1>2, JumpAssumption
<1>4. BucketsOf(key) \in [0..MaxBuckets -> -1..MaxBuckets - 1]
    BY <1>3 DEF BucketsOf
<1>5. \A n \in 1..MaxBuckets - 1 : BucketsOf(key)[n + 1] \in {BucketsOf(key)[n], n}
    BY <1>1, HashMovesToNew, JumpAssumption
<1>6. BucketsOf(key)[0] = -1 /\ \A n \in 1..MaxBuckets : BucketsOf(key)[n] \in 0..n - 1
    BY <1>1, <1>2, JumpAssumption
<1> QED
    BY <1>4, <1>5, <1>6

\* With any number of additional buckets an object stays where it is or moves to
\* one of the new buckets.
LEMMA ObjectStaysOrMovesToNew ==
    ASSUME IInv, NEW o \in Objects, NEW m \in 1..MaxBuckets, NEW n \in m..MaxBuckets
    PROVE  bucket[o][n] = bucket[o][m] \/ bucket[o][n] >= m
<1> DEFINE b == bucket[o]
           S == {d \in Nat : m + d <= MaxBuckets => b[m + d] = b[m] \/ b[m + d] >= m}
<1>1. \A i \in 1..MaxBuckets : b[i] \in 0..i - 1
    BY DEF IInv, HashIsConsistent
<1>2. \A i \in 1..MaxBuckets - 1 : b[i + 1] \in {b[i], i}
    BY DEF IInv, HashIsConsistent
<1> HIDE DEF b
<1>3. 0 \in S
    OBVIOUS
<1>4. ASSUME NEW d \in S PROVE d + 1 \in S
    <2> SUFFICES ASSUME m + (d + 1) <= MaxBuckets PROVE b[m + (d + 1)] = b[m] \/ b[m + (d + 1)] >= m
        OBVIOUS
    <2>1. m + d \in 1..MaxBuckets - 1 /\ m + (d + 1) = (m + d) + 1
        BY JumpAssumption
    <2>2. b[(m + d) + 1] \in {b[m + d], m + d}
        BY <1>2, <2>1
    <2>3. b[m + d] = b[m] \/ b[m + d] >= m
        BY <2>1, JumpAssumption
    <2> QED
        BY <2>1, <2>2, <2>3
<1> HIDE DEF S
<1>5. S = Nat
    BY <1>3, <1>4, InductiveSet DEF S
<1>6. n - m \in Nat /\ m + (n - m) = n /\ n <= MaxBuckets
    BY JumpAssumption
<1>7. b[n] = b[m] \/ b[n] >= m
    <2> DEFINE d == n - m
    <2>1. d \in S /\ m + d = n
        BY <1>5, <1>6
    <2> HIDE DEF d
    <2> QED
        BY <1>6, <2>1 DEF S
<1> QED
    BY <1>7 DEF b

\* At the start the pods are typed and every bucket is what jump.Hash gives.
LEMMA InitIInv == Init => IInv
<1> SUFFICES ASSUME Init PROVE IInv
    OBVIOUS
<1>1. \A o \in Objects : \E key \in Keys : bucket[o] = BucketsOf(key)
    BY DEF Init
<1>2. HashIsConsistent
    BY <1>1, BucketsConsistent DEF HashIsConsistent
<1>3. bucket \in [Objects -> [0..MaxBuckets -> -1..MaxBuckets - 1]]
    BY BucketsConsistent DEF Init
<1>4. TypeOK
    BY <1>3, JumpAssumption, ShardingAssumption DEF Init, TypeOK, Unset, Pods
<1> QED
    BY <1>2, <1>4 DEF IInv

\* Changes of the StatefulSet, pods that start and stop, and what they learn or miss
\* of the changes keep the types and the buckets.
LEMMA NextIInv == IInv /\ [Next]_vars => IInv'
<1> SUFFICES ASSUME IInv, [Next]_vars PROVE IInv'
    OBVIOUS
<1> USE JumpAssumption, ShardingAssumption DEF IInv
<1>1. bucket' = bucket
    BY DEF Next, vars, Scale, Relabel, PodStarts, PodStops, RunFinds, RunFails, Reconfigure
<1>2. HashIsConsistent'
    BY <1>1 DEF HashIsConsistent
<1>3. ASSUME NEW n \in 0..MaxBuckets, Scale(n) PROVE TypeOK'
    BY <1>3 DEF Scale, Change, TypeOK
<1>4. CASE Relabel
    BY <1>2, <1>4 DEF Relabel, Change, TypeOK
<1>5. ASSUME NEW p \in Pods, PodStarts(p) PROVE TypeOK'
    BY <1>5 DEF PodStarts, TypeOK
<1>6. ASSUME NEW p \in Pods, PodStops(p) PROVE TypeOK'
    BY <1>6 DEF PodStops, TypeOK, Unset
<1>7. ASSUME NEW p \in Pods, RunFinds(p) \/ RunFails(p) PROVE TypeOK'
    BY <1>7 DEF RunFinds, RunFails, TypeOK
<1>8. ASSUME NEW p \in Pods, Reconfigure(p) PROVE TypeOK'
    BY <1>8 DEF Reconfigure, TypeOK
<1>9. CASE UNCHANGED vars
    BY <1>2, <1>9 DEF vars, TypeOK
<1> QED
    BY <1>2, <1>3, <1>4, <1>5, <1>6, <1>7, <1>8, <1>9 DEF Next

\* The variables have their types; only a pod that runs and found its StatefulSet
\* has settings.
THEOREM ShardingTyped == Spec => []TypeOK
<1>1. IInv => TypeOK
    BY DEF IInv
<1> QED
    BY InitIInv, NextIInv, <1>1, PTL DEF Spec

\* jump.Hash is consistent for every key, also at 0 buckets, whatever the width of
\* its draws and however many buckets there are.
THEOREM HashConsistent == Spec => []HashIsConsistent
<1>1. IInv => HashIsConsistent
    BY DEF IInv
<1> QED
    BY InitIInv, NextIInv, <1>1, PTL DEF Spec

\* Two pods show one object only while it is moving to a pod that the other one
\* does not know of yet, for every mix of old and new numbers of shards.
THEOREM TwoKeepers == Spec => []TwoKeepersOnlyWhileMoving
<1>1. IInv => TwoKeepersOnlyWhileMoving
    <2> SUFFICES ASSUME IInv, NEW o \in Objects, NEW p \in Keepers(o), NEW q \in Keepers(o), p < q
                 PROVE  total[p] <= q /\ q < total[q]
        BY DEF TwoKeepersOnlyWhileMoving
    <2>1. /\ p \in Pods /\ q \in Pods
          /\ total[p] \in 0..MaxBuckets /\ total[q] \in 0..MaxBuckets
          /\ bucket[o][total[p]] = p /\ bucket[o][total[q]] = q
        <3>1. p \in running /\ q \in running /\ Keeps(p, o) /\ Keeps(q, o)
            BY DEF Keepers
        <3>2. p \in Pods /\ q \in Pods /\ total \in [Pods -> -1..MaxBuckets]
            BY <3>1 DEF IInv, TypeOK
        <3>3. total[p] \in -1..MaxBuckets /\ total[q] \in -1..MaxBuckets
            BY <3>2
        <3> QED
            BY <3>1, <3>2, <3>3, JumpAssumption DEF Keeps, Unset
    <2>2. /\ bucket[o][0] = -1
          /\ \A n \in 1..MaxBuckets : bucket[o][n] \in 0..n - 1
        BY DEF IInv, HashIsConsistent
    <2>3. total[p] \in 1..MaxBuckets /\ total[q] \in 1..MaxBuckets
        BY <2>1, <2>2, JumpAssumption DEF Pods
    <2>4. q < total[q]
        BY <2>1, <2>2, <2>3, JumpAssumption DEF Pods
    <2>5. CASE total[q] <= total[p]
        <3>1. p = q \/ p >= total[q]
            BY <2>1, <2>3, <2>5, ObjectStaysOrMovesToNew
        <3> QED
            BY <2>1, <2>3, <2>4, <3>1 DEF Pods
    <2>6. CASE total[p] < total[q]
        <3>1. q = p \/ q >= total[p]
            BY <2>1, <2>3, <2>6, ObjectStaysOrMovesToNew
        <3> QED
            BY <2>1, <2>3, <2>4, <3>1 DEF Pods
    <2> QED
        BY <2>3, <2>5, <2>6
<1> QED
    BY InitIInv, NextIInv, <1>1, PTL DEF Spec

\* Pods that agree with the StatefulSet partition the objects.
THEOREM SettledPartition == Spec => []SettledPodsPartition
<1>1. IInv => SettledPodsPartition
    <2> SUFFICES ASSUME IInv, replicas > 0, running = 0..replicas - 1,
                        \A p \in running : total[p] = replicas, NEW o \in Objects
                 PROVE  Cardinality(Keepers(o)) = 1
        BY DEF SettledPodsPartition
    <2>1. replicas \in 1..MaxBuckets
        BY JumpAssumption DEF IInv, TypeOK
    <2>2. bucket[o][replicas] \in 0..replicas - 1
        BY <2>1 DEF IInv, HashIsConsistent
    <2>3. Keepers(o) = {bucket[o][replicas]}
        BY <2>1, <2>2 DEF Keepers, Keeps, Unset
    <2> QED
        BY <2>3, FS_Singleton
<1> QED
    BY InitIInv, NextIInv, <1>1, PTL DEF Spec
=============================================================================
