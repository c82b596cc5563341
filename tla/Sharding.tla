------------------------------ MODULE Sharding ------------------------------
(***************************************************************************)
(* Autosharding across the pods of a StatefulSet.  Pod p is one process of *)
(* kube-state-metrics: MetricsHandler with Nominal = p.  The StatefulSet   *)
(* controller (external) starts and stops pods while each pod learns of    *)
(* spec.replicas in its own time, so pods disagree on the number of shards *)
(* for a while; a pod that does not find its StatefulSet at the start, or  *)
(* whose StatefulSet is relabelled, learns of nothing any more.            *)
(***************************************************************************)
EXTENDS JumpHash, FiniteSets

CONSTANTS
    Objects,
    MaxChanges      \* bound: changes of spec.replicas and of the labels

ASSUME ShardingAssumption == MaxChanges \in Nat

\* At most as many pods as there are buckets.
Pods == 0..MaxBuckets - 1

VARIABLES
    bucket,     \* bucket[o][n]: jump.Hash of o's UID into n buckets
    replicas,   \* spec.replicas
    changes,    \* how often the StatefulSet was changed
    running,    \* the pods that run
    informer,   \* each pod's: "none" yet, "watching", "failed" (Run returned),
                \* "relabelled" (its selector no longer finds the StatefulSet)
    total       \* curTotalShards of each pod, Unset before it is configured

vars == <<bucket, replicas, changes, running, informer, total>>

Unset == -1

\* The buckets of a key, by the number of buckets.
BucketsOf(key) == [n \in 0..MaxBuckets |-> Hash(key, n)]

Init ==
    /\ bucket \in [Objects -> {BucketsOf(key) : key \in Keys}]
    /\ replicas \in 1..MaxBuckets
    /\ changes = 0
    /\ running = {}
    /\ informer = [p \in Pods |-> "none"]
    /\ total = [p \in Pods |-> Unset]

Change == changes < MaxChanges /\ changes' = changes + 1

Scale(n) ==
    /\ Change
    /\ n # replicas
    /\ replicas' = n
    /\ UNCHANGED <<bucket, running, informer, total>>

\* The informers select by the labels the StatefulSet had when Run read it, and
\* their handlers do not look at deletions: the pods stay as they are.
Relabel ==
    /\ Change
    /\ informer' = [p \in Pods |-> IF informer[p] = "watching" THEN "relabelled" ELSE informer[p]]
    /\ UNCHANGED <<bucket, replicas, running, total>>

PodStarts(p) ==
    /\ p < replicas /\ p \notin running
    /\ running' = running \cup {p}
    /\ UNCHANGED <<bucket, replicas, changes, informer, total>>

PodStops(p) ==
    /\ p >= replicas /\ p \in running
    /\ running' = running \ {p}
    /\ informer' = [informer EXCEPT ![p] = "none"]
    /\ total' = [total EXCEPT ![p] = Unset]
    /\ UNCHANGED <<bucket, replicas, changes>>

\* Run: detectStatefulSet finds the pod's StatefulSet and the informer starts.
RunFinds(p) ==
    /\ p \in running /\ informer[p] = "none"
    /\ informer' = [informer EXCEPT ![p] = "watching"]
    /\ UNCHANGED <<bucket, replicas, changes, running, total>>

\* It does not: Run returns an error that main drops, and is not called again.
RunFails(p) ==
    /\ p \in running /\ informer[p] = "none"
    /\ informer' = [informer EXCEPT ![p] = "failed"]
    /\ UNCHANGED <<bucket, replicas, changes, running, total>>

\* Mutant: only the first event configures sharding.
ReconfigureOnce(p) ==
    /\ p \in running /\ informer[p] = "watching"
    /\ total[p] = Unset
    /\ total' = [total EXCEPT ![p] = replicas]
    /\ UNCHANGED <<bucket, replicas, changes, running, informer>>

\* Mutant: the pods are counted from 0 to spec.replicas.
ReconfigureOneMore(p) ==
    /\ p \in running /\ informer[p] = "watching"
    /\ total[p] # replicas + 1
    /\ total' = [total EXCEPT ![p] = replicas + 1]
    /\ UNCHANGED <<bucket, replicas, changes, running, informer>>

\* The handlers of Run: AddFunc, UpdateFunc, ConfigureSharding.
Reconfigure(p) ==
    /\ p \in running /\ informer[p] = "watching"
    /\ total[p] # replicas
    /\ total' = [total EXCEPT ![p] = replicas]
    /\ UNCHANGED <<bucket, replicas, changes, running, informer>>

Next ==
    \/ \E n \in 0..MaxBuckets : Scale(n)
    \/ Relabel
    \/ \E p \in Pods :
         PodStarts(p) \/ PodStops(p) \/ RunFinds(p) \/ RunFails(p) \/ Reconfigure(p)

Spec == Init /\ [][Next]_vars

\* Fairness: the controller works; Run's requests are answered, one way or the
\* other; an informer that watches the StatefulSet delivers its last version.
FairSpec ==
    Spec /\ \A p \in Pods :
        /\ WF_vars(PodStarts(p)) /\ WF_vars(PodStops(p))
        /\ WF_vars(RunFinds(p) \/ RunFails(p)) /\ WF_vars(Reconfigure(p))

-----------------------------------------------------------------------------
\* Mutant: the shards are numbered from 1.
KeepsFromOne(p, o) == total[p] # Unset /\ bucket[o][total[p]] + 1 = p

\* sharding.keep; for shard 0 of 1, where NewShardedListWatch adds no filter, it
\* accepts everything.
Keeps(p, o) == total[p] # Unset /\ bucket[o][total[p]] = p

Keepers(o) == {p \in running : Keeps(p, o)}

\* The pods that still learn of changes of the StatefulSet.
Following == {p \in running : informer[p] = "watching"}

\* Type invariant.
TypeOK ==
    /\ bucket \in [Objects -> [0..MaxBuckets -> -1..MaxBuckets - 1]]
    /\ replicas \in 0..MaxBuckets
    /\ changes \in 0..MaxChanges
    /\ running \subseteq Pods
    /\ informer \in [Pods -> {"none", "watching", "relabelled", "failed"}]
    /\ total \in [Pods -> -1..MaxBuckets]
    /\ \A p \in Pods : total[p] # Unset => p \in running /\ informer[p] \in {"watching", "relabelled"}

\* "consistently chooses a hash bucket number in the range [0, numBuckets)": with
\* one more bucket a key stays where it is or moves to the new bucket, never to
\* another of the old ones.  A StatefulSet scaled to 0 leaves no bucket.
HashIsConsistent ==
    \A o \in Objects :
        /\ bucket[o][0] = -1
        /\ \A n \in 1..MaxBuckets : bucket[o][n] \in 0..n - 1
        /\ \A n \in 1..MaxBuckets - 1 : bucket[o][n + 1] \in {bucket[o][n], n}

\* Two pods show the same object only while they disagree on the number of shards
\* and the object is moving to a pod the other one does not know of yet: pods that
\* every pod knows of never show an object twice, whatever mix of old and new
\* settings they have.
TwoKeepersOnlyWhileMoving ==
    \A o \in Objects : \A p, q \in Keepers(o) : p < q => total[p] <= q /\ q < total[q]

\* Pods that agree with the StatefulSet partition the objects: each is shown by
\* exactly one of them.
SettledPodsPartition ==
    (replicas > 0 /\ running = 0..replicas - 1 /\ \A p \in running : total[p] = replicas)
        => \A o \in Objects : Cardinality(Keepers(o)) = 1

\* After the last change of the StatefulSet the pods it asks for run, and of those
\* that follow it each comes to show exactly the objects jump.Hash gives it: an
\* object is shown by its pod and by no other one.  Two kinds of pods do not follow
\* and are left out: one whose Run failed to find the StatefulSet shows nothing, so
\* its objects are missing; one whose StatefulSet was relabelled keeps its last
\* number of shards, so its objects may be missing and others shown twice.
EventuallyEachOnce ==
    <>[](/\ running = 0..replicas - 1
         /\ \A o \in Objects : Keepers(o) \cap Following = {bucket[o][replicas]} \cap Following)
=============================================================================
