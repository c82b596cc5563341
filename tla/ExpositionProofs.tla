--------------------------- MODULE ExpositionProofs ---------------------------
(* From the command line to the families: start-up gives what was asked for,   *)
(* and every header stands above its family, for every set of options, edits   *)
(* and objects.  Induction is on sets, as in JumpHashProofs.                   *)
EXTENDS Exposition, FiniteSetTheorems, WellFoundedInduction, TLAPS

-----------------------------------------------------------------------------
(* Numbers and sequences.                                                     *)

\* A set of naturals that is not empty has a least element.
LEMMA LeastElement ==
    ASSUME NEW T \in SUBSET Nat, T # {}
    PROVE  \E x \in T : \A y \in T : x <= y
<1> DEFINE R == {ss \in Nat \X Nat : ss[1] < ss[2]}
<1>1. IsWellFoundedOn(R, Nat)
    BY NatLessThanWellFounded DEF OpToRel
<1> HIDE DEF R
<1>2. PICK x \in T : \A y \in T : <<y, x>> \notin R
    BY <1>1, WFMin, Zenon
<1>3. \A y \in T : x <= y
    <2> SUFFICES ASSUME NEW y \in T, y < x PROVE FALSE
        OBVIOUS
    <2>1. <<y, x>> \in R
        BY DEF R
    <2> QED
        BY <1>2, <2>1
<1> QED
    BY <1>3

\* Induction: a set that holds 0 and with each number the next holds all.
LEMMA InductiveSet ==
    ASSUME NEW S \in SUBSET Nat, 0 \in S, \A n \in S : n + 1 \in S
    PROVE  S = Nat
<1> SUFFICES ASSUME Nat \ S # {} PROVE FALSE
    BY Zenon
<1>1. PICK x \in Nat \ S : \A y \in Nat \ S : x <= y
    BY LeastElement, Zenon
<1>2. x - 1 \in S
    BY <1>1
<1> QED
    BY <1>2

\* Append adds one element.
LEMMA AppendToSet ==
    ASSUME NEW T, NEW q \in Seq(T), NEW e \in T
    PROVE  ToSet(Append(q, e)) = ToSet(q) \cup {e} /\ Append(q, e) \in Seq(T)
<1> DEFINE r == Append(q, e)
<1>1. /\ r \in Seq(T) /\ DOMAIN r = 1..(Len(q) + 1) /\ DOMAIN q = 1..Len(q) /\ Len(q) \in Nat
      /\ r[Len(q) + 1] = e /\ \A i \in 1..Len(q) : r[i] = q[i]
    OBVIOUS
<1> HIDE DEF r
<1>2. ToSet(r) = ToSet(q) \cup {e}
    BY <1>1 DEF ToSet
<1> QED
    BY <1>1, <1>2 DEF r

\* The loop of FilterMetricFamilies after the n-th element.
IsKept(f, s, S, m) ==
    f = [n \in 0..m |-> IF n = 0 THEN <<>>
                        ELSE IF s[n] \in S THEN Append(f[n - 1], s[n]) ELSE f[n - 1]]

\* The recursion that defines the loop has a solution up to every m.
LEMMA KeptExists ==
    ASSUME NEW s, NEW S
    PROVE  \A m \in Nat : \E f : IsKept(f, s, S, m)
<1> DEFINE N == {m \in Nat : \E f : IsKept(f, s, S, m)}
<1>1. 0 \in N
    <2> DEFINE f == [k \in 0..0 |-> <<>>]
    <2>1. IsKept(f, s, S, 0)
        BY DEF IsKept
    <2> QED
        BY <2>1
<1>2. ASSUME NEW m \in N PROVE m + 1 \in N
    <2>1. PICK f : IsKept(f, s, S, m)
        OBVIOUS
    <2> DEFINE g == [k \in 0..(m + 1) |->
                        IF k = m + 1 THEN (IF s[m + 1] \in S THEN Append(f[m], s[m + 1]) ELSE f[m])
                        ELSE f[k]]
    <2>2. IsKept(g, s, S, m + 1)
        <3> SUFFICES ASSUME NEW k \in 0..(m + 1)
                     PROVE  g[k] = IF k = 0 THEN <<>>
                                   ELSE IF s[k] \in S THEN Append(g[k - 1], s[k]) ELSE g[k - 1]
            BY DEF IsKept
        <3>1. CASE k = m + 1
            BY <3>1
        <3>2. CASE k # m + 1
            <4>1. k \in 0..m /\ (k # 0 => k - 1 \in 0..m)
                BY <3>2
            <4>2. f[k] = IF k = 0 THEN <<>>
                         ELSE IF s[k] \in S THEN Append(f[k - 1], s[k]) ELSE f[k - 1]
                BY <2>1, <4>1, Zenon DEF IsKept
            <4>3. g[k] = f[k] /\ (k # 0 => g[k - 1] = f[k - 1])
                BY <3>2, <4>1
            <4> HIDE DEF g
            <4> QED
                BY <4>2, <4>3
        <3> QED
            BY <3>1, <3>2
    <2> HIDE DEF g
    <2> QED
        BY <2>2
<1> HIDE DEF N
<1>3. N = Nat
    BY <1>1, <1>2, InductiveSet, Zenon DEF N
<1> QED
    BY <1>3 DEF N

\* What FilterMetricFamilies and WithEnabledResources keep: exactly the elements
\* of the sequence that are in the set.
LEMMA KeptElements ==
    ASSUME NEW T, NEW s \in Seq(T), NEW S
    PROVE  Kept(s, S) \in Seq(T) /\ ToSet(Kept(s, S)) = ToSet(s) \cap S
<1> DEFINE L == Len(s)
           K == CHOOSE f : IsKept(f, s, S, L)
<1>1. Kept(s, S) = K[L]
    BY DEF Kept, IsKept
<1>2. L \in Nat /\ DOMAIN s = 1..L /\ \A i \in 1..L : s[i] \in T
    OBVIOUS
<1> HIDE DEF L
<1>3. IsKept(K, s, S, L)
    BY <1>2, KeptExists, Zenon
<1> HIDE DEF K
<1>4. \A n \in 0..L : K[n] = IF n = 0 THEN <<>>
                             ELSE IF s[n] \in S THEN Append(K[n - 1], s[n]) ELSE K[n - 1]
    BY <1>3, Zenon DEF IsKept
<1> DEFINE Holds(n) == K[n] \in Seq(T) /\ ToSet(K[n]) = {s[i] : i \in 1..n} \cap S
           N == {n \in Nat : n <= L => Holds(n)}
<1>5. 0 \in N
    <2>1. K[0] = <<>>
        BY <1>2, <1>4
    <2>2. ToSet(<<>>) = {}
        BY DEF ToSet
    <2>3. {s[i] : i \in 1..0} = {}
        OBVIOUS
    <2>4. Holds(0)
        BY <2>1, <2>2, <2>3
    <2> HIDE DEF Holds
    <2> QED
        BY <2>4
<1>6. ASSUME NEW n \in N PROVE n + 1 \in N
    <2> SUFFICES ASSUME n + 1 <= L PROVE Holds(n + 1)
        OBVIOUS
    <2>1. Holds(n) /\ n \in Nat
        BY <1>2
    <2>2. s[n + 1] \in T /\ K[n + 1] = IF s[n + 1] \in S THEN Append(K[n], s[n + 1]) ELSE K[n]
        BY <1>2, <1>4, <2>1
    <2>3. {s[i] : i \in 1..(n + 1)} = {s[i] : i \in 1..n} \cup {s[n + 1]}
        BY <2>1
    <2>4. CASE s[n + 1] \in S
        BY <2>1, <2>2, <2>3, <2>4, AppendToSet
    <2>5. CASE s[n + 1] \notin S
        BY <2>1, <2>2, <2>3, <2>5
    <2> QED
        BY <2>4, <2>5
<1> HIDE DEF N
<1>7. N = Nat
    BY <1>5, <1>6, InductiveSet, Zenon DEF N
<1>8. Holds(L)
    <2>1. L \in N /\ L <= L
        BY <1>2, <1>7
    <2> HIDE DEF Holds
    <2> QED
        BY <2>1 DEF N
<1> QED
    BY <1>1, <1>2, <1>8, Zenon DEF ToSet

-----------------------------------------------------------------------------
(* Families.                                                                  *)

\* Sequences of families that have the same names in the same places.
SameNames(fs, gs) ==
    /\ \E n \in Nat : DOMAIN fs = 1..n
    /\ DOMAIN fs = DOMAIN gs
    /\ \A i \in DOMAIN fs : fs[i].name = gs[i].name

\* A family has the name its generator was given.
LEMMA FamilyName == \A name, ms : Family(name, ms).name = name
BY DEF Family

\* The wrap functions add default labels and keep names and places.
LEMMA WrapKeepsNames ==
    \A fs, keys, vals :
      /\ DOMAIN WrapFunc(fs, keys, vals) = DOMAIN fs
      /\ \A i : i \in DOMAIN fs => WrapFunc(fs, keys, vals)[i].name = fs[i].name
<1> SUFFICES ASSUME NEW fs, NEW keys, NEW vals
             PROVE  /\ DOMAIN WrapFunc(fs, keys, vals) = DOMAIN fs
                    /\ \A i \in DOMAIN fs : WrapFunc(fs, keys, vals)[i].name = fs[i].name
    OBVIOUS
<1> DEFINE Metrics(i) == [j \in DOMAIN fs[i].metrics |->
                            [fs[i].metrics[j] EXCEPT !.keys = keys \o @, !.vals = vals \o @]]
<1>1. WrapFunc(fs, keys, vals) = [i \in DOMAIN fs |-> Family(fs[i].name, Metrics(i))]
    BY Zenon DEF WrapFunc
<1> HIDE DEF Metrics
<1> QED
    BY <1>1, FamilyName

\* So does the one of the vertical pod autoscalers, with and without a target.
LEMMA WrapVPAKeepsNames ==
    \A a, fs :
      /\ DOMAIN wrapVPAFunc(a, fs) = DOMAIN fs
      /\ \A i : i \in DOMAIN fs => wrapVPAFunc(a, fs)[i].name = fs[i].name
BY WrapKeepsNames, FamilyName DEF wrapVPAFunc

\* Two sequences of n families with the same names in the same places.
SameTable(n, fs, gs) ==
    /\ DOMAIN fs = 1..n
    /\ DOMAIN gs = 1..n
    /\ \A i \in 1..n : fs[i].name = gs[i].name

\* Which families a resource has, and their order, does not depend on the object:
\* each table of generators in internal/store is fixed, and the wrap functions
\* keep names and places.
LEMMA NamesAreFixed ==
    ASSUME NEW resource \in ToSet(availableStores), NEW o, NEW p
    PROVE  SameNames(metricFamilies(resource, o), metricFamilies(resource, p))
<1>0. \A n \in Nat : \A fs, gs : SameTable(n, fs, gs) => SameNames(fs, gs)
    BY DEF SameTable, SameNames
<1>1. SameTable(4, metricFamilies("certificatesigningrequests", o), metricFamilies("certificatesigningrequests", p))
    <2>1. SameTable(4, csrMetricFamilies(o), csrMetricFamilies(p))
        BY WrapKeepsNames, FamilyName, SMTT(60) DEF SameTable, csrMetricFamilies, ClusterScoped
    <2> QED
        BY <2>1 DEF metricFamilies
<1>2. SameTable(3, metricFamilies("configmaps", o), metricFamilies("configmaps", p))
    <2>1. SameTable(3, configMapMetricFamilies(o), configMapMetricFamilies(p))
        BY WrapKeepsNames, FamilyName, SMTT(60) DEF SameTable, configMapMetricFamilies, Namespaced
    <2> QED
        BY <2>1 DEF metricFamilies
<1>3. SameTable(8, metricFamilies("cronjobs", o), metricFamilies("cronjobs", p))
    <2>1. SameTable(8, cronJobMetricFamilies(o), cronJobMetricFamilies(p))
        <3>1. DOMAIN cronJobMetricFamilies(o) = 1..8 /\ DOMAIN cronJobMetricFamilies(p) = 1..8
            BY WrapKeepsNames, SMTT(60) DEF cronJobMetricFamilies, Namespaced
        <3>2. \A i \in 1..8 : cronJobMetricFamilies(o)[i].name = cronJobMetricFamilies(p)[i].name
            BY WrapKeepsNames, FamilyName, SMTT(120) DEF cronJobMetricFamilies, Namespaced
        <3> QED
            BY <3>1, <3>2 DEF SameTable
    <2> QED
        BY <2>1 DEF metricFamilies
<1>4. SameTable(10, metricFamilies("daemonsets", o), metricFamilies("daemonsets", p))
    <2>1. SameTable(10, daemonSetMetricFamilies(o), daemonSetMetricFamilies(p))
        <3>1. DOMAIN daemonSetMetricFamilies(o) = 1..10 /\ DOMAIN daemonSetMetricFamilies(p) = 1..10
            BY WrapKeepsNames, SMTT(60) DEF daemonSetMetricFamilies, Namespaced
        <3>2. \A i \in 1..10 : daemonSetMetricFamilies(o)[i].name = daemonSetMetricFamilies(p)[i].name
            BY WrapKeepsNames, FamilyName, SMTT(120) DEF daemonSetMetricFamilies, Namespaced
        <3> QED
            BY <3>1, <3>2 DEF SameTable
    <2> QED
        BY <2>1 DEF metricFamilies
<1>5. SameTable(13, metricFamilies("deployments", o), metricFamilies("deployments", p))
    <2>1. SameTable(13, deploymentMetricFamilies(o), deploymentMetricFamilies(p))
        <3>1. DOMAIN deploymentMetricFamilies(o) = 1..13 /\ DOMAIN deploymentMetricFamilies(p) = 1..13
            BY WrapKeepsNames, SMTT(60) DEF deploymentMetricFamilies, Namespaced
        <3>2. \A i \in 1..13 : deploymentMetricFamilies(o)[i].name = deploymentMetricFamilies(p)[i].name
            BY WrapKeepsNames, FamilyName, SMTT(120) DEF deploymentMetricFamilies, Namespaced
        <3> QED
            BY <3>1, <3>2 DEF SameTable
    <2> QED
        BY <2>1 DEF metricFamilies
<1>6. SameTable(5, metricFamilies("endpoints", o), metricFamilies("endpoints", p))
    <2>1. SameTable(5, endpointMetricFamilies(o), endpointMetricFamilies(p))
        BY WrapKeepsNames, FamilyName, SMTT(60) DEF SameTable, endpointMetricFamilies, Namespaced
    <2> QED
        BY <2>1 DEF metricFamilies
<1>7. SameTable(8, metricFamilies("horizontalpodautoscalers", o), metricFamilies("horizontalpodautoscalers", p))
    <2>1. SameTable(8, hpaMetricFamilies(o), hpaMetricFamilies(p))
        <3>1. DOMAIN hpaMetricFamilies(o) = 1..8 /\ DOMAIN hpaMetricFamilies(p) = 1..8
            BY WrapKeepsNames, SMTT(60) DEF hpaMetricFamilies, Namespaced
        <3>2. \A i \in 1..8 : hpaMetricFamilies(o)[i].name = hpaMetricFamilies(p)[i].name
            BY WrapKeepsNames, FamilyName, SMTT(120) DEF hpaMetricFamilies, Namespaced
        <3> QED
            BY <3>1, <3>2 DEF SameTable
    <2> QED
        BY <2>1 DEF metricFamilies
<1>8. SameTable(6, metricFamilies("ingresses", o), metricFamilies("ingresses", p))
    <2>1. SameTable(6, ingressMetricFamilies(o), ingressMetricFamilies(p))
        <3>1. DOMAIN ingressMetricFamilies(o) = 1..6 /\ DOMAIN ingressMetricFamilies(p) = 1..6
            BY WrapKeepsNames, SMTT(60) DEF ingressMetricFamilies, Namespaced
        <3>2. \A i \in 1..6 : ingressMetricFamilies(o)[i].name = ingressMetricFamilies(p)[i].name
            BY WrapKeepsNames, FamilyName, SMTT(120) DEF ingressMetricFamilies, Namespaced
        <3> QED
            BY <3>1, <3>2 DEF SameTable
    <2> QED
        BY <2>1 DEF metricFamilies
<1>9. SameTable(14, metricFamilies("jobs", o), metricFamilies("jobs", p))
    <2>1. SameTable(14, jobMetricFamilies(o), jobMetricFamilies(p))
        <3>1. DOMAIN jobMetricFamilies(o) = 1..14 /\ DOMAIN jobMetricFamilies(p) = 1..14
            BY WrapKeepsNames, SMTT(60) DEF jobMetricFamilies, Namespaced
        <3>2. \A i \in 1..14 : jobMetricFamilies(o)[i].name = jobMetricFamilies(p)[i].name
            BY WrapKeepsNames, FamilyName, SMTT(120) DEF jobMetricFamilies, Namespaced
        <3> QED
            BY <3>1, <3>2 DEF SameTable
    <2> QED
        BY <2>1 DEF metricFamilies
<1>10. SameTable(2, metricFamilies("leases", o), metricFamilies("leases", p))
    <2>1. SameTable(2, leaseMetricFamilies(o), leaseMetricFamilies(p))
        BY WrapKeepsNames, FamilyName, SMTT(60) DEF SameTable, leaseMetricFamilies, ClusterScoped
    <2> QED
        BY <2>1 DEF metricFamilies
<1>11. SameTable(2, metricFamilies("limitranges", o), metricFamilies("limitranges", p))
    <2>1. SameTable(2, limitRangeMetricFamilies(o), limitRangeMetricFamilies(p))
        BY WrapKeepsNames, FamilyName, SMTT(60) DEF SameTable, limitRangeMetricFamilies, Namespaced
    <2> QED
        BY <2>1 DEF metricFamilies
<1>12. SameTable(3, metricFamilies("mutatingwebhookconfigurations", o), metricFamilies("mutatingwebhookconfigurations", p))
    <2>1. SameTable(3, mutatingWebhookConfigurationMetricFamilies(o), mutatingWebhookConfigurationMetricFamilies(p))
        BY WrapKeepsNames, FamilyName, SMTT(60) DEF SameTable, mutatingWebhookConfigurationMetricFamilies, Namespaced
    <2> QED
        BY <2>1 DEF metricFamilies
<1>13. SameTable(4, metricFamilies("namespaces", o), metricFamilies("namespaces", p))
    <2>1. SameTable(4, namespaceMetricFamilies(o), namespaceMetricFamilies(p))
        BY WrapKeepsNames, FamilyName, SMTT(60) DEF SameTable, namespaceMetricFamilies, ClusterScoped
    <2> QED
        BY <2>1 DEF metricFamilies
<1>14. SameTable(4, metricFamilies("networkpolicies", o), metricFamilies("networkpolicies", p))
    <2>1. SameTable(4, networkpolicyMetricFamilies(o), networkpolicyMetricFamilies(p))
        BY WrapKeepsNames, FamilyName, SMTT(60) DEF SameTable, networkpolicyMetricFamilies, Namespaced
    <2> QED
        BY <2>1 DEF metricFamilies
<1>15. SameTable(9, metricFamilies("nodes", o), metricFamilies("nodes", p))
    <2>1. SameTable(9, nodeMetricFamilies(o), nodeMetricFamilies(p))
        <3>1. DOMAIN nodeMetricFamilies(o) = 1..9 /\ DOMAIN nodeMetricFamilies(p) = 1..9
            BY WrapKeepsNames, SMTT(60) DEF nodeMetricFamilies, ClusterScoped
        <3>2. \A i \in 1..9 : nodeMetricFamilies(o)[i].name = nodeMetricFamilies(p)[i].name
            BY WrapKeepsNames, FamilyName, SMTT(120) DEF nodeMetricFamilies, ClusterScoped
        <3> QED
            BY <3>1, <3>2 DEF SameTable
    <2> QED
        BY <2>1 DEF metricFamilies
<1>16. SameTable(6, metricFamilies("persistentvolumeclaims", o), metricFamilies("persistentvolumeclaims", p))
    <2>1. SameTable(6, persistentVolumeClaimMetricFamilies(o), persistentVolumeClaimMetricFamilies(p))
        <3>1. DOMAIN persistentVolumeClaimMetricFamilies(o) = 1..6 /\ DOMAIN persistentVolumeClaimMetricFamilies(p) = 1..6
            BY WrapKeepsNames, SMTT(60) DEF persistentVolumeClaimMetricFamilies, Namespaced
        <3>2. \A i \in 1..6 : persistentVolumeClaimMetricFamilies(o)[i].name = persistentVolumeClaimMetricFamilies(p)[i].name
            BY WrapKeepsNames, FamilyName, SMTT(120) DEF persistentVolumeClaimMetricFamilies, Namespaced
        <3> QED
            BY <3>1, <3>2 DEF SameTable
    <2> QED
        BY <2>1 DEF metricFamilies
<1>17. SameTable(4, metricFamilies("persistentvolumes", o), metricFamilies("persistentvolumes", p))
    <2>1. SameTable(4, persistentVolumeMetricFamilies(o), persistentVolumeMetricFamilies(p))
        BY WrapKeepsNames, FamilyName, SMTT(60) DEF SameTable, persistentVolumeMetricFamilies, ClusterScoped
    <2> QED
        BY <2>1 DEF metricFamilies
<1>18. SameTable(6, metricFamilies("poddisruptionbudgets", o), metricFamilies("poddisruptionbudgets", p))
    <2>1. SameTable(6, podDisruptionBudgetMetricFamilies(o), podDisruptionBudgetMetricFamilies(p))
        <3>1. DOMAIN podDisruptionBudgetMetricFamilies(o) = 1..6 /\ DOMAIN podDisruptionBudgetMetricFamilies(p) = 1..6
            BY WrapKeepsNames, SMTT(60) DEF podDisruptionBudgetMetricFamilies, Namespaced
        <3>2. \A i \in 1..6 : podDisruptionBudgetMetricFamilies(o)[i].name = podDisruptionBudgetMetricFamilies(p)[i].name
            BY WrapKeepsNames, FamilyName, SMTT(120) DEF podDisruptionBudgetMetricFamilies, Namespaced
        <3> QED
            BY <3>1, <3>2 DEF SameTable
    <2> QED
        BY <2>1 DEF metricFamilies
<1>19. SameTable(38, metricFamilies("pods", o), metricFamilies("pods", p))
    <2>1. SameTable(38, podMetricFamilies(o), podMetricFamilies(p))
        <3>1. DOMAIN podMetricFamilies(o) = 1..38 /\ DOMAIN podMetricFamilies(p) = 1..38
            BY WrapKeepsNames, SMTT(60) DEF podMetricFamilies, Namespaced
        <3>2. \A i \in 1..38 : podMetricFamilies(o)[i].name = podMetricFamilies(p)[i].name
            BY WrapKeepsNames, FamilyName, SMTT(120) DEF podMetricFamilies, Namespaced
        <3> QED
            BY <3>1, <3>2 DEF SameTable
    <2> QED
        BY <2>1 DEF metricFamilies
<1>20. SameTable(9, metricFamilies("replicasets", o), metricFamilies("replicasets", p))
    <2>1. SameTable(9, replicaSetMetricFamilies(o), replicaSetMetricFamilies(p))
        <3>1. DOMAIN replicaSetMetricFamilies(o) = 1..9 /\ DOMAIN replicaSetMetricFamilies(p) = 1..9
            BY WrapKeepsNames, SMTT(60) DEF replicaSetMetricFamilies, Namespaced
        <3>2. \A i \in 1..9 : replicaSetMetricFamilies(o)[i].name = replicaSetMetricFamilies(p)[i].name
            BY WrapKeepsNames, FamilyName, SMTT(120) DEF replicaSetMetricFamilies, Namespaced
        <3> QED
            BY <3>1, <3>2 DEF SameTable
    <2> QED
        BY <2>1 DEF metricFamilies
<1>21. SameTable(9, metricFamilies("replicationcontrollers", o), metricFamilies("replicationcontrollers", p))
    <2>1. SameTable(9, replicationControllerMetricFamilies(o), replicationControllerMetricFamilies(p))
        <3>1. DOMAIN replicationControllerMetricFamilies(o) = 1..9 /\ DOMAIN replicationControllerMetricFamilies(p) = 1..9
            BY WrapKeepsNames, SMTT(60) DEF replicationControllerMetricFamilies, Namespaced
        <3>2. \A i \in 1..9 : replicationControllerMetricFamilies(o)[i].name = replicationControllerMetricFamilies(p)[i].name
            BY WrapKeepsNames, FamilyName, SMTT(120) DEF replicationControllerMetricFamilies, Namespaced
        <3> QED
            BY <3>1, <3>2 DEF SameTable
    <2> QED
        BY <2>1 DEF metricFamilies
<1>22. SameTable(2, metricFamilies("resourcequotas", o), metricFamilies("resourcequotas", p))
    <2>1. SameTable(2, resourceQuotaMetricFamilies(o), resourceQuotaMetricFamilies(p))
        BY WrapKeepsNames, FamilyName, SMTT(60) DEF SameTable, resourceQuotaMetricFamilies, Namespaced
    <2> QED
        BY <2>1 DEF metricFamilies
<1>23. SameTable(5, metricFamilies("secrets", o), metricFamilies("secrets", p))
    <2>1. SameTable(5, secretMetricFamilies(o), secretMetricFamilies(p))
        BY WrapKeepsNames, FamilyName, SMTT(60) DEF SameTable, secretMetricFamilies, Namespaced
    <2> QED
        BY <2>1 DEF metricFamilies
<1>24. SameTable(6, metricFamilies("services", o), metricFamilies("services", p))
    <2>1. SameTable(6, serviceMetricFamilies(o), serviceMetricFamilies(p))
        <3>1. DOMAIN serviceMetricFamilies(o) = 1..6 /\ DOMAIN serviceMetricFamilies(p) = 1..6
            BY WrapKeepsNames, SMTT(60) DEF serviceMetricFamilies, Namespaced
        <3>2. \A i \in 1..6 : serviceMetricFamilies(o)[i].name = serviceMetricFamilies(p)[i].name
            BY WrapKeepsNames, FamilyName, SMTT(120) DEF serviceMetricFamilies, Namespaced
        <3> QED
            BY <3>1, <3>2 DEF SameTable
    <2> QED
        BY <2>1 DEF metricFamilies
<1>25. SameTable(11, metricFamilies("statefulsets", o), metricFamilies("statefulsets", p))
    <2>1. SameTable(11, statefulSetMetricFamilies(o), statefulSetMetricFamilies(p))
        <3>1. DOMAIN statefulSetMetricFamilies(o) = 1..11 /\ DOMAIN statefulSetMetricFamilies(p) = 1..11
            BY WrapKeepsNames, SMTT(60) DEF statefulSetMetricFamilies, Namespaced
        <3>2. \A i \in 1..11 : statefulSetMetricFamilies(o)[i].name = statefulSetMetricFamilies(p)[i].name
            BY WrapKeepsNames, FamilyName, SMTT(120) DEF statefulSetMetricFamilies, Namespaced
        <3> QED
            BY <3>1, <3>2 DEF SameTable
    <2> QED
        BY <2>1 DEF metricFamilies
<1>26. SameTable(3, metricFamilies("storageclasses", o), metricFamilies("storageclasses", p))
    <2>1. SameTable(3, storageClassMetricFamilies(o), storageClassMetricFamilies(p))
        BY WrapKeepsNames, FamilyName, SMTT(60) DEF SameTable, storageClassMetricFamilies, ClusterScoped
    <2> QED
        BY <2>1 DEF metricFamilies
<1>27. SameTable(3, metricFamilies("validatingwebhookconfigurations", o), metricFamilies("validatingwebhookconfigurations", p))
    <2>1. SameTable(3, validatingWebhookConfigurationMetricFamilies(o), validatingWebhookConfigurationMetricFamilies(p))
        BY WrapKeepsNames, FamilyName, SMTT(60) DEF SameTable, validatingWebhookConfigurationMetricFamilies, Namespaced
    <2> QED
        BY <2>1 DEF metricFamilies
<1>28. SameTable(8, metricFamilies("verticalpodautoscalers", o), metricFamilies("verticalpodautoscalers", p))
    <2>1. SameTable(8, vpaMetricFamilies(o), vpaMetricFamilies(p))
        <3>1. DOMAIN vpaMetricFamilies(o) = 1..8 /\ DOMAIN vpaMetricFamilies(p) = 1..8
            BY WrapVPAKeepsNames, SMTT(60) DEF vpaMetricFamilies
        <3>2. \A i \in 1..8 : vpaMetricFamilies(o)[i].name = vpaMetricFamilies(p)[i].name
            BY WrapVPAKeepsNames, FamilyName, SMTT(120) DEF vpaMetricFamilies
        <3> QED
            BY <3>1, <3>2 DEF SameTable
    <2> QED
        BY <2>1 DEF metricFamilies
<1>29. SameTable(6, metricFamilies("volumeattachments", o), metricFamilies("volumeattachments", p))
    <2>1. SameTable(6, volumeAttachmentMetricFamilies(o), volumeAttachmentMetricFamilies(p))
        <3>1. DOMAIN volumeAttachmentMetricFamilies(o) = 1..6 /\ DOMAIN volumeAttachmentMetricFamilies(p) = 1..6
            BY WrapKeepsNames, SMTT(60) DEF volumeAttachmentMetricFamilies, ClusterScoped
        <3>2. \A i \in 1..6 : volumeAttachmentMetricFamilies(o)[i].name = volumeAttachmentMetricFamilies(p)[i].name
            BY WrapKeepsNames, FamilyName, SMTT(120) DEF volumeAttachmentMetricFamilies, ClusterScoped
        <3> QED
            BY <3>1, <3>2 DEF SameTable
    <2> QED
        BY <2>1 DEF metricFamilies
<1>30. \E n \in Nat : SameTable(n, metricFamilies(resource, o), metricFamilies(resource, p))
    BY <1>1, <1>2, <1>3, <1>4, <1>5, <1>6, <1>7, <1>8, <1>9, <1>10, <1>11, <1>12, <1>13, <1>14, <1>15,
       <1>16, <1>17, <1>18, <1>19, <1>20, <1>21, <1>22, <1>23, <1>24, <1>25, <1>26, <1>27, <1>28, <1>29, SMTT(60)
       DEF availableStores, ToSet
<1> QED
    BY <1>0, <1>30, SMTT(30)

\* availableStores is a sequence of names, and the default resources are among them.
LEMMA StoresAvailable ==
    /\ availableStores \in Seq(ToSet(availableStores))
    /\ DefaultResources \subseteq ToSet(availableStores)
<1>1. DOMAIN availableStores = 1..29 /\ availableStores = [i \in 1..29 |-> availableStores[i]]
    BY DEF availableStores
<1>2. availableStores \in Seq(ToSet(availableStores))
    BY <1>1 DEF ToSet
<1>3. DefaultResources \subseteq ToSet(availableStores)
    BY DEF availableStores, DefaultResources, ToSet
<1> QED
    BY <1>2, <1>3

-----------------------------------------------------------------------------
(* Stores.                                                                    *)

\* The generators of a resource: one per family, with the family's name and place.
LEMMA GeneratorsOf ==
    ASSUME NEW resource \in ToSet(availableStores)
    PROVE  /\ Generators[resource] \in Seq(ToSet(Generators[resource]))
           /\ \A g \in ToSet(Generators[resource]) : \A o :
                g.name = metricFamilies(resource, o)[g.place].name
<1> DEFINE fs == metricFamilies(resource, Sample[resource])
           G == [i \in DOMAIN fs |-> [name |-> fs[i].name, place |-> i]]
<1>1. Generators[resource] = G
    BY DEF Generators
<1>2. \A o : SameNames(fs, metricFamilies(resource, o))
    BY NamesAreFixed
<1> HIDE DEF fs
<1>3. PICK n \in Nat : DOMAIN fs = 1..n
    BY <1>2 DEF SameNames
<1>4. G \in Seq(ToSet(G))
    BY <1>3 DEF ToSet
<1>5. ASSUME NEW g \in ToSet(G), NEW o PROVE g.name = metricFamilies(resource, o)[g.place].name
    <2>1. PICK i \in DOMAIN fs : g = [name |-> fs[i].name, place |-> i]
        BY DEF ToSet
    <2> QED
        BY <1>2, <2>1 DEF SameNames
<1> HIDE DEF G
<1> QED
    BY <1>1, <1>4, <1>5

\* buildStore: the headers are the names of the generators that are left, and
\* those are the generators whose names the list includes.
LEMMA StoreOf ==
    ASSUME NEW l, NEW resource \in ToSet(availableStores)
    PROVE  LET s == buildStore(l, resource) IN
           /\ s.resource = resource
           /\ s.headers = [i \in DOMAIN s.generators |-> s.generators[i].name]
           /\ ToSet(s.generators) = {g \in ToSet(Generators[resource]) : IsIncluded(l, g.name)}
<1> DEFINE G == Generators[resource]
           S == {g \in ToSet(G) : IsIncluded(l, g.name)}
           f == Kept(G, S)
<1>1. buildStore(l, resource) = [resource |-> resource, headers |-> [i \in DOMAIN f |-> f[i].name], generators |-> f]
    BY DEF buildStore, FilterMetricFamilies, ExtractMetricFamilyHeaders
<1>2. G \in Seq(ToSet(G))
    BY GeneratorsOf
<1> HIDE DEF G
<1>3. ToSet(f) = ToSet(G) \cap S
    BY <1>2, KeptElements
<1> HIDE DEF f
<1>4. ToSet(f) = S
    BY <1>3
<1> QED
    BY <1>1, <1>4 DEF G

\* What ComposeMetricGenFuncs renders has the names the headers have.
LEMMA RenderedNames ==
    ASSUME NEW l, NEW resource \in ToSet(availableStores), NEW o
    PROVE  LET s == buildStore(l, resource)
               fs == ComposeMetricGenFuncs(s.generators, metricFamilies(resource, o))
           IN  [i \in DOMAIN fs |-> fs[i].name] = s.headers
<1> DEFINE gs == buildStore(l, resource).generators
           fs == ComposeMetricGenFuncs(gs, metricFamilies(resource, o))
<1>1. /\ buildStore(l, resource).headers = [i \in DOMAIN gs |-> gs[i].name]
      /\ \A i \in DOMAIN gs : gs[i] \in ToSet(Generators[resource])
    BY StoreOf DEF ToSet
<1> HIDE DEF gs
<1>2. \A i \in DOMAIN gs : gs[i].name = metricFamilies(resource, o)[gs[i].place].name
    BY <1>1, GeneratorsOf
<1>3. DOMAIN fs = DOMAIN gs /\ \A i \in DOMAIN gs : fs[i] = metricFamilies(resource, o)[gs[i].place]
    BY DEF ComposeMetricGenFuncs
<1> HIDE DEF fs
<1> QED
    BY <1>1, <1>2, <1>3 DEF fs, gs

\* What Build makes of the list and the enabled resources.
Built(l) == [i \in DOMAIN enabledResources |-> buildStore(l, enabledResources[i])]

\* The store of the objects' resource, if there is one.
LEMMA StoreAtIndex ==
    ASSUME NEW l, enabledResources \in Seq(ToSet(availableStores)), stores = Built(l), StoreIndex # 0
    PROVE  /\ StoreIndex \in DOMAIN stores
           /\ kind \in ToSet(availableStores) /\ stores[StoreIndex] = buildStore(l, kind)
<1> DEFINE I == {i \in 1..Len(stores) : stores[i].resource = kind}
<1>1. StoreIndex = IF I # {} THEN Min(I) ELSE 0
    BY DEF StoreIndex, SelectInSeq
<1>2. I # {} /\ StoreIndex = Min(I)
    BY <1>1
<1>3. I \in SUBSET Nat
    OBVIOUS
<1>4. Min(I) \in I
    <2>1. \E x \in I : \A y \in I : x <= y
        BY <1>2, <1>3, LeastElement, Zenon
    <2> HIDE DEF I
    <2> QED
        BY <2>1 DEF Min
<1>5. DOMAIN stores = 1..Len(enabledResources) /\ Len(stores) = Len(enabledResources)
    BY DEF Built
<1>6. StoreIndex \in DOMAIN stores /\ stores[StoreIndex].resource = kind
    BY <1>2, <1>4, <1>5
<1> HIDE DEF I
<1>7. /\ enabledResources[StoreIndex] \in ToSet(availableStores)
      /\ stores[StoreIndex] = buildStore(l, enabledResources[StoreIndex])
    BY <1>5, <1>6 DEF Built
<1>8. enabledResources[StoreIndex] = kind
    BY <1>6, <1>7 DEF buildStore
<1> QED
    BY <1>6, <1>7, <1>8

-----------------------------------------------------------------------------
(* The invariant.                                                             *)

\* The resources the command line asks for.
Wanted == IF opts.resources = {} THEN DefaultResources ELSE opts.resources

\* Where main is once the list is parsed, and once the stores are built.
Parsed == {"client", "build", "list", "serving", "unreachable", "panicked"}

HasStores == {"list", "serving", "panicked"}

\* What the command line, or an edit, asks for cannot be given.
Wrong ==
    \/ ~(opts.resources \subseteq ToSet(availableStores))
    \/ opts.allow # {} /\ opts.deny # {}
    \/ \E r \in parsed : ~r.compiles

IsList(l) ==
    /\ l = [list |-> l.list, isAllowList |-> l.isAllowList, rList |-> l.rList]
    /\ l.isAllowList \in BOOLEAN

\* The list is there from New on, compiled from Parse on as it was then.
ListInv ==
    /\ pc \in {"resources", "allowdenylist"} => allowDenyList = {}
    /\ pc \in Parsed \cup {"parse"} => allowDenyList # {} /\ ~(opts.allow # {} /\ opts.deny # {})
    /\ \A l \in allowDenyList :
        /\ allowDenyList = {l} /\ IsList(l)
        /\ pc \in Parsed => l.rList = parsed /\ ~\E r \in parsed : ~r.compiles

\* What the builder holds at each point of the start-up.
BuilderInv ==
    /\ pc \in {"resources", "allowdenylist", "parse", "fatal"} \cup Parsed
    /\ opts \in CommandLines
    /\ ListInv
    /\ enabledResources \in {<<>>, Kept(availableStores, Wanted)}
    /\ pc \notin {"resources", "fatal"} =>
        Wanted \subseteq ToSet(availableStores) /\ enabledResources = Kept(availableStores, Wanted)
    /\ stores = IF pc \in HasStores THEN Built(The(allowDenyList)) ELSE <<>>
    /\ pc = "fatal" => Wrong

\* What is shown was rendered, with the stores there are, from an object.
ObjectsInv ==
    /\ objects = [u \in Uids |-> objects[u]] /\ shown = [u \in Uids |-> shown[u]]
    /\ \A u \in Uids :
        /\ objects[u] = {} \/ \E o \in scenario.contents[u] : objects[u] = {o}
        /\ shown[u] = {} \/ /\ pc = "serving" /\ StoreIndex # 0
                            /\ \E o \in scenario.contents[u] : shown[u] = {Rendered(o)}

\* The inductive invariant.
IInv == BuilderInv /\ ObjectsInv

\* The only element of a set.
LEMMA TheOnly == \A l : The({l}) = l
BY DEF The

\* The enabled resources are available ones.
LEMMA EnabledAvailable ==
    ASSUME BuilderInv
    PROVE  /\ enabledResources \in Seq(ToSet(availableStores))
           /\ pc \notin {"resources", "fatal"} => ToSet(enabledResources) = Wanted
<1>1. /\ Kept(availableStores, Wanted) \in Seq(ToSet(availableStores))
      /\ ToSet(Kept(availableStores, Wanted)) = ToSet(availableStores) \cap Wanted
    BY StoresAvailable, KeptElements
<1> DEFINE K == Kept(availableStores, Wanted)
           A == ToSet(availableStores)
<1>2. enabledResources \in {<<>>, K} /\ (pc \notin {"resources", "fatal"} => Wanted \subseteq A /\ enabledResources = K)
    BY DEF BuilderInv
<1>3. K \in Seq(A) /\ ToSet(K) = A \cap Wanted
    BY <1>1
<1> HIDE DEF K, A
<1>4. enabledResources \in Seq(A)
    <2>1. <<>> \in Seq(A)
        OBVIOUS
    <2> QED
        BY <1>2, <1>3, <2>1, Zenon
<1>5. pc \notin {"resources", "fatal"} => ToSet(enabledResources) = Wanted
    BY <1>2, <1>3
<1> QED
    BY <1>4, <1>5 DEF A

\* A process that starts has nothing.
LEMMA InitIInv == ExpositionInit => IInv
BY DEF ExpositionInit, BuilderInit, IInv, BuilderInv, ListInv, ObjectsInv, Absent, Parsed, HasStores

\* Parse succeeds exactly if every entry compiles.
LEMMA ParseOf ==
    ASSUME NEW l, IsList(l)
    PROVE  IF \E r \in l.list : ~r.compiles THEN Parse(l) = {}
           ELSE \E k : Parse(l) = {k} /\ IsList(k) /\ k.list = l.list /\ k.rList = l.list
<1> DEFINE k == [l EXCEPT !.rList = l.list]
<1>1. IsList(k) /\ k.list = l.list /\ k.rList = l.list
    BY DEF IsList
<1>2. IF \E r \in l.list : ~r.compiles THEN Parse(l) = {} ELSE Parse(l) = {k}
    BY DEF Parse
<1> HIDE DEF k
<1> QED
    BY <1>1, <1>2

\* Include and Exclude keep the list a list, and what is compiled.
LEMMA EditOf ==
    ASSUME NEW l, IsList(l), NEW items
    PROVE  /\ IsList(Include(l, items)) /\ Include(l, items).rList = l.rList
           /\ IsList(Exclude(l, items)) /\ Exclude(l, items).rList = l.rList
BY DEF Include, Exclude, IsList

-----------------------------------------------------------------------------
(* The steps of the start-up.                                                 *)

\* Nothing is shown before the process serves, so a step of the builder, which
\* leaves objects and pages alone, keeps them as they are.
LEMMA BuilderKeepsObjects ==
    ASSUME IInv, BuilderNext, UNCHANGED <<scenario, objects, shown>>
    PROVE  ObjectsInv'
<1>1. pc # "serving"
    BY DEF BuilderNext, WithEnabledResources, NewAllowDenyList, EditAllowDenyList, ParseAllowDenyList,
           createKubeClient, Build, Restart
<1>2. \A u \in Uids : shown[u] = {}
    BY <1>1 DEF IInv, ObjectsInv
<1> QED
    BY <1>2 DEF IInv, ObjectsInv

\* WithEnabledResources enables what is asked for or ends the process; the default
\* resources are all there.
LEMMA EnableStep ==
    ASSUME BuilderInv, WithEnabledResources
    PROVE  BuilderInv'
<1>1. /\ pc = "resources" /\ UNCHANGED <<opts, allowDenyList, parsed, stores>> /\ Wanted' = Wanted
      /\ IF Wanted \subseteq ToSet(availableStores)
         THEN enabledResources' = Kept(availableStores, Wanted) /\ pc' = "allowdenylist"
         ELSE pc' = "fatal" /\ enabledResources' = enabledResources
    BY DEF WithEnabledResources, Wanted
<1>2. stores = <<>> /\ allowDenyList = {}
    BY <1>1 DEF BuilderInv, ListInv, HasStores
<1>3. CASE Wanted \subseteq ToSet(availableStores)
    BY <1>1, <1>2, <1>3 DEF BuilderInv, ListInv, HasStores, Parsed
<1>4. CASE ~(Wanted \subseteq ToSet(availableStores))
    <2>1. opts.resources # {} /\ Wanted = opts.resources
        BY <1>4, StoresAvailable DEF Wanted
    <2>2. Wrong'
        BY <1>1, <1>4, <2>1 DEF Wrong
    <2> QED
        BY <1>1, <1>2, <1>4, <2>2 DEF BuilderInv, ListInv, HasStores, Parsed
<1> QED
    BY <1>3, <1>4

\* New refuses an allow list next to a deny list.
LEMMA NewStep ==
    ASSUME BuilderInv, NewAllowDenyList
    PROVE  BuilderInv'
<1>1. /\ pc = "allowdenylist" /\ UNCHANGED <<opts, parsed, enabledResources, stores>> /\ Wanted' = Wanted
      /\ allowDenyList' = New(opts.allow, opts.deny)
      /\ pc' = IF allowDenyList' = {} THEN "fatal" ELSE "parse"
    BY DEF NewAllowDenyList, Wanted
<1>2. /\ stores = <<>> /\ enabledResources = Kept(availableStores, Wanted)
      /\ Wanted \subseteq ToSet(availableStores) /\ opts \in CommandLines
    BY <1>1 DEF BuilderInv, HasStores
<1>3. CASE opts.allow # {} /\ opts.deny # {}
    <2>1. allowDenyList' = {} /\ pc' = "fatal" /\ Wrong'
        BY <1>1, <1>3 DEF New, Wrong
    <2> QED
        BY <1>1, <1>2, <2>1 DEF BuilderInv, ListInv, HasStores, Parsed
<1>4. CASE ~(opts.allow # {} /\ opts.deny # {})
    <2> DEFINE l == [list |-> IF opts.allow # {} THEN opts.allow ELSE opts.deny,
                     isAllowList |-> opts.allow # {}, rList |-> {}]
    <2>1. allowDenyList' = {l} /\ pc' = "parse"
        BY <1>1, <1>4, Zenon DEF New
    <2>2. IsList(l)
        BY DEF IsList
    <2> HIDE DEF l
    <2> QED
        BY <1>1, <1>2, <1>4, <2>1, <2>2 DEF BuilderInv, ListInv, HasStores, Parsed
<1> QED
    BY <1>3, <1>4

\* Include and Exclude change the entries, not what is compiled.
LEMMA EditStep ==
    ASSUME BuilderInv, EditAllowDenyList
    PROVE  BuilderInv'
<1>1. /\ pc \in {"parse", "client", "build"} /\ Wanted' = Wanted
      /\ UNCHANGED <<pc, opts, parsed, enabledResources, stores>>
    BY DEF EditAllowDenyList, Wanted
<1>2. PICK l : allowDenyList = {l} /\ IsList(l)
    BY <1>1 DEF BuilderInv, ListInv, Parsed
<1>3. The(allowDenyList) = l
    BY <1>2, TheOnly
<1>4. PICK k : allowDenyList' = {k} /\ IsList(k) /\ k.rList = l.rList
    BY <1>2, <1>3, EditOf DEF EditAllowDenyList
<1>5. ListInv'
    BY <1>1, <1>2, <1>4 DEF BuilderInv, ListInv, Parsed
<1> QED
    BY <1>1, <1>5 DEF BuilderInv, HasStores, Parsed

\* Parse compiles the list as it was edited last, or ends the process.
LEMMA ParseStep ==
    ASSUME BuilderInv, ParseAllowDenyList
    PROVE  BuilderInv'
<1>1. /\ pc = "parse" /\ UNCHANGED <<opts, enabledResources, stores>> /\ Wanted' = Wanted
    BY DEF ParseAllowDenyList, Wanted
<1>2. PICK l : allowDenyList = {l} /\ IsList(l)
    BY <1>1 DEF BuilderInv, ListInv
<1>3. The(allowDenyList) = l
    BY <1>2, TheOnly
<1>4. CASE \E r \in l.list : ~r.compiles
    <2>1. pc' = "fatal" /\ allowDenyList' = allowDenyList /\ parsed' = l.list
        BY <1>2, <1>3, <1>4, ParseOf, Zenon DEF ParseAllowDenyList
    <2>2. Wrong'
        BY <1>2, <1>4, <2>1 DEF Wrong
    <2> QED
        BY <1>1, <2>1, <2>2 DEF BuilderInv, ListInv, HasStores, Parsed
<1>5. CASE ~\E r \in l.list : ~r.compiles
    <2>1. PICK k : Parse(l) = {k} /\ IsList(k) /\ k.list = l.list /\ k.rList = l.list
        BY <1>2, <1>5, ParseOf
    <2>2. pc' = "client" /\ allowDenyList' = {k} /\ parsed' = l.list
        BY <1>3, <2>1 DEF ParseAllowDenyList
    <2> QED
        BY <1>1, <1>5, <2>1, <2>2 DEF BuilderInv, ListInv, HasStores, Parsed
<1> QED
    BY <1>4, <1>5

\* The API server answers or not; Build makes the stores; Restart starts over.
LEMMA ProcessSteps ==
    ASSUME BuilderInv, createKubeClient \/ Build \/ Restart
    PROVE  BuilderInv'
<1>1. opts' = opts /\ Wanted' = Wanted
    BY DEF createKubeClient, Build, Restart, Wanted
<1>2. CASE createKubeClient
    BY <1>1, <1>2 DEF createKubeClient, BuilderInv, ListInv, HasStores, Parsed
<1>3. CASE Build
    <2>1. /\ pc = "build" /\ pc' = "list" /\ UNCHANGED <<opts, allowDenyList, parsed, enabledResources>>
          /\ stores' = Built(The(allowDenyList))'
        BY <1>3 DEF Build, Built
    <2> QED
        BY <1>1, <2>1 DEF BuilderInv, ListInv, HasStores, Parsed
<1>4. CASE Restart
    BY <1>1, <1>4 DEF Restart, BuilderInv, ListInv, HasStores, Parsed
<1> QED
    BY <1>2, <1>3, <1>4

\* Serving, panicking and listing again change nothing of what was built.
LEMMA ServingKeepsBuilt ==
    ASSUME BuilderInv, pc \in HasStores, pc' \in HasStores,
           UNCHANGED <<opts, allowDenyList, parsed, enabledResources, stores>>
    PROVE  BuilderInv'
<1>1. Wanted' = Wanted /\ Built(The(allowDenyList))' = Built(The(allowDenyList))
    BY DEF Wanted, Built
<1> QED
    BY <1>1 DEF BuilderInv, ListInv, HasStores, Parsed

-----------------------------------------------------------------------------
(* The steps of the objects.                                                  *)

\* While the stores stay, what an object is rendered to stays.
LEMMA RenderedStays ==
    ASSUME UNCHANGED <<stores, scenario>>
    PROVE  StoreIndex' = StoreIndex /\ kind' = kind /\ \A o : Rendered(o)' = Rendered(o)
<1>1. kind' = kind
    BY DEF kind
<1>2. StoreIndex' = StoreIndex
    BY <1>1 DEF StoreIndex, SelectInSeq
<1> QED
    BY <1>1, <1>2 DEF Rendered

\* Replace renders every object of the list, or the process panics.
LEMMA ListStep ==
    ASSUME IInv, List
    PROVE  IInv'
<1>1. /\ pc \in {"list", "serving"} /\ UNCHANGED <<opts, allowDenyList, parsed, enabledResources, stores, scenario, objects>>
      /\ IF StoreIndex = 0 THEN pc' = "serving" /\ shown' = shown ELSE RenderAll(objects)
    BY DEF List
<1>2. StoreIndex' = StoreIndex /\ \A o : Rendered(o)' = Rendered(o)
    BY <1>1, RenderedStays
<1>3. pc' \in HasStores /\ pc \in HasStores
    BY <1>1 DEF RenderAll, HasStores
<1>4. BuilderInv'
    BY <1>1, <1>3, ServingKeepsBuilt DEF IInv
<1>5. CASE StoreIndex = 0
    <2>1. \A u \in Uids : shown'[u] = {}
        BY <1>1, <1>5 DEF IInv, ObjectsInv
    <2>2. ObjectsInv'
        BY <1>1, <1>5, <2>1 DEF IInv, ObjectsInv
    <2> QED
        BY <1>4, <2>2 DEF IInv
<1>6. CASE StoreIndex # 0 /\ shown' = Absent
    <2>1. ObjectsInv'
        BY <1>1, <1>6 DEF IInv, ObjectsInv, Absent
    <2> QED
        BY <1>4, <2>1 DEF IInv
<1>7. CASE StoreIndex # 0 /\ shown' # Absent
    <2>1. pc' = "serving" /\ shown' = [u \in Uids |-> {Rendered(o) : o \in objects[u]}]
        BY <1>1, <1>7 DEF RenderAll
    <2>2. ASSUME NEW u \in Uids
          PROVE  shown'[u] = {} \/ \E o \in scenario.contents[u] : shown'[u] = {Rendered(o)}
        <3>1. shown'[u] = {Rendered(o) : o \in objects[u]}
            BY <2>1
        <3>2. CASE objects[u] = {}
            BY <3>1, <3>2
        <3>3. CASE \E o \in scenario.contents[u] : objects[u] = {o}
            BY <3>1, <3>3
        <3> QED
            BY <3>2, <3>3 DEF IInv, ObjectsInv
    <2>3. shown' = [u \in Uids |-> shown'[u]] /\ objects = [u \in Uids |-> objects[u]]
          /\ \A u \in Uids : objects[u] = {} \/ \E o \in scenario.contents[u] : objects[u] = {o}
        BY <2>1 DEF IInv, ObjectsInv
    <2>4. ObjectsInv'
        BY <1>1, <1>2, <1>7, <2>1, <2>2, <2>3 DEF ObjectsInv
    <2> QED
        BY <1>4, <2>4 DEF IInv
<1> QED
    BY <1>4, <1>5, <1>6, <1>7 DEF IInv

\* Add, Update and Delete change what is shown of one object, or the process
\* panics.
LEMMA ChangeStep ==
    ASSUME IInv, NEW u \in Uids, Change(u)
    PROVE  IInv'
<1>1. PICK x \in {{}} \cup {{o} : o \in scenario.contents[u]} :
        /\ objects' = [objects EXCEPT ![u] = x]
        /\ \/ UNCHANGED <<pc, shown>>
           \/ pc' = "panicked" /\ shown' = Absent /\ pc = "serving"
           \/ /\ pc = "serving" /\ StoreIndex # 0 /\ pc' = pc
              /\ shown' = [shown EXCEPT ![u] = {Rendered(o) : o \in x}]
    BY Zenon DEF Change
<1>2. /\ pc \in {"list", "serving", "panicked"}
      /\ UNCHANGED <<opts, allowDenyList, parsed, enabledResources, stores, scenario>>
    BY DEF Change
<1>3. StoreIndex' = StoreIndex /\ \A o : Rendered(o)' = Rendered(o)
    BY <1>2, RenderedStays
<1>4. BuilderInv'
    BY <1>1, <1>2, ServingKeepsBuilt DEF IInv, HasStores
<1>5. x = {} \/ \E o \in scenario.contents[u] : x = {o}
    BY <1>1
<1>6. /\ objects' = [v \in Uids |-> objects'[v]]
      /\ \A v \in Uids : objects'[v] = IF v = u THEN x ELSE objects[v]
    BY <1>1 DEF IInv, ObjectsInv
<1>7. \A v \in Uids : objects'[v] = {} \/ \E o \in scenario.contents[v] : objects'[v] = {o}
    BY <1>5, <1>6 DEF IInv, ObjectsInv
<1>8. CASE UNCHANGED <<pc, shown>>
    <2>1. ObjectsInv'
        BY <1>2, <1>3, <1>6, <1>7, <1>8 DEF IInv, ObjectsInv
    <2> QED
        BY <1>4, <2>1 DEF IInv
<1>9. CASE shown' = Absent
    <2>1. ObjectsInv'
        BY <1>2, <1>6, <1>7, <1>9 DEF IInv, ObjectsInv, Absent
    <2> QED
        BY <1>4, <2>1 DEF IInv
<1>10. CASE /\ pc = "serving" /\ StoreIndex # 0 /\ pc' = pc
            /\ shown' = [shown EXCEPT ![u] = {Rendered(o) : o \in x}]
    <2>1. /\ shown' = [v \in Uids |-> shown'[v]]
          /\ \A v \in Uids : shown'[v] = IF v = u THEN {Rendered(o) : o \in x} ELSE shown[v]
        BY <1>10, Zenon DEF IInv, ObjectsInv
    <2>2. {Rendered(o) : o \in x} = {} \/ \E o \in scenario.contents[u] : {Rendered(p) : p \in x} = {Rendered(o)}
        BY <1>5
    <2>3. \A v \in Uids : shown'[v] = {} \/ \E o \in scenario.contents[v] : shown'[v] = {Rendered(o)}
        BY <2>1, <2>2 DEF IInv, ObjectsInv
    <2>4. ObjectsInv'
        BY <1>2, <1>3, <1>6, <1>7, <1>10, <2>1, <2>3 DEF ObjectsInv
    <2> QED
        BY <1>4, <2>4 DEF IInv
<1> QED
    BY <1>1, <1>8, <1>9, <1>10

-----------------------------------------------------------------------------
(* The theorems.                                                              *)

\* Every step of the start-up, of the cluster and of the reflector keeps the
\* invariant.
LEMMA NextIInv == IInv /\ [Next]_vars => IInv'
<1> SUFFICES ASSUME IInv, [Next]_vars PROVE IInv'
    OBVIOUS
<1>1. CASE BuilderNext /\ UNCHANGED <<scenario, objects, shown>>
    <2>1. BuilderInv'
        BY <1>1, EnableStep, NewStep, EditStep, ParseStep, ProcessSteps DEF BuilderNext, IInv
    <2> QED
        BY <1>1, <2>1, BuilderKeepsObjects DEF IInv
<1>2. CASE List
    BY <1>2, ListStep
<1>3. ASSUME NEW u \in Uids, Change(u) PROVE IInv'
    BY <1>3, ChangeStep
<1>4. CASE UNCHANGED vars
    <2>1. UNCHANGED <<pc, opts, allowDenyList, parsed, enabledResources, stores, scenario, objects, shown>>
        BY <1>4 DEF vars, builderVars
    <2>2. StoreIndex' = StoreIndex /\ \A o : Rendered(o)' = Rendered(o)
        BY <2>1, RenderedStays
    <2>3. Wanted' = Wanted /\ Built(The(allowDenyList))' = Built(The(allowDenyList)) /\ Wrong' = Wrong
        BY <2>1 DEF Wanted, Built, Wrong
    <2>4. BuilderInv'
        BY <2>1, <2>3 DEF IInv, BuilderInv, ListInv
    <2>5. ObjectsInv'
        BY <2>1, <2>2 DEF IInv, ObjectsInv
    <2> QED
        BY <2>4, <2>5 DEF IInv
<1> QED
    BY <1>1, <1>2, <1>3, <1>4 DEF Next

\* The invariant holds throughout.
LEMMA Inductive == Spec => []IInv
BY InitIInv, NextIInv, PTL DEF Spec

\* The state of the start-up and of the pages is typed, and nothing is shown by a
\* process that does not serve (builder.go, main.go).
THEOREM ExpositionTyped == Spec => []TypeOK
<1>1. IInv => TypeOK
    <2> SUFFICES ASSUME IInv PROVE TypeOK
        OBVIOUS
    <2>1. /\ pc \in {"resources", "allowdenylist", "parse", "client", "build", "list", "serving",
                     "fatal", "unreachable", "panicked"}
          /\ opts \in CommandLines
        BY DEF IInv, BuilderInv, Parsed
    <2>2. Cardinality({}) <= 1 /\ \A v : Cardinality({v}) <= 1
        BY FS_EmptySet, FS_Singleton
    <2>3. Cardinality(allowDenyList) <= 1
        <3>1. allowDenyList = {} \/ \E l : allowDenyList = {l}
            BY Zenon DEF IInv, BuilderInv, ListInv
        <3> QED
            BY <2>2, <3>1, Zenon
    <2>4. enabledResources \in Seq(ToSet(availableStores))
        BY EnabledAvailable DEF IInv
    <2>5. ToSet(enabledResources) \subseteq ToSet(availableStores)
        BY <2>4 DEF ToSet
    <2>6. Len(stores) \in {0, Len(enabledResources)}
        <3>1. stores = <<>> \/ stores = Built(The(allowDenyList))
            BY DEF IInv, BuilderInv
        <3>2. Len(Built(The(allowDenyList))) = Len(enabledResources)
            BY <2>4 DEF Built
        <3> QED
            BY <3>1, <3>2
    <2>7. ASSUME NEW u \in Uids
          PROVE  /\ objects[u] \subseteq scenario.contents[u] /\ Cardinality(objects[u]) <= 1
                 /\ Cardinality(shown[u]) <= 1 /\ (shown[u] # {} => pc = "serving")
        BY <2>2, Zenon DEF IInv, ObjectsInv
    <2> QED
        BY <2>1, <2>3, <2>5, <2>6, <2>7 DEF TypeOK
<1> QED
    BY <1>1, Inductive, PTL

\* WriteAll puts the i-th header above the i-th family: whatever resource the
\* objects are of, whatever the lists leave out and however the entries are
\* edited, each object has one family per header, the one the header names
\* (builder.go buildStore, generator.go).
THEOREM Aligned == Spec => []HeadersAligned
<1>1. IInv => HeadersAligned
    <2> SUFFICES ASSUME IInv, NEW u \in Uids, NEW fs \in shown[u]
                 PROVE  [i \in DOMAIN fs |-> fs[i].name] = stores[StoreIndex].headers
        BY Zenon DEF HeadersAligned
    <2>1. PICK o : fs = Rendered(o) /\ pc = "serving" /\ StoreIndex # 0
        BY DEF IInv, ObjectsInv
    <2> DEFINE l == The(allowDenyList)
    <2>2. stores = Built(l)
        BY <2>1 DEF IInv, BuilderInv, HasStores
    <2> HIDE DEF l
    <2>3. kind \in ToSet(availableStores) /\ stores[StoreIndex] = buildStore(l, kind)
        BY <2>1, <2>2, StoreAtIndex, EnabledAvailable DEF IInv
    <2>4. fs = ComposeMetricGenFuncs(buildStore(l, kind).generators, metricFamilies(kind, o))
        BY <2>1, <2>3 DEF Rendered
    <2>5. [i \in DOMAIN fs |-> fs[i].name] = buildStore(l, kind).headers
        BY <2>3, <2>4, RenderedNames
    <2> QED
        BY <2>3, <2>5
<1> QED
    BY <1>1, Inductive, PTL

\* The families a store has are those that are asked for.
LEMMA HeadersAsked ==
    ASSUME NEW l, IsList(l), l.rList = parsed, NEW resource \in ToSet(availableStores),
           NEW g \in ToSet(Generators[resource])
    PROVE  (l.isAllowList <=> \E r \in parsed : g.name \in r.matches)
             <=> g.name \in ToSet(buildStore(l, resource).headers)
<1> DEFINE gs == buildStore(l, resource).generators
<1>1. /\ buildStore(l, resource).headers = [i \in DOMAIN gs |-> gs[i].name]
      /\ ToSet(gs) = {k \in ToSet(Generators[resource]) : IsIncluded(l, k.name)}
    BY StoreOf
<1> HIDE DEF gs
<1>2. g.name \in ToSet(buildStore(l, resource).headers) <=> \E k \in ToSet(gs) : k.name = g.name
    BY <1>1 DEF ToSet
<1>3. (\E k \in ToSet(gs) : k.name = g.name) <=> IsIncluded(l, g.name)
    BY <1>1
<1>4. IsIncluded(l, g.name) <=> (l.isAllowList <=> \E r \in parsed : g.name \in r.matches)
    BY DEF IsIncluded, IsList
<1> QED
    BY <1>2, <1>3, <1>4

\* Start-up fails only for a command line that asks for what cannot be given, and
\* a process that starts has exactly the resources and the families it was asked
\* for when Parse was called, whatever is edited later (main.go, allowdenylist.go, builder.go).
THEOREM ServesAsAsked == Spec => []ServesAsConfigured
<1>1. IInv => ServesAsConfigured
    <2> SUFFICES ASSUME IInv PROVE ServesAsConfigured
        OBVIOUS
    <2>1. pc = "fatal" => Wrong
        BY DEF IInv, BuilderInv
    <2>2. ASSUME pc \in {"list", "serving"}
          PROVE  /\ ~Wrong
                 /\ opts.resources # {} => {s.resource : s \in ToSet(stores)} = opts.resources
                 /\ \A s \in ToSet(stores) : \A g \in ToSet(Generators[s.resource]) :
                      (\A l \in allowDenyList : l.isAllowList <=> \E r \in parsed : g.name \in r.matches)
                        <=> g.name \in ToSet(s.headers)
        <3>1. pc \in Parsed /\ pc \in HasStores /\ pc \notin {"resources", "fatal"}
            BY <2>2 DEF Parsed, HasStores
        <3>2. PICK l : /\ allowDenyList = {l} /\ IsList(l) /\ l.rList = parsed
                       /\ ~\E r \in parsed : ~r.compiles
            BY <3>1 DEF IInv, BuilderInv, ListInv
        <3>3. stores = Built(l)
            BY <3>1, <3>2, TheOnly, Zenon DEF IInv, BuilderInv
        <3>4. /\ Wanted \subseteq ToSet(availableStores) /\ ToSet(enabledResources) = Wanted
              /\ ~(opts.allow # {} /\ opts.deny # {})
            BY <3>1, EnabledAvailable DEF IInv, BuilderInv, ListInv
        <3>5. ~Wrong
            BY <3>2, <3>4 DEF Wrong, Wanted
        <3>6. ToSet(stores) = {buildStore(l, r) : r \in Wanted}
            BY <3>3, <3>4 DEF ToSet, Built
        <3>7. \A r : buildStore(l, r).resource = r
            BY DEF buildStore
        <3>8. {s.resource : s \in ToSet(stores)} = Wanted
            BY <3>6, <3>7
        <3>9. ASSUME NEW s \in ToSet(stores), NEW g \in ToSet(Generators[s.resource])
              PROVE  (l.isAllowList <=> \E r \in parsed : g.name \in r.matches) <=> g.name \in ToSet(s.headers)
            <4>1. s.resource \in ToSet(availableStores) /\ s = buildStore(l, s.resource)
                BY <3>4, <3>6, <3>7
            <4> QED
                BY <3>2, <3>9, <4>1, HeadersAsked
        <3> QED
            BY <3>2, <3>5, <3>8, <3>9 DEF Wanted
    <2> QED
        BY <2>1, <2>2 DEF ServesAsConfigured, Wrong
<1> QED
    BY <1>1, Inductive, PTL
=============================================================================
