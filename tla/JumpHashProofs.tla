--------------------------- MODULE JumpHashProofs ---------------------------
(* What jump.Hash computes, for every width of its draws and every number of   *)
(* buckets.  The library's induction theorems take a predicate as a parameter, *)
(* which the backends cannot instantiate: induction is stated here on sets.    *)
EXTENDS JumpHash, WellFoundedInduction, TLAPS

\* A set of naturals that is not empty has a least element.
LEMMA LeastElement ==
    ASSUME NEW T \in SUBSET Nat, T # {}
    PROVE  \E x \in T : \A y \in T : x <= y
<1> DEFINE R == {ss \in Nat \X Nat : ss[1] < ss[2]}
<1>1. IsWellFoundedOn(R, Nat)
    BY NatLessThanWellFounded DEF OpToRel
<1> HIDE DEF R
<1>2. PICK x \in T : \A y \in T : <<y, x>> \notin R
    BY <1>1, WFMin
<1>3. \A y \in T : x <= y
    <2> SUFFICES ASSUME NEW y \in T, y < x PROVE FALSE
        OBVIOUS
    <2>1. <<y, x>> \in R
        BY DEF R
    <2> QED
        BY <1>2, <2>1
<1> QED
    BY <1>3

\* Induction: a set that holds 0 and with each number the next holds all.
LEMMA InductiveSet ==
    ASSUME NEW S \in SUBSET Nat, 0 \in S, \A n \in S : n + 1 \in S
    PROVE  S = Nat
<1> SUFFICES ASSUME Nat \ S # {} PROVE FALSE
    OBVIOUS
<1>1. PICK x \in Nat \ S : \A y \in Nat \ S : x <= y
    BY LeastElement
<1>2. x - 1 \in S
    BY <1>1
<1> QED
    BY <1>2

-----------------------------------------------------------------------------
(* The loop.                                                                  *)

\* The quotient is at least one: the loop jumps forward.
LEMMA JumpsForward ==
    ASSUME NEW b \in Nat, NEW draw \in 1..Width
    PROVE  Jump(b, draw) \in Nat /\ Jump(b, draw) > b
<1> DEFINE q == Jump(b, draw)
<1>1. Width \in Nat \ {0} /\ draw \in Nat \ {0} /\ draw <= Width
    BY JumpAssumption
<1>2. (b + 1) * Width \in Nat
    BY <1>1
<1>3. (b + 1) * draw <= (b + 1) * Width
    BY <1>1
<1>4. q \in Nat /\ (b + 1) * Width < (q + 1) * draw
    BY <1>1, <1>2 DEF Jump
<1> HIDE DEF q
<1>5. (b + 1) * draw < (q + 1) * draw
    BY <1>1, <1>2, <1>3, <1>4
<1>6. b + 1 < q + 1
    BY <1>1, <1>4, <1>5
<1> QED
    BY <1>4, <1>6 DEF q

\* One iteration.
Step(s, numBuckets, draw) ==
    IF s.j < numBuckets THEN [b |-> s.j, j |-> Jump(s.j, draw)] ELSE s

\* f is the recursive function of the loop up to m.
IsLoop(f, key, n, m) ==
    f = [k \in 0..m |-> IF k = 0 THEN [b |-> -1, j |-> 0] ELSE Step(f[k - 1], n, key[k])]

\* The recursion that defines the loop has a solution up to every m.
LEMMA LoopExists ==
    ASSUME NEW key, NEW n
    PROVE  \A m \in Nat : \E f : IsLoop(f, key, n, m)
<1> DEFINE S == {m \in Nat : \E f : IsLoop(f, key, n, m)}
<1>1. 0 \in S
    <2> DEFINE f == [k \in 0..0 |-> [b |-> -1, j |-> 0]]
    <2>1. IsLoop(f, key, n, 0)
        BY DEF IsLoop
    <2> QED
        BY <2>1
<1>2. ASSUME NEW m \in S PROVE m + 1 \in S
    <2>1. PICK f : IsLoop(f, key, n, m)
        OBVIOUS
    <2> DEFINE g == [k \in 0..(m + 1) |-> IF k = m + 1 THEN Step(f[m], n, key[m + 1]) ELSE f[k]]
    <2>2. IsLoop(g, key, n, m + 1)
        <3> SUFFICES ASSUME NEW k \in 0..(m + 1)
                     PROVE  g[k] = IF k = 0 THEN [b |-> -1, j |-> 0] ELSE Step(g[k - 1], n, key[k])
            BY DEF IsLoop
        <3>1. CASE k = m + 1
            BY <3>1
        <3>2. CASE k # m + 1
            BY <2>1, <3>2 DEF IsLoop
        <3> QED
            BY <3>1, <3>2
    <2> HIDE DEF g
    <2> QED
        BY <2>2
<1> HIDE DEF S
<1>3. S = Nat
    BY <1>1, <1>2, InductiveSet DEF S
<1> QED
    BY <1>3 DEF S

\* The recursive function is the one its definition says.
LEMMA LoopUnfolds ==
    ASSUME NEW key, NEW n
    PROVE  \A k \in 0..MaxBuckets : Iterations(key, n)[k] =
             IF k = 0 THEN [b |-> -1, j |-> 0] ELSE Step(Iterations(key, n)[k - 1], n, key[k])
<1>1. \E f : IsLoop(f, key, n, MaxBuckets)
    BY LoopExists, JumpAssumption
<1>2. Iterations(key, n) = CHOOSE f : IsLoop(f, key, n, MaxBuckets)
    BY DEF Iterations, Step, IsLoop
<1>3. IsLoop(Iterations(key, n), key, n, MaxBuckets)
    BY <1>1, <1>2
<1> DEFINE L == Iterations(key, n)
<1>4. L = [k \in 0..MaxBuckets |-> IF k = 0 THEN [b |-> -1, j |-> 0] ELSE Step(L[k - 1], n, key[k])]
    BY <1>3 DEF IsLoop
<1> HIDE DEF L
<1>5. \A k \in 0..MaxBuckets : L[k] = IF k = 0 THEN [b |-> -1, j |-> 0] ELSE Step(L[k - 1], n, key[k])
    BY <1>4
<1> QED
    BY <1>5 DEF L

\* The loop never leaves the buckets, and each iteration that does not end it
\* moves the candidate on.
LEMMA LoopInvariant ==
    ASSUME NEW key \in Keys, NEW n \in Nat, NEW k \in 0..MaxBuckets
    PROVE  /\ Iterations(key, n)[k].j \in Nat
           /\ n = 0 \/ k = 0 => Iterations(key, n)[k] = [b |-> -1, j |-> 0]
           /\ n > 0 /\ k > 0 => Iterations(key, n)[k].b \in 0..(n - 1)
           /\ Iterations(key, n)[k].j >= k \/ Iterations(key, n)[k].j >= n
<1> DEFINE L == Iterations(key, n)
<1> DEFINE Holds(i) ==
             /\ L[i].j \in Nat
             /\ n = 0 \/ i = 0 => L[i] = [b |-> -1, j |-> 0]
             /\ n > 0 /\ i > 0 => L[i].b \in 0..(n - 1)
             /\ L[i].j >= i \/ L[i].j >= n
<1> DEFINE S == {i \in Nat : i <= MaxBuckets => Holds(i)}
<1>1. \A i \in 0..MaxBuckets : L[i] = IF i = 0 THEN [b |-> -1, j |-> 0] ELSE Step(L[i - 1], n, key[i])
    BY LoopUnfolds
<1> HIDE DEF L
<1>2. 0 \in S
    BY <1>1, JumpAssumption
<1>3. ASSUME NEW i \in S PROVE i + 1 \in S
    <2> SUFFICES ASSUME i + 1 <= MaxBuckets PROVE Holds(i + 1)
        OBVIOUS
    <2>1. Holds(i) /\ key[i + 1] \in 1..Width /\ i \in Nat
        BY JumpAssumption DEF Keys
    <2>2. L[i + 1] = Step(L[i], n, key[i + 1])
        BY <1>1, <2>1, JumpAssumption
    <2>3. CASE L[i].j < n
        <3>1. L[i + 1].b = L[i].j /\ L[i + 1].j = Jump(L[i].j, key[i + 1])
            BY <2>2, <2>3 DEF Step
        <3>2. L[i + 1].j \in Nat /\ L[i + 1].j > L[i].j
            BY <2>1, <3>1, JumpsForward
        <3> QED
            BY <2>1, <2>3, <3>1, <3>2
    <2>4. CASE ~(L[i].j < n)
        <3>1. L[i + 1] = L[i]
            BY <2>2, <2>4 DEF Step
        <3> QED
            BY <2>1, <2>4, <3>1
    <2> QED
        BY <2>3, <2>4
<1> HIDE DEF S
<1>4. S = Nat
    BY <1>2, <1>3, InductiveSet DEF S
<1> QED
    BY <1>4, JumpAssumption DEF S, L

\* The loops for n and for n + 1 buckets go together until the candidate is n:
\* there the first ends and the second makes one more iteration.
LEMMA LoopWithOneMore ==
    ASSUME NEW key \in Keys, NEW n \in Nat, NEW k \in 0..MaxBuckets
    PROVE  \/ Iterations(key, n + 1)[k] = Iterations(key, n)[k]
           \/ /\ Iterations(key, n)[k].j = n
              /\ Iterations(key, n + 1)[k].b = n
              /\ Iterations(key, n + 1)[k].j > n
<1> DEFINE L == Iterations(key, n)
           M == Iterations(key, n + 1)
           Holds(i) == M[i] = L[i] \/ (L[i].j = n /\ M[i].b = n /\ M[i].j > n)
           S == {i \in Nat : i <= MaxBuckets => Holds(i)}
<1>1. \A i \in 0..MaxBuckets :
        /\ L[i] = IF i = 0 THEN [b |-> -1, j |-> 0] ELSE Step(L[i - 1], n, key[i])
        /\ M[i] = IF i = 0 THEN [b |-> -1, j |-> 0] ELSE Step(M[i - 1], n + 1, key[i])
    BY LoopUnfolds
<1>2. \A i \in 0..MaxBuckets : L[i].j \in Nat /\ M[i].j \in Nat
    BY LoopInvariant
<1> HIDE DEF L, M
<1>3. 0 \in S
    BY <1>1, JumpAssumption
<1>4. ASSUME NEW i \in S PROVE i + 1 \in S
    <2> SUFFICES ASSUME i + 1 <= MaxBuckets PROVE Holds(i + 1)
        OBVIOUS
    <2>1. Holds(i) /\ key[i + 1] \in 1..Width /\ L[i].j \in Nat /\ M[i].j \in Nat
        BY <1>2, JumpAssumption DEF Keys
    <2>2. L[i + 1] = Step(L[i], n, key[i + 1]) /\ M[i + 1] = Step(M[i], n + 1, key[i + 1])
        BY <1>1, JumpAssumption
    <2>3. CASE M[i] = L[i] /\ L[i].j # n
        BY <2>1, <2>2, <2>3 DEF Step
    <2>4. CASE M[i] = L[i] /\ L[i].j = n
        <3>1. L[i + 1] = L[i] /\ M[i + 1] = [b |-> n, j |-> Jump(n, key[i + 1])]
            BY <2>1, <2>2, <2>4 DEF Step
        <3> QED
            BY <2>1, <2>4, <3>1, JumpsForward
    <2>5. CASE L[i].j = n /\ M[i].b = n /\ M[i].j > n
        BY <2>1, <2>2, <2>5 DEF Step
    <2> QED
        BY <2>1, <2>3, <2>4, <2>5
<1> HIDE DEF S
<1>5. S = Nat
    BY <1>3, <1>4, InductiveSet DEF S
<1> QED
    BY <1>5, JumpAssumption DEF S, L, M

-----------------------------------------------------------------------------
(* The result.                                                                *)

\* The loop has ended after MaxBuckets iterations, as Hash takes for granted.
LEMMA LoopEnds ==
    ASSUME NEW key \in Keys, NEW n \in 0..MaxBuckets
    PROVE  Iterations(key, n)[MaxBuckets].j >= n
BY LoopInvariant, JumpAssumption

\* "consistently chooses a hash bucket number in the range [0, numBuckets)", and
\* -1 when there is none.
LEMMA HashInRange ==
    ASSUME NEW key \in Keys, NEW n \in Nat
    PROVE  Hash(key, n) \in IF n = 0 THEN {-1} ELSE 0..(n - 1)
BY LoopInvariant, JumpAssumption DEF Hash

\* With one more bucket a key stays where it is or moves to the new bucket.
LEMMA HashMovesToNew ==
    ASSUME NEW key \in Keys, NEW n \in Nat
    PROVE  Hash(key, n + 1) \in {Hash(key, n), n}
BY LoopWithOneMore, JumpAssumption DEF Hash
=============================================================================
