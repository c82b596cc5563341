------------------------------ MODULE JumpHash ------------------------------
(***************************************************************************)
(* jump.Hash (vendored go-jump), by which sharding.keep picks the shard of *)
(* an object.  A key stands for the numbers its linear congruence yields,  *)
(* key>>33 + 1, one per iteration: any sequence of draws in 1..Width.  The *)
(* rounding of the quotient to a double is left out.                       *)
(***************************************************************************)
EXTENDS Integers

CONSTANTS
    Width,          \* 2^31 in the code
    MaxBuckets      \* bound: the largest numBuckets

ASSUME JumpAssumption == Width \in Nat \ {0} /\ MaxBuckets \in Nat \ {0}

Keys == [1..MaxBuckets -> 1..Width]

\* The next candidate: the quotient is at least one, so it is a later bucket.
Jump(bucket, draw) == ((bucket + 1) * Width) \div draw

\* Mutant: a modulo operation.
HashModulo(key, numBuckets) == IF numBuckets = 0 THEN -1 ELSE key[1] % numBuckets

\* Mutant: the loop goes on while the candidate is within the buckets, the first
\* bucket being 1.
HashFromOne(key, numBuckets) ==
    LET loop[k \in 0..MaxBuckets] ==
            IF k = 0 THEN [b |-> -1, j |-> 0]
            ELSE LET s == loop[k - 1]
                 IN  IF s.j <= numBuckets THEN [b |-> s.j, j |-> Jump(s.j, key[k])] ELSE s
    IN  loop[MaxBuckets].b

\* The variables b and j after k iterations of the loop, which has ended after
\* MaxBuckets of them.
Iterations(key, numBuckets) ==
    LET loop[k \in 0..MaxBuckets] ==
            IF k = 0 THEN [b |-> -1, j |-> 0]
            ELSE LET s == loop[k - 1]
                 IN  IF s.j < numBuckets THEN [b |-> s.j, j |-> Jump(s.j, key[k])] ELSE s
    IN  loop

Hash(key, numBuckets) == Iterations(key, numBuckets)[MaxBuckets].b
=============================================================================
