----------------------- MODULE MetricsStoreRefinement -----------------------
(* That the store implements AtomicStore: every critical section of a writer   *)
(* is one step on the map, and WriteAll is one atomic scrape, for every set of *)
(* objects, writers and readers.                                               *)
EXTENDS MetricsStoreProofs

\* The pages of AtomicStore: a reader that is not in WriteAll has been served the
\* page it was written, section by section in any order of the objects.
Pages == [r \in Readers |->
            IF rpc[r] = "idle" THEN [i \in DOMAIN out[r] |-> Range(out[r][i])] ELSE <<>>]

\* Steps that do not begin or end a response do not show.
LEMMA PagesUnchanged ==
    ASSUME \A r \in Readers : /\ rpc'[r] = rpc[r]
                              /\ rpc[r] = "idle" => out'[r] = out[r]
    PROVE  Pages' = Pages
<1>1. \A r \in Readers :
        (IF rpc'[r] = "idle" THEN [i \in DOMAIN out'[r] |-> Range(out'[r][i])] ELSE <<>>)
      = (IF rpc[r] = "idle" THEN [i \in DOMAIN out[r] |-> Range(out[r][i])] ELSE <<>>)
    OBVIOUS
<1> QED
    BY <1>1 DEF Pages

\* A new store is a new atomic store.
LEMMA InitRefines == Init => Atomic!Init
<1> SUFFICES ASSUME Init PROVE Atomic!Init
    OBVIOUS
<1>1. metrics = Atomic!EmptyMap
    BY DEF Init, EmptyMap, Atomic!EmptyMap
<1>2. Pages = [r \in Readers |-> <<>>]
    <2>1. [i \in DOMAIN <<>> |-> Range(<<>>[i])] = <<>>
        OBVIOUS
    <2>2. \A r \in Readers : rpc[r] = "idle" /\ out[r] = <<>>
        BY DEF Init
    <2> QED
        BY <2>1, <2>2 DEF Pages
<1> QED
    BY <1>1, <1>2 DEF Atomic!Init, Pages

\* A call, the locks, and the loop of Replace do not show; a critical section is
\* one step on the map.
LEMMA WriterRefines ==
    ASSUME IInv, NEW w \in Writers,
           \/ \E o \in Objects, name \in {"Add", "Delete"} : CallOne(w, name, o)
           \/ \E list \in Lists : CallReplace(w, list)
           \/ WriterStep(w)
    PROVE  Atomic!Next \/ UNCHANGED <<metrics, Pages>>
<1>1. UNCHANGED <<rpc, out>>
    BY DEF CallOne, CallReplace, WriterStep, LockMutex, Store, Erase, Clear, ReplaceNext,
           ReplaceReturn, Leave, readerVars
<1>2. Pages' = Pages
    BY <1>1, PagesUnchanged
<1>3. CASE Store(w)
    <2> DEFINE o == op[w].list[op[w].pos]
    <2>1. o \in Objects
        BY <1>3 DEF Store, IInv, CallsInv
    <2>2. o.uid \in UIDs /\ Families(o) \in {Families(x) : x \in Objects}
        BY <2>1 DEF Objects
    <2>3. metrics' = [u \in DOMAIN metrics \cup {o.uid} |->
                        IF u = o.uid THEN Families(o) ELSE metrics[u]]
        BY <1>3 DEF Store, Put
    <2> HIDE DEF o
    <2>4. Atomic!Put(o.uid, Families(o))
        BY <1>2, <2>3 DEF Atomic!Put, Pages
    <2> QED
        BY <2>2, <2>4 DEF Atomic!Next
<1>4. CASE Erase(w)
    <2> DEFINE u == op[w].list[1].uid
    <2>1. metrics' = [x \in DOMAIN metrics \ {u} |-> metrics[x]]
        BY <1>4 DEF Erase, Restrict
    <2>2. u \in UIDs
        BY <1>4 DEF Erase, IInv, CallsInv, Objects
    <2>3. Atomic!Remove(u)
        BY <1>2, <2>1 DEF Atomic!Remove, Pages
    <2> QED
        BY <2>2, <2>3 DEF Atomic!Next
<1>5. CASE Clear(w)
    <2>1. Atomic!Clear
        BY <1>2, <1>5 DEF Clear, EmptyMap, Atomic!Clear, Atomic!EmptyMap, Pages
    <2> QED
        BY <2>1 DEF Atomic!Next
<1>6. CASE ~(Store(w) \/ Erase(w) \/ Clear(w))
    <2>1. metrics' = metrics
        BY <1>6 DEF CallOne, CallReplace, WriterStep, LockMutex, ReplaceNext, ReplaceReturn
    <2> QED
        BY <1>2, <2>1
<1> QED
    BY <1>3, <1>4, <1>5, <1>6

\* WriteAll takes effect when it returns: its sections are all complete then.
LEMMA ReturnRefines ==
    ASSUME IInv, NEW r \in Readers, ReturnFromWriteAll(r)
    PROVE  Atomic!Scrape(r)
<1>1. /\ rpc[r] = "writing" /\ rpc' = [rpc EXCEPT ![r] = "idle"]
      /\ todo[r] \cap DOMAIN metrics = {} /\ Len(out[r]) = NumFamilies
      /\ out' = out /\ metrics' = metrics
    BY DEF ReturnFromWriteAll, Writing, Unyielded
<1>2. rpc \in [Readers -> {"idle", "writing"}] /\ out[r] \in Seq(Seq(Blobs))
    BY DEF IInv, TypeOK
<1>3. DOMAIN out[r] = 1..NumFamilies
    BY <1>1, <1>2
<1>4. \A j \in 1..NumFamilies : Range(out[r][j]) = {metrics[u][j] : u \in DOMAIN metrics}
    <2> SUFFICES ASSUME NEW j \in 1..NumFamilies
                 PROVE  Range(out[r][j]) = {metrics[u][j] : u \in DOMAIN metrics}
        OBVIOUS
    <2>1. Range(out[r][j]) = Due(r, j)
        BY <1>1 DEF IInv, PageNotTorn
    <2>2. DOMAIN metrics \ (IF j = Len(out[r]) THEN todo[r] ELSE {}) = DOMAIN metrics
        BY <1>1
    <2> QED
        BY <2>1, <2>2 DEF Due
<1>5. [i \in DOMAIN out[r] |-> Range(out[r][i])] = Atomic!Render(metrics)
    BY <1>3, <1>4 DEF Atomic!Render
<1>6. Pages' = [Pages EXCEPT ![r] = Atomic!Render(metrics)]
    <2>1. \A q \in Readers : rpc'[q] = IF q = r THEN "idle" ELSE rpc[q]
        BY <1>1, <1>2
    <2> DEFINE P(q) == IF rpc[q] = "idle" THEN [i \in DOMAIN out[q] |-> Range(out[q][i])] ELSE <<>>
               Q(q) == IF rpc'[q] = "idle" THEN [i \in DOMAIN out[q] |-> Range(out[q][i])] ELSE <<>>
    <2>2. Pages = [q \in Readers |-> P(q)] /\ Pages' = [q \in Readers |-> Q(q)]
        BY <1>1 DEF Pages
    <2>3. \A q \in Readers : Q(q) = IF q = r THEN Atomic!Render(metrics) ELSE P(q)
        BY <1>5, <2>1
    <2> HIDE DEF P, Q
    <2> QED
        BY <2>2, <2>3
<1> QED
    BY <1>1, <1>6 DEF Atomic!Scrape, Pages

\* A step of WriteAll is a scrape of the atomic store when it returns, and
\* before that nothing happens there.
LEMMA ReaderRefines ==
    ASSUME IInv, NEW r \in Readers, CallWriteAll(r) \/ ReaderStep(r)
    PROVE  Atomic!Next \/ UNCHANGED <<metrics, Pages>>
<1>1. rpc \in [Readers -> {"idle", "writing"}] /\ out \in [Readers -> Seq(Seq(Blobs))]
    BY DEF IInv, TypeOK
<1>2. CASE CallWriteAll(r)
    <2>1. /\ rpc' = [rpc EXCEPT ![r] = "writing"] /\ out' = [out EXCEPT ![r] = <<>>]
          /\ metrics' = metrics
        BY <1>2 DEF CallWriteAll
    <2>2. \A q \in Readers : /\ rpc'[q] = IF q = r THEN "writing" ELSE rpc[q]
                             /\ q # r => out'[q] = out[q]
        BY <1>1, <2>1
    <2> DEFINE P(q) == IF rpc[q] = "idle" THEN [i \in DOMAIN out[q] |-> Range(out[q][i])] ELSE <<>>
               Q(q) == IF rpc'[q] = "idle" THEN [i \in DOMAIN out'[q] |-> Range(out'[q][i])] ELSE <<>>
    <2>3. Pages = [q \in Readers |-> P(q)] /\ Pages' = [q \in Readers |-> Q(q)]
        BY DEF Pages
    <2>4. \A q \in Readers : Q(q) = IF q = r THEN <<>> ELSE P(q)
        BY <2>2
    <2> HIDE DEF P, Q
    <2>5. Pages' = [Pages EXCEPT ![r] = <<>>]
        BY <2>3, <2>4
    <2>6. Atomic!Discard(r)
        BY <2>1, <2>5 DEF Atomic!Discard, Pages
    <2> QED
        BY <2>6 DEF Atomic!Next
<1>3. CASE WriteHeader(r) \/ \E u \in UIDs : WriteFamily(r, u)
    <2>1. /\ metrics' = metrics /\ rpc' = rpc /\ rpc[r] = "writing"
          /\ \A q \in Readers : q # r => out'[q] = out[q]
        BY <1>1, <1>3 DEF WriteHeader, WriteFamily, Writing
    <2>2. \A q \in Readers : rpc'[q] = rpc[q] /\ (rpc[q] = "idle" => out'[q] = out[q])
        BY <2>1
    <2> QED
        BY <2>1, <2>2, PagesUnchanged
<1>4. CASE ReturnFromWriteAll(r)
    BY <1>4, ReturnRefines DEF Atomic!Next
<1> QED
    BY <1>2, <1>3, <1>4 DEF ReaderStep

\* The store is atomic: to the reflector that fills it and the handler that reads
\* it, Add, Update, Delete and the emptying of Replace are single steps on the map
\* and WriteAll is one, at its return, although it writes section after section.
THEOREM StoreIsAtomic == Spec => ImplementsAtomicStore
<1>1. IInv /\ [Next]_vars => [Atomic!Next]_<<metrics, Pages>>
    <2> SUFFICES ASSUME IInv, [Next]_vars
                 PROVE  Atomic!Next \/ UNCHANGED <<metrics, Pages>>
        OBVIOUS
    <2>1. CASE UNCHANGED vars
        BY <2>1, PagesUnchanged DEF vars
    <2> QED
        BY <2>1, WriterRefines, ReaderRefines DEF Next
<1>2. [Atomic!Next]_<<metrics, Pages>> => [Atomic!Next]_(Atomic!vars)
    BY DEF Atomic!vars, Pages
<1> QED
    BY InitIInv, NextIInv, InitRefines, <1>1, <1>2, PTL DEF Spec, ImplementsAtomicStore, Atomic!Spec
=============================================================================
