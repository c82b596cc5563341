-------------------------- MODULE MetricsStoreProofs --------------------------
(***************************************************************************)
(* Proofs about MetricsStore, for every set of objects, writers, readers   *)
(* and every number of families: the types, and that WriteAll never serves *)
(* a torn page.                                                            *)
(***************************************************************************)
EXTENDS MetricsStore, TLAPS

\* A call in progress works on an item with metadata: the others made
\* meta.Accessor fail before the lock.
CallsInv ==
    \A w \in Writers : /\ op[w].pos > 0 => op[w].list[op[w].pos] \in Objects
                       /\ op[w].name = "Delete" => op[w].list[1] \in Objects

\* An entry was rendered from an object with the entry's UID.
EntriesInv ==
    \A u \in DOMAIN metrics : \E c \in Contents :
        metrics[u] = Families([uid |-> u, content |-> c])

\* A reader in WriteAll holds the lock or waits for it, and has written nothing
\* while it waits; outside a range over the map nothing is left to yield.
ReadersInv ==
    \A r \in Readers :
        /\ rpc[r] = "writing" <=> r \in mutex.readers \cup mutex.waiting
        /\ r \notin mutex.readers \cap mutex.waiting
        /\ r \in mutex.waiting => out[r] = <<>>
        /\ rpc[r] = "idle" \/ out[r] = <<>> => todo[r] = {}
        /\ Len(out[r]) <= NumFamilies

\* The inductive invariant.
IInv == TypeOK /\ CallsInv /\ EntriesInv /\ ReadersInv /\ PageNotTorn

-----------------------------------------------------------------------------
(* Facts about the operators.                                              *)

\* generateMetricsFunc yields one blob per header.
LEMMA FamiliesType ==
    ASSUME NEW o \in Objects
    PROVE  Families(o) \in [1..NumFamilies -> Blobs]
BY StoreAssumption DEF Families, Blobs, Objects

\* The entries, all rendered from objects, have one blob per header.
LEMMA EntriesTyped ==
    ASSUME EntriesInv, DOMAIN metrics \subseteq UIDs
    PROVE  \A u \in DOMAIN metrics : metrics[u] \in [1..NumFamilies -> Blobs]
<1> SUFFICES ASSUME NEW u \in DOMAIN metrics
             PROVE  metrics[u] \in [1..NumFamilies -> Blobs]
    OBVIOUS
<1>1. PICK c \in Contents : metrics[u] = Families([uid |-> u, content |-> c])
    BY DEF EntriesInv
<1>2. [uid |-> u, content |-> c] \in Objects
    BY DEF Objects
<1> QED
    BY <1>1, <1>2, FamiliesType

\* What Append does.
LEMMA AppendFacts ==
    ASSUME NEW S, NEW s \in Seq(S), NEW x \in S
    PROVE  /\ Append(s, x) \in Seq(S) /\ Len(Append(s, x)) = Len(s) + 1
           /\ Len(s) \in Nat
           /\ \A i \in 1..Len(s) : Append(s, x)[i] = s[i]
           /\ Append(s, x)[Len(s) + 1] = x
OBVIOUS

\* Writing a blob that is not yet there keeps the blobs of a section distinct.
LEMMA AppendInjective ==
    ASSUME NEW S, NEW s \in Seq(S), NEW x \in S, IsInjective(s), x \notin Range(s)
    PROVE  /\ IsInjective(Append(s, x))
           /\ Range(Append(s, x)) = Range(s) \cup {x}
<1>1. Append(s, x) \in Seq(S) /\ Len(Append(s, x)) = Len(s) + 1
    OBVIOUS
<1>2. \A i \in 1..Len(s) : Append(s, x)[i] = s[i]
    OBVIOUS
<1>3. Append(s, x)[Len(s) + 1] = x
    OBVIOUS
<1>4. DOMAIN s = 1..Len(s) /\ DOMAIN Append(s, x) = 1..Len(s) + 1 /\ Len(s) \in Nat
    BY <1>1
<1>5. IsInjective(Append(s, x))
    BY <1>2, <1>3, <1>4 DEF IsInjective, Range
<1>6. Range(Append(s, x)) = Range(s) \cup {x}
    BY <1>2, <1>3, <1>4 DEF Range
<1> QED
    BY <1>5, <1>6

\* Advancing to the next item of a list keeps a call's type.
LEMMA NextItemType ==
    ASSUME NEW Names, NEW Ls, NEW c \in [name : Names, list : Ls, pos : Nat]
    PROVE  [c EXCEPT !.pos = c.pos + 1] \in [name : Names, list : Ls, pos : Nat]
OBVIOUS

-----------------------------------------------------------------------------
(* Writers.                                                                *)

\* What the critical sections of Add, Delete and Replace have in common: no
\* reader holds the lock, so those in WriteAll have written nothing yet, and
\* Leave touches only the lock and the writer.
LEMMA CriticalSection ==
    ASSUME IInv, NEW w \in Writers, Entered(w), Leave(w),
           DOMAIN metrics' \subseteq UIDs, EntriesInv'
    PROVE  IInv'
<1> USE DEF IInv
<1>1. mutex.readers = {} /\ mutex \in RWMutexes(Writers, Readers)
    BY DEF Entered, Locked, TypeOK
<1>2. /\ mutex' = [writer |-> {}, readers |-> mutex.waiting, waiting |-> {}]
      /\ mutex' \in RWMutexes(Writers, Readers)
    BY <1>1 DEF Leave, Unlock, RWMutexes
<1>3. rpc' = rpc /\ out' = out /\ todo' = todo
    BY DEF Leave, readerVars
<1>4. /\ wpc' \in [Writers -> {"idle", "lock", "locked", "next"}]
      /\ op' \in [Writers -> [name : {"none", "Add", "Delete", "Replace"},
                              list : Seq(Objects \cup Malformed), pos : Nat]]
      /\ \A v \in Writers : op'[v].pos <= Len(op'[v].list)
      /\ CallsInv'
    <2>1. CASE op[w].name = "Replace"
        BY <2>1 DEF Leave, TypeOK, CallsInv
    <2>2. CASE op[w].name # "Replace"
        <3>1. /\ wpc' = [wpc EXCEPT ![w] = "idle"]
              /\ op' = [op EXCEPT ![w] = NoOp]
            BY <2>2 DEF Leave
        <3>2. NoOp \in [name : {"none", "Add", "Delete", "Replace"},
                        list : Seq(Objects \cup Malformed), pos : Nat]
              /\ NoOp.name = "none" /\ NoOp.pos = 0 /\ Len(NoOp.list) = 0
            BY DEF NoOp
        <3>3. \A v \in Writers : op'[v] = IF v = w THEN NoOp ELSE op[v]
            BY <3>1 DEF TypeOK
        <3> QED
            BY <3>1, <3>2, <3>3 DEF TypeOK, CallsInv
    <2> QED
        BY <2>1, <2>2
<1>5. TypeOK'
    <2>1. \A u \in DOMAIN metrics' : metrics'[u] \in [1..NumFamilies -> Blobs]
        BY EntriesTyped, FamiliesType DEF EntriesInv, Objects
    <2> QED
        BY <1>2, <1>3, <1>4, <2>1 DEF TypeOK
<1>6. ReadersInv'
    BY <1>1, <1>2, <1>3 DEF ReadersInv
<1>7. PageNotTorn'
    <2>1. \A r \in Readers : rpc'[r] = "writing" => out'[r] = <<>>
        BY <1>1, <1>3 DEF ReadersInv
    <2> QED
        BY <2>1 DEF PageNotTorn
<1> QED
    BY <1>4, <1>5, <1>6, <1>7

\* Steps of a writer outside the critical sections leave the store, the readers
\* and their locks alone.
LEMMA WriterOutside ==
    ASSUME IInv, NEW w \in Writers,
           wpc' \in [Writers -> {"idle", "lock", "locked", "next"}],
           op' \in [Writers -> [name : {"none", "Add", "Delete", "Replace"},
                                list : Seq(Objects \cup Malformed), pos : Nat]],
           \A v \in Writers : op'[v].pos <= Len(op'[v].list),
           CallsInv',
           mutex' \in RWMutexes(Writers, Readers),
           mutex'.readers = mutex.readers, mutex'.waiting = mutex.waiting,
           UNCHANGED <<metrics, rpc, out, todo>>
    PROVE  IInv'
<1>1. TypeOK'
    BY DEF IInv, TypeOK
<1>2. EntriesInv'
    BY DEF IInv, EntriesInv
<1>3. ReadersInv'
    BY DEF IInv, ReadersInv
<1>4. PageNotTorn'
    <2>1. PageNotTorn /\ metrics' = metrics /\ rpc' = rpc /\ out' = out /\ todo' = todo
        BY DEF IInv
    <2>2. \A r \in Readers : \A j \in 1..Len(out[r]) : Due(r, j)' = Due(r, j)
        BY <2>1 DEF Due
    <2> QED
        BY <2>1, <2>2 DEF PageNotTorn
<1> QED
    BY <1>1, <1>2, <1>3, <1>4 DEF IInv

\* The steps of Add, Update, Delete and Replace: the lock, the critical sections,
\* the early returns.
LEMMA WriterSteps ==
    ASSUME IInv, NEW w \in Writers, WriterStep(w)
    PROVE  IInv'
<1>1. CASE LockMutex(w)
    <2>1. mutex' \in RWMutexes(Writers, Readers)
          /\ mutex'.readers = mutex.readers /\ mutex'.waiting = mutex.waiting
        BY <1>1 DEF IInv, TypeOK, LockMutex, Lock, RWMutexes
    <2> QED
        BY <1>1, <2>1, WriterOutside DEF LockMutex, readerVars, IInv, TypeOK, CallsInv
<1>2. CASE Store(w)
    <2>1. op[w].list[op[w].pos] \in Objects
        BY <1>2 DEF Store, IInv, TypeOK, CallsInv
    <2> DEFINE o == op[w].list[op[w].pos]
    <2>2. o.uid \in UIDs /\ o.content \in Contents /\ o = [uid |-> o.uid, content |-> o.content]
        BY <2>1 DEF Objects
    <2>3. metrics' = [u \in DOMAIN metrics \cup {o.uid} |->
                        IF u = o.uid THEN Families(o) ELSE metrics[u]]
        BY <1>2 DEF Store, Put
    <2> HIDE DEF o
    <2>4. DOMAIN metrics' \subseteq UIDs
        BY <2>2, <2>3 DEF IInv, TypeOK
    <2>5. EntriesInv'
        BY <2>2, <2>3 DEF IInv, EntriesInv
    <2> QED
        BY <1>2, <2>4, <2>5, CriticalSection DEF Store
<1>3. CASE Erase(w)
    <2>1. metrics' = [u \in DOMAIN metrics \ {op[w].list[1].uid} |-> metrics[u]]
        BY <1>3 DEF Erase, Restrict
    <2>2. DOMAIN metrics' \subseteq UIDs /\ EntriesInv'
        BY <2>1 DEF IInv, TypeOK, EntriesInv
    <2> QED
        BY <1>3, <2>2, CriticalSection DEF Erase
<1>4. CASE Clear(w)
    <2>1. DOMAIN metrics' \subseteq UIDs /\ EntriesInv'
        BY <1>4 DEF Clear, EmptyMap, EntriesInv
    <2> QED
        BY <1>4, <2>1, CriticalSection DEF Clear
<1>5. CASE ReplaceNext(w)
    <2>1. op[w].list \in Seq(Objects \cup Malformed) /\ op[w].pos \in Nat
        BY DEF IInv, TypeOK
    <2>2. op' = [op EXCEPT ![w] = [op[w] EXCEPT !.pos = op[w].pos + 1]]
        BY <1>5 DEF ReplaceNext
    <2>3. \A v \in Writers :
             /\ op'[v].list = op[v].list /\ op'[v].name = op[v].name
             /\ op'[v].pos = IF v = w THEN op[v].pos + 1 ELSE op[v].pos
        BY <2>2 DEF IInv, TypeOK
    <2>4. op' \in [Writers -> [name : {"none", "Add", "Delete", "Replace"},
                               list : Seq(Objects \cup Malformed), pos : Nat]]
        <3>1. [op[w] EXCEPT !.pos = op[w].pos + 1] \in
                [name : {"none", "Add", "Delete", "Replace"},
                 list : Seq(Objects \cup Malformed), pos : Nat]
            <4>1. op[w] \in [name : {"none", "Add", "Delete", "Replace"},
                             list : Seq(Objects \cup Malformed), pos : Nat]
                BY DEF IInv, TypeOK
            <4> QED
                BY <4>1, NextItemType
        <3> QED
            BY <2>2, <3>1 DEF IInv, TypeOK
    <2>5. CallsInv' /\ \A v \in Writers : op'[v].pos <= Len(op'[v].list)
        BY <1>5, <2>1, <2>3 DEF IInv, TypeOK, CallsInv, ReplaceNext
    <2>6. wpc' \in [Writers -> {"idle", "lock", "locked", "next"}]
        BY <1>5 DEF IInv, TypeOK, ReplaceNext
    <2> QED
        BY <1>5, <2>4, <2>5, <2>6, WriterOutside DEF ReplaceNext, readerVars, IInv, TypeOK
<1>6. CASE ReplaceReturn(w)
    <2>1. NoOp \in [name : {"none", "Add", "Delete", "Replace"},
                    list : Seq(Objects \cup Malformed), pos : Nat]
          /\ NoOp.name = "none" /\ NoOp.pos = 0 /\ Len(NoOp.list) = 0
        BY DEF NoOp
    <2>2. op' = [op EXCEPT ![w] = NoOp] /\ wpc' = [wpc EXCEPT ![w] = "idle"]
        BY <1>6 DEF ReplaceReturn
    <2>3. \A v \in Writers : op'[v] = IF v = w THEN NoOp ELSE op[v]
        BY <2>2 DEF IInv, TypeOK
    <2>4. CallsInv' /\ \A v \in Writers : op'[v].pos <= Len(op'[v].list)
        <3>1. CallsInv /\ \A v \in Writers : op[v].pos <= Len(op[v].list)
            BY DEF IInv, TypeOK
        <3>2. \A v \in Writers : op'[v].pos <= Len(op'[v].list)
            BY <2>1, <2>3, <3>1
        <3>3. CallsInv'
            BY <2>1, <2>3, <3>1 DEF CallsInv
        <3> QED
            BY <3>2, <3>3
    <2>5. op' \in [Writers -> [name : {"none", "Add", "Delete", "Replace"},
                               list : Seq(Objects \cup Malformed), pos : Nat]]
          /\ wpc' \in [Writers -> {"idle", "lock", "locked", "next"}]
        BY <2>1, <2>2 DEF IInv, TypeOK
    <2> QED
        BY <1>6, <2>4, <2>5, WriterOutside DEF ReplaceReturn, readerVars, IInv, TypeOK
<1> QED
    BY <1>1, <1>2, <1>3, <1>4, <1>5, <1>6 DEF WriterStep

\* A writer calls Add, Delete or Replace.
LEMMA WriterCalls ==
    ASSUME IInv, NEW w \in Writers,
           \/ \E o \in Objects, name \in {"Add", "Delete"} : CallOne(w, name, o)
           \/ \E list \in Lists : CallReplace(w, list)
    PROVE  IInv'
<1> DEFINE Begins(c) ==
               /\ c \in [name : {"none", "Add", "Delete", "Replace"},
                         list : Seq(Objects \cup Malformed), pos : Nat]
               /\ c.pos <= Len(c.list)
               /\ c.pos > 0 => c.list[c.pos] \in Objects
               /\ c.name = "Delete" => c.list[1] \in Objects
               /\ op' = [op EXCEPT ![w] = c]
               /\ wpc' = [wpc EXCEPT ![w] = "lock"]
               /\ UNCHANGED <<mutex, metrics, readerVars>>
<1>1. \E c : Begins(c)
    <2>1. ASSUME NEW o \in Objects, NEW name \in {"Add", "Delete"}, CallOne(w, name, o)
          PROVE  \E c : Begins(c)
        <3> DEFINE call == [name |-> name, list |-> <<o>>, pos |-> 1]
        <3>1. call \in [name : {"none", "Add", "Delete", "Replace"},
                     list : Seq(Objects \cup Malformed), pos : Nat]
              /\ call.pos <= Len(call.list) /\ call.list[call.pos] \in Objects /\ call.list[1] \in Objects
            OBVIOUS
        <3> QED
            <4>1. Begins(call)
                BY <2>1, <3>1 DEF CallOne
            <4> QED
                BY <4>1
    <2>2. ASSUME NEW list \in Lists, CallReplace(w, list)
          PROVE  \E c : Begins(c)
        <3> DEFINE call == [name |-> "Replace", list |-> list, pos |-> 0]
        <3>1. PICK n \in 0..MaxList : list \in [1..n -> Objects \cup Malformed]
            BY DEF Lists
        <3>2. list \in Seq(Objects \cup Malformed)
            BY <3>1, StoreAssumption
        <3>3. call \in [name : {"none", "Add", "Delete", "Replace"},
                     list : Seq(Objects \cup Malformed), pos : Nat]
              /\ call.pos <= Len(call.list) /\ call.pos = 0 /\ call.name = "Replace"
            BY <3>2
        <3> QED
            <4>1. Begins(call)
                BY <2>2, <3>3 DEF CallReplace
            <4> QED
                BY <4>1
    <2> QED
        BY <2>1, <2>2
<1>c. PICK c : Begins(c)
    BY <1>1
<1>2. \A v \in Writers : op'[v] = IF v = w THEN c ELSE op[v]
    BY <1>c DEF IInv, TypeOK
<1>3. CallsInv' /\ \A v \in Writers : op'[v].pos <= Len(op'[v].list)
    BY <1>c, <1>2 DEF IInv, TypeOK, CallsInv
<1>4. op' \in [Writers -> [name : {"none", "Add", "Delete", "Replace"},
                           list : Seq(Objects \cup Malformed), pos : Nat]]
      /\ wpc' \in [Writers -> {"idle", "lock", "locked", "next"}]
    BY <1>c DEF IInv, TypeOK
<1> QED
    BY <1>c, <1>3, <1>4, WriterOutside DEF readerVars, IInv, TypeOK

-----------------------------------------------------------------------------
(* Readers.  Their steps leave the store and the writers alone.            *)

\* A step of WriteAll that changes neither the map nor a writer.
LEMMA ReaderOutside ==
    ASSUME IInv,
           UNCHANGED <<metrics, writerVars>>,
           mutex' \in RWMutexes(Writers, Readers),
           rpc' \in [Readers -> {"idle", "writing"}],
           out' \in [Readers -> Seq(Seq(Blobs))],
           todo' \in [Readers -> SUBSET UIDs],
           ReadersInv', PageNotTorn'
    PROVE  IInv'
<1>1. TypeOK'
    BY DEF IInv, TypeOK, writerVars
<1>2. CallsInv' /\ EntriesInv'
    BY DEF IInv, CallsInv, EntriesInv, writerVars
<1> QED
    BY <1>1, <1>2 DEF IInv

\* WriteAll is called and asks for the read lock.
LEMMA CallWriteAllStep ==
    ASSUME IInv, NEW r \in Readers, CallWriteAll(r)
    PROVE  IInv'
<1>1. mutex \in RWMutexes(Writers, Readers) /\ ReadersInv /\ PageNotTorn
    BY DEF IInv, TypeOK
<1>2. /\ rpc \in [Readers -> {"idle", "writing"}]
      /\ out \in [Readers -> Seq(Seq(Blobs))] /\ todo \in [Readers -> SUBSET UIDs]
    BY DEF IInv, TypeOK
<1>3. /\ rpc[r] = "idle" /\ rpc' = [rpc EXCEPT ![r] = "writing"]
      /\ out' = [out EXCEPT ![r] = <<>>]
      /\ UNCHANGED <<metrics, todo, writerVars>>
      /\ mutex' = RLock(mutex, r)
    BY DEF CallWriteAll
<1>4. /\ mutex' \in RWMutexes(Writers, Readers)
      /\ \/ mutex'.readers = mutex.readers \cup {r} /\ mutex'.waiting = mutex.waiting
         \/ mutex'.readers = mutex.readers /\ mutex'.waiting = mutex.waiting \cup {r}
    BY <1>1, <1>3 DEF RLock, RWMutexes
<1>5. /\ rpc' \in [Readers -> {"idle", "writing"}]
      /\ out' \in [Readers -> Seq(Seq(Blobs))]
      /\ todo' \in [Readers -> SUBSET UIDs]
    BY <1>2, <1>3
<1>6. ReadersInv'
    <2>1. Len(<<>>) = 0
        OBVIOUS
    <2> QED
        BY <1>1, <1>2, <1>3, <1>4, <2>1, StoreAssumption DEF ReadersInv
<1>7. PageNotTorn'
    <2> SUFFICES ASSUME NEW q \in Readers, (rpc[q] = "writing")', NEW j \in 1..Len(out'[q])
                 PROVE  Range(out'[q][j]) = Due(q, j)' /\ IsInjective(out'[q][j])
        BY DEF PageNotTorn
    <2>1. q # r
        BY <1>2, <1>3
    <2>2. out'[q] = out[q] /\ rpc[q] = "writing" /\ Due(q, j)' = Due(q, j)
        BY <1>2, <1>3, <2>1 DEF Due
    <2> QED
        BY <1>1, <2>2 DEF PageNotTorn
<1> QED
    BY <1>3, <1>4, <1>5, <1>6, <1>7, ReaderOutside

\* WriteAll returns after the last section and releases the lock.
LEMMA ReturnStep ==
    ASSUME IInv, NEW r \in Readers, ReturnFromWriteAll(r)
    PROVE  IInv'
<1>1. mutex \in RWMutexes(Writers, Readers) /\ ReadersInv /\ PageNotTorn
    BY DEF IInv, TypeOK
<1>2. /\ rpc \in [Readers -> {"idle", "writing"}]
      /\ out \in [Readers -> Seq(Seq(Blobs))] /\ todo \in [Readers -> SUBSET UIDs]
    BY DEF IInv, TypeOK
<1>3. /\ rpc' = [rpc EXCEPT ![r] = "idle"] /\ todo' = [todo EXCEPT ![r] = {}]
      /\ UNCHANGED <<metrics, out, writerVars>>
      /\ mutex' = RUnlock(mutex, r) /\ r \in mutex.readers
    BY DEF ReturnFromWriteAll, Writing, RLocked
<1>4. /\ mutex' \in RWMutexes(Writers, Readers)
      /\ mutex'.readers = mutex.readers \ {r} /\ mutex'.waiting = mutex.waiting
    BY <1>1, <1>3 DEF RUnlock, RWMutexes
<1>5. /\ rpc' \in [Readers -> {"idle", "writing"}]
      /\ out' \in [Readers -> Seq(Seq(Blobs))]
      /\ todo' \in [Readers -> SUBSET UIDs]
    BY <1>2, <1>3
<1>6. ReadersInv'
    BY <1>1, <1>2, <1>3, <1>4 DEF ReadersInv
<1>7. PageNotTorn'
    <2> SUFFICES ASSUME NEW q \in Readers, (rpc[q] = "writing")', NEW j \in 1..Len(out'[q])
                 PROVE  Range(out'[q][j]) = Due(q, j)' /\ IsInjective(out'[q][j])
        BY DEF PageNotTorn
    <2>1. q # r
        BY <1>2, <1>3
    <2>2. out'[q] = out[q] /\ rpc[q] = "writing" /\ Due(q, j)' = Due(q, j)
        BY <1>2, <1>3, <2>1 DEF Due
    <2> QED
        BY <1>1, <2>2 DEF PageNotTorn
<1> QED
    BY <1>3, <1>4, <1>5, <1>6, <1>7, ReaderOutside

\* A header is written when the range over the map for the one before is over:
\* the section above is complete and the new one empty.
LEMMA WriteHeaderStep ==
    ASSUME IInv, NEW r \in Readers, WriteHeader(r)
    PROVE  IInv'
<1>1. mutex \in RWMutexes(Writers, Readers) /\ ReadersInv /\ PageNotTorn
    BY DEF IInv, TypeOK
<1>2. /\ rpc \in [Readers -> {"idle", "writing"}]
      /\ out \in [Readers -> Seq(Seq(Blobs))] /\ todo \in [Readers -> SUBSET UIDs]
      /\ DOMAIN metrics \subseteq UIDs
    BY DEF IInv, TypeOK
<1>3. /\ rpc[r] = "writing" /\ r \in mutex.readers
      /\ todo[r] \cap DOMAIN metrics = {} /\ Len(out[r]) < NumFamilies
      /\ out' = [out EXCEPT ![r] = Append(out[r], <<>>)]
      /\ todo' = [todo EXCEPT ![r] = DOMAIN metrics]
      /\ UNCHANGED <<mutex, metrics, rpc, writerVars>>
    BY DEF WriteHeader, Writing, RLocked, Unyielded
<1> DEFINE n == Len(out[r])
<1>4. /\ out'[r] \in Seq(Seq(Blobs)) /\ Len(out'[r]) = n + 1 /\ out'[r] # <<>>
      /\ n \in Nat
      /\ \A j \in 1..n : out'[r][j] = out[r][j]
      /\ out'[r][n + 1] = <<>>
      /\ \A q \in Readers \ {r} : out'[q] = out[q] /\ todo'[q] = todo[q]
      /\ todo'[r] = DOMAIN metrics
    <2>1. out[r] \in Seq(Seq(Blobs)) /\ <<>> \in Seq(Blobs)
        BY <1>2
    <2> DEFINE app == Append(out[r], <<>>)
    <2>2. /\ out'[r] = app
          /\ \A q \in Readers \ {r} : out'[q] = out[q] /\ todo'[q] = todo[q]
          /\ todo'[r] = DOMAIN metrics
        BY <1>2, <1>3
    <2>3. /\ app \in Seq(Seq(Blobs)) /\ Len(app) = n + 1
          /\ n \in Nat
          /\ \A j \in 1..n : app[j] = out[r][j]
          /\ app[n + 1] = <<>>
        BY <2>1, AppendFacts
    <2> HIDE DEF n, app
    <2>4. app # <<>>
        <3>1. Len(app) # 0
            BY <2>3
        <3>2. Len(<<>>) = 0
            OBVIOUS
        <3> QED
            BY <3>1, <3>2
    <2> QED
        BY <2>2, <2>3, <2>4
<1>5. /\ mutex' \in RWMutexes(Writers, Readers)
      /\ rpc' \in [Readers -> {"idle", "writing"}]
      /\ out' \in [Readers -> Seq(Seq(Blobs))]
      /\ todo' \in [Readers -> SUBSET UIDs]
    BY <1>1, <1>2, <1>3, <1>4
<1>6. ReadersInv'
    BY <1>1, <1>2, <1>3, <1>4, StoreAssumption DEF ReadersInv
<1>7. PageNotTorn'
    <2> SUFFICES ASSUME NEW q \in Readers, (rpc[q] = "writing")', NEW j \in 1..Len(out'[q])
                 PROVE  Range(out'[q][j]) = Due(q, j)' /\ IsInjective(out'[q][j])
        BY DEF PageNotTorn
    <2>0. rpc[q] = "writing"
        BY <1>3
    <2>1. CASE q # r
        <3>1. out'[q] = out[q] /\ Due(q, j)' = Due(q, j)
            BY <1>3, <1>4, <2>1 DEF Due
        <3> QED
            BY <1>1, <2>0, <3>1 DEF PageNotTorn
    <2>2. CASE q = r /\ j \in 1..n
        <3>1. Due(r, j) = {metrics[u][j] : u \in DOMAIN metrics}
            <4>1. DOMAIN metrics \ (IF j = n THEN todo[r] ELSE {}) = DOMAIN metrics
                BY <1>3
            <4> QED
                BY <4>1 DEF Due
        <3>2. Due(r, j)' = {metrics[u][j] : u \in DOMAIN metrics}
            BY <1>3, <1>4, <2>2 DEF Due
        <3>3. out'[r][j] = out[r][j]
            BY <1>4, <2>2
        <3> QED
            BY <1>1, <2>0, <2>2, <3>1, <3>2, <3>3 DEF PageNotTorn
    <2>3. CASE q = r /\ j = n + 1
        <3>1. Due(r, j)' = {}
            BY <1>3, <1>4, <2>3 DEF Due
        <3>2. Range(<<>>) = {} /\ IsInjective(<<>>)
            BY DEF Range, IsInjective
        <3> QED
            BY <1>4, <2>3, <3>1, <3>2
    <2>4. q # r \/ (q = r /\ j \in 1..n) \/ (q = r /\ j = n + 1)
        <3>1. q = r => j \in 1..(n + 1)
            BY <1>4
        <3> HIDE DEF n
        <3> QED
            BY <1>4, <3>1
    <2> QED
        BY <2>1, <2>2, <2>3, <2>4
<1> QED
    BY <1>3, <1>5, <1>6, <1>7, ReaderOutside

\* A blob goes under the last header, once: it carries the UID of its object,
\* which the range over the map has not yielded before.
LEMMA WriteFamilyStep ==
    ASSUME IInv, NEW r \in Readers, NEW u \in UIDs, WriteFamily(r, u)
    PROVE  IInv'
<1>1. mutex \in RWMutexes(Writers, Readers) /\ ReadersInv /\ PageNotTorn /\ EntriesInv
    BY DEF IInv, TypeOK
<1>2. /\ rpc \in [Readers -> {"idle", "writing"}]
      /\ out \in [Readers -> Seq(Seq(Blobs))] /\ todo \in [Readers -> SUBSET UIDs]
      /\ DOMAIN metrics \subseteq UIDs
      /\ \A x \in DOMAIN metrics : metrics[x] \in [1..NumFamilies -> Blobs]
    BY DEF IInv, TypeOK
<1> DEFINE n == Len(out[r])
<1> DEFINE s == out[r][n]
<1> DEFINE blob == metrics[u][n]
<1>3. /\ rpc[r] = "writing" /\ r \in mutex.readers
      /\ u \in todo[r] /\ u \in DOMAIN metrics
      /\ out' = [out EXCEPT ![r] = [out[r] EXCEPT ![n] = Append(s, blob)]]
      /\ todo' = [todo EXCEPT ![r] = todo[r] \ {u}]
      /\ UNCHANGED <<mutex, metrics, rpc, writerVars>>
    BY DEF WriteFamily, Writing, RLocked, Unyielded
<1>4. n \in 1..NumFamilies
    <2>1. out[r] # <<>> /\ Len(out[r]) <= NumFamilies
        BY <1>1, <1>3 DEF ReadersInv
    <2>2. out[r] \in Seq(Seq(Blobs))
        BY <1>2
    <2> QED
        BY <2>1, <2>2, StoreAssumption
<1>5. s \in Seq(Blobs) /\ blob \in Blobs /\ out[r] \in Seq(Seq(Blobs))
    <2>1. out[r] \in Seq(Seq(Blobs)) /\ n \in 1..Len(out[r])
        BY <1>2, <1>4
    <2>2. s \in Seq(Blobs)
        BY <2>1
    <2>3. metrics[u] \in [1..NumFamilies -> Blobs]
        BY <1>2, <1>3
    <2> QED
        BY <1>4, <2>1, <2>2, <2>3
<1>6. \A x \in DOMAIN metrics : metrics[x][n][2] = x
    <2> SUFFICES ASSUME NEW x \in DOMAIN metrics PROVE metrics[x][n][2] = x
        OBVIOUS
    <2>1. PICK c \in Contents : metrics[x] = Families([uid |-> x, content |-> c])
        BY <1>1 DEF EntriesInv
    <2> QED
        BY <1>4, <2>1 DEF Families
<1>7. Range(s) = {metrics[x][n] : x \in DOMAIN metrics \ todo[r]} /\ IsInjective(s)
    <2>1. n \in 1..Len(out[r])
        BY <1>4
    <2>2. Range(s) = Due(r, n) /\ IsInjective(s)
        BY <1>1, <1>3, <2>1 DEF PageNotTorn
    <2>3. Due(r, n) = {metrics[x][n] : x \in DOMAIN metrics \ todo[r]}
        BY DEF Due
    <2> QED
        BY <2>2, <2>3
<1>8. blob \notin Range(s)
    BY <1>3, <1>6, <1>7
<1>9. /\ IsInjective(Append(s, blob))
      /\ Range(Append(s, blob)) = Range(s) \cup {blob}
      /\ Append(s, blob) \in Seq(Blobs)
    <2> HIDE DEF s, blob
    <2>1. Append(s, blob) \in Seq(Blobs)
        BY <1>5, AppendFacts
    <2> QED
        BY <1>5, <1>7, <1>8, <2>1, AppendInjective
<1>10. /\ out'[r] \in Seq(Seq(Blobs)) /\ Len(out'[r]) = n /\ out'[r] # <<>>
       /\ out'[r][n] = Append(s, blob)
       /\ \A j \in 1..n : j # n => out'[r][j] = out[r][j]
       /\ \A q \in Readers \ {r} : out'[q] = out[q] /\ todo'[q] = todo[q]
       /\ todo'[r] = todo[r] \ {u}
    <2>1. out'[r] = [out[r] EXCEPT ![n] = Append(s, blob)]
        BY <1>2, <1>3
    <2> HIDE DEF s, blob
    <2> QED
        BY <1>2, <1>3, <1>4, <1>5, <1>9, <2>1, SMTT(30)
<1> HIDE DEF s, blob
<1>11. /\ mutex' \in RWMutexes(Writers, Readers)
       /\ rpc' \in [Readers -> {"idle", "writing"}]
       /\ out' \in [Readers -> Seq(Seq(Blobs))]
       /\ todo' \in [Readers -> SUBSET UIDs]
    BY <1>1, <1>2, <1>3, <1>10
<1>12. ReadersInv'
    BY <1>1, <1>2, <1>3, <1>10 DEF ReadersInv
<1>13. PageNotTorn'
    <2> SUFFICES ASSUME NEW q \in Readers, (rpc[q] = "writing")', NEW j \in 1..Len(out'[q])
                 PROVE  Range(out'[q][j]) = Due(q, j)' /\ IsInjective(out'[q][j])
        BY DEF PageNotTorn
    <2>0. rpc[q] = "writing"
        BY <1>3
    <2>1. CASE q # r
        <3>1. out'[q] = out[q] /\ Due(q, j)' = Due(q, j)
            BY <1>3, <1>10, <2>1 DEF Due
        <3> QED
            BY <1>1, <2>0, <3>1 DEF PageNotTorn
    <2>2. CASE q = r /\ j # n
        <3>1. j \in 1..n /\ out'[r][j] = out[r][j]
            BY <1>10, <2>2
        <3>2. Due(r, j)' = Due(r, j)
            BY <1>3, <1>10, <2>2 DEF Due
        <3> QED
            BY <1>1, <2>0, <2>2, <3>1, <3>2 DEF PageNotTorn
    <2>3. CASE q = r /\ j = n
        <3>1. Due(r, n)' = {metrics[x][n] : x \in DOMAIN metrics \ (todo[r] \ {u})}
            BY <1>3, <1>10 DEF Due
        <3>2. DOMAIN metrics \ (todo[r] \ {u}) = (DOMAIN metrics \ todo[r]) \cup {u}
            BY <1>3
        <3>3. Due(r, n)' = Range(s) \cup {blob}
            BY <1>7, <3>1, <3>2 DEF blob
        <3> QED
            BY <1>9, <1>10, <2>3, <3>3
    <2> QED
        BY <2>1, <2>2, <2>3
<1> QED
    BY <1>3, <1>11, <1>12, <1>13, ReaderOutside

-----------------------------------------------------------------------------
(* The theorems.                                                           *)

\* A new store is empty and nobody uses it.
LEMMA InitIInv == Init => IInv
<1> SUFFICES ASSUME Init PROVE IInv
    OBVIOUS
<1>1. TypeOK
    BY DEF Init, TypeOK, Unlocked, RWMutexes, EmptyMap, NoOp
<1>2. CallsInv /\ EntriesInv
    BY DEF Init, CallsInv, EntriesInv, NoOp, EmptyMap
<1>3. ReadersInv
    BY StoreAssumption DEF Init, ReadersInv, Unlocked
<1>4. PageNotTorn
    BY DEF Init, PageNotTorn
<1> QED
    BY <1>1, <1>2, <1>3, <1>4 DEF IInv

\* Every step of a writer and of a reader keeps the invariant.
LEMMA NextIInv == IInv /\ [Next]_vars => IInv'
<1> SUFFICES ASSUME IInv, [Next]_vars PROVE IInv'
    OBVIOUS
<1>1. ASSUME NEW w \in Writers,
             \/ \E o \in Objects, name \in {"Add", "Delete"} : CallOne(w, name, o)
             \/ \E list \in Lists : CallReplace(w, list)
      PROVE  IInv'
    BY <1>1, WriterCalls
<1>2. ASSUME NEW w \in Writers, WriterStep(w) PROVE IInv'
    BY <1>2, WriterSteps
<1>3. ASSUME NEW r \in Readers, CallWriteAll(r) PROVE IInv'
    BY <1>3, CallWriteAllStep
<1>4. ASSUME NEW r \in Readers, ReaderStep(r) PROVE IInv'
    BY <1>4, WriteHeaderStep, WriteFamilyStep, ReturnStep DEF ReaderStep
<1>5. CASE UNCHANGED vars
    <2>1. /\ UNCHANGED <<metrics, rpc, out, todo, writerVars>> /\ mutex' = mutex
          /\ TypeOK /\ ReadersInv /\ PageNotTorn
        BY <1>5 DEF vars, writerVars, IInv
    <2>2. ReadersInv'
        BY <2>1 DEF ReadersInv
    <2>3. \A r \in Readers : \A j \in 1..Len(out[r]) : Due(r, j)' = Due(r, j)
        BY <2>1 DEF Due
    <2>4. PageNotTorn'
        BY <2>1, <2>3 DEF PageNotTorn
    <2> QED
        BY <2>1, <2>2, <2>4, ReaderOutside DEF TypeOK
<1> QED
    BY <1>1, <1>2, <1>3, <1>4, <1>5 DEF Next

\* In every behaviour of the store the variables have their types: every entry
\* has one blob per header, so WriteAll's metricFamilies[i] is in range, and every
\* item that reaches a critical section has metadata.
THEOREM StoreTyped == Spec => []TypeOK
<1>1. IInv => TypeOK
    BY DEF IInv
<1> QED
    BY InitIInv, NextIInv, <1>1, PTL DEF Spec

\* WriteAll never serves a torn page, for any number of objects, families, writers
\* and readers: the read lock it holds for the whole response is what it takes.
THEOREM NoTornPage == Spec => []PageNotTorn
<1>1. IInv => PageNotTorn
    BY DEF IInv
<1> QED
    BY InitIInv, NextIInv, <1>1, PTL DEF Spec

-----------------------------------------------------------------------------
(* Replace.                                                                *)

\* Adding the next item of the list to a store that holds the items before it.
LEMMA PutHoldsPrefix ==
    ASSUME NEW m, NEW list, NEW n \in Nat, HoldsPrefix(m, list, n)
    PROVE  HoldsPrefix(Put(m, list[n + 1]), list, n + 1)
<1> DEFINE o == list[n + 1]
           p == Put(m, o)
<1>1. /\ DOMAIN p = DOMAIN m \cup {o.uid}
      /\ \A u \in DOMAIN p : p[u] = IF u = o.uid THEN Families(o) ELSE m[u]
    BY DEF Put
<1>2. 1..(n + 1) = 1..n \cup {n + 1}
    OBVIOUS
<1>3. DOMAIN p = {list[i].uid : i \in 1..(n + 1)}
    BY <1>1, <1>2 DEF HoldsPrefix
<1> HIDE DEF p
<1>4. ASSUME NEW i \in 1..(n + 1), \A j \in (i+1)..(n+1) : list[j].uid # list[i].uid
      PROVE  p[list[i].uid] = Families(list[i])
    <2>1. list[i].uid \in DOMAIN p
        BY <1>3
    <2>2. CASE i = n + 1
        BY <1>1, <2>1, <2>2
    <2>3. CASE i # n + 1
        <3>1. i \in 1..n /\ n + 1 \in (i+1)..(n+1) /\ (i+1)..n \subseteq (i+1)..(n+1)
            BY <2>3
        <3>2. list[i].uid # o.uid
            BY <1>4, <3>1
        <3>3. m[list[i].uid] = Families(list[i])
            BY <1>4, <3>1 DEF HoldsPrefix
        <3> QED
            BY <1>1, <2>1, <3>2, <3>3
    <2> QED
        BY <2>2, <2>3
<1>5. HoldsPrefix(p, list, n + 1)
    BY <1>3, <1>4 DEF HoldsPrefix
<1> QED
    BY <1>5 DEF p

\* Between two critical sections of Replace nothing else changes the map.
LEMMA NextShowsPrefix == IInv /\ ReplaceShowsPrefix /\ [Next]_vars => ReplaceShowsPrefix'
<1> SUFFICES ASSUME IInv, ReplaceShowsPrefix, [Next]_vars, NEW w \in Writers, Writers = {w},
                    op'[w].name = "Replace", op'[w].pos > 0 \/ wpc'[w] = "next"
             PROVE  HoldsPrefix(metrics', op'[w].list, Restored(w)')
    BY DEF ReplaceShowsPrefix
<1>1. /\ wpc \in [Writers -> {"idle", "lock", "locked", "next"}]
      /\ op \in [Writers -> [name : {"none", "Add", "Delete", "Replace"},
                             list : Seq(Objects \cup Malformed), pos : Nat]]
    BY DEF IInv, TypeOK
<1>2. op[w].name = "Replace" /\ (op[w].pos > 0 \/ wpc[w] = "next")
        => HoldsPrefix(metrics, op[w].list, Restored(w))
    BY DEF ReplaceShowsPrefix
<1>3. ASSUME NEW o \in Objects, NEW name \in {"Add", "Delete"}, CallOne(w, name, o)
      PROVE  FALSE
    BY <1>1, <1>3 DEF CallOne
<1>4. ASSUME NEW list \in Lists, CallReplace(w, list) PROVE FALSE
    BY <1>1, <1>4 DEF CallReplace
<1>5. CASE LockMutex(w)
    BY <1>1, <1>2, <1>5 DEF LockMutex, Restored
<1>6. CASE Store(w)
    <2>1. /\ wpc[w] = "locked" /\ op[w].pos \in Nat /\ op[w].pos > 0
          /\ metrics' = Put(metrics, op[w].list[op[w].pos])
        BY <1>1, <1>6 DEF Store, Entered
    <2>2. op[w].name = "Replace" /\ wpc'[w] = "next" /\ op' = op
        BY <1>1, <1>6 DEF Store, Leave, NoOp
    <2>3. HoldsPrefix(metrics, op[w].list, op[w].pos - 1)
        BY <1>2, <2>1, <2>2 DEF Restored
    <2>4. op[w].pos - 1 \in Nat /\ (op[w].pos - 1) + 1 = op[w].pos
        BY <2>1
    <2>5. HoldsPrefix(Put(metrics, op[w].list[op[w].pos]), op[w].list, op[w].pos)
        BY <2>3, <2>4, PutHoldsPrefix
    <2> QED
        BY <2>1, <2>2, <2>5 DEF Restored
<1>7. CASE Erase(w)
    BY <1>1, <1>7, SMTT(30) DEF Erase, Leave, NoOp
<1>8. CASE Clear(w)
    <2>1. /\ op[w].pos = 0 /\ metrics' = EmptyMap /\ wpc'[w] = "next" /\ op' = op
        BY <1>1, <1>8 DEF Clear, Leave
    <2>2. 1..0 = {}
        OBVIOUS
    <2>3. HoldsPrefix(EmptyMap, op[w].list, 0)
        BY <2>2 DEF HoldsPrefix, EmptyMap
    <2> QED
        BY <2>1, <2>3 DEF Restored
<1>9. CASE ReplaceNext(w)
    <2>1. /\ wpc[w] = "next" /\ wpc'[w] = "lock" /\ metrics' = metrics
          /\ op[w].name = "Replace" /\ op'[w].list = op[w].list
          /\ op[w].pos \in Nat /\ op'[w].pos = op[w].pos + 1
        BY <1>1, <1>9 DEF ReplaceNext
    <2> QED
        BY <1>2, <2>1 DEF Restored
<1>10. CASE ReplaceReturn(w)
    BY <1>1, <1>10 DEF ReplaceReturn, NoOp
<1>11. CASE UNCHANGED <<metrics, writerVars>>
    BY <1>2, <1>11 DEF writerVars, Restored
<1>12. ASSUME NEW r \in Readers, CallWriteAll(r) \/ ReaderStep(r)
       PROVE  UNCHANGED <<metrics, writerVars>>
    BY <1>12 DEF CallWriteAll, ReaderStep, WriteHeader, WriteFamily, ReturnFromWriteAll
<1>13. UNCHANGED vars => UNCHANGED <<metrics, writerVars>>
    BY DEF vars, writerVars
<1> QED
    BY <1>3, <1>4, <1>5, <1>6, <1>7, <1>8, <1>9, <1>10, <1>11, <1>12, <1>13 DEF Next, WriterStep

\* While the only writer of a store is in Replace, what a scrape can see of it is a
\* prefix of the new list, for every list: also with items of the same UID, and
\* with an item without metadata, at which Replace gives up.
THEOREM ReplacePrefix == Spec => []ReplaceShowsPrefix
<1>1. Init => ReplaceShowsPrefix
    BY DEF Init, ReplaceShowsPrefix, NoOp
<1> QED
    BY InitIInv, NextIInv, <1>1, NextShowsPrefix, PTL DEF Spec
=============================================================================
