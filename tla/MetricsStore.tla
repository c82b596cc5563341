---------------------------- MODULE MetricsStore ----------------------------
(***************************************************************************)
(* pkg/metrics_store: the store a reflector fills and ServeHTTP reads.     *)
(* Writers call Add, Update, Delete and Replace; readers call WriteAll.    *)
(* Every step between two lock operations of the code is an action, so the *)
(* interleavings are those of the critical sections; inside WriteAll each  *)
(* write to the response is an action, since the read lock is held while   *)
(* the client is served.                                                   *)
(***************************************************************************)
EXTENDS Naturals, Sequences, Functions, RWMutex

CONSTANTS
    UIDs,           \* o.GetUID()
    Contents,       \* what of an object its metric families depend on
    NumFamilies,    \* len(s.headers)
    Writers,        \* goroutines that change the store (one reflector per store)
    Readers,        \* goroutines in WriteAll
    Malformed,      \* objects meta.Accessor refuses
    MaxList         \* bound: length of the list handed to Replace

ASSUME StoreAssumption ==
    /\ NumFamilies \in Nat
    /\ MaxList \in Nat

Objects == [uid : UIDs, content : Contents]

ASSUME MalformedAssumption == Malformed \cap Objects = {}

VARIABLES
    mutex,      \* s.mutex
    metrics,    \* s.metrics: UID -> one blob per family
    wpc,        \* where each writer is
    op,         \* the call each writer is in
    rpc,        \* where each reader is
    out,        \* the response of the reader's last call: one section per header
    todo        \* the objects the current range over s.metrics has not yielded

writerVars == <<wpc, op>>
readerVars == <<rpc, out, todo>>
vars == <<mutex, metrics, wpc, op, rpc, out, todo>>

Lists == UNION {[1..n -> Objects \cup Malformed] : n \in 0..MaxList}

\* Mutant: the last generator yields nothing.
FamiliesButLast(o) == [i \in 1..(NumFamilies - 1) |-> <<i, o.uid, o.content>>]

\* A blob names the family and the object it was rendered from.
Families(o) == [i \in 1..NumFamilies |-> <<i, o.uid, o.content>>]

EmptyMap == [u \in {} |-> {}]

NoOp == [name |-> "none", list |-> <<>>, pos |-> 0]

Init ==
    /\ mutex = Unlocked
    /\ metrics = EmptyMap
    /\ wpc = [w \in Writers |-> "idle"]
    /\ op = [w \in Writers |-> NoOp]
    /\ rpc = [r \in Readers |-> "idle"]
    /\ out = [r \in Readers |-> <<>>]
    /\ todo = [r \in Readers |-> {}]

-----------------------------------------------------------------------------
(* Writers.  A call on one object is op.list = <<object>>, op.pos = 1;     *)
(* Replace works on op.list[op.pos], pos = 0 being the emptying of the map.*)

\* Add, Update (which calls Add) and Delete on an object with metadata.  On one
\* without, meta.Accessor fails and they return before they touch the store.
CallOne(w, name, o) ==
    /\ wpc[w] = "idle"
    /\ op' = [op EXCEPT ![w] = [name |-> name, list |-> <<o>>, pos |-> 1]]
    /\ wpc' = [wpc EXCEPT ![w] = "lock"]
    /\ UNCHANGED <<mutex, metrics, readerVars>>

CallReplace(w, list) ==
    /\ wpc[w] = "idle"
    /\ op' = [op EXCEPT ![w] = [name |-> "Replace", list |-> list, pos |-> 0]]
    /\ wpc' = [wpc EXCEPT ![w] = "lock"]
    /\ UNCHANGED <<mutex, metrics, readerVars>>

LockMutex(w) ==
    /\ wpc[w] = "lock"
    /\ CanLock(mutex)
    /\ mutex' = Lock(mutex, w)
    /\ wpc' = [wpc EXCEPT ![w] = "locked"]
    /\ UNCHANGED <<metrics, op, readerVars>>

\* Mutant: the critical section is entered without waiting for the readers.
EnteredWithReaders(w) == wpc[w] = "locked" /\ w \in mutex.writer

Entered(w) == wpc[w] = "locked" /\ Locked(mutex, w)

\* What follows the critical section: the loop of Replace, or the caller.
Leave(w) ==
    /\ mutex' = Unlock(mutex)
    /\ IF op[w].name = "Replace"
         THEN /\ wpc' = [wpc EXCEPT ![w] = "next"]
              /\ UNCHANGED op
         ELSE /\ wpc' = [wpc EXCEPT ![w] = "idle"]
              /\ op' = [op EXCEPT ![w] = NoOp]
    /\ UNCHANGED readerVars

Put(m, o) ==
    [u \in DOMAIN m \cup {o.uid} |-> IF u = o.uid THEN Families(o) ELSE m[u]]

\* The critical section of Add.
Store(w) ==
    /\ Entered(w)
    /\ op[w].name \in {"Add", "Replace"} /\ op[w].pos > 0
    /\ metrics' = Put(metrics, op[w].list[op[w].pos])
    /\ Leave(w)

\* The critical section of Delete.
Erase(w) ==
    /\ Entered(w)
    /\ op[w].name = "Delete"
    /\ metrics' = Restrict(metrics, DOMAIN metrics \ {op[w].list[1].uid})
    /\ Leave(w)

\* Mutant: Replace adds to the map as it is.
ClearNothing(w) ==
    /\ Entered(w)
    /\ op[w].name = "Replace" /\ op[w].pos = 0
    /\ UNCHANGED metrics
    /\ Leave(w)

\* The first critical section of Replace.
Clear(w) ==
    /\ Entered(w)
    /\ op[w].name = "Replace" /\ op[w].pos = 0
    /\ metrics' = EmptyMap
    /\ Leave(w)

\* The loop of Replace calls Add on the next item.
ReplaceNext(w) ==
    /\ wpc[w] = "next"
    /\ op[w].pos < Len(op[w].list)
    /\ op[w].list[op[w].pos + 1] \in Objects
    /\ op' = [op EXCEPT ![w].pos = @ + 1]
    /\ wpc' = [wpc EXCEPT ![w] = "lock"]
    /\ UNCHANGED <<mutex, metrics, readerVars>>

\* Replace returns: nil at the end of the list, or the error of the first Add
\* that fails, with the items before it in the store and the rest left out.
ReplaceReturn(w) ==
    /\ wpc[w] = "next"
    /\ \/ op[w].pos = Len(op[w].list)
       \/ /\ op[w].pos < Len(op[w].list)
          /\ op[w].list[op[w].pos + 1] \in Malformed
    /\ op' = [op EXCEPT ![w] = NoOp]
    /\ wpc' = [wpc EXCEPT ![w] = "idle"]
    /\ UNCHANGED <<mutex, metrics, readerVars>>

-----------------------------------------------------------------------------
(* Readers: WriteAll.                                                      *)

CallWriteAll(r) ==
    /\ rpc[r] = "idle"
    /\ rpc' = [rpc EXCEPT ![r] = "writing"]
    /\ mutex' = RLock(mutex, r)
    /\ out' = [out EXCEPT ![r] = <<>>]
    /\ UNCHANGED <<metrics, todo, writerVars>>

Writing(r) == rpc[r] = "writing" /\ RLocked(mutex, r)

\* A range over a Go map does not yield an entry deleted meanwhile.
Unyielded(r) == todo[r] \cap DOMAIN metrics

WriteHeader(r) ==
    /\ Writing(r)
    /\ Unyielded(r) = {}
    /\ Len(out[r]) < NumFamilies
    /\ out' = [out EXCEPT ![r] = Append(@, <<>>)]
    /\ todo' = [todo EXCEPT ![r] = DOMAIN metrics]
    /\ UNCHANGED <<mutex, metrics, rpc, writerVars>>

WriteFamily(r, u) ==
    /\ Writing(r)
    /\ u \in Unyielded(r)
    /\ out' = [out EXCEPT ![r][Len(out[r])] = Append(@, metrics[u][Len(out[r])])]
    /\ todo' = [todo EXCEPT ![r] = @ \ {u}]
    /\ UNCHANGED <<mutex, metrics, rpc, writerVars>>

\* Mutant: the read lock is not released.
ReturnWithoutRUnlock(r) ==
    /\ Writing(r)
    /\ Unyielded(r) = {}
    /\ Len(out[r]) = NumFamilies
    /\ rpc' = [rpc EXCEPT ![r] = "idle"]
    /\ todo' = [todo EXCEPT ![r] = {}]
    /\ UNCHANGED <<mutex, metrics, out, writerVars>>

ReturnFromWriteAll(r) ==
    /\ Writing(r)
    /\ Unyielded(r) = {}
    /\ Len(out[r]) = NumFamilies
    /\ rpc' = [rpc EXCEPT ![r] = "idle"]
    /\ todo' = [todo EXCEPT ![r] = {}]
    /\ mutex' = RUnlock(mutex, r)
    /\ UNCHANGED <<metrics, out, writerVars>>

-----------------------------------------------------------------------------
WriterStep(w) ==
    LockMutex(w) \/ Store(w) \/ Erase(w) \/ Clear(w) \/ ReplaceNext(w) \/ ReplaceReturn(w)

ReaderStep(r) ==
    \/ WriteHeader(r)
    \/ \E u \in UIDs : WriteFamily(r, u)
    \/ ReturnFromWriteAll(r)

Next ==
    \/ \E w \in Writers :
         \/ \E o \in Objects, name \in {"Add", "Delete"} : CallOne(w, name, o)
         \/ \E list \in Lists : CallReplace(w, list)
         \/ WriterStep(w)
    \/ \E r \in Readers : CallWriteAll(r) \/ ReaderStep(r)

Spec == Init /\ [][Next]_vars

\* Fairness: a goroutine that can run does; Go's mutex hands itself to a writer
\* that has waited too long (LockMutex, strong fairness); and the client of a
\* scrape goes on reading its response (ReaderStep), on which WriteAll depends:
\* nothing in the code limits how long it may take.
Fairness ==
    /\ \A w \in Writers : WF_vars(WriterStep(w)) /\ SF_vars(LockMutex(w))
    /\ \A r \in Readers : WF_vars(ReaderStep(r))

FairSpec == Spec /\ Fairness

-----------------------------------------------------------------------------
Blobs == (1..NumFamilies) \X UIDs \X Contents

\* The variables have their types: the entries have one blob per header, calls in
\* progress work on an item of their list.
TypeOK ==
    /\ mutex \in RWMutexes(Writers, Readers)
    /\ DOMAIN metrics \subseteq UIDs
    /\ \A u \in DOMAIN metrics : metrics[u] \in [1..NumFamilies -> Blobs]
    /\ wpc \in [Writers -> {"idle", "lock", "locked", "next"}]
    /\ op \in [Writers -> [name : {"none", "Add", "Delete", "Replace"},
                           list : Seq(Objects \cup Malformed),
                           pos : Nat]]
    /\ \A w \in Writers : op[w].pos <= Len(op[w].list)
    /\ rpc \in [Readers -> {"idle", "writing"}]
    /\ out \in [Readers -> Seq(Seq(Blobs))]
    /\ todo \in [Readers -> SUBSET UIDs]

\* The blobs a reader must have written under header j by now.
Due(r, j) ==
    {metrics[u][j] : u \in DOMAIN metrics \ (IF j = Len(out[r]) THEN todo[r] ELSE {})}

\* WriteAll never serves a torn page: at every moment of a response each header
\* already written is followed by exactly the blobs of that family, one per
\* object now in the store (under the last header, less those still to come),
\* each written once, however writers and other readers interleave.
PageNotTorn ==
    \A r \in Readers : rpc[r] = "writing" =>
        \A j \in 1..Len(out[r]) :
            /\ Range(out[r][j]) = Due(r, j)
            /\ IsInjective(out[r][j])

\* The store m holds what adding the first n items of list to an empty store
\* leaves: of items with the same UID, the last.
HoldsPrefix(m, list, n) ==
    /\ DOMAIN m = {list[i].uid : i \in 1..n}
    /\ \A i \in 1..n :
         (\A j \in (i+1)..n : list[j].uid # list[i].uid) => m[list[i].uid] = Families(list[i])

\* How many items of its list a Replace has put into the store.
Restored(w) == IF wpc[w] = "next" THEN op[w].pos ELSE op[w].pos - 1

\* While the only writer of a store is in Replace and has emptied the map, a
\* reader sees exactly a prefix of the new list: nothing of the old contents,
\* nothing out of order.
ReplaceShowsPrefix ==
    \A w \in Writers :
        (Writers = {w} /\ op[w].name = "Replace" /\ (op[w].pos > 0 \/ wpc[w] = "next"))
            => HoldsPrefix(metrics, op[w].list, Restored(w))

\* A store call that was made returns, whatever the readers do.
CallsReturn == \A w \in Writers : wpc[w] # "idle" ~> wpc[w] = "idle"

\* A scrape that was begun ends, whatever writers do.
ScrapesEnd == \A r \in Readers : rpc[r] # "idle" ~> rpc[r] = "idle"

\* The detailed store implements the atomic one: every critical section of a
\* writer is one step on the map, and WriteAll as a whole is one atomic scrape
\* that takes effect when it returns.
Atomic == INSTANCE AtomicStore WITH
    Entries <- {Families(o) : o \in Objects},
    contents <- metrics,
    pages <- [r \in Readers |->
                IF rpc[r] = "idle" THEN [i \in DOMAIN out[r] |-> Range(out[r][i])]
                                   ELSE <<>>]

ImplementsAtomicStore == Atomic!Spec
=============================================================================
