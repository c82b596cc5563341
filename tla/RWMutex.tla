------------------------------ MODULE RWMutex ------------------------------
(***************************************************************************)
(* sync.RWMutex of the Go standard library, as MetricsStore (field mutex)  *)
(* and MetricsHandler (field mtx) use it.  A lock is a record:             *)
(*   writer   the writer that owns the lock or waits for active readers    *)
(*            to leave, as a set of at most one element;                   *)
(*   readers  the readers inside the lock;                                 *)
(*   waiting  the readers that called RLock after the writer announced     *)
(*            itself: they are let in, all together, when it unlocks.      *)
(* A writer that finds another writer waits outside until writer is {}.    *)
(***************************************************************************)

Unlocked == [writer |-> {}, readers |-> {}, waiting |-> {}]

RWMutexes(W, R) ==
    [writer : {{}} \cup {{w} : w \in W}, readers : SUBSET R, waiting : SUBSET R]

\* No other writer owns the lock or waits for it.
CanLock(l) == l.writer = {}

\* The writer announces itself: from here on no new reader enters.
Lock(l, w) == [l EXCEPT !.writer = {w}]

\* Lock has returned to w.
Locked(l, w) == w \in l.writer /\ l.readers = {}

\* Unlock lets in the readers that queued up meanwhile, before the next writer.
Unlock(l) == [writer |-> {}, readers |-> l.readers \cup l.waiting, waiting |-> {}]

\* Mutant: a lock that prefers readers lets them pass a waiting writer.
ReaderPreferringRLock(l, r) == [l EXCEPT !.readers = @ \cup {r}]

RLock(l, r) ==
    IF l.writer = {} THEN [l EXCEPT !.readers = @ \cup {r}]
                     ELSE [l EXCEPT !.waiting = @ \cup {r}]

\* RLock has returned to r.
RLocked(l, r) == r \in l.readers

RUnlock(l, r) == [l EXCEPT !.readers = @ \ {r}]
=============================================================================
