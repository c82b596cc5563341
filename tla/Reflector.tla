------------------------------ MODULE Reflector ------------------------------
(***************************************************************************)
(* One resource's pipeline from the API server to its metrics store: the   *)
(* reflector of client-go (vendored) on the ListerWatcher chain that       *)
(* Builder.reflectorPerNamespace puts together,                            *)
(*   multiListerWatcher / InstrumentedListerWatcher / shardedListWatch,    *)
(* one stream per configured namespace.  The server, external, is the      *)
(* history of the cluster's states: history[v] is the state at resource    *)
(* version v, mapping each UID to the version of its last change, 0 while  *)
(* the object does not exist.  The store keeps, for each UID, the version  *)
(* of the object its metrics were generated from.                          *)
(***************************************************************************)
EXTENDS Integers, Sequences, FiniteSets

CONSTANTS
    UIDs,           \* objects
    NumStreams,     \* len(namespaces): one list/watch each
    Scope,          \* Scope[i]: the objects stream i covers
    Sharded,        \* NewShardedListWatch wrapped the ListerWatcher
    Keep,           \* the UIDs sharding.keep accepts (all, unless Sharded)
    KeepsBookmarks, \* sharding.keep accepts the empty UID of a bookmark
    KindMatches,    \* watch events carry objects of the reflector's expectedType
    MaxRev,         \* bound: versions of the cluster
    MaxFaults       \* bound: failed requests, error events, short watches

Streams == 1..NumStreams

ASSUME ReflectorAssumption ==
    /\ NumStreams \in Nat \ {0}
    /\ Scope \in [Streams -> SUBSET UIDs]
    /\ Keep \subseteq UIDs
    /\ Sharded \in BOOLEAN /\ KeepsBookmarks \in BOOLEAN /\ KindMatches \in BOOLEAN
    /\ ~Sharded => Keep = UIDs /\ KeepsBookmarks
    /\ MaxRev \in Nat \ {0} /\ MaxFaults \in Nat

VARIABLES
    history,    \* the server: the cluster's states, oldest first
    minCache,   \* the server: no list or watch "0"/"" is served older than this
    store,      \* the metrics store: UID -> version shown, 0 if absent
    pc,         \* Run and ListAndWatch: waiting for "list", at the head of the "loop",
                \* waiting for "watch", "watching", in "backoff" or "done"
    rv,         \* resourceVersion, split at "/": <<>> is ""
    open,       \* open[i]: stream i's result channel is open
    synth,      \* synth[i]: objects whose initial ADDED event is still to come
    pos,        \* pos[i]: the version up to which stream i was delivered
    counted,    \* eventCount > 0
    stopCh,     \* stopCh is closed
    faults      \* faults so far

serverVars == <<history, minCache>>
streamVars == <<open, synth, pos>>
vars == <<history, minCache, store, pc, rv, open, synth, pos, counted, stopCh, faults>>

Rev == Len(history)
Now == history[Rev]

Init ==
    /\ history = <<[u \in UIDs |-> 0]>>
    /\ minCache = 1
    /\ store = [u \in UIDs |-> 0]
    /\ pc = "list"
    /\ rv = <<>>
    /\ open = [i \in Streams |-> FALSE]
    /\ synth = [i \in Streams |-> {}]
    /\ pos = [i \in Streams |-> 0]
    /\ counted = FALSE
    /\ stopCh = FALSE
    /\ faults = 0

-----------------------------------------------------------------------------
(* The API server.                                                         *)

\* A UID is never used again after its object was deleted.
Unused(u) == \A v \in 1..Rev : history[v][u] = 0

\* An object is created or modified: it carries the version of the change.
ServerPut(u) ==
    /\ Rev < MaxRev
    /\ Unused(u) \/ Now[u] # 0
    /\ history' = Append(history, [Now EXCEPT ![u] = Rev + 1])
    /\ UNCHANGED <<minCache, store, pc, rv, streamVars, counted, stopCh, faults>>

ServerDelete(u) ==
    /\ Rev < MaxRev
    /\ Now[u] # 0
    /\ history' = Append(history, [Now EXCEPT ![u] = 0])
    /\ UNCHANGED <<minCache, store, pc, rv, streamVars, counted, stopCh, faults>>

\* The server's caches catch up.
CacheAdvance ==
    /\ minCache < Rev
    /\ minCache' = minCache + 1
    /\ UNCHANGED <<history, store, pc, rv, streamVars, counted, stopCh, faults>>

\* A fault costs one of MaxFaults.
Fault == faults < MaxFaults /\ faults' = faults + 1

-----------------------------------------------------------------------------
(* ListAndWatch.                                                           *)

\* What Replace leaves of the lists of all streams taken at versions v: a later
\* stream's item overwrites an earlier one's.
Listed(v) ==
    [u \in UIDs |->
        LET found == {i \in Streams : u \in Scope[i] \cap Keep /\ history[v[i]][u] # 0}
        IN  IF found = {} THEN 0
            ELSE history[v[CHOOSE i \in found : \A j \in found : j <= i]][u]]

\* Mutant: every part of the joined version is that of the first list.
ListRVOfFirst(v) == IF Sharded THEN <<>> ELSE [i \in Streams |-> v[1]]

\* Mutant: the version after the one of the list.
ListRVAfter(v) == IF Sharded THEN <<>> ELSE [i \in Streams |-> v[i] + 1]

\* The resource version of the list: the multiListerWatcher joins those of the
\* streams; the shardedListWatch returns a list without one.
ListRV(v) == IF Sharded THEN <<>> ELSE [i \in Streams |-> v[i]]

\* List with ResourceVersion "0" is served from a cache that may lag, each
\* namespace's from a version of its own; syncWith replaces the store.
List ==
    /\ pc = "list"
    /\ \E v \in [Streams -> minCache..Rev] :
          /\ store' = Listed(v)
          /\ rv' = ListRV(v)
    /\ pc' = "loop"
    /\ UNCHANGED <<serverVars, streamVars, counted, stopCh, faults>>

\* A list of any namespace fails: ListAndWatch returns the error.
ListFails ==
    /\ pc = "list"
    /\ Fault
    /\ pc' = "backoff"
    /\ UNCHANGED <<serverVars, store, rv, streamVars, counted, stopCh>>

\* Replace fails at an item: the store is left with the items before it.
SyncFails ==
    /\ pc = "list"
    /\ Fault
    /\ \E v \in [Streams -> minCache..Rev], before \in SUBSET UIDs :
          store' = [u \in UIDs |-> IF u \in before THEN Listed(v)[u] ELSE 0]
    /\ pc' = "backoff"
    /\ UNCHANGED <<serverVars, rv, streamVars, counted, stopCh>>

\* stopCh is closed before the list is answered: the wait ends without an error,
\* so ListAndWatch goes on to its loop, with no list and no resource version.
StopListing ==
    /\ pc = "list"
    /\ stopCh
    /\ pc' = "loop"
    /\ UNCHANGED <<serverVars, store, rv, streamVars, counted, stopCh, faults>>

\* Mutant: the loop does not look at stopCh.
LoopHeadWithoutStop ==
    /\ pc = "loop"
    /\ pc' = "watch"
    /\ UNCHANGED <<serverVars, store, rv, streamVars, counted, stopCh, faults>>

\* The head of ListAndWatch's loop: return if stopCh is closed, or ask for a
\* watch.  The request itself is not interrupted.
LoopHead ==
    /\ pc = "loop"
    /\ pc' = IF stopCh THEN "backoff" ELSE "watch"
    /\ UNCHANGED <<serverVars, store, rv, streamVars, counted, stopCh, faults>>

\* Mutant: a version with one part is taken for all streams.
WatchFromSingle ==
    /\ pc = "watch"
    /\ \E v \in [Streams -> minCache..Rev] :
          /\ pos' = [i \in Streams |->
                IF rv = <<>> THEN v[i] ELSE IF Len(rv) = 1 THEN rv[1] ELSE rv[i]]
          /\ synth' = [i \in Streams |->
                IF rv = <<>> THEN {u \in Scope[i] : history[v[i]][u] # 0} ELSE {}]
    /\ open' = [i \in Streams |-> TRUE]
    /\ counted' = FALSE
    /\ pc' = "watching"
    /\ UNCHANGED <<serverVars, store, rv, stopCh, faults>>

\* The watch starts after the given version, or, given none, with an ADDED event
\* for each object of a version the server picks.
Watch ==
    /\ pc = "watch"
    /\ Len(rv) \in {0, NumStreams}
    /\ \E v \in [Streams -> minCache..Rev] :
          /\ pos' = [i \in Streams |-> IF rv = <<>> THEN v[i] ELSE rv[i]]
          /\ synth' = [i \in Streams |->
                IF rv = <<>> THEN {u \in Scope[i] : history[v[i]][u] # 0} ELSE {}]
    /\ open' = [i \in Streams |-> TRUE]
    /\ counted' = FALSE
    /\ pc' = "watching"
    /\ UNCHANGED <<serverVars, store, rv, stopCh, faults>>

\* multiListerWatcher.Watch refuses a version that does not have one part per
\* namespace: ListAndWatch returns.
WatchRefused ==
    /\ pc = "watch"
    /\ Len(rv) \notin {0, NumStreams}
    /\ pc' = "backoff"
    /\ UNCHANGED <<serverVars, store, rv, streamVars, counted, stopCh, faults>>

\* The request fails: on "connection refused" the loop tries the same version
\* again after a second, on any other error ListAndWatch returns.
WatchFails ==
    /\ pc = "watch"
    /\ Fault
    /\ pc' \in {"loop", "backoff"}
    /\ UNCHANGED <<serverVars, store, rv, streamVars, counted, stopCh>>

-----------------------------------------------------------------------------
(* watchHandler.                                                           *)

Receiving(i) == pc = "watching" /\ open[i]

\* Mutant: DELETED events are not handled.
HandleNoDelete(u, version, newRV) ==
    IF u \in Keep /\ KindMatches
      THEN /\ store' = IF version = 0 THEN store ELSE [store EXCEPT ![u] = version]
           /\ rv' = <<newRV>>
           /\ counted' = TRUE
      ELSE UNCHANGED <<store, rv, counted>>

\* Mutant: events of objects that the store does not hold are taken for another
\* shard's.
HandleKnownOnly(u, version, newRV) ==
    IF u \in Keep /\ KindMatches /\ store[u] # 0
      THEN /\ store' = [store EXCEPT ![u] = version]
           /\ rv' = <<newRV>>
           /\ counted' = TRUE
      ELSE UNCHANGED <<store, rv, counted>>

\* An event for object u reaches watchHandler if the shard keeps it, and takes
\* effect there if its object has the expected type.  The resource version is
\* the object's own, with a single part.
Handle(u, version, newRV) ==
    IF u \in Keep /\ KindMatches
      THEN /\ store' = [store EXCEPT ![u] = version]
           /\ rv' = <<newRV>>
           /\ counted' = TRUE
      ELSE UNCHANGED <<store, rv, counted>>

ReceiveInitial(i, u) ==
    /\ Receiving(i)
    /\ u \in synth[i]
    /\ Handle(u, history[pos[i]][u], history[pos[i]][u])
    /\ synth' = [synth EXCEPT ![i] = @ \ {u}]
    /\ UNCHANGED <<serverVars, pc, open, pos, stopCh, faults>>

\* The versions at which a change of one of stream i's objects is still to be
\* sent: the first of them is that of the next event.
Unsent(i) ==
    {v \in pos[i] + 1 .. Rev : \E u \in Scope[i] : history[v][u] # history[pos[i]][u]}

\* The next event, about object u: ADDED, MODIFIED (a new version), DELETED (0).
Receive(i, u) ==
    /\ Receiving(i)
    /\ synth[i] = {}
    /\ u \in Scope[i]
    /\ \E v \in Unsent(i) :
          /\ \A w \in Unsent(i) : v <= w
          /\ history[v][u] # history[pos[i]][u]
          /\ Handle(u, history[v][u], v)
          /\ pos' = [pos EXCEPT ![i] = v]
    /\ UNCHANGED <<serverVars, pc, open, synth, stopCh, faults>>

\* A bookmark: all changes up to version v were sent.
ReceiveBookmark(i) ==
    /\ Receiving(i)
    /\ synth[i] = {}
    /\ KeepsBookmarks /\ KindMatches
    /\ \E v \in pos[i]..Rev :
          /\ \A w \in Unsent(i) : v < w
          /\ pos' = [pos EXCEPT ![i] = v]
          /\ rv' = <<v>>
    /\ counted' = TRUE
    /\ UNCHANGED <<serverVars, store, pc, open, synth, stopCh, faults>>

\* An ERROR event: watchHandler returns it, ListAndWatch returns.
ReceiveError(i) ==
    /\ Receiving(i)
    /\ Fault
    /\ pc' = "backoff"
    /\ open' = [j \in Streams |-> FALSE]
    /\ UNCHANGED <<serverVars, store, rv, synth, pos, counted, stopCh>>

\* The server ends a stream: its timeout is over or the connection broke.
StreamEnds(i) ==
    /\ Receiving(i)
    /\ open' = [open EXCEPT ![i] = FALSE]
    /\ UNCHANGED <<serverVars, store, pc, rv, synth, pos, counted, stopCh, faults>>

AllEnded == pc = "watching" /\ \A i \in Streams : ~open[i]

\* The result channel closes when all streams have ended: watch again from rv.
WatchAgain ==
    /\ AllEnded
    /\ pc' = "loop"
    /\ UNCHANGED <<serverVars, store, rv, streamVars, counted, stopCh, faults>>

\* A watch of less than a second without an event is an error.
VeryShortWatch ==
    /\ AllEnded
    /\ ~counted
    /\ Fault
    /\ pc' = "backoff"
    /\ UNCHANGED <<serverVars, store, rv, streamVars, counted, stopCh>>

\* watchHandler's select finds stopCh closed: it stops the watch and returns.
StopWatching ==
    /\ pc = "watching"
    /\ stopCh
    /\ pc' = "backoff"
    /\ open' = [i \in Streams |-> FALSE]
    /\ UNCHANGED <<serverVars, store, rv, synth, pos, counted, stopCh, faults>>

-----------------------------------------------------------------------------
(* Run.                                                                    *)

\* The context of the store's generation is cancelled.
Cancel ==
    /\ ~stopCh
    /\ stopCh' = TRUE
    /\ UNCHANGED <<serverVars, store, pc, rv, streamVars, counted, faults>>

\* Mutant: Run is wait.Forever.
BackoffForever ==
    /\ pc = "backoff"
    /\ pc' = "list"
    /\ rv' = <<>>
    /\ UNCHANGED <<serverVars, store, streamVars, counted, stopCh, faults>>

\* wait.Until between two calls of ListAndWatch: the timer or stopCh ends the
\* wait, and stopCh is looked at once more before the next call, which begins
\* without a resource version.
Backoff ==
    /\ pc = "backoff"
    /\ pc' = IF stopCh THEN "done" ELSE "list"
    /\ rv' = <<>>
    /\ UNCHANGED <<serverVars, store, streamVars, counted, stopCh, faults>>

-----------------------------------------------------------------------------
Server == (\E u \in UIDs : ServerPut(u) \/ ServerDelete(u)) \/ CacheAdvance

Next ==
    \/ Server
    \/ List \/ ListFails \/ SyncFails \/ StopListing
    \/ LoopHead \/ Watch \/ WatchRefused \/ WatchFails
    \/ \E i \in Streams :
         \/ \E u \in UIDs : ReceiveInitial(i, u) \/ Receive(i, u)
         \/ ReceiveBookmark(i) \/ ReceiveError(i) \/ StreamEnds(i)
    \/ WatchAgain \/ VeryShortWatch \/ StopWatching
    \/ Cancel \/ Backoff

Spec == Init /\ [][Next]_vars

\* Fairness: the goroutine runs, and a select does not pass over a closed stopCh
\* forever; requests are answered; the server's caches catch up; an event that is due
\* again and again arrives in the end (strong: a watch lives for minutes,
\* minWatchTimeout, before the server ends it); every stream ends in the end
\* (TimeoutSeconds).  None for changes, faults, bookmarks or Cancel.
Fairness ==
    /\ WF_vars(CacheAdvance)
    /\ WF_vars(List) /\ WF_vars(Watch) /\ WF_vars(WatchRefused)
    /\ WF_vars(LoopHead) /\ WF_vars(WatchAgain) /\ WF_vars(Backoff)
    /\ WF_vars(StopListing) /\ WF_vars(StopWatching)
    /\ \A i \in Streams :
          /\ \A u \in UIDs : SF_vars(ReceiveInitial(i, u) \/ Receive(i, u))
          /\ WF_vars(StreamEnds(i))

FairSpec == Spec /\ Fairness

-----------------------------------------------------------------------------
(* Properties.                                                             *)

\* Type invariant of the server, the store and ListAndWatch's local state.
TypeOK ==
    /\ history \in Seq([UIDs -> Nat]) /\ Rev \in 1..MaxRev
    /\ \A v \in 1..Rev : history[v] \in [UIDs -> 0..v]
    /\ minCache \in 1..Rev
    /\ store \in [UIDs -> 0..Rev]
    /\ pc \in {"list", "loop", "watch", "watching", "backoff", "done"}
    /\ rv \in Seq(1..Rev)
    /\ open \in [Streams -> BOOLEAN]
    /\ synth \in [Streams -> SUBSET UIDs]
    /\ pos \in [Streams -> 0..Rev]
    /\ counted \in BOOLEAN /\ stopCh \in BOOLEAN
    /\ faults \in 0..MaxFaults

\* Without sharding, and with namespaces that share no object, what the store
\* shows of a namespace is at every moment of a watch exactly the namespace at
\* the version up to which its stream was delivered: no event of Replace, of a
\* resumed watch or of the joined resource versions is skipped or applied twice, and
\* a list that a stop interrupts is never taken for one that was answered.
StoreIsSnapshot ==
    pc = "watching" =>
        \A i \in Streams : \A u \in Scope[i] : store[u] = history[pos[i]][u]

Covered == Keep \cap UNION {Scope[i] : i \in Streams}

\* The store shows the covered objects that exist now, at their current version.
Consistent == store = [u \in UIDs |-> IF u \in Covered THEN Now[u] ELSE 0]

\* "keep the given store up to date with the server's contents" (NewReflector):
\* unless it is stopped, once the cluster rests the store comes to show what the
\* cluster is, whatever lists lagged, watches broke or requests failed before.
EventuallyConsistent == <>[](stopCh \/ Consistent)

\* The part of it that survives the resource version the shardedListWatch drops:
\* every object of the shard that exists comes to be shown at its current version.
EventuallyComplete ==
    <>[](stopCh \/ \A u \in Covered : Now[u] # 0 => store[u] = Now[u])

\* "Run will exit when stopCh is closed": wherever the reflector waits then (for a
\* list, for the answer to a watch request, for events, or to try again), the
\* selects on stopCh in ListAndWatch, watchHandler and wait.Until together end it.
StopsWhenCancelled == stopCh ~> pc = "done"
=============================================================================
