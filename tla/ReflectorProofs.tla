--------------------------- MODULE ReflectorProofs ---------------------------
(* The reflector's local state is well typed for every layout of streams, and  *)
(* without sharding the store is a snapshot of every namespace.                *)
EXTENDS Reflector, WellFoundedInduction, TLAPS

\* While a watch lasts every stream has a version to go on from, and an object
\* whose initial event is still to come exists at that version.
PosInv ==
    /\ pc = "watching" => \A i \in Streams : pos[i] >= 1
    /\ \A i \in Streams : \A u \in synth[i] : pos[i] >= 1 /\ history[pos[i]][u] # 0

\* The inductive invariant for types.
IInv == TypeOK /\ PosInv

\* From a version to the next one object changes.
OneChange ==
    \A v \in 1..Rev : v > 1 =>
        \A x, y \in UIDs : history[v][x] # history[v - 1][x] /\ history[v][y] # history[v - 1][y] => x = y

\* With a version for each stream, the next watch goes on from what the store shows;
\* without one there is no next watch, since a stop interrupted the list.
ResumeInv ==
    /\ pc = "list" => rv = <<>>
    /\ pc = "loop" => rv # <<>> \/ stopCh
    /\ pc \in {"watch", "watching"} => rv # <<>>
    /\ pc \in {"loop", "watch"} /\ Len(rv) = NumStreams =>
           \A i \in Streams : \A u \in Scope[i] : store[u] = history[rv[i]][u]
    /\ pc = "watching" =>
           /\ \A i \in Streams : synth[i] = {}
           /\ Len(rv) = NumStreams => \A i \in Streams : rv[i] = pos[i]

\* What StoreIsSnapshot takes to be inductive.
SnapshotInv == OneChange /\ ResumeInv /\ StoreIsSnapshot

-----------------------------------------------------------------------------
(* Sequences.                                                              *)

\* The history after one more change.
LEMMA AppendFacts ==
    ASSUME NEW S, NEW s \in Seq(S), NEW e \in S
    PROVE  /\ Append(s, e) \in Seq(S)
           /\ Len(Append(s, e)) = Len(s) + 1
           /\ \A n \in 1..Len(s) : Append(s, e)[n] = s[n]
           /\ Append(s, e)[Len(s) + 1] = e
    OBVIOUS

\* A resource version stays one when the history grows.
LEMMA SeqWider ==
    ASSUME NEW S, NEW T, S \subseteq T, NEW s \in Seq(S)
    PROVE  s \in Seq(T)
<1>1. s \in [1..Len(s) -> T] /\ Len(s) \in Nat
    OBVIOUS
<1> QED
    BY <1>1

\* Its parts are versions.
LEMMA SeqElement ==
    ASSUME NEW S, NEW s \in Seq(S), NEW n \in 1..Len(s)
    PROVE  s[n] \in S
    OBVIOUS

\* A resource version with one part, that of an event.
LEMMA OneVersion ==
    ASSUME NEW n \in Nat, NEW v \in 1..n
    PROVE  /\ <<v>> \in Seq(1..n)
           /\ Len(<<v>>) = 1 /\ <<v>>[1] = v /\ <<v>> # <<>>
    OBVIOUS

\* Of some streams one is the last.
LEMMA LastStream ==
    ASSUME NEW found, found \subseteq Streams, found # {}
    PROVE  \E i \in found : \A j \in found : j <= i
<1> DEFINE R == {ss \in Nat \X Nat : ss[1] < ss[2]}
           T == {NumStreams - i : i \in found}
<1>1. NumStreams \in Nat /\ \A i \in found : i \in 1..NumStreams
    BY ReflectorAssumption DEF Streams
<1>2. T \subseteq Nat /\ T # {}
    BY <1>1
<1>3. IsWellFoundedOn(R, Nat)
    BY NatLessThanWellFounded DEF OpToRel
<1>4. PICK x \in T : \A y \in T : <<y, x>> \notin R
    <2> HIDE DEF R, T
    <2> QED
        BY <1>2, <1>3, WFMin
<1>5. PICK i \in found : x = NumStreams - i
    OBVIOUS
<1>6. ASSUME NEW j \in found PROVE j <= i
    <2>1. NumStreams - j \in Nat /\ x \in Nat /\ <<NumStreams - j, x>> \notin R
        BY <1>2, <1>4
    <2>2. ~(NumStreams - j < x)
        BY <2>1
    <2> QED
        BY <1>1, <1>5, <2>2
<1> QED
    BY <1>6

-----------------------------------------------------------------------------
(* Types.                                                                  *)

\* The server's state at one more version.
LEMMA HistoryGrows ==
    ASSUME IInv, Rev < MaxRev, NEW h \in [UIDs -> 0..(Rev + 1)],
           history' = Append(history, h),
           UNCHANGED <<minCache, store, pc, rv, streamVars, counted, stopCh, faults>>
    PROVE  /\ IInv'
           /\ Rev' = Rev + 1
           /\ \A v \in 1..Rev : history'[v] = history[v]
           /\ history'[Rev + 1] = h
<1>1. history \in Seq([UIDs -> Nat]) /\ Rev \in 1..MaxRev /\ Rev \in Nat
    BY ReflectorAssumption DEF IInv, TypeOK
<1>2. h \in [UIDs -> Nat]
    BY <1>1
<1>3. /\ history' \in Seq([UIDs -> Nat])
      /\ Rev' = Rev + 1
      /\ \A v \in 1..Rev : history'[v] = history[v]
      /\ history'[Rev + 1] = h
    BY <1>1, <1>2, AppendFacts DEF Rev
<1> HIDE DEF Rev
<1>4. Rev' \in 1..MaxRev
    BY <1>1, <1>3, ReflectorAssumption
<1>5. \A v \in 1..Rev' : history'[v] \in [UIDs -> 0..v]
    <2> SUFFICES ASSUME NEW v \in 1..Rev' PROVE history'[v] \in [UIDs -> 0..v]
        OBVIOUS
    <2>1. CASE v = Rev + 1
        BY <1>3, <2>1
    <2>2. CASE v # Rev + 1
        <3>1. v \in 1..Rev
            BY <1>1, <1>3, <2>2
        <3> QED
            BY <1>3, <3>1 DEF IInv, TypeOK
    <2> QED
        BY <2>1, <2>2
<1>6. 1..Rev \subseteq 1..Rev' /\ 0..Rev \subseteq 0..Rev'
    BY <1>1, <1>3
<1>7. rv' \in Seq(1..Rev')
    BY <1>6, SeqWider DEF IInv, TypeOK
<1>8. store' \in [UIDs -> 0..Rev'] /\ pos' \in [Streams -> 0..Rev'] /\ minCache' \in 1..Rev'
    BY <1>6 DEF IInv, TypeOK, streamVars
<1>9. TypeOK'
    BY <1>3, <1>4, <1>5, <1>7, <1>8 DEF IInv, TypeOK, streamVars
<1>10. \A i \in Streams : pos[i] \in 0..Rev
    BY DEF IInv, TypeOK
<1>11. PosInv'
    <2>1. pos' = pos /\ synth' = synth /\ pc' = pc
        BY DEF streamVars
    <2>2. ASSUME NEW i \in Streams, NEW u \in synth[i]
          PROVE  pos[i] >= 1 /\ history'[pos[i]][u] # 0
        <3>1. pos[i] >= 1 /\ history[pos[i]][u] # 0
            BY <2>2 DEF IInv, PosInv
        <3>2. pos[i] \in 1..Rev
            BY <1>1, <1>10, <3>1
        <3> QED
            BY <1>3, <3>1, <3>2
    <2> QED
        BY <2>1, <2>2 DEF IInv, PosInv
<1> QED
    BY <1>3, <1>9, <1>11 DEF IInv

\* Every change of the cluster is such a step, of one object.
LEMMA ServerChanges ==
    ASSUME IInv, NEW u \in UIDs, ServerPut(u) \/ ServerDelete(u)
    PROVE  \E h \in [UIDs -> 0..(Rev + 1)] :
              /\ Rev < MaxRev
              /\ history' = Append(history, h)
              /\ \A x \in UIDs : x # u => h[x] = history[Rev][x]
              /\ UNCHANGED <<minCache, store, pc, rv, streamVars, counted, stopCh, faults>>
<1>0. Rev \in 1..MaxRev /\ \A v \in 1..Rev : history[v] \in [UIDs -> 0..v]
    BY DEF IInv, TypeOK
<1> HIDE DEF Rev
<1>1. Now \in [UIDs -> 0..Rev] /\ Rev \in Nat
    BY <1>0, ReflectorAssumption DEF Now
<1>2. ASSUME NEW n \in 0..(Rev + 1)
      PROVE  /\ [Now EXCEPT ![u] = n] \in [UIDs -> 0..(Rev + 1)]
             /\ \A x \in UIDs : x # u => [Now EXCEPT ![u] = n][x] = Now[x]
    BY <1>1
<1>3. CASE ServerPut(u)
    <2>1. Rev + 1 \in 0..(Rev + 1)
        BY <1>1
    <2> QED
        BY <1>2, <1>3, <2>1 DEF ServerPut, Now
<1>4. CASE ServerDelete(u)
    <2>1. 0 \in 0..(Rev + 1)
        BY <1>1
    <2> QED
        BY <1>2, <1>4, <2>1 DEF ServerDelete, Now
<1> QED
    BY <1>3, <1>4

\* A reflector that starts has no position in the history.
LEMMA InitIInv == Init => IInv
<1> SUFFICES ASSUME Init PROVE IInv
    OBVIOUS
<1>1. history \in Seq([UIDs -> Nat]) /\ Len(history) = 1 /\ history[1] = [u \in UIDs |-> 0]
    BY DEF Init
<1>2. Rev = 1 /\ Rev \in 1..MaxRev
    BY <1>1, ReflectorAssumption DEF Rev
<1>3. \A v \in 1..Rev : history[v] \in [UIDs -> 0..v]
    BY <1>1, <1>2
<1>4. store \in [UIDs -> 0..Rev] /\ pos \in [Streams -> 0..Rev] /\ minCache \in 1..Rev
    BY <1>2 DEF Init
<1>5. rv \in Seq(1..Rev)
    BY DEF Init
<1>6. TypeOK
    <2>1. /\ open \in [Streams -> BOOLEAN] /\ synth \in [Streams -> SUBSET UIDs]
          /\ counted \in BOOLEAN /\ stopCh \in BOOLEAN
        BY DEF Init
    <2>2. pc \in {"list", "loop", "watch", "watching", "backoff", "done"} /\ faults \in 0..MaxFaults
        BY ReflectorAssumption DEF Init
    <2> QED
        BY <1>1, <1>2, <1>3, <1>4, <1>5, <2>1, <2>2 DEF TypeOK
<1>7. PosInv
    BY DEF Init, PosInv
<1> QED
    BY <1>6, <1>7 DEF IInv

\* What Replace leaves of the lists are versions of objects.
LEMMA ListTyped ==
    ASSUME IInv, NEW v \in [Streams -> minCache..Rev]
    PROVE  Listed(v) \in [UIDs -> 0..Rev] /\ ListRV(v) \in Seq(1..Rev)
<1>1. Rev \in 1..MaxRev /\ minCache \in 1..Rev /\ \A n \in 1..Rev : history[n] \in [UIDs -> 0..n]
    BY DEF IInv, TypeOK
<1> HIDE DEF Rev
<1>2. Rev \in Nat /\ \A i \in Streams : v[i] \in 1..Rev
    BY <1>1, ReflectorAssumption
<1>3. \A i \in Streams : \A u \in UIDs : history[v[i]][u] \in 0..Rev
    <2> SUFFICES ASSUME NEW i \in Streams, NEW u \in UIDs PROVE history[v[i]][u] \in 0..Rev
        OBVIOUS
    <2>1. v[i] \in 1..Rev /\ history[v[i]] \in [UIDs -> 0..v[i]]
        BY <1>1, <1>2
    <2> QED
        BY <1>2, <2>1
<1>5. ASSUME NEW u \in UIDs PROVE Listed(v)[u] \in 0..Rev
    <2> DEFINE found == {i \in Streams : u \in Scope[i] \cap Keep /\ history[v[i]][u] # 0}
               last == CHOOSE i \in found : \A j \in found : j <= i
    <2>1. CASE found = {}
        <3>1. Listed(v)[u] = 0
            BY <2>1 DEF Listed
        <3> QED
            BY <1>2, <3>1
    <2>2. CASE found # {}
        <3>1. \E i \in found : \A j \in found : j <= i
            BY <2>2, LastStream
        <3>2. last \in Streams
            BY <3>1
        <3>3. Listed(v)[u] = history[v[last]][u]
            BY <2>2 DEF Listed
        <3> QED
            BY <1>3, <3>2, <3>3
    <2> QED
        BY <2>1, <2>2
<1>6. Listed(v) \in [UIDs -> 0..Rev]
    BY <1>5 DEF Listed
<1>7. ListRV(v) \in Seq(1..Rev)
    <2>1. [i \in Streams |-> v[i]] \in [1..NumStreams -> 1..Rev]
        BY <1>2 DEF Streams
    <2>2. NumStreams \in Nat /\ <<>> \in Seq(1..Rev)
        BY ReflectorAssumption
    <2>3. [i \in Streams |-> v[i]] \in Seq(1..Rev)
        BY <2>1, <2>2
    <2> QED
        BY <2>2, <2>3 DEF ListRV
<1> QED
    BY <1>6, <1>7

\* A step that leaves the server alone keeps the types of what it leaves alone.
LEMMA LocalStep ==
    ASSUME IInv, serverVars' = serverVars,
           store' \in [UIDs -> 0..Rev], rv' \in Seq(1..Rev),
           pc' \in {"list", "loop", "watch", "watching", "backoff", "done"},
           open' \in [Streams -> BOOLEAN], synth' \in [Streams -> SUBSET UIDs],
           pos' \in [Streams -> 0..Rev], counted' \in BOOLEAN, stopCh' \in BOOLEAN,
           faults' \in 0..MaxFaults,
           \A i \in Streams : /\ pc' = "watching" => pos'[i] >= 1
                              /\ \A u \in synth'[i] : pos'[i] >= 1 /\ history[pos'[i]][u] # 0
    PROVE  IInv'
<1>1. history' = history /\ minCache' = minCache /\ Rev' = Rev
    BY DEF serverVars, Rev
<1>2. TypeOK'
    BY <1>1 DEF IInv, TypeOK
<1>3. PosInv'
    BY <1>1 DEF PosInv
<1> QED
    BY <1>2, <1>3 DEF IInv

\* An event's version is one that the store and the resource version can take.
LEMMA HandleTyped ==
    ASSUME IInv, NEW u \in UIDs, NEW version \in 0..Rev, NEW newRV \in 1..Rev,
           Handle(u, version, newRV)
    PROVE  /\ store' \in [UIDs -> 0..Rev]
           /\ rv' \in Seq(1..Rev)
           /\ counted' \in BOOLEAN
<1>1. Rev \in Nat /\ store \in [UIDs -> 0..Rev] /\ rv \in Seq(1..Rev) /\ counted \in BOOLEAN
    BY ReflectorAssumption DEF IInv, TypeOK
<1> HIDE DEF Rev
<1>2. CASE u \in Keep /\ KindMatches
    <2>1. store' = [store EXCEPT ![u] = version] /\ rv' = <<newRV>> /\ counted' = TRUE
        BY <1>2 DEF Handle
    <2>2. rv' \in Seq(1..Rev)
        BY <1>1, <2>1, OneVersion
    <2> QED
        BY <1>1, <2>1, <2>2
<1>3. CASE ~(u \in Keep /\ KindMatches)
    BY <1>1, <1>3 DEF Handle
<1> QED
    BY <1>2, <1>3

\* The versions a stream stands at and goes to.
LEMMA Versions ==
    ASSUME IInv
    PROVE  /\ Rev \in Nat /\ MaxFaults \in Nat /\ minCache \in 1..Rev
           /\ \A v \in 1..Rev : \A u \in UIDs : history[v][u] \in 0..Rev
           /\ \A i \in Streams : pos[i] \in 0..Rev
           /\ pc = "watching" => \A i \in Streams : pos[i] \in 1..Rev
<1>1. /\ Rev \in 1..MaxRev /\ minCache \in 1..Rev /\ pos \in [Streams -> 0..Rev]
      /\ \A v \in 1..Rev : history[v] \in [UIDs -> 0..v]
    BY DEF IInv, TypeOK
<1>2. pc = "watching" => \A i \in Streams : pos[i] >= 1
    BY DEF IInv, PosInv
<1> HIDE DEF Rev
<1>3. Rev \in Nat /\ MaxFaults \in Nat
    BY <1>1, ReflectorAssumption
<1>4. \A v \in 1..Rev : \A u \in UIDs : history[v][u] \in 0..Rev
    <2> SUFFICES ASSUME NEW v \in 1..Rev, NEW u \in UIDs PROVE history[v][u] \in 0..Rev
        OBVIOUS
    <2>1. history[v][u] \in 0..v
        BY <1>1
    <2> QED
        BY <1>3, <2>1
<1>5. \A i \in Streams : pos[i] \in 0..Rev
    BY <1>1
<1>6. pc = "watching" => \A i \in Streams : pos[i] \in 1..Rev
    BY <1>2, <1>3, <1>5
<1> QED
    BY <1>1, <1>3, <1>4, <1>5, <1>6

\* The steps of ListAndWatch.
LEMMA ListSteps ==
    ASSUME IInv,
           \/ List \/ ListFails \/ SyncFails \/ StopListing
           \/ LoopHead \/ Watch \/ WatchRefused \/ WatchFails
    PROVE  IInv'
<1>1. /\ store \in [UIDs -> 0..Rev] /\ rv \in Seq(1..Rev)
      /\ open \in [Streams -> BOOLEAN] /\ synth \in [Streams -> SUBSET UIDs]
      /\ pos \in [Streams -> 0..Rev] /\ counted \in BOOLEAN /\ stopCh \in BOOLEAN
      /\ faults \in 0..MaxFaults
    BY DEF IInv, TypeOK
<1>2. \A i \in Streams : \A u \in synth[i] : pos[i] >= 1 /\ history[pos[i]][u] # 0
    BY DEF IInv, PosInv
<1> HIDE DEF Rev
<1>3. CASE List
    <2>1. PICK v \in [Streams -> minCache..Rev] : store' = Listed(v) /\ rv' = ListRV(v)
        BY <1>3 DEF List
    <2>2. store' \in [UIDs -> 0..Rev] /\ rv' \in Seq(1..Rev)
        BY <2>1, ListTyped
    <2> QED
        BY <1>1, <1>2, <1>3, <2>2, LocalStep DEF List, streamVars
<1>4. CASE ListFails \/ StopListing \/ LoopHead \/ WatchRefused \/ WatchFails
    <2>1. /\ pc' \in {"loop", "watch", "backoff"}
          /\ UNCHANGED <<serverVars, store, rv, streamVars, counted, stopCh>>
        BY <1>4 DEF ListFails, StopListing, LoopHead, WatchRefused, WatchFails
    <2>2. faults' \in 0..MaxFaults
        BY <1>1, <1>4, Versions DEF ListFails, StopListing, LoopHead, WatchRefused, WatchFails, Fault
    <2> QED
        BY <1>1, <1>2, <2>1, <2>2, LocalStep DEF streamVars
<1>5. CASE Watch
    <2>1. PICK v \in [Streams -> minCache..Rev] :
             /\ pos' = [i \in Streams |-> IF rv = <<>> THEN v[i] ELSE rv[i]]
             /\ synth' = [i \in Streams |->
                    IF rv = <<>> THEN {u \in Scope[i] : history[v[i]][u] # 0} ELSE {}]
        BY <1>5 DEF Watch
    <2>2. \A i \in Streams : v[i] \in 1..Rev
        BY <2>1, Versions
    <2>3. \A i \in Streams : rv # <<>> => rv[i] \in 1..Rev
        <3>1. rv # <<>> => Len(rv) = NumStreams
            BY <1>1, <1>5 DEF Watch
        <3>2. \A i \in 1..Len(rv) : rv[i] \in 1..Rev
            BY <1>1, SeqElement
        <3> QED
            BY <3>1, <3>2 DEF Streams
    <2>4. \A i \in Streams : pos'[i] \in 1..Rev
        BY <2>1, <2>2, <2>3
    <2>5. pos' \in [Streams -> 0..Rev] /\ \A i \in Streams : pos'[i] >= 1
        BY <2>1, <2>4, Versions
    <2>6. synth' \in [Streams -> SUBSET UIDs]
        BY <2>1, ReflectorAssumption
    <2>7. \A i \in Streams : \A u \in synth'[i] : history[pos'[i]][u] # 0
        BY <2>1
    <2>8. open' \in [Streams -> BOOLEAN] /\ counted' \in BOOLEAN /\ pc' = "watching"
          /\ UNCHANGED <<serverVars, store, rv, stopCh, faults>>
        BY <1>5 DEF Watch
    <2> QED
        BY <1>1, <2>5, <2>6, <2>7, <2>8, LocalStep
<1>6. CASE SyncFails
    <2>1. PICK v \in [Streams -> minCache..Rev], before \in SUBSET UIDs :
             store' = [u \in UIDs |-> IF u \in before THEN Listed(v)[u] ELSE 0]
        BY <1>6 DEF SyncFails
    <2>2. Listed(v) \in [UIDs -> 0..Rev] /\ 0 \in 0..Rev
        BY <2>1, ListTyped, Versions
    <2>3. store' \in [UIDs -> 0..Rev]
        BY <2>1, <2>2
    <2>4. pc' = "backoff" /\ Fault /\ UNCHANGED <<serverVars, rv, streamVars, counted, stopCh>>
        BY <1>6 DEF SyncFails
    <2>5. faults' \in 0..MaxFaults
        BY <1>1, <2>4, Versions DEF Fault
    <2> QED
        BY <1>1, <1>2, <2>3, <2>4, <2>5, LocalStep DEF streamVars
<1> QED
    BY <1>3, <1>4, <1>5, <1>6

\* The events of stream i.
LEMMA EventSteps ==
    ASSUME IInv, NEW i \in Streams,
           \/ \E u \in UIDs : ReceiveInitial(i, u) \/ Receive(i, u)
           \/ ReceiveBookmark(i)
    PROVE  IInv'
<1>1. /\ open \in [Streams -> BOOLEAN] /\ synth \in [Streams -> SUBSET UIDs]
      /\ pos \in [Streams -> 0..Rev] /\ stopCh \in BOOLEAN
      /\ faults \in 0..MaxFaults /\ store \in [UIDs -> 0..Rev]
    BY DEF IInv, TypeOK
<1>2. \A j \in Streams : \A u \in synth[j] : pos[j] >= 1 /\ history[pos[j]][u] # 0
    BY DEF IInv, PosInv
<1>3. pc = "watching" /\ \A j \in Streams : pos[j] \in 1..Rev
    BY Versions DEF ReceiveInitial, Receive, ReceiveBookmark, Receiving
<1> HIDE DEF Rev
<1>4. Rev \in Nat
    BY Versions
<1>5. ASSUME NEW u \in UIDs, ReceiveInitial(i, u) PROVE IInv'
    <2>1. /\ u \in synth[i] /\ synth' = [synth EXCEPT ![i] = @ \ {u}]
          /\ Handle(u, history[pos[i]][u], history[pos[i]][u])
          /\ UNCHANGED <<serverVars, pc, open, pos, stopCh, faults>>
        BY <1>5 DEF ReceiveInitial
    <2>2. history[pos[i]][u] \in 1..Rev
        BY <1>2, <1>3, <2>1, Versions
    <2>3. history[pos[i]][u] \in 0..Rev
        BY <1>4, <2>2
    <2>4. store' \in [UIDs -> 0..Rev] /\ rv' \in Seq(1..Rev) /\ counted' \in BOOLEAN
        BY <2>1, <2>2, <2>3, HandleTyped
    <2>5. synth' \in [Streams -> SUBSET UIDs] /\ \A j \in Streams : synth'[j] \subseteq synth[j]
        BY <1>1, <2>1
    <2>6. \A j \in Streams : pos'[j] >= 1 /\ \A x \in synth'[j] : history[pos'[j]][x] # 0
        BY <1>2, <1>3, <1>4, <2>1, <2>5
    <2> QED
        BY <1>1, <1>3, <2>1, <2>4, <2>5, <2>6, LocalStep
<1>6. ASSUME NEW v \in 1..Rev, synth[i] = {}, pos' = [pos EXCEPT ![i] = v], synth' = synth
      PROVE  /\ pos' \in [Streams -> 0..Rev]
             /\ \A j \in Streams : pos'[j] >= 1 /\ \A x \in synth'[j] : history[pos'[j]][x] # 0
    <2>1. v \in 0..Rev /\ v >= 1
        BY <1>4
    <2>2. \A j \in Streams : pos'[j] = IF j = i THEN v ELSE pos[j]
        BY <1>1, <1>6
    <2>3. pos' \in [Streams -> 0..Rev]
        BY <1>1, <1>6, <2>1
    <2>4. \A j \in Streams : pos'[j] >= 1
        BY <1>3, <1>4, <2>1, <2>2
    <2>5. \A j \in Streams : \A x \in synth'[j] : history[pos'[j]][x] # 0
        BY <1>2, <1>6, <2>2
    <2> QED
        BY <2>3, <2>4, <2>5
<1>7. ASSUME NEW u \in UIDs, Receive(i, u) PROVE IInv'
    <2>1. PICK v \in Unsent(i) : Handle(u, history[v][u], v) /\ pos' = [pos EXCEPT ![i] = v]
        BY <1>7 DEF Receive
    <2>2. synth[i] = {} /\ UNCHANGED <<serverVars, pc, open, synth, stopCh, faults>>
        BY <1>7 DEF Receive
    <2>3. v \in 1..Rev
        BY <1>3, <1>4, <2>1 DEF Unsent
    <2>4. history[v][u] \in 0..Rev
        BY <2>3, Versions
    <2>5. store' \in [UIDs -> 0..Rev] /\ rv' \in Seq(1..Rev) /\ counted' \in BOOLEAN
        BY <2>1, <2>3, <2>4, HandleTyped
    <2>6. /\ pos' \in [Streams -> 0..Rev]
          /\ \A j \in Streams : pos'[j] >= 1 /\ \A x \in synth'[j] : history[pos'[j]][x] # 0
        BY <1>6, <2>1, <2>2, <2>3
    <2> QED
        BY <1>1, <1>3, <2>2, <2>5, <2>6, LocalStep
<1>8. CASE ReceiveBookmark(i)
    <2>1. PICK v \in pos[i]..Rev : pos' = [pos EXCEPT ![i] = v] /\ rv' = <<v>>
        BY <1>8 DEF ReceiveBookmark
    <2>2. /\ synth[i] = {} /\ counted' = TRUE
          /\ UNCHANGED <<serverVars, store, pc, open, synth, stopCh, faults>>
        BY <1>8 DEF ReceiveBookmark
    <2>3. v \in 1..Rev
        BY <1>3, <1>4, <2>1
    <2>4. rv' \in Seq(1..Rev)
        BY <1>4, <2>1, <2>3, OneVersion
    <2>5. /\ pos' \in [Streams -> 0..Rev]
          /\ \A j \in Streams : pos'[j] >= 1 /\ \A x \in synth'[j] : history[pos'[j]][x] # 0
        BY <1>6, <2>1, <2>2, <2>3
    <2> QED
        BY <1>1, <1>3, <2>2, <2>4, <2>5, LocalStep
<1> QED
    BY <1>5, <1>7, <1>8

\* The end of a stream, of the watch or of the reflector.
LEMMA EndSteps ==
    ASSUME IInv,
           \/ \E i \in Streams : ReceiveError(i) \/ StreamEnds(i)
           \/ WatchAgain \/ VeryShortWatch \/ StopWatching \/ Cancel \/ Backoff
    PROVE  IInv'
<1>1. /\ store \in [UIDs -> 0..Rev] /\ rv \in Seq(1..Rev)
      /\ open \in [Streams -> BOOLEAN] /\ synth \in [Streams -> SUBSET UIDs]
      /\ pos \in [Streams -> 0..Rev] /\ counted \in BOOLEAN /\ stopCh \in BOOLEAN
      /\ faults \in 0..MaxFaults /\ pc \in {"list", "loop", "watch", "watching", "backoff", "done"}
    BY DEF IInv, TypeOK
<1>2. \A i \in Streams : /\ pc = "watching" => pos[i] >= 1
                         /\ \A u \in synth[i] : pos[i] >= 1 /\ history[pos[i]][u] # 0
    BY DEF IInv, PosInv
<1> HIDE DEF Rev
<1>3. UNCHANGED <<serverVars, store, synth, pos, counted>> /\ rv' \in {rv, <<>>}
    BY DEF ReceiveError, StreamEnds, WatchAgain, VeryShortWatch, StopWatching, Cancel, Backoff, streamVars
<1>4. pc' \in {"list", "loop", "backoff", "done"} \/ pc' = pc
    BY DEF ReceiveError, StreamEnds, WatchAgain, VeryShortWatch, StopWatching, Cancel, Backoff
<1>5. stopCh' \in BOOLEAN
    BY <1>1 DEF ReceiveError, StreamEnds, WatchAgain, VeryShortWatch, StopWatching, Cancel, Backoff
<1>6. faults' = faults \/ Fault
    BY DEF ReceiveError, StreamEnds, WatchAgain, VeryShortWatch, StopWatching, Cancel, Backoff
<1>7. faults' \in 0..MaxFaults
    BY <1>1, <1>6, Versions DEF Fault
<1>8. open' \in [Streams -> BOOLEAN]
    BY <1>1 DEF ReceiveError, StreamEnds, WatchAgain, VeryShortWatch, StopWatching, Cancel, Backoff, streamVars
<1>9. rv' \in Seq(1..Rev)
    <2>1. <<>> \in Seq(1..Rev)
        OBVIOUS
    <2> QED
        BY <1>1, <1>3, <2>1
<1>10. pc' \in {"list", "loop", "watch", "watching", "backoff", "done"}
    BY <1>1, <1>4
<1>11. \A i \in Streams : /\ pc' = "watching" => pos'[i] >= 1
                          /\ \A u \in synth'[i] : pos'[i] >= 1 /\ history[pos'[i]][u] # 0
    BY <1>2, <1>3, <1>4
<1>12. IInv'
    BY <1>1, <1>3, <1>5, <1>7, <1>8, <1>9, <1>10, <1>11, LocalStep
<1> QED
    BY <1>12

\* Every step of the server and of the reflector keeps types and positions.
LEMMA NextIInv == IInv /\ [Next]_vars => IInv'
<1> SUFFICES ASSUME IInv, [Next]_vars PROVE IInv'
    OBVIOUS
<1>1. ASSUME NEW u \in UIDs, ServerPut(u) \/ ServerDelete(u) PROVE IInv'
    BY <1>1, ServerChanges, HistoryGrows
<1>2. CASE CacheAdvance
    <2>1. minCache \in 1..Rev /\ Rev \in Nat /\ minCache < Rev /\ minCache' = minCache + 1
        BY <1>2, Versions DEF CacheAdvance
    <2>2. history' = history /\ Rev' = Rev
        BY <1>2 DEF CacheAdvance, Rev
    <2>3. minCache' \in 1..Rev'
        <3> HIDE DEF Rev
        <3> QED
            BY <2>1, <2>2
    <2>4. TypeOK'
        BY <1>2, <2>2, <2>3 DEF CacheAdvance, IInv, TypeOK, streamVars
    <2>5. PosInv'
        BY <1>2, <2>2 DEF CacheAdvance, IInv, PosInv, streamVars
    <2> QED
        BY <2>4, <2>5 DEF IInv
<1>3. CASE UNCHANGED vars
    <2>1. TypeOK'
        BY <1>3 DEF vars, IInv, TypeOK, Rev
    <2>2. PosInv'
        BY <1>3 DEF vars, IInv, PosInv
    <2> QED
        BY <2>1, <2>2 DEF IInv
<1> QED
    BY <1>1, <1>2, <1>3, ListSteps, EventSteps, EndSteps DEF Next, Server

\* In every behaviour the variables have their types: whatever versions the lists
\* and the streams had, a resource version of the reflector and the versions the
\* store shows are versions of the cluster.
THEOREM ReflectorTyped == Spec => []TypeOK
<1>1. IInv => TypeOK
    BY DEF IInv
<1> QED
    BY InitIInv, NextIInv, <1>1, PTL DEF Spec

-----------------------------------------------------------------------------
(* The snapshot.                                                           *)

\* A ListerWatcher without NewShardedListWatch, whose events have the type the
\* reflector expects, on namespaces: no object is in two.
Plain ==
    /\ ~Sharded
    /\ KindMatches
    /\ \A i, j \in Streams : i # j => Scope[i] \cap Scope[j] = {}

\* The next event of a stream is the only change of its objects since the last.
LEMMA NextEventIsNext ==
    ASSUME IInv, OneChange, NEW i \in Streams, pos[i] \in 1..Rev,
           NEW v \in Unsent(i), \A w \in Unsent(i) : v <= w,
           NEW u \in Scope[i], history[v][u] # history[pos[i]][u]
    PROVE  \A x \in Scope[i] : x # u => history[v][x] = history[pos[i]][x]
<1> SUFFICES ASSUME NEW x \in Scope[i], x # u PROVE history[v][x] = history[pos[i]][x]
    OBVIOUS
<1>1. Rev \in Nat /\ v \in pos[i] + 1 .. Rev /\ x \in UIDs /\ u \in UIDs
    BY Versions, ReflectorAssumption DEF Unsent
<1> HIDE DEF Rev
<1>2. v \in 1..Rev /\ v > 1 /\ v - 1 \in pos[i] .. Rev
    BY <1>1
<1>3. \A y \in Scope[i] : history[v - 1][y] = history[pos[i]][y]
    <2>1. CASE v - 1 = pos[i]
        BY <2>1
    <2>2. CASE v - 1 # pos[i]
        <3>1. v - 1 \in pos[i] + 1 .. Rev /\ ~(v <= v - 1)
            BY <1>1, <1>2, <2>2
        <3>2. v - 1 \notin Unsent(i)
            BY <3>1
        <3> QED
            BY <3>1, <3>2 DEF Unsent
    <2> QED
        BY <2>1, <2>2
<1>4. history[v][u] # history[v - 1][u]
    BY <1>3
<1>5. history[v][x] = history[v - 1][x]
    BY <1>1, <1>2, <1>4 DEF OneChange
<1> QED
    BY <1>3, <1>5

\* The lists of namespaces that share no object do not overwrite each other.
LEMMA ListIsSnapshot ==
    ASSUME IInv, Plain, NEW v \in [Streams -> minCache..Rev]
    PROVE  /\ \A i \in Streams : \A u \in Scope[i] : Listed(v)[u] = history[v[i]][u]
           /\ ListRV(v) \in Seq(1..Rev) /\ Len(ListRV(v)) = NumStreams
           /\ \A i \in Streams : ListRV(v)[i] = v[i]
<1>1. ASSUME NEW i \in Streams, NEW u \in Scope[i] PROVE Listed(v)[u] = history[v[i]][u]
    <2> DEFINE found == {k \in Streams : u \in Scope[k] \cap Keep /\ history[v[k]][u] # 0}
    <2>1. u \in UIDs /\ u \in Keep
        BY ReflectorAssumption DEF Plain
    <2>2. \A k \in found : k = i
        BY DEF Plain
    <2>3. CASE history[v[i]][u] = 0
        <3>1. found = {}
            BY <2>2, <2>3
        <3> QED
            BY <2>1, <2>3, <3>1 DEF Listed
    <2>4. CASE history[v[i]][u] # 0
        <3>1. found = {i}
            BY <2>1, <2>2, <2>4
        <3>2. i <= i
            BY ReflectorAssumption DEF Streams
        <3>3. (CHOOSE k \in found : \A j \in found : j <= k) = i
            BY <3>1, <3>2
        <3>4. Listed(v)[u] = history[v[CHOOSE k \in found : \A j \in found : j <= k]][u]
            BY <2>1, <3>1 DEF Listed
        <3> QED
            BY <3>3, <3>4
    <2> QED
        BY <2>3, <2>4
<1>2. ListRV(v) = [i \in 1..NumStreams |-> v[i]]
    BY DEF Plain, ListRV, Streams
<1>3. Len(ListRV(v)) = NumStreams /\ \A i \in Streams : ListRV(v)[i] = v[i]
    BY <1>2, ReflectorAssumption DEF Streams
<1> QED
    BY <1>1, <1>3, ListTyped

\* The cluster changes: the versions the store and the streams stand at stay.
LEMMA ChangeKeepsSnapshot ==
    ASSUME IInv, SnapshotInv, NEW u \in UIDs, ServerPut(u) \/ ServerDelete(u)
    PROVE  SnapshotInv'
<1>1. PICK h \in [UIDs -> 0..(Rev + 1)] :
              /\ Rev < MaxRev
              /\ history' = Append(history, h)
              /\ \A x \in UIDs : x # u => h[x] = history[Rev][x]
              /\ UNCHANGED <<minCache, store, pc, rv, streamVars, counted, stopCh, faults>>
    BY ServerChanges
<1>2. /\ Rev' = Rev + 1
      /\ \A v \in 1..Rev : history'[v] = history[v]
      /\ history'[Rev + 1] = h
    BY <1>1, HistoryGrows
<1>3. rv \in Seq(1..Rev)
    BY DEF IInv, TypeOK
<1>4. /\ pc' = pc /\ rv' = rv /\ store' = store /\ pos' = pos /\ synth' = synth /\ stopCh' = stopCh
    BY <1>1 DEF streamVars
<1> HIDE DEF Rev
<1>5. Rev \in Nat
    BY Versions
<1>6. OneChange'
    <2> SUFFICES ASSUME NEW v \in 1..Rev', v > 1, NEW x \in UIDs, NEW y \in UIDs,
                        history'[v][x] # history'[v - 1][x],
                        history'[v][y] # history'[v - 1][y]
                 PROVE  x = y
        BY DEF OneChange
    <2>1. CASE v = Rev + 1
        <3>1. v - 1 = Rev /\ Rev \in 1..Rev
            BY <1>2, <1>5, <2>1
        <3>2. history'[v] = h /\ history'[v - 1] = history[Rev]
            BY <1>2, <2>1, <3>1
        <3> QED
            BY <1>1, <3>2
    <2>2. CASE v # Rev + 1
        <3>1. v \in 1..Rev /\ v - 1 \in 1..Rev
            BY <1>2, <1>5, <2>2
        <3> QED
            BY <1>2, <3>1 DEF SnapshotInv, OneChange
    <2> QED
        BY <2>1, <2>2
<1>7. ResumeInv'
    <2>1. ASSUME Len(rv) = NumStreams, NEW i \in Streams PROVE history'[rv[i]] = history[rv[i]]
        <3>1. rv[i] \in 1..Rev
            BY <1>3, <2>1, SeqElement DEF Streams
        <3> QED
            BY <1>2, <3>1
    <2> QED
        BY <1>4, <2>1 DEF SnapshotInv, ResumeInv
<1>8. StoreIsSnapshot'
    <2>1. pc = "watching" => \A i \in Streams : history'[pos[i]] = history[pos[i]]
        BY <1>2, Versions
    <2> QED
        BY <1>4, <2>1 DEF SnapshotInv, StoreIsSnapshot
<1> QED
    BY <1>6, <1>7, <1>8 DEF SnapshotInv

\* A step that leaves the cluster alone.
LEMMA SnapshotOutside ==
    ASSUME SnapshotInv, history' = history, ResumeInv', StoreIsSnapshot'
    PROVE  SnapshotInv'
<1>1. OneChange'
    BY DEF SnapshotInv, OneChange, Rev
<1> QED
    BY <1>1 DEF SnapshotInv

\* A list, and a watch that goes on from its version.
LEMMA ListKeepsSnapshot ==
    ASSUME IInv, SnapshotInv, Plain, List \/ Watch
    PROVE  SnapshotInv'
<1>1. history' = history /\ serverVars' = serverVars
    BY DEF List, Watch, serverVars
<1>2. CASE List
    <2>1. PICK v \in [Streams -> minCache..Rev] : store' = Listed(v) /\ rv' = ListRV(v)
        BY <1>2 DEF List
    <2>2. pc' = "loop"
        BY <1>2 DEF List
    <2>3. rv' # <<>>
        <3>1. Len(rv') = NumStreams /\ NumStreams # 0 /\ Len(<<>>) = 0
            BY <2>1, ListIsSnapshot, ReflectorAssumption
        <3> QED
            BY <3>1
    <2>4. \A i \in Streams : \A u \in Scope[i] : store'[u] = history[rv'[i]][u]
        BY <2>1, ListIsSnapshot
    <2>5. ResumeInv' /\ StoreIsSnapshot'
        BY <1>1, <2>2, <2>3, <2>4 DEF ResumeInv, StoreIsSnapshot
    <2> QED
        BY <1>1, <2>5, SnapshotOutside
<1>3. CASE Watch
    <2>1. /\ pc = "watch" /\ pc' = "watching" /\ rv' = rv /\ store' = store
          /\ Len(rv) \in {0, NumStreams}
        BY <1>3 DEF Watch
    <2>2. rv # <<>> /\ Len(rv) = NumStreams
        BY <2>1 DEF IInv, TypeOK, SnapshotInv, ResumeInv
    <2>3. \A i \in Streams : pos'[i] = rv[i] /\ synth'[i] = {}
        BY <1>3, <2>2 DEF Watch
    <2>4. \A i \in Streams : \A u \in Scope[i] : store[u] = history[rv[i]][u]
        BY <2>1, <2>2 DEF SnapshotInv, ResumeInv
    <2>5. ResumeInv' /\ StoreIsSnapshot'
        BY <1>1, <2>1, <2>2, <2>3, <2>4 DEF ResumeInv, StoreIsSnapshot
    <2> QED
        BY <1>1, <2>5, SnapshotOutside
<1> QED
    BY <1>2, <1>3

\* An event takes the store, at the objects of its stream, to the stream's new
\* version; the watch that follows goes on from there if there is one stream.
LEMMA EventKeepsSnapshot ==
    ASSUME IInv, SnapshotInv, Plain, NEW i \in Streams, pc = "watching", pc' = pc,
           serverVars' = serverVars, synth' = synth,
           NEW v \in 1..Rev, pos' = [pos EXCEPT ![i] = v], rv' = <<v>>,
           \A u \in Scope[i] : store'[u] = history[v][u],
           \A u \in UIDs : u \notin Scope[i] => store'[u] = store[u]
    PROVE  SnapshotInv'
<1>1. pos \in [Streams -> 0..Rev] /\ Rev \in Nat
    BY Versions DEF IInv, TypeOK
<1>2. history' = history
    BY DEF serverVars
<1>3. \A j \in Streams : pos'[j] = IF j = i THEN v ELSE pos[j]
    BY <1>1
<1>4. StoreIsSnapshot'
    <2> SUFFICES ASSUME NEW j \in Streams, NEW u \in Scope[j]
                 PROVE  store'[u] = history[pos'[j]][u]
        BY <1>2 DEF StoreIsSnapshot
    <2>1. CASE j = i
        BY <1>3, <2>1
    <2>2. CASE j # i
        <3>1. u \in UIDs /\ u \notin Scope[i]
            BY <2>2, ReflectorAssumption DEF Plain
        <3> QED
            BY <1>3, <2>2, <3>1 DEF SnapshotInv, StoreIsSnapshot
    <2> QED
        BY <2>1, <2>2
<1>5. rv' # <<>> /\ Len(rv') = 1 /\ rv'[1] = v
    BY <1>1, OneVersion
<1>6. ResumeInv'
    <2>1. \A j \in Streams : synth[j] = {}
        BY DEF SnapshotInv, ResumeInv
    <2>2. ASSUME NumStreams = 1, NEW j \in Streams PROVE rv'[j] = pos'[j]
        <3>1. j = 1 /\ i = 1
            BY <2>2 DEF Streams
        <3> QED
            BY <1>3, <1>5, <3>1
    <2> QED
        BY <1>5, <2>1, <2>2 DEF ResumeInv
<1> QED
    BY <1>2, <1>4, <1>6, SnapshotOutside

\* An event, or a bookmark, that watchHandler takes from one stream moves the
\* snapshot of that stream and of no other.
LEMMA ReceiveKeepsSnapshot ==
    ASSUME IInv, SnapshotInv, Plain, NEW i \in Streams,
           (\E u \in UIDs : Receive(i, u)) \/ ReceiveBookmark(i)
    PROVE  SnapshotInv'
<1>1. /\ pc = "watching" /\ pc' = pc /\ serverVars' = serverVars /\ synth' = synth
    BY DEF Receive, ReceiveBookmark, Receiving
<1>2. Rev \in Nat /\ pos[i] \in 1..Rev /\ store \in [UIDs -> 0..Rev]
    BY <1>1, Versions DEF IInv, TypeOK
<1>3. \A u \in Scope[i] : u \in UIDs /\ store[u] = history[pos[i]][u]
    BY <1>1, ReflectorAssumption DEF SnapshotInv, StoreIsSnapshot
<1>4. ASSUME NEW u \in UIDs, Receive(i, u) PROVE SnapshotInv'
    <2>1. PICK v \in Unsent(i) : /\ \A w \in Unsent(i) : v <= w
                                 /\ history[v][u] # history[pos[i]][u]
                                 /\ Handle(u, history[v][u], v)
                                 /\ pos' = [pos EXCEPT ![i] = v]
        BY <1>4 DEF Receive
    <2>2. u \in Scope[i]
        BY <1>4 DEF Receive
    <2>3. store' = [store EXCEPT ![u] = history[v][u]] /\ rv' = <<v>>
        BY <2>1, ReflectorAssumption DEF Handle, Plain
    <2>4. \A x \in Scope[i] : x # u => history[v][x] = history[pos[i]][x]
        BY <1>2, <2>1, <2>2, NextEventIsNext DEF SnapshotInv
    <2> HIDE DEF Rev
    <2>5. v \in 1..Rev
        BY <1>2, <2>1, SMTT(30) DEF Unsent
    <2>6. \A x \in UIDs : store'[x] = IF x = u THEN history[v][u] ELSE store[x]
        BY <1>2, <2>3
    <2>7. \A x \in Scope[i] : store'[x] = history[v][x]
        BY <1>3, <2>4, <2>6
    <2>8. \A x \in UIDs : x \notin Scope[i] => store'[x] = store[x]
        BY <2>2, <2>6
    <2> QED
        BY <1>1, <2>1, <2>3, <2>5, <2>7, <2>8, EventKeepsSnapshot
<1>5. CASE ReceiveBookmark(i)
    <2>1. PICK v \in pos[i]..Rev : /\ \A w \in Unsent(i) : v < w
                                   /\ pos' = [pos EXCEPT ![i] = v] /\ rv' = <<v>>
        BY <1>5 DEF ReceiveBookmark
    <2>2. store' = store
        BY <1>5 DEF ReceiveBookmark
    <2> HIDE DEF Rev
    <2>3. v \in 1..Rev
        BY <1>2, <2>1
    <2>4. \A x \in Scope[i] : history[v][x] = history[pos[i]][x]
        <3>1. CASE v = pos[i]
            BY <3>1
        <3>2. CASE v # pos[i]
            <4>1. v \in pos[i] + 1 .. Rev /\ ~(v < v)
                BY <1>2, <2>1, <3>2
            <4>2. v \notin Unsent(i)
                BY <2>1, <4>1
            <4> QED
                BY <4>1, <4>2 DEF Unsent
        <3> QED
            BY <3>1, <3>2
    <2>5. \A x \in Scope[i] : store'[x] = history[v][x]
        BY <1>3, <2>2, <2>4
    <2> QED
        BY <1>1, <2>1, <2>2, <2>3, <2>5, EventKeepsSnapshot
<1> QED
    BY <1>4, <1>5

\* Every step of the server and of the reflector keeps the snapshots.
LEMMA NextSnapshot == Plain /\ IInv /\ SnapshotInv /\ [Next]_vars => SnapshotInv'
<1> SUFFICES ASSUME Plain, IInv, SnapshotInv, [Next]_vars PROVE SnapshotInv'
    OBVIOUS
<1>1. ASSUME NEW u \in UIDs, ServerPut(u) \/ ServerDelete(u) PROVE SnapshotInv'
    BY <1>1, ChangeKeepsSnapshot
<1>2. CASE List \/ Watch
    BY <1>2, ListKeepsSnapshot
<1>3. ASSUME NEW i \in Streams, (\E u \in UIDs : Receive(i, u)) \/ ReceiveBookmark(i)
      PROVE  SnapshotInv'
    BY <1>3, ReceiveKeepsSnapshot
<1>4. ASSUME NEW i \in Streams, NEW u \in UIDs, ReceiveInitial(i, u) PROVE FALSE
    BY <1>4 DEF ReceiveInitial, Receiving, SnapshotInv, ResumeInv
<1>5. ASSUME UNCHANGED <<history, store, rv, synth, pos>>,
             pc' = "backoff" \/ pc' = pc, stopCh => stopCh'
      PROVE  SnapshotInv'
    <2>1. ResumeInv'
        BY <1>5 DEF SnapshotInv, ResumeInv
    <2>2. StoreIsSnapshot'
        BY <1>5 DEF SnapshotInv, StoreIsSnapshot
    <2> QED
        BY <1>5, <2>1, <2>2, SnapshotOutside
<1>6. CASE WatchAgain
    <2>1. UNCHANGED <<history, store, rv, synth, pos>> /\ pc = "watching" /\ pc' = "loop"
        BY <1>6 DEF WatchAgain, AllEnded, serverVars, streamVars
    <2>2. ResumeInv'
        BY <2>1 DEF SnapshotInv, ResumeInv, StoreIsSnapshot
    <2>3. StoreIsSnapshot'
        BY <2>1 DEF StoreIsSnapshot
    <2> QED
        BY <2>1, <2>2, <2>3, SnapshotOutside
<1>7. CASE CacheAdvance \/ ListFails \/ WatchRefused
    <2>1. UNCHANGED <<history, store, rv, synth, pos, stopCh>>
        BY <1>7 DEF CacheAdvance, ListFails, WatchRefused, serverVars, streamVars
    <2>2. pc' = "backoff" \/ pc' = pc
        BY <1>7 DEF CacheAdvance, ListFails, WatchRefused
    <2> QED
        BY <1>5, <2>1, <2>2
<1>8. CASE VeryShortWatch \/ StopWatching \/ Cancel \/ \E i \in Streams : ReceiveError(i) \/ StreamEnds(i)
    <2>1. UNCHANGED <<history, store, rv, synth, pos>> /\ (stopCh => stopCh')
        BY <1>8 DEF VeryShortWatch, StopWatching, Cancel, ReceiveError, StreamEnds, serverVars, streamVars
    <2>2. pc' = "backoff" \/ pc' = pc
        BY <1>8 DEF VeryShortWatch, StopWatching, Cancel, ReceiveError, StreamEnds
    <2> QED
        BY <1>5, <2>1, <2>2
<1>10. CASE StopListing \/ LoopHead \/ WatchFails
    <2>1. UNCHANGED <<history, store, rv, synth, pos, stopCh>>
        BY <1>10 DEF StopListing, LoopHead, WatchFails, serverVars, streamVars
    <2>2. ResumeInv'
        <3>1. CASE StopListing
            <4>1. pc = "list" /\ pc' = "loop" /\ stopCh
                BY <3>1 DEF StopListing
            <4>2. rv = <<>> /\ Len(rv) = 0 /\ NumStreams # 0
                BY <4>1, ReflectorAssumption DEF SnapshotInv, ResumeInv
            <4> QED
                BY <2>1, <4>1, <4>2 DEF ResumeInv
        <3>2. CASE LoopHead
            <4>1. pc = "loop" /\ pc' = IF stopCh THEN "backoff" ELSE "watch"
                BY <3>2 DEF LoopHead
            <4> QED
                BY <2>1, <4>1 DEF SnapshotInv, ResumeInv
        <3>3. CASE WatchFails
            <4>1. pc = "watch" /\ pc' \in {"loop", "backoff"}
                BY <3>3 DEF WatchFails
            <4> QED
                BY <2>1, <4>1 DEF SnapshotInv, ResumeInv
        <3> QED
            BY <1>10, <3>1, <3>2, <3>3
    <2>3. StoreIsSnapshot'
        BY <1>10 DEF StopListing, LoopHead, WatchFails, StoreIsSnapshot
    <2> QED
        BY <2>1, <2>2, <2>3, SnapshotOutside
<1>11. CASE SyncFails \/ Backoff
    <2>1. history' = history /\ pc' \in {"backoff", "list", "done"} /\ (pc' = "list" => rv' = <<>>)
        BY <1>11 DEF SyncFails, Backoff, serverVars
    <2>2. ResumeInv' /\ StoreIsSnapshot'
        BY <2>1 DEF ResumeInv, StoreIsSnapshot
    <2> QED
        BY <2>1, <2>2, SnapshotOutside
<1>9. CASE UNCHANGED vars
    BY <1>5, <1>9 DEF vars
<1> QED
    BY <1>1, <1>2, <1>3, <1>4, <1>6, <1>7, <1>8, <1>9, <1>10, <1>11 DEF Next, Server

\* Without sharding the store is, at every moment of a watch, exactly each
\* namespace at the version its stream was delivered to: for any number of
\* namespaces that share no object, any lag of the lists behind each other and
\* any sequence of broken watches, refused resource versions, new lists and
\* interrupted ones.
THEOREM StoreSnapshot == Plain => (Spec => []StoreIsSnapshot)
<1> SUFFICES ASSUME Plain PROVE Spec => []StoreIsSnapshot
    OBVIOUS
<1>1. Init => SnapshotInv
    <2> SUFFICES ASSUME Init PROVE SnapshotInv
        OBVIOUS
    <2>1. Rev = 1
        BY DEF Init, Rev
    <2>2. OneChange
        BY <2>1 DEF OneChange
    <2>3. ResumeInv /\ StoreIsSnapshot
        BY DEF Init, ResumeInv, StoreIsSnapshot
    <2> QED
        BY <2>2, <2>3 DEF SnapshotInv
<1>2. IInv /\ SnapshotInv /\ [Next]_vars => SnapshotInv'
    BY NextSnapshot
<1>3. SnapshotInv => StoreIsSnapshot
    BY DEF SnapshotInv
<1> QED
    BY InitIInv, NextIInv, <1>1, <1>2, <1>3, PTL DEF Spec
=============================================================================
