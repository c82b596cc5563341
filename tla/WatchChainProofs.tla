-------------------------- MODULE WatchChainProofs --------------------------
(* The goroutines of a watch lose, repeat and reorder nothing, for every       *)
(* number of namespaces and of events and every way the ListerWatchers are     *)
(* stacked.                                                                    *)
EXTENDS WatchChain, TLAPS

Events(i) == [stream : {i}, n : Nat, kind : {"in", "out", "error"}]

\* A goroutine that holds nothing, or one of the events of S.
Slots(S) == {Idle, Reading, Done} \cup {Sending(e) : e \in S}

\* The stage between the streams and the rest: of a denylist watch, what is not
\* denied.
Forwarded(i) == {e \in Range(sent[i]) : layout.mode = "denylist" => e.kind = "in"}

\* Types of the variables over the streams, and what each goroutine may hold.
StreamsInv ==
    /\ layout \in Layouts
    /\ sent \in [Streams -> Seq(UNION {Events(i) : i \in Streams})]
    /\ \A i \in Streams : /\ sent[i] \in Seq(Events(i))
                          /\ \A n \in DOMAIN sent[i] : sent[i][n].n = n
    /\ got \in [Streams -> Seq(UNION {Events(i) : i \in Streams})]
    /\ receive = [i \in Streams |-> receive[i]]
    /\ forward = [i \in Streams |-> forward[i]]
    /\ \A i \in Streams : /\ receive[i] \in Slots(Range(sent[i]))
                          /\ forward[i] \in Slots(Forwarded(i))
    /\ filter \in Slots(UNION {Passing(i) : i \in Streams})

\* Which goroutines run, and what their ends say of the ends of others.
ControlInv ==
    /\ opened \in 0..NumStreams /\ stoppers \in 0..NumStreams
    /\ ended \cup closing \subseteq 1..opened
    /\ reader \in {"opening", "failed", "reading", "closed", "stopping", "left"}
    /\ reader = "opening" => opened < NumStreams
    /\ reader \notin {"opening", "failed"} => opened = NumStreams
    /\ \A i \in Streams : i > opened => receive[i] = Idle /\ forward[i] = Idle
    /\ layout.mode = "single" => \A i \in Streams : forward[i] = Idle
    /\ ~layout.sharded \/ reader \in {"opening", "failed"} => filter = Idle
    /\ result \in BOOLEAN /\ stopped \in BOOLEAN
    /\ stopped => reader = "left"
    /\ result => /\ layout.mode = "multi" /\ reader \notin {"opening", "failed"}
                 /\ \A i \in Streams : forward[i] = Done
    /\ \A i \in Streams : forward[i] = Done /\ ~stopped => receive[i] = Done
    /\ filter = Done => InputClosed
    /\ reader = "closed" => InputClosed /\ (layout.sharded => filter = Done)

\* The inductive invariant.
IInv == StreamsInv /\ ControlInv /\ NothingLost

-----------------------------------------------------------------------------
(* One stream: P passes the filters, s was read, and F, W and R are in the     *)
(* hands of the filter, the forwarding and the receiving goroutine.            *)

Lossless(P, s, F, W, R, stop) ==
    /\ \A m, n \in DOMAIN s : m < n => s[m].n < s[n].n
    /\ Range(s) \subseteq P
    /\ \A e \in P, f \in Range(s) : e.n < f.n => e \in Range(s)
    /\ Before(Range(s), F)
    /\ Before(Range(s) \cup F, W)
    /\ Before(Range(s) \cup F \cup W, R)
    /\ ~stop => P \subseteq Range(s) \cup F \cup W \cup R

Filtered(i) == {e \in filter.event : e.stream = i}

\* NothingLost speaks of each stream on its own.
LEMMA LosslessStreams ==
    NothingLost <=> \A i \in Streams :
        Lossless(Passing(i), got[i], Filtered(i), forward[i].event, receive[i].event, stopped)
    BY DEF NothingLost, Lossless, Filtered

\* So it holds after a step that leaves each stream lossless.
LEMMA LosslessNext ==
    ASSUME Streams' = Streams,
           \A i \in Streams : Lossless(Passing(i)', got'[i], Filtered(i)', forward'[i].event,
                                       receive'[i].event, stopped')
    PROVE  NothingLost'
<1>1. (NothingLost <=> \A i \in Streams :
         Lossless(Passing(i), got[i], Filtered(i), forward[i].event, receive[i].event, stopped))'
    BY LosslessStreams, PTL
<1> QED
    BY <1>1

\* An event moves on from the receiving to the forwarding goroutine.
LEMMA MoveToForward ==
    ASSUME NEW P, NEW s, NEW F, NEW R, NEW stop, Lossless(P, s, F, {}, R, stop)
    PROVE  Lossless(P, s, F, R, {}, stop)
    BY DEF Lossless, Before

\* It moves on from there to the filter.
LEMMA MoveToFilter ==
    ASSUME NEW P, NEW s, NEW W, NEW R, NEW stop, Lossless(P, s, {}, W, R, stop)
    PROVE  Lossless(P, s, W, {}, R, stop)
    BY DEF Lossless, Before

\* It does not pass a filter, or the watch was stopped.
LEMMA Drop ==
    ASSUME NEW P, NEW s, NEW F, NEW W, NEW R, NEW stop, Lossless(P, s, F, W, R, stop),
           NEW F2 \in SUBSET F, NEW W2 \in SUBSET W, NEW R2 \in SUBSET R, NEW stop2, stop => stop2,
           stop2 \/ (F \cup W \cup R) \cap P \subseteq F2 \cup W2 \cup R2
    PROVE  Lossless(P, s, F2, W2, R2, stop2)
    BY DEF Lossless, Before

\* The server sends one more event.
LEMMA OneMore ==
    ASSUME NEW P, NEW s, NEW F, NEW W, NEW stop, Lossless(P, s, F, W, {}, stop), NEW e, NEW Q,
           P \subseteq Q, Q \subseteq P \cup {e}, e.n \in Nat,
           \A f \in P \cup F \cup W : f.n \in Nat /\ f.n < e.n
    PROVE  Lossless(Q, s, F, W, {e}, stop)
<1>1. \A f \in Range(s) : f.n \in Nat /\ f.n < e.n
    BY DEF Lossless
<1>2. \A x \in Q, f \in Range(s) : x.n < f.n => x \in Range(s)
    BY <1>1 DEF Lossless
<1>3. Before(Range(s) \cup F \cup W, {e})
    BY <1>1 DEF Before
<1> QED
    BY <1>2, <1>3 DEF Lossless

\* The reflector reads what comes first.
LEMMA ReadNext ==
    ASSUME NEW E, \A x \in E : x.n \in Nat, NEW P \in SUBSET E, NEW s \in Seq(E), NEW e \in P,
           NEW W \in SUBSET E, NEW R \in SUBSET E, Lossless(P, s, {e}, W, R, FALSE)
    PROVE  Lossless(P, Append(s, e), {}, W, R, FALSE)
<1> DEFINE t == Append(s, e)
<1>1. /\ DOMAIN t = 1..(Len(s) + 1) /\ DOMAIN s = 1..Len(s) /\ Len(s) \in Nat
      /\ \A n \in 1..Len(s) : t[n] = s[n]
      /\ t[Len(s) + 1] = e
    OBVIOUS
<1> HIDE DEF t
<1>2. Range(t) = Range(s) \cup {e}
    <2>1. \A n \in DOMAIN t : t[n] \in Range(s) \cup {e}
        BY <1>1 DEF Range
    <2>2. \A x \in Range(s) : x \in Range(t)
        BY <1>1 DEF Range
    <2>3. e \in Range(t)
        BY <1>1 DEF Range
    <2> QED
        BY <2>1, <2>2, <2>3 DEF Range
<1>3. \A x \in Range(s) : x.n \in Nat /\ x.n < e.n
    BY DEF Lossless, Before
<1>4. ASSUME NEW m \in DOMAIN t, NEW n \in DOMAIN t, m < n PROVE t[m].n < t[n].n
    <2>1. CASE n = Len(s) + 1
        <3>1. m \in 1..Len(s) /\ t[m] = s[m] /\ s[m] \in Range(s)
            BY <1>1, <1>4, <2>1 DEF Range
        <3> QED
            BY <1>1, <1>3, <2>1, <3>1
    <2>2. CASE n # Len(s) + 1
        <3>1. m \in 1..Len(s) /\ n \in 1..Len(s)
            BY <1>1, <1>4, <2>2
        <3> QED
            BY <1>1, <1>4, <3>1 DEF Lossless
    <2> QED
        BY <2>1, <2>2
<1>5. ASSUME NEW x \in P, NEW f \in Range(t), x.n < f.n PROVE x \in Range(t)
    <2>1. CASE f \in Range(s)
        BY <1>2, <1>5, <2>1 DEF Lossless
    <2>2. CASE f = e
        <3>1. x \in Range(s) \cup {e} \cup W \cup R
            BY DEF Lossless
        <3>2. x \notin W /\ x \notin R
            BY <1>5, <2>2 DEF Lossless, Before
        <3> QED
            BY <1>2, <3>1, <3>2
    <2> QED
        BY <1>2, <2>1, <2>2
<1>6. Lossless(P, t, {}, W, R, FALSE)
    BY <1>2, <1>4, <1>5 DEF Lossless, Before
<1> QED
    BY <1>6 DEF t

-----------------------------------------------------------------------------
(* Goroutines.                                                             *)

\* The states of a goroutine, told apart.
LEMMA SlotStates ==
    /\ Idle # Reading /\ Idle # Done /\ Reading # Done
    /\ Idle.at = "idle" /\ Reading.at = "read" /\ Done.at = "done"
    /\ Idle.event = {} /\ Reading.event = {} /\ Done.event = {}
    /\ \A e : /\ Sending(e).at = "send" /\ Sending(e).event = {e}
              /\ Sending(e) \notin {Idle, Reading, Done}
    BY DEF Idle, Reading, Done, Sending

\* What a goroutine holds.
LEMMA SlotHolds ==
    ASSUME NEW S, NEW g \in Slots(S)
    PROVE  /\ g.event \subseteq S
           /\ g.at = "send" => \E e \in S : g = Sending(e)
           /\ g.at # "send" => g \in {Idle, Reading, Done} /\ g.event = {}
    BY SlotStates DEF Slots

\* One goroutine of those over the streams takes a step.
LEMMA Updated ==
    ASSUME NEW S, NEW f, f = [j \in S |-> f[j]], NEW i \in S, NEW x
    PROVE  LET g == [f EXCEPT ![i] = x]
           IN  /\ g = [j \in S |-> g[j]]
               /\ \A j \in S : g[j] = IF j = i THEN x ELSE f[j]
    OBVIOUS

\* The layout of a watch does not change.
LEMMA LayoutStays == [Next]_vars => layout' = layout /\ Streams' = Streams /\ NumStreams' = NumStreams
<1>1. [Next]_vars => layout' = layout
    BY DEF Next, vars, Watch, WatchFails, ServerEnds, Decode, DecodeFails, ReceiveSends,
           ForwardSends, ForwardSeesEnd, ForwardSeesStop, CloseResult, FilterSends,
           FilterSeesEnd, ReaderSeesEnd, ReaderLeaves, Stop
<1> QED
    BY <1>1 DEF Streams, NumStreams

\* A layout has at least one stream, and more than one only through multiWatch.
LEMMA LayoutTyped ==
    ASSUME StreamsInv
    PROVE  /\ NumStreams \in Nat \ {0} /\ Streams = 1..NumStreams
           /\ layout.mode \in {"single", "denylist", "multi"} /\ layout.sharded \in BOOLEAN
           /\ layout.mode # "multi" => Streams = {1}
<1>1. layout \in AllLayouts
    BY LayoutsAssumption DEF StreamsInv
<1> QED
    BY <1>1, LayoutsAssumption DEF AllLayouts, Streams, NumStreams

-----------------------------------------------------------------------------
(* Control.                                                                *)

\* The streams are opened, and the server ends them.
LEMMA OpeningControl ==
    ASSUME StreamsInv, ControlInv, layout' = layout, Streams' = Streams, NumStreams' = NumStreams,
           Watch \/ WatchFails \/ \E i \in Streams : ServerEnds(i)
    PROVE  ControlInv'
<1>1. /\ receive = [i \in Streams |-> receive[i]] /\ forward = [i \in Streams |-> forward[i]]
    BY DEF StreamsInv
<1>2. CASE Watch
    <2> DEFINE k == opened + 1
    <2>1. reader = "opening" /\ opened < NumStreams /\ opened \in 0..NumStreams
        BY <1>2 DEF Watch, ControlInv
    <2>2. opened' = k /\ k \in Streams /\ k \in 0..NumStreams
        BY <1>2, <2>1, LayoutTyped DEF Watch
    <2>3. \A j \in Streams : receive'[j] = IF j = k THEN Reading ELSE receive[j]
        BY <1>1, <1>2, <2>2 DEF Watch
    <2>4. \A j \in Streams : forward'[j] =
                IF j = k THEN (IF layout.mode = "single" THEN Idle ELSE Reading) ELSE forward[j]
        BY <1>1, <1>2, <2>2 DEF Watch
    <2>5. /\ ~result /\ ~stopped /\ filter = Idle
          /\ UNCHANGED <<ended, closing, result, stopped, stoppers>>
        BY <1>2, <2>1 DEF Watch, ControlInv
    <2>6. \/ k = NumStreams /\ reader' = "reading" /\ filter' \in {Idle, Reading}
             /\ (~layout.sharded => filter' = Idle)
          \/ k # NumStreams /\ reader' = "opening" /\ filter' = Idle
        BY <1>2, <2>1, <2>2, <2>5 DEF Watch
    <2> HIDE DEF k
    <2>7. opened' \in 0..NumStreams /\ stoppers' \in 0..NumStreams
        BY <2>2, <2>5 DEF ControlInv
    <2>8. ended' \cup closing' \subseteq 1..opened'
        BY <2>1, <2>2, <2>5 DEF ControlInv, k
    <2>9. reader' = "opening" => opened' < NumStreams
        BY <2>2, <2>6, LayoutTyped
    <2>10. \A i \in Streams : i > opened' => receive'[i] = Idle /\ forward'[i] = Idle
        BY <2>1, <2>2, <2>3, <2>4, LayoutTyped DEF ControlInv, k
    <2>11. layout.mode = "single" => \A i \in Streams : forward'[i] = Idle
        BY <2>4 DEF ControlInv
    <2>12. \A i \in Streams : forward'[i] = Done /\ ~stopped' => receive'[i] = Done
        BY <2>3, <2>4, <2>5, SlotStates DEF ControlInv
    <2>13. filter' # Done
        BY <2>6, SlotStates
    <2> QED
        BY <2>2, <2>5, <2>6, <2>7, <2>8, <2>9, <2>10, <2>11, <2>12, <2>13 DEF ControlInv
<1>3. CASE WatchFails
    BY <1>3 DEF WatchFails, ControlInv, InputClosed
<1>4. ASSUME NEW i \in Streams, ServerEnds(i) PROVE ControlInv'
    <2>1. ended' \cup closing' \subseteq 1..opened'
        BY <1>4, LayoutTyped DEF ServerEnds, ControlInv
    <2> QED
        BY <1>4, <2>1 DEF ServerEnds, ControlInv, InputClosed
<1> QED
    BY <1>2, <1>3, <1>4

\* The goroutines of stream i.
LEMMA StreamControl ==
    ASSUME StreamsInv, ControlInv, layout' = layout, Streams' = Streams, NumStreams' = NumStreams,
           NEW i \in Streams,
           \/ Decode(i) \/ DecodeFails(i) \/ ReceiveSends(i)
           \/ ForwardSends(i) \/ ForwardSeesEnd(i) \/ ForwardSeesStop(i)
    PROVE  ControlInv'
<1>1. /\ receive = [j \in Streams |-> receive[j]] /\ forward = [j \in Streams |-> forward[j]]
      /\ receive[i] \in Slots(Range(sent[i])) /\ forward[i] \in Slots(Forwarded(i))
    BY DEF StreamsInv
<1>2. i <= opened /\ i \in 1..opened
    <2>1. receive[i] # Idle \/ forward[i] # Idle
        BY SlotStates DEF Decode, DecodeFails, ReceiveSends, ForwardSends, ForwardSeesEnd, ForwardSeesStop
    <2> QED
        BY <2>1, LayoutTyped DEF ControlInv
<1>3. CASE Decode(i) \/ DecodeFails(i)
    <2>1. /\ receive[i] = Reading /\ \A j \in Streams : j # i => receive'[j] = receive[j]
          /\ receive'[i] # Idle
          /\ UNCHANGED <<opened, forward, result, stopped, filter, reader, stoppers>>
        BY <1>1, <1>3, SlotStates DEF Decode, DecodeFails
    <2>2. ended' \cup closing' \subseteq 1..opened'
        BY <1>2, <1>3 DEF Decode, DecodeFails, ControlInv
    <2>3. ~(forward[i] = Done /\ ~stopped) /\ receive[i] # Done
        BY <2>1, SlotStates DEF ControlInv
    <2>4. InputClosed => InputClosed'
        BY <2>1, <2>3, LayoutTyped DEF InputClosed
    <2> QED
        BY <1>2, <2>1, <2>2, <2>3, <2>4, LayoutTyped DEF ControlInv
<1>4. CASE ReceiveSends(i)
    <2>1. /\ receive[i].at = "send" /\ receive[i] # Done /\ receive'[i] = Reading
          /\ \A j \in Streams : j # i => receive'[j] = receive[j]
          /\ UNCHANGED <<opened, ended, closing, result, stopped, stoppers>>
        BY <1>1, <1>4, SlotStates DEF ReceiveSends
    <2>2. CASE layout.mode = "single"
        <3>1. forward' = forward /\ \E e : Pass(e)
            BY <1>4, <2>2 DEF ReceiveSends
        <3>2. ~InputClosed
            BY <2>1, <2>2, LayoutTyped, SlotStates DEF InputClosed
        <3>3. CASE layout.sharded
            <4>1. filter = Reading /\ filter' \notin {Idle, Done} /\ reader' = reader
                BY <3>1, <3>3, SlotStates DEF Pass, NextReads
            <4> QED
                BY <1>2, <2>1, <2>2, <3>1, <3>2, <3>3, <4>1, SlotStates, LayoutTyped DEF ControlInv
        <3>4. CASE ~layout.sharded
            <4>1. reader = "reading" /\ reader' \in {"reading", "stopping"} /\ filter' = filter
                BY <3>1, <3>4 DEF Pass, NextReads, Read
            <4> QED
                BY <1>2, <2>1, <2>2, <3>1, <3>2, <3>4, <4>1, SlotStates, LayoutTyped DEF ControlInv
        <3> QED
            BY <3>3, <3>4
    <2>3. CASE layout.mode # "single"
        <3>1. /\ forward[i] = Reading /\ forward'[i] \notin {Idle, Done}
              /\ \A j \in Streams : j # i => forward'[j] = forward[j]
              /\ UNCHANGED <<filter, reader>>
            BY <1>1, <1>4, <2>3, SlotStates DEF ReceiveSends, Forward
        <3>2. ~result
            BY <3>1, SlotStates DEF ControlInv
        <3>3. ~InputClosed
            BY <2>3, <3>1, <3>2, LayoutTyped, SlotStates DEF InputClosed
        <3> QED
            BY <1>2, <2>1, <2>3, <3>1, <3>2, <3>3, LayoutTyped DEF ControlInv
    <2> QED
        BY <2>2, <2>3
<1>5. CASE ForwardSends(i)
    <2>1. /\ forward[i].at = "send" /\ forward[i] \notin {Idle, Done} /\ forward'[i] = Reading
          /\ \A j \in Streams : j # i => forward'[j] = forward[j]
          /\ UNCHANGED <<opened, ended, closing, receive, result, stopped, stoppers>>
          /\ \E e : Pass(e)
        BY <1>1, <1>5, SlotStates DEF ForwardSends
    <2>2. layout.mode # "single" /\ ~result
        BY <2>1 DEF ControlInv
    <2>3. ~InputClosed
        BY <2>1, <2>2, LayoutTyped DEF InputClosed
    <2>4. CASE layout.sharded
        <3>1. filter = Reading /\ filter' \notin {Idle, Done} /\ reader' = reader
            BY <2>1, <2>4, SlotStates DEF Pass, NextReads
        <3> QED
            BY <1>2, <2>1, <2>2, <2>3, <2>4, <3>1, SlotStates, LayoutTyped DEF ControlInv
    <2>5. CASE ~layout.sharded
        <3>1. reader = "reading" /\ reader' \in {"reading", "stopping"} /\ filter' = filter
            BY <2>1, <2>5 DEF Pass, NextReads, Read
        <3> QED
            BY <1>2, <2>1, <2>2, <2>3, <2>5, <3>1, SlotStates, LayoutTyped DEF ControlInv
    <2> QED
        BY <2>4, <2>5
<1>6. CASE ForwardSeesEnd(i) \/ ForwardSeesStop(i)
    <2>1. /\ forward[i] \notin {Idle, Done} /\ forward'[i] = Done
          /\ \A j \in Streams : j # i => forward'[j] = forward[j]
          /\ UNCHANGED <<opened, ended, receive, result, stopped, filter, reader, stoppers>>
          /\ stopped \/ receive[i] = Done
        BY <1>1, <1>6, SlotStates DEF ForwardSeesEnd, ForwardSeesStop
    <2>2. ended' \cup closing' \subseteq 1..opened'
        BY <1>2, <1>6 DEF ForwardSeesEnd, ForwardSeesStop, ControlInv
    <2>3. layout.mode # "single" /\ ~result
        BY <2>1 DEF ControlInv
    <2>4. InputClosed => InputClosed'
        BY <2>1, <2>3, LayoutTyped DEF InputClosed
    <2> QED
        BY <1>2, <2>1, <2>2, <2>3, <2>4, LayoutTyped DEF ControlInv
<1> QED
    BY <1>3, <1>4, <1>5, <1>6

\* What is shared by the streams: the result channel, the filter, the reflector.
LEMMA SharedControl ==
    ASSUME StreamsInv, ControlInv, layout' = layout, Streams' = Streams, NumStreams' = NumStreams,
           \/ CloseResult \/ FilterSends \/ FilterSeesEnd
           \/ ReaderSeesEnd \/ ReaderLeaves \/ Stop
    PROVE  ControlInv'
<1>1. CASE CloseResult
    <2>1. InputClosed => InputClosed'
        BY <1>1 DEF CloseResult, InputClosed
    <2> QED
        BY <1>1, <2>1 DEF CloseResult, ControlInv
<1>2. CASE FilterSends
    <2>1. /\ filter.at = "send" /\ filter # Done /\ filter' = Reading /\ reader = "reading"
          /\ reader' \in {"reading", "stopping"}
          /\ UNCHANGED <<opened, ended, closing, receive, forward, result, stopped, stoppers>>
        BY <1>2, SlotStates DEF FilterSends, Read
    <2>2. layout.sharded
        BY <2>1, SlotStates DEF ControlInv
    <2> QED
        BY <2>1, <2>2, SlotStates DEF ControlInv
<1>3. CASE FilterSeesEnd
    <2>1. filter = Reading /\ layout.sharded /\ reader \notin {"opening", "failed"}
        BY <1>3, SlotStates DEF FilterSeesEnd, ControlInv
    <2>2. InputClosed /\ InputClosed'
        BY <1>3 DEF FilterSeesEnd, InputClosed
    <2> QED
        BY <1>3, <2>1, <2>2 DEF FilterSeesEnd, ControlInv
<1>4. CASE ReaderSeesEnd
    <2>1. InputClosed /\ (layout.sharded => filter = Done)
        BY <1>4 DEF ReaderSeesEnd, ControlInv
    <2>2. InputClosed' = InputClosed
        BY <1>4 DEF ReaderSeesEnd, InputClosed
    <2> QED
        BY <1>4, <2>1, <2>2 DEF ReaderSeesEnd, ControlInv
<1>5. CASE ReaderLeaves
    <2>1. InputClosed' = InputClosed
        BY <1>5 DEF ReaderLeaves, InputClosed
    <2> QED
        BY <1>5, <2>1 DEF ReaderLeaves, ControlInv
<1>6. CASE Stop
    <2>1. /\ reader \in {"closed", "stopping"} /\ opened = NumStreams
          /\ UNCHANGED <<opened, ended, receive, forward, result, filter>>
        BY <1>6 DEF Stop, ControlInv
    <2>2. InputClosed' = InputClosed
        BY <2>1 DEF InputClosed
    <2>3. CASE layout.mode = "multi" /\ stoppers < NumStreams
        <3>1. /\ stoppers' = stoppers + 1 /\ closing' = closing \cup {stoppers'}
              /\ UNCHANGED <<stopped, reader>>
            BY <1>6, <2>3 DEF Stop
        <3>2. stoppers' \in 0..NumStreams /\ stoppers' \in 1..opened
            BY <2>1, <2>3, <3>1, LayoutTyped DEF ControlInv
        <3>3. ended' \cup closing' \subseteq 1..opened'
            BY <2>1, <3>1, <3>2 DEF ControlInv
        <3> QED
            BY <2>1, <2>2, <3>1, <3>2, <3>3 DEF ControlInv
    <2>4. CASE ~(layout.mode = "multi" /\ stoppers < NumStreams)
        <3>1. /\ stopped' = (layout.mode # "single") /\ reader' = "left" /\ stoppers' = stoppers
              /\ closing' = IF layout.mode = "single" THEN {1} ELSE closing
            BY <1>6, <2>4 DEF Stop
        <3>2. 1 \in 1..opened
            BY <2>1, LayoutTyped
        <3>3. ended' \cup closing' \subseteq 1..opened'
            BY <2>1, <3>1, <3>2 DEF ControlInv
        <3>4. ~stopped
            BY <2>1 DEF ControlInv
        <3> QED
            BY <2>1, <2>2, <3>1, <3>3, <3>4 DEF ControlInv
    <2> QED
        BY <2>3, <2>4
<1> QED
    BY <1>1, <1>2, <1>3, <1>4, <1>5, <1>6

-----------------------------------------------------------------------------
(* Events.                                                                 *)

\* What is sent is numbered, and of its stream.
LEMMA EventTyped ==
    ASSUME StreamsInv, NEW i \in Streams, NEW e \in Range(sent[i])
    PROVE  e \in Events(i) /\ e.stream = i /\ e.n \in 1..Len(sent[i]) /\ Len(sent[i]) \in Nat
<1>1. sent[i] \in Seq(Events(i)) /\ \A n \in DOMAIN sent[i] : sent[i][n].n = n
    BY DEF StreamsInv
<1>2. PICK n \in DOMAIN sent[i] : e = sent[i][n]
    BY DEF Range
<1>3. n \in 1..Len(sent[i]) /\ e.n = n /\ e \in Events(i) /\ Len(sent[i]) \in Nat
    BY <1>1, <1>2
<1> QED
    BY <1>3 DEF Events

\* What the goroutines of a stream and the filter hold of it was sent.
LEMMA HeldWasSent ==
    ASSUME StreamsInv, NEW i \in Streams
    PROVE  /\ receive[i].event \subseteq Range(sent[i])
           /\ forward[i].event \subseteq Forwarded(i) /\ Forwarded(i) \subseteq Range(sent[i])
           /\ Filtered(i) \subseteq Passing(i) /\ Passing(i) \subseteq Range(sent[i])
<1>1. receive[i].event \subseteq Range(sent[i]) /\ forward[i].event \subseteq Forwarded(i)
    BY SlotHolds DEF StreamsInv
<1>2. Forwarded(i) \subseteq Range(sent[i]) /\ \A j \in Streams : Passing(j) \subseteq Range(sent[j])
    BY DEF Forwarded, Passing
<1>3. ASSUME NEW e \in Filtered(i) PROVE e \in Passing(i)
    <2>1. filter.event \subseteq UNION {Passing(j) : j \in Streams}
        BY SlotHolds DEF StreamsInv
    <2>2. PICK j \in Streams : e \in Passing(j)
        BY <1>3, <2>1 DEF Filtered
    <2>3. e.stream = j /\ e.stream = i
        BY <1>2, <1>3, <2>2, EventTyped DEF Filtered
    <2> QED
        BY <2>2, <2>3
<1> QED
    BY <1>1, <1>2, <1>3

\* A step on which no event is handed over, none comes in and none is dropped.
LEMMA QuietStep ==
    ASSUME IInv, Streams' = Streams, UNCHANGED <<layout, sent, got>>,
           \A i \in Streams : /\ receive'[i].event = receive[i].event
                              /\ forward'[i].event = forward[i].event,
           filter'.event = filter.event,
           stopped => stopped'
    PROVE  NothingLost'
<1>1. \A i \in Streams : Passing(i)' = Passing(i) /\ Filtered(i)' = Filtered(i)
    BY DEF Passing, Filtered
<1>2. ASSUME NEW i \in Streams
      PROVE  Lossless(Passing(i)', got'[i], Filtered(i)', forward'[i].event, receive'[i].event, stopped')
    <2>1. Lossless(Passing(i), got[i], Filtered(i), forward[i].event, receive[i].event, stopped)
        BY LosslessStreams DEF IInv
    <2>2. Lossless(Passing(i), got[i], Filtered(i), forward[i].event, receive[i].event, stopped')
        BY <2>1, Drop, SMTT(30)
    <2> QED
        BY <1>1, <2>2
<1> QED
    BY <1>2, LosslessNext

\* A step after which every goroutine holds what it may hold.
LEMMA SlotsFrame ==
    ASSUME StreamsInv, Streams' = Streams, UNCHANGED <<layout, sent>>,
           got' \in [Streams -> Seq(UNION {Events(i) : i \in Streams})],
           receive' = [i \in Streams |-> receive'[i]], forward' = [i \in Streams |-> forward'[i]],
           \A i \in Streams : /\ receive'[i] \in Slots(Range(sent[i]))
                              /\ forward'[i] \in Slots(Forwarded(i)),
           filter' \in Slots(UNION {Passing(i) : i \in Streams})
    PROVE  StreamsInv'
<1>1. \A i \in Streams : Passing(i)' = Passing(i) /\ Forwarded(i)' = Forwarded(i)
    BY DEF Passing, Forwarded
<1>2. (UNION {Passing(i) : i \in Streams})' = UNION {Passing(i) : i \in Streams}
    BY <1>1
<1>3. \A i \in Streams : /\ receive'[i] \in Slots(Range(sent'[i]))
                         /\ forward'[i] \in Slots(Forwarded(i)')
    BY <1>1
<1>4. filter' \in Slots((UNION {Passing(i) : i \in Streams})')
    BY <1>2
<1> QED
    BY <1>3, <1>4 DEF StreamsInv

\* The steps that hand over nothing.
LEMMA QuietSteps ==
    ASSUME IInv, layout' = layout, Streams' = Streams,
           \/ Watch \/ WatchFails
           \/ \E i \in Streams : ServerEnds(i) \/ DecodeFails(i) \/ ForwardSeesEnd(i)
           \/ CloseResult \/ FilterSeesEnd \/ ReaderSeesEnd \/ ReaderLeaves \/ Stop
    PROVE  StreamsInv' /\ NothingLost'
<1>1. /\ receive = [i \in Streams |-> receive[i]] /\ forward = [i \in Streams |-> forward[i]]
      /\ got \in [Streams -> Seq(UNION {Events(i) : i \in Streams})]
      /\ \A i \in Streams : /\ receive[i] \in Slots(Range(sent[i]))
                            /\ forward[i] \in Slots(Forwarded(i))
      /\ filter \in Slots(UNION {Passing(i) : i \in Streams})
    BY DEF IInv, StreamsInv
<1>2. UNCHANGED <<sent, got>>
    BY DEF Watch, WatchFails, ServerEnds, DecodeFails, ForwardSeesEnd, CloseResult, FilterSeesEnd,
           ReaderSeesEnd, ReaderLeaves, Stop
<1>3. stopped => stopped'
    <2>1. Stop => ~stopped
        BY DEF Stop, IInv, ControlInv
    <2> QED
        BY <2>1 DEF Watch, WatchFails, ServerEnds, DecodeFails, ForwardSeesEnd, CloseResult,
           FilterSeesEnd, ReaderSeesEnd, ReaderLeaves
<1>4. \A S : {Idle, Reading, Done} \subseteq Slots(S)
    BY DEF Slots
<1>5. filter' \in Slots(UNION {Passing(i) : i \in Streams}) /\ filter'.event = filter.event
    <2>1. Watch => filter = Idle
        BY DEF Watch, IInv, ControlInv
    <2>2. \/ filter' = filter
          \/ filter \in {Idle, Reading} /\ filter' \in {Idle, Reading, Done}
        BY <2>1 DEF Watch, WatchFails, ServerEnds, DecodeFails, ForwardSeesEnd, CloseResult,
           FilterSeesEnd, ReaderSeesEnd, ReaderLeaves, Stop
    <2> QED
        BY <1>1, <1>4, <2>2, SlotStates
<1> DEFINE Empty ==
      /\ receive' = [i \in Streams |-> receive'[i]] /\ forward' = [i \in Streams |-> forward'[i]]
      /\ \A i \in Streams :
           /\ receive'[i] = receive[i] \/ (receive[i].event = {} /\ receive'[i] \in {Idle, Reading, Done})
           /\ forward'[i] = forward[i] \/ (forward[i].event = {} /\ forward'[i] \in {Idle, Reading, Done})
<1>6. Empty
    <2>1. CASE Watch
        <3> DEFINE k == opened + 1
                   x == IF layout.mode = "single" THEN Idle ELSE Reading
        <3>1. reader = "opening" /\ opened < NumStreams /\ opened \in 0..NumStreams
            BY <2>1 DEF Watch, IInv, ControlInv
        <3>2. k \in Streams /\ k > opened
            BY <3>1, LayoutTyped DEF IInv
        <3>3. receive[k] = Idle /\ forward[k] = Idle
            BY <3>2 DEF IInv, ControlInv
        <3>4. receive' = [receive EXCEPT ![k] = Reading] /\ forward' = [forward EXCEPT ![k] = x]
            BY <2>1 DEF Watch
        <3>5. x \in {Idle, Reading, Done}
            OBVIOUS
        <3> HIDE DEF k, x
        <3> QED
            BY <1>1, <3>2, <3>3, <3>4, <3>5, Updated, SlotStates
    <2>2. ASSUME NEW i \in Streams, DecodeFails(i) \/ ForwardSeesEnd(i)
          PROVE  Empty
        BY <1>1, <2>2, Updated, SlotStates, SMTT(30) DEF DecodeFails, ForwardSeesEnd
    <2>3. CASE UNCHANGED <<receive, forward>>
        BY <1>1, <2>3
    <2>4. \/ Watch \/ (\E i \in Streams : DecodeFails(i) \/ ForwardSeesEnd(i))
          \/ UNCHANGED <<receive, forward>>
        BY DEF WatchFails, ServerEnds, CloseResult, FilterSeesEnd, ReaderSeesEnd, ReaderLeaves, Stop
    <2> QED
        BY <2>1, <2>2, <2>3, <2>4
<1>7. \A i \in Streams : /\ receive'[i].event = receive[i].event /\ receive'[i] \in Slots(Range(sent[i]))
                         /\ forward'[i].event = forward[i].event /\ forward'[i] \in Slots(Forwarded(i))
    BY <1>1, <1>4, <1>6, SlotStates
<1>8. StreamsInv'
    BY <1>1, <1>2, <1>5, <1>6, <1>7, SlotsFrame DEF IInv
<1>9. NothingLost'
    BY <1>2, <1>3, <1>5, <1>7, QuietStep
<1> QED
    BY <1>8, <1>9

\* Decode returns one more event of stream i.
LEMMA DecodeStep ==
    ASSUME IInv, layout' = layout, Streams' = Streams, NEW i \in Streams, Decode(i)
    PROVE  StreamsInv' /\ NothingLost'
<1>1. PICK k \in Kinds : LET x == Event(i, Len(sent[i]) + 1, k)
                         IN  /\ sent' = [sent EXCEPT ![i] = Append(@, x)]
                             /\ receive' = [receive EXCEPT ![i] = Sending(x)]
    BY DEF Decode
<1> DEFINE e == Event(i, Len(sent[i]) + 1, k)
           t == Append(sent[i], e)
<1>2. /\ receive[i] = Reading /\ UNCHANGED <<forward, stopped, filter, got>>
      /\ sent' = [sent EXCEPT ![i] = t] /\ receive' = [receive EXCEPT ![i] = Sending(e)]
    BY <1>1 DEF Decode
<1>3. sent[i] \in Seq(Events(i)) /\ \A n \in DOMAIN sent[i] : sent[i][n].n = n
    BY DEF IInv, StreamsInv
<1>4. e \in Events(i) /\ e.n = Len(sent[i]) + 1 /\ e.stream = i /\ e.n \in Nat
    BY <1>3, SMTT(30) DEF Event, Events, Kinds
<1> HIDE DEF e
<1>5. /\ t \in Seq(Events(i)) /\ Len(t) = Len(sent[i]) + 1
      /\ DOMAIN t = 1..(Len(sent[i]) + 1) /\ DOMAIN sent[i] = 1..Len(sent[i]) /\ Len(sent[i]) \in Nat
      /\ \A n \in 1..Len(sent[i]) : t[n] = sent[i][n]
      /\ t[Len(sent[i]) + 1] = e
    BY <1>3, <1>4
<1> HIDE DEF t
<1>6. \A n \in DOMAIN t : t[n].n = n
    BY <1>3, <1>4, <1>5
<1>7. Range(t) = Range(sent[i]) \cup {e}
    <2>1. \A n \in DOMAIN t : t[n] \in Range(sent[i]) \cup {e}
        BY <1>5 DEF Range
    <2>2. \A x \in Range(sent[i]) : x \in Range(t)
        BY <1>5 DEF Range
    <2>3. e \in Range(t)
        BY <1>5 DEF Range
    <2> QED
        BY <2>1, <2>2, <2>3 DEF Range
<1>8. /\ receive = [j \in Streams |-> receive[j]]
      /\ \A j \in Streams : /\ receive[j] \in Slots(Range(sent[j]))
                            /\ forward[j] \in Slots(Forwarded(j))
      /\ filter \in Slots(UNION {Passing(j) : j \in Streams})
      /\ sent \in [Streams -> Seq(UNION {Events(j) : j \in Streams})]
    BY DEF IInv, StreamsInv
<1>9. \A j \in Streams : sent'[j] = IF j = i THEN t ELSE sent[j]
    BY <1>2, <1>8
<1>10. \A j \in Streams : Range(sent[j]) \subseteq Range(sent'[j])
    BY <1>7, <1>9
<1>11. \A j \in Streams : Passing(j) \subseteq Passing(j)' /\ Forwarded(j) \subseteq Forwarded(j)'
    BY <1>10 DEF Passing, Forwarded
<1>12. \A S, T : S \subseteq T => Slots(S) \subseteq Slots(T)
    BY DEF Slots
<1>13. StreamsInv'
    <2>1. sent' \in [Streams -> Seq(UNION {Events(j) : j \in Streams})]
        <3>1. t \in Seq(UNION {Events(j) : j \in Streams})
            <4>1. Events(i) \subseteq UNION {Events(j) : j \in Streams}
                OBVIOUS
            <4>2. \A n \in 1..Len(t) : t[n] \in UNION {Events(j) : j \in Streams}
                BY <1>5, <4>1
            <4> HIDE DEF Events
            <4> QED
                BY <1>5, <4>2
        <3> QED
            BY <1>2, <1>8, <3>1
    <2>2. \A j \in Streams : /\ sent'[j] \in Seq(Events(j))
                             /\ \A n \in DOMAIN sent'[j] : sent'[j][n].n = n
        BY <1>5, <1>6, <1>9 DEF IInv, StreamsInv
    <2>3. receive' = [j \in Streams |-> receive'[j]]
          /\ \A j \in Streams : receive'[j] = IF j = i THEN Sending(e) ELSE receive[j]
        BY <1>2, <1>8, Updated
    <2>4. \A j \in Streams : receive'[j] \in Slots(Range(sent'[j]))
        <3>1. Sending(e) \in Slots(Range(sent'[i]))
            BY <1>7, <1>9 DEF Slots
        <3> QED
            BY <1>8, <1>10, <1>12, <2>3, <3>1
    <2>5. \A j \in Streams : forward'[j] \in Slots(Forwarded(j)')
        BY <1>2, <1>8, <1>11, <1>12
    <2>6. filter' \in Slots((UNION {Passing(j) : j \in Streams})')
        <3>1. UNION {Passing(j) : j \in Streams} \subseteq (UNION {Passing(j) : j \in Streams})'
            BY <1>11
        <3> QED
            BY <1>2, <1>8, <1>12, <3>1
    <2> QED
        BY <1>2, <2>1, <2>2, <2>3, <2>4, <2>5, <2>6 DEF IInv, StreamsInv
<1>14. \A j \in Streams : Filtered(j)' = Filtered(j)
    BY <1>2 DEF Filtered
<1>15. ASSUME NEW j \in Streams
       PROVE  Lossless(Passing(j)', got'[j], Filtered(j)', forward'[j].event, receive'[j].event, stopped')
    <2>1. Lossless(Passing(j), got[j], Filtered(j), forward[j].event, receive[j].event, stopped)
        BY LosslessStreams DEF IInv
    <2>2. CASE j # i
        <3>1. Passing(j)' = Passing(j) /\ receive'[j] = receive[j]
            BY <1>2, <1>8, <1>9, <2>2 DEF Passing
        <3> QED
            BY <1>2, <1>14, <2>1, <3>1
    <2>3. CASE j = i
        <3>1. receive[i].event = {} /\ receive'[i].event = {e}
            BY <1>2, <1>8, Updated, SlotStates
        <3>2. Passing(i)' \subseteq Passing(i) \cup {e}
            BY <1>7, <1>9 DEF Passing
        <3>3. \A f \in Passing(i) \cup Filtered(i) \cup forward[i].event : f.n \in Nat /\ f.n < e.n
            <4>1. \A f \in Range(sent[i]) : f.n \in Nat /\ f.n < e.n
                BY <1>4, EventTyped DEF IInv
            <4> QED
                BY <4>1, HeldWasSent DEF IInv
        <3>4. Lossless(Passing(i)', got[i], Filtered(i), forward[i].event, {e}, stopped)
            BY <1>4, <1>11, <2>1, <2>3, <3>1, <3>2, <3>3, OneMore, SMTT(30)
        <3> QED
            BY <1>2, <1>14, <2>3, <3>1, <3>4
    <2> QED
        BY <2>2, <2>3
<1> QED
    BY <1>13, <1>15, LosslessNext

\* The reflector reads event e of stream i, which comes first of what is on the way.
LEMMA ReadStep ==
    ASSUME IInv, NEW i \in Streams, NEW e \in Passing(i), got' = [got EXCEPT ![e.stream] = Append(@, e)],
           NEW W \in SUBSET Range(sent[i]), NEW R \in SUBSET Range(sent[i]),
           Lossless(Passing(i), got[i], {e}, W, R, FALSE)
    PROVE  /\ Lossless(Passing(i), got'[i], {}, W, R, FALSE)
           /\ \A j \in Streams : j # i => got'[j] = got[j]
           /\ got' \in [Streams -> Seq(UNION {Events(j) : j \in Streams})]
<1>1. /\ got \in [Streams -> Seq(UNION {Events(j) : j \in Streams})]
      /\ e \in Events(i) /\ e.stream = i /\ Passing(i) \subseteq Range(sent[i])
    BY EventTyped, HeldWasSent DEF IInv, StreamsInv
<1> DEFINE E == UNION {Events(j) : j \in Streams}
<1>2. e \in E /\ got[i] \in Seq(E) /\ \A x \in E : x.n \in Nat
    BY <1>1, SMTT(30) DEF Events
<1>3. Range(sent[i]) \subseteq E
    BY EventTyped DEF IInv
<1>4. Append(got[i], e) \in Seq(E)
    <2> HIDE DEF E
    <2> QED
        BY <1>2
<1>5. Lossless(Passing(i), Append(got[i], e), {}, W, R, FALSE)
    <2> HIDE DEF E
    <2>1. Passing(i) \subseteq E /\ W \subseteq E /\ R \subseteq E
        BY <1>1, <1>3
    <2> QED
        BY <1>2, <2>1, ReadNext
<1>6. got' = [got EXCEPT ![i] = Append(got[i], e)]
    BY <1>1
<1> HIDE DEF E
<1>7. got \in [Streams -> Seq(E)]
    BY <1>1 DEF E
<1>8. got' \in [Streams -> Seq(E)] /\ got'[i] = Append(got[i], e)
      /\ \A j \in Streams : j # i => got'[j] = got[j]
    BY <1>4, <1>6, <1>7
<1> QED
    BY <1>5, <1>8 DEF E

\* Event e leaves the goroutines of stream i for the filter or the reflector.
LEMMA PassStep ==
    ASSUME IInv, Streams' = Streams, UNCHANGED <<layout, sent, stopped>>, NEW i \in Streams,
           NEW e \in Forwarded(i), Pass(e),
           Lossless(Passing(i), got[i], Filtered(i), {e}, receive'[i].event, stopped),
           receive'[i].event \subseteq Range(sent[i]), forward'[i].event = {},
           \A j \in Streams : j # i => /\ receive'[j].event = receive[j].event
                                       /\ forward'[j].event = forward[j].event
    PROVE  /\ NothingLost'
           /\ filter' \in Slots(UNION {Passing(j) : j \in Streams})
           /\ got' \in [Streams -> Seq(UNION {Events(j) : j \in Streams})]
<1>1. e \in Range(sent[i]) /\ e.stream = i
    BY EventTyped DEF Forwarded, IInv
<1>2. \A j \in Streams : Passing(j)' = Passing(j)
    BY DEF Passing
<1>3. \A j \in Streams :
        Lossless(Passing(j), got[j], Filtered(j), forward[j].event, receive[j].event, stopped)
    BY LosslessStreams DEF IInv
<1>4. \A S : {Idle, Reading, Done} \subseteq Slots(S)
    BY DEF Slots
<1>5. CASE layout.sharded
    <2>1. filter = Reading /\ got' = got /\ filter' = IF e.kind = "out" THEN Reading ELSE Sending(e)
        BY <1>5 DEF Pass, NextReads
    <2>2. \A j \in Streams : Filtered(j) = {}
        BY <2>1, SlotStates DEF Filtered
    <2>3. got' \in [Streams -> Seq(UNION {Events(j) : j \in Streams})]
        BY <2>1 DEF IInv, StreamsInv
    <2>4. CASE e.kind = "out"
        <3>1. \A j \in Streams : Filtered(j)' = {}
            BY <2>1, <2>4, SlotStates DEF Filtered
        <3>2. e \notin Passing(i)
            BY <1>5, <2>4 DEF Passing
        <3>3. Lossless(Passing(i), got[i], {}, {}, receive'[i].event, stopped)
            BY <2>2, <3>2, Drop, SMTT(30)
        <3>4. NothingLost'
            BY <1>2, <1>3, <2>1, <2>2, <3>1, <3>3, LosslessNext
        <3> QED
            BY <1>4, <2>1, <2>3, <2>4, <3>4
    <2>5. CASE e.kind # "out"
        <3>1. e \in Passing(i)
            BY <1>1, <2>5 DEF Passing, Forwarded
        <3>2. \A j \in Streams : Filtered(j)' = IF j = i THEN {e} ELSE {}
            BY <1>1, <2>1, <2>5, SlotStates, SMTT(30) DEF Filtered
        <3>3. Lossless(Passing(i), got[i], {e}, {}, receive'[i].event, stopped)
            BY <2>2, MoveToFilter
        <3>4. NothingLost'
            BY <1>2, <1>3, <2>1, <2>2, <3>2, <3>3, LosslessNext
        <3>5. filter' \in Slots(UNION {Passing(j) : j \in Streams})
            BY <2>1, <2>5, <3>1 DEF Slots
        <3> QED
            BY <2>3, <3>4, <3>5
    <2> QED
        BY <2>4, <2>5
<1>6. CASE ~layout.sharded
    <2>1. /\ reader = "reading" /\ filter' = filter
          /\ got' = [got EXCEPT ![e.stream] = Append(@, e)]
        BY <1>6 DEF Pass, NextReads, Read
    <2>2. filter = Idle /\ ~stopped /\ stopped = FALSE
        BY <1>6, <2>1 DEF IInv, ControlInv
    <2>3. \A j \in Streams : Filtered(j) = {} /\ Filtered(j)' = {}
        BY <2>1, <2>2, SlotStates DEF Filtered
    <2>4. e \in Passing(i)
        BY <1>1, <1>6 DEF Passing, Forwarded
    <2>5. Lossless(Passing(i), got[i], {e}, {}, receive'[i].event, FALSE)
        BY <2>2, <2>3, MoveToFilter
    <2>6. /\ Lossless(Passing(i), got'[i], {}, {}, receive'[i].event, FALSE)
          /\ \A j \in Streams : j # i => got'[j] = got[j]
          /\ got' \in [Streams -> Seq(UNION {Events(j) : j \in Streams})]
        BY <2>1, <2>4, <2>5, ReadStep
    <2>7. NothingLost'
        BY <1>2, <1>3, <2>2, <2>3, <2>6, LosslessNext
    <2> QED
        BY <1>4, <2>1, <2>2, <2>6, <2>7
<1> QED
    BY <1>5, <1>6

\* StreamWatcher.receive hands its event over.
LEMMA ReceiveSendsStep ==
    ASSUME IInv, layout' = layout, Streams' = Streams, NEW i \in Streams, ReceiveSends(i)
    PROVE  StreamsInv' /\ NothingLost'
<1>1. /\ receive = [j \in Streams |-> receive[j]] /\ forward = [j \in Streams |-> forward[j]]
      /\ got \in [Streams -> Seq(UNION {Events(j) : j \in Streams})]
      /\ \A j \in Streams : /\ receive[j] \in Slots(Range(sent[j]))
                            /\ forward[j] \in Slots(Forwarded(j))
      /\ filter \in Slots(UNION {Passing(j) : j \in Streams})
    BY DEF IInv, StreamsInv
<1>2. PICK e \in Range(sent[i]) : receive[i] = Sending(e)
    BY <1>1, SlotHolds DEF ReceiveSends
<1>3. receive[i].event = {e}
    BY <1>2, SlotStates
<1>4. /\ receive' = [j \in Streams |-> receive'[j]]
      /\ \A j \in Streams : receive'[j] = IF j = i THEN Reading ELSE receive[j]
    BY <1>1, Updated DEF ReceiveSends
<1>5. \A S : {Idle, Reading, Done} \subseteq Slots(S)
    BY DEF Slots
<1>6. \A j \in Streams : receive'[j] \in Slots(Range(sent[j]))
    BY <1>1, <1>4, <1>5
<1>7. receive'[i].event = {}
    BY <1>4, SlotStates
<1>8. UNCHANGED <<sent, stopped>>
    BY DEF ReceiveSends
<1>9. \A j \in Streams :
        Lossless(Passing(j), got[j], Filtered(j), forward[j].event, receive[j].event, stopped)
    BY LosslessStreams DEF IInv
<1>10. CASE layout.mode = "single"
    <2>1. Pass(e) /\ forward' = forward
        BY <1>3, <1>10 DEF ReceiveSends
    <2>2. \A j \in Streams : forward[j] = Idle /\ forward[j].event = {}
        BY <1>10, SlotStates DEF IInv, ControlInv
    <2>3. e \in Forwarded(i)
        BY <1>10 DEF Forwarded
    <2>4. Lossless(Passing(i), got[i], Filtered(i), {e}, receive'[i].event, stopped)
        <3>1. Lossless(Passing(i), got[i], Filtered(i), {}, {e}, stopped)
            BY <1>3, <1>9, <2>2
        <3>2. Lossless(Passing(i), got[i], Filtered(i), {e}, {}, stopped)
            BY <3>1, MoveToForward
        <3> QED
            BY <1>7, <3>2
    <2>5. /\ NothingLost'
          /\ filter' \in Slots(UNION {Passing(j) : j \in Streams})
          /\ got' \in [Streams -> Seq(UNION {Events(j) : j \in Streams})]
        BY <1>4, <1>7, <1>8, <2>1, <2>2, <2>3, <2>4, PassStep
    <2> QED
        BY <1>1, <1>4, <1>6, <1>8, <2>1, <2>5, SlotsFrame DEF IInv
<1>11. CASE layout.mode # "single"
    <2>1. /\ forward[i] = Reading /\ forward' = [forward EXCEPT ![i] = Forward(e)]
          /\ UNCHANGED <<filter, reader, got>>
        BY <1>3, <1>11 DEF ReceiveSends
    <2>2. /\ forward' = [j \in Streams |-> forward'[j]]
          /\ \A j \in Streams : forward'[j] = IF j = i THEN Forward(e) ELSE forward[j]
        BY <1>1, <2>1, Updated
    <2>3. forward[i].event = {}
        BY <2>1, SlotStates
    <2>4. \A j \in Streams : Passing(j)' = Passing(j) /\ Filtered(j)' = Filtered(j)
        BY <1>8, <2>1 DEF Passing, Filtered
    <2>5. /\ Forward(e) \in Slots(Forwarded(i))
          /\ Lossless(Passing(i), got[i], Filtered(i), Forward(e).event, {}, stopped)
        <3>1. CASE layout.mode = "denylist" /\ e.kind # "in"
            <4>1. Forward(e) = Reading /\ Forward(e).event = {}
                BY <3>1, SlotStates DEF Forward
            <4>2. e \notin Passing(i)
                BY <3>1 DEF Passing
            <4>3. Lossless(Passing(i), got[i], Filtered(i), {}, {}, stopped)
                BY <1>3, <1>9, <2>3, <4>2, Drop, SMTT(30)
            <4> QED
                BY <1>5, <4>1, <4>3
        <3>2. CASE ~(layout.mode = "denylist" /\ e.kind # "in")
            <4>1. Forward(e) = Sending(e) /\ Forward(e).event = {e} /\ e \in Forwarded(i)
                BY <3>2, SlotStates DEF Forward, Forwarded
            <4>2. Lossless(Passing(i), got[i], Filtered(i), {e}, {}, stopped)
                BY <1>3, <1>9, <2>3, MoveToForward
            <4> QED
                BY <4>1, <4>2 DEF Slots
        <3> QED
            BY <3>1, <3>2
    <2>6. NothingLost'
        BY <1>4, <1>7, <1>8, <1>9, <2>1, <2>2, <2>4, <2>5, LosslessNext
    <2>7. StreamsInv'
        BY <1>1, <1>4, <1>6, <1>8, <2>1, <2>2, <2>5, SlotsFrame DEF IInv
    <2> QED
        BY <2>6, <2>7
<1> QED
    BY <1>10, <1>11

\* The sender of multiWatch or the goroutine of the denylist watch hands its event
\* over, or drops it because it sees the stop.
LEMMA ForwardStep ==
    ASSUME IInv, layout' = layout, Streams' = Streams, NEW i \in Streams,
           ForwardSends(i) \/ ForwardSeesStop(i)
    PROVE  StreamsInv' /\ NothingLost'
<1>1. /\ receive = [j \in Streams |-> receive[j]] /\ forward = [j \in Streams |-> forward[j]]
      /\ got \in [Streams -> Seq(UNION {Events(j) : j \in Streams})]
      /\ \A j \in Streams : /\ receive[j] \in Slots(Range(sent[j]))
                            /\ forward[j] \in Slots(Forwarded(j))
      /\ filter \in Slots(UNION {Passing(j) : j \in Streams})
    BY DEF IInv, StreamsInv
<1>2. UNCHANGED <<sent, receive, stopped>>
    BY DEF ForwardSends, ForwardSeesStop
<1>3. \A S : {Idle, Reading, Done} \subseteq Slots(S)
    BY DEF Slots
<1>4. PICK x \in {Reading, Done} : forward' = [forward EXCEPT ![i] = x]
    BY DEF ForwardSends, ForwardSeesStop
<1>5. /\ forward' = [j \in Streams |-> forward'[j]]
      /\ \A j \in Streams : forward'[j] = IF j = i THEN x ELSE forward[j]
      /\ forward'[i].event = {}
    BY <1>1, <1>4, Updated, SlotStates
<1>6. \A j \in Streams : forward'[j] \in Slots(Forwarded(j))
    BY <1>1, <1>3, <1>5
<1>7. \A j \in Streams :
        Lossless(Passing(j), got[j], Filtered(j), forward[j].event, receive[j].event, stopped)
    BY LosslessStreams DEF IInv
<1>8. CASE ForwardSends(i)
    <2>1. PICK e \in Forwarded(i) : forward[i] = Sending(e)
        BY <1>1, <1>8, SlotHolds DEF ForwardSends
    <2>2. forward[i].event = {e}
        BY <2>1, SlotStates
    <2>3. Pass(e)
        BY <1>8, <2>2 DEF ForwardSends
    <2>4. Lossless(Passing(i), got[i], Filtered(i), {e}, receive'[i].event, stopped)
        BY <1>2, <1>7, <2>2
    <2>5. receive'[i].event \subseteq Range(sent[i])
        BY <1>2, HeldWasSent DEF IInv
    <2>6. /\ NothingLost'
          /\ filter' \in Slots(UNION {Passing(j) : j \in Streams})
          /\ got' \in [Streams -> Seq(UNION {Events(j) : j \in Streams})]
        BY <1>2, <1>5, <2>3, <2>4, <2>5, PassStep
    <2> QED
        BY <1>1, <1>2, <1>5, <1>6, <2>6, SlotsFrame DEF IInv
<1>9. CASE ForwardSeesStop(i)
    <2>1. UNCHANGED <<filter, got>> /\ stopped
        BY <1>9 DEF ForwardSeesStop
    <2>2. \A j \in Streams : Passing(j)' = Passing(j) /\ Filtered(j)' = Filtered(j)
        BY <1>2, <2>1 DEF Passing, Filtered
    <2>3. Lossless(Passing(i), got[i], Filtered(i), {}, receive[i].event, stopped)
        BY <1>7, <2>1, Drop
    <2>4. NothingLost'
        BY <1>2, <1>5, <1>7, <2>1, <2>2, <2>3, LosslessNext
    <2> QED
        BY <1>1, <1>2, <1>5, <1>6, <2>1, <2>4, SlotsFrame DEF IInv
<1> QED
    BY <1>8, <1>9

\* The filter of a shard hands its event to the reflector.
LEMMA FilterSendsStep ==
    ASSUME IInv, layout' = layout, Streams' = Streams, FilterSends
    PROVE  StreamsInv' /\ NothingLost'
<1>1. /\ receive = [j \in Streams |-> receive[j]] /\ forward = [j \in Streams |-> forward[j]]
      /\ \A j \in Streams : /\ receive[j] \in Slots(Range(sent[j]))
                            /\ forward[j] \in Slots(Forwarded(j))
      /\ filter \in Slots(UNION {Passing(j) : j \in Streams})
    BY DEF IInv, StreamsInv
<1>2. /\ reader = "reading" /\ filter.at = "send" /\ filter' = Reading
      /\ UNCHANGED <<sent, receive, forward, stopped>>
    BY DEF FilterSends
<1>3. PICK e \in UNION {Passing(j) : j \in Streams} : filter = Sending(e)
    BY <1>1, <1>2, SlotHolds
<1>4. PICK i \in Streams : e \in Passing(i)
    BY <1>3
<1>5. e.stream = i
    BY <1>4, EventTyped, HeldWasSent DEF IInv
<1>6. filter.event = {e}
    BY <1>3, SlotStates
<1>7. got' = [got EXCEPT ![e.stream] = Append(@, e)]
    BY <1>6 DEF FilterSends, Read
<1>8. stopped = FALSE
    BY <1>2 DEF IInv, ControlInv
<1>9. \A j \in Streams :
        Lossless(Passing(j), got[j], Filtered(j), forward[j].event, receive[j].event, stopped)
    BY LosslessStreams DEF IInv
<1>10. \A j \in Streams : Filtered(j) = (IF j = i THEN {e} ELSE {}) /\ Filtered(j)' = {}
    BY <1>2, <1>5, <1>6, SlotStates DEF Filtered
<1>11. \A j \in Streams : Passing(j)' = Passing(j)
    BY <1>2 DEF Passing
<1>12. /\ Lossless(Passing(i), got'[i], {}, forward[i].event, receive[i].event, FALSE)
       /\ \A j \in Streams : j # i => got'[j] = got[j]
       /\ got' \in [Streams -> Seq(UNION {Events(j) : j \in Streams})]
    <2>1. forward[i].event \subseteq Range(sent[i]) /\ receive[i].event \subseteq Range(sent[i])
        BY HeldWasSent DEF IInv
    <2>2. Lossless(Passing(i), got[i], {e}, forward[i].event, receive[i].event, FALSE)
        BY <1>8, <1>9, <1>10
    <2> QED
        BY <1>4, <1>7, <2>1, <2>2, ReadStep
<1>13. NothingLost'
    BY <1>2, <1>8, <1>9, <1>10, <1>11, <1>12, LosslessNext
<1>14. filter' \in Slots(UNION {Passing(j) : j \in Streams})
    BY <1>2 DEF Slots
<1> QED
    BY <1>1, <1>2, <1>12, <1>13, <1>14, SlotsFrame DEF IInv

-----------------------------------------------------------------------------
(* The theorems.                                                           *)

\* Before Watch no stream is open and no goroutine runs.
LEMMA InitIInv == Init => IInv
<1> SUFFICES ASSUME Init PROVE IInv
    OBVIOUS
<1>1. layout \in Layouts /\ Streams = 1..NumStreams /\ NumStreams \in Nat \ {0}
    <2>1. layout \in AllLayouts
        BY LayoutsAssumption DEF Init
    <2> QED
        BY <2>1, LayoutsAssumption DEF Init, Streams, NumStreams
<1>2. /\ \A i \in Streams : /\ sent[i] = <<>> /\ got[i] = <<>>
                            /\ receive[i] = Idle /\ forward[i] = Idle
      /\ filter = Idle
    BY DEF Init
<1>3. \A i \in Streams : Range(sent[i]) = {} /\ Range(got[i]) = {} /\ DOMAIN got[i] = {} /\ DOMAIN sent[i] = {}
    BY <1>2 DEF Range
<1>4. StreamsInv
    <2>1. \A S : Idle \in Slots(S)
        BY DEF Slots
    <2>2. \A S : <<>> \in Seq(S)
        OBVIOUS
    <2>3. /\ sent \in [Streams -> Seq(UNION {Events(i) : i \in Streams})]
          /\ got \in [Streams -> Seq(UNION {Events(i) : i \in Streams})]
        BY <2>2 DEF Init
    <2>4. \A i \in Streams : /\ sent[i] \in Seq(Events(i))
                             /\ \A n \in DOMAIN sent[i] : sent[i][n].n = n
        BY <1>2, <1>3, <2>2
    <2>5. receive = [i \in Streams |-> receive[i]] /\ forward = [i \in Streams |-> forward[i]]
        BY DEF Init
    <2> QED
        BY <1>1, <1>2, <2>1, <2>3, <2>4, <2>5 DEF StreamsInv
<1>5. ControlInv
    <2>1. /\ opened = 0 /\ stoppers = 0 /\ ended = {} /\ closing = {} /\ reader = "opening"
          /\ result = FALSE /\ stopped = FALSE
        BY DEF Init
    <2>2. 0 \in 0..NumStreams /\ 0 < NumStreams
        BY <1>1
    <2>3. \A i \in Streams : forward[i] # Done
        BY <1>2, SlotStates
    <2> QED
        BY <1>2, <2>1, <2>2, <2>3, SlotStates DEF ControlInv
<1>6. NothingLost
    <2>1. \A i \in Streams : Passing(i) = {}
        BY <1>3 DEF Passing
    <2> QED
        BY <1>2, <1>3, <2>1, SlotStates DEF NothingLost, Before
<1> QED
    BY <1>4, <1>5, <1>6 DEF IInv

\* Every step of the server, of a goroutine and of the reflector keeps the
\* invariant.
LEMMA NextIInv == IInv /\ [Next]_vars => IInv'
<1> SUFFICES ASSUME IInv, [Next]_vars PROVE IInv'
    OBVIOUS
<1>1. layout' = layout /\ Streams' = Streams /\ NumStreams' = NumStreams
    BY LayoutStays
<1>2. CASE Next
    <2>1. ControlInv'
        BY <1>1, <1>2, OpeningControl, StreamControl, SharedControl DEF Next, IInv
    <2>2. StreamsInv' /\ NothingLost'
        BY <1>1, <1>2, QuietSteps, DecodeStep, ReceiveSendsStep, ForwardStep, FilterSendsStep DEF Next
    <2> QED
        BY <2>1, <2>2 DEF IInv
<1>3. CASE UNCHANGED vars
    <2>1. NothingLost'
        BY <1>1, <1>3, QuietStep DEF vars
    <2>2. StreamsInv'
        BY <1>1, <1>3, SlotsFrame DEF vars, IInv, StreamsInv
    <2>3. ControlInv'
        BY <1>1, <1>3 DEF vars, IInv, ControlInv, InputClosed
    <2> QED
        BY <2>1, <2>2, <2>3 DEF IInv
<1> QED
    BY <1>2, <1>3

\* In every behaviour of a watch each goroutine holds at most one event, one that
\* a server sent, no stream is opened or stopped that does not exist, and the result
\* channel of a multiWatch is closed only after all its streams were opened.
THEOREM ChainTyped == Spec => []TypeOK
<1>1. IInv => TypeOK
    <2> SUFFICES ASSUME IInv PROVE TypeOK
        OBVIOUS
    <2>1. ASSUME NEW S, NEW g \in Slots(S), S \subseteq UNION {Range(sent[j]) : j \in Streams}
          PROVE  \/ g \in {Idle, Reading, Done}
                 \/ \E i \in Streams : \E e \in Range(sent[i]) : g = Sending(e)
        BY <2>1 DEF Slots
    <2>2. \A i \in Streams : /\ Range(sent[i]) \subseteq UNION {Range(sent[j]) : j \in Streams}
                             /\ Forwarded(i) \subseteq UNION {Range(sent[j]) : j \in Streams}
        BY DEF Forwarded
    <2>3. UNION {Passing(i) : i \in Streams} \subseteq UNION {Range(sent[j]) : j \in Streams}
        BY DEF Passing
    <2>4. ASSUME NEW g \in Goroutines
          PROVE  \/ g \in {Idle, Reading, Done}
                 \/ \E i \in Streams : \E e \in Range(sent[i]) : g = Sending(e)
        BY <2>1, <2>2, <2>3, SMTT(30) DEF Goroutines, IInv, StreamsInv
    <2>5. result => layout.mode = "multi" /\ opened = NumStreams
        BY DEF IInv, ControlInv
    <2> QED
        BY <2>4, <2>5 DEF TypeOK, IInv, StreamsInv, ControlInv
<1> QED
    BY InitIInv, NextIInv, <1>1, PTL DEF Spec

\* Whatever the interleaving of the goroutines of a watch, the reflector reads the
\* events of each stream in order, none twice and none left out, and what it has
\* not read is still on its way until the watch is stopped.
THEOREM LosesNothing == Spec => []NothingLost
<1>1. IInv => NothingLost
    BY DEF IInv
<1> QED
    BY InitIInv, NextIInv, <1>1, PTL DEF Spec

\* A reflector that finds the channel of a watch closed has read all that the
\* servers sent and that passes the filters: the result channel of newMultiWatch is
\* closed only after the last sender has handed over its last event.
THEOREM ClosedAfterAll == Spec => []ClosedWhenAllRead
<1>1. IInv => ClosedWhenAllRead
    <2> SUFFICES ASSUME IInv, reader = "closed", NEW i \in Streams
                 PROVE  receive[i] = Done /\ Range(got[i]) = Passing(i)
        BY DEF ClosedWhenAllRead
    <2>1. ~stopped /\ InputClosed /\ filter \in {Idle, Done}
        BY DEF IInv, ControlInv
    <2>2. receive[i] = Done /\ forward[i] \in {Idle, Done}
        <3>1. CASE layout.mode = "single"
            BY <2>1, <3>1, LayoutTyped DEF IInv, ControlInv, InputClosed
        <3>2. CASE layout.mode = "denylist"
            BY <2>1, <3>2, LayoutTyped DEF IInv, ControlInv, InputClosed
        <3>3. CASE layout.mode = "multi"
            BY <2>1, <3>3 DEF IInv, ControlInv, InputClosed
        <3> QED
            BY <3>1, <3>2, <3>3, LayoutTyped DEF IInv
    <2>3. receive[i].event = {} /\ forward[i].event = {} /\ Filtered(i) = {}
        BY <2>1, <2>2, SlotStates DEF Filtered
    <2>4. Lossless(Passing(i), got[i], Filtered(i), forward[i].event, receive[i].event, stopped)
        BY LosslessStreams DEF IInv
    <2> QED
        BY <2>1, <2>2, <2>3, <2>4 DEF Lossless
<1> QED
    BY InitIInv, NextIInv, <1>1, PTL DEF Spec
=============================================================================
