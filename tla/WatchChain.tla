----------------------------- MODULE WatchChain -----------------------------
(* The goroutines of one Watch, between the connections to the API server and  *)
(* the reflector that reads the events, and the unbuffered channels that join  *)
(* them (pkg/listwatch, pkg/sharding; StreamWatcher and Filter are vendored).  *)
(* A channel is the hand-over of an event from a goroutine that sends to one   *)
(* that reads; it is closed when its sender is done.                           *)
EXTENDS Integers, Sequences, Functions

CONSTANTS
    Layouts,       \* [mode, sharded]: how the ListerWatchers are stacked
    NumNamespaces, \* the streams of a multiWatch
    MaxEvents      \* bound: events per stream

\* One stream; all namespaces with denied ones; several namespaces.
AllLayouts == [mode : {"single", "denylist", "multi"}, sharded : BOOLEAN]

ASSUME LayoutsAssumption ==
    /\ Layouts \subseteq AllLayouts
    /\ NumNamespaces \in Nat \ {0, 1}
    /\ MaxEvents \in Nat

VARIABLES
    layout,
    opened,       \* how many streams are open
    sent,         \* for each stream, the events its decoder has returned
    ended,        \* streams the server has ended
    closing,      \* streams on which Stop was called
    receive,      \* StreamWatcher.receive, one goroutine per stream
    forward,      \* per stream: the sender of multiWatch, or the goroutine of the denylist watch
    result,       \* multiWatch.result: is it closed?
    stopped,      \* multiWatch.stopped, or the proxy's StopChan: is it closed?
    filter,       \* the goroutine of watch.Filter
    reader,       \* the reflector
    stoppers,     \* how many stoppers multiWatch.Stop has called
    got           \* for each stream, the events the reflector has read

vars == <<layout, opened, sent, ended, closing, receive, forward, result, stopped, filter, reader, stoppers, got>>

NumStreams == IF layout.mode = "multi" THEN NumNamespaces ELSE 1

Streams == 1..NumStreams

\* An event of an object that passes the filters, of one that does not (if there
\* is a filter), or an error, which carries no object with metadata.
Kinds == {"in", "error"} \cup (IF layout.mode = "denylist" \/ layout.sharded THEN {"out"} ELSE {})

Event(i, n, k) == [stream |-> i, n |-> n, kind |-> k]

\* A goroutine that reads, that sends an event, or that has ended or not started.
Reading == [at |-> "read", event |-> {}]

Sending(e) == [at |-> "send", event |-> {e}]

Done == [at |-> "done", event |-> {}]

Idle == [at |-> "idle", event |-> {}]

Init ==
    /\ layout \in Layouts
    /\ opened = 0
    /\ sent = [i \in Streams |-> <<>>]
    /\ ended = {}
    /\ closing = {}
    /\ receive = [i \in Streams |-> Idle]
    /\ forward = [i \in Streams |-> Idle]
    /\ result = FALSE
    /\ stopped = FALSE
    /\ filter = Idle
    /\ reader = "opening"
    /\ stoppers = 0
    /\ got = [i \in Streams |-> <<>>]

\* Mutant: one stream too many.
WatchOneMore ==
    /\ reader = "opening"
    /\ opened' = opened + 1
    /\ receive' = [i \in DOMAIN receive |-> IF i = opened' THEN Reading ELSE receive[i]]
    /\ reader' = IF opened' > NumStreams THEN "reading" ELSE reader
    /\ UNCHANGED <<layout, sent, ended, closing, forward, result, stopped, filter, stoppers, got>>

\* Mutant: the goroutine of the filter is not started.
WatchWithoutFilter ==
    /\ reader = "opening"
    /\ opened' = opened + 1
    /\ receive' = [receive EXCEPT ![opened'] = Reading]
    /\ forward' = [forward EXCEPT ![opened'] = IF layout.mode = "single" THEN Idle ELSE Reading]
    /\ reader' = IF opened' = NumStreams THEN "reading" ELSE reader
    /\ UNCHANGED <<layout, sent, ended, closing, result, stopped, filter, stoppers, got>>

\* The next stream is opened; its goroutines start at once.  With the last one
\* Watch returns, and the filter of a shard starts.
Watch ==
    /\ reader = "opening"
    /\ opened' = opened + 1
    /\ receive' = [receive EXCEPT ![opened'] = Reading]
    /\ forward' = [forward EXCEPT ![opened'] = IF layout.mode = "single" THEN Idle ELSE Reading]
    /\ IF opened' = NumStreams
       THEN /\ reader' = "reading"
            /\ filter' = IF layout.sharded THEN Reading ELSE Idle
       ELSE UNCHANGED <<reader, filter>>
    /\ UNCHANGED <<layout, sent, ended, closing, result, stopped, stoppers, got>>

\* newMultiWatch returns an error and leaves the streams it has opened alone.
WatchFails ==
    /\ reader = "opening"
    /\ reader' = "failed"
    /\ UNCHANGED <<layout, opened, sent, ended, closing, receive, forward, result, stopped, filter, stoppers, got>>

\* The server ends a stream, at the latest after TimeoutSeconds.
ServerEnds(i) ==
    /\ i <= opened
    /\ i \notin ended
    /\ ended' = ended \cup {i}
    /\ UNCHANGED <<layout, opened, sent, closing, receive, forward, result, stopped, filter, reader, stoppers, got>>

\* Decode returns an event, also one that was read before the stream was closed.
\* Nothing follows an error.
Decode(i) ==
    /\ receive[i] = Reading
    /\ i \notin ended
    /\ Len(sent[i]) < MaxEvents
    /\ \E k \in Kinds :
        LET e == Event(i, Len(sent[i]) + 1, k)
        IN  /\ sent' = [sent EXCEPT ![i] = Append(@, e)]
            /\ receive' = [receive EXCEPT ![i] = Sending(e)]
            /\ ended' = IF k = "error" THEN ended \cup {i} ELSE ended
    /\ UNCHANGED <<layout, opened, closing, forward, result, stopped, filter, reader, stoppers, got>>

\* Mutant: the end of the stream goes unnoticed.
DecodeFailsWhenStopped(i) ==
    /\ receive[i] = Reading
    /\ i \in closing
    /\ receive' = [receive EXCEPT ![i] = Done]
    /\ UNCHANGED <<layout, opened, sent, ended, closing, forward, result, stopped, filter, reader, stoppers, got>>

\* Decode returns an error: the goroutine calls Stop and closes its channel.
DecodeFails(i) ==
    /\ receive[i] = Reading
    /\ i \in ended \cup closing
    /\ receive' = [receive EXCEPT ![i] = Done]
    /\ closing' = closing \cup {i}
    /\ UNCHANGED <<layout, opened, sent, ended, forward, result, stopped, filter, reader, stoppers, got>>

\* What the reflector does with an event; an error makes it leave.
Read(e) ==
    /\ got' = [got EXCEPT ![e.stream] = Append(@, e)]
    /\ reader' = IF e.kind = "error" THEN "stopping" ELSE reader

\* What comes after the streams or multiWatch: the filter of a shard, which
\* keeps errors, or the reflector itself.
NextReads == IF layout.sharded THEN filter = Reading ELSE reader = "reading"

Pass(e) ==
    /\ NextReads
    /\ IF layout.sharded
       THEN /\ filter' = IF e.kind = "out" THEN Reading ELSE Sending(e)
            /\ UNCHANGED <<reader, got>>
       ELSE Read(e) /\ UNCHANGED filter

\* The denylist watch passes on events of objects that are not denied only.
Forward(e) == IF layout.mode = "denylist" /\ e.kind # "in" THEN Reading ELSE Sending(e)

ReceiveSends(i) ==
    /\ receive[i].at = "send"
    /\ receive' = [receive EXCEPT ![i] = Reading]
    /\ \E e \in receive[i].event :
        IF layout.mode = "single" THEN Pass(e) /\ UNCHANGED forward
        ELSE /\ forward[i] = Reading
             /\ forward' = [forward EXCEPT ![i] = Forward(e)]
             /\ UNCHANGED <<filter, reader, got>>
    /\ UNCHANGED <<layout, opened, sent, ended, closing, result, stopped, stoppers>>

ForwardSends(i) ==
    /\ forward[i].at = "send"
    /\ \E e \in forward[i].event : Pass(e)
    /\ forward' = [forward EXCEPT ![i] = Reading]
    /\ UNCHANGED <<layout, opened, sent, ended, closing, receive, result, stopped, stoppers>>

\* Mutant: a closed channel ends the sender although it still holds an event.
ForwardSeesEndWhileSending(i) ==
    /\ forward[i].at \in {"read", "send"}
    /\ receive[i] = Done
    /\ forward' = [forward EXCEPT ![i] = Done]
    /\ UNCHANGED <<layout, opened, sent, ended, closing, receive, result, stopped, filter, reader, stoppers, got>>

ForwardSeesEnd(i) ==
    /\ forward[i] = Reading
    /\ receive[i] = Done
    /\ forward' = [forward EXCEPT ![i] = Done]
    /\ UNCHANGED <<layout, opened, sent, ended, closing, receive, result, stopped, filter, reader, stoppers, got>>

\* The select statements: a sender of multiWatch looks at stopped only while it
\* sends; the denylist watch always does, and stops its stream.
ForwardSeesStop(i) ==
    /\ stopped
    /\ forward[i].at = "send" \/ (layout.mode = "denylist" /\ forward[i] = Reading)
    /\ forward' = [forward EXCEPT ![i] = Done]
    /\ closing' = IF layout.mode = "denylist" THEN closing \cup {i} ELSE closing
    /\ UNCHANGED <<layout, opened, sent, ended, receive, result, stopped, filter, reader, stoppers, got>>

\* Mutant: the first sender to exit closes the channel.
CloseResultAfterFirst ==
    /\ layout.mode = "multi"
    /\ reader \notin {"opening", "failed"}
    /\ ~result
    /\ \E i \in Streams : forward[i] = Done
    /\ result' = TRUE
    /\ UNCHANGED <<layout, opened, sent, ended, closing, receive, forward, stopped, filter, reader, stoppers, got>>

\* The goroutine that waits for all senders; it is not started if Watch fails.
CloseResult ==
    /\ layout.mode = "multi"
    /\ reader \notin {"opening", "failed"}
    /\ ~result
    /\ \A i \in Streams : forward[i] = Done
    /\ result' = TRUE
    /\ UNCHANGED <<layout, opened, sent, ended, closing, receive, forward, stopped, filter, reader, stoppers, got>>

\* The channel the filter or, without one, the reflector reads is closed.
InputClosed ==
    CASE layout.mode = "multi" -> result
      [] layout.mode = "denylist" -> forward[1] = Done
      [] layout.mode = "single" -> receive[1] = Done

FilterSends ==
    /\ filter.at = "send"
    /\ reader = "reading"
    /\ \E e \in filter.event : Read(e)
    /\ filter' = Reading
    /\ UNCHANGED <<layout, opened, sent, ended, closing, receive, forward, result, stopped, stoppers>>

FilterSeesEnd ==
    /\ filter = Reading
    /\ InputClosed
    /\ filter' = Done
    /\ UNCHANGED <<layout, opened, sent, ended, closing, receive, forward, result, stopped, reader, stoppers, got>>

\* The reflector finds its channel closed ("closed" until it calls Stop), or
\* leaves because it is cancelled or fails.  Either way it calls Stop.
ReaderSeesEnd ==
    /\ reader = "reading"
    /\ IF layout.sharded THEN filter = Done ELSE InputClosed
    /\ reader' = "closed"
    /\ UNCHANGED <<layout, opened, sent, ended, closing, receive, forward, result, stopped, filter, stoppers, got>>

ReaderLeaves ==
    /\ reader = "reading"
    /\ reader' = "stopping"
    /\ UNCHANGED <<layout, opened, sent, ended, closing, receive, forward, result, stopped, filter, stoppers, got>>

\* Mutant: stopped is not closed.
StopWithoutClosing ==
    /\ reader \in {"closed", "stopping"}
    /\ closing' = IF layout.mode = "denylist" THEN closing ELSE Streams
    /\ reader' = "left"
    /\ UNCHANGED <<layout, opened, sent, ended, receive, forward, result, stopped, filter, stoppers, got>>

\* multiWatch.Stop calls the stoppers one by one and then closes stopped; the
\* other layouts have one thing to stop.  A filter passes Stop on.
Stop ==
    /\ reader \in {"closed", "stopping"}
    /\ IF layout.mode = "multi" /\ stoppers < NumStreams
       THEN /\ stoppers' = stoppers + 1
            /\ closing' = closing \cup {stoppers'}
            /\ UNCHANGED <<stopped, reader>>
       ELSE /\ stopped' = (layout.mode # "single")
            /\ closing' = IF layout.mode = "single" THEN {1} ELSE closing
            /\ reader' = "left"
            /\ UNCHANGED stoppers
    /\ UNCHANGED <<layout, opened, sent, ended, receive, forward, result, filter, got>>

Next ==
    \/ Watch
    \/ WatchFails
    \/ \E i \in Streams :
        \/ ServerEnds(i)
        \/ Decode(i)
        \/ DecodeFails(i)
        \/ ReceiveSends(i)
        \/ ForwardSends(i)
        \/ ForwardSeesEnd(i)
        \/ ForwardSeesStop(i)
    \/ CloseResult
    \/ FilterSends
    \/ FilterSeesEnd
    \/ ReaderSeesEnd
    \/ ReaderLeaves
    \/ Stop

\* Goroutines run, the server ends its streams, and of the senders of multiWatch,
\* which share a channel, each is served in turn (Go queues them).  Nobody has
\* to send an event, to fail or to leave.
Fairness ==
    /\ WF_vars(Watch)
    /\ WF_vars(CloseResult)
    /\ WF_vars(FilterSends)
    /\ WF_vars(FilterSeesEnd)
    /\ WF_vars(ReaderSeesEnd)
    /\ WF_vars(Stop)
    /\ \A i \in 1..NumNamespaces :
        /\ WF_vars(i \in Streams /\ ServerEnds(i))
        /\ WF_vars(i \in Streams /\ DecodeFails(i))
        /\ WF_vars(i \in Streams /\ ReceiveSends(i))
        /\ SF_vars(i \in Streams /\ ForwardSends(i))
        /\ WF_vars(i \in Streams /\ ForwardSeesEnd(i))
        /\ WF_vars(i \in Streams /\ ForwardSeesStop(i))

Spec == Init /\ [][Next]_vars /\ Fairness
-----------------------------------------------------------------------------
Goroutines == {filter} \cup {receive[i] : i \in Streams} \cup {forward[i] : i \in Streams}

\* Types; a goroutine holds one event while it sends and none otherwise
\* (listwatch.go newMultiWatch, namespace_denylist.go newDenylistWatch).
TypeOK ==
    /\ layout \in Layouts
    /\ opened \in 0 .. NumStreams
    /\ ended \cup closing \subseteq 1 .. opened
    /\ reader \in {"opening", "failed", "reading", "closed", "stopping", "left"}
    /\ stoppers \in 0 .. NumStreams
    /\ \A g \in Goroutines :
        \/ g \in {Idle, Reading, Done}
        \/ \E i \in Streams : \E e \in Range(sent[i]) : g = Sending(e)
    /\ result => layout.mode = "multi" /\ opened = NumStreams

\* The events of a stream that pass the filters of the layout.
Passing(i) ==
    {e \in Range(sent[i]) : /\ layout.mode = "denylist" => e.kind = "in"
                            /\ layout.sharded => e.kind # "out"}

\* The server sent the events of S before those of T.
Before(S, T) == \A e \in S, f \in T : e.n < f.n

\* The reflector reads the events of each stream in the order in which the
\* server sent them, none twice and none left out; what it has not read yet is
\* in the hands of a goroutine, in the same order, until somebody stops the
\* watch (listwatch.go newMultiWatch, sharding/listwatch.go Watch).
NothingLost ==
    \A i \in Streams :
        LET read == Range(got[i])
            filtered == {e \in filter.event : e.stream = i}
        IN  /\ \A m, n \in DOMAIN got[i] : m < n => got[i][m].n < got[i][n].n
            /\ read \subseteq Passing(i)
            /\ \A e \in Passing(i), f \in read : e.n < f.n => e \in read
            /\ Before(read, filtered)
            /\ Before(read \cup filtered, forward[i].event)
            /\ Before(read \cup filtered \cup forward[i].event, receive[i].event)
            /\ ~stopped => Passing(i) \subseteq
                    read \cup filtered \cup forward[i].event \cup receive[i].event

\* A reflector that finds the channel closed has read everything: every stream
\* has ended and no event is on the way (listwatch.go: the result chan is closed
\* once all sender goroutines exited).
ClosedWhenAllRead ==
    reader = "closed" =>
        \A i \in Streams : receive[i] = Done /\ Range(got[i]) = Passing(i)

\* Stop of a multiWatch or of a denylist watch comes to close the channel,
\* whatever its goroutines were doing (listwatch.go Stop, namespace_denylist.go).
StopCloses == (reader = "left" /\ layout.mode # "single") ~> InputClosed

\* While the reflector reads no goroutine waits to send forever: the chain of
\* unbuffered channels does not lock up, however the streams are merged
\* (listwatch.go newMultiWatch, sharding/listwatch.go Watch).
ChainMoves ==
    \A i \in 1..NumNamespaces :
        (i \in Streams /\ (receive[i].at = "send" \/ forward[i].at = "send"))
            ~> (\/ i \in Streams /\ receive[i].at # "send" /\ forward[i].at # "send"
                \/ reader # "reading")

\* After a watch was stopped, or failed to open, the goroutines that stay behind
\* for good are those that wait to send an event nobody will read; all others
\* end.  After Stop of a multiWatch none of its senders stays (listwatch.go
\* newMultiWatch and Stop, sharding/listwatch.go Watch).
OnlySendersStay ==
    (reader \in {"left", "failed"}) ~>
        [](/\ \A g \in Goroutines : g.at # "read"
           /\ reader = "left" => \A i \in Streams : forward[i].at # "send")
=============================================================================
