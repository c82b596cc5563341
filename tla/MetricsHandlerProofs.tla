------------------------ MODULE MetricsHandlerProofs ------------------------
(* Proofs about MetricsHandler, for every number of scrapers, stores and       *)
(* changes of the StatefulSet: a response is written by the stores of one      *)
(* generation, and no generation but the current one is left running.          *)
EXTENDS MetricsHandler, TLAPS

\* What the informer hands to the handlers.
Events == [news : BOOLEAN, replicas : Replicas]

\* Nothing is configured before Run has started.
RunInv == run # "running" => conf = "idle" /\ events = <<>>

\* Who holds m.mtx: the configuring goroutine for reading while it compares and
\* for writing while it configures; every scraper in ServeHTTP for reading, or it
\* waits for it and has written nothing.
LockInv ==
    /\ conf = "compare" <=> Configurer \in mtx.readers
    /\ conf = "locked" <=> Configurer \in mtx.writer
    /\ Configurer \notin mtx.waiting
    /\ \A s \in Scrapers :
         /\ s \in serving <=> s \in mtx.readers \cup mtx.waiting
         /\ s \notin mtx.readers \cap mtx.waiting
         /\ s \in mtx.waiting => body[s] = <<>>

\* The inductive invariant.
IInv == TypeOK /\ RunInv /\ LockInv /\ PageOfOneGeneration /\ OnlyCurrentGenerationLives

-----------------------------------------------------------------------------
(* Facts about the operators.                                                 *)

\* What Append does.
LEMMA AppendFacts ==
    ASSUME NEW S, NEW q \in Seq(S), NEW x \in S
    PROVE  /\ Append(q, x) \in Seq(S) /\ Len(Append(q, x)) = Len(q) + 1
           /\ Len(q) \in Nat /\ DOMAIN q = 1..Len(q)
           /\ DOMAIN Append(q, x) = 1..(Len(q) + 1)
           /\ \A i \in 1..Len(q) : Append(q, x)[i] = q[i]
           /\ Append(q, x)[Len(q) + 1] = x
OBVIOUS

\* The settings of every value of spec.replicas, and of the options.
LEMMA SettingsTyped ==
    /\ \A r \in Replicas : SettingsOf(r) \in AllSettings
    /\ Settings(Nominal, TotalShards) \in AllSettings
    /\ NotConfigured \in AllSettings
<1>1. Settings(Nominal, TotalShards) \in AllSettings /\ NotConfigured \in AllSettings
    BY DEF Settings, AllSettings, NotConfigured
<1>2. \A r \in Replicas : SettingsOf(r) \in AllSettings
    BY DEF Settings, SettingsOf, AllSettings
<1> QED
    BY <1>1, <1>2

\* The page and the generations do not depend on anything else.
LEMMA PageFrame ==
    ASSUME PageOfOneGeneration, UNCHANGED <<gens, serving, body>>
    PROVE  PageOfOneGeneration'
BY DEF PageOfOneGeneration, Gen

\* A step that leaves the settings and the generations alone leaves no old
\* generation alive that was not.
LEMMA GenerationsFrame ==
    ASSUME OnlyCurrentGenerationLives, UNCHANGED <<cur, gens, cancelled, alive>>
    PROVE  OnlyCurrentGenerationLives'
BY DEF OnlyCurrentGenerationLives, Gen

-----------------------------------------------------------------------------
(* The StatefulSet, the informer and Run.                                     *)

\* Steps that touch neither the lock nor the generations nor the responses.
LEMMA OutsideSteps ==
    ASSUME IInv,
           \/ \E r \in Replicas : Scale(r)
           \/ Relabel \/ Notify \/ (\E r \in Replicas : NotifyOther(r)) \/ RunStatic \/ RunAuto \/ RunFails
    PROVE  IInv'
<1> USE HandlerAssumption
<1>1. UNCHANGED <<mtx, cur, gens, cancelled, alive, serving, encoding, body, auto, named>>
    BY DEF Scale, Relabel, Notify, NotifyOther, RunStatic, RunAuto, RunFails, ssVars, confVars, genVars, scrapeVars
<1>2. PageOfOneGeneration' /\ OnlyCurrentGenerationLives'
    BY <1>1, PageFrame, GenerationsFrame DEF IInv
<1>3. /\ ss' \in [version : Nat, replicas : Replicas, selected : BOOLEAN]
      /\ notified' \in 0..ss'.version
    <2>1. ss \in [version : Nat, replicas : Replicas, selected : BOOLEAN] /\ notified \in 0..ss.version
        BY DEF IInv, TypeOK
    <2>2. ASSUME NEW r \in Replicas, Scale(r)
          PROVE  /\ ss' \in [version : Nat, replicas : Replicas, selected : BOOLEAN]
                 /\ notified' \in 0..ss'.version
        BY <2>1, <2>2 DEF Scale
    <2>3. CASE Relabel
        BY <2>1, <2>3 DEF Relabel
    <2>4. CASE Notify
        BY <2>1, <2>4 DEF Notify
    <2>5. CASE (\E r \in Replicas : NotifyOther(r)) \/ RunStatic \/ RunAuto \/ RunFails
        BY <2>1, <2>5 DEF NotifyOther, RunStatic, RunAuto, RunFails, ssVars
    <2> QED
        BY <2>2, <2>3, <2>4, <2>5
<1>4. events' \in Seq(Events)
    <2>1. events \in Seq(Events) /\ ss.replicas \in Replicas
        BY DEF IInv, TypeOK, Events
    <2>2. \A news \in BOOLEAN, r \in Replicas : Event(news, r) \in Events
        BY DEF Event, Events
    <2>3. events' = events \/ \E e \in Events : events' = Append(events, e)
        BY <2>1, <2>2 DEF Scale, Relabel, Notify, NotifyOther, RunStatic, RunAuto, RunFails, ssVars
    <2> QED
        BY <2>1, <2>3, AppendFacts
<1>5. /\ run' \in {"start", "running", "failed"}
      /\ conf' \in {"idle", "compare", "lock", "locked"}
      /\ want' \in AllSettings
    BY SettingsTyped
       DEF IInv, TypeOK, Scale, Relabel, Notify, NotifyOther, RunStatic, RunAuto, RunFails, confVars
<1>6. TypeOK'
    BY <1>1, <1>3, <1>4, <1>5 DEF IInv, TypeOK, Events
<1>7. RunInv'
    BY DEF IInv, RunInv, Scale, Relabel, Notify, NotifyOther, RunStatic, RunAuto, RunFails, confVars, ssVars
<1>8. LockInv'
    <2>1. conf' = conf \/ (conf = "idle" /\ conf' = "lock")
        BY DEF IInv, RunInv, Scale, Relabel, Notify, NotifyOther, RunStatic, RunAuto, RunFails, confVars
    <2> QED
        BY <1>1, <2>1 DEF IInv, LockInv
<1> QED
    BY <1>2, <1>6, <1>7, <1>8 DEF IInv

-----------------------------------------------------------------------------
(* The configuring goroutine.                                                 *)

\* The notification that is handled and those that are left.
LEMMA EventsTyped ==
    ASSUME IInv, events # <<>>
    PROVE  Head(events) \in Events /\ Tail(events) \in Seq(Events)
<1>1. events \in Seq(Events)
    BY DEF IInv, TypeOK, Events
<1> QED
    BY <1>1

\* A notification that changes nothing is dropped.
LEMMA IgnoreEventStep ==
    ASSUME IInv, IgnoreEvent
    PROVE  IInv'
<1>1. /\ UNCHANGED <<auto, named, ss, notified, run, conf, want, mtx, cur, gens, cancelled,
                     alive, serving, encoding, body>>
      /\ events # <<>> /\ events' = Tail(events)
    BY DEF IgnoreEvent, confVars, genVars, scrapeVars
<1>2. PageOfOneGeneration' /\ OnlyCurrentGenerationLives'
    BY <1>1, PageFrame, GenerationsFrame DEF IInv
<1>3. events' \in Seq(Events)
    BY <1>1, EventsTyped
<1>4. TypeOK'
    BY <1>1, <1>3 DEF IInv, TypeOK, Events
<1>5. RunInv' /\ LockInv'
    BY <1>1 DEF IInv, RunInv, LockInv
<1> QED
    BY <1>2, <1>4, <1>5 DEF IInv

\* The informer's handler asks for the read lock to compare the settings.
LEMMA HandleEventStep ==
    ASSUME IInv, HandleEvent
    PROVE  IInv'
<1>1. /\ UNCHANGED <<auto, named, ss, notified, run, cur, gens, cancelled, alive, serving, encoding, body>>
      /\ conf = "idle" /\ conf' = "compare" /\ events # <<>>
      /\ mtx' = RLock(mtx, Configurer)
    BY DEF HandleEvent, genVars, scrapeVars
<1>2. PageOfOneGeneration' /\ OnlyCurrentGenerationLives'
    BY <1>1, PageFrame, GenerationsFrame DEF IInv
<1>3. mtx \in RWMutexes({Configurer}, Scrapers \cup {Configurer}) /\ mtx.writer = {}
    BY <1>1 DEF IInv, TypeOK, LockInv, RWMutexes
<1>4. /\ mtx' \in RWMutexes({Configurer}, Scrapers \cup {Configurer})
      /\ mtx'.readers = mtx.readers \cup {Configurer}
      /\ mtx'.waiting = mtx.waiting /\ mtx'.writer = {}
    BY <1>1, <1>3 DEF RLock, RWMutexes
<1>5. want' \in AllSettings /\ events' \in Seq(Events)
    <2>1. Head(events) \in Events /\ Tail(events) \in Seq(Events)
        BY <1>1, EventsTyped
    <2>2. Head(events).replicas \in Replicas
        BY <2>1 DEF Events
    <2> QED
        BY <2>1, <2>2, SettingsTyped DEF HandleEvent
<1>6. TypeOK'
    BY <1>1, <1>4, <1>5 DEF IInv, TypeOK, Events
<1>7. RunInv'
    BY <1>1 DEF IInv, RunInv
<1>8. LockInv'
    BY <1>1, <1>3, <1>4, HandlerAssumption DEF IInv, LockInv
<1> QED
    BY <1>2, <1>6, <1>7, <1>8 DEF IInv

\* The handler compares under the read lock and releases it.
LEMMA CompareStep ==
    ASSUME IInv, Compare
    PROVE  IInv'
<1>1. /\ UNCHANGED <<auto, named, ss, notified, events, run, want, cur, gens, cancelled, alive,
                     serving, encoding, body>>
      /\ conf = "compare" /\ conf' \in {"idle", "lock"}
      /\ mtx' = RUnlock(mtx, Configurer)
    BY DEF Compare, ssVars, genVars, scrapeVars
<1>2. PageOfOneGeneration' /\ OnlyCurrentGenerationLives'
    BY <1>1, PageFrame, GenerationsFrame DEF IInv
<1>3. /\ mtx' \in RWMutexes({Configurer}, Scrapers \cup {Configurer})
      /\ mtx'.readers = mtx.readers \ {Configurer}
      /\ mtx'.waiting = mtx.waiting /\ mtx'.writer = mtx.writer
    BY <1>1 DEF IInv, TypeOK, RUnlock, RWMutexes
<1>4. TypeOK' /\ RunInv'
    BY <1>1, <1>3 DEF IInv, TypeOK, RunInv
<1>5. LockInv'
    BY <1>1, <1>3, HandlerAssumption DEF IInv, LockInv
<1> QED
    BY <1>2, <1>4, <1>5 DEF IInv

\* ConfigureSharding announces itself as the lock's writer.
LEMMA LockMtxStep ==
    ASSUME IInv, LockMtx
    PROVE  IInv'
<1>1. /\ UNCHANGED <<auto, named, ss, notified, events, run, want, cur, gens, cancelled, alive,
                     serving, encoding, body>>
      /\ conf = "lock" /\ conf' = "locked"
      /\ mtx' = Lock(mtx, Configurer)
    BY DEF LockMtx, ssVars, genVars, scrapeVars
<1>2. PageOfOneGeneration' /\ OnlyCurrentGenerationLives'
    BY <1>1, PageFrame, GenerationsFrame DEF IInv
<1>3. /\ mtx' \in RWMutexes({Configurer}, Scrapers \cup {Configurer})
      /\ mtx'.readers = mtx.readers
      /\ mtx'.waiting = mtx.waiting /\ mtx'.writer = {Configurer}
    BY <1>1 DEF IInv, TypeOK, Lock, RWMutexes
<1>4. TypeOK' /\ RunInv'
    BY <1>1, <1>3 DEF IInv, TypeOK, RunInv
<1>5. LockInv'
    BY <1>1, <1>3 DEF IInv, LockInv
<1> QED
    BY <1>2, <1>4, <1>5 DEF IInv

\* No reader holds the lock: a response in progress has not begun, so it will be
\* written by the new generation; the one it replaces is cancelled, and the older
\* ones were when they were replaced.
LEMMA ConfigureShardingStep ==
    ASSUME IInv, ConfigureSharding
    PROVE  IInv'
<1>1. /\ UNCHANGED <<auto, named, ss, notified, events, run, want, serving, encoding, body>>
      /\ conf = "locked" /\ conf' = "idle"
      /\ mtx' = Unlock(mtx) /\ mtx.readers = {}
      /\ cur' = want /\ gens' = Append(gens, want)
      /\ cancelled' = cancelled \cup (DOMAIN gens \cap {Len(gens)})
      /\ alive' = alive \cup {Len(gens')}
    BY DEF ConfigureSharding, Locked, ssVars, scrapeVars
<1>2. /\ gens \in Seq(AllSettings) /\ want \in AllSettings
      /\ cancelled \subseteq DOMAIN gens /\ alive \subseteq DOMAIN gens
    BY DEF IInv, TypeOK
<1> DEFINE g == Len(gens)
<1>3. /\ gens' \in Seq(AllSettings) /\ Len(gens') = g + 1 /\ g \in Nat
      /\ DOMAIN gens = 1..g /\ DOMAIN gens' = 1..(g + 1)
      /\ gens'[g + 1] = want
    BY <1>1, <1>2, AppendFacts
<1> HIDE DEF g
<1>4. /\ cancelled' = cancelled \cup (1..g \cap {g}) /\ cancelled' \subseteq 1..g
      /\ alive' = alive \cup {g + 1} /\ alive \subseteq 1..g /\ alive' \subseteq 1..(g + 1)
    BY <1>1, <1>2, <1>3 DEF g
<1>5. /\ mtx' \in RWMutexes({Configurer}, Scrapers \cup {Configurer})
      /\ mtx'.readers = mtx.waiting
      /\ mtx'.waiting = {} /\ mtx'.writer = {}
    BY <1>1 DEF IInv, TypeOK, Unlock, RWMutexes
<1>6. TypeOK' /\ RunInv'
    BY <1>1, <1>2, <1>3, <1>4, <1>5 DEF IInv, TypeOK, RunInv
<1>7. LockInv'
    BY <1>1, <1>5 DEF IInv, LockInv
<1>8. PageOfOneGeneration'
    <2>1. \A s \in serving : body[s] = <<>>
        BY <1>1 DEF IInv, TypeOK, LockInv
    <2> QED
        BY <1>1, <2>1 DEF PageOfOneGeneration
<1>9. OnlyCurrentGenerationLives'
    <2>1. alive' \ cancelled' = {g + 1}
        <3>1. alive \ cancelled \subseteq {g}
            BY DEF IInv, OnlyCurrentGenerationLives, Gen, g
        <3>2. alive \subseteq cancelled'
            BY <1>4, <3>1
        <3>3. g + 1 \notin cancelled'
            BY <1>3, <1>4
        <3> QED
            BY <1>4, <3>2, <3>3
    <2> QED
        BY <1>1, <1>3, <2>1 DEF OnlyCurrentGenerationLives, Gen, Last
<1> QED
    BY <1>6, <1>7, <1>8, <1>9 DEF IInv

\* The reflectors of a cancelled generation end.
LEMMA ReflectorsStopStep ==
    ASSUME IInv, NEW g \in DOMAIN gens, ReflectorsStop(g)
    PROVE  IInv'
<1>1. /\ UNCHANGED <<auto, named, ss, notified, events, run, conf, want, mtx, cur, gens, cancelled,
                     serving, encoding, body>>
      /\ g \in cancelled /\ alive' = alive \ {g}
    BY DEF ReflectorsStop, ssVars, confVars, scrapeVars
<1>2. PageOfOneGeneration'
    BY <1>1, PageFrame DEF IInv
<1>3. TypeOK' /\ RunInv'
    BY <1>1 DEF IInv, TypeOK, RunInv
<1>4. LockInv'
    BY <1>1 DEF IInv, LockInv
<1>5. OnlyCurrentGenerationLives'
    BY <1>1 DEF IInv, OnlyCurrentGenerationLives, Gen
<1> QED
    BY <1>2, <1>3, <1>4, <1>5 DEF IInv

-----------------------------------------------------------------------------
(* ServeHTTP.                                                                 *)

\* Steps of a scraper leave Run, the configuring goroutine and the generations
\* alone.
LEMMA ScraperFrame ==
    ASSUME IInv,
           UNCHANGED <<auto, named, ss, notified, events, run, conf, want, cur, gens, cancelled, alive>>,
           mtx' \in RWMutexes({Configurer}, Scrapers \cup {Configurer}),
           serving' \subseteq Scrapers, encoding' \in [Scrapers -> BOOLEAN],
           body' \in [Scrapers -> Seq([gen : Nat, store : Nat, gzipped : BOOLEAN])],
           LockInv', PageOfOneGeneration'
    PROVE  IInv'
<1>1. TypeOK' /\ RunInv'
    BY DEF IInv, TypeOK, RunInv
<1>2. OnlyCurrentGenerationLives'
    BY GenerationsFrame DEF IInv
<1> QED
    BY <1>1, <1>2 DEF IInv

\* A scrape asks for the read lock.
LEMMA CallServeHTTPStep ==
    ASSUME IInv, NEW s \in Scrapers, NEW acceptsGzip \in BOOLEAN, CallServeHTTP(s, acceptsGzip)
    PROVE  IInv'
<1>1. /\ UNCHANGED <<auto, named, ss, notified, events, run, conf, want, cur, gens, cancelled, alive>>
      /\ s \notin serving /\ serving' = serving \cup {s}
      /\ mtx' = RLock(mtx, s)
      /\ body' = [body EXCEPT ![s] = <<>>]
      /\ encoding' = [encoding EXCEPT ![s] = GzipEnabled /\ acceptsGzip]
    BY DEF CallServeHTTP, ssVars, confVars, genVars
<1>2. /\ mtx \in RWMutexes({Configurer}, Scrapers \cup {Configurer})
      /\ serving \subseteq Scrapers /\ encoding \in [Scrapers -> BOOLEAN]
      /\ body \in [Scrapers -> Seq([gen : Nat, store : Nat, gzipped : BOOLEAN])]
    BY DEF IInv, TypeOK
<1>3. /\ mtx' \in RWMutexes({Configurer}, Scrapers \cup {Configurer})
      /\ mtx'.writer = mtx.writer
      /\ \/ mtx'.readers = mtx.readers \cup {s} /\ mtx'.waiting = mtx.waiting
         \/ mtx'.readers = mtx.readers /\ mtx'.waiting = mtx.waiting \cup {s}
    BY <1>1, <1>2 DEF RLock, RWMutexes
<1>4. body' \in [Scrapers -> Seq([gen : Nat, store : Nat, gzipped : BOOLEAN])]
    BY <1>1, <1>2
<1>5. encoding' \in [Scrapers -> BOOLEAN]
    <2>1. (GzipEnabled /\ acceptsGzip) \in BOOLEAN
        OBVIOUS
    <2> QED
        BY <1>1, <1>2, <2>1
<1>6. LockInv'
    BY <1>1, <1>2, <1>3, HandlerAssumption DEF IInv, LockInv
<1>7. PageOfOneGeneration'
    <2> SUFFICES ASSUME NEW q \in serving', NEW i \in DOMAIN body'[q]
                 PROVE  body'[q][i] = Part(Gen, i, FALSE)
        BY <1>1, ZenonT(60) DEF PageOfOneGeneration, Gen
    <2>1. q # s
        <3>1. body'[s] = <<>> /\ DOMAIN <<>> = {}
            BY <1>1, <1>2
        <3> QED
            BY <3>1
    <2>2. q \in serving /\ body'[q] = body[q]
        BY <1>1, <1>2, <2>1
    <2> QED
        BY <2>2 DEF IInv, PageOfOneGeneration
<1> QED
    BY <1>1, <1>2, <1>3, <1>4, <1>5, <1>6, <1>7, ScraperFrame

\* The next store of the current generation is written after the others.
LEMMA WriteStoreStep ==
    ASSUME IInv, NEW s \in Scrapers, WriteStore(s)
    PROVE  IInv'
<1> DEFINE Parts == [gen : Nat, store : Nat, gzipped : BOOLEAN]
           n == Len(body[s])
<1>1. /\ UNCHANGED <<auto, named, ss, notified, events, run, conf, want, cur, gens, cancelled, alive>>
      /\ UNCHANGED <<mtx, serving, encoding>>
      /\ s \in serving /\ s \in mtx.readers
      /\ body' = [body EXCEPT ![s] = Append(body[s], Part(Gen, n + 1, FALSE))]
    BY DEF WriteStore, RLocked, ssVars, confVars, genVars
<1>2. body \in [Scrapers -> Seq(Parts)] /\ gens \in Seq(AllSettings)
    BY DEF IInv, TypeOK
<1>3. body[s] \in Seq(Parts) /\ n \in Nat /\ Gen \in Nat
    BY <1>2 DEF Gen
<1>4. Part(Gen, n + 1, FALSE) \in Parts
    BY <1>3 DEF Part
<1> DEFINE new == Append(body[s], Part(Gen, n + 1, FALSE))
<1>5. /\ new \in Seq(Parts) /\ DOMAIN new = 1..(n + 1) /\ DOMAIN body[s] = 1..n
      /\ \A i \in 1..n : new[i] = body[s][i]
      /\ new[n + 1] = Part(Gen, n + 1, FALSE)
    <2> DEFINE part == Part(Gen, n + 1, FALSE)
    <2>1. body[s] \in Seq(Parts) /\ part \in Parts
        BY <1>3, <1>4
    <2> HIDE DEF Parts, part
    <2>2. /\ Append(body[s], part) \in Seq(Parts)
          /\ DOMAIN Append(body[s], part) = 1..(n + 1) /\ DOMAIN body[s] = 1..n
          /\ \A i \in 1..n : Append(body[s], part)[i] = body[s][i]
          /\ Append(body[s], part)[n + 1] = part
        BY <2>1, AppendFacts
    <2> QED
        BY <2>2 DEF part
<1>6. \A q \in Scrapers : body'[q] = IF q = s THEN new ELSE body[q]
    BY <1>1, <1>2
<1> HIDE DEF n, new
<1>7. body' \in [Scrapers -> Seq(Parts)]
    BY <1>1, <1>2, <1>5 DEF n, new
<1>8. LockInv'
    <2>1. s \notin mtx.waiting
        BY <1>1 DEF IInv, LockInv
    <2> QED
        BY <1>1, <1>6, <2>1 DEF IInv, LockInv
<1>9. PageOfOneGeneration'
    <2> SUFFICES ASSUME NEW q \in serving, NEW i \in DOMAIN body'[q]
                 PROVE  body'[q][i] = Part(Gen, i, FALSE)
        BY <1>1, ZenonT(60) DEF PageOfOneGeneration, Gen
    <2>1. q \in Scrapers /\ PageOfOneGeneration
        BY DEF IInv, TypeOK
    <2>2. CASE q # s
        BY <1>6, <2>1, <2>2 DEF PageOfOneGeneration
    <2>3. CASE q = s
        <3>1. i \in 1..n \/ i = n + 1
            <4>1. i \in 1..(n + 1)
                BY <1>5, <1>6, <2>3
            <4> QED
                BY <1>3, <4>1
        <3> QED
            BY <1>1, <1>5, <1>6, <2>1, <2>3, <3>1 DEF PageOfOneGeneration
    <2> QED
        BY <2>2, <2>3
<1>10. /\ mtx' \in RWMutexes({Configurer}, Scrapers \cup {Configurer})
       /\ serving' \subseteq Scrapers /\ encoding' \in [Scrapers -> BOOLEAN]
    BY <1>1 DEF IInv, TypeOK
<1> QED
    BY <1>1, <1>7, <1>8, <1>9, <1>10, ScraperFrame

\* A scrape that has written every store releases the lock.
LEMMA ReturnStep ==
    ASSUME IInv, NEW s \in Scrapers, ReturnFromServeHTTP(s)
    PROVE  IInv'
<1> DEFINE Parts == [gen : Nat, store : Nat, gzipped : BOOLEAN]
<1>1. /\ UNCHANGED <<auto, named, ss, notified, events, run, conf, want, cur, gens, cancelled, alive, encoding>>
      /\ s \in serving /\ serving' = serving \ {s}
      /\ s \in mtx.readers /\ mtx' = RUnlock(mtx, s)
      /\ body' = body \/ body' = [body EXCEPT ![s] = Append(body[s], Part(0, 0, TRUE))]
    BY DEF ReturnFromServeHTTP, RLocked, ssVars, confVars, genVars
<1>2. /\ body \in [Scrapers -> Seq(Parts)] /\ serving \subseteq Scrapers
      /\ encoding \in [Scrapers -> BOOLEAN]
    BY DEF IInv, TypeOK
<1>3. Append(body[s], Part(0, 0, TRUE)) \in Seq(Parts)
    <2>1. body[s] \in Seq(Parts) /\ Part(0, 0, TRUE) \in Parts
        BY <1>2 DEF Part
    <2> HIDE DEF Parts
    <2> QED
        BY <2>1, AppendFacts
<1>4. body' \in [Scrapers -> Seq(Parts)] /\ \A q \in Scrapers \ {s} : body'[q] = body[q]
    BY <1>1, <1>2, <1>3
<1>5. /\ mtx' \in RWMutexes({Configurer}, Scrapers \cup {Configurer})
      /\ mtx'.writer = mtx.writer
      /\ mtx'.readers = mtx.readers \ {s} /\ mtx'.waiting = mtx.waiting
    BY <1>1 DEF IInv, TypeOK, RUnlock, RWMutexes
<1>6. LockInv'
    BY <1>1, <1>2, <1>4, <1>5, HandlerAssumption DEF IInv, LockInv
<1>7. PageOfOneGeneration'
    <2>1. \A q \in serving' : q \in serving /\ body'[q] = body[q]
        BY <1>1, <1>2, <1>4
    <2> QED
        BY <1>1, <2>1, ZenonT(60) DEF IInv, PageOfOneGeneration, Gen
<1> QED
    BY <1>1, <1>2, <1>4, <1>5, <1>6, <1>7, ScraperFrame

-----------------------------------------------------------------------------
(* The theorems.                                                              *)

\* Before Run nothing is locked, built or served.
LEMMA InitIInv == Init => IInv
<1> SUFFICES ASSUME Init PROVE IInv
    OBVIOUS
<1>1. TypeOK
    BY SettingsTyped, HandlerAssumption DEF Init, TypeOK, Unlocked, RWMutexes
<1>2. RunInv /\ LockInv
    BY DEF Init, RunInv, LockInv, Unlocked
<1>3. PageOfOneGeneration /\ OnlyCurrentGenerationLives
    BY DEF Init, PageOfOneGeneration, OnlyCurrentGenerationLives
<1> QED
    BY <1>1, <1>2, <1>3 DEF IInv

\* Every step of the handler, the informer and the scrapes keeps the invariant.
LEMMA NextIInv == IInv /\ [Next]_vars => IInv'
<1> SUFFICES ASSUME IInv, [Next]_vars PROVE IInv'
    OBVIOUS
<1>1. CASE \/ \E r \in Replicas : Scale(r)
           \/ Relabel \/ Notify \/ (\E r \in Replicas : NotifyOther(r)) \/ RunStatic \/ RunAuto \/ RunFails
    BY <1>1, OutsideSteps
<1>2. CASE IgnoreEvent \/ HandleEvent \/ Configure
    BY <1>2, IgnoreEventStep, HandleEventStep, CompareStep, LockMtxStep, ConfigureShardingStep DEF Configure
<1>3. ASSUME NEW g \in DOMAIN gens, ReflectorsStop(g) PROVE IInv'
    BY <1>3, ReflectorsStopStep
<1>4. ASSUME NEW s \in Scrapers, NEW acceptsGzip \in BOOLEAN, CallServeHTTP(s, acceptsGzip)
      PROVE  IInv'
    BY <1>4, CallServeHTTPStep
<1>5. ASSUME NEW s \in Scrapers, ScrapeStep(s) PROVE IInv'
    BY <1>5, WriteStoreStep, ReturnStep DEF ScrapeStep
<1>6. CASE UNCHANGED vars
    <2>1. LockInv' /\ PageOfOneGeneration'
        BY <1>6, PageFrame DEF vars, IInv, LockInv
    <2> QED
        BY <1>6, <2>1, ScraperFrame DEF vars, IInv, TypeOK
<1> QED
    BY <1>1, <1>2, <1>3, <1>4, <1>5, <1>6 DEF Next

\* The handler's variables have their types: what is configured are settings of
\* the options or of some value of spec.replicas.
THEOREM HandlerTyped == Spec => []TypeOK
<1>1. IInv => TypeOK
    BY DEF IInv
<1> QED
    BY InitIInv, NextIInv, <1>1, PTL DEF Spec

\* A response that is being written holds the stores of the current generation,
\* each once and in order, for any number of concurrent scrapes and of
\* reconfigurations.
THEOREM OneGeneration == Spec => []PageOfOneGeneration
<1>1. IInv => PageOfOneGeneration
    BY DEF IInv
<1> QED
    BY InitIInv, NextIInv, <1>1, PTL DEF Spec

\* ConfigureSharding never leaks the reflectors of a generation it replaces, and
\* never cancels those of the generation that is served.
THEOREM OnlyCurrentLives == Spec => []OnlyCurrentGenerationLives
<1>1. IInv => OnlyCurrentGenerationLives
    BY DEF IInv
<1> QED
    BY InitIInv, NextIInv, <1>1, PTL DEF Spec
=============================================================================
