--------------------------- MODULE MetricsHandler ---------------------------
(***************************************************************************)
(* pkg/metricshandler: the /metrics endpoint and its (auto)sharding.  One  *)
(* goroutine configures sharding: Run itself when autosharding is off, the *)
(* informer's handler goroutine when it is on.  Each ConfigureSharding     *)
(* builds a generation of stores whose reflectors live until the next one  *)
(* cancels them.  Scrapers call ServeHTTP.  The StatefulSet and the shared *)
(* informer that watches it are external.                                  *)
(***************************************************************************)
EXTENDS Naturals, Sequences, SequencesExt, RWMutex

CONSTANTS
    Nominal,        \* opts.Shard, or the number the pod's name ends with
    TotalShards,    \* opts.TotalShards, without autosharding
    Replicas,       \* values of the StatefulSet's spec.replicas
    NoReplicas,     \* spec.replicas is nil
    NumStores,      \* stores the builder makes, one per enabled resource
    GzipEnabled,    \* enableGZIPEncoding
    Scrapers,       \* goroutines in ServeHTTP
    MaxChanges      \* bound: changes of the StatefulSet

\* The goroutine that configures sharding.
Configurer == "configurer"

ASSUME HandlerAssumption ==
    /\ Configurer \notin Scrapers
    /\ GzipEnabled \in BOOLEAN
    /\ Nominal \in Nat /\ TotalShards \in Nat /\ NumStores \in Nat /\ MaxChanges \in Nat
    /\ Replicas \subseteq Nat \cup {NoReplicas} /\ NoReplicas \notin Nat

VARIABLES
    auto,       \* autoSharding: opts.Pod and opts.Namespace are set; never changes
    named,      \* the pod's name is its StatefulSet's and a number; never changes
    ss,         \* the StatefulSet: its version, replicas, and whether its labels
                \* are still the ones it had when Run read it
    notified,   \* the informer: the last version it handed to the handlers
    events,     \* the informer: notifications the handlers have not seen, each with
                \* whether it has a new version of the pod's own StatefulSet
    run,        \* Run: "start", "running", "failed"
    conf,       \* the configuring goroutine: "idle", "compare", "lock", "locked"
    want,       \* the settings it works on
    mtx,        \* m.mtx
    cur,        \* m.curShard and m.curTotalShards
    gens,       \* the settings of each generation of stores; m.stores is the last
    cancelled,  \* generations whose context was cancelled
    alive,      \* generations whose reflectors run
    serving,    \* the scrapers in ServeHTTP
    encoding,   \* the response's Content-Encoding is gzip
    body        \* the response: what was written, and through which writer

ssVars == <<auto, named, ss, notified, events>>
confVars == <<conf, want>>
genVars == <<cur, gens, cancelled, alive>>
scrapeVars == <<serving, encoding, body>>
vars == <<auto, named, ss, notified, events, run, conf, want, mtx, cur, gens, cancelled,
          alive, serving, encoding, body>>

Settings(shard, total) == [shard |-> shard, total |-> total]

\* The zero values of m.curShard and m.curTotalShards.
NotConfigured == Settings(0, 0)

Init ==
    /\ auto \in BOOLEAN /\ named \in BOOLEAN
    /\ ~auto => named
    /\ \E r \in Replicas : ss = [version |-> 1, replicas |-> r, selected |-> TRUE]
    /\ notified = 0
    /\ events = <<>>
    /\ run = "start"
    /\ conf = "idle"
    /\ want = NotConfigured
    /\ mtx = Unlocked
    /\ cur = NotConfigured
    /\ gens = <<>>
    /\ cancelled = {}
    /\ alive = {}
    /\ serving = {}
    /\ encoding = [s \in Scrapers |-> FALSE]
    /\ body = [s \in Scrapers |-> <<>>]

-----------------------------------------------------------------------------
(* The StatefulSet and the informer.                                       *)

Scale(r) ==
    /\ ss.version <= MaxChanges
    /\ ss' = [version |-> ss.version + 1, replicas |-> r, selected |-> ss.selected]
    /\ UNCHANGED <<auto, named, notified, events, run, confVars, mtx, genVars, scrapeVars>>

\* The informer selects by the labels the StatefulSet had when Run read it.
Relabel ==
    /\ run = "running"
    /\ ss.version <= MaxChanges
    /\ ss' = [version |-> ss.version + 1, replicas |-> ss.replicas, selected |-> FALSE]
    /\ UNCHANGED <<auto, named, notified, events, run, confVars, mtx, genVars, scrapeVars>>

Event(news, r) == [news |-> news, replicas |-> r]

\* The informer learns of the current version, perhaps having skipped some.
Notify ==
    /\ run = "running" /\ auto
    /\ ss.selected
    /\ notified < ss.version
    /\ notified' = ss.version
    /\ events' = Append(events, Event(TRUE, ss.replicas))
    /\ UNCHANGED <<auto, named, ss, run, confVars, mtx, genVars, scrapeVars>>

\* The informer hands over another StatefulSet with the same labels, or a version
\* once more after it has listed again.  Bound: one of them is pending at a time.
NotifyOther(r) ==
    /\ run = "running" /\ auto
    /\ \A i \in DOMAIN events : events[i].news
    /\ events' = Append(events, Event(FALSE, r))
    /\ UNCHANGED <<auto, named, ss, notified, run, confVars, mtx, genVars, scrapeVars>>

-----------------------------------------------------------------------------
(* Run and ConfigureSharding.                                              *)

\* Without autosharding Run configures the settings of the options.
RunStatic ==
    /\ run = "start" /\ ~auto
    /\ run' = "running"
    /\ conf' = "lock"
    /\ want' = Settings(Nominal, TotalShards)
    /\ UNCHANGED <<ssVars, mtx, genVars, scrapeVars>>

\* With it, detectStatefulSet finds the StatefulSet and the informer starts.
RunAuto ==
    /\ run = "start" /\ auto
    /\ run' = "running"
    /\ UNCHANGED <<ssVars, confVars, mtx, genVars, scrapeVars>>

\* The pod or its StatefulSet cannot be read: Run returns an error, which main
\* does not look at.
RunFails ==
    /\ run = "start" /\ auto
    /\ run' = "failed"
    /\ UNCHANGED <<ssVars, confVars, mtx, genVars, scrapeVars>>

\* Mutant: spec.replicas is used as it is.
SettingsOfUnchecked(r) == Settings(Nominal, r)

\* shardingSettingsFromStatefulSet.
SettingsOf(r) == Settings(Nominal, IF r = NoReplicas THEN 1 ELSE r)

\* AddFunc or UpdateFunc returns when the StatefulSet has another name, when its
\* version is not new, or when detectNominalFromPod cannot make a number of the
\* pod's name.
IgnoreEvent ==
    /\ conf = "idle" /\ events # <<>>
    /\ ~Head(events).news \/ ~named
    /\ events' = Tail(events)
    /\ UNCHANGED <<auto, named, ss, notified, run, confVars, mtx, genVars, scrapeVars>>

\* Otherwise it takes the read lock; the goroutine is the only one that takes the
\* write lock, so it does not wait.
HandleEvent ==
    /\ conf = "idle" /\ events # <<>>
    /\ Head(events).news /\ named
    /\ want' = SettingsOf(Head(events).replicas)
    /\ events' = Tail(events)
    /\ mtx' = RLock(mtx, Configurer)
    /\ conf' = "compare"
    /\ UNCHANGED <<auto, named, ss, notified, run, genVars, scrapeVars>>

\* Mutant: only the shard's number is compared.
CompareShardOnly ==
    /\ conf = "compare" /\ RLocked(mtx, Configurer)
    /\ mtx' = RUnlock(mtx, Configurer)
    /\ conf' = IF gens # <<>> /\ cur.shard = want.shard THEN "idle" ELSE "lock"
    /\ UNCHANGED <<ssVars, run, want, genVars, scrapeVars>>

Compare ==
    /\ conf = "compare" /\ RLocked(mtx, Configurer)
    /\ mtx' = RUnlock(mtx, Configurer)
    /\ conf' = IF cur = want THEN "idle" ELSE "lock"
    /\ UNCHANGED <<ssVars, run, want, genVars, scrapeVars>>

LockMtx ==
    /\ conf = "lock" /\ CanLock(mtx)
    /\ mtx' = Lock(mtx, Configurer)
    /\ conf' = "locked"
    /\ UNCHANGED <<ssVars, run, want, genVars, scrapeVars>>

\* Mutant: the previous generation is not cancelled.
ConfigureWithoutCancel ==
    /\ conf = "locked" /\ Locked(mtx, Configurer)
    /\ cancelled' = cancelled
    /\ gens' = Append(gens, want)
    /\ alive' = alive \cup {Len(gens')}
    /\ cur' = want
    /\ mtx' = Unlock(mtx)
    /\ conf' = "idle"
    /\ UNCHANGED <<ssVars, run, want, scrapeVars>>

\* Mutant: the stores are built before the readers have left.
ConfigureWithReaders ==
    /\ conf = "locked"
    /\ cancelled' = cancelled \cup (DOMAIN gens \cap {Len(gens)})
    /\ gens' = Append(gens, want)
    /\ alive' = alive \cup {Len(gens')}
    /\ cur' = want
    /\ mtx' = [Unlock(mtx) EXCEPT !.readers = @ \cup mtx.readers]
    /\ conf' = "idle"
    /\ UNCHANGED <<ssVars, run, want, scrapeVars>>

\* The critical section of ConfigureSharding: the previous generation's context
\* is cancelled, the builder starts the reflectors of the new one.
ConfigureSharding ==
    /\ conf = "locked" /\ Locked(mtx, Configurer)
    /\ cancelled' = cancelled \cup (DOMAIN gens \cap {Len(gens)})
    /\ gens' = Append(gens, want)
    /\ alive' = alive \cup {Len(gens')}
    /\ cur' = want
    /\ mtx' = Unlock(mtx)
    /\ conf' = "idle"
    /\ UNCHANGED <<ssVars, run, want, scrapeVars>>

\* The reflectors of a cancelled generation end.
ReflectorsStop(g) ==
    /\ g \in alive \cap cancelled
    /\ alive' = alive \ {g}
    /\ UNCHANGED <<ssVars, run, confVars, mtx, cur, gens, cancelled, scrapeVars>>

-----------------------------------------------------------------------------
(* ServeHTTP.                                                              *)

Gen == Len(gens)
NumParts == IF gens = <<>> THEN 0 ELSE NumStores

\* A part of the response: the store it came from and the writer it went through.
Part(g, i, gzipped) == [gen |-> g, store |-> i, gzipped |-> gzipped]

\* RLock, then the headers: gzip when enabled and the request accepts it.
CallServeHTTP(s, acceptsGzip) ==
    /\ s \notin serving
    /\ serving' = serving \cup {s}
    /\ mtx' = RLock(mtx, s)
    /\ body' = [body EXCEPT ![s] = <<>>]
    /\ encoding' = [encoding EXCEPT ![s] = GzipEnabled /\ acceptsGzip]
    /\ UNCHANGED <<ssVars, run, confVars, genVars>>

\* The next store writes itself, to w and not to the gzip writer.
WriteStore(s) ==
    /\ s \in serving /\ RLocked(mtx, s)
    /\ Len(body[s]) < NumParts
    /\ body' = [body EXCEPT ![s] = Append(@, Part(Gen, Len(@) + 1, FALSE))]
    /\ UNCHANGED <<ssVars, run, confVars, mtx, genVars, serving, encoding>>

\* Mutant: the read lock is not released.
ReturnWithoutRUnlock(s) ==
    /\ s \in serving /\ RLocked(mtx, s)
    /\ Len(body[s]) >= NumParts
    /\ serving' = serving \ {s}
    /\ UNCHANGED <<ssVars, run, confVars, mtx, genVars, encoding, body>>

\* Closing the gzip writer appends an empty gzip stream.
ReturnFromServeHTTP(s) ==
    /\ s \in serving /\ RLocked(mtx, s)
    /\ Len(body[s]) >= NumParts
    /\ body' = IF encoding[s] THEN [body EXCEPT ![s] = Append(@, Part(0, 0, TRUE))] ELSE body
    /\ serving' = serving \ {s}
    /\ mtx' = RUnlock(mtx, s)
    /\ UNCHANGED <<ssVars, run, confVars, genVars, encoding>>

-----------------------------------------------------------------------------
Configure == Compare \/ LockMtx \/ ConfigureSharding

ScrapeStep(s) == WriteStore(s) \/ ReturnFromServeHTTP(s)

Next ==
    \/ \E r \in Replicas : Scale(r)
    \/ Relabel \/ Notify
    \/ \E r \in Replicas : NotifyOther(r)
    \/ RunStatic \/ RunAuto \/ RunFails
    \/ IgnoreEvent \/ HandleEvent \/ Configure
    \/ \E g \in DOMAIN gens : ReflectorsStop(g)
    \/ \E s \in Scrapers :
         \/ \E acceptsGzip \in BOOLEAN : CallServeHTTP(s, acceptsGzip)
         \/ ScrapeStep(s)

Spec == Init /\ [][Next]_vars

\* Fairness: goroutines run; the informer delivers; a scrape's client goes on
\* reading (main sets no timeouts: nothing in the code ensures it).
Fairness ==
    /\ WF_vars(RunStatic) /\ WF_vars(RunAuto \/ RunFails)
    /\ WF_vars(Notify) /\ WF_vars(IgnoreEvent \/ HandleEvent) /\ WF_vars(Configure)
    /\ \A g \in 1..(MaxChanges + 1) : WF_vars(ReflectorsStop(g))
    /\ \A s \in Scrapers : WF_vars(ScrapeStep(s))

FairSpec == Spec /\ Fairness

-----------------------------------------------------------------------------
(* Properties.                                                             *)

AllSettings == [shard : {0, Nominal}, total : {0, TotalShards, 1} \cup (Replicas \ {NoReplicas})]

\* Type invariant of the handler.
TypeOK ==
    /\ auto \in BOOLEAN /\ named \in BOOLEAN
    /\ ss \in [version : Nat, replicas : Replicas, selected : BOOLEAN]
    /\ notified \in 0..ss.version
    /\ events \in Seq([news : BOOLEAN, replicas : Replicas])
    /\ run \in {"start", "running", "failed"}
    /\ conf \in {"idle", "compare", "lock", "locked"}
    /\ want \in AllSettings /\ cur \in AllSettings
    /\ mtx \in RWMutexes({Configurer}, Scrapers \cup {Configurer})
    /\ gens \in Seq(AllSettings)
    /\ cancelled \subseteq DOMAIN gens /\ alive \subseteq DOMAIN gens
    /\ serving \subseteq Scrapers
    /\ encoding \in [Scrapers -> BOOLEAN]
    /\ body \in [Scrapers -> Seq([gen : Nat, store : Nat, gzipped : BOOLEAN])]

\* "It allows concurrent reconfiguration at runtime": a response that is being
\* written holds the stores of one generation, the current one, each once and in
\* order, although reconfigurations and other scrapes interleave with it.
PageOfOneGeneration ==
    \A s \in serving : \A i \in DOMAIN body[s] : body[s][i] = Part(Gen, i, FALSE)

\* Reflectors that nobody will ever stop belong to the current generation: its
\* stores are the ones ServeHTTP reads and its settings the ones curShard and
\* curTotalShards report, so no goroutine of a replaced generation is leaked.
OnlyCurrentGenerationLives ==
    /\ alive \ cancelled \subseteq {Gen}
    /\ gens # <<>> => cur = Last(gens) /\ Gen \in alive \ cancelled

\* The settings the handler should have: those of the options, or of the pod's
\* StatefulSet as it is now.
Target == IF auto THEN SettingsOf(ss.replicas) ELSE Settings(Nominal, TotalShards)

\* Run "re-configures sharding on re-sharding events": the stores that are served
\* come to be sharded as the options or the StatefulSet ask for, and the reflectors
\* of all others have ended, unless Run failed to find the StatefulSet at the start
\* (nothing is tried again), the StatefulSet's labels were changed since (the
\* informer's selector is fixed) or the pod's name has no number (every event is an
\* error).  Events of other StatefulSets change nothing.
EventuallyConfigured ==
    <>[](run = "failed" \/ ~ss.selected \/ ~named \/ (cur = Target /\ alive \subseteq {Gen}))

\* A scrape ends although reconfigurations queue up for the lock it holds.
ScrapesEnd == \A s \in Scrapers : s \in serving ~> s \notin serving

\* --enable-gzip-encoding: "Gzip responses when requested by clients": a response
\* labelled gzip was compressed.
GzippedWhenLabelled ==
    \A s \in Scrapers : encoding[s] => \A i \in DOMAIN body[s] : body[s][i].gzipped
=============================================================================
