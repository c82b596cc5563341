# Verification of kube-state-metrics

TLA+ modules for kube-state-metrics, from the command line and the watch streams to
the families on the page, the TLC runs that check them on small instances, and TLAPS
proofs of theorems about them.
`PROJECT.json` lists components, runs, mutants, theorems, findings, hazards and
the source lines each definition models.

## The system

One process. `main` reads the options, sets up the store builder and starts the
HTTP servers. `MetricsHandler.Run` configures sharding, statically or by watching
the StatefulSet the pod belongs to. Each configuration builds a *generation*: one
`MetricsStore` per enabled resource and one reflector per store. A reflector lists
and watches one resource through a chain of ListerWatchers (one stream per
namespace, joined by `multiListerWatcher`; counted; filtered by shard) and calls
`Add`, `Update`, `Delete` and `Replace` of its store, which turns each object into
text right away. A scrape of `/metrics` calls `WriteAll` of every store of the
current generation.

| part | source | module |
|---|---|---|
| metrics store | `pkg/metrics_store` | `MetricsStore`, `AtomicStore`, `RWMutex`, `MetricsStoreProofs`, `MetricsStoreRefinement` |
| reflector, multi-namespace and sharded ListerWatchers | vendored `client-go/tools/cache/reflector.go`, `pkg/listwatch`, `pkg/sharding` | `Reflector`, `MCReflector`, `ReflectorProofs` |
| metrics handler, (auto)sharding of a process | `pkg/metricshandler` | `MetricsHandler`, `MetricsHandlerProofs` |
| hash of an object to a shard, the pods together | `pkg/sharding`, vendored `go-jump` | `JumpHash`, `Sharding`, `JumpHashProofs`, `ShardingProofs` |
| goroutines of a watch, namespace denylist's watch | `pkg/listwatch`, `pkg/sharding`, vendored `apimachinery/pkg/watch` | `WatchChain`, `WatchChainProofs` |
| start-up, options, store builder | `main.go`, `pkg/options`, `internal/store/builder.go` | `Builder` |
| allow/deny list | `pkg/allowdenylist` | `AllowDenyList` |
| metrics, families, shared helpers | `pkg/metric`, `pkg/metric_generator`, `internal/store/utils.go` | `Metric` |
| metric generators | `internal/store/*.go` | `PodFamilies`, `WorkloadFamilies`, `ClusterFamilies`, `ConfigFamilies` |
| builder, generators and one store together | the above | `Exposition`, `MCExposition`, `ExpositionProofs` |
| counters around List and Watch, telemetry server, index pages, reaper | `pkg/watch`, `main.go` | not modelled |

## Modules

**RWMutex** is Go's `sync.RWMutex` as the code relies on it (external): a writer
announces itself and waits for the readers inside; readers that arrive later wait
for that writer and are let in together when it unlocks. The announcement matters:
it is what keeps scrapes from starving reflectors.

**MetricsStore.** Writers are goroutines in `Add`/`Update`/`Delete`/`Replace`,
readers goroutines in `WriteAll`. An action is what happens between two points
where another goroutine can run: taking the lock, a whole critical section, and in
`WriteAll`, which holds the read lock while the client is served, each single
write. `Update` is `Add`. An object without metadata makes a call return before it
touches anything; inside `Replace` it ends the loop half way. A rendered family is
a value naming the family, the UID and the object's contents. **AtomicStore** is
what the store promises: single steps on a map, and a scrape that is one step.

**Reflector.** The API server is the history of the cluster's states, one per
resource version; an object is the version of its last change. A list may be
served from any version not older than `minCache`, each namespace's from its own.
`pc` is where the goroutine stands: waiting for a list, at the head of the loop,
waiting for a watch, in `watchHandler`'s select, or in the wait between two calls of
`ListAndWatch`. `List`, `Watch`, `WatchRefused`, `WatchFails`, `WatchAgain` and
`VeryShortWatch` are the branches of `ListAndWatch`; `Receive*` are those of
`watchHandler`. A closed `stopCh` is noticed where the code looks: in the wait for the
list, which then goes on to the loop without one (`StopListing`), at the loop's head
(`LoopHead`), in the select (`StopWatching`) and in `wait.Until` (`Backoff`); a watch
request is not interrupted.
`rv` is the resource version split at `/`: `<<>>` after a sharded list, one part
per stream after an unsharded one, one part after any event. `Handle` holds both
filters an event passes: the shard's `keep` and the reflector's `expectedType`.
Constants choose the configuration: streams and their scopes, sharding, whether
the types agree.

**MetricsHandler.** One goroutine configures: `Run` itself, or the informer's
handler goroutine. `ConfigureSharding`'s critical section is one action that
cancels the last generation and appends a new one. `ServeHTTP` takes the read lock
and writes store after store. The StatefulSet (scaled, relabelled) and the informer
are external. The informer may skip versions and may hand over other StatefulSets or a
version it has handed over before; the handlers ignore these, and every event when the
pod's name does not end in a number (`IgnoreEvent`).

**JumpHash** computes `jump.Hash` from the numbers drawn from a key (any sequence of
draws; the width is scaled from 2^31, rounding to doubles is left out). **Sharding**
composes the pods of a StatefulSet: the controller starts and stops pods, each pod
finds its StatefulSet or fails to, once and for good, learns of `spec.replicas` in its
own time until the StatefulSet is relabelled, and `keep` decides who shows an object.

**WatchChain.** The goroutines of one `Watch` and the unbuffered channels between
them: `StreamWatcher.receive` per stream; the senders of `multiWatch`, or the goroutine
of the denylist watch; the goroutine that closes `result`; `watch.Filter` for a shard;
the reflector at the end. A hand-over on a channel is one step of a goroutine that
sends (`at = "send"`) and one that reads. `layout` says how the wrappers are stacked,
`NumNamespaces` how many streams a `multiWatch` joins.
`Watch` opens the streams one by one and `WatchFails` returns in the middle;
`multiWatch.Stop` calls its stoppers one by one and then closes `stopped`.

**Metric** holds metrics, families and what `utils.go` and the wrap functions do. The
four **Families** modules translate all generators: `xMetricFamilies(o)` is the
sequence of the families of an object, in the order of the table in the code. An object
is a record of the fields its generators read; an optional field is a set of at most
one element; a name with separators is the sequence of its parts, and
`sanitizeLabelName` is what the code does to it. Times are small numbers; a cron
schedule is the set of times that satisfy it, and the zero time a number below them. A nil dereference or `panic` yields `Panic`, a metric that
cannot be written. Left out: the help texts, the order of a map's entries (the code
sorts labels by name), and the limits on length in `IsQualifiedName`.

**Builder** is the start-up: resources, allow/deny list, client, `Build`; each failure
ends the process, which is then started again with the same command line. `Kept` is
the loop that appends the elements of a sequence that are wanted, for
`FilterMetricFamilies` and for the enabled resources.
**AllowDenyList** has the five operations of the list; a regular expression is the set
of names it matches and whether it compiles. `Include` and `Exclude` have no caller in
`main`; `EditAllowDenyList` is a program that embeds the builder and edits the list before
or after `Parse`; the history variable `parsed` holds the entries `Parse` saw. **Exposition** lets
the objects of one resource come, change and go, while the process starts, lists,
watches and panics; its events are single steps, since `Reflector` and `MetricsStore`
treat their inside. **MCExposition** has the objects: for each of the 29 resources a
base object, and the base with one field at a time set to each value its generators
tell apart (cron jobs, and a deployment's replicas and limits: all combinations). The base objects meet every command line, the
others one that enables their resource and filters nothing.

## Runs

| run | what it asks | bounds |
|---|---|---|
| `store` | pages never torn; a running `Replace` shows a prefix of its list; the store implements `AtomicStore`; no store call and no scrape waits forever | 2 objects, 2 families, lists of 2, one reflector, 2 scrapes |
| `reflector_one` | snapshot at every moment of a watch, catches up, stops when cancelled | 2 objects, 4 versions, one fault of any kind, a stop anywhere |
| `reflector_namespaces` | the same for two namespaces with joined versions | 2 objects, 4 versions |
| `reflector_sharded_namespaces` | existing objects of a shard come to be shown | 3 objects, one of another shard, 3 versions |
| `sharded_lost_delete` (violation) | a deleted object is shown forever with sharding | 2 objects, 4 versions |
| `wrong_expected_type` (violation) | volumeattachments and mutatingwebhookconfigurations ignore watch events | 2 objects, 4 versions |
| `handler` | pages of one generation, no leaked generation, follows the StatefulSet, scrapes end | 2 scrapers, 2 changes, 2 stores, static and auto, one ignored event pending at a time |
| `handler_gzip` (violation) | bodies labelled gzip are not compressed | 1 scraper |
| `autosharding` | consistent hash; who shows an object while pods disagree and after | 4 pods, 2 scalings or relabellings, pods that fail, 1 object, all keys of width 6 |
| `watch_chain` | nothing lost, repeated or reordered; closed when all is read; no lock-up; what is left after `Stop` | 2 streams, 2 events each, 6 layouts |
| `exposition` | headers above their families, start-up as configured, distinct series and labels, pod, deployment and cron job families, what panics | 2 objects, 29 resources, 10 command lines |
| `max_unavailable_rounding` (violation) | a percentage of unavailable pods is shown rounded up | the same |

Why these bounds are enough for the questions: a torn page needs one writer step
inside one scrape with two families, and what an object contains decides no branch of the
store, so one content is enough (the theorems are for any); starvation of a writer, and a
scrape that waits for a writer that waits for a scrape, need two readers; a lost event needs a list, a change after it and a resumed watch, which 4
versions allow twice and 3 once; two streams are the least that makes versions composite; pods
disagree already with two totals, and 4 pods allow scaling up and down by more than
one. Objects never interact in `Sharding`, so one object stands for all. In `WatchChain`
every goroutine holds at most one event, so two events per stream show each overtaking,
and two streams are the least that share a channel. In `Exposition` two objects can
collide, and what is generated for an object does not depend on what it was before.
`CHECK_DEADLOCK FALSE` stands where the system may stop: a cancelled reflector, a
StatefulSet that is scaled no more, a watch that has ended, a process whose cluster rests.

## Fairness

*Store and handler:* goroutines that can run do; Go's mutex does not pass over a
waiting writer forever (strong fairness on `LockMutex`); a scrape's client goes on
reading. The last one is an assumption about clients: the servers set no timeouts,
and one client that stops reading blocks the reflector of a store, then every
reconfiguration and every later scrape.

*Reflector:* the goroutine runs, and its select does not pass over a closed `stopCh`
forever; requests are answered, the server's caches catch up, every stream ends
in the end (`TimeoutSeconds`), and an event that is due again and again arrives
(strong fairness: a watch lasts minutes). Changes, faults, bookmarks and the
cancellation are never forced; faults are bounded by `MaxFaults`.

*Watch chain:* goroutines run, the server ends its streams, and each sender on a shared
channel is served in turn, as Go queues them (strong fairness on `ForwardSends`). Nobody
has to send an event, to fail or to leave.

*Exposition* has no liveness property and needs no fairness.

*Handler and pods:* the informer delivers while it selects the StatefulSet, the
controller starts and stops pods, and `Run`'s first requests are answered, one way or the
other. A pod whose `Run` failed, or whose StatefulSet was relabelled, learns nothing:
`EventuallyConfigured` and `EventuallyEachOnce` speak of the pods that follow.

## Proofs

The theorems hold for all values of the constants; the assumptions on these are the
named `ASSUME`s of the modules, on their types and sizes, and `Plain`, below. TLC agreed with each inductive invariant on the instance of the
component's run before it was proved.

**MetricsStoreProofs** (any objects, contents, writers, readers, families, lists).
`StoreTyped`, `NoTornPage` (`PageNotTorn`) and `ReplacePrefix` (`ReplaceShowsPrefix`).
`PageNotTorn` alone is not inductive. `ReadersInv` says a reader in `WriteAll` is
among the lock's readers or waiting, and has written nothing while it waits, so a
writer, which finds no readers, disturbs no page; it also says that nothing is left to
yield when no header is written. `EntriesInv` says that an entry was rendered from an
object with its UID, so two blobs of a section differ. `CallsInv` says that an item
that reaches a critical section has metadata. `ReplaceShowsPrefix` is inductive beside
`IInv`: an item that is stored makes the prefix one longer, also when its UID is there
already (`PutHoldsPrefix`).

**MetricsStoreRefinement.** `StoreIsAtomic`: `Spec => ImplementsAtomicStore`. `Pages`
is the refinement mapping: a response counts as served when `WriteAll` returns. Steps
that take or release the lock, and all writes of a response but the return, are
stutters; the return is a scrape of the map as it is then, because the map has not
changed since the lock was taken, which is `PageNotTorn`.

**JumpHashProofs** and **ShardingProofs** (any width, numbers of buckets, pods,
scalings). `HashConsistent`: with one bucket more an object stays or moves to the new
one. `TwoKeepers` and `SettledPartition` follow from it: if two pods with different
totals show one object, the one with more shards has a shard the other does not know.
`Hash` is a loop over the draws, written as a recursive function. That such a function
exists, that the candidate grows with every iteration and that the loop ends are proved
by induction: a set of naturals without a least element is empty
(`WellFoundedInduction`). The induction theorems of the library take the predicate as
an operator, which the provers cannot instantiate; a set they can.

**MetricsHandlerProofs** (any scrapers, stores, changes of the StatefulSet).
`HandlerTyped`, `OneGeneration` (`PageOfOneGeneration`) and `OnlyCurrentLives`
(`OnlyCurrentGenerationLives`). The strengthening is `LockInv`, who holds `m.mtx` in
which state of the two sides, and `RunInv`, nothing is configured before `Run`.

**ReflectorProofs** (any objects, streams, scopes, versions, faults). `ReflectorTyped`
needs `PosInv`: a watch has a version to go on from in every stream, and an object
whose initial event is to come exists there. `StoreSnapshot` is
`Plain => (Spec => []StoreIsSnapshot)`. `Plain` is the configuration the property is
about: no sharding, matching types, namespaces that share no object. Without it the
property fails in ways the findings describe. Two more facts are needed: `OneChange`,
a version changes one object, so that the next event of a stream brings the store
exactly to the event's version; and `ResumeInv`, when no watch runs and the resource
version has a part for each stream, these are the versions the store shows, and only a
list that a stop interrupted leaves the loop without a version.

**WatchChainProofs** (any layouts, at least two namespaces, any number of events).
`ChainTyped`, `LosesNothing` (`NothingLost`) and `ClosedAfterAll`
(`ClosedWhenAllRead`). `NothingLost` says of each stream that what was read, what the
goroutines hold from the reflector back to the decoder, and what was sent agree. It is
inductive with `StreamsInv`, what each goroutine may hold, and `ControlInv`, which
relates the ends: a sender is done only when its receiver is, `result` is closed only
when all senders are done, the filter ends only when its input is closed. From this a
closed channel means that nobody holds anything.

**ExpositionProofs** (any command lines, edits and objects). `ExpositionTyped`,
`Aligned` (`HeadersAligned`) and `ServesAsAsked` (`ServesAsConfigured`). `BuilderInv`
says for each point of the start-up what the options have become: the enabled resources
are `Kept(availableStores, Wanted)`, what the list has compiled are the entries that
`Parse` saw, the stores are those that `Build` makes of both. `ObjectsInv` says that what is shown was
rendered with these stores. `KeptElements` (induction over the loop) says what filtering
leaves. `NamesAreFixed` goes through the 29 tables of generators: which families an
object has, in which order, is the same for every object of its resource.

Only model-checked:

- liveness under fairness, which the prover does not do: `CallsReturn`, `ScrapesEnd`,
  `EventuallyConsistent`, `EventuallyComplete`, `StopsWhenCancelled`,
  `EventuallyConfigured`, `EventuallyEachOnce`, `StopCloses`, `ChainMoves`,
  `OnlySendersStay`;
- the properties of `Exposition` about the contents of families: they hold for the
  objects an API server admits, which `MCExposition` lists and no module defines, and
  they rest on folds over an object's lists, whose results take an induction for each
  generator.

## Findings

- `shardedListWatch.List` drops the resource version: an object deleted between the
  list and the watch stays in the store (`sharded_lost_delete`).
- The builder expects `storage/v1` and `admissionregistration/v1` objects of
  ListerWatchers that deliver `v1beta1` ones; the reflector drops every event
  (`wrong_expected_type`).
- `ServeHTTP` writes the stores to `w` instead of the gzip writer (`handler_gzip`).
- `kube_deployment_spec_strategy_rollingupdate_max_unavailable` rounds a percentage up;
  the API documents `maxUnavailable` as rounded down (`max_unavailable_rounding`).

Met while modelling, with no run in the project:

- With sharding and *one* stream, an initial sequence of ADDED events that is
  interrupted resumes past the objects not yet sent, which stay missing until the
  next list. `EventuallyComplete` therefore does not hold there;
  `reflector_sharded_namespaces` checks it for two streams only, where a resumed
  watch is refused and the reflector lists again.
- `Replace` empties the store before it fills it, so a scrape in between shows less
  than both the old and the new list. `AtomicStore` allows this on purpose.
- Streams whose scopes overlap (a resource without namespaces, several namespaces
  configured) can deliver an old event after a newer one and bring back an object.
- A StatefulSet whose labels no longer match the informer's selector, and a `Run` that
  failed at the start, leave a pod with the settings it has, or with none: the code
  recovers from neither, and `EventuallyConfigured` and `EventuallyEachOnce` leave such
  pods out.
- `newMultiWatch` leaves the streams it has opened when a later one fails: each keeps a
  connection until the server ends it, and a goroutine that holds an event stays for
  good. The same goes for the receiver of a single stream, and the filter, after `Stop`.
  `OnlySendersStay` says that nothing else stays.
- The denylist watch ignores events without metadata, so an error of the server (such
  as an expired version) does not reach the reflector. `NothingLost` describes it.
- `PanicsOnlyWithoutTarget`: a vertical pod autoscaler without `targetRef` ends the
  process at every list, as long as it exists.
- `SeriesDistinct` and `LabelNamesDistinct` say which objects make a page its reader
  rejects: repeated conditions, owners, addresses, paths, hosts or targets, and names
  that differ only in characters `sanitizeLabelName` replaces.
- A cron job whose schedule has no time left (the 31st of February) shows Go's zero time
  as its next one, a time before the last, where the help text says "The time after
  lastScheduleTime". `NextScheduleAfterLast` says that nothing else does.
- A cron job's schedule is parsed, and an error panics, before `suspend` is looked at.
- `kube_pod_completion_time` is shown as soon as one container has terminated.
- `getPersistentVolumeClaimClass` returns `<none>` where its comment says `""`.
- The entries of the allow list are not anchored: the exact name of a family also
  matches longer names.
- Five of the `build*Store` functions call `buildStore` and pass over a store function
  set with `WithGenerateStoreFunc`.

## Not modelled

- *Text*: escaping, floats, help lines; regular expressions and flags are libraries'.
- *HTTP*: the servers, `/healthz`, index pages, the telemetry registry; nothing in the
  program reads their state. The same goes for the counters of `pkg/watch`.
- *Lists in pages*, and the `List` of the denylist, which the builder never uses.
- *ListerWatcher factories* (`createXListWatch`): calls of the client, one per resource.
  Their types matter and are in `Reflector` and in `MismatchedTypes`.
- The API server's inside, admission and validation: the objects of `MCExposition` are
  those it lets in (one state per container, a parsable schedule, a set `replicas`).

## Plan

The map covers about 60% of the lines of Go outside `vendor` and tests; most of the
rest are imports, licences, factories and servers. What is left is proofs about the
generators: `EachFamilyOnce` from the tables of names, `MaxSurgeRoundsUp` and
`NextScheduleAfterLast` from the arithmetic behind them, and `PanicsOnlyWithoutTarget`
for objects of a stated type.
