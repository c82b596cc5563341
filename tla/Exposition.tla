----------------------------- MODULE Exposition -----------------------------
(* The builder, the generators and one store together: from the command line    *)
(* and the objects of the cluster to the families that are shown.  All objects *)
(* are of one resource, which may be enabled or not.  The reflector and the    *)
(* store are those of Reflector and MetricsStore, each event one step here.    *)
EXTENDS Builder, FiniteSets

CONSTANTS
    Uids,
    Scenarios         \* [kind, contents, commandLines]: a resource, the objects of it that may exist under
                      \* each UID, and the command lines to start with

VARIABLES
    scenario,
    objects,          \* the cluster: for each UID, {} or the set of the object
    shown             \* the store: for each UID, {} or the set of its families

vars == <<builderVars, scenario, objects, shown>>

kind == scenario.kind

Absent == [u \in Uids |-> {}]

ExpositionInit ==
    /\ scenario \in Scenarios
    /\ opts \in scenario.commandLines
    /\ BuilderInit
    /\ objects = Absent
    /\ shown = Absent

\* The index of the store of the objects' resource; 0 if it is not enabled.
StoreIndex == SelectInSeq(stores, LAMBDA s : s.resource = kind)

Rendered(o) == ComposeMetricGenFuncs(stores[StoreIndex].generators, metricFamilies(kind, o))

\* Writing a family panics at a metric that is not writable.
Panics(o) == \E f \in ToSet(Rendered(o)) : \E m \in ToSet(f.metrics) : ~Writable(m)

\* The memory of a process that panics is gone.
RenderAll(os) ==
    IF \E u \in Uids : \E o \in os[u] : Panics(o)
    THEN pc' = "panicked" /\ shown' = Absent
    ELSE pc' = "serving" /\ shown' = [u \in Uids |-> {Rendered(o) : o \in os[u]}]

\* Every reflector lists, first of all and now and then later: Replace.
List ==
    /\ pc \in {"list", "serving"}
    /\ IF StoreIndex = 0 THEN pc' = "serving" /\ UNCHANGED shown ELSE RenderAll(objects)
    /\ UNCHANGED <<opts, allowDenyList, parsed, enabledResources, stores, scenario, objects>>

\* The resources whose store expects objects of another type than its
\* ListerWatcher delivers: the reflector drops their events.
MismatchedTypes == {"volumeattachments", "mutatingwebhookconfigurations"}

\* An object is created, changed or deleted; a reflector that watches passes it
\* to Add, Update or Delete.
Change(u) ==
    /\ pc \in {"list", "serving", "panicked"}
    /\ \E x \in {{}} \cup {{o} : o \in scenario.contents[u]} :
        /\ x # objects[u]
        /\ objects' = [objects EXCEPT ![u] = x]
        /\ CASE pc # "serving" \/ StoreIndex = 0 \/ kind \in MismatchedTypes -> UNCHANGED <<pc, shown>>
             [] OTHER -> IF \E o \in x : Panics(o)
                         THEN pc' = "panicked" /\ shown' = Absent
                         ELSE shown' = [shown EXCEPT ![u] = {Rendered(o) : o \in x}] /\ UNCHANGED pc
    /\ UNCHANGED <<opts, allowDenyList, parsed, enabledResources, stores, scenario>>

Next ==
    \/ BuilderNext /\ UNCHANGED <<scenario, objects, shown>>
    \/ List
    \/ \E u \in Uids : Change(u)

Spec == ExpositionInit /\ [][Next]_vars
-----------------------------------------------------------------------------
\* The metrics of a family of the object with UID u, as they are shown.
Shown(u, name) == ForEachIn({f \in UNION {ToSet(fs) : fs \in shown[u]} : f.name = name}, LAMBDA f : f.metrics)

LabelSet(m) == {<<m.keys[i], m.vals[i]>> : i \in DOMAIN m.keys}

HasRepeats(s) == Cardinality(ToSet(s)) < Len(s)

\* No option leaves out a family of the objects' resource.
Unfiltered == StoreIndex # 0 /\ stores[StoreIndex].generators = Generators[kind]

\* Types; what is shown is there only while the process serves
\* (internal/store/builder.go, main.go).
TypeOK ==
    /\ pc \in {"resources", "allowdenylist", "parse", "client", "build", "list", "serving",
               "fatal", "unreachable", "panicked"}
    /\ opts \in CommandLines
    /\ Cardinality(allowDenyList) <= 1
    /\ ToSet(enabledResources) \subseteq ToSet(availableStores)
    /\ Len(stores) \in {0, Len(enabledResources)}
    /\ \A u \in Uids : objects[u] \subseteq scenario.contents[u] /\ Cardinality(objects[u]) <= 1
    /\ \A u \in Uids : Cardinality(shown[u]) <= 1 /\ (shown[u] # {} => pc = "serving")

\* WriteAll writes the i-th header above the i-th family of every object.  So,
\* whatever the options leave out, each object has one family per header, the
\* one the header names (builder.go buildStore, generator.go).
HeadersAligned ==
    \A u \in Uids : \A fs \in shown[u] :
        [i \in DOMAIN fs |-> fs[i].name] = stores[StoreIndex].headers

\* Start-up fails for a command line that asks for what cannot be given, and for
\* no other; a process that starts shows the families of the resources it was
\* asked for that the entries of the allow list match, or that no entry of the
\* deny list matches, with the entries as they were when Parse was called: an edit
\* before it counts, one after it does not (main.go, allowdenylist.go, builder.go).
ServesAsConfigured ==
    LET wrong == \/ ~(opts.resources \subseteq ToSet(availableStores))
                 \/ opts.allow # {} /\ opts.deny # {}
                 \/ \E r \in parsed : ~r.compiles
        Asked(name) == \A l \in allowDenyList : l.isAllowList <=> \E r \in parsed : name \in r.matches
    IN  /\ pc = "fatal" => wrong
        /\ pc \in {"list", "serving"} =>
            /\ ~wrong
            /\ opts.resources # {} => {s.resource : s \in ToSet(stores)} = opts.resources
            /\ \A s \in ToSet(stores) : \A g \in ToSet(Generators[s.resource]) :
                Asked(g.name) <=> g.name \in ToSet(s.headers)

\* The stores are written one after the other into one page, where a second
\* family with the same name would be an error: no name is used twice, within a
\* resource or by two of them (the generators of internal/store).
EachFamilyOnce ==
    ~HasRepeats(FlattenSeq([i \in DOMAIN stores |-> stores[i].headers]))

\* Lists of an object that hold one thing twice, as a generator sees it: the
\* parts of one list become metrics of one family.
Twice(o) ==
    LET Has(f) == f \in DOMAIN o
        Same(list, Part(_)) == HasRepeats([i \in DOMAIN list |-> Part(list[i])])
        \* two names that sanitizeLabelName makes the same
        Merged(list) == \E a, b \in {n \in DOMAIN list : ResourceUnits(n) # <<>>} :
                            a # b /\ sanitizeLabelName(a) = sanitizeLabelName(b)
    IN  \/ Same(o.conditions, LAMBDA c : c.type)
        \/ Same(o.owners, LAMBDA w : <<w.kind, w.name, kind # "leases" /\ w.controller = {"true"}>>)
        \/ Has("containers") /\ \E c \in ToSet(o.containers \o o.initContainers) : Merged(c.requests) \/ Merged(c.limits)
        \/ Has("capacity") /\ kind = "nodes" /\ (Merged(o.capacity) \/ Merged(o.allocatable))
        \/ Has("externalIPs") /\ (HasRepeats(o.externalIPs) \/ HasRepeats(o.ingress))
        \/ Has("rules") /\ HasRepeats(ForEach(o.rules, LAMBDA r :
                               ForEachIn(r.http, LAMBDA ps : ForEach(ps, LAMBDA path : <<<<r.host, path>>>>))))
        \/ Has("tls") /\ HasRepeats(ForEach(o.tls, LAMBDA t :
                               ForEach(t.hosts, LAMBDA h : <<<<h, t.secretName>>>>)))
        \/ Has("accessModes") /\ HasRepeats(o.accessModes)
        \/ Has("metrics") /\ HasRepeats(ForEach(o.metrics, LAMBDA m :
                ForEachIn({"value", "average"}, LAMBDA t : IF AsInt64(m[t]) = {} THEN <<>> ELSE <<<<m.name, t>>>>)))
        \/ Has("policies") /\ HasRepeats(ForEach(o.policies, LAMBDA c :
                ForEachIn(vpaResources \cap DOMAIN c.minAllowed, LAMBDA n : <<<<c.name, n>>>>)))

\* A page holds no two metrics with the same name and labels, neither of one
\* object nor of two, unless an object itself holds something twice; then it
\* does, and the scrape fails at the server that reads it (the wrap functions of
\* internal/store, utils.go sanitizeLabelName).
SeriesDistinct ==
    LET repeated == StoreIndex # 0 /\ \E name \in ToSet(stores[StoreIndex].headers) :
                        HasRepeats(ForEachIn(Uids, LAMBDA u :
                            LET ms == Shown(u, name) IN [i \in DOMAIN ms |-> LabelSet(ms[i])]))
        twice == \E u \in Uids : shown[u] # {} /\ \E o \in objects[u] : Twice(o)
    IN  /\ repeated /\ kind \notin MismatchedTypes => twice
        /\ twice /\ Unfiltered => repeated

\* The label names of one metric differ, unless two labels of the object, or two
\* keys of its attachment metadata, differ only in characters a label name may
\* not hold (utils.go mapToPrometheusLabels).
LabelNamesDistinct ==
    LET Alike(a, b) == /\ Len(a) = Len(b)
                       /\ \A i \in DOMAIN a : a[i] = b[i] \/ {a[i], b[i]} \subseteq invalidLabelChars
    IN  \A u \in Uids : \A fs \in shown[u] : \A f \in ToSet(fs) : \A m \in ToSet(f.metrics) :
            HasRepeats(m.keys) => \E o \in scenario.contents[u] :
                LET maps == {o.labels} \cup (IF kind = "volumeattachments" THEN {o.attachmentMetadata} ELSE {})
                IN  \E map \in maps : \E a, b \in DOMAIN map : a # b /\ Alike(a, b)

\* Families of one pod, generated apart, agree: a container is in one state; it
\* has a waiting or a termination reason only in that state; a pod is
\* unschedulable, or has a scheduled time, as its PodScheduled condition says; it
\* is in at most one phase (pod.go).
PodFamiliesAgree ==
    LET Set(u, name, vals) == {m \in ToSet(Shown(u, name)) : m.value = 1 /\ vals \subseteq ToSet(m.vals)}
    IN  \A u \in Uids : \A p \in objects[u] : kind = "pods" /\ Unfiltered /\ shown[u] # {} =>
            /\ \A prefix \in {"kube_pod_container", "kube_pod_init_container"} :
               \A m \in ToSet(Shown(u, prefix \o "_info")) :
                LET Is(state) == Set(u, prefix \o "_status_" \o state, {m.vals[3]})
                IN  /\ Cardinality(Is("waiting")) + Cardinality(Is("running")) + Cardinality(Is("terminated")) <= 1
                    /\ Cardinality(Is("waiting_reason")) <= Cardinality(Is("waiting"))
                    /\ Cardinality(Is("terminated_reason")) <= Cardinality(Is("terminated"))
            /\ Shown(u, "kube_pod_status_unschedulable") # <<>> <=> Set(u, "kube_pod_status_scheduled", {"false"}) # {}
            /\ Shown(u, "kube_pod_status_scheduled_time") # <<>> <=> Set(u, "kube_pod_status_scheduled", {"true"}) # {}
            /\ Cardinality(Set(u, "kube_pod_status_phase", {})) <= 1

\* The completion time of a pod is the latest finish time of its containers, and
\* is there only if one is known, in whatever order they are listed (pod.go).
CompletionTimeIsLatest ==
    \A u \in Uids : \A p \in objects[u] : kind = "pods" /\ Unfiltered /\ shown[u] # {} =>
        LET times == {t.finishedAt : t \in UNION {cs.terminated : cs \in ToSet(p.containerStatuses)}}
            values == {m.value : m \in ToSet(Shown(u, "kube_pod_completion_time"))}
        IN  values = {t \in times : t > 0 /\ \A x \in times : x <= t}

\* What a rolling update of deployment d allows: n pods for the amount x, where
\* low and high bound how far a percentage of the replicas is rounded.
Allows(d, x, n, low, high) ==
    IF x.type = "int" THEN n = x.value
    ELSE LET exact == x.value * The(d.replicas) IN exact + low < 100 * n /\ 100 * n < exact + high

\* The surge a rolling update allows is the least whole number of pods that is
\* not below the percentage of the deployment's replicas: "Absolute number is
\* calculated from percentage by rounding up." (deployment.go, apps/v1/types.go
\* MaxSurge).
MaxSurgeRoundsUp ==
    \A u \in Uids : \A d \in objects[u] : kind = "deployments" /\ Unfiltered /\ shown[u] # {} =>
        \A r \in d.rollingUpdate :
            \A m \in ToSet(Shown(u, "kube_deployment_spec_strategy_rollingupdate_max_surge")) :
                Allows(d, The(r.maxSurge), m.value, -1, 100)

\* The unavailable pods a rolling update allows are the greatest whole number
\* that is not above the percentage of the replicas: "Absolute number is
\* calculated from percentage by rounding down." (apps/v1/types.go
\* MaxUnavailable).  deployment.go rounds it up, so this does not hold.
MaxUnavailableRoundsDown ==
    \A u \in Uids : \A d \in objects[u] : kind = "deployments" /\ Unfiltered /\ shown[u] # {} =>
        \A r \in d.rollingUpdate :
            \A m \in ToSet(Shown(u, "kube_deployment_spec_strategy_rollingupdate_max_unavailable")) :
                Allows(d, The(r.maxUnavailable), m.value, -100, 1)

\* A cron job that is not suspended shows a next schedule time.  It is the first
\* of its schedule's times after the last one it shows, or after its creation
\* if it shows none; only a schedule with no such time left shows the zero time,
\* which lies before them (cronjob.go, cron's Next).
NextScheduleAfterLast ==
    \A u \in Uids : \A j \in objects[u] : kind = "cronjobs" /\ Unfiltered /\ shown[u] # {} =>
        LET Of(name) == {m.value : m \in ToSet(Shown(u, name))}
            next == Of("kube_cronjob_next_schedule_time")
            last == Of("kube_cronjob_status_last_schedule_time")
            since == IF last = {} THEN Of("kube_cronjob_created") ELSE last
        IN  IF 1 \in Of("kube_cronjob_spec_suspend") THEN next = {}
            ELSE /\ next # {}
                 /\ \A n \in next, t \in since :
                        LET left == {x \in The(j.schedule) : t < x}
                        IN  IF left = {} THEN n < t ELSE n \in left /\ \A x \in left : n <= x

\* Of the objects the API server admits only a vertical pod autoscaler without a
\* target ends the process, and it does so only if its resource is enabled
\* (verticalpodautoscaler.go wrapVPAFunc, metric.go Write).
PanicsOnlyWithoutTarget ==
    pc = "panicked" =>
        /\ kind \in ToSet(enabledResources)
        /\ kind = "verticalpodautoscalers"
        /\ \E u \in Uids : \E v \in scenario.contents[u] : v.targetRef = {}
=============================================================================
