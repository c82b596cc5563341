------------------------------- MODULE Builder -------------------------------
(* Start-up: main.go, pkg/options and internal/store/builder.go, from the       *)
(* command line to the stores.  A store is its resource, its family headers and *)
(* the generators it calls for every object, both by family name.              *)
EXTENDS PodFamilies, WorkloadFamilies, ConfigFamilies, AllowDenyList

CONSTANTS
    CommandLines,     \* the options: [resources, allow, deny]
    Edits,            \* sets of entries a program that embeds the builder includes or excludes
    Sample            \* for each resource, some object: the families' names do not depend on it

VARIABLES
    pc,               \* where main is; "fatal", "unreachable" and "panicked" once the process has ended
    opts,             \* the command line
    allowDenyList,    \* {} before New
    parsed,           \* history: the entries of the list when Parse was called
    enabledResources,
    stores            \* what Build returned

builderVars == <<pc, opts, allowDenyList, parsed, enabledResources, stores>>

\* The loop that appends the elements of s that are in S.
Kept(s, S) ==
    LET kept[n \in 0..Len(s)] ==
            IF n = 0 THEN <<>>
            ELSE IF s[n] \in S THEN Append(kept[n - 1], s[n]) ELSE kept[n - 1]
    IN  kept[Len(s)]

\* The keys of the map availableStores, in the order sort.Strings gives them.
availableStores == <<"certificatesigningrequests", "configmaps", "cronjobs", "daemonsets", "deployments",
    "endpoints", "horizontalpodautoscalers", "ingresses", "jobs", "leases", "limitranges",
    "mutatingwebhookconfigurations", "namespaces", "networkpolicies", "nodes", "persistentvolumeclaims",
    "persistentvolumes", "poddisruptionbudgets", "pods", "replicasets", "replicationcontrollers",
    "resourcequotas", "secrets", "services", "statefulsets", "storageclasses",
    "validatingwebhookconfigurations", "verticalpodautoscalers", "volumeattachments">>

DefaultResources == {"certificatesigningrequests", "configmaps", "cronjobs", "daemonsets", "deployments",
    "endpoints", "horizontalpodautoscalers", "ingresses", "jobs", "leases", "limitranges",
    "mutatingwebhookconfigurations", "namespaces", "networkpolicies", "nodes", "persistentvolumes",
    "persistentvolumeclaims", "poddisruptionbudgets", "pods", "replicasets", "replicationcontrollers",
    "resourcequotas", "secrets", "services", "statefulsets", "storageclasses",
    "validatingwebhookconfigurations", "volumeattachments"}

\* The build*Store functions: which families a resource has.
metricFamilies(resource, o) ==
    CASE resource = "certificatesigningrequests" -> csrMetricFamilies(o)
      [] resource = "configmaps" -> configMapMetricFamilies(o)
      [] resource = "cronjobs" -> cronJobMetricFamilies(o)
      [] resource = "daemonsets" -> daemonSetMetricFamilies(o)
      [] resource = "deployments" -> deploymentMetricFamilies(o)
      [] resource = "endpoints" -> endpointMetricFamilies(o)
      [] resource = "horizontalpodautoscalers" -> hpaMetricFamilies(o)
      [] resource = "ingresses" -> ingressMetricFamilies(o)
      [] resource = "jobs" -> jobMetricFamilies(o)
      [] resource = "leases" -> leaseMetricFamilies(o)
      [] resource = "limitranges" -> limitRangeMetricFamilies(o)
      [] resource = "mutatingwebhookconfigurations" -> mutatingWebhookConfigurationMetricFamilies(o)
      [] resource = "namespaces" -> namespaceMetricFamilies(o)
      [] resource = "networkpolicies" -> networkpolicyMetricFamilies(o)
      [] resource = "nodes" -> nodeMetricFamilies(o)
      [] resource = "persistentvolumeclaims" -> persistentVolumeClaimMetricFamilies(o)
      [] resource = "persistentvolumes" -> persistentVolumeMetricFamilies(o)
      [] resource = "poddisruptionbudgets" -> podDisruptionBudgetMetricFamilies(o)
      [] resource = "pods" -> podMetricFamilies(o)
      [] resource = "replicasets" -> replicaSetMetricFamilies(o)
      [] resource = "replicationcontrollers" -> replicationControllerMetricFamilies(o)
      [] resource = "resourcequotas" -> resourceQuotaMetricFamilies(o)
      [] resource = "secrets" -> secretMetricFamilies(o)
      [] resource = "services" -> serviceMetricFamilies(o)
      [] resource = "statefulsets" -> statefulSetMetricFamilies(o)
      [] resource = "storageclasses" -> storageClassMetricFamilies(o)
      [] resource = "validatingwebhookconfigurations" -> validatingWebhookConfigurationMetricFamilies(o)
      [] resource = "verticalpodautoscalers" -> vpaMetricFamilies(o)
      [] resource = "volumeattachments" -> volumeAttachmentMetricFamilies(o)

\* The generators of a resource: the name and the place of each family.
Generators == [r \in ToSet(availableStores) |->
    LET families == metricFamilies(r, Sample[r])
    IN  [i \in DOMAIN families |-> [name |-> families[i].name, place |-> i]]]

FilterMetricFamilies(l, generators) ==
    Kept(generators, {g \in ToSet(generators) : IsIncluded(l, g.name)})

ExtractMetricFamilyHeaders(generators) == [i \in DOMAIN generators |-> generators[i].name]

\* The function ComposeMetricGenFuncs returns, applied to an object with these
\* families: it runs the generators that are left.
ComposeMetricGenFuncs(generators, families) == [i \in DOMAIN generators |-> families[generators[i].place]]

\* Mutant: the headers are those of all families.
buildStoreAllHeaders(l, resource) ==
    [resource |-> resource, headers |-> ExtractMetricFamilyHeaders(Generators[resource]),
     generators |-> FilterMetricFamilies(l, Generators[resource])]

buildStore(l, resource) ==
    LET filtered == FilterMetricFamilies(l, Generators[resource])
    IN  [resource |-> resource, headers |-> ExtractMetricFamilyHeaders(filtered), generators |-> filtered]

BuilderInit ==
    /\ pc = "resources"
    /\ opts \in CommandLines
    /\ allowDenyList = {} /\ parsed = {}
    /\ enabledResources = <<>>
    /\ stores = <<>>

\* No resource on the command line stands for the default ones; one that does
\* not exist ends the process.  The copy is sorted.
WithEnabledResources ==
    LET resources == IF opts.resources = {} THEN DefaultResources ELSE opts.resources
    IN  /\ pc = "resources"
        /\ IF resources \subseteq ToSet(availableStores)
           THEN /\ enabledResources' = Kept(availableStores, resources)
                /\ pc' = "allowdenylist"
           ELSE /\ pc' = "fatal"
                /\ UNCHANGED enabledResources
        /\ UNCHANGED <<opts, allowDenyList, parsed, stores>>

NewAllowDenyList ==
    /\ pc = "allowdenylist"
    /\ allowDenyList' = New(opts.allow, opts.deny)
    /\ pc' = IF allowDenyList' = {} THEN "fatal" ELSE "parse"
    /\ UNCHANGED <<opts, parsed, enabledResources, stores>>

\* Only a program that embeds the builder edits the list, before Parse or, without
\* an effect on what is built, after it.
EditAllowDenyList ==
    /\ pc \in {"parse", "client", "build"}
    /\ \E items \in Edits : allowDenyList' \in {{Include(The(allowDenyList), items)},
                                                {Exclude(The(allowDenyList), items)}}
    /\ UNCHANGED <<pc, opts, parsed, enabledResources, stores>>

ParseAllowDenyList ==
    /\ pc = "parse"
    /\ parsed' = The(allowDenyList).list
    /\ IF Parse(The(allowDenyList)) = {}
       THEN pc' = "fatal" /\ UNCHANGED allowDenyList
       ELSE pc' = "client" /\ allowDenyList' = Parse(The(allowDenyList))
    /\ UNCHANGED <<opts, enabledResources, stores>>

\* The API server is asked for its version once; no answer ends the process.
createKubeClient ==
    /\ pc = "client"
    /\ pc' \in {"build", "unreachable"}
    /\ UNCHANGED <<opts, allowDenyList, parsed, enabledResources, stores>>

\* Mutant: every resource gets a store.
BuildAll ==
    /\ pc = "build"
    /\ stores' = [i \in DOMAIN availableStores |-> buildStore(The(allowDenyList), availableStores[i])]
    /\ pc' = "list"
    /\ UNCHANGED <<opts, allowDenyList, parsed, enabledResources>>

Build ==
    /\ pc = "build"
    /\ stores' = [i \in DOMAIN enabledResources |-> buildStore(The(allowDenyList), enabledResources[i])]
    /\ pc' = "list"
    /\ UNCHANGED <<opts, allowDenyList, parsed, enabledResources>>

\* The container is started again, with the same command line.
Restart ==
    /\ pc \in {"fatal", "unreachable", "panicked"}
    /\ pc' = "resources"
    /\ allowDenyList' = {} /\ parsed' = {}
    /\ enabledResources' = <<>>
    /\ stores' = <<>>
    /\ UNCHANGED opts

BuilderNext ==
    \/ WithEnabledResources
    \/ NewAllowDenyList
    \/ EditAllowDenyList
    \/ ParseAllowDenyList
    \/ createKubeClient
    \/ Build
    \/ Restart
=============================================================================
