---------------------------- MODULE MCExposition ----------------------------
(* Command lines and objects for Exposition: for each resource a base object    *)
(* and its variants, among them every value the generators tell apart.         *)
EXTENDS Exposition, TLC

NoMap == [x \in {} |-> 0]

\* Label maps: plain; a prefix that differs; two names that differ in a separator.
MCLabels == {
    <<"app">> :> "x",
    (<<"app">> :> "x") @@ (<<"io", "/", "app">> :> "y"),
    (<<"a", "-", "b">> :> "x") @@ (<<"a", ".", "b">> :> "y")}

\* base, and base with one field changed at a time to each of its choices
Vary(base, choices) ==
    {[base EXCEPT ![c[1]] = c[2]] :
        c \in UNION {{f} \X (choices[f] \cup {base[f]}) : f \in DOMAIN choices}}

Meta == [namespace |-> "n1", name |-> "a", uid |-> "u1", created |-> 5, labels |-> NoMap, owners |-> <<>>,
         conditions |-> <<>>, generation |-> 2, resourceVersion |-> {7}]

Cond(type, status) == [type |-> type, status |-> status, lastTransitionTime |-> 9]

ConditionLists(a, b) ==
    {<<Cond(a, s)>> : s \in {"True", "False", "Unknown", ""}}
    \cup {<<Cond(a, "True"), Cond(b, "False")>>, <<Cond(a, "True"), Cond(a, "False")>>}

Owner(name, controller) == [kind |-> "K", name |-> name, controller |-> controller]

OwnerLists == {<<Owner("o", {"true"})>>, <<Owner("o", {})>>, <<Owner("o", {}), Owner("o", {"false"})>>,
               <<Owner("o", {"true"}), Owner("o", {})>>,
               <<Owner("o", {"false"}), Owner("p", {"true"})>>}

Resources == {
    (<<"cpu">> :> 1500) @@ (<<"memory">> :> 2500) @@ (<<"pods">> :> 3000),
    (<<"hugepages", "-", "2Mi">> :> 1000) @@ (<<"ephemeral", "-", "storage">> :> 1000),
    (<<"x", ".", "y", "/", "a", "-", "b">> :> 1000) @@ (<<"x", ".", "y", "/", "a", ".", "b">> :> 2000),
    (<<"attachable", "-", "volumes", "-", "x">> :> 1000) @@ (<<"requests", ".", "x", "/", "y">> :> 1000)}

Optional(S) == {{}} \cup {{x} : x \in S}

Status(name) == [name |-> name, image |-> "i", imageID |-> "id", containerID |-> "cid", waiting |-> {},
                 running |-> FALSE, terminated |-> {}, lastTerminated |-> {}, ready |-> FALSE, restartCount |-> 0]

\* At most one of waiting, running and terminated; a finish time may be missing.
\* A container may be ready without a state, and an init container is ready once
\* it has terminated (pod_test.go).
Statuses(name) ==
    {[Status(name) EXCEPT !.waiting = {r}] : r \in {"CrashLoopBackOff", "PodInitializing"}}
    \cup {[Status(name) EXCEPT !.terminated = {[reason |-> r, finishedAt |-> t]}] :
            r \in {"Error"}, t \in {-1, 3, 4}}
    \cup {Status(name), [Status(name) EXCEPT !.ready = TRUE], [Status(name) EXCEPT !.running = TRUE, !.ready = TRUE],
          [Status(name) EXCEPT !.terminated = {[reason |-> "Completed", finishedAt |-> 3]}, !.ready = TRUE],
          [Status(name) EXCEPT !.running = TRUE, !.lastTerminated = {"OOMKilled"}, !.restartCount = 1]}

StatusLists == {<<s>> : s \in Statuses("c")} \cup {<<s, t>> : s \in Statuses("c"), t \in Statuses("d")}

Container(name, requests, limits) == [name |-> name, requests |-> requests, limits |-> limits]

ContainerLists == {<<Container("c", r, NoMap)>> : r \in Resources} \cup {<<Container("c", NoMap, r)>> : r \in Resources}
                  \cup {<<Container("c", r, r), Container("d", r, r)>> : r \in Resources}

Volumes == {<<[name |-> "v", claim |-> c]>> : c \in Optional([name : {"claim"}, readOnly : BOOLEAN])}

Pods == Vary(
    [hostIP |-> "h", podIP |-> "p", nodeName |-> "", priorityClass |-> "", startTime |-> {}, deleted |-> {},
     restartPolicy |-> "Always", phase |-> "", reason |-> "", containerStatuses |-> <<>>,
     initContainerStatuses |-> <<>>, containers |-> <<>>, initContainers |-> <<>>, volumes |-> <<>>,
     overhead |-> NoMap] @@ Meta,
    [labels |-> MCLabels, owners |-> OwnerLists, startTime |-> {{6}}, deleted |-> {{8}},
     phase |-> {"Pending", "Running", "Other"}, reason |-> {"Evicted", "Other"},
     conditions |-> ConditionLists("PodScheduled", "Ready"), containerStatuses |-> StatusLists,
     initContainerStatuses |-> {<<s>> : s \in Statuses("c")}, containers |-> ContainerLists, initContainers |-> {<<Container("c", NoMap, r)>> : r \in Resources},
     volumes |-> Volumes, overhead |-> Resources])

Nodes == Vary(
    [info |-> <<"k", "o", "r", "l", "p", "i", "c">>, unschedulable |-> FALSE, taints |-> <<>>, capacity |-> NoMap,
     allocatable |-> NoMap] @@ Meta,
    [labels |-> MCLabels \cup {(rolePrefix \o <<"master">> :> "") @@ (rolePrefix \o <<"x", "-", "y">> :> "")},
     unschedulable |-> {TRUE}, conditions |-> ConditionLists("Ready", "DiskPressure"),
     taints |-> {<<[key |-> "k", value |-> "v", effect |-> e], [key |-> "k", value |-> "v", effect |-> "NoExecute"]>> :
                    e \in {"NoSchedule"}},
     capacity |-> Resources, allocatable |-> Resources])

ClusterKinds ==
    [namespaces |-> Vary([phase |-> "Active"] @@ Meta,
        [labels |-> MCLabels, phase |-> {"Terminating", ""}, conditions |-> ConditionLists("D", "E")]),
     nodes |-> Nodes,
     persistentvolumes |-> Vary([phase |-> "Bound", storageClassName |-> "s", capacity |-> 1500] @@ Meta,
        [labels |-> MCLabels, phase |-> {"Pending", "", "Released"}]),
     storageclasses |-> Vary([provisioner |-> "p", reclaimPolicy |-> {}, volumeBindingMode |-> {}] @@ Meta,
        [labels |-> MCLabels, reclaimPolicy |-> {{"Retain"}}, volumeBindingMode |-> {{"WaitForFirstConsumer"}}]),
     volumeattachments |-> Vary([attacher |-> "t", nodeName |-> "n", persistentVolumeName |-> {}, attached |-> FALSE,
                                 attachmentMetadata |-> NoMap] @@ Meta,
        [labels |-> MCLabels, persistentVolumeName |-> {{"v"}}, attached |-> {TRUE}, attachmentMetadata |-> MCLabels]),
     certificatesigningrequests |-> Vary([csrConditions |-> <<>>, certificateLength |-> 0] @@ Meta,
        [labels |-> MCLabels, csrConditions |-> {<<"Approved">>, <<"Denied">>, <<"Other">>}, certificateLength |-> {3}]),
     leases |-> Vary([renewTime |-> {}] @@ Meta, [owners |-> OwnerLists, renewTime |-> {{4}}]),
     validatingwebhookconfigurations |-> Vary(Meta, [resourceVersion |-> {{}}]),
     mutatingwebhookconfigurations |-> Vary(Meta, [resourceVersion |-> {{}}])]

Path(service) == [path |-> "/", serviceName |-> service, servicePort |-> "80"]

NetworkKinds ==
    [services |-> Vary([clusterIP |-> "i", externalName |-> "", loadBalancerIP |-> "", type |-> "ClusterIP",
                        externalIPs |-> <<>>, ingress |-> <<>>] @@ Meta,
        [labels |-> MCLabels, externalIPs |-> {<<"1">>, <<"1", "2">>, <<"1", "1">>},
         ingress |-> {<<[ip |-> "1", hostname |-> ""], [ip |-> "", hostname |-> h]>> : h \in {"h", ""}}]),
     endpoints |-> Vary([subsets |-> <<>>] @@ Meta,
        [labels |-> MCLabels,
         subsets |-> {<<[addresses |-> 2, notReadyAddresses |-> 1, ports |-> p],
                        [addresses |-> 0, notReadyAddresses |-> 3, ports |-> 2]>> : p \in {0, 1, 2}}]),
     ingresses |-> Vary([rules |-> <<>>, tls |-> <<>>] @@ Meta,
        [labels |-> MCLabels, resourceVersion |-> {{}},
         rules |-> {<<[host |-> "h", http |-> {}], [host |-> "h", http |-> {<<Path("s"), Path(t)>>}]>> : t \in {"s", "t"}},
         tls |-> {<<[hosts |-> <<"h", "g">>, secretName |-> "s"], [hosts |-> <<"h">>, secretName |-> t]>> :
                    t \in {"s", "t"}}]),
     networkpolicies |-> Vary([ingressRules |-> 0, egressRules |-> 1] @@ Meta, [labels |-> MCLabels]),
     persistentvolumeclaims |-> Vary([betaStorageClass |-> {}, storageClassName |-> {}, volumeName |-> "v",
                                      phase |-> "Bound", storage |-> {}, accessModes |-> <<>>] @@ Meta,
        [labels |-> MCLabels, betaStorageClass |-> {{""}, {"b"}}, storageClassName |-> {{"s"}}, phase |-> {"", "Lost"},
         storage |-> {{1500}}, accessModes |-> {<<"RWO">>, <<"RWO", "ROX">>, <<"RWO", "RWO">>},
         conditions |-> ConditionLists("Resizing", "FileSystemResizePending")])]

Rolling(unavailable, surge) == {[maxUnavailable |-> {unavailable}, maxSurge |-> {surge}]}

\* A deployment; its replicas and its limits are varied together.
Deployment(replicas, rollingUpdate) ==
    [replicas |-> {replicas}, paused |-> FALSE, rollingUpdate |-> rollingUpdate,
     status |-> [replicas |-> 3, available |-> 2, unavailable |-> 1, updated |-> 3, observedGeneration |-> 1]] @@ Meta

Amounts == [type : {"int"}, value : {0, 2}] \cup [type : {"percent"}, value : {0, 1, 25, 34, 100}]

\* The API server refuses a deployment with both limits 0.
Limits == {l \in Amounts \X Amounts : l[1].value # 0 \/ l[2].value # 0}

Target(name, type) == [name |-> name, type |-> type, value |-> {}, average |-> {}, utilization |-> {}]

Targets == {
    <<[Target("m", "Object") EXCEPT !.value = {2000}, !.average = {1500}]>>,
    <<[Target("cpu", "Resource") EXCEPT !.utilization = {80}], [Target("m", "Pods") EXCEPT !.average = {3000}]>>,
    <<[Target("m", "Pods") EXCEPT !.average = {3000}], [Target("m", "External") EXCEPT !.average = {1000}]>>,
    <<[Target("m", "Pods") EXCEPT !.average = {3000}], [Target("m", "External") EXCEPT !.value = {1000}]>>,
    <<Target("m", "ContainerResource")>>}

Policy(name, r) == [name |-> name, minAllowed |-> r, maxAllowed |-> r]

Recommendation(name, r) == [name |-> name, lowerBound |-> r, upperBound |-> r, target |-> r, uncappedTarget |-> r]

ScalingKinds ==
    [deployments |-> {Deployment(n, Rolling(l[1], l[2])) : n \in {0, 1, 3}, l \in Limits}
        \cup Vary(Deployment(3, {}),
                  [labels |-> MCLabels, paused |-> {TRUE}, conditions |-> ConditionLists("Available", "Progressing")]),
     statefulsets |-> Vary([replicas |-> {3}, status |-> [replicas |-> 3, current |-> 2, ready |-> 2, updated |-> 1,
            observedGeneration |-> 1, currentRevision |-> "r1", updateRevision |-> "r2"]] @@ Meta,
        [labels |-> MCLabels, replicas |-> {{0}}]),
     replicasets |-> Vary([replicas |-> {3}, status |-> [replicas |-> 3, fullyLabeled |-> 3, ready |-> 1,
            observedGeneration |-> 1]] @@ Meta, [labels |-> MCLabels, owners |-> OwnerLists, replicas |-> {{0}}]),
     replicationcontrollers |-> Vary([replicas |-> {3}, status |-> [replicas |-> 3, fullyLabeled |-> 3, ready |-> 1,
            available |-> 1, observedGeneration |-> 1]] @@ Meta, [owners |-> OwnerLists, replicas |-> {{0}}]),
     horizontalpodautoscalers |-> Vary([minReplicas |-> {1}, maxReplicas |-> 4, metrics |-> <<>>,
            status |-> [current |-> 1, desired |-> 2]] @@ Meta,
        [labels |-> MCLabels, metrics |-> Targets, conditions |-> ConditionLists("AbleToScale", "ScalingActive")]),
     verticalpodautoscalers |-> Vary([targetRef |-> {[apiVersion |-> "apps/v1", kind |-> "Deployment", name |-> "d"]},
            updateMode |-> {}, policies |-> <<>>, recommendations |-> <<>>] @@ Meta,
        [labels |-> MCLabels, targetRef |-> {{}}, updateMode |-> {{"Auto"}, {"Other"}},
         policies |-> {<<Policy("c", r), Policy(d, r)>> : r \in Resources, d \in {"c", "d"}},
         recommendations |-> {<<Recommendation("c", r), Recommendation("d", r)>> : r \in Resources}])]

OtherKinds ==
    [daemonsets |-> Vary([status |-> [current |-> 1, desired |-> 2, available |-> 1, misscheduled |-> 0, ready |-> 1,
            unavailable |-> 1, updated |-> 2]] @@ Meta, [labels |-> MCLabels]),
     jobs |-> Vary([parallelism |-> {1}, completions |-> {}, activeDeadlineSeconds |-> {}, startTime |-> {},
            completionTime |-> {}, status |-> [succeeded |-> 0, failed |-> 1, active |-> 1]] @@ Meta,
        [labels |-> MCLabels, owners |-> OwnerLists, completions |-> {{2}}, activeDeadlineSeconds |-> {{9}},
         startTime |-> {{6}}, completionTime |-> {{8}}, conditions |-> ConditionLists("Complete", "Failed")]),
     cronjobs |-> {[schedule |-> {times}, scheduleText |-> "s", concurrencyPolicy |-> "Forbid", suspend |-> {suspend},
                    lastScheduleTime |-> last, active |-> 1, startingDeadlineSeconds |-> deadline, labels |-> labels] @@ Meta :
                        times \in {{3, 6, 9, 12}, {6}, {}}, suspend \in BOOLEAN, last \in Optional({6, 9}),
                        deadline \in Optional({4}), labels \in MCLabels \cup {NoMap}},
     poddisruptionbudgets |-> Vary([status |-> [currentHealthy |-> 1, desiredHealthy |-> 2, disruptionsAllowed |-> 0,
            expectedPods |-> 3, observedGeneration |-> 1]] @@ Meta, [created |-> {6}]),
     secrets |-> Vary([type |-> "Opaque"] @@ Meta, [labels |-> MCLabels, resourceVersion |-> {{}}]),
     configmaps |-> Vary(Meta, [resourceVersion |-> {{}}]),
     resourcequotas |-> Vary([hard |-> NoMap, used |-> NoMap] @@ Meta, [hard |-> Resources, used |-> Resources]),
     limitranges |-> Vary([limits |-> <<>>] @@ Meta,
        [limits |-> {<<[type |-> "Pod", min |-> r, max |-> r, default |-> NoMap, defaultRequest |-> NoMap,
                        maxLimitRequestRatio |-> r],
                       [type |-> "Container", min |-> r, max |-> NoMap, default |-> r, defaultRequest |-> r,
                        maxLimitRequestRatio |-> NoMap]>> : r \in Resources}])]

AllKinds == ClusterKinds @@ NetworkKinds @@ ScalingKinds @@ OtherKinds @@ [pods |-> Pods]

MCSample == [r \in DOMAIN AllKinds |-> CHOOSE o \in AllKinds[r] : TRUE]

MCUids == {"u1", "u2"}

\* An object like o that exists beside it: in another namespace if there is one.
Beside(r, o) ==
    IF r \in DOMAIN ClusterKinds THEN [o EXCEPT !.uid = "u2", !.name = "b"]
    ELSE [o EXCEPT !.uid = "u2", !.namespace = "n2"]

\* Regular expressions: _created$, _labels$, and one that does not compile.
Regexp(compiles, matches) == [compiles |-> compiles, matches |-> matches]

Subjects == {"pod", "node", "namespace", "deployment", "service", "secret", "ingress", "job", "storageclass",
             "statefulset", "daemonset", "replicaset", "networkpolicy", "endpoint", "cronjob"}

Created == Regexp(TRUE, {"kube_" \o x \o "_created" : x \in Subjects \cup {"configmap", "limitrange", "volumeattachment"}})

Labels == Regexp(TRUE, {"kube_" \o x \o "_labels" : x \in Subjects \cup {"persistentvolume", "verticalpodautoscaler"}})

Broken == Regexp(FALSE, {})

MCEdits == {{Labels}}

MCCommandLines ==
    [resources : {{}}, allow : {{}}, deny : {{}, {Created}}]
    \cup [resources : {{"pods", "nodes"}}, allow : {{}, {Created}}, deny : {{}, {Labels}}]
    \cup [resources : {{}, {"pods", "verticalpodautoscalers"}}, allow : {{}, {Created, Broken}}, deny : {{}}]
    \cup [resources : {{"pods", "unknown"}}, allow : {{}}, deny : {{}}]

\* Every command line is tried with the sample of every resource; the other
\* objects with the one that enables their resource and filters nothing.
Unfiltering(r) ==
    LET resources == IF r = "verticalpodautoscalers" THEN {"pods", r} ELSE {}
    IN  {[resources |-> resources, allow |-> {}, deny |-> {}]}

\* What is generated for an object does not depend on what it was before, so it
\* is enough that an object changes between two contents.
MCScenarios ==
    UNION {{[kind |-> r, contents |-> [u1 |-> {o, MCSample[r]}, u2 |-> {Beside(r, o)}],
             commandLines |-> IF o = MCSample[r] THEN MCCommandLines ELSE Unfiltering(r)] : o \in AllKinds[r]} :
           r \in DOMAIN AllKinds}
=============================================================================
