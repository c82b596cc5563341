----------------------------- MODULE PodFamilies -----------------------------
(* The generators of internal/store/pod.go.  The state of a container is       *)
(* waiting and terminated (each set or not, with its reason) and running.      *)
EXTENDS Metric

containerWaitingReasons == <<"ContainerCreating", "CrashLoopBackOff", "CreateContainerConfigError",
    "ErrImagePull", "ImagePullBackOff", "CreateContainerError", "InvalidImageName">>

containerTerminatedReasons ==
    <<"OOMKilled", "Completed", "Error", "ContainerCannotRun", "DeadlineExceeded", "Evicted">>

podStatusReasons == <<"NodeLost", "Evicted">>

OrNone(s) == IF s = "" THEN "<none>" ELSE s

kube_pod_info(p) ==
    LET controllers == SelectSeq(p.owners, LAMBDA o : o.controller = {"true"})
        createdBy == IF controllers = <<>> THEN [kind |-> "", name |-> ""] ELSE Head(controllers)
    IN  Info(<<"host_ip", "pod_ip", "uid", "node", "created_by_kind", "created_by_name", "priority_class">>,
             <<p.hostIP, p.podIP, p.uid, p.nodeName, OrNone(createdBy.kind), OrNone(createdBy.name),
               p.priorityClass>>)

\* Mutant: the last container listed decides.
completion_time_of_last_listed(p) ==
    LET Latest(t, cs) == IF cs.terminated # {} THEN The(cs.terminated).finishedAt ELSE t
        lastFinishTime == FoldLeft(Latest, 0, p.containerStatuses)
    IN  IF lastFinishTime > 0 THEN Gauge(lastFinishTime) ELSE <<>>

\* The loop keeps the latest time; the zero time is before 1970 and counts as -1.
kube_pod_completion_time(p) ==
    LET Later(t, cs) ==
            IF cs.terminated # {} /\ (t = 0 \/ t < The(cs.terminated).finishedAt)
            THEN The(cs.terminated).finishedAt ELSE t
        lastFinishTime == FoldLeft(Later, 0, p.containerStatuses)
    IN  IF lastFinishTime > 0 THEN Gauge(lastFinishTime) ELSE <<>>

kube_pod_status_scheduled_time(p) ==
    ForEach(p.conditions, LAMBDA c :
        IF c.type = "PodScheduled" /\ c.status = "True" THEN Gauge(c.lastTransitionTime) ELSE <<>>)

kube_pod_status_unschedulable(p) ==
    ForEach(p.conditions, LAMBDA c :
        IF c.type = "PodScheduled" /\ c.status = "False" THEN Gauge(1) ELSE <<>>)

kube_pod_status_phase(p) ==
    IF p.phase = "" THEN <<>>
    ELSE OneHot("phase", <<"Pending", "Succeeded", "Failed", "Unknown", "Running">>, p.phase)

kube_pod_status_ready(p) == ConditionsOfType(p.conditions, "Ready")

kube_pod_status_scheduled(p) == ConditionsOfType(p.conditions, "PodScheduled")

kube_pod_status_reason(p) == OneHot("reason", podStatusReasons, p.reason)

\* The families of containers and those of init containers have the same code,
\* over a different slice.
container_info(statuses) ==
    [i \in DOMAIN statuses |->
        NewMetric(<<"container", "image", "image_id", "container_id">>,
                  <<statuses[i].name, statuses[i].image, statuses[i].imageID, statuses[i].containerID>>, 1)]

PerContainer(statuses, V(_)) ==
    [i \in DOMAIN statuses |-> NewMetric(<<"container">>, <<statuses[i].name>>, V(statuses[i]))]

PerReason(statuses, reasons, Has(_, _)) ==
    ForEach(statuses, LAMBDA cs :
        [j \in DOMAIN reasons |-> NewMetric(<<"container", "reason">>, <<cs.name, reasons[j]>>,
                                            boolFloat64(Has(cs, reasons[j])))])

waitingReason(cs, reason) == cs.waiting = {reason}

terminationReason(cs, reason) == cs.terminated # {} /\ The(cs.terminated).reason = reason

lastTerminationReason(cs, reason) == cs.lastTerminated = {reason}

container_status_waiting(statuses) == PerContainer(statuses, LAMBDA cs : boolFloat64(cs.waiting # {}))

container_status_waiting_reason(statuses) == PerReason(statuses, containerWaitingReasons, waitingReason)

\* Mutant: what has not terminated counts as running.
container_status_not_terminated(statuses) == PerContainer(statuses, LAMBDA cs : boolFloat64(cs.terminated = {}))

container_status_running(statuses) == PerContainer(statuses, LAMBDA cs : boolFloat64(cs.running))

container_status_terminated(statuses) == PerContainer(statuses, LAMBDA cs : boolFloat64(cs.terminated # {}))

container_status_terminated_reason(statuses) ==
    PerReason(statuses, containerTerminatedReasons, terminationReason)

container_status_last_terminated_reason(statuses) ==
    PerReason(statuses, containerTerminatedReasons, lastTerminationReason)

container_status_ready(statuses) == PerContainer(statuses, LAMBDA cs : boolFloat64(cs.ready))

container_status_restarts_total(statuses) == PerContainer(statuses, LAMBDA cs : cs.restartCount)

\* One metric per container, resource and unit; only cpu keeps its thousandths.
container_resources(containers, List(_)) ==
    ForEach(containers, LAMBDA c : ForEachIn(DOMAIN List(c), LAMBDA name :
        [i \in DOMAIN ResourceUnits(name) |->
            NewMetric(<<"container", "resource", "unit">>,
                      <<c.name, sanitizeLabelName(name), ResourceUnits(name)[i]>>,
                      IF name = <<"cpu">> THEN List(c)[name] ELSE WholeValue(List(c)[name]))]))

container_resource_requests(containers) == container_resources(containers, LAMBDA c : c.requests)

container_resource_limits(containers) == container_resources(containers, LAMBDA c : c.limits)

\* Of the volumes only the persistent volume claims are shown.
PerClaim(p, V(_)) ==
    ForEach(p.volumes, LAMBDA v :
        IF v.claim = {} THEN <<>>
        ELSE <<NewMetric(<<"volume", "persistentvolumeclaim">>, <<v.name, The(v.claim).name>>, V(The(v.claim)))>>)

kube_pod_spec_volumes_persistentvolumeclaims_info(p) == PerClaim(p, LAMBDA claim : 1)

kube_pod_spec_volumes_persistentvolumeclaims_readonly(p) ==
    PerClaim(p, LAMBDA claim : boolFloat64(claim.readOnly))

kube_pod_overhead(p) ==
    ForEachIn(DOMAIN p.overhead, LAMBDA name :
        CASE name = <<"cpu">> -> <<NewMetric(<<"resource", "unit">>, <<"cpu", "core">>, p.overhead[name])>>
          [] name = <<"memory">> ->
                <<NewMetric(<<"resource", "unit">>, <<"memory", "byte">>, WholeValue(p.overhead[name]))>>
          [] OTHER -> <<>>)

podMetricFamilies(p) ==
    LET cs == p.containerStatuses
        ics == p.initContainerStatuses
    IN Namespaced(p, "pod", <<
        Family("kube_pod_info", kube_pod_info(p)),
        Family("kube_pod_start_time", IfSet(p.startTime)),
        Family("kube_pod_completion_time", kube_pod_completion_time(p)),
        Family("kube_pod_owner", OwnerMetrics(p.owners)),
        Family("kube_pod_labels", kubeLabelsToPrometheusLabels(p.labels)),
        Family("kube_pod_created", IfNotZero(p.created)),
        Family("kube_pod_deleted", IfSet(p.deleted)),
        Family("kube_pod_restart_policy", Info(<<"type">>, <<p.restartPolicy>>)),
        Family("kube_pod_status_scheduled_time", kube_pod_status_scheduled_time(p)),
        Family("kube_pod_status_unschedulable", kube_pod_status_unschedulable(p)),
        Family("kube_pod_status_phase", kube_pod_status_phase(p)),
        Family("kube_pod_status_ready", kube_pod_status_ready(p)),
        Family("kube_pod_status_scheduled", kube_pod_status_scheduled(p)),
        Family("kube_pod_status_reason", kube_pod_status_reason(p)),
        Family("kube_pod_container_info", container_info(cs)),
        Family("kube_pod_init_container_info", container_info(ics)),
        Family("kube_pod_container_status_waiting", container_status_waiting(cs)),
        Family("kube_pod_init_container_status_waiting", container_status_waiting(ics)),
        Family("kube_pod_container_status_waiting_reason", container_status_waiting_reason(cs)),
        Family("kube_pod_init_container_status_waiting_reason", container_status_waiting_reason(ics)),
        Family("kube_pod_container_status_running", container_status_running(cs)),
        Family("kube_pod_init_container_status_running", container_status_running(ics)),
        Family("kube_pod_container_status_terminated", container_status_terminated(cs)),
        Family("kube_pod_init_container_status_terminated", container_status_terminated(ics)),
        Family("kube_pod_container_status_terminated_reason", container_status_terminated_reason(cs)),
        Family("kube_pod_init_container_status_terminated_reason", container_status_terminated_reason(ics)),
        Family("kube_pod_container_status_last_terminated_reason", container_status_last_terminated_reason(cs)),
        Family("kube_pod_init_container_status_last_terminated_reason",
               container_status_last_terminated_reason(ics)),
        Family("kube_pod_container_status_ready", container_status_ready(cs)),
        Family("kube_pod_init_container_status_ready", container_status_ready(ics)),
        Family("kube_pod_container_status_restarts_total", container_status_restarts_total(cs)),
        Family("kube_pod_init_container_status_restarts_total", container_status_restarts_total(ics)),
        Family("kube_pod_container_resource_requests", container_resource_requests(p.containers)),
        Family("kube_pod_container_resource_limits", container_resource_limits(p.containers)),
        Family("kube_pod_init_container_resource_limits", container_resource_limits(p.initContainers)),
        Family("kube_pod_spec_volumes_persistentvolumeclaims_info",
               kube_pod_spec_volumes_persistentvolumeclaims_info(p)),
        Family("kube_pod_spec_volumes_persistentvolumeclaims_readonly",
               kube_pod_spec_volumes_persistentvolumeclaims_readonly(p)),
        Family("kube_pod_overhead", kube_pod_overhead(p))>>)
=============================================================================
