-------------------------- MODULE WorkloadFamilies --------------------------
(* The generators of the resources that run and scale pods: deployments,       *)
(* stateful sets, replica sets, replication controllers, daemon sets, jobs,    *)
(* cron jobs, autoscalers, disruption budgets (internal/store).                *)
EXTENDS Metric

\* intstr.GetValueFromIntOrPercent, rounding up: fails for nil, and for a string
\* that is no percentage (percent and int both unset).
GetValueFromIntOrPercent(x, total) ==
    CASE x = {} -> {}
      [] x # {} /\ The(x).type = "int" -> {The(x).value}
      [] x # {} /\ The(x).type = "percent" -> {(The(x).value * total + 99) \div 100}
      [] OTHER -> {}

\* Neither family is there without a rolling update; an error panics, and so
\* does a deployment without spec.replicas.
RollingUpdateMax(d, max(_)) ==
    IF d.rollingUpdate = {} THEN <<>>
    ELSE IF d.replicas = {} THEN Panic
    ELSE LET v == GetValueFromIntOrPercent(max(The(d.rollingUpdate)), The(d.replicas))
         IN  IF v = {} THEN Panic ELSE Gauge(The(v))

rollingupdate_max_unavailable(d) == RollingUpdateMax(d, LAMBDA r : r.maxUnavailable)

\* Mutant: the other field.
rollingupdate_max_surge_copied(d) == RollingUpdateMax(d, LAMBDA r : r.maxUnavailable)

rollingupdate_max_surge(d) == RollingUpdateMax(d, LAMBDA r : r.maxSurge)

\* A pointer dereferenced without a test.
Deref(x) == IF x = {} THEN Panic ELSE Gauge(The(x))

deploymentMetricFamilies(d) == Namespaced(d, "deployment", <<
    Family("kube_deployment_created", IfNotZero(d.created)),
    Family("kube_deployment_status_replicas", Gauge(d.status.replicas)),
    Family("kube_deployment_status_replicas_available", Gauge(d.status.available)),
    Family("kube_deployment_status_replicas_unavailable", Gauge(d.status.unavailable)),
    Family("kube_deployment_status_replicas_updated", Gauge(d.status.updated)),
    Family("kube_deployment_status_observed_generation", Gauge(d.status.observedGeneration)),
    Family("kube_deployment_status_condition", AllConditions(d.conditions, <<"condition", "status">>)),
    Family("kube_deployment_spec_replicas", Deref(d.replicas)),
    Family("kube_deployment_spec_paused", Gauge(boolFloat64(d.paused))),
    Family("kube_deployment_spec_strategy_rollingupdate_max_unavailable", rollingupdate_max_unavailable(d)),
    Family("kube_deployment_spec_strategy_rollingupdate_max_surge", rollingupdate_max_surge(d)),
    Family("kube_deployment_metadata_generation", Gauge(d.generation)),
    Family("kube_deployment_labels", kubeLabelsToPrometheusLabels(d.labels))>>)

statefulSetMetricFamilies(s) == Namespaced(s, "statefulset", <<
    Family("kube_statefulset_created", IfNotZero(s.created)),
    Family("kube_statefulset_status_replicas", Gauge(s.status.replicas)),
    Family("kube_statefulset_status_replicas_current", Gauge(s.status.current)),
    Family("kube_statefulset_status_replicas_ready", Gauge(s.status.ready)),
    Family("kube_statefulset_status_replicas_updated", Gauge(s.status.updated)),
    Family("kube_statefulset_status_observed_generation", Gauge(s.status.observedGeneration)),
    Family("kube_statefulset_replicas", IfSet(s.replicas)),
    Family("kube_statefulset_metadata_generation", Gauge(s.generation)),
    Family("kube_statefulset_labels", kubeLabelsToPrometheusLabels(s.labels)),
    Family("kube_statefulset_status_current_revision", Info(<<"revision">>, <<s.status.currentRevision>>)),
    Family("kube_statefulset_status_update_revision", Info(<<"revision">>, <<s.status.updateRevision>>))>>)

replicaSetMetricFamilies(r) == Namespaced(r, "replicaset", <<
    Family("kube_replicaset_created", IfNotZero(r.created)),
    Family("kube_replicaset_status_replicas", Gauge(r.status.replicas)),
    Family("kube_replicaset_status_fully_labeled_replicas", Gauge(r.status.fullyLabeled)),
    Family("kube_replicaset_status_ready_replicas", Gauge(r.status.ready)),
    Family("kube_replicaset_status_observed_generation", Gauge(r.status.observedGeneration)),
    Family("kube_replicaset_spec_replicas", IfSet(r.replicas)),
    Family("kube_replicaset_metadata_generation", Gauge(r.generation)),
    Family("kube_replicaset_owner", OwnerMetrics(r.owners)),
    Family("kube_replicaset_labels", kubeLabelsToPrometheusLabels(r.labels))>>)

replicationControllerMetricFamilies(r) == Namespaced(r, "replicationcontroller", <<
    Family("kube_replicationcontroller_created", IfNotZero(r.created)),
    Family("kube_replicationcontroller_status_replicas", Gauge(r.status.replicas)),
    Family("kube_replicationcontroller_status_fully_labeled_replicas", Gauge(r.status.fullyLabeled)),
    Family("kube_replicationcontroller_status_ready_replicas", Gauge(r.status.ready)),
    Family("kube_replicationcontroller_status_available_replicas", Gauge(r.status.available)),
    Family("kube_replicationcontroller_status_observed_generation", Gauge(r.status.observedGeneration)),
    Family("kube_replicationcontroller_spec_replicas", IfSet(r.replicas)),
    Family("kube_replicationcontroller_metadata_generation", Gauge(r.generation)),
    Family("kube_replicationcontroller_owner", OwnerMetrics(r.owners))>>)

daemonSetMetricFamilies(d) == Namespaced(d, "daemonset", <<
    Family("kube_daemonset_created", IfNotZero(d.created)),
    Family("kube_daemonset_status_current_number_scheduled", Gauge(d.status.current)),
    Family("kube_daemonset_status_desired_number_scheduled", Gauge(d.status.desired)),
    Family("kube_daemonset_status_number_available", Gauge(d.status.available)),
    Family("kube_daemonset_status_number_misscheduled", Gauge(d.status.misscheduled)),
    Family("kube_daemonset_status_number_ready", Gauge(d.status.ready)),
    Family("kube_daemonset_status_number_unavailable", Gauge(d.status.unavailable)),
    Family("kube_daemonset_updated_number_scheduled", Gauge(d.status.updated)),
    Family("kube_daemonset_metadata_generation", Gauge(d.generation)),
    Family("kube_daemonset_labels", kubeLabelsToPrometheusLabels(d.labels))>>)

kube_job_complete(j) == ConditionsOfType(j.conditions, "Complete")

kube_job_failed(j) == ConditionsOfType(j.conditions, "Failed")

jobMetricFamilies(j) == Namespaced(j, "job_name", <<
    Family("kube_job_labels", kubeLabelsToPrometheusLabels(j.labels)),
    Family("kube_job_info", Gauge(1)),
    Family("kube_job_created", IfNotZero(j.created)),
    Family("kube_job_spec_parallelism", IfSet(j.parallelism)),
    Family("kube_job_spec_completions", IfSet(j.completions)),
    Family("kube_job_spec_active_deadline_seconds", IfSet(j.activeDeadlineSeconds)),
    Family("kube_job_status_succeeded", Gauge(j.status.succeeded)),
    Family("kube_job_status_failed", Gauge(j.status.failed)),
    Family("kube_job_status_active", Gauge(j.status.active)),
    Family("kube_job_complete", kube_job_complete(j)),
    Family("kube_job_failed", kube_job_failed(j)),
    Family("kube_job_status_start_time", IfSet(j.startTime)),
    Family("kube_job_status_completion_time", IfSet(j.completionTime)),
    Family("kube_job_owner", OwnerMetrics(j.owners))>>)

\* The seconds Unix returns for Go's zero time: a number below that of every
\* time an object carries.
ZeroTime == -1

\* The cron library's Next: the first of the schedule's times after t, or the zero
\* time when there is none (the 31st of February).  It looks five years ahead: a
\* schedule here is the set of the times it can find.
NextTime(times, t) ==
    LET later == {x \in times : x > t}
    IN  IF later = {} THEN ZeroTime ELSE Min(later)

\* Mutant: the time of creation comes before the last schedule time.
nextScheduledSinceCreation(schedule, lastScheduleTime, createdTime) ==
    IF schedule = {} THEN {} ELSE {NextTime(The(schedule), createdTime)}

\* A schedule is {} when it does not parse, or holds the set of the times that
\* satisfy it.  The result is {} for an error; the zero time is no error.
getNextScheduledTime(schedule, lastScheduleTime, createdTime) ==
    CASE schedule = {} -> {}
      [] schedule # {} /\ lastScheduleTime # {} -> {NextTime(The(schedule), The(lastScheduleTime))}
      [] schedule # {} /\ lastScheduleTime = {} /\ createdTime # 0 -> {NextTime(The(schedule), createdTime)}
      [] OTHER -> {}

\* The time is computed, and its error panics, before suspend is looked at.
kube_cronjob_next_schedule_time(j) ==
    LET next == getNextScheduledTime(j.schedule, j.lastScheduleTime, j.created)
    IN  IF next = {} \/ j.suspend = {} THEN Panic
        ELSE IF The(j.suspend) THEN <<>> ELSE Gauge(The(next))

cronJobMetricFamilies(j) == Namespaced(j, "cronjob", <<
    Family("kube_cronjob_labels", kubeLabelsToPrometheusLabels(j.labels)),
    Family("kube_cronjob_info", Info(<<"schedule", "concurrency_policy">>, <<j.scheduleText, j.concurrencyPolicy>>)),
    Family("kube_cronjob_created", IfNotZero(j.created)),
    Family("kube_cronjob_status_active", Gauge(j.active)),
    Family("kube_cronjob_status_last_schedule_time", IfSet(j.lastScheduleTime)),
    Family("kube_cronjob_spec_suspend",
           IF j.suspend = {} THEN <<>> ELSE Gauge(boolFloat64(The(j.suspend)))),
    Family("kube_cronjob_spec_starting_deadline_seconds", IfSet(j.startingDeadlineSeconds)),
    Family("kube_cronjob_next_schedule_time", kube_cronjob_next_schedule_time(j))>>)

podDisruptionBudgetMetricFamilies(p) == Namespaced(p, "poddisruptionbudget", <<
    Family("kube_poddisruptionbudget_created", IfNotZero(p.created)),
    Family("kube_poddisruptionbudget_status_current_healthy", Gauge(p.status.currentHealthy)),
    Family("kube_poddisruptionbudget_status_desired_healthy", Gauge(p.status.desiredHealthy)),
    Family("kube_poddisruptionbudget_status_pod_disruptions_allowed", Gauge(p.status.disruptionsAllowed)),
    Family("kube_poddisruptionbudget_status_expected_pods", Gauge(p.status.expectedPods)),
    Family("kube_poddisruptionbudget_status_observed_generation", Gauge(p.status.observedGeneration))>>)

\* Quantity.AsInt64 fails for a fraction, and the target is then not shown.
AsInt64(q) == {v \div 1000 : v \in {w \in q : w % 1000 = 0}}

\* The targets of a metric of an autoscaler by target type, in the order of
\* metricTargetType; a source of another type has none.
TargetsOf(m) ==
    CASE m.type = "Object" -> <<AsInt64(m.value), {}, AsInt64(m.average)>>
      [] m.type = "Pods" -> <<{}, {}, AsInt64(m.average)>>
      [] m.type = "Resource" -> <<{}, m.utilization, AsInt64(m.average)>>
      [] m.type = "External" -> <<AsInt64(m.value), {}, AsInt64(m.average)>>
      [] OTHER -> <<>>

metricTargetType == <<"value", "utilization", "average">>

kube_horizontalpodautoscaler_spec_target_metric(a) ==
    ForEach(a.metrics, LAMBDA m : LET v == TargetsOf(m) IN
        FlattenSeq([i \in DOMAIN v |->
            IF v[i] = {} THEN <<>>
            ELSE <<NewMetric(<<"metric_name", "metric_target_type">>, <<m.name, metricTargetType[i]>>, The(v[i]))>>]))

hpaMetricFamilies(a) == Namespaced(a, "horizontalpodautoscaler", <<
    Family("kube_horizontalpodautoscaler_metadata_generation", Gauge(a.generation)),
    Family("kube_horizontalpodautoscaler_spec_max_replicas", Gauge(a.maxReplicas)),
    Family("kube_horizontalpodautoscaler_spec_min_replicas", Deref(a.minReplicas)),
    Family("kube_horizontalpodautoscaler_spec_target_metric", kube_horizontalpodautoscaler_spec_target_metric(a)),
    Family("kube_horizontalpodautoscaler_status_current_replicas", Gauge(a.status.current)),
    Family("kube_horizontalpodautoscaler_status_desired_replicas", Gauge(a.status.desired)),
    Family("kube_horizontalpodautoscaler_labels", kubeLabelsToPrometheusLabels(a.labels)),
    Family("kube_horizontalpodautoscaler_status_condition", AllConditions(a.conditions, <<"condition", "status">>))>>)

\* The resources shown for vertical autoscalers; others are left out.
vpaResources == {<<"cpu">>, <<"storage">>, <<"ephemeral", "-", "storage">>, <<"memory">>}

vpaResourcesToMetrics(containerName, resources) ==
    ForEachIn(DOMAIN resources \cap vpaResources, LAMBDA name :
        <<NewMetric(<<"container", "resource", "unit">>,
            <<containerName, sanitizeLabelName(name), ResourceUnits(name)[1]>>,
            IF name = <<"cpu">> THEN resources[name] ELSE WholeValue(resources[name]))>>)

\* One of the resource lists of each container.
PerPolicy(containers, list) ==
    ForEach(containers, LAMBDA c : vpaResourcesToMetrics(c.name, c[list]))

\* The default labels name the target, which is dereferenced for every metric.
wrapVPAFunc(a, families) ==
    LET target == The(a.targetRef)
    IN  IF a.targetRef = {}
        THEN [i \in DOMAIN families |->
                Family(families[i].name, IF families[i].metrics = <<>> THEN <<>> ELSE Panic)]
        ELSE WrapFunc(families,
                <<"namespace", "verticalpodautoscaler", "target_api_version", "target_kind", "target_name">>,
                <<a.namespace, a.name, target.apiVersion, target.kind, target.name>>)

vpaMetricFamilies(a) == wrapVPAFunc(a, <<
    Family("kube_verticalpodautoscaler_labels", kubeLabelsToPrometheusLabels(a.labels)),
    Family("kube_verticalpodautoscaler_spec_updatepolicy_updatemode",
           IF a.updateMode = {} THEN <<>>
           ELSE OneHot("update_mode", <<"Off", "Initial", "Recreate", "Auto">>, The(a.updateMode))),
    Family("kube_verticalpodautoscaler_spec_resourcepolicy_container_policies_minallowed",
           PerPolicy(a.policies, "minAllowed")),
    Family("kube_verticalpodautoscaler_spec_resourcepolicy_container_policies_maxallowed",
           PerPolicy(a.policies, "maxAllowed")),
    Family("kube_verticalpodautoscaler_status_recommendation_containerrecommendations_lowerbound",
           PerPolicy(a.recommendations, "lowerBound")),
    Family("kube_verticalpodautoscaler_status_recommendation_containerrecommendations_upperbound",
           PerPolicy(a.recommendations, "upperBound")),
    Family("kube_verticalpodautoscaler_status_recommendation_containerrecommendations_target",
           PerPolicy(a.recommendations, "target")),
    Family("kube_verticalpodautoscaler_status_recommendation_containerrecommendations_uncappedtarget",
           PerPolicy(a.recommendations, "uncappedTarget"))>>)
=============================================================================
