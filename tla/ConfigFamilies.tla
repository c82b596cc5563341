--------------------------- MODULE ConfigFamilies ---------------------------
(* The generators of configuration and policy objects: secrets, config maps,   *)
(* quotas, limit ranges, signing requests, leases, webhooks (internal/store).  *)
EXTENDS ClusterFamilies

secretMetricFamilies(s) == Namespaced(s, "secret", <<
    Family("kube_secret_info", Gauge(1)),
    Family("kube_secret_type", Info(<<"type">>, <<s.type>>)),
    Family("kube_secret_labels", kubeLabelsToPrometheusLabels(s.labels)),
    Family("kube_secret_created", IfNotZero(s.created)),
    Family("kube_secret_metadata_resource_version", resourceVersionMetric(s.resourceVersion))>>)

configMapMetricFamilies(c) == Namespaced(c, "configmap", <<
    Family("kube_configmap_info", Gauge(1)),
    Family("kube_configmap_created", IfNotZero(c.created)),
    Family("kube_configmap_metadata_resource_version", resourceVersionMetric(c.resourceVersion))>>)

\* Quotas and limit ranges show resource names as they are written.
PerResource(list, keys, after) ==
    ForEachIn(DOMAIN list, LAMBDA name : <<NewMetric(keys, <<Text(name)>> \o after, list[name])>>)

resourceQuotaMetricFamilies(r) == Namespaced(r, "resourcequota", <<
    Family("kube_resourcequota_created", IfNotZero(r.created)),
    Family("kube_resourcequota", PerResource(r.hard, <<"resource", "type">>, <<"hard">>)
                                 \o PerResource(r.used, <<"resource", "type">>, <<"used">>))>>)

kube_limitrange(r) ==
    LET keys == <<"resource", "type", "constraint">>
    IN  ForEach(r.limits, LAMBDA l :
            PerResource(l.min, keys, <<l.type, "min">>)
            \o PerResource(l.max, keys, <<l.type, "max">>)
            \o PerResource(l.default, keys, <<l.type, "default">>)
            \o PerResource(l.defaultRequest, keys, <<l.type, "defaultRequest">>)
            \o PerResource(l.maxLimitRequestRatio, keys, <<l.type, "maxLimitRequestRatio">>))

limitRangeMetricFamilies(r) == Namespaced(r, "limitrange", <<
    Family("kube_limitrange", kube_limitrange(r)),
    Family("kube_limitrange_created", IfNotZero(r.created))>>)

\* The conditions are counted; every type but the two is ignored.
addCSRConditionMetrics(conditions) ==
    LET Count(type) == Len(SelectSeq(conditions, LAMBDA c : c = type))
    IN  <<NewMetric(<<"condition">>, <<"approved">>, Count("Approved")),
          NewMetric(<<"condition">>, <<"denied">>, Count("Denied"))>>

csrMetricFamilies(c) == ClusterScoped(c, "certificatesigningrequest", <<
    Family("kube_certificatesigningrequest_labels", kubeLabelsToPrometheusLabels(c.labels)),
    Family("kube_certificatesigningrequest_created", IfNotZero(c.created)),
    Family("kube_certificatesigningrequest_condition", addCSRConditionMetrics(c.csrConditions)),
    Family("kube_certificatesigningrequest_cert_length", Gauge(c.certificateLength))>>)

kube_lease_owner(l) ==
    IF l.owners = <<>> THEN Info(<<"owner_kind", "owner_name">>, <<"<none>", "<none>">>)
    ELSE ForEach(l.owners, LAMBDA o : Info(<<"owner_kind", "owner_name">>, <<o.kind, o.name>>))

\* Only leases of one namespace are listed, so a name is enough.
leaseMetricFamilies(l) == ClusterScoped(l, "lease", <<
    Family("kube_lease_owner", kube_lease_owner(l)),
    Family("kube_lease_renew_time", IfSet(l.renewTime))>>)

\* The namespace label of a webhook configuration is always empty.
validatingWebhookConfigurationMetricFamilies(w) == Namespaced(w, "validatingwebhookconfiguration", <<
    Family("kube_validatingwebhookconfiguration_info", Gauge(1)),
    Family("kube_validatingwebhookconfiguration_created", IfNotZero(w.created)),
    Family("kube_validatingwebhookconfiguration_metadata_resource_version", resourceVersionMetric(w.resourceVersion))>>)

\* Mutant: a name copied from the other kind of webhook.
mutatingWebhookConfigurationWithCopiedName(w) == Namespaced(w, "mutatingwebhookconfiguration", <<
    Family("kube_mutatingwebhookconfiguration_info", Gauge(1)),
    Family("kube_validatingwebhookconfiguration_created", IfNotZero(w.created))>>)

mutatingWebhookConfigurationMetricFamilies(w) == Namespaced(w, "mutatingwebhookconfiguration", <<
    Family("kube_mutatingwebhookconfiguration_info", Gauge(1)),
    Family("kube_mutatingwebhookconfiguration_created", IfNotZero(w.created)),
    Family("kube_mutatingwebhookconfiguration_metadata_resource_version", resourceVersionMetric(w.resourceVersion))>>)
=============================================================================
