--------------------------- MODULE ClusterFamilies ---------------------------
(* The generators of the resources that are not workloads: nodes, namespaces,  *)
(* storage, networking, configuration and policy (internal/store).             *)
EXTENDS Metric

\* A resource name as it is written, without sanitizing.
Text(name) == FlattenSeq(name)

rolePrefix == <<"node", "-", "role", ".", "kubernetes", ".", "io", "/">>

kube_node_role(n) ==
    ForEachIn({l \in DOMAIN n.labels : IsPrefix(rolePrefix, l)}, LAMBDA l :
        Info(<<"role">>, <<Text(SubSeq(l, Len(rolePrefix) + 1, Len(l)))>>))

kube_node_spec_taint(n) ==
    [i \in DOMAIN n.taints |->
        NewMetric(<<"key", "value", "effect">>, <<n.taints[i].key, n.taints[i].value, n.taints[i].effect>>, 1)]

\* Unlike pods, nodes count pods and keep the thousandths of every resource.
NodeResources(list) ==
    ForEachIn(DOMAIN list, LAMBDA name :
        LET units == IF name = <<"pods">> THEN <<"integer">> ELSE ResourceUnits(name)
        IN  [i \in DOMAIN units |->
                NewMetric(<<"resource", "unit">>, <<sanitizeLabelName(name), units[i]>>, list[name])])

kube_node_status_capacity(n) == NodeResources(n.capacity)

kube_node_status_allocatable(n) == NodeResources(n.allocatable)

nodeMetricFamilies(n) == ClusterScoped(n, "node", <<
    Family("kube_node_info", Info(<<"kernel_version", "os_image", "container_runtime_version", "kubelet_version",
                                    "kubeproxy_version", "provider_id", "pod_cidr">>, n.info)),
    Family("kube_node_created", IfNotZero(n.created)),
    Family("kube_node_labels", kubeLabelsToPrometheusLabels(n.labels)),
    Family("kube_node_role", kube_node_role(n)),
    Family("kube_node_spec_unschedulable", Gauge(boolFloat64(n.unschedulable))),
    Family("kube_node_spec_taint", kube_node_spec_taint(n)),
    Family("kube_node_status_condition", AllConditions(n.conditions, <<"condition", "status">>)),
    Family("kube_node_status_capacity", kube_node_status_capacity(n)),
    Family("kube_node_status_allocatable", kube_node_status_allocatable(n))>>)

\* A namespace without a phase shows both phases as 0.
namespaceMetricFamilies(n) == ClusterScoped(n, "namespace", <<
    Family("kube_namespace_created", IfNotZero(n.created)),
    Family("kube_namespace_labels", kubeLabelsToPrometheusLabels(n.labels)),
    Family("kube_namespace_status_phase", OneHot("phase", <<"Active", "Terminating">>, n.phase)),
    Family("kube_namespace_status_condition", AllConditions(n.conditions, <<"condition", "status">>))>>)

kube_persistentvolume_status_phase(p) ==
    IF p.phase = "" THEN <<>>
    ELSE OneHot("phase", <<"Pending", "Available", "Bound", "Released", "Failed">>, p.phase)

persistentVolumeMetricFamilies(p) == ClusterScoped(p, "persistentvolume", <<
    Family("kube_persistentvolume_labels", kubeLabelsToPrometheusLabels(p.labels)),
    Family("kube_persistentvolume_status_phase", kube_persistentvolume_status_phase(p)),
    Family("kube_persistentvolume_info", Info(<<"storageclass">>, <<p.storageClassName>>)),
    Family("kube_persistentvolume_capacity_bytes", Gauge(WholeValue(p.capacity)))>>)

getPersistentVolumeClaimClass(claim) ==
    CASE claim.betaStorageClass # {} -> The(claim.betaStorageClass)
      [] claim.betaStorageClass = {} /\ claim.storageClassName # {} -> The(claim.storageClassName)
      [] OTHER -> "<none>"

kube_persistentvolumeclaim_status_phase(p) ==
    IF p.phase = "" THEN <<>> ELSE OneHot("phase", <<"Lost", "Bound", "Pending">>, p.phase)

kube_persistentvolumeclaim_access_mode(p) ==
    ForEach(p.accessModes, LAMBDA mode : Info(<<"access_mode">>, <<mode>>))

persistentVolumeClaimMetricFamilies(p) == Namespaced(p, "persistentvolumeclaim", <<
    Family("kube_persistentvolumeclaim_labels", kubeLabelsToPrometheusLabels(p.labels)),
    Family("kube_persistentvolumeclaim_info",
           Info(<<"storageclass", "volumename">>, <<getPersistentVolumeClaimClass(p), p.volumeName>>)),
    Family("kube_persistentvolumeclaim_status_phase", kube_persistentvolumeclaim_status_phase(p)),
    Family("kube_persistentvolumeclaim_resource_requests_storage_bytes",
           IF p.storage = {} THEN <<>> ELSE Gauge(WholeValue(The(p.storage)))),
    Family("kube_persistentvolumeclaim_access_mode", kube_persistentvolumeclaim_access_mode(p)),
    Family("kube_persistentvolumeclaim_status_condition",
           AllConditions(p.conditions, <<"condition", "status">>))>>)

\* The info family writes the defaults it shows into the object.
storageClassMetricFamilies(s) ==
    LET reclaimPolicy == IF s.reclaimPolicy = {} THEN "Delete" ELSE The(s.reclaimPolicy)
        volumeBindingMode == IF s.volumeBindingMode = {} THEN "Immediate" ELSE The(s.volumeBindingMode)
    IN ClusterScoped(s, "storageclass", <<
        Family("kube_storageclass_info", Info(<<"provisioner", "reclaimPolicy", "volumeBindingMode">>,
                                              <<s.provisioner, reclaimPolicy, volumeBindingMode>>)),
        Family("kube_storageclass_created", IfNotZero(s.created)),
        Family("kube_storageclass_labels", kubeLabelsToPrometheusLabels(s.labels))>>)

volumeAttachmentMetricFamilies(va) == ClusterScoped(va, "volumeattachment", <<
    Family("kube_volumeattachment_labels", kubeLabelsToPrometheusLabels(va.labels)),
    Family("kube_volumeattachment_info", Info(<<"attacher", "nodeName">>, <<va.attacher, va.nodeName>>)),
    Family("kube_volumeattachment_created", IfNotZero(va.created)),
    Family("kube_volumeattachment_spec_source_persistentvolume",
           IF va.persistentVolumeName = {} THEN <<>>
           ELSE Info(<<"volumename">>, <<The(va.persistentVolumeName)>>)),
    Family("kube_volumeattachment_status_attached", Gauge(boolFloat64(va.attached))),
    Family("kube_volumeattachment_status_attachment_metadata",
           mapToPrometheusLabels(va.attachmentMetadata, "metadata"))>>)

kube_service_spec_external_ip(s) ==
    ForEach(s.externalIPs, LAMBDA ip : Info(<<"external_ip">>, <<ip>>))

kube_service_status_load_balancer_ingress(s) ==
    ForEach(s.ingress, LAMBDA in : Info(<<"ip", "hostname">>, <<in.ip, in.hostname>>))

serviceMetricFamilies(s) == Namespaced(s, "service", <<
    Family("kube_service_info", Info(<<"cluster_ip", "external_name", "load_balancer_ip">>,
                                     <<s.clusterIP, s.externalName, s.loadBalancerIP>>)),
    Family("kube_service_created", IfNotZero(s.created)),
    Family("kube_service_spec_type", Info(<<"type">>, <<s.type>>)),
    Family("kube_service_labels", kubeLabelsToPrometheusLabels(s.labels)),
    Family("kube_service_spec_external_ip", kube_service_spec_external_ip(s)),
    Family("kube_service_status_load_balancer_ingress", kube_service_status_load_balancer_ingress(s))>>)

Sum(s, V(_)) == FoldLeft(LAMBDA n, x : n + V(x), 0, s)

kube_endpoint_address_available(e) ==
    Gauge(Sum(e.subsets, LAMBDA s : s.addresses * s.ports))

kube_endpoint_address_not_ready(e) ==
    Gauge(Sum(e.subsets, LAMBDA s : s.notReadyAddresses * s.ports))

endpointMetricFamilies(e) == Namespaced(e, "endpoint", <<
    Family("kube_endpoint_info", Gauge(1)),
    Family("kube_endpoint_created", IfNotZero(e.created)),
    Family("kube_endpoint_labels", kubeLabelsToPrometheusLabels(e.labels)),
    Family("kube_endpoint_address_available", kube_endpoint_address_available(e)),
    Family("kube_endpoint_address_not_ready", kube_endpoint_address_not_ready(e))>>)

\* A rule without http has no paths to show.
kube_ingress_path(i) ==
    ForEach(i.rules, LAMBDA rule :
        IF rule.http = {} THEN <<>>
        ELSE ForEach(The(rule.http), LAMBDA path :
                Info(<<"host", "path", "service_name", "service_port">>,
                     <<rule.host, path.path, path.serviceName, path.servicePort>>)))

kube_ingress_tls(i) ==
    ForEach(i.tls, LAMBDA tls : ForEach(tls.hosts, LAMBDA host :
        Info(<<"tls_host", "secret">>, <<host, tls.secretName>>)))

ingressMetricFamilies(i) == Namespaced(i, "ingress", <<
    Family("kube_ingress_info", Gauge(1)),
    Family("kube_ingress_labels", kubeLabelsToPrometheusLabels(i.labels)),
    Family("kube_ingress_created", IfNotZero(i.created)),
    Family("kube_ingress_metadata_resource_version", resourceVersionMetric(i.resourceVersion)),
    Family("kube_ingress_path", kube_ingress_path(i)),
    Family("kube_ingress_tls", kube_ingress_tls(i))>>)

networkpolicyMetricFamilies(n) == Namespaced(n, "networkpolicy", <<
    Family("kube_networkpolicy_created", Gauge(n.created)),
    Family("kube_networkpolicy_labels", kubeLabelsToPrometheusLabels(n.labels)),
    Family("kube_networkpolicy_spec_ingress_rules", Gauge(n.ingressRules)),
    Family("kube_networkpolicy_spec_egress_rules", Gauge(n.egressRules))>>)
=============================================================================
