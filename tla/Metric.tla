------------------------------- MODULE Metric -------------------------------
(* Metrics, families and the helpers the generators share: pkg/metric,         *)
(* pkg/metric_generator and internal/store/utils.go.  A metric is its label    *)
(* keys, its label values and its value.  An optional field of an object is a  *)
(* set of at most one element.  A name that holds characters a label name may  *)
(* not hold is the sequence of its parts, the separators parts of their own;   *)
(* sanitizeLabelName turns it into a string.  Quantities of resources, and the *)
(* values of their metrics, are in thousandths.                                *)
EXTENDS Integers, SequencesExt

NewMetric(keys, vals, v) == [keys |-> keys, vals |-> vals, value |-> v]

\* A family is given its name when it is generated.
Family(name, ms) == [name |-> name, metrics |-> ms]

\* The families most generators return: one metric without labels, one metric
\* that only carries labels, a metric for a field that is set, for a time.
Gauge(v) == <<NewMetric(<<>>, <<>>, v)>>

Info(keys, vals) == <<NewMetric(keys, vals, 1)>>

The(x) == CHOOSE v \in x : TRUE

IfSet(x) == IF x = {} THEN <<>> ELSE Gauge(The(x))

IfNotZero(t) == IF t = 0 THEN <<>> ELSE Gauge(t)

\* A generator that dereferences nil or panics itself: like a metric whose keys
\* and values differ in number, it ends the process.
Panic == <<NewMetric(<<"panic">>, <<>>, 0)>>

Writable(m) == Len(m.keys) = Len(m.vals)

\* Loops that append metrics: over a slice, and over a map (in any order).
ForEach(s, F(_)) == FlattenSeq([i \in DOMAIN s |-> F(s[i])])

ForEachIn(S, F(_)) == ForEach(SetToSeq(S), F)

boolFloat64(b) == IF b THEN 1 ELSE 0

\* One metric per possible value, 1 for the one the object has.
OneHot(key, values, current) ==
    [i \in DOMAIN values |-> NewMetric(<<key>>, <<values[i]>>, boolFloat64(current = values[i]))]

conditionStatuses == <<"True", "False", "Unknown">>

ToLower == [True |-> "true", False |-> "false", Unknown |-> "unknown"]

addConditionMetrics(cs) ==
    [i \in DOMAIN conditionStatuses |->
        NewMetric(<<>>, <<ToLower[conditionStatuses[i]]>>, boolFloat64(cs = conditionStatuses[i]))]

\* Mutant: the type of the condition is forgotten.
LabelledWithoutType(ms, keys, before) ==
    [i \in DOMAIN ms |-> NewMetric(keys, ms[i].vals, ms[i].value)]

\* What the callers of addConditionMetrics do with its metrics: they set the
\* keys and put the condition's type before the status.
Labelled(ms, keys, before) ==
    [i \in DOMAIN ms |-> NewMetric(keys, before \o ms[i].vals, ms[i].value)]

AllConditions(conditions, keys) ==
    ForEach(conditions, LAMBDA c : Labelled(addConditionMetrics(c.status), keys, <<c.type>>))

ConditionsOfType(conditions, type) ==
    ForEach(conditions, LAMBDA c :
        IF c.type = type THEN Labelled(addConditionMetrics(c.status), <<"condition">>, <<>>) ELSE <<>>)

invalidLabelChars == {".", "-", "/"}

\* Mutant: what stands before a slash is cut off.
sanitizeWithoutPrefix(s) ==
    LET cut == SelectInSeq(s, LAMBDA part : part = "/") IN FlattenSeq(SubSeq(s, cut + 1, Len(s)))

sanitizeLabelName(s) ==
    FlattenSeq([i \in DOMAIN s |-> IF s[i] \in invalidLabelChars THEN "_" ELSE s[i]])

mapToPrometheusLabels(labels, prefix) ==
    LET names == SetToSeq(DOMAIN labels)
    IN  Info([i \in DOMAIN names |-> prefix \o "_" \o sanitizeLabelName(names[i])],
             [i \in DOMAIN names |-> labels[names[i]]])

kubeLabelsToPrometheusLabels(labels) == mapToPrometheusLabels(labels, "label")

\* rv is {} when the resource version is not a number.
resourceVersionMetric(rv) == IfSet(rv)

isHugePageResourceName(name) == IsPrefix(<<"hugepages", "-">>, name)

isAttachableVolumeResourceName(name) == IsPrefix(<<"attachable", "-", "volumes", "-">>, name)

isNativeResource(name) ==
    \/ "/" \notin ToSet(name)
    \/ \E i \in DOMAIN name : IsPrefix(<<"kubernetes", ".", "io", "/">>, SubSeq(name, i, Len(name)))

\* IsQualifiedName allows one slash.
isExtendedResourceName(name) ==
    /\ ~isNativeResource(name)
    /\ ~IsPrefix(<<"requests", ".">>, name)
    /\ Len(SelectSeq(name, LAMBDA part : part = "/")) <= 1

\* Quantity.Value rounds up to a whole number.
WholeValue(q) == ((q + 999) \div 1000) * 1000

\* The switch over a resource's name that pods and nodes share: the units it
\* gives the resource.  A name may pass more than one of the last three tests.
ResourceUnits(name) ==
    CASE name = <<"cpu">> -> <<"core">>
      [] name \in {<<"storage">>, <<"ephemeral", "-", "storage">>, <<"memory">>} -> <<"byte">>
      [] OTHER -> (IF isHugePageResourceName(name) THEN <<"byte">> ELSE <<>>)
                  \o (IF isAttachableVolumeResourceName(name) THEN <<"byte">> ELSE <<>>)
                  \o (IF isExtendedResourceName(name) THEN <<"integer">> ELSE <<>>)

ownerLabels == <<"owner_kind", "owner_name", "owner_is_controller">>

\* The owner families of pods, jobs, replica sets and replication controllers.
OwnerMetrics(owners) ==
    IF owners = <<>>
    THEN Info(ownerLabels, <<"<none>", "<none>", "<none>">>)
    ELSE [i \in DOMAIN owners |->
            NewMetric(ownerLabels, <<owners[i].kind, owners[i].name,
                IF owners[i].controller = {} THEN "false" ELSE The(owners[i].controller)>>, 1)]

\* What every wrapXFunc does: the default labels come before a metric's own.
WrapFunc(families, keys, vals) ==
    [i \in DOMAIN families |-> Family(families[i].name,
        [j \in DOMAIN families[i].metrics |->
            [families[i].metrics[j] EXCEPT !.keys = keys \o @, !.vals = vals \o @]])]

\* Mutant: the namespace is not among the default labels.
NamedOnly(o, label, families) == WrapFunc(families, <<label>>, <<o.name>>)

Namespaced(o, label, families) == WrapFunc(families, <<"namespace", label>>, <<o.namespace, o.name>>)

ClusterScoped(o, label, families) == WrapFunc(families, <<label>>, <<o.name>>)
=============================================================================
