------------------------- MODULE WorkloadSelection -------------------------
(***************************************************************************)
(* How an AuthProxyWorkload selects workloads.  Two pieces of the operator *)
(* interpret the same WorkloadSelectorSpec with different code: the        *)
(* reconciler lists workloads (listWorkloads) and the pod admission        *)
(* webhook tests one workload against a selector (workloadMatches).        *)
(*                                                                         *)
(* A workload is [kind, ns, name, labels]; a label is one "key=value"      *)
(* pair.                                                                   *)
(***************************************************************************)

\* spec.workloadSelector.  name "" means that no name is given, valid says that
\* the LabelSelector converts without an error, labels is the set of pairs it
\* requires, {} for a nil Selector.  A kind string is [base, qualified]:
\* "Deployment.v1.apps" has base "Deployment" and is qualified.
WorkloadSelectorSpec ==
    [kind : [base : STRING, qualified : BOOLEAN], name : STRING,
     valid : BOOLEAN, labels : SUBSET STRING]

\* The kinds that WorkloadForKind and WorkloadListForKind both know.
SupportedKinds == {"Deployment", "Pod", "StatefulSet", "ReplicaSet", "Job",
                   "CronJob", "DaemonSet"}

\* schema.ParseKindArg(kind) then .Kind: everything up to the first dot.
ParseKindArg(kind) == kind.base

\* What Workload.Object().GetObjectKind().Kind holds: a plain kind.
ObjectKind(w) == [base |-> w.kind, qualified |-> FALSE]

\* Result of a function that returns ([]Workload, error).
Listed(ws) == [ok |-> TRUE, items |-> ws]
ListFailed == [ok |-> FALSE, items |-> {}]

\* WorkloadForKind(kind) returns no error.
WorkloadForKind(kind) == ParseKindArg(kind) \in SupportedKinds

\* WorkloadListForKind(kind) returns no error; its argument is a bare kind.
WorkloadListForKind(base) == base \in SupportedKinds

\* LabelsSelector() returns no error.
LabelsSelector(sel) == sel.valid

\* loadByName: Get by kind, namespace and name.  Not found is an empty list,
\* the label selector is not consulted.
loadByName(existing, sel, ns) ==
    IF WorkloadForKind(sel.kind)
    THEN Listed({w \in existing : /\ w.kind = ParseKindArg(sel.kind)
                                  /\ w.ns = ns
                                  /\ w.name = sel.name})
    ELSE ListFailed

\* The workloads in a list of objects of one kind.
realWorkloadList(existing, kind) == {w \in existing : w.kind = kind}

\* Mutant: the list is not restricted to the namespace of the resource.
loadByLabelSelector_AllNamespaces(existing, sel, ns) ==
    IF LabelsSelector(sel) /\ WorkloadListForKind(ParseKindArg(sel.kind))
    THEN Listed({w \in realWorkloadList(existing, ParseKindArg(sel.kind)) :
                    sel.labels \subseteq w.labels})
    ELSE ListFailed

\* loadByLabelSelector: List by kind, namespace and labels.
loadByLabelSelector(existing, sel, ns) ==
    IF LabelsSelector(sel) /\ WorkloadListForKind(ParseKindArg(sel.kind))
    THEN Listed({w \in realWorkloadList(existing, ParseKindArg(sel.kind)) :
                    w.ns = ns /\ sel.labels \subseteq w.labels})
    ELSE ListFailed

\* listWorkloads: a name takes precedence over the label selector.
listWorkloads(existing, sel, ns) ==
    IF sel.name # "" THEN loadByName(existing, sel, ns)
                     ELSE loadByLabelSelector(existing, sel, ns)

\* workloadMatches: the webhook's test.  The kind strings are compared as
\* they are; the CRD requires a kind, so the empty kind is not modelled.
workloadMatches(w, sel, ns) ==
    /\ ObjectKind(w) = sel.kind
    /\ sel.name = "" \/ w.name = sel.name
    /\ w.ns = ns
    /\ LabelsSelector(sel)
    /\ sel.labels \subseteq w.labels

=============================================================================
