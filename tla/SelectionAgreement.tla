------------------------ MODULE SelectionAgreement ------------------------
(***************************************************************************)
(* One AuthProxyWorkload of namespace Ns and the workloads of the cluster, *)
(* under every edit of the selector and every workload that comes or goes. *)
(* The reconciler reports the workloads listWorkloads finds; the webhook   *)
(* adds the proxy to the pods of the workloads workloadMatches accepts.    *)
(***************************************************************************)
EXTENDS WorkloadSelection

CONSTANTS Ns,         \* namespace of the AuthProxyWorkload
          Selectors,  \* values of spec.workloadSelector
          Workloads   \* workloads that may exist, of any namespace

ASSUME SelectorSpecAssumption == Selectors \subseteq WorkloadSelectorSpec
\* Every type that implements Workload has one of the seven kinds.
ASSUME WorkloadKindsAssumption == \A w \in Workloads : w.kind \in SupportedKinds

VARIABLES selector, existing

vars == <<selector, existing>>

Init ==
    /\ selector \in Selectors
    /\ existing = {}

EditSelector(sel) ==
    /\ sel # selector
    /\ selector' = sel
    /\ UNCHANGED existing

ToggleWorkload(w) ==
    /\ existing' = IF w \in existing THEN existing \ {w} ELSE existing \cup {w}
    /\ UNCHANGED selector

Next == \/ \E sel \in Selectors : EditSelector(sel)
        \/ \E w \in Workloads : ToggleWorkload(w)

Spec == Init /\ [][Next]_vars

-----------------------------------------------------------------------------

\* What the status reports: nothing when the list fails.
Reported == listWorkloads(existing, selector, Ns).items

\* The workloads whose pods get the proxy.
Configured == {w \in existing : workloadMatches(w, selector, Ns)}

\* "either Name or Selector", as the documentation of WorkloadSelectorSpec asks.
NameOrSelector == selector.name = "" \/ (selector.valid /\ selector.labels = {})

\* The two interpretations of a selector agree: the workloads reported as up to
\* date are the ones whose pods the webhook configures, unsupported kinds and
\* selectors that do not parse included, as long as the kind is not qualified
\* and the selector gives a name or labels and not both.
SelectionAgrees ==
    NameOrSelector /\ ~selector.kind.qualified => Reported = Configured

\* The documentation of WorkloadSelectorSpec.Kind gives "Deployment.v1.apps" as
\* an example, so a qualified kind selects what the plain kind does.
QualifiedKindSelects == NameOrSelector => Reported \subseteq Configured

=============================================================================
