-------------------------- MODULE SelectionProofs --------------------------
(***************************************************************************)
(* What listWorkloads and workloadMatches compute, for every selector and  *)
(* every set of workloads.  The proofs about the reconciler, the webhook   *)
(* and their agreement rest on these facts.                                *)
(***************************************************************************)
EXTENDS WorkloadSelection, TLAPS

\* What listWorkloads finds are workloads of the namespace, and a workload is
\* found or not by itself: it does not depend on which others exist.
LEMMA ListWorkloadsFinds ==
  ASSUME NEW ws, NEW all, ws \subseteq all, NEW sel, NEW ns
  PROVE  /\ listWorkloads(ws, sel, ns).items \subseteq ws
         /\ listWorkloads(ws, sel, ns).items \subseteq listWorkloads(all, sel, ns).items
         /\ \A w \in listWorkloads(ws, sel, ns).items : w.ns = ns
  <1>1. CASE sel.name # ""
    BY <1>1 DEF listWorkloads, loadByName, Listed, ListFailed
  <1>2. CASE sel.name = ""
    BY <1>2 DEF listWorkloads, loadByLabelSelector, realWorkloadList, Listed, ListFailed
  <1>3. QED
    BY <1>1, <1>2

\* For a plain kind the webhook's comparison of kind strings is the
\* reconciler's comparison of kinds.
LEMMA PlainKind ==
  ASSUME NEW sel \in WorkloadSelectorSpec, NEW w, ~sel.kind.qualified
  PROVE  ObjectKind(w) = sel.kind <=> w.kind = ParseKindArg(sel.kind)
  <1>1. sel.kind \in [base : STRING, qualified : BOOLEAN]
    BY DEF WorkloadSelectorSpec
  <1>2. sel.kind = [base |-> sel.kind.base, qualified |-> FALSE]
    BY <1>1
  <1>3. ASSUME NEW b \in STRING
        PROVE  [base |-> w.kind, qualified |-> FALSE] = [base |-> b, qualified |-> FALSE]
                  <=> w.kind = b
    <2>1. [base |-> w.kind, qualified |-> FALSE].base = w.kind
      OBVIOUS
    <2>2. [base |-> b, qualified |-> FALSE].base = b
      OBVIOUS
    <2>3. QED
      BY <2>1, <2>2
  <1>4. sel.kind.base \in STRING
    BY <1>1
  <1>5. QED
    BY <1>2, <1>3, <1>4 DEF ObjectKind, ParseKindArg

\* For a selector with a plain kind and either a name or labels, the webhook
\* accepts what the reconciler lists.
LEMMA ListedMatches ==
  ASSUME NEW sel \in WorkloadSelectorSpec, NEW ws, NEW ns,
         ~sel.kind.qualified,
         sel.name = "" \/ (sel.valid /\ sel.labels = {})
  PROVE  \A w \in listWorkloads(ws, sel, ns).items : workloadMatches(w, sel, ns)
  <1>1. \A w \in ws : ObjectKind(w) = sel.kind <=> w.kind = ParseKindArg(sel.kind)
    BY PlainKind
  <1>2. CASE sel.name # ""
    BY <1>1, <1>2 DEF listWorkloads, loadByName, Listed, ListFailed, workloadMatches,
                      LabelsSelector
  <1>3. CASE sel.name = ""
    BY <1>1, <1>3 DEF listWorkloads, loadByLabelSelector, realWorkloadList, Listed,
                      ListFailed, workloadMatches, LabelsSelector
  <1>4. QED
    BY <1>2, <1>3

\* Among workloads of supported kinds it accepts no others.
LEMMA InterpretationsAgree ==
  ASSUME NEW sel \in WorkloadSelectorSpec, NEW ws, NEW ns,
         ~sel.kind.qualified,
         sel.name = "" \/ (sel.valid /\ sel.labels = {}),
         \A w \in ws : w.kind \in SupportedKinds
  PROVE  \A w \in ws :
             w \in listWorkloads(ws, sel, ns).items <=> workloadMatches(w, sel, ns)
  <1>1. \A w \in ws : ObjectKind(w) = sel.kind <=> w.kind = ParseKindArg(sel.kind)
    BY PlainKind
  <1>2. CASE sel.name # ""
    BY <1>1, <1>2 DEF listWorkloads, loadByName, Listed, ListFailed, WorkloadForKind,
                      workloadMatches, LabelsSelector
  <1>3. CASE sel.name = ""
    BY <1>1, <1>3 DEF listWorkloads, loadByLabelSelector, realWorkloadList, Listed,
                      ListFailed, WorkloadListForKind, workloadMatches, LabelsSelector
  <1>4. QED
    BY <1>2, <1>3

\* listWorkloads lists nothing of a kind that WorkloadForKind does not know.
LEMMA ListedIsKnown ==
  ASSUME NEW ws, NEW sel, NEW ns
  PROVE  \A w \in listWorkloads(ws, sel, ns).items : w.kind \in SupportedKinds
  BY DEF listWorkloads, loadByName, loadByLabelSelector, realWorkloadList, Listed, ListFailed,
         WorkloadForKind, WorkloadListForKind

=============================================================================
