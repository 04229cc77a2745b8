---------------------- MODULE SelectionAgreementProofs ----------------------
(***************************************************************************)
(* The agreement of reconciler and webhook, for any namespace, selectors   *)
(* and workloads.                                                          *)
(***************************************************************************)
EXTENDS SelectionAgreement, SelectionProofs

\* The selector is one of those users may write, the workloads exist.
TypeOK == selector \in Selectors /\ existing \subseteq Workloads

\* The workloads listWorkloads reports for a resource are exactly the ones
\* whose pods workloadMatches makes the webhook configure, whatever selectors
\* are edited and workloads come and go, unsupported kinds and selectors that
\* do not parse included.
THEOREM ReportedAreConfigured == Spec => []SelectionAgrees
  <1>1. Init => TypeOK
    BY DEF Init, TypeOK
  <1>2. TypeOK /\ [Next]_vars => TypeOK'
    BY DEF TypeOK, Next, EditSelector, ToggleWorkload, vars
  <1>3. TypeOK => SelectionAgrees
    <2> SUFFICES ASSUME TypeOK, NameOrSelector, ~selector.kind.qualified
                 PROVE  Reported = Configured
      BY DEF SelectionAgrees
    <2>1. selector \in WorkloadSelectorSpec
      BY SelectorSpecAssumption DEF TypeOK
    <2>2. \A w \in existing : w.kind \in SupportedKinds
      BY WorkloadKindsAssumption DEF TypeOK
    <2>3. selector.name = "" \/ (selector.valid /\ selector.labels = {})
      BY DEF NameOrSelector
    <2>4. \A w \in existing : w \in Reported <=> workloadMatches(w, selector, Ns)
      BY <2>1, <2>2, <2>3, InterpretationsAgree DEF Reported
    <2>5. Reported \subseteq existing
      BY ListWorkloadsFinds DEF Reported
    <2>6. QED
      BY <2>4, <2>5 DEF Configured
  <1>4. QED
    BY <1>1, <1>2, <1>3, PTL DEF Spec

=============================================================================
