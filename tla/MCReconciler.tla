--------------------------- MODULE MCReconciler ---------------------------
(***************************************************************************)
(* Small instances of Reconciler: one resource, one or two deployments, a  *)
(* selector by name, one by label, and one of a kind the operator does not *)
(* support.                                                                *)
(***************************************************************************)
EXTENDS ReconcilerRefinement

KeyA == [ns |-> "ns1", name |-> "a"]
OneKey == {KeyA}

ByName  == [kind |-> [base |-> "Deployment", qualified |-> FALSE],
            name |-> "d1", valid |-> TRUE, labels |-> {}]
ByLabel == [kind |-> [base |-> "Deployment", qualified |-> FALSE],
            name |-> "", valid |-> TRUE, labels |-> {"app=x"}]
Unsupported == [kind |-> [base |-> "Gateway", qualified |-> FALSE],
                name |-> "d1", valid |-> TRUE, labels |-> {}]

NameAndLabel == {ByName, ByLabel}
OnlyLabel == {ByLabel}
OnlyUnsupported == {Unsupported}
AnySelector == {ByName, ByLabel, Unsupported}

D1 == [kind |-> "Deployment", ns |-> "ns1", name |-> "d1", labels |-> {"app=x"}]
D2 == [kind |-> "Deployment", ns |-> "ns1", name |-> "d2", labels |-> {"app=x"}]
OneDeployment == {D2}
TwoDeployments == {D1, D2}

=============================================================================
