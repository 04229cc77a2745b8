---------------------------- MODULE MCOperator ----------------------------
(***************************************************************************)
(* One pod, owned through a kind the operator does not know by the         *)
(* Deployment d1, and one resource that selects d1 by name or others by    *)
(* label.                                                                  *)
(***************************************************************************)
EXTENDS Operator, TLC

OneKey == {[ns |-> "ns1", name |-> "a"]}

Plain(k) == [base |-> k, qualified |-> FALSE]
ByName  == [kind |-> Plain("Deployment"), name |-> "d1", valid |-> TRUE, labels |-> {}]
ByLabel == [kind |-> Plain("Deployment"), name |-> "", valid |-> TRUE, labels |-> {"app=x"}]
NameOrLabel == {ByName, ByLabel}
OnlyName == {ByName}

D1 == [kind |-> "Deployment", ns |-> "ns1", name |-> "d1", labels |-> {}]
Rollout == [kind |-> "Rollout", ns |-> "ns1", name |-> "r1", labels |-> {}]
ThePod == [kind |-> "Pod", ns |-> "ns1", name |-> "", labels |-> {"app=x"}]

Owned == {D1, Rollout}
OnePod == {ThePod}
Chain == (ThePod :> <<Rollout>>) @@ (Rollout :> <<D1>>) @@ (D1 :> <<>>)

=============================================================================
