----------------------- MODULE MCSelectionAgreement -----------------------
(***************************************************************************)
(* Kinds: one that is selected, another supported one and an unsupported   *)
(* one; two namespaces; workloads that differ from D in a field or two.    *)
(***************************************************************************)
EXTENDS SelectionAgreement

D == [kind |-> "Deployment", ns |-> "ns1", name |-> "d1", labels |-> {"app=x"}]
SomeWorkloads == {D, [D EXCEPT !.ns = "ns2"], [D EXCEPT !.name = "d2"],
                  [D EXCEPT !.kind = "Job"], [D EXCEPT !.name = "d3", !.labels = {}],
                  [D EXCEPT !.name = "d2", !.labels = {"tier=y", "app=x"}]}

SomeSelectors ==
    [kind : [base : {"Deployment", "Job", "Gateway"}, qualified : BOOLEAN],
     name : {"", "d1", "d3"}, valid : BOOLEAN,
     labels : SUBSET {"app=x", "tier=y"}]

=============================================================================
