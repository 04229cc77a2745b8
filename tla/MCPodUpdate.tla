--------------------------- MODULE MCPodUpdate ---------------------------
(***************************************************************************)
(* Small instances of PodUpdate: two resources with up to two instances    *)
(* each.  The explicit ports are the first two the operator would choose,  *)
(* 0 (a pointer to zero, which is a port like any other), and, for the     *)
(* runs about ports alone, the default health check port.                  *)
(***************************************************************************)
EXTENDS PodUpdate

TwoProxies == {"a", "b"}
NoEnv == {}
NotGiven == [given |-> FALSE, ports |-> {}, envNames |-> {}]
Built == {NotGiven}
BuiltOrGiven == {NotGiven, [given |-> TRUE, ports |-> {5000}, envNames |-> {"E1"}]}

\* An instance with the port n, and one without.
Explicit(conn, n, portEnv, hostEnv) ==
    [conn |-> conn, hasPort |-> TRUE, port |-> n, portEnvName |-> portEnv,
     hostEnvName |-> hostEnv]
Chosen(conn, portEnv, hostEnv) ==
    [Explicit(conn, 0, portEnv, hostEnv) EXCEPT !.hasPort = FALSE]

\* Instances that differ in what matters for ports.
PortSpecs == UNION {{Chosen(c, "", "")} \cup {Explicit(c, n, "", "") : n \in {5000, 5001, 9801}}
                    : c \in {"c1", "c2"}}
PodPorts == {5000, 9801}

EnvNames == {"E1"}

\* Instances that differ in both: explicit and chosen ports, with and without
\* variables of one name for ports and hosts.
MixedSpecs == UNION {{Chosen(c, "", ""), Explicit(c, 5000, "", ""),
                      Chosen(c, "E1", ""), Explicit(c, 5001, "E1", "E2")} : c \in {"c1", "c2"}}
              \cup {Chosen("c1", "E2", "E1"), Explicit("c2", 0, "E1", "")}
OnePort == {5000}

=============================================================================
