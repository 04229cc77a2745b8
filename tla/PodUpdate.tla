----------------------------- MODULE PodUpdate -----------------------------
(***************************************************************************)
(* Updater.ConfigureWorkload: how the proxy containers of all matching     *)
(* AuthProxyWorkloads are added to the pod under admission.  One behaviour *)
(* is one call of ConfigureWorkload.                                       *)
(*                                                                         *)
(* The resources are passed in the order of a Go map iteration, so the     *)
(* model takes them in any order.  Ports are claimed one instance at a     *)
(* time against a shared table of ports in use; environment variables are  *)
(* collected in a second table and applied to every container at the end.  *)
(***************************************************************************)
EXTENDS Integers, Sequences, FiniteSets

CONSTANTS Proxies,        \* names of the matching AuthProxyWorkloads
          InstanceSpecs,  \* values of an entry of spec.instances
          MaxInstances,   \* bound on the entries of spec.instances
          AppPorts,       \* ports the application's container may declare
          AppEnvNames,    \* variables the application's container may set
          ContainerChoices,\* values of spec.authProxyContainer.container
          StaleChoices    \* whether proxies' containers may be there already

\* No name: of a resource, of a connection, of a variable.
None == ""

ASSUME MaxInstancesAssumption == MaxInstances \in Nat \ {0}
\* The webhook calls ConfigureWorkload only when a resource matches.
ASSUME ProxiesAssumption == Proxies # {} /\ None \notin Proxies
ASSUME AppPortsAssumption == AppPorts \subseteq Int /\ IsFiniteSet(AppPorts)
ASSUME AppEnvNamesAssumption == AppEnvNames \subseteq STRING

\* An entry of spec.instances.  hasPort says whether the pointer Port is set;
\* the CRD has no bounds for the number it points to.  "" is no variable.
InstanceSpec == [conn : STRING, hasPort : BOOLEAN, port : Int,
                 portEnvName : STRING, hostEnvName : STRING]

ASSUME InstanceSpecsAssumption == InstanceSpecs \subseteq InstanceSpec

\* spec.authProxyContainer: whether a container is given, its ports and its
\* variables.
AuthProxyContainerSpec == [given : BOOLEAN, ports : SUBSET Int, envNames : SUBSET STRING]

ASSUME ChoicesAssumption ==
    /\ ContainerChoices \subseteq AuthProxyContainerSpec
    /\ StaleChoices \subseteq BOOLEAN

VARIABLES spec,       \* spec[p]: [instances, container] of a matching resource
          podSpec,    \* the containers of the pod as submitted
          containers, \* update's containers; the result when err is empty
          ports,      \* mods.Ports: [proxy, conn, port], proxy "" is the pod's
          nextDBPort,
          envVars,    \* mods.EnvVars: a function from names to values
          errs,       \* err.details: [code, proxy], proxy the resource at fault
          todo,       \* matches not started yet
          current,    \* the match whose container is being built, "" if none
          index,      \* its next instance
          listeners,  \* --port arguments: [proxy, index, port]
          health,     \* health[p]: --http-port of p's container, 0 if none
          pc

vars == <<spec, podSpec, containers, ports, nextDBPort, envVars, errs, todo,
          current, index, listeners, health, pc>>

DefaultFirstPort == 5000
DefaultHealthCheckPort == 9801

\* Values of environment variables: "127.0.0.1", a printed port number, or
\* whatever the container had there before.
EnvValue == [kind : {"host", "port", "own"}, port : Int]
LocalHost == [kind |-> "host", port |-> 0]
PortValue(n) == [kind |-> "port", port |-> n]
AppValue == [kind |-> "own", port |-> 0]

\* An entry of mods.Ports, with the fields of its dbInstance.
managedPort == [proxy : Proxies \cup {None}, conn : STRING \cup {None}, port : Int]

ConfigErrorDetail == [code : {"PortConflict", "EnvVarConflict"}, proxy : Proxies]

\* The spec of a matching resource but for its selector; the CRD asks for at
\* least one instance.
AuthProxyWorkloadSpec ==
    [instances : UNION {[1..n -> InstanceSpecs] : n \in 1..MaxInstances},
     container : ContainerChoices]

\* Containers: [proxy, ports, env].  proxy is the resource whose ContainerName
\* the container has, "" for a container without the prefix csql-.
AppContainer(declared, names) ==
    [proxy |-> None, ports |-> declared, env |-> [n \in names |-> AppValue]]
IsProxyContainer(c) == c.proxy # None

\* The container updateContainer builds: a name, no ports of its own.  The
\* image, the resources and the flags do not interact and are left out.
NewContainer(p) == [proxy |-> p, ports |-> {}, env |-> <<>>]

\* The container a resource gives in full, under the name of the proxy.
GivenContainer(p, c) ==
    [proxy |-> p, ports |-> c.ports, env |-> [n \in c.envNames |-> AppValue]]

Init ==
    /\ spec \in [Proxies -> AuthProxyWorkloadSpec]
    /\ \E declared \in SUBSET AppPorts, names \in SUBSET AppEnvNames,
          stale \in StaleChoices :
          podSpec = IF stale
                    THEN <<AppContainer(declared, names),
                           NewContainer(CHOOSE p \in Proxies : TRUE)>>
                    ELSE <<AppContainer(declared, names)>>
    /\ containers = podSpec
    /\ ports = {}
    /\ nextDBPort = DefaultFirstPort
    /\ envVars = <<>>
    /\ errs = {}
    /\ todo = Proxies
    /\ current = None
    /\ index = 1
    /\ listeners = {}
    /\ health = [p \in Proxies |-> 0]
    /\ pc = "init"

-----------------------------------------------------------------------------
(***************************************************************************)
(* Ports                                                                   *)
(***************************************************************************)

\* Mutant: the ports of the application do not count.
isPortInUse_ProxiesOnly(p) == \E mp \in ports : mp.port = p /\ mp.proxy # None

isPortInUse(p) == \E mp \in ports : mp.port = p

\* The loop "for isPortInUse(p) { p++ }": the first free port from p on.
FirstFree(p) ==
    CHOOSE q \in p..(p + Cardinality(ports)) :
        ~isPortInUse(q) /\ \A r \in p..(q - 1) : isPortInUse(r)

\* addPort: a port that is already in the table keeps its entry.
addPort(table, p, proxy, conn) ==
    IF \E mp \in table : mp.port = p
    THEN table
    ELSE table \cup {[proxy |-> proxy, conn |-> conn, port |-> p]}

\* The managedPort of this resource and connection string, if there is one.
managedPorts(proxy, conn) == {mp \in ports : mp.proxy = proxy /\ mp.conn = conn}

\* useInstancePort: the port, the new table and counter, and whether a
\* PortConflict is reported.
useInstancePort(proxy, is) ==
    IF managedPorts(proxy, is.conn) # {}
    THEN LET mp == CHOOSE m \in managedPorts(proxy, is.conn) : TRUE
             port == IF is.hasPort THEN is.port ELSE mp.port
         IN [port |-> port,
             table |-> (ports \ {mp}) \cup {[mp EXCEPT !.port = port]},
             next |-> nextDBPort,
             conflict |-> port # mp.port /\ isPortInUse(port)]
    ELSE LET next == IF is.hasPort THEN nextDBPort ELSE FirstFree(nextDBPort)
             port == IF is.hasPort THEN is.port ELSE next
         IN [port |-> port,
             table |-> addPort(ports, port, proxy, is.conn),
             next |-> next,
             conflict |-> isPortInUse(port)]

\* What addError adds to err.details when something is wrong.
addError(wrong, code, proxy) ==
    IF wrong THEN {[code |-> code, proxy |-> proxy]} ELSE {}

\* addHealthCheck: the port is looked up and not entered into the table.
healthCheckPort == FirstFree(DefaultHealthCheckPort)

-----------------------------------------------------------------------------
(***************************************************************************)
(* Environment variables                                                   *)
(***************************************************************************)

\* The function f, with the values of g where g has one.
Overlay(g, f) == [n \in DOMAIN g \cup DOMAIN f |-> IF n \in DOMAIN g THEN g[n] ELSE f[n]]

\* Mutant: a value is replaced without an error.
addWorkloadEnvVar_Silent(st, name, value) ==
    [vars |-> Overlay([n \in {name} |-> value], st.vars), conflict |-> st.conflict]

\* addWorkloadEnvVar: the last value wins; replacing a different one is a
\* conflict.
addWorkloadEnvVar(st, name, value) ==
    [vars |-> Overlay([n \in {name} |-> value], st.vars),
     conflict |-> \/ st.conflict
                  \/ name \in DOMAIN st.vars /\ st.vars[name] # value]

\* Mutant: a variable is added even when the instance names none.
addNamedEnvVar_Unguarded(st, name, value) == addWorkloadEnvVar(st, name, value)

\* A variable of an instance, when the instance names one.
addNamedEnvVar(st, name, value) ==
    IF name # None THEN addWorkloadEnvVar(st, name, value) ELSE st

\* The variables of one instance, in the order of the code.
addEnvVars(is, port) ==
    LET start == [vars |-> envVars, conflict |-> FALSE]
    IN addNamedEnvVar(addNamedEnvVar(start, is.hostEnvName, LocalHost),
                      is.portEnvName, PortValue(port))

\* Mutant: a variable the container already has is kept.
updateContainerEnv_KeepsOwn(c) == [c EXCEPT !.env = Overlay(c.env, envVars)]

\* updateContainerEnv: managed variables replace or extend a container's own.
updateContainerEnv(c) == [c EXCEPT !.env = Overlay(envVars, c.env)]

-----------------------------------------------------------------------------
(***************************************************************************)
(* update                                                                  *)
(***************************************************************************)

\* The ports of the containers that are not the operator's.
podPorts == UNION {podSpec[i].ports : i \in {j \in DOMAIN podSpec :
                                                ~IsProxyContainer(podSpec[j])}}

\* They are in use before any proxy gets one.
addInUsePorts ==
    /\ pc = "init"
    /\ ports' = {[proxy |-> None, conn |-> None, port |-> p] : p \in podPorts}
    /\ pc' = "proxies"
    /\ UNCHANGED <<spec, podSpec, containers, nextDBPort, envVars, errs, todo,
                   current, index, listeners, health>>

\* updateContainer for the next match.  A container given in full by the
\* resource is used as it is and its ports are not entered; otherwise the health
\* check port is chosen first.
updateContainer(p) ==
    /\ pc = "proxies"
    /\ current = None
    /\ p \in todo
    /\ todo' = todo \ {p}
    /\ \/ /\ spec[p].container.given
          /\ containers' = Append(containers, GivenContainer(p, spec[p].container))
          /\ UNCHANGED <<current, index, health>>
       \/ /\ ~spec[p].container.given
          /\ containers' = Append(containers, NewContainer(p))
          /\ current' = p
          /\ index' = 1
          /\ health' = [health EXCEPT ![p] = healthCheckPort]
    /\ UNCHANGED <<spec, podSpec, ports, nextDBPort, envVars, errs, listeners, pc>>

\* The body of updateContainer's loop over the instances.
addInstance ==
    /\ pc = "proxies"
    /\ current # None
    /\ LET is == spec[current].instances[index]
           use == useInstancePort(current, is)
           env == addEnvVars(is, use.port)
       IN /\ ports' = use.table
          /\ nextDBPort' = use.next
          /\ envVars' = env.vars
          /\ errs' = errs \cup addError(use.conflict, "PortConflict", current)
                          \cup addError(env.conflict, "EnvVarConflict", current)
          /\ listeners' = listeners \cup
                 {[proxy |-> current, index |-> index, port |-> use.port]}
    /\ IF index < Len(spec[current].instances)
       THEN index' = index + 1 /\ UNCHANGED current
       ELSE index' = 1 /\ current' = None
    /\ UNCHANGED <<spec, podSpec, containers, todo, health, pc>>

\* The environment of all containers, then the result: the new pod spec, or
\* the errors and the pod as it was.
finish ==
    /\ pc = "proxies"
    /\ current = None
    /\ todo = {}
    /\ pc' = IF errs = {} THEN "ok" ELSE "failed"
    /\ containers' = IF errs = {}
                     THEN [i \in DOMAIN containers |-> updateContainerEnv(containers[i])]
                     ELSE podSpec
    /\ UNCHANGED <<spec, podSpec, ports, nextDBPort, envVars, errs, todo, current,
                   index, listeners, health>>

\* The call has returned.
Returned == pc \in {"ok", "failed"} /\ UNCHANGED vars

Next == \/ addInUsePorts
        \/ \E p \in Proxies : updateContainer(p)
        \/ addInstance
        \/ finish
        \/ Returned

Spec == Init /\ [][Next]_vars

-----------------------------------------------------------------------------
(***************************************************************************)
(* Properties                                                              *)
(***************************************************************************)

\* Every table, counter and argument has its type; connection strings and
\* names are strings, and no variable without a name is in the table.
TypeOK ==
    /\ ports \subseteq managedPort
    /\ nextDBPort \in Nat
    /\ \A n \in DOMAIN envVars : n # None /\ envVars[n] \in EnvValue
    /\ errs \subseteq ConfigErrorDetail
    /\ todo \subseteq Proxies
    /\ current \in Proxies \cup {None}
    /\ current # None => index \in 1..Len(spec[current].instances)
    /\ \A l \in listeners : l.proxy \in Proxies /\ l.port \in Int
    /\ health \in [Proxies -> Nat]
    /\ pc \in {"init", "proxies", "ok", "failed"}

Returns == pc \in {"ok", "failed"}

\* The instance behind a listener.
InstanceOf(l) == spec[l.proxy].instances[l.index]

\* Another instance of the same resource has the connection string of l's.
Repeated(l) == \E j \in DOMAIN spec[l.proxy].instances \ {l.index} :
                   spec[l.proxy].instances[j].conn = InstanceOf(l).conn

\* The resources that errors of this kind name.
Blamed(code) == {d.proxy : d \in {e \in errs : e.code = code}}

\* l has the port of the application's containers, or of another listener: the
\* ports that the operator keeps a table of.
RecordedClash(l) ==
    \/ l.port \in podPorts
    \/ \E m \in listeners \ {l} : m.port = l.port

\* ConfigureWorkload reports a PortConflict whenever a listener has a port of
\* the application, and whenever two listeners have one port, in whatever order
\* the resources are taken; and it blames only resources with such a listener.
\* An instance that repeats a connection string of its resource shares or moves
\* the table entry of the first, so a clash of two listeners is only sure to be
\* seen when neither connection is repeated (ChosenPortKept is about the rest).
\* The ports of containers given in full and of health checks are never in the
\* table (ExplicitPortChecked).
PortConflictExact ==
    Returns =>
        /\ (\E l \in listeners : l.port \in podPorts) => Blamed("PortConflict") # {}
        /\ (\E l, m \in listeners :
               l # m /\ l.port = m.port /\ ~Repeated(l) /\ ~Repeated(m))
              => Blamed("PortConflict") # {}
        /\ \A p \in Blamed("PortConflict") :
              \E l \in listeners : l.proxy = p /\ RecordedClash(l)

\* The environment variables asked for by an instance with its port.
EnvOf(l) ==
    {e \in {[name |-> InstanceOf(l).hostEnvName, value |-> LocalHost],
            [name |-> InstanceOf(l).portEnvName, value |-> PortValue(l.port)]} : e.name # None}

\* Another request wants a different value in a variable l asks for.
EnvClash(l) ==
    \E m \in listeners : \E e \in EnvOf(l), f \in EnvOf(m) :
        e.name = f.name /\ e.value # f.value

\* An EnvVarConflict is reported exactly when two requests for one name differ
\* in value, although each request is only compared with the last one before,
\* and it blames only resources that take part in such a conflict.
EnvConflictExact ==
    Returns =>
        /\ (\E l \in listeners : EnvClash(l)) => Blamed("EnvVarConflict") # {}
        /\ \A p \in Blamed("EnvVarConflict") :
              \E l \in listeners : l.proxy = p /\ EnvClash(l)

\* The instances of a listener ask for this variable.
Requested(n) == \E l \in listeners : \E e \in EnvOf(l) : e.name = n

\* After a success every instance of every resource whose container the
\* operator builds has one listener, and every container of the pod, proxies
\* and containers given in full included, finds that listener's address in the
\* variables the instance names.  Other variables keep their values.
EnvMatchesListeners ==
    pc = "ok" =>
        /\ \A p \in Proxies : ~spec[p].container.given =>
              \A j \in DOMAIN spec[p].instances : \E l \in listeners :
                  /\ {m \in listeners : m.proxy = p /\ m.index = j} = {l}
                  /\ \A i \in DOMAIN containers : \A e \in EnvOf(l) :
                        containers[i].env[e.name] = e.value
        /\ \A i \in DOMAIN containers, n \in AppEnvNames :
              n \in DOMAIN containers[i].env /\ ~Requested(n)
                  => containers[i].env[n] = AppValue
        /\ \A i \in DOMAIN podSpec :
              DOMAIN podSpec[i].env \subseteq DOMAIN containers[i].env

-----------------------------------------------------------------------------
(***************************************************************************)
(* What the repository's documentation says and ConfigureWorkload does not *)
(* keep.                                                                   *)
(***************************************************************************)

\* A listener's port is declared by the container that p gives in full.
GivenPort(p, n) == spec[p].container.given /\ n \in spec[p].container.ports

\* It is the health check port of the container built for p.
HealthPort(p, n) == ~spec[p].container.given /\ health[p] = n

\* The documentation of ErrorCodePortConflict: an explicit port that is in
\* conflict with a port of another proxy container is an error.  The ports that
\* a container given in full declares are such ports, and so are those of the
\* health checks; updateContainer and addHealthCheck enter neither into the
\* table.
ExplicitPortChecked ==
    pc = "ok" => \A l \in listeners, p \in Proxies :
        InstanceOf(l).hasPort => ~GivenPort(p, l.port) /\ ~HealthPort(p, l.port)

\* l and m are for different databases: only instances of one resource with one
\* connection string are meant to have one port.
Different(l, m) == l.proxy # m.proxy \/ InstanceOf(l).conn # InstanceOf(m).conn

\* l has a port that somebody else in the pod's network namespace has: the
\* application, a listener or the health check of a proxy, or a container given
\* in full.
Clash(l) ==
    \/ l.port \in podPorts
    \/ \E m \in listeners : Different(l, m) /\ m.port = l.port
    \/ \E p \in Proxies : GivenPort(p, l.port) \/ HealthPort(p, l.port)

\* The documentation of InstanceSpec.Port: the operator chooses a port that
\* does not conflict with other ports on the workload.  The resource that asks
\* for the chosen port may come later in the order of the map; and when a
\* resource repeats a connection string with an explicit port, useInstancePort
\* moves the entry, so that the port chosen before is free for others although
\* its listener stays.
ChosenPortKept ==
    Returns => \A l \in listeners : ~InstanceOf(l).hasPort => ~Clash(l)

=============================================================================
