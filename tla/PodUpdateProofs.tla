-------------------------- MODULE PodUpdateProofs --------------------------
(***************************************************************************)
(* Proofs about ConfigureWorkload: conflicts of ports and of environment   *)
(* variables are reported exactly, and every container finds every         *)
(* listener, for any set of resources, taken in any order, with any number *)
(* of instances.                                                           *)
(***************************************************************************)
EXTENDS PodUpdate, TLAPS, FiniteSetTheorems, FunctionTheorems, SequenceTheorems,
        WellFoundedInduction

-----------------------------------------------------------------------------
(***************************************************************************)
(* The inductive invariant                                                 *)
(***************************************************************************)

\* Environments of containers before the managed variables are applied.
OwnEnvs == UNION {[names -> {AppValue}] : names \in SUBSET STRING}

Containers == [proxy : Proxies \cup {None}, ports : SUBSET Int, env : OwnEnvs]

Listeners == [proxy : Proxies, index : Nat, port : Int]

\* The inputs of the call, and the types.
InputsOK ==
    /\ spec \in [Proxies -> AuthProxyWorkloadSpec]
    /\ podSpec \in Seq(Containers)
    /\ \A i \in DOMAIN podSpec : ~IsProxyContainer(podSpec[i]) => podSpec[i].ports \subseteq AppPorts

TypeInv ==
    /\ TypeOK
    /\ InputsOK
    /\ IsFiniteSet(ports)
    /\ nextDBPort >= DefaultFirstPort
    /\ index \in Nat
    /\ listeners \subseteq Listeners

\* Every instance that was done has one listener, the others have none.
ListenersInv ==
    /\ current \notin todo
    /\ pc = "init" => listeners = {}
    /\ \A l \in listeners : /\ l.proxy \notin todo
                            /\ l.index \in DOMAIN spec[l.proxy].instances
                            /\ l.proxy = current => l.index < index
    /\ \A l, m \in listeners : l.proxy = m.proxy /\ l.index = m.index => l = m
    /\ \A p \in Proxies \ todo : ~spec[p].container.given =>
          \A j \in DOMAIN spec[p].instances : (p = current => j < index) =>
             \E l \in listeners : l.proxy = p /\ l.index = j

\* The table of variables has a value some listener asks for; as long as no
\* conflict is reported it is the one all of them ask for.
EnvInv ==
    /\ \A n \in DOMAIN envVars :
          \E l \in listeners : \E e \in EnvOf(l) : e.name = n /\ e.value = envVars[n]
    /\ \A l \in listeners : \A e \in EnvOf(l) : e.name \in DOMAIN envVars
    /\ Blamed("EnvVarConflict") = {} =>
          \A l \in listeners : \A e \in EnvOf(l) : envVars[e.name] = e.value
    /\ \A p \in Blamed("EnvVarConflict") : \E l \in listeners : l.proxy = p /\ EnvClash(l)

\* An entry of a resource belongs to a listener of that resource, the others
\* to the application.
EntriesAreKnown ==
    \A mp \in ports :
        \/ mp.proxy = None /\ mp.port \in podPorts
        \/ \E l \in listeners :
              l.proxy = mp.proxy /\ InstanceOf(l).conn = mp.conn /\ l.port = mp.port

\* The entries of the application stay.
PodPortsAreTaken == \A n \in podPorts : \E mp \in ports : mp.proxy = None /\ mp.port = n

\* Without an error so far, so do those of connections that are not repeated.
ListenersAreTaken ==
    Blamed("PortConflict") = {} =>
        \A l \in listeners : ~Repeated(l) =>
            \E mp \in ports :
                mp.proxy = l.proxy /\ mp.conn = InstanceOf(l).conn /\ mp.port = l.port

\* PortConflictExact, before the call has returned too.
ClashesAreBlamed ==
    Blamed("PortConflict") = {} =>
        /\ \A l \in listeners : l.port \notin podPorts
        /\ \A l, m \in listeners : l.port = m.port /\ ~Repeated(l) /\ ~Repeated(m) => l = m

BlamedClash ==
    \A p \in Blamed("PortConflict") : \E l \in listeners : l.proxy = p /\ RecordedClash(l)

PortInv ==
    /\ pc # "init" => PodPortsAreTaken
    /\ EntriesAreKnown
    /\ ListenersAreTaken
    /\ ClashesAreBlamed
    /\ BlamedClash

\* The pod's own containers come first, the proxies follow.
ContainersInv ==
    pc \in {"init", "proxies"} =>
        /\ containers \in Seq(Containers)
        /\ Len(podSpec) <= Len(containers)
        /\ \A i \in DOMAIN podSpec : containers[i] = podSpec[i]

UpdateInv ==
    TypeInv /\ ListenersInv /\ EnvInv /\ PortInv /\ ContainersInv /\ EnvMatchesListeners

-----------------------------------------------------------------------------
(***************************************************************************)
(* Ports                                                                   *)
(***************************************************************************)

\* A set of naturals that is not empty has a least element.
LEMMA LeastNatural ==
  ASSUME NEW S, S \subseteq Nat, S # {}
  PROVE  \E n \in S : \A m \in S : n <= m
  <1>1. PICK n \in S : \A m \in S : ~(<<m, n>> \in OpToRel(<, Nat))
    BY WFMin, NatLessThanWellFounded
  <1>2. \A m \in S : ~(m < n)
    BY <1>1 DEF OpToRel
  <1>3. QED
    BY <1>2

\* The table has fewer ports than the interval that is searched.
LEMMA SomePortIsFree ==
  ASSUME IsFiniteSet(ports), NEW p \in Nat
  PROVE  \E q \in p..(p + Cardinality(ports)) : ~isPortInUse(q)
  <1> DEFINE I == p..(p + Cardinality(ports))
             T == {mp.port : mp \in ports}
             f == [mp \in ports |-> mp.port]
  <1>1. f \in Surjection(ports, T)
    BY DEF Surjection
  <1>2. IsFiniteSet(T) /\ Cardinality(T) <= Cardinality(ports)
    BY <1>1, FS_Surjection
  <1>3. Cardinality(ports) \in Nat /\ Cardinality(T) \in Nat
    BY <1>2, FS_CardinalityType
  <1>4. Cardinality(I) = Cardinality(ports) + 1
    BY <1>3, FS_Interval
  <1>5. ~(I \subseteq T)
    <2>1. I \subseteq T => Cardinality(I) <= Cardinality(T)
      BY <1>2, FS_Subset
    <2>2. QED
      BY <1>2, <1>3, <1>4, <2>1
  <1>6. QED
    BY <1>5 DEF isPortInUse

\* What the loop "for isPortInUse(p) { p++ }" ends with.
LEMMA FirstFreeIsFree ==
  ASSUME IsFiniteSet(ports), NEW p \in Nat
  PROVE  FirstFree(p) \in Nat /\ FirstFree(p) >= p /\ ~isPortInUse(FirstFree(p))
  <1> DEFINE I == p..(p + Cardinality(ports))
             S == {q \in I : ~isPortInUse(q)}
  <1>1. Cardinality(ports) \in Nat
    BY FS_CardinalityType
  <1>2. S # {} /\ S \subseteq Nat
    BY <1>1, SomePortIsFree
  <1>3. PICK n \in S : \A m \in S : n <= m
    BY <1>2, LeastNatural
  <1>4. ASSUME NEW r \in p..(n - 1)
        PROVE  isPortInUse(r)
    <2>1. r \in I /\ ~(n <= r)
      BY <1>1, <1>3
    <2>2. QED
      BY <1>3, <2>1
  <1>5. \E q \in I : ~isPortInUse(q) /\ \A r \in p..(q - 1) : isPortInUse(r)
    BY <1>3, <1>4
  <1>6. FirstFree(p) \in I /\ ~isPortInUse(FirstFree(p))
    BY <1>5 DEF FirstFree
  <1>7. QED
    BY <1>1, <1>6

-----------------------------------------------------------------------------
(***************************************************************************)
(* Environment variables                                                   *)
(***************************************************************************)

LEMMA OverlayFacts ==
  ASSUME NEW g, NEW f
  PROVE  /\ DOMAIN Overlay(g, f) = DOMAIN g \cup DOMAIN f
         /\ \A n \in DOMAIN g : Overlay(g, f)[n] = g[n]
         /\ \A n \in DOMAIN f : n \notin DOMAIN g => Overlay(g, f)[n] = f[n]
  BY DEF Overlay

\* One variable: the table r gets it, and there is a conflict when the table st
\* had another value.
EnvVarAdded(r, st, name, value) ==
    /\ DOMAIN r.vars = DOMAIN st.vars \cup {n \in {name} : n # None}
    /\ name # None => r.vars[name] = value
    /\ \A n \in DOMAIN st.vars : n # name \/ name = None => r.vars[n] = st.vars[n]
    /\ r.conflict \in BOOLEAN
    /\ r.conflict <=> \/ st.conflict
                      \/ name # None /\ name \in DOMAIN st.vars /\ st.vars[name] # value

LEMMA NamedEnvVar ==
  ASSUME NEW st, st.conflict \in BOOLEAN, NEW name, NEW value
  PROVE  EnvVarAdded(addNamedEnvVar(st, name, value), st, name, value)
  <1> DEFINE one == [n \in {name} |-> value]
             r == addNamedEnvVar(st, name, value)
  <1>1. DOMAIN one = {name} /\ one[name] = value
    OBVIOUS
  <1>2. CASE name # None
    <2>1. /\ r.vars = Overlay(one, st.vars)
          /\ r.conflict = (\/ st.conflict
                           \/ name \in DOMAIN st.vars /\ st.vars[name] # value)
      BY <1>2 DEF addNamedEnvVar, addWorkloadEnvVar
    <2>2. /\ DOMAIN Overlay(one, st.vars) = {name} \cup DOMAIN st.vars
          /\ Overlay(one, st.vars)[name] = value
          /\ \A n \in DOMAIN st.vars : n # name => Overlay(one, st.vars)[n] = st.vars[n]
      BY <1>1 DEF Overlay
    <2> HIDE DEF one, r
    <2>3. QED
      BY <1>2, <2>1, <2>2 DEF r, EnvVarAdded
  <1>3. CASE name = None
    BY <1>3 DEF addNamedEnvVar, EnvVarAdded
  <1>4. QED
    BY <1>2, <1>3

-----------------------------------------------------------------------------
(***************************************************************************)
(* Types                                                                   *)
(***************************************************************************)

\* The spec of a matching resource.
LEMMA SpecFacts ==
  ASSUME InputsOK, NEW p \in Proxies
  PROVE  /\ spec[p].instances \in Seq(InstanceSpecs)
         /\ Len(spec[p].instances) \in Nat \ {0}
         /\ DOMAIN spec[p].instances = 1..Len(spec[p].instances)
         /\ \A j \in DOMAIN spec[p].instances : spec[p].instances[j] \in InstanceSpec
         /\ spec[p].container \in AuthProxyContainerSpec
         /\ spec[p].container.given \in BOOLEAN
  <1> DEFINE is == spec[p].instances
  <1>1. spec[p] \in AuthProxyWorkloadSpec
    BY DEF InputsOK
  <1>2. PICK n \in 1..MaxInstances : is \in [1..n -> InstanceSpecs]
    BY <1>1 DEF AuthProxyWorkloadSpec
  <1>3. n \in Nat \ {0}
    BY <1>2, MaxInstancesAssumption
  <1>4. is \in Seq(InstanceSpecs)
    BY <1>2, <1>3, SeqDef
  <1>5. Len(is) = n /\ DOMAIN is = 1..n
    BY <1>2, <1>3, <1>4, LenProperties
  <1>6. \A j \in DOMAIN is : is[j] \in InstanceSpec
    BY <1>2, <1>5, InstanceSpecsAssumption
  <1>7. spec[p].container \in AuthProxyContainerSpec
    BY <1>1, ChoicesAssumption DEF AuthProxyWorkloadSpec
  <1>8. spec[p].container.given \in BOOLEAN
    BY <1>7 DEF AuthProxyContainerSpec
  <1>9. QED
    BY <1>3, <1>4, <1>5, <1>6, <1>7, <1>8

\* What useInstancePort returns.  Entries of other resources and of other
\* connections stay.  A conflict is a port in use, and a port in use is a
\* conflict unless this connection has it already.
LEMMA useInstancePortFacts ==
  ASSUME TypeInv, NEW p \in Proxies, NEW is \in InstanceSpec
  PROVE  LET use == useInstancePort(p, is) IN
         /\ use.port \in Int
         /\ use.table \subseteq managedPort /\ IsFiniteSet(use.table)
         /\ use.next \in Nat /\ use.next >= DefaultFirstPort
         /\ use.conflict \in BOOLEAN
         /\ \A mp \in use.table :
               mp \in ports \/ (mp.proxy = p /\ mp.conn = is.conn /\ mp.port = use.port)
         /\ \A mp \in ports : mp.proxy # p \/ mp.conn # is.conn => mp \in use.table
         /\ use.conflict => isPortInUse(use.port)
         /\ ~use.conflict =>
               \E mp \in use.table : mp.proxy = p /\ mp.conn = is.conn /\ mp.port = use.port
         /\ ~use.conflict /\ isPortInUse(use.port) =>
               \E mp \in ports : mp.proxy = p /\ mp.conn = is.conn /\ mp.port = use.port
  <1> DEFINE use == useInstancePort(p, is)
  <1>1. /\ ports \subseteq managedPort /\ IsFiniteSet(ports)
        /\ nextDBPort \in Nat /\ nextDBPort >= DefaultFirstPort
    BY DEF TypeInv, TypeOK
  <1>2. is.port \in Int /\ is.conn \in STRING /\ is.hasPort \in BOOLEAN
    BY DEF InstanceSpec
  <1>3. CASE managedPorts(p, is.conn) # {}
    <2> DEFINE mp == CHOOSE m \in managedPorts(p, is.conn) : TRUE
               port == IF is.hasPort THEN is.port ELSE mp.port
               moved == [mp EXCEPT !.port = port]
    <2>1. mp \in ports /\ mp \in managedPort /\ mp.proxy = p /\ mp.conn = is.conn
      BY <1>1, <1>3 DEF managedPorts
    <2> HIDE DEF mp
    <2>2. /\ port \in Int /\ moved \in managedPort
          /\ moved.proxy = p /\ moved.conn = is.conn /\ moved.port = port
      BY <1>2, <2>1 DEF managedPort
    <2>3. /\ use.port = port /\ use.table = (ports \ {mp}) \cup {moved}
          /\ use.next = nextDBPort
          /\ use.conflict = (port # mp.port /\ isPortInUse(port))
      BY <1>3 DEF useInstancePort, mp
    <2>4. IsFiniteSet(ports \ {mp})
      BY <1>1, FS_RemoveElement
    <2>5. IsFiniteSet((ports \ {mp}) \cup {moved})
      BY <2>4, FS_AddElement
    <2> HIDE DEF port, moved, use
    <2>6. use.table \subseteq managedPort /\ IsFiniteSet(use.table) /\ use.conflict \in BOOLEAN
      BY <1>1, <2>2, <2>3, <2>5 DEF isPortInUse
    <2>7. QED
      BY <1>1, <2>1, <2>2, <2>3, <2>6 DEF use
  <1>4. CASE managedPorts(p, is.conn) = {}
    <2> DEFINE next == IF is.hasPort THEN nextDBPort ELSE FirstFree(nextDBPort)
               port == IF is.hasPort THEN is.port ELSE next
               new == [proxy |-> p, conn |-> is.conn, port |-> port]
    <2>1. /\ use.port = port /\ use.table = addPort(ports, port, p, is.conn)
          /\ use.next = next /\ use.conflict = isPortInUse(port)
      BY <1>4 DEF useInstancePort
    <2>2. FirstFree(nextDBPort) \in Nat /\ FirstFree(nextDBPort) >= nextDBPort
      BY <1>1, FirstFreeIsFree
    <2>3. next \in Nat /\ next >= DefaultFirstPort /\ port \in Int
      BY <1>1, <1>2, <2>2 DEF DefaultFirstPort
    <2> HIDE DEF next, port
    <2>4. new \in managedPort /\ new.proxy = p /\ new.conn = is.conn /\ new.port = port
      BY <1>2, <2>3 DEF managedPort
    <2>5. addPort(ports, port, p, is.conn) = IF isPortInUse(port) THEN ports
                                             ELSE ports \cup {new}
      BY DEF addPort, isPortInUse
    <2>6. IsFiniteSet(ports \cup {new})
      BY <1>1, FS_AddElement
    <2> HIDE DEF new, use
    <2>7. use.table \subseteq managedPort /\ IsFiniteSet(use.table) /\ use.conflict \in BOOLEAN
      BY <1>1, <2>1, <2>4, <2>5, <2>6 DEF isPortInUse
    <2>8. QED
      BY <2>1, <2>3, <2>4, <2>5, <2>7 DEF use
  <1>5. QED
    BY <1>3, <1>4

-----------------------------------------------------------------------------
(***************************************************************************)
(* The instance that addInstance adds                                      *)
(***************************************************************************)

NextInstance == spec[current].instances[index]
NextUse == useInstancePort(current, NextInstance)
NextEnv == addEnvVars(NextInstance, NextUse.port)
NextListener == [proxy |-> current, index |-> index, port |-> NextUse.port]

\* The variables of a listener.
LEMMA EnvOfFacts ==
  ASSUME NEW l
  PROVE  LET is == InstanceOf(l) IN
         /\ \A e \in EnvOf(l) : \/ is.hostEnvName # None /\ e.name = is.hostEnvName
                                   /\ e.value = LocalHost
                                \/ is.portEnvName # None /\ e.name = is.portEnvName
                                   /\ e.value = PortValue(l.port)
         /\ is.hostEnvName # None =>
               \E e \in EnvOf(l) : e.name = is.hostEnvName /\ e.value = LocalHost
         /\ is.portEnvName # None =>
               \E e \in EnvOf(l) : e.name = is.portEnvName /\ e.value = PortValue(l.port)
  <1> DEFINE a == [name |-> InstanceOf(l).hostEnvName, value |-> LocalHost]
             b == [name |-> InstanceOf(l).portEnvName, value |-> PortValue(l.port)]
  <1>1. EnvOf(l) = {e \in {a, b} : e.name # None}
    BY DEF EnvOf
  <1>2. /\ a.name = InstanceOf(l).hostEnvName /\ a.value = LocalHost
        /\ b.name = InstanceOf(l).portEnvName /\ b.value = PortValue(l.port)
    OBVIOUS
  <1> HIDE DEF a, b
  <1>3. QED
    BY <1>1, <1>2

\* What addInstance does.
LEMMA addInstanceFacts ==
  ASSUME TypeInv, addInstance
  PROVE  /\ current \in Proxies /\ pc = "proxies" /\ pc' = "proxies"
         /\ index \in DOMAIN spec[current].instances
         /\ index \in 1..Len(spec[current].instances)
         /\ NextInstance \in InstanceSpec
         /\ NextListener \in Listeners /\ NextListener.proxy = current
         /\ NextListener.index = index /\ NextListener.port = NextUse.port
         /\ InstanceOf(NextListener) = NextInstance
         /\ ports' = NextUse.table /\ nextDBPort' = NextUse.next
         /\ envVars' = NextEnv.vars
         /\ errs' = errs \cup addError(NextUse.conflict, "PortConflict", current)
                         \cup addError(NextEnv.conflict, "EnvVarConflict", current)
         /\ listeners' = listeners \cup {NextListener}
         /\ UNCHANGED <<spec, podSpec, containers, todo, health, pc>>
         /\ \/ index < Len(spec[current].instances) /\ index' = index + 1 /\ current' = current
            \/ index = Len(spec[current].instances) /\ index' = 1 /\ current' = None
  <1>1. /\ current \in Proxies /\ pc = "proxies" /\ pc' = "proxies"
        /\ index \in 1..Len(spec[current].instances)
    BY DEF addInstance, TypeInv, TypeOK
  <1>2. /\ Len(spec[current].instances) \in Nat
        /\ DOMAIN spec[current].instances = 1..Len(spec[current].instances)
        /\ \A j \in DOMAIN spec[current].instances : spec[current].instances[j] \in InstanceSpec
    BY <1>1, SpecFacts DEF TypeInv
  <1>3. NextInstance \in InstanceSpec
    BY <1>1, <1>2 DEF NextInstance
  <1>4. NextUse.port \in Int
    BY <1>1, <1>3, useInstancePortFacts DEF NextUse
  <1>5. /\ NextListener \in Listeners /\ NextListener.proxy = current
        /\ NextListener.index = index /\ NextListener.port = NextUse.port
    BY <1>1, <1>4 DEF NextListener, Listeners, TypeInv
  <1>6. InstanceOf(NextListener) = NextInstance
    BY <1>5 DEF InstanceOf, NextInstance
  <1>7. /\ ports' = NextUse.table /\ nextDBPort' = NextUse.next
        /\ envVars' = NextEnv.vars
        /\ errs' = errs \cup addError(NextUse.conflict, "PortConflict", current)
                        \cup addError(NextEnv.conflict, "EnvVarConflict", current)
        /\ listeners' = listeners \cup {NextListener}
    BY DEF addInstance, NextUse, NextInstance, NextListener, NextEnv
  <1>8. /\ UNCHANGED <<spec, podSpec, containers, todo, health, pc>>
        /\ \/ index < Len(spec[current].instances) /\ index' = index + 1 /\ current' = current
           \/ index = Len(spec[current].instances) /\ index' = 1 /\ current' = None
    <2>1. /\ UNCHANGED <<spec, podSpec, containers, todo, health, pc>>
          /\ IF index < Len(spec[current].instances)
             THEN index' = index + 1 /\ UNCHANGED current
             ELSE index' = 1 /\ current' = None
      BY DEF addInstance
    <2>2. index < Len(spec[current].instances) \/ index = Len(spec[current].instances)
      BY <1>1, <1>2
    <2>3. QED
      BY <1>1, <1>2, <2>1, <2>2
  <1>9. QED
    BY <1>1, <1>2, <1>3, <1>5, <1>6, <1>7, <1>8

\* The variables of the instance are in the table afterwards; without a
\* conflict the table is extended and nothing in it changes.
LEMMA NextEnvFacts ==
  ASSUME TypeInv, addInstance
  PROVE  /\ \A n \in DOMAIN NextEnv.vars :
               \/ \E e \in EnvOf(NextListener) : e.name = n /\ e.value = NextEnv.vars[n]
               \/ n \in DOMAIN envVars /\ NextEnv.vars[n] = envVars[n]
         /\ DOMAIN envVars \subseteq DOMAIN NextEnv.vars
         /\ \A e \in EnvOf(NextListener) : e.name \in DOMAIN NextEnv.vars
         /\ NextEnv.conflict \in BOOLEAN
         /\ NextEnv.conflict =>
               \E e \in EnvOf(NextListener) :
                  \/ e.name \in DOMAIN envVars /\ envVars[e.name] # e.value
                  \/ \E f \in EnvOf(NextListener) : f.name = e.name /\ f.value # e.value
         /\ ~NextEnv.conflict =>
               /\ \A n \in DOMAIN envVars : NextEnv.vars[n] = envVars[n]
               /\ \A e \in EnvOf(NextListener) : NextEnv.vars[e.name] = e.value
  <1> DEFINE h == NextInstance.hostEnvName
             q == NextInstance.portEnvName
             v == PortValue(NextUse.port)
             s0 == [vars |-> envVars, conflict |-> FALSE]
             s1 == addNamedEnvVar(s0, h, LocalHost)
             s2 == addNamedEnvVar(s1, q, v)
  <1>1. NextEnv = s2
    BY DEF NextEnv, addEnvVars
  <1>2. s0.vars = envVars /\ s0.conflict = FALSE
    OBVIOUS
  <1> HIDE DEF s0, h, q, v
  <1>3. /\ DOMAIN s1.vars = DOMAIN envVars \cup {n \in {h} : n # None}
        /\ h # None => s1.vars[h] = LocalHost
        /\ \A n \in DOMAIN envVars : n # h \/ h = None => s1.vars[n] = envVars[n]
        /\ s1.conflict \in BOOLEAN
        /\ s1.conflict <=> h # None /\ h \in DOMAIN envVars /\ envVars[h] # LocalHost
    <2>1. s0.conflict \in BOOLEAN
      BY <1>2
    <2>2. EnvVarAdded(s1, s0, h, LocalHost)
      BY <2>1, NamedEnvVar
    <2> HIDE DEF s1
    <2>3. QED
      BY <1>2, <2>2 DEF EnvVarAdded
  <1> HIDE DEF s1
  <1>4. /\ DOMAIN s2.vars = DOMAIN s1.vars \cup {n \in {q} : n # None}
        /\ q # None => s2.vars[q] = v
        /\ \A n \in DOMAIN s1.vars : n # q \/ q = None => s2.vars[n] = s1.vars[n]
        /\ s2.conflict \in BOOLEAN
        /\ s2.conflict <=> s1.conflict \/ (q # None /\ q \in DOMAIN s1.vars /\ s1.vars[q] # v)
    <2>1. s1.conflict \in BOOLEAN
      BY <1>3
    <2>2. EnvVarAdded(s2, s1, q, v)
      BY <2>1, NamedEnvVar
    <2> HIDE DEF s2
    <2>3. QED
      BY <2>2 DEF EnvVarAdded
  <1>5. /\ \A e \in EnvOf(NextListener) : \/ h # None /\ e.name = h /\ e.value = LocalHost
                                          \/ q # None /\ e.name = q /\ e.value = v
        /\ h # None => \E e \in EnvOf(NextListener) : e.name = h /\ e.value = LocalHost
        /\ q # None => \E e \in EnvOf(NextListener) : e.name = q /\ e.value = v
    BY addInstanceFacts, EnvOfFacts DEF h, q, v
  <1> HIDE DEF s2
  <1>6. DOMAIN envVars \subseteq DOMAIN s2.vars
    BY <1>3, <1>4
  <1>7. \A e \in EnvOf(NextListener) : e.name \in DOMAIN s2.vars
    BY <1>3, <1>4, <1>5
  <1>8. ASSUME NEW n \in DOMAIN s2.vars
        PROVE  \/ \E e \in EnvOf(NextListener) : e.name = n /\ e.value = s2.vars[n]
               \/ n \in DOMAIN envVars /\ s2.vars[n] = envVars[n]
    <2>1. CASE q # None /\ n = q
      BY <1>4, <1>5, <2>1
    <2>2. CASE ~(q # None /\ n = q)
      <3>1. n \in DOMAIN s1.vars /\ s2.vars[n] = s1.vars[n]
        BY <1>4, <1>8, <2>2
      <3>2. QED
        BY <1>3, <1>5, <3>1
    <2>3. QED
      BY <2>1, <2>2
  <1>9. ASSUME s2.conflict
        PROVE  \E e \in EnvOf(NextListener) :
                  \/ e.name \in DOMAIN envVars /\ envVars[e.name] # e.value
                  \/ \E f \in EnvOf(NextListener) : f.name = e.name /\ f.value # e.value
    <2>1. CASE s1.conflict
      BY <1>3, <1>5, <2>1
    <2>2. CASE ~s1.conflict
      <3>1. q # None /\ q \in DOMAIN s1.vars /\ s1.vars[q] # v
        BY <1>4, <1>9, <2>2
      <3>2. CASE h # None /\ q = h
        BY <1>3, <1>5, <3>1, <3>2
      <3>3. CASE ~(h # None /\ q = h)
        <4>1. q \in DOMAIN envVars /\ envVars[q] # v
          BY <1>3, <3>1, <3>3
        <4>2. QED
          BY <1>5, <3>1, <4>1
      <3>4. QED
        BY <3>2, <3>3
    <2>3. QED
      BY <2>1, <2>2
  <1>10. ASSUME ~s2.conflict
         PROVE  /\ \A n \in DOMAIN envVars : s2.vars[n] = envVars[n]
                /\ \A e \in EnvOf(NextListener) : s2.vars[e.name] = e.value
    <2>1. \A n \in DOMAIN envVars : s1.vars[n] = envVars[n]
      BY <1>3, <1>4, <1>10
    <2>2. \A n \in DOMAIN s1.vars : s2.vars[n] = s1.vars[n]
      BY <1>4, <1>10
    <2>3. h # None => h \in DOMAIN s1.vars
      BY <1>3
    <2>4. QED
      BY <1>3, <1>4, <1>5, <2>1, <2>2, <2>3
  <1>11. QED
    BY <1>1, <1>4, <1>6, <1>7, <1>8, <1>9, <1>10

-----------------------------------------------------------------------------
(***************************************************************************)
(* Types and listeners                                                     *)
(***************************************************************************)

\* The ports the application declares are ports, and finitely many.
LEMMA podPortsFacts ==
  ASSUME InputsOK
  PROVE  podPorts \subseteq AppPorts /\ podPorts \subseteq Int /\ IsFiniteSet(podPorts)
  <1>1. podPorts \subseteq AppPorts
    BY DEF InputsOK, podPorts
  <1>2. QED
    BY <1>1, AppPortsAssumption, FS_Subset

\* Resources blamed after an instance was added.
LEMMA BlamedFacts ==
  ASSUME TypeInv, addInstance
  PROVE  /\ Blamed("PortConflict")' =
               Blamed("PortConflict") \cup {p \in {current} : NextUse.conflict}
         /\ Blamed("EnvVarConflict")' =
               Blamed("EnvVarConflict") \cup {p \in {current} : NextEnv.conflict}
  <1> DEFINE a == [code |-> "PortConflict", proxy |-> current]
             b == [code |-> "EnvVarConflict", proxy |-> current]
  <1>1. /\ a.code = "PortConflict" /\ a.proxy = current
        /\ b.code = "EnvVarConflict" /\ b.proxy = current
    OBVIOUS
  <1>2. NextUse.conflict \in BOOLEAN
    BY addInstanceFacts, useInstancePortFacts DEF NextUse
  <1>3. NextEnv.conflict \in BOOLEAN
    BY NextEnvFacts
  <1>4. errs' = errs \cup addError(NextUse.conflict, "PortConflict", current)
                     \cup addError(NextEnv.conflict, "EnvVarConflict", current)
    BY addInstanceFacts
  <1>5. errs' = errs \cup {x \in {a} : NextUse.conflict} \cup {x \in {b} : NextEnv.conflict}
    BY <1>2, <1>3, <1>4 DEF addError
  <1> HIDE DEF a, b
  <1>6. QED
    BY <1>1, <1>2, <1>3, <1>5 DEF Blamed

LEMMA TypeInit ==
  ASSUME Init
  PROVE  TypeInv
  <1>1. PICK declared \in SUBSET AppPorts, names \in SUBSET AppEnvNames, stale \in StaleChoices :
           podSpec = IF stale
                     THEN <<AppContainer(declared, names),
                            NewContainer(CHOOSE p \in Proxies : TRUE)>>
                     ELSE <<AppContainer(declared, names)>>
    BY DEF Init
  <1> DEFINE a == AppContainer(declared, names)
             b == NewContainer(CHOOSE p \in Proxies : TRUE)
  <1>2. a \in Containers /\ a.ports = declared /\ a.proxy = None
    <2>1. names \in SUBSET STRING /\ declared \in SUBSET Int
      BY AppEnvNamesAssumption, AppPortsAssumption
    <2>2. [n \in names |-> AppValue] \in [names -> {AppValue}]
      OBVIOUS
    <2>3. [n \in names |-> AppValue] \in OwnEnvs
      BY <2>1, <2>2 DEF OwnEnvs
    <2>4. QED
      BY <2>1, <2>3 DEF AppContainer, Containers
  <1>3. b \in Containers /\ b.proxy \in Proxies
    <2>1. <<>> \in OwnEnvs
      <3>1. <<>> \in [{} -> {AppValue}]
        OBVIOUS
      <3>2. QED
        BY <3>1 DEF OwnEnvs
    <2>2. (CHOOSE p \in Proxies : TRUE) \in Proxies
      BY ProxiesAssumption
    <2>3. QED
      BY <2>1, <2>2 DEF NewContainer, Containers
  <1>4. podSpec = <<a>> \/ podSpec = <<a, b>>
    BY <1>1
  <1> HIDE DEF a, b
  <1>5. podSpec \in Seq(Containers)
    <2>1. \A x \in Containers : <<x>> \in Seq(Containers)
      OBVIOUS
    <2>2. \A x, y \in Containers : <<x, y>> \in Seq(Containers)
      OBVIOUS
    <2>3. QED
      BY <1>2, <1>3, <1>4, <2>1, <2>2
  <1>6. ASSUME NEW i \in DOMAIN podSpec, ~IsProxyContainer(podSpec[i])
        PROVE  podSpec[i].ports \subseteq AppPorts
    <2>1. podSpec[i] = a \/ podSpec[i] = b
      BY <1>4, <1>6
    <2>2. podSpec[i] = a
      BY <1>3, <1>6, <2>1, ProxiesAssumption DEF IsProxyContainer
    <2>3. QED
      BY <1>2, <2>2
  <1>7. InputsOK
    BY <1>5, <1>6 DEF Init, InputsOK
  <1>8. IsFiniteSet(ports)
    BY FS_EmptySet DEF Init
  <1>9. TypeOK
    <2>1. ports = {} /\ errs = {} /\ todo = Proxies /\ current = None /\ listeners = {}
          /\ pc = "init" /\ envVars = <<>> /\ nextDBPort = DefaultFirstPort
          /\ health = [p \in Proxies |-> 0]
      BY DEF Init
    <2>2. DOMAIN envVars = {}
      BY <2>1
    <2>3. nextDBPort \in Nat /\ health \in [Proxies -> Nat]
      BY <2>1 DEF DefaultFirstPort
    <2>4. QED
      BY <2>1, <2>2, <2>3 DEF TypeOK
  <1>10. nextDBPort >= DefaultFirstPort /\ index \in Nat /\ listeners \subseteq Listeners
    <2>1. nextDBPort = DefaultFirstPort /\ index = 1 /\ listeners = {}
      BY DEF Init
    <2>2. QED
      BY <2>1 DEF DefaultFirstPort
  <1>11. QED
    BY <1>7, <1>8, <1>9, <1>10 DEF TypeInv

\* What updateContainer does.
LEMMA updateContainerFacts ==
  ASSUME TypeInv, NEW p \in Proxies, updateContainer(p)
  PROVE  /\ pc = "proxies" /\ current = None /\ p \in todo /\ todo' = todo \ {p}
         /\ UNCHANGED <<spec, podSpec, ports, nextDBPort, envVars, errs, listeners, pc>>
         /\ health' \in [Proxies -> Nat]
         /\ \/ spec[p].container.given /\ UNCHANGED <<current, index>>
            \/ ~spec[p].container.given /\ current' = p /\ index' = 1
         /\ \E c \in Containers : containers' = Append(containers, c)
  <1>1. healthCheckPort \in Nat
    BY FirstFreeIsFree DEF TypeInv, healthCheckPort, DefaultHealthCheckPort
  <1>2. health \in [Proxies -> Nat]
    BY DEF TypeInv, TypeOK
  <1>3. health' \in [Proxies -> Nat]
    BY <1>1, <1>2 DEF updateContainer
  <1>4. GivenContainer(p, spec[p].container) \in Containers
    <2>1. spec[p].container \in AuthProxyContainerSpec
      BY SpecFacts DEF TypeInv
    <2>2. /\ spec[p].container.ports \in SUBSET Int
          /\ [n \in spec[p].container.envNames |-> AppValue] \in OwnEnvs
      BY <2>1 DEF AuthProxyContainerSpec, OwnEnvs
    <2>3. QED
      BY <2>2 DEF GivenContainer, Containers
  <1>5. NewContainer(p) \in Containers
    <2>1. <<>> \in [{} -> {AppValue}]
      OBVIOUS
    <2>2. <<>> \in OwnEnvs
      BY <2>1 DEF OwnEnvs
    <2>3. QED
      BY <2>2 DEF NewContainer, Containers
  <1>6. \E c \in Containers : containers' = Append(containers, c)
    BY <1>4, <1>5 DEF updateContainer
  <1>7. QED
    BY <1>3, <1>6 DEF updateContainer

LEMMA TypeStep ==
  ASSUME TypeInv, [Next]_vars
  PROVE  TypeInv'
  <1>1. TypeOK /\ InputsOK
    BY DEF TypeInv
  <1>2. CASE addInUsePorts
    <2>1. ports' = {[proxy |-> None, conn |-> None, port |-> n] : n \in podPorts}
      BY <1>2 DEF addInUsePorts
    <2>2. IsFiniteSet(ports')
      <3> DEFINE f == [n \in podPorts |-> [proxy |-> None, conn |-> None, port |-> n]]
      <3>1. f \in Surjection(podPorts, ports')
        BY <2>1 DEF Surjection
      <3>2. QED
        BY <1>1, <3>1, podPortsFacts, FS_Surjection
    <2>3. ports' \subseteq managedPort
      <3> SUFFICES ASSUME NEW mp \in ports'
                   PROVE  mp \in managedPort
        OBVIOUS
      <3>1. PICK n \in podPorts : mp = [proxy |-> None, conn |-> None, port |-> n]
        BY <2>1
      <3>2. n \in Int
        BY <1>1, podPortsFacts
      <3>3. QED
        BY <3>1, <3>2 DEF managedPort
    <2>4. UNCHANGED <<spec, podSpec, nextDBPort, envVars, errs, todo, current, index,
                      listeners, health>> /\ pc' = "proxies"
      BY <1>2 DEF addInUsePorts
    <2>5. QED
      BY <1>1, <2>2, <2>3, <2>4 DEF TypeInv, TypeOK, InputsOK
  <1>3. ASSUME NEW p \in Proxies, updateContainer(p)
        PROVE  TypeInv'
    <2>1. /\ UNCHANGED <<spec, podSpec, ports, nextDBPort, envVars, errs, listeners, pc>>
          /\ todo' \subseteq todo /\ health' \in [Proxies -> Nat]
          /\ \/ UNCHANGED <<current, index>>
             \/ current' = p /\ index' = 1
      BY <1>3, updateContainerFacts
    <2>2. Len(spec[p].instances) \in Nat \ {0}
      BY <1>1, SpecFacts
    <2>3. 1 \in 1..Len(spec[p].instances)
      BY <2>2
    <2>4. /\ current' \in Proxies \cup {None} /\ index' \in Nat
          /\ current' # None => index' \in 1..Len(spec'[current'].instances)
      <3>1. spec' = spec
        BY <2>1
      <3>2. CASE UNCHANGED <<current, index>>
        BY <1>1, <3>1, <3>2 DEF TypeOK, TypeInv
      <3>3. CASE current' = p /\ index' = 1
        BY <2>3, <3>1, <3>3
      <3>4. QED
        BY <2>1, <3>2, <3>3
    <2>5. QED
      BY <1>1, <2>1, <2>4 DEF TypeInv, TypeOK, InputsOK
  <1>4. CASE addInstance
    <2>1. /\ ports' \subseteq managedPort /\ IsFiniteSet(ports')
          /\ nextDBPort' \in Nat /\ nextDBPort' >= DefaultFirstPort
      BY <1>4, addInstanceFacts, useInstancePortFacts DEF NextUse
    <2>2. NextUse.port \in Int
      BY <1>4, addInstanceFacts DEF Listeners
    <2>3. \A n \in DOMAIN envVars' : n # None /\ envVars'[n] \in EnvValue
      <3>1. /\ PortValue(NextListener.port) \in EnvValue /\ LocalHost \in EnvValue
            /\ envVars' = NextEnv.vars
        BY <1>4, <2>2, addInstanceFacts DEF LocalHost, PortValue, EnvValue
      <3>2. \A e \in EnvOf(NextListener) :
               e.name # None /\ (e.value = LocalHost \/ e.value = PortValue(NextListener.port))
        BY EnvOfFacts
      <3>3. \A n \in DOMAIN NextEnv.vars :
               \/ \E e \in EnvOf(NextListener) : e.name = n /\ e.value = NextEnv.vars[n]
               \/ n \in DOMAIN envVars /\ NextEnv.vars[n] = envVars[n]
        BY <1>4, NextEnvFacts
      <3>4. \A n \in DOMAIN envVars : n # None /\ envVars[n] \in EnvValue
        BY <1>1 DEF TypeOK
      <3>5. QED
        BY <3>1, <3>2, <3>3, <3>4
    <2>4. errs' \subseteq ConfigErrorDetail
      <3>1. current \in Proxies
        BY <1>4, addInstanceFacts
      <3>2. \A wrong, code : code \in {"PortConflict", "EnvVarConflict"} =>
               addError(wrong, code, current) \subseteq ConfigErrorDetail
        BY <3>1 DEF addError, ConfigErrorDetail
      <3>3. QED
        BY <1>1, <1>4, <3>2, addInstanceFacts DEF TypeOK
    <2>5. listeners' \subseteq Listeners
      BY <1>4, addInstanceFacts DEF TypeInv
    <2>6. /\ current' \in Proxies \cup {None} /\ index' \in Nat
          /\ current' # None => index' \in 1..Len(spec'[current'].instances)
      <3>1. /\ current \in Proxies /\ spec' = spec /\ index \in 1..Len(spec[current].instances)
            /\ \/ index < Len(spec[current].instances) /\ index' = index + 1
                  /\ current' = current
               \/ index = Len(spec[current].instances) /\ index' = 1 /\ current' = None
        BY <1>4, addInstanceFacts
      <3>2. Len(spec[current].instances) \in Nat
        BY <1>1, <3>1, SpecFacts
      <3>3. CASE index < Len(spec[current].instances)
        <4>1. index' = index + 1 /\ current' = current
          BY <3>1, <3>2, <3>3
        <4>2. index' \in 1..Len(spec[current].instances)
          BY <3>1, <3>2, <3>3, <4>1
        <4>3. QED
          BY <3>1, <4>1, <4>2
      <3>4. CASE ~(index < Len(spec[current].instances))
        BY <3>1, <3>2, <3>4
      <3>5. QED
        BY <3>3, <3>4
    <2>7. UNCHANGED <<spec, podSpec, todo, health, pc>>
      BY <1>4, addInstanceFacts
    <2>8. \A l \in listeners' : l.proxy \in Proxies /\ l.port \in Int
      BY <2>5 DEF Listeners
    <2>9. QED
      BY <1>1, <2>1, <2>3, <2>4, <2>5, <2>6, <2>7, <2>8 DEF TypeInv, TypeOK, InputsOK
  <1>5. CASE finish
    BY <1>1, <1>5 DEF TypeInv, TypeOK, InputsOK, finish
  <1>6. CASE UNCHANGED vars
    BY <1>1, <1>6 DEF TypeInv, TypeOK, InputsOK, vars
  <1>7. QED
    BY <1>2, <1>3, <1>4, <1>5, <1>6 DEF Next, Returned

\* Every table, counter and argument of ConfigureWorkload keeps its type, and
\* the search for a free port always ends: the table of ports in use is finite.
THEOREM UpdateTypeCorrect == Spec => []TypeOK
  <1>1. Init => TypeInv
    BY TypeInit
  <1>2. TypeInv /\ [Next]_vars => TypeInv'
    BY TypeStep
  <1>3. TypeInv => TypeOK
    BY DEF TypeInv
  <1>4. QED
    BY <1>1, <1>2, <1>3, PTL DEF Spec

\* The listener of the next instance is new.
LEMMA NextListenerIsNew ==
  ASSUME TypeInv, ListenersInv, addInstance
  PROVE  \A l \in listeners : ~(l.proxy = current /\ l.index = index)
  <1>1. index \in Nat
    BY DEF TypeInv
  <1>2. \A l \in listeners : l.proxy = current => l.index < index
    BY DEF ListenersInv
  <1>3. QED
    BY <1>1, <1>2

LEMMA ListenersStep ==
  ASSUME TypeInv, ListenersInv, [Next]_vars
  PROVE  ListenersInv'
  <1>1. InputsOK /\ listeners \subseteq Listeners /\ current \in Proxies \cup {None}
        /\ todo \subseteq Proxies
    BY DEF TypeInv, TypeOK
  <1>2. CASE UNCHANGED <<spec, todo, current, index, listeners>> /\ pc' # "init"
    BY <1>2 DEF ListenersInv
  <1>3. ASSUME NEW p \in Proxies, updateContainer(p)
        PROVE  ListenersInv'
    <2>1. /\ pc' = "proxies" /\ current = None /\ p \in todo /\ todo' = todo \ {p}
          /\ spec' = spec /\ listeners' = listeners
          /\ \/ spec[p].container.given /\ current' = current /\ index' = index
             \/ ~spec[p].container.given /\ current' = p /\ index' = 1
      BY <1>3, updateContainerFacts
    <2>2. \A l \in listeners : l.proxy \in Proxies /\ l.proxy # p /\ l.proxy # None
      BY <1>1, <2>1, ProxiesAssumption DEF ListenersInv, Listeners
    <2>3. current' \notin todo'
      BY <1>1, <2>1, ProxiesAssumption
    <2>4. \A l \in listeners' : /\ l.proxy \notin todo'
                                /\ l.index \in DOMAIN spec'[l.proxy].instances
                                /\ l.proxy = current' => l.index < index'
      BY <2>1, <2>2 DEF ListenersInv
    <2>5. \A l, m \in listeners' : l.proxy = m.proxy /\ l.index = m.index => l = m
      BY <2>1 DEF ListenersInv
    <2>6. ASSUME NEW x \in Proxies \ todo', ~spec'[x].container.given,
                 NEW j \in DOMAIN spec'[x].instances, x = current' => j < index'
          PROVE  \E l \in listeners' : l.proxy = x /\ l.index = j
      <3>1. x # p
        <4>1. CASE x = p
          <5>1. j < 1 /\ j \in DOMAIN spec[p].instances
            BY <2>1, <2>6, <4>1
          <5>2. DOMAIN spec[p].instances = 1..Len(spec[p].instances)
                /\ Len(spec[p].instances) \in Nat
            BY <1>1, SpecFacts
          <5>3. QED
            BY <5>1, <5>2
        <4>2. QED
          BY <4>1
      <3>2. x \in Proxies \ todo /\ x # current
        BY <2>1, <2>6, <3>1, ProxiesAssumption
      <3>3. QED
        BY <2>1, <2>6, <3>2 DEF ListenersInv
    <2>7. QED
      BY <2>1, <2>3, <2>4, <2>5, <2>6 DEF ListenersInv
  <1>4. CASE addInstance
    <2> DEFINE n == Len(spec[current].instances)
    <2>1. /\ current \in Proxies /\ pc' = "proxies" /\ index \in 1..n
          /\ NextListener \in Listeners /\ NextListener.proxy = current
          /\ NextListener.index = index
          /\ listeners' = listeners \cup {NextListener} /\ spec' = spec /\ todo' = todo
          /\ \/ index < n /\ index' = index + 1 /\ current' = current
             \/ index = n /\ index' = 1 /\ current' = None
      BY <1>4, addInstanceFacts
    <2>2. n \in Nat /\ DOMAIN spec[current].instances = 1..n
      BY <1>1, <2>1, SpecFacts
    <2> HIDE DEF n
    <2>3. current \notin todo /\ None \notin Proxies
      BY ProxiesAssumption DEF ListenersInv
    <2>4. current' \notin todo'
      BY <1>1, <2>1, <2>3
    <2>5. ASSUME NEW l \in listeners'
          PROVE  /\ l.proxy \notin todo'
                 /\ l.index \in DOMAIN spec'[l.proxy].instances
                 /\ l.proxy = current' => l.index < index'
      <3>1. CASE l = NextListener
        BY <2>1, <2>2, <2>3, <3>1
      <3>2. CASE l \in listeners
        <4>1. /\ l.proxy \in Proxies /\ l.index \in Nat /\ l.proxy \notin todo
              /\ l.index \in DOMAIN spec[l.proxy].instances
              /\ l.proxy = current => l.index < index
          BY <1>1, <3>2 DEF ListenersInv, Listeners
        <4>2. l.proxy = current' => l.index < index'
          BY <2>1, <2>3, <4>1
        <4>3. QED
          BY <2>1, <4>1, <4>2
      <3>3. QED
        BY <2>1, <3>1, <3>2
    <2>6. \A l, m \in listeners' : l.proxy = m.proxy /\ l.index = m.index => l = m
      BY <1>4, <2>1, NextListenerIsNew DEF ListenersInv
    <2>7. ASSUME NEW x \in Proxies \ todo', ~spec'[x].container.given,
                 NEW j \in DOMAIN spec'[x].instances, x = current' => j < index'
          PROVE  \E l \in listeners' : l.proxy = x /\ l.index = j
      <3>1. CASE x = current /\ j = index
        BY <2>1, <3>1
      <3>2. CASE ~(x = current /\ j = index)
        <4>1. x = current => j < index
          BY <2>1, <2>2, <2>7, <3>2
        <4>2. \E l \in listeners : l.proxy = x /\ l.index = j
          BY <2>1, <2>7, <4>1 DEF ListenersInv
        <4>3. QED
          BY <2>1, <4>2
      <3>3. QED
        BY <3>1, <3>2
    <2>8. QED
      BY <2>1, <2>4, <2>5, <2>6, <2>7 DEF ListenersInv
  <1>5. CASE UNCHANGED vars
    BY <1>5 DEF ListenersInv, vars
  <1>6. QED
    BY <1>2, <1>3, <1>4, <1>5 DEF Next, Returned, addInUsePorts, finish

-----------------------------------------------------------------------------
(***************************************************************************)
(* Conflicts of environment variables                                      *)
(***************************************************************************)

\* Only addInstance changes the tables of variables and listeners.
LEMMA EnvStep ==
  ASSUME TypeInv, EnvInv, [Next]_vars
  PROVE  EnvInv'
  <1>1. CASE UNCHANGED <<spec, listeners, envVars, errs>>
    <2>1. \A l : EnvOf(l)' = EnvOf(l)
      BY <1>1 DEF EnvOf, InstanceOf
    <2>2. \A l : EnvClash(l)' <=> EnvClash(l)
      BY <1>1, <2>1 DEF EnvClash
    <2>3. Blamed("EnvVarConflict")' = Blamed("EnvVarConflict")
      BY <1>1 DEF Blamed
    <2>4. QED
      BY <1>1, <2>1, <2>2, <2>3 DEF EnvInv
  <1>2. CASE addInstance
    <2> DEFINE before == Blamed("EnvVarConflict")
    <2>1. PICK n \in Listeners : n = NextListener
      BY <1>2, addInstanceFacts
    <2>2. /\ envVars' = NextEnv.vars /\ listeners' = listeners \cup {n}
          /\ n.proxy = current /\ spec' = spec
      BY <1>2, <2>1, addInstanceFacts
    <2>3. Blamed("EnvVarConflict")' = before \cup {p \in {current} : NextEnv.conflict}
      BY <1>2, BlamedFacts
    <2>4. \A l : EnvOf(l)' = EnvOf(l)
      BY <2>2 DEF EnvOf, InstanceOf
    <2>5. /\ \A x \in DOMAIN NextEnv.vars :
                \/ \E e \in EnvOf(n) : e.name = x /\ e.value = NextEnv.vars[x]
                \/ x \in DOMAIN envVars /\ NextEnv.vars[x] = envVars[x]
          /\ DOMAIN envVars \subseteq DOMAIN NextEnv.vars
          /\ \A e \in EnvOf(n) : e.name \in DOMAIN NextEnv.vars
          /\ NextEnv.conflict \in BOOLEAN
          /\ NextEnv.conflict =>
                \E e \in EnvOf(n) :
                   \/ e.name \in DOMAIN envVars /\ envVars[e.name] # e.value
                   \/ \E f \in EnvOf(n) : f.name = e.name /\ f.value # e.value
          /\ ~NextEnv.conflict =>
                /\ \A x \in DOMAIN envVars : NextEnv.vars[x] = envVars[x]
                /\ \A e \in EnvOf(n) : NextEnv.vars[e.name] = e.value
      BY <1>2, <2>1, NextEnvFacts
    <2> HIDE DEF before
    <2>6. /\ \A x \in DOMAIN envVars :
                \E l \in listeners : \E e \in EnvOf(l) : e.name = x /\ e.value = envVars[x]
          /\ \A l \in listeners : \A e \in EnvOf(l) : e.name \in DOMAIN envVars
          /\ before = {} => \A l \in listeners : \A e \in EnvOf(l) : envVars[e.name] = e.value
          /\ \A p \in before : \E l \in listeners : l.proxy = p /\ EnvClash(l)
      BY DEF EnvInv, before
    <2>7. \A x \in DOMAIN envVars' :
             \E l \in listeners' : \E e \in EnvOf(l) : e.name = x /\ e.value = envVars'[x]
      BY <2>2, <2>5, <2>6
    <2>8. \A l \in listeners' : \A e \in EnvOf(l) : e.name \in DOMAIN envVars'
      BY <2>2, <2>5, <2>6
    <2>9. ASSUME Blamed("EnvVarConflict")' = {}
          PROVE  \A l \in listeners' : \A e \in EnvOf(l) : envVars'[e.name] = e.value
      <3>1. before = {} /\ ~NextEnv.conflict
        BY <2>3, <2>9
      <3>2. QED
        BY <2>2, <2>5, <2>6, <3>1
    <2>10. ASSUME NEW p \in Blamed("EnvVarConflict")'
          PROVE  \E l \in listeners' : l.proxy = p /\ EnvClash(l)'
      <3>1. \A l : EnvClash(l)' <=> \E m \in listeners' : \E e \in EnvOf(l), f \in EnvOf(m) :
                                       e.name = f.name /\ e.value # f.value
        BY <2>4 DEF EnvClash
      <3>2. CASE p \in before
        <4>1. PICK l \in listeners : l.proxy = p /\ EnvClash(l)
          BY <2>6, <3>2
        <4>2. EnvClash(l)'
          BY <2>2, <3>1, <4>1 DEF EnvClash
        <4>3. QED
          BY <2>2, <4>1, <4>2
      <3>3. CASE p = current /\ NextEnv.conflict
        <4>1. PICK e \in EnvOf(n) :
                 \/ e.name \in DOMAIN envVars /\ envVars[e.name] # e.value
                 \/ \E f \in EnvOf(n) : f.name = e.name /\ f.value # e.value
          BY <2>5, <3>3
        <4>2. EnvClash(n)'
          <5>1. CASE e.name \in DOMAIN envVars /\ envVars[e.name] # e.value
            <6>1. PICK m \in listeners : \E f \in EnvOf(m) : /\ f.name = e.name
                                                            /\ f.value = envVars[e.name]
              BY <2>6, <5>1
            <6>2. QED
              BY <2>2, <3>1, <5>1, <6>1
          <5>2. CASE \E f \in EnvOf(n) : f.name = e.name /\ f.value # e.value
            BY <2>2, <3>1, <5>2
          <5>3. QED
            BY <4>1, <5>1, <5>2
        <4>3. QED
          BY <2>2, <3>3, <4>2
      <3>4. QED
        BY <2>3, <3>2, <3>3
    <2>11. QED
      BY <2>4, <2>7, <2>8, <2>9, <2>10 DEF EnvInv
  <1>3. ASSUME NEW p \in Proxies, updateContainer(p)
        PROVE  UNCHANGED <<spec, listeners, envVars, errs>>
    BY <1>3 DEF updateContainer
  <1>4. QED
    BY <1>1, <1>2, <1>3 DEF Next, Returned, addInUsePorts, finish, vars

-----------------------------------------------------------------------------
(***************************************************************************)
(* Conflicts of ports                                                      *)
(***************************************************************************)

\* The listener of a connection that is not repeated is the only one with it.
LEMMA SameConnection ==
  ASSUME TypeInv, ListenersInv, addInstance,
         NEW l \in listeners, l.proxy = current, InstanceOf(l).conn = NextInstance.conn
  PROVE  Repeated(l) /\ Repeated(NextListener)
  <1>1. /\ index \in DOMAIN spec[current].instances
        /\ NextListener.proxy = current /\ NextListener.index = index
        /\ InstanceOf(NextListener) = NextInstance
    BY addInstanceFacts
  <1>2. l.index \in DOMAIN spec[current].instances /\ l.index # index
    BY NextListenerIsNew DEF ListenersInv
  <1>3. /\ spec[current].instances[index] = NextInstance
        /\ spec[current].instances[l.index] = InstanceOf(l)
    BY DEF NextInstance, InstanceOf
  <1>4. QED
    BY <1>1, <1>2, <1>3 DEF Repeated

LEMMA PortInstanceStep ==
  ASSUME TypeInv, ListenersInv, PortInv, addInstance
  PROVE  PortInv'
  <1> DEFINE before == Blamed("PortConflict")
             conn == NextInstance.conn
  <1>1. PICK n \in Listeners : n = NextListener
    BY addInstanceFacts
  <1>2. /\ ports' = NextUse.table /\ listeners' = listeners \cup {n} /\ n.port = NextUse.port
        /\ n.proxy = current /\ n.index = index /\ current \in Proxies /\ pc # "init"
        /\ spec' = spec /\ podSpec' = podSpec /\ InstanceOf(n) = NextInstance
        /\ NextInstance \in InstanceSpec
    BY <1>1, addInstanceFacts
  <1>3. PodPortsAreTaken /\ EntriesAreKnown /\ ListenersAreTaken /\ ClashesAreBlamed /\ BlamedClash
    BY <1>2 DEF PortInv
  <1>4. /\ \A mp \in ports' :
              mp \in ports \/ (mp.proxy = current /\ mp.conn = conn /\ mp.port = n.port)
        /\ \A mp \in ports : mp.proxy # current \/ mp.conn # conn => mp \in ports'
        /\ NextUse.conflict \in BOOLEAN
        /\ NextUse.conflict => isPortInUse(n.port)
        /\ ~NextUse.conflict =>
              \E mp \in ports' : mp.proxy = current /\ mp.conn = conn /\ mp.port = n.port
        /\ ~NextUse.conflict /\ isPortInUse(n.port) =>
              \E mp \in ports : mp.proxy = current /\ mp.conn = conn /\ mp.port = n.port
    BY <1>2, useInstancePortFacts DEF NextUse
  <1>5. /\ podPorts' = podPorts
        /\ \A l : InstanceOf(l)' = InstanceOf(l)
        /\ \A l : Repeated(l)' <=> Repeated(l)
    BY <1>2 DEF podPorts, InstanceOf, Repeated
  <1>6. n \notin listeners
    BY <1>2, NextListenerIsNew
  <1>7. Blamed("PortConflict")' = before \cup {p \in {current} : NextUse.conflict}
    BY BlamedFacts
  <1>8. \A l \in listeners : l.proxy = current /\ InstanceOf(l).conn = conn =>
           Repeated(l) /\ Repeated(n)
    BY <1>1, SameConnection
  <1>9. current # None
    BY <1>2, ProxiesAssumption
  <1> HIDE DEF before, conn
  <1>10. PodPortsAreTaken'
    <2>1. ASSUME NEW x \in podPorts
          PROVE  \E mp \in ports' : mp.proxy = None /\ mp.port = x
      BY <1>3, <1>4, <1>9 DEF PodPortsAreTaken
    <2>2. QED
      BY <1>5, <2>1 DEF PodPortsAreTaken
  <1>11. EntriesAreKnown'
    <2>1. ASSUME NEW mp \in ports'
          PROVE  \/ mp.proxy = None /\ mp.port \in podPorts
                 \/ \E l \in listeners' : /\ l.proxy = mp.proxy /\ InstanceOf(l).conn = mp.conn
                                          /\ l.port = mp.port
      <3>1. CASE mp \in ports
        BY <1>2, <1>3, <3>1 DEF EntriesAreKnown
      <3>2. CASE mp.proxy = current /\ mp.conn = conn /\ mp.port = n.port
        BY <1>2, <3>2 DEF conn
      <3>3. QED
        BY <1>4, <3>1, <3>2
    <2>2. QED
      BY <1>5, <2>1 DEF EntriesAreKnown
  <1>12. ASSUME Blamed("PortConflict")' = {}
         PROVE  before = {} /\ ~NextUse.conflict
    BY <1>7, <1>12
  <1>13. ASSUME ~NextUse.conflict, isPortInUse(n.port)
         PROVE  Repeated(n) /\ \E l \in listeners : l.port = n.port
    <2>1. PICK mp \in ports : mp.proxy = current /\ mp.conn = conn /\ mp.port = n.port
      BY <1>4, <1>13
    <2>2. PICK l \in listeners : l.proxy = current /\ InstanceOf(l).conn = conn /\ l.port = n.port
      BY <1>3, <1>9, <2>1 DEF EntriesAreKnown
    <2>3. QED
      BY <1>8, <2>2
  <1>14. ListenersAreTaken'
    <2>1. ASSUME Blamed("PortConflict")' = {}, NEW l \in listeners', ~Repeated(l)
          PROVE  \E mp \in ports' :
                    mp.proxy = l.proxy /\ mp.conn = InstanceOf(l).conn /\ mp.port = l.port
      <3>1. CASE l = n
        BY <1>2, <1>4, <1>12, <2>1, <3>1 DEF conn
      <3>2. CASE l \in listeners
        <4>1. PICK mp \in ports :
                 mp.proxy = l.proxy /\ mp.conn = InstanceOf(l).conn /\ mp.port = l.port
          BY <1>3, <1>12, <2>1, <3>2 DEF ListenersAreTaken, before
        <4>2. mp.proxy # current \/ mp.conn # conn
          BY <1>8, <2>1, <3>2, <4>1
        <4>3. QED
          BY <1>4, <4>1, <4>2
      <3>3. QED
        BY <1>2, <2>1, <3>1, <3>2
    <2>2. QED
      BY <1>5, <2>1 DEF ListenersAreTaken
  <1>15. ClashesAreBlamed'
    <2>1. ASSUME Blamed("PortConflict")' = {}
          PROVE  /\ \A l \in listeners' : l.port \notin podPorts
                 /\ \A l, m \in listeners' :
                       l.port = m.port /\ ~Repeated(l) /\ ~Repeated(m) => l = m
      <3>1. before = {} /\ ~NextUse.conflict
        BY <1>12, <2>1
      <3>2. /\ \A l \in listeners : l.port \notin podPorts
            /\ \A l, m \in listeners :
                  l.port = m.port /\ ~Repeated(l) /\ ~Repeated(m) => l = m
        BY <1>3, <3>1 DEF ClashesAreBlamed, before
      <3>3. n.port \notin podPorts
        <4>1. ASSUME n.port \in podPorts
              PROVE  FALSE
          <5>1. isPortInUse(n.port)
            BY <1>3, <4>1 DEF PodPortsAreTaken, isPortInUse
          <5>2. QED
            BY <1>13, <3>1, <3>2, <4>1, <5>1
        <4>2. QED
          BY <4>1
      <3>4. ASSUME NEW m \in listeners, m.port = n.port, ~Repeated(m)
            PROVE  Repeated(n)
        <4>1. isPortInUse(n.port)
          BY <1>3, <3>1, <3>4 DEF ListenersAreTaken, isPortInUse, before
        <4>2. QED
          BY <1>13, <3>1, <4>1
      <3>5. QED
        BY <1>2, <3>2, <3>3, <3>4
    <2>2. QED
      BY <1>5, <2>1 DEF ClashesAreBlamed
  <1>16. BlamedClash'
    <2>1. \A l : RecordedClash(l)' <=>
             l.port \in podPorts \/ \E m \in listeners' \ {l} : m.port = l.port
      BY <1>5 DEF RecordedClash
    <2>2. ASSUME NEW p \in Blamed("PortConflict")'
          PROVE  \E l \in listeners' : l.proxy = p /\ RecordedClash(l)'
      <3>1. CASE p \in before
        <4>1. PICK l \in listeners : l.proxy = p /\ RecordedClash(l)
          BY <1>3, <3>1 DEF BlamedClash, before
        <4>2. RecordedClash(l)'
          BY <1>2, <2>1, <4>1 DEF RecordedClash
        <4>3. QED
          BY <1>2, <4>1, <4>2
      <3>2. CASE p = current /\ NextUse.conflict
        <4>1. PICK mp \in ports : mp.port = n.port
          BY <1>4, <3>2 DEF isPortInUse
        <4>2. n.port \in podPorts \/ \E m \in listeners : m.port = n.port
          BY <1>3, <4>1 DEF EntriesAreKnown
        <4>3. RecordedClash(n)'
          BY <1>2, <1>6, <2>1, <4>2
        <4>4. QED
          BY <1>2, <3>2, <4>3
      <3>3. QED
        BY <1>7, <2>2, <3>1, <3>2
    <2>3. QED
      BY <2>2 DEF BlamedClash
  <1>17. QED
    BY <1>10, <1>11, <1>14, <1>15, <1>16 DEF PortInv

LEMMA PortStep ==
  ASSUME TypeInv, ListenersInv, PortInv, [Next]_vars
  PROVE  PortInv'
  <1>1. spec' = spec /\ podSpec' = podSpec
    BY DEF Next, Returned, addInUsePorts, updateContainer, addInstance, finish, vars
  <1>2. /\ podPorts' = podPorts
        /\ \A l : InstanceOf(l)' = InstanceOf(l)
        /\ \A l : Repeated(l)' <=> Repeated(l)
    BY <1>1 DEF podPorts, InstanceOf, Repeated
  <1>3. ASSUME listeners' = listeners, errs' = errs
        PROVE  ClashesAreBlamed' /\ BlamedClash' /\ Blamed("PortConflict")' = Blamed("PortConflict")
    <2>1. \A l : RecordedClash(l)' <=> RecordedClash(l)
      BY <1>2, <1>3 DEF RecordedClash
    <2>2. Blamed("PortConflict")' = Blamed("PortConflict")
      BY <1>3 DEF Blamed
    <2>3. ClashesAreBlamed'
      BY <1>2, <1>3, <2>2 DEF PortInv, ClashesAreBlamed
    <2>4. BlamedClash'
      BY <1>3, <2>1, <2>2 DEF PortInv, BlamedClash
    <2>5. QED
      BY <2>2, <2>3, <2>4
  <1>4. CASE addInUsePorts
    <2>1. /\ listeners = {} /\ listeners' = listeners /\ errs' = errs
          /\ ports' = {[proxy |-> None, conn |-> None, port |-> x] : x \in podPorts}
      BY <1>4 DEF addInUsePorts, ListenersInv
    <2>2. ASSUME NEW x \in podPorts
          PROVE  \E mp \in ports' : mp.proxy = None /\ mp.port = x
      <3>1. [proxy |-> None, conn |-> None, port |-> x] \in ports'
        BY <2>1
      <3>2. QED
        BY <3>1
    <2>3. \A mp \in ports' : mp.proxy = None /\ mp.port \in podPorts
      BY <2>1
    <2>4. PodPortsAreTaken'
      BY <1>2, <2>2 DEF PodPortsAreTaken
    <2>5. EntriesAreKnown'
      BY <1>2, <2>3 DEF EntriesAreKnown
    <2>6. ListenersAreTaken'
      BY <2>1 DEF ListenersAreTaken
    <2>7. QED
      BY <1>3, <2>1, <2>4, <2>5, <2>6 DEF PortInv
  <1>5. CASE UNCHANGED <<ports, listeners, errs>> /\ (pc' # "init" => pc # "init")
    <2>1. pc' # "init" => PodPortsAreTaken'
      BY <1>2, <1>5 DEF PortInv, PodPortsAreTaken
    <2>2. EntriesAreKnown'
      BY <1>2, <1>5 DEF PortInv, EntriesAreKnown
    <2>3. ListenersAreTaken'
      BY <1>2, <1>3, <1>5 DEF PortInv, ListenersAreTaken
    <2>4. QED
      BY <1>3, <1>5, <2>1, <2>2, <2>3 DEF PortInv
  <1>6. CASE addInstance
    BY <1>6, PortInstanceStep
  <1>7. ASSUME NEW p \in Proxies, updateContainer(p)
        PROVE  UNCHANGED <<ports, listeners, errs, pc>>
    BY <1>7 DEF updateContainer
  <1>8. QED
    BY <1>4, <1>5, <1>6, <1>7 DEF Next, Returned, finish, vars

-----------------------------------------------------------------------------
(***************************************************************************)
(* The result                                                              *)
(***************************************************************************)

LEMMA ContainersStep ==
  ASSUME TypeInv, ContainersInv, [Next]_vars
  PROVE  ContainersInv'
  <1>1. podSpec' = podSpec
    BY DEF Next, Returned, addInUsePorts, updateContainer, addInstance, finish, vars
  <1>2. CASE containers' = containers /\ (pc \in {"init", "proxies"} \/ pc' = pc)
    BY <1>1, <1>2 DEF ContainersInv
  <1>3. ASSUME NEW p \in Proxies, updateContainer(p)
        PROVE  ContainersInv'
    <2>1. pc = "proxies"
      BY <1>3, updateContainerFacts
    <2>2. PICK c \in Containers : containers' = Append(containers, c)
      BY <1>3, updateContainerFacts
    <2>3. /\ containers \in Seq(Containers) /\ podSpec \in Seq(Containers)
          /\ Len(podSpec) <= Len(containers)
          /\ \A i \in DOMAIN podSpec : containers[i] = podSpec[i]
      BY <2>1 DEF ContainersInv, TypeInv, InputsOK
    <2>4. /\ containers' \in Seq(Containers) /\ Len(containers') = Len(containers) + 1
          /\ \A i \in 1..Len(containers) : containers'[i] = containers[i]
      BY <2>2, <2>3, AppendProperties
    <2>5. /\ Len(podSpec) \in Nat /\ Len(containers) \in Nat
          /\ DOMAIN podSpec = 1..Len(podSpec)
      BY <2>3, LenProperties
    <2>6. Len(podSpec) <= Len(containers') /\ DOMAIN podSpec \subseteq 1..Len(containers)
      BY <2>3, <2>4, <2>5
    <2>7. \A i \in DOMAIN podSpec : containers'[i] = podSpec[i]
      BY <2>3, <2>4, <2>6
    <2>8. QED
      BY <1>1, <2>4, <2>6, <2>7 DEF ContainersInv
  <1>4. CASE finish
    BY <1>4 DEF finish, ContainersInv
  <1>5. QED
    BY <1>2, <1>3, <1>4 DEF Next, Returned, addInUsePorts, addInstance, vars

\* What update leaves when nothing was wrong.
LEMMA FinishedWell ==
  ASSUME UpdateInv, finish, errs = {}
  PROVE  EnvMatchesListeners'
  <1>1. /\ pc = "proxies" /\ current = None /\ todo = {}
        /\ spec' = spec /\ podSpec' = podSpec /\ listeners' = listeners
        /\ containers' = [i \in DOMAIN containers |-> updateContainerEnv(containers[i])]
    BY DEF finish
  <1>2. \A l : EnvOf(l)' = EnvOf(l)
    BY <1>1 DEF EnvOf, InstanceOf
  <1>3. /\ containers \in Seq(Containers) /\ podSpec \in Seq(Containers)
        /\ Len(podSpec) <= Len(containers)
        /\ \A i \in DOMAIN podSpec : containers[i] = podSpec[i]
    BY <1>1 DEF UpdateInv, ContainersInv, TypeInv, InputsOK
  <1>4. /\ DOMAIN podSpec = 1..Len(podSpec) /\ DOMAIN containers = 1..Len(containers)
        /\ Len(podSpec) \in Nat /\ Len(containers) \in Nat
        /\ \A i \in DOMAIN containers : containers[i] \in Containers
    BY <1>3, LenProperties
  <1>5. DOMAIN podSpec \subseteq DOMAIN containers
    BY <1>3, <1>4
  <1>6. ASSUME NEW i \in DOMAIN containers
        PROVE  containers'[i].env = Overlay(envVars, containers[i].env)
    <2>1. containers[i] \in Containers
      BY <1>4
    <2>2. updateContainerEnv(containers[i]).env = Overlay(envVars, containers[i].env)
      BY <2>1 DEF updateContainerEnv, Containers
    <2>3. QED
      BY <1>1, <1>6, <2>2
  <1>7. DOMAIN containers' = DOMAIN containers
    BY <1>1
  <1>8. ASSUME NEW i \in DOMAIN containers
        PROVE  /\ DOMAIN containers'[i].env = DOMAIN envVars \cup DOMAIN containers[i].env
               /\ \A n \in DOMAIN envVars : containers'[i].env[n] = envVars[n]
               /\ \A n \in DOMAIN containers[i].env : n \notin DOMAIN envVars =>
                     containers'[i].env[n] = AppValue
    <2>1. containers[i].env \in OwnEnvs
      BY <1>4 DEF Containers
    <2>2. \A n \in DOMAIN containers[i].env : containers[i].env[n] = AppValue
      BY <2>1 DEF OwnEnvs
    <2>3. containers'[i].env = Overlay(envVars, containers[i].env)
      BY <1>6, <1>8
    <2>4. /\ DOMAIN Overlay(envVars, containers[i].env)
                = DOMAIN envVars \cup DOMAIN containers[i].env
          /\ \A n \in DOMAIN envVars :
                Overlay(envVars, containers[i].env)[n] = envVars[n]
          /\ \A n \in DOMAIN containers[i].env : n \notin DOMAIN envVars =>
                Overlay(envVars, containers[i].env)[n] = containers[i].env[n]
      BY OverlayFacts
    <2>5. QED
      BY <2>2, <2>3, <2>4
  <1>9. /\ \A n \in DOMAIN envVars :
              \E l \in listeners : \E e \in EnvOf(l) : e.name = n /\ e.value = envVars[n]
        /\ \A l \in listeners : \A e \in EnvOf(l) :
              e.name \in DOMAIN envVars /\ envVars[e.name] = e.value
    <2>1. Blamed("EnvVarConflict") = {}
      BY DEF Blamed
    <2>2. QED
      BY <2>1 DEF UpdateInv, EnvInv
  <1>10. ASSUME NEW p \in Proxies, ~spec[p].container.given, NEW j \in DOMAIN spec[p].instances
         PROVE  \E l \in listeners :
                   /\ {m \in listeners : m.proxy = p /\ m.index = j} = {l}
                   /\ \A i \in DOMAIN containers : \A e \in EnvOf(l) :
                         containers'[i].env[e.name] = e.value
    <2>1. p \notin todo /\ p # current
      BY <1>1, ProxiesAssumption
    <2>2. PICK l \in listeners : l.proxy = p /\ l.index = j
      BY <1>10, <2>1 DEF UpdateInv, ListenersInv
    <2>3. {m \in listeners : m.proxy = p /\ m.index = j} = {l}
      BY <2>2 DEF UpdateInv, ListenersInv
    <2>4. \A i \in DOMAIN containers : \A e \in EnvOf(l) : containers'[i].env[e.name] = e.value
      BY <1>8, <1>9
    <2>5. QED
      BY <2>3, <2>4
  <1>11. ASSUME NEW i \in DOMAIN containers, NEW n \in DOMAIN containers'[i].env,
                ~\E l \in listeners : \E e \in EnvOf(l) : e.name = n
         PROVE  containers'[i].env[n] = AppValue
    <2>1. n \notin DOMAIN envVars
      BY <1>9, <1>11
    <2>2. QED
      BY <1>8, <1>11, <2>1
  <1>12. ASSUME NEW i \in DOMAIN podSpec
         PROVE  DOMAIN podSpec[i].env \subseteq DOMAIN containers'[i].env
    BY <1>3, <1>5, <1>8, <1>12
  <1>13. \A n : Requested(n)' <=> \E l \in listeners : \E e \in EnvOf(l) : e.name = n
    BY <1>1, <1>2 DEF Requested
  <1>14. /\ \A p \in Proxies : ~spec'[p].container.given =>
              \A j \in DOMAIN spec'[p].instances : \E l \in listeners' :
                  /\ {m \in listeners' : m.proxy = p /\ m.index = j} = {l}
                  /\ \A i \in DOMAIN containers' : \A e \in EnvOf(l)' :
                        containers'[i].env[e.name] = e.value
    BY <1>1, <1>2, <1>7, <1>10
  <1>15. \A i \in DOMAIN containers', n \in AppEnvNames :
              n \in DOMAIN containers'[i].env /\ ~Requested(n)'
                  => containers'[i].env[n] = AppValue
    BY <1>7, <1>11, <1>13
  <1>16. QED
    BY <1>1, <1>12, <1>14, <1>15 DEF EnvMatchesListeners

LEMMA ResultStep ==
  ASSUME UpdateInv, [Next]_vars
  PROVE  EnvMatchesListeners'
  <1>1. CASE finish
    <2>1. CASE errs = {}
      BY <1>1, <2>1, FinishedWell
    <2>2. CASE errs # {}
      BY <1>1, <2>2 DEF finish, EnvMatchesListeners
    <2>3. QED
      BY <2>1, <2>2
  <1>2. CASE pc' = "proxies"
    BY <1>2 DEF EnvMatchesListeners
  <1>3. CASE UNCHANGED vars
    <2>1. \A l : EnvOf(l)' = EnvOf(l)
      BY <1>3 DEF vars, EnvOf, InstanceOf
    <2>2. \A n : Requested(n)' <=> Requested(n)
      BY <1>3, <2>1 DEF vars, Requested
    <2>3. QED
      BY <1>3, <2>1, <2>2 DEF UpdateInv, EnvMatchesListeners, vars
  <1>4. ASSUME NEW p \in Proxies, updateContainer(p)
        PROVE  pc' = "proxies"
    BY <1>4 DEF updateContainer
  <1>5. QED
    BY <1>1, <1>2, <1>3, <1>4 DEF Next, Returned, addInUsePorts, addInstance

LEMMA UpdateInit ==
  ASSUME Init
  PROVE  UpdateInv
  <1>1. /\ containers = podSpec /\ ports = {} /\ envVars = <<>> /\ errs = {} /\ todo = Proxies
        /\ current = None /\ listeners = {} /\ pc = "init"
    BY DEF Init
  <1>2. TypeInv
    BY TypeInit
  <1>3. ListenersInv
    BY <1>1, ProxiesAssumption DEF ListenersInv
  <1>4. Blamed("EnvVarConflict") = {} /\ Blamed("PortConflict") = {}
    BY <1>1 DEF Blamed
  <1>5. DOMAIN envVars = {}
    BY <1>1
  <1>6. EnvInv
    BY <1>1, <1>4, <1>5 DEF EnvInv
  <1>7. PortInv
    BY <1>1, <1>4 DEF PortInv, EntriesAreKnown, ListenersAreTaken, ClashesAreBlamed, BlamedClash
  <1>8. ContainersInv
    <2>1. podSpec \in Seq(Containers)
      BY <1>2 DEF TypeInv, InputsOK
    <2>2. Len(podSpec) \in Nat
      BY <2>1, LenProperties
    <2>3. QED
      BY <1>1, <2>1, <2>2 DEF ContainersInv
  <1>9. EnvMatchesListeners
    BY <1>1 DEF EnvMatchesListeners
  <1>10. QED
    BY <1>2, <1>3, <1>6, <1>7, <1>8, <1>9 DEF UpdateInv

LEMMA UpdateInvKept == Spec => []UpdateInv
  <1>1. Init => UpdateInv
    BY UpdateInit
  <1>2. UpdateInv /\ [Next]_vars => UpdateInv'
    BY TypeStep, ListenersStep, EnvStep, PortStep, ContainersStep, ResultStep DEF UpdateInv
  <1>3. QED
    BY <1>1, <1>2, PTL DEF Spec

-----------------------------------------------------------------------------
(***************************************************************************)
(* The theorems                                                            *)
(***************************************************************************)

\* In whatever order the map iteration yields the resources, addWorkloadEnvVar
\* reports a conflict when two instances want different values in one variable,
\* and only then: it compares with the last value only, but without a conflict
\* so far the last value is everybody's.
THEOREM EnvConflictsExact == Spec => []EnvConflictExact
  <1>1. UpdateInv => EnvConflictExact
    <2> SUFFICES ASSUME UpdateInv
                 PROVE  /\ (\E l \in listeners : EnvClash(l)) => Blamed("EnvVarConflict") # {}
                        /\ \A p \in Blamed("EnvVarConflict") :
                              \E l \in listeners : l.proxy = p /\ EnvClash(l)
      BY DEF EnvConflictExact
    <2>1. ASSUME Blamed("EnvVarConflict") = {}, NEW l \in listeners
          PROVE  ~EnvClash(l)
      BY <2>1 DEF UpdateInv, EnvInv, EnvClash
    <2>2. QED
      BY <2>1 DEF UpdateInv, EnvInv
  <1>2. QED
    BY <1>1, UpdateInvKept, PTL

\* useInstancePort reports a conflict when a listener has a port of the
\* application, or two listeners whose connection strings are not repeated in
\* their resources have one port, and only when a listener of the resource at
\* fault shares its port with the application or another listener; for any
\* number of resources in any order.
THEOREM PortConflictsExact == Spec => []PortConflictExact
  <1>1. UpdateInv => PortConflictExact
    <2> SUFFICES ASSUME UpdateInv
                 PROVE  PortConflictExact
      OBVIOUS
    <2>1. ClashesAreBlamed /\ BlamedClash
      BY DEF UpdateInv, PortInv
    <2>2. QED
      BY <2>1 DEF ClashesAreBlamed, BlamedClash, PortConflictExact
  <1>2. QED
    BY <1>1, UpdateInvKept, PTL

\* When ConfigureWorkload succeeds, every instance has one listener, and every
\* container finds it under the names the instance gives.
THEOREM ListenersAreFound == Spec => []EnvMatchesListeners
  <1>1. UpdateInv => EnvMatchesListeners
    BY DEF UpdateInv
  <1>2. QED
    BY <1>1, UpdateInvKept, PTL

=============================================================================
