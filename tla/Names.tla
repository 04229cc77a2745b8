------------------------------- MODULE Names -------------------------------
(***************************************************************************)
(* ContainerName: the names of the proxy containers of one pod.  A         *)
(* resource's name may be as long as the API server allows, a container's  *)
(* name may not, so long names are cut in the middle and get a checksum.   *)
(* The pod is rejected when two of its containers have the same name or    *)
(* one of them is no DNS label.                                            *)
(*                                                                         *)
(* A string is a sequence of characters.  A character is a digit or a      *)
(* lower case letter, an upper case one counted from Letters on, the dash  *)
(* or the dot.  The first characters are the digits of the checksum's      *)
(* base.                                                                   *)
(***************************************************************************)
EXTENDS Integers, Sequences, FiniteSets

CONSTANTS Letters,         \* number of digits and letters; 36 in the code
          Base,            \* base of the checksum in print; 16 in the code
          maxNameLen,      \* 63 in the code
          ContainerPrefix, \* "csql-" in the code
          Namespace,       \* namespace of the pod and of its resources
          ResourceNames,   \* metadata.name of AuthProxyWorkloads
          MaxResources,    \* bound on the resources of one pod
          mustHash(_)      \* checksum of a string; any function will do

Dash == -1
Dot == -2
Alnum == 0..(Letters - 1)
Digits == 0..(Base - 1)

IsAlnum(c) == c \in Alnum

\* A DNS label: what Kubernetes asks of a container's name.
IsLabel(s) ==
    /\ Len(s) \in 1..maxNameLen
    /\ \A i \in DOMAIN s : IsAlnum(s[i]) \/ s[i] = Dash
    /\ IsAlnum(s[1]) /\ IsAlnum(s[Len(s)])

HasPrefix(s, prefix) ==
    Len(s) >= Len(prefix) /\ SubSeq(s, 1, Len(prefix)) = prefix

ASSUME BaseAssumption == Base \in Nat \ {0, 1} /\ Letters \in Nat /\ Base <= Letters

ASSUME BoundsAssumption == maxNameLen \in Nat /\ MaxResources \in Nat

ASSUME NamesAssumption ==
    /\ {ContainerPrefix, Namespace} \subseteq Seq(Alnum \cup {Dash})
    /\ ContainerPrefix # <<>> /\ IsAlnum(ContainerPrefix[1])
    /\ IsLabel(Namespace)
    /\ ResourceNames \subseteq Seq(Alnum \cup {Dash, Dot})
    /\ \A n \in ResourceNames : n # <<>> /\ IsAlnum(n[1]) /\ IsAlnum(n[Len(n)])

VARIABLE resources         \* names of the resources that select the pod

Init == resources = {}

\* One more resource selects the pod.
Select(n) ==
    /\ Cardinality(resources) < MaxResources
    /\ n \notin resources
    /\ resources' = resources \cup {n}

Done == Cardinality(resources) = MaxResources /\ UNCHANGED resources

Next == (\E n \in ResourceNames : Select(n)) \/ Done

Spec == Init /\ [][Next]_resources

-----------------------------------------------------------------------------
(***************************************************************************)
(* SafePrefixedName                                                        *)
(***************************************************************************)

ToLower(s) == [i \in DOMAIN s |-> IF s[i] >= Letters THEN s[i] - Letters ELSE s[i]]

\* Sprintf("%x"): no leading zeros, so the length depends on the value.
Printed[n \in Nat] ==
    IF n < Base THEN <<n>> ELSE Append(Printed[n \div Base], n % Base)

\* Mutant: the checksum is not set apart from the name.
hashSuffix_NoDash(instName) == Printed[mustHash(instName)]

hashSuffix(instName) == <<Dash>> \o Printed[mustHash(instName)]

\* Mutant: the suffix is forgotten in the sum.
truncateLen_NoSuffix(prefix, instName) == (maxNameLen - Len(prefix)) \div 2

\* How much of the name is kept at either end.
truncateLen(prefix, instName) ==
    (maxNameLen - Len(hashSuffix(instName)) - Len(prefix)) \div 2

TooLong(prefix, instName) == Len(instName) + Len(prefix) > maxNameLen

SafePrefixedName(prefix, instName) ==
    LET t == truncateLen(prefix, instName)
        short == SubSeq(instName, 1, t)
                     \o SubSeq(instName, Len(instName) - t + 1, Len(instName))
                     \o hashSuffix(instName)
    IN ToLower(prefix \o IF TooLong(prefix, instName) THEN short ELSE instName)

InstName(n) == Namespace \o <<Dash>> \o n

\* ContainerName and ContainerNameFromNamespacedName.
ContainerName(n) == SafePrefixedName(ContainerPrefix, InstName(n))

\* Prefix and checksum leave room for the name: 5 + 9 of 63 characters.
ASSUME ChecksumAssumption ==
    \A n \in ResourceNames :
        /\ mustHash(InstName(n)) \in Nat
        /\ Len(ContainerPrefix) + Len(hashSuffix(InstName(n))) <= maxNameLen

-----------------------------------------------------------------------------
(***************************************************************************)
(* Properties                                                              *)
(***************************************************************************)

\* The container of every resource without a dot in its name has a valid name,
\* whatever the length of the name and of the printed checksum, and a name that
\* update recognises as the operator's.  (A dot is legal in a resource's name
\* and ContainerName leaves it in place.)
ContainerNameValid ==
    \A n \in resources :
        /\ HasPrefix(ContainerName(n), ContainerPrefix)
        /\ (\A i \in DOMAIN n : n[i] # Dot) => IsLabel(ContainerName(n))

Shortened(n) == TooLong(ContainerPrefix, InstName(n))

\* Shortening preserves uniqueness as far as the checksum does: two resources of
\* a pod share a container name only if a shortened name is involved, and two
\* shortened names are equal only if the checksums are, although the place of
\* both cuts moves with the length of the printed checksum.
UniqueUpToChecksum ==
    \A m, n \in resources :
        m # n /\ ContainerName(m) = ContainerName(n) =>
            /\ Shortened(m) \/ Shortened(n)
            /\ Shortened(m) /\ Shortened(n)
                   => mustHash(InstName(m)) = mustHash(InstName(n))

=============================================================================
