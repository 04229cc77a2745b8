----------------------------- MODULE Lifecycle -----------------------------
(***************************************************************************)
(* What the reconciler promises about one AuthProxyWorkload, without its   *)
(* cache, its queue, its failures and its requests.                        *)
(*                                                                         *)
(*   absent    there is no resource of this name                           *)
(*   pending   the resource exists and the operator has not adopted it     *)
(*   managed   the operator's finalizer is on it                           *)
(*   deleting  it was deleted and the operator has not let it go           *)
(*   released  the operator let it go, others still hold it                *)
(*                                                                         *)
(* generation is the version of the spec users wrote, observed the one the *)
(* status reports.  A resource the operator adopted cannot vanish behind   *)
(* its back; reports are made on adopted resources only, never go back and *)
(* never run ahead; every new resource of a name starts from nothing.      *)
(***************************************************************************)
EXTENDS Naturals

CONSTANT Keys

VARIABLES phase, generation, observed

vars == <<phase, generation, observed>>

Phases == {"absent", "pending", "managed", "deleting", "released"}

Init ==
    /\ phase = [k \in Keys |-> "absent"]
    /\ generation = [k \in Keys |-> 0]
    /\ observed = [k \in Keys |-> 0]

Move(k, from, to) ==
    /\ phase[k] \in from
    /\ phase' = [phase EXCEPT ![k] = to]

\* The resource of k is gone and so is what was known about it.
Vanish(k, from) ==
    /\ Move(k, from, "absent")
    /\ generation' = [generation EXCEPT ![k] = 0]
    /\ observed' = [observed EXCEPT ![k] = 0]

Create(k) ==
    /\ Move(k, {"absent"}, "pending")
    /\ generation' = [generation EXCEPT ![k] = 1]
    /\ UNCHANGED observed

Edit(k) ==
    /\ phase[k] # "absent"
    /\ generation' = [generation EXCEPT ![k] = @ + 1]
    /\ UNCHANGED <<phase, observed>>

\* Users delete a resource.  One that nobody holds is gone at once.
Delete(k) ==
    \/ Vanish(k, {"pending"})
    \/ /\ \/ Move(k, {"managed"}, "deleting")
          \/ Move(k, {"pending"}, "released")
       /\ generation' = [generation EXCEPT ![k] = @ + 1]
       /\ UNCHANGED observed

\* The operator takes a live resource into its care.
Adopt(k) ==
    /\ Move(k, {"pending"}, "managed")
    /\ UNCHANGED <<generation, observed>>

\* The operator reports a generation.  A report that was under way when the
\* resource was deleted may still arrive.
Report(k) ==
    /\ phase[k] \in {"managed", "deleting"}
    /\ \E g \in observed[k]..generation[k] : observed' = [observed EXCEPT ![k] = g]
    /\ UNCHANGED <<phase, generation>>

\* The operator lets a deleted resource go.
Release(k) ==
    \/ Vanish(k, {"deleting"})
    \/ /\ Move(k, {"deleting"}, "released")
       /\ UNCHANGED <<generation, observed>>

\* The last of the other holders lets it go.
OthersRelease(k) == Vanish(k, {"released"})

Next == \E k \in Keys : \/ Create(k) \/ Edit(k) \/ Delete(k) \/ Adopt(k)
                        \/ Report(k) \/ Release(k) \/ OthersRelease(k)

Spec == Init /\ [][Next]_vars

=============================================================================
