----------------------- MODULE ReconcilerRefinement -----------------------
(***************************************************************************)
(* The reconciler over a lagging cache, with its retries and its failures, *)
(* implements Lifecycle.                                                   *)
(***************************************************************************)
EXTENDS Reconciler

\* The phase of a resource is written in its finalizers and deletion mark.
PhaseOf(o) ==
    CASE ~o.exists                -> "absent"
      [] o.exists /\ o.del /\ o.fin   -> "deleting"
      [] o.exists /\ o.del /\ ~o.fin  -> "released"
      [] o.exists /\ ~o.del /\ o.fin  -> "managed"
      [] o.exists /\ ~o.del /\ ~o.fin -> "pending"

L == INSTANCE Lifecycle WITH
         phase      <- [k \in Keys |-> PhaseOf(api[k])],
         generation <- [k \in Keys |-> api[k].gen],
         observed   <- [k \in Keys |-> api[k].cond.gen]

\* Every behaviour of the reconciler is one of Lifecycle: a resource is adopted
\* before anything is reported on it, an adopted one is removed only after its
\* deletion and by the operator's own release, a report never overtakes the
\* spec, and the observed generation of one resource never goes back, although
\* reports are computed from a stale cache, retried, stored with their response
\* lost, and sent without a resourceVersion.
ImplementsLifecycle == L!Spec

=============================================================================
