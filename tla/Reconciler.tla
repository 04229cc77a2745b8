---------------------------- MODULE Reconciler ----------------------------
(***************************************************************************)
(* AuthProxyWorkloadReconciler: the controller that gives every            *)
(* AuthProxyWorkload its finalizer, reports the observed generation and    *)
(* the matching workloads in the status, and lets a deleted resource go.   *)
(*                                                                         *)
(* One worker takes keys from the controller-runtime workqueue and runs    *)
(* Reconcile.  Reconcile is split where the code talks to the cluster:     *)
(*                                                                         *)
(*   get              r.Get of the resource from the cache                 *)
(*   doDelete         listing the workloads of a deleted resource          *)
(*   removeFinalizer  r.Update without the finalizer                       *)
(*   applyFinalizer   r.Update with the finalizer                          *)
(*   doCreateUpdate   listing the workloads, new status in memory          *)
(*   patchStatus      Status().Patch                                       *)
(*   refetch          r.Get after the patch                                *)
(*                                                                         *)
(* Between two of these steps users change the object, watch events reach  *)
(* the cache and the queue, and the process may crash.                     *)
(***************************************************************************)
EXTENDS ClusterApi

CONSTANT MaxFaults     \* bound on failing requests and crashes

ASSUME FaultsAssumption == MaxFaults \in Nat

VARIABLES queue,            \* the workqueue: a set, a key is queued once
          recentlyDeleted,  \* recentlyDeletedCache.values, FALSE when absent
          pc,               \* where the worker is in Reconcile
          req,              \* the key being reconciled
          orig,             \* resource as it was read (doCreateUpdate's orig)
          res,              \* resource as Reconcile has changed it in memory
          faults            \* faults so far

workerVars == <<queue, recentlyDeleted, pc, req, orig, res>>
vars == <<clusterVars, workerVars, faults>>

Steps == {"get", "doDelete", "removeFinalizer", "applyFinalizer",
          "doCreateUpdate", "patchStatus", "refetch"}

TypeOK ==
    /\ ClusterTypeOK
    /\ queue \subseteq Keys
    /\ recentlyDeleted \in [Keys -> BOOLEAN]
    /\ pc \in Steps \cup {"idle"}
    /\ req \in Keys
    /\ orig \in Objects
    /\ res \in Objects
    /\ faults \in Nat

Init ==
    /\ ClusterInit
    /\ queue = {}
    /\ recentlyDeleted = [k \in Keys |-> FALSE]
    /\ pc = "idle"
    /\ req \in Keys
    /\ orig = NoObject
    /\ res = NoObject
    /\ faults = 0

-----------------------------------------------------------------------------
(***************************************************************************)
(* The controller-runtime workqueue                                        *)
(***************************************************************************)

\* Mutant: an error is logged and dropped.
Done_Forgets(requeue) ==
    /\ pc' = "idle"
    /\ queue' = queue
    /\ orig' = NoObject
    /\ res' = NoObject
    /\ UNCHANGED req

\* The worker is free again.  An error or Requeue: true puts the key back
\* (AddRateLimited, AddAfter; the delay is not modelled).
Done(requeue) ==
    /\ pc' = "idle"
    /\ queue' = IF requeue THEN queue \cup {req} ELSE queue
    /\ orig' = NoObject
    /\ res' = NoObject
    /\ UNCHANGED req

\* The worker takes a key and calls Reconcile.
Dequeue(k) ==
    /\ pc = "idle"
    /\ k \in queue
    /\ queue' = queue \ {k}
    /\ req' = k
    /\ pc' = "get"
    /\ UNCHANGED <<clusterVars, recentlyDeleted, orig, res, faults>>

\* Every event of an AuthProxyWorkload queues its key: SetupWithManager
\* registers For(&AuthProxyWorkload{}) with no predicate.
Deliver(k) ==
    /\ NextEvent(k)
    /\ queue' = queue \cup {k}
    /\ UNCHANGED <<recentlyDeleted, pc, req, orig, res, faults>>

\* A new list is compared with the cache: a resource in neither is no event.
Relist(k) ==
    /\ ListAgain(k)
    /\ queue' = IF cache[k].exists \/ api[k].exists THEN queue \cup {k} ELSE queue
    /\ UNCHANGED <<recentlyDeleted, pc, req, orig, res, faults>>

-----------------------------------------------------------------------------
(***************************************************************************)
(* Status helpers                                                          *)
(***************************************************************************)

\* Mutant: the reason of an unfinished reconcile is reported.
replaceCondition_Started(old, gen, reason, count) ==
    [set |-> TRUE, gen |-> gen, reason |-> "StartedReconcile",
     time |-> IF old.set THEN old.time ELSE now, count |-> count]

\* Mutant: a condition whose status does not change is left as it is.
replaceCondition_Keeps(old, gen, reason, count) ==
    IF old.set THEN old
    ELSE [set |-> TRUE, gen |-> gen, reason |-> reason, time |-> now, count |-> count]

\* replaceCondition for a condition whose status is always True: the time of
\* an existing condition is kept, a new condition gets the current time.
replaceCondition(old, gen, reason, count) ==
    [set |-> TRUE, gen |-> gen, reason |-> reason,
     time |-> IF old.set THEN old.time ELSE now, count |-> count]

\* newStatus and the condition WorkloadUpToDate that updateWorkloadStatus adds
\* to it: the entry is built from nothing, so its condition is always new.
newStatus(gen) == [listed |-> TRUE, gen |-> gen, time |-> now]

\* Mutant: entries of earlier reconciles are refreshed as well.
replaceStatus_All(wls, matching, gen) ==
    [w \in Workloads |-> IF w \in matching \/ wls[w].listed THEN newStatus(gen)
                                                           ELSE wls[w]]

\* replaceStatus for every workload that was listed.  Entries of other
\* workloads stay as they are.
replaceStatus(wls, matching, gen) ==
    [w \in Workloads |-> IF w \in matching THEN newStatus(gen) ELSE wls[w]]

\* listWorkloads for the resource being reconciled.
Matching == listWorkloads(existing, res.sel, req.ns)

\* updateWorkloadStatus: the resource in memory with its new WorkloadStatus.
updateWorkloadStatus(o, matching) ==
    [o EXCEPT !.wls = replaceStatus(@, matching, o.gen)]

\* reconcileResult up to the patch: the condition UpToDate for this result,
\* whose message says how many workloads there are.
reconcileResult(o, matching) ==
    [o EXCEPT !.cond = replaceCondition(@, o.gen,
                  IF matching = {} THEN "NoWorkloadsFound" ELSE "FinishedReconcile",
                  Cardinality(matching))]

-----------------------------------------------------------------------------
(***************************************************************************)
(* Reconcile                                                               *)
(***************************************************************************)

\* The resource is not in the cache: nothing to do when it was recently
\* deleted, otherwise an error and another try.
ReconcileNotFound ==
    /\ pc = "get"
    /\ ~cache[req].exists
    /\ Done(~recentlyDeleted[req])
    /\ UNCHANGED <<clusterVars, recentlyDeleted, faults>>

\* The resource is being deleted: on to doDelete.
ReconcileDelete ==
    /\ pc = "get"
    /\ cache[req].exists
    /\ cache[req].del
    /\ recentlyDeleted' = [recentlyDeleted EXCEPT ![req] = TRUE]
    /\ pc' = "doDelete"
    /\ orig' = cache[req]
    /\ res' = cache[req]
    /\ UNCHANGED <<clusterVars, queue, req, faults>>

\* Mutant: the status is written before the finalizer is there.
ReconcileCreateUpdate_NoFinalizer ==
    /\ pc = "get"
    /\ cache[req].exists
    /\ ~cache[req].del
    /\ recentlyDeleted' = [recentlyDeleted EXCEPT ![req] = FALSE]
    /\ pc' = IF cache[req].fin \/ ~cache[req].cond.set
             THEN "doCreateUpdate" ELSE "applyFinalizer"
    /\ orig' = cache[req]
    /\ res' = [cache[req] EXCEPT !.fin = TRUE]
    /\ UNCHANGED <<clusterVars, queue, req, faults>>

\* Mutant: the resource is read from the API server instead of the cache.
ReconcileCreateUpdate_Live ==
    /\ pc = "get"
    /\ cache[req].exists
    /\ ~cache[req].del
    /\ recentlyDeleted' = [recentlyDeleted EXCEPT ![req] = FALSE]
    /\ pc' = IF api[req].fin THEN "doCreateUpdate" ELSE "applyFinalizer"
    /\ orig' = api[req]
    /\ res' = [api[req] EXCEPT !.fin = TRUE]
    /\ UNCHANGED <<clusterVars, queue, req, faults>>

\* The resource lives: doCreateUpdate adds the finalizer if it is missing and
\* goes on to the workloads otherwise.
ReconcileCreateUpdate ==
    /\ pc = "get"
    /\ cache[req].exists
    /\ ~cache[req].del
    /\ recentlyDeleted' = [recentlyDeleted EXCEPT ![req] = FALSE]
    /\ pc' = IF cache[req].fin THEN "doCreateUpdate" ELSE "applyFinalizer"
    /\ orig' = cache[req]
    /\ res' = [cache[req] EXCEPT !.fin = TRUE]
    /\ UNCHANGED <<clusterVars, queue, req, faults>>

\* doDelete and doCreateUpdate when listWorkloads fails: an error, try again.
ListWorkloadsError ==
    /\ pc \in {"doDelete", "doCreateUpdate"}
    /\ ~Matching.ok
    /\ Done(TRUE)
    /\ UNCHANGED <<clusterVars, recentlyDeleted, faults>>

\* doDelete up to the Update: without the finalizer there is none to send.
doDelete ==
    /\ pc = "doDelete"
    /\ Matching.ok
    /\ \/ /\ res.fin
          /\ pc' = "removeFinalizer"
          /\ res' = [updateWorkloadStatus(res, Matching.items) EXCEPT !.fin = FALSE]
          /\ UNCHANGED <<queue, req, orig>>
       \/ /\ ~res.fin
          /\ Done(FALSE)
    /\ UNCHANGED <<clusterVars, recentlyDeleted, faults>>

\* Mutant: orig is a shallow copy that shares the WorkloadStatus slice.
doCreateUpdate_Shallow ==
    /\ pc = "doCreateUpdate"
    /\ Matching.ok
    /\ res' = reconcileResult(updateWorkloadStatus(res, Matching.items), Matching.items)
    /\ orig' = [orig EXCEPT !.wls = updateWorkloadStatus(res, Matching.items).wls]
    /\ pc' = "patchStatus"
    /\ UNCHANGED <<clusterVars, queue, recentlyDeleted, req, faults>>

\* doCreateUpdate up to the patch.
doCreateUpdate ==
    /\ pc = "doCreateUpdate"
    /\ Matching.ok
    /\ res' = reconcileResult(updateWorkloadStatus(res, Matching.items), Matching.items)
    /\ pc' = "patchStatus"
    /\ UNCHANGED <<clusterVars, queue, recentlyDeleted, req, orig, faults>>

\* Mutant: the resourceVersion is cleared, so that the Update cannot conflict.
Update_Unconditional ==
    /\ pc \in {"applyFinalizer", "removeFinalizer"}
    /\ \/ /\ api[req].exists
          /\ Store(req, UpdateOf(req, res))
          /\ Done(pc = "applyFinalizer")
       \/ /\ ~api[req].exists
          /\ UNCHANGED <<api, watch>>
          /\ Done(TRUE)
    /\ UNCHANGED <<cache, existing, now, userOps, recentlyDeleted, faults>>

\* r.Update in applyFinalizer and in doDelete.  applyFinalizer asks for
\* another round in every case, doDelete only after an error.
Update ==
    /\ pc \in {"applyFinalizer", "removeFinalizer"}
    /\ \/ /\ UpdateAccepted(req, res)
          /\ Store(req, UpdateOf(req, res))
          /\ Done(pc = "applyFinalizer")
       \/ /\ ~UpdateAccepted(req, res)
          /\ UNCHANGED <<api, watch>>
          /\ Done(TRUE)
    /\ UNCHANGED <<cache, existing, now, userOps, recentlyDeleted, faults>>

\* patchAuthProxyWorkloadStatus, first half.
patchStatus ==
    /\ pc = "patchStatus"
    /\ \/ /\ api[req].exists
          /\ ApplyPatch(req, res, orig)
          /\ pc' = "refetch"
          /\ UNCHANGED <<queue, req, orig, res>>
       \/ /\ ~api[req].exists
          /\ UNCHANGED <<api, watch>>
          /\ Done(TRUE)
    /\ UNCHANGED <<cache, existing, now, userOps, recentlyDeleted, faults>>

\* Mutant: a finished reconcile asks for another one.
refetch_Requeues ==
    /\ pc = "refetch"
    /\ Done(TRUE)
    /\ UNCHANGED <<clusterVars, recentlyDeleted, faults>>

\* patchAuthProxyWorkloadStatus, second half: Get into orig; the error of a
\* missing resource is returned, the object itself is not used.
refetch ==
    /\ pc = "refetch"
    /\ Done(~cache[req].exists)
    /\ UNCHANGED <<clusterVars, recentlyDeleted, faults>>

-----------------------------------------------------------------------------
(***************************************************************************)
(* Faults                                                                  *)
(***************************************************************************)

Fault ==
    /\ faults < MaxFaults
    /\ faults' = faults + 1

\* A request fails before it has an effect; every one of these error paths
\* requeues.  Reads of the resource itself come from a synced informer and
\* fail with NotFound only; the informer of a workload kind is started by the
\* first list of that kind, which can fail.
RequestFails ==
    /\ Fault
    /\ pc \in Steps \ {"get", "refetch"}
    /\ Done(TRUE)
    /\ UNCHANGED <<clusterVars, recentlyDeleted>>

\* An Update is stored and its response is lost.
UpdateResponseLost ==
    /\ Fault
    /\ pc \in {"applyFinalizer", "removeFinalizer"}
    /\ UpdateAccepted(req, res)
    /\ Store(req, UpdateOf(req, res))
    /\ Done(TRUE)
    /\ UNCHANGED <<cache, existing, now, userOps, recentlyDeleted>>

\* A status patch is stored and its response is lost.
PatchResponseLost ==
    /\ Fault
    /\ pc = "patchStatus"
    /\ api[req].exists
    /\ ApplyPatch(req, res, orig)
    /\ Done(TRUE)
    /\ UNCHANGED <<cache, existing, now, userOps, recentlyDeleted>>

\* The process dies and a new one starts: it lists all objects, queues every
\* one, and knows of no recent deletion.
CrashRestart ==
    /\ Fault
    /\ ListAll
    /\ queue' = {k \in Keys : api[k].exists}
    /\ recentlyDeleted' = [k \in Keys |-> FALSE]
    /\ pc' = "idle"
    /\ orig' = NoObject
    /\ res' = NoObject
    /\ UNCHANGED req

-----------------------------------------------------------------------------

User ==
    /\ \/ \E k \in Keys, sel \in Selectors, hold \in BOOLEAN : Create(k, sel, hold)
       \/ \E k \in Keys, sel \in Selectors : EditSpec(k, sel)
       \/ \E k \in Keys : Delete(k)
       \/ \E k \in Keys : ReleaseHold(k)
       \/ \E w \in Workloads : ToggleWorkload(w)
       \/ Tick
    /\ UNCHANGED <<workerVars, faults>>

\* One step of Reconcile.
Worker == \/ ReconcileNotFound \/ ReconcileDelete \/ ReconcileCreateUpdate
          \/ ListWorkloadsError \/ doDelete \/ doCreateUpdate
          \/ Update \/ patchStatus \/ refetch

Failure == RequestFails \/ UpdateResponseLost \/ PatchResponseLost \/ CrashRestart

Next == \/ User
        \/ \E k \in Keys : Deliver(k) \/ Relist(k)
        \/ \E k \in Keys : Dequeue(k)
        \/ Worker
        \/ Failure

Spec == Init /\ [][Next]_vars

\* The worker goroutine runs on, watch events arrive, and the workqueue, a
\* FIFO, passes over no key forever.  Nothing is assumed of users or faults.
Fairness ==
    /\ WF_vars(Worker)
    /\ \A k \in Keys : WF_vars(Deliver(k)) /\ SF_vars(Dequeue(k))

FairSpec == Spec /\ Fairness

-----------------------------------------------------------------------------
(***************************************************************************)
(* Properties                                                              *)
(***************************************************************************)

\* The stored resource is not in a state Reconcile may leave it in: a live one
\* without the finalizer or without a status for its generation, or a deleted
\* one that the finalizer still keeps.
NeedsWork(k) ==
    /\ api[k].exists
    /\ IF api[k].del
       THEN api[k].fin
       ELSE ~(api[k].fin /\ api[k].cond.set /\ api[k].cond.gen = api[k].gen)

\* The worker is in the middle of Reconcile for k.
Reconciling(k) == pc # "idle" /\ req = k

\* No wakeup is lost: whenever a resource needs work, its key is queued, being
\* reconciled, or a watch event that will queue it is on its way.  It is about
\* the returns of Reconcile that do not requeue (recently deleted, deletion
\* without finalizer, finalizer removed, status patched, stale cache included).
NoLostWork ==
    \A k \in Keys : NeedsWork(k) => k \in queue \/ Reconciling(k) \/ watch[k] # <<>>

\* The status never claims a generation that the stored resource has not
\* reached.  The status patch carries no resourceVersion and addresses the
\* resource by name, so only the finalizer keeps a patch computed from an
\* older resource from landing on a re-created one of the same name.
ObservedGenerationSound ==
    \A k \in Keys : api[k].exists =>
        /\ api[k].cond.gen <= api[k].gen
        /\ \A w \in Workloads : api[k].wls[w].gen <= api[k].gen

\* A workload reported for the current generation is one that the current
\* spec selects, whatever was edited while it was being listed.
WorkloadStatusMatchesSpec ==
    \A k \in Keys, w \in Workloads :
        api[k].exists /\ api[k].wls[w].listed /\ api[k].wls[w].gen = api[k].gen
            => w \in listWorkloads(Workloads, api[k].sel, k.ns).items

\* The reason FinishedReconcile is backed by a workload reported for the same
\* generation, although conditions and WorkloadStatus are patched separately
\* and each only where it differs from the possibly stale resource read.
ReasonBacked ==
    \A k \in Keys :
        api[k].exists /\ api[k].cond.reason = "FinishedReconcile"
            => \E w \in Workloads : /\ api[k].wls[w].listed
                                    /\ api[k].wls[w].gen = api[k].cond.gen

\* A step of the operator never undoes what users did: it leaves the spec, the
\* deletion mark and other finalizers alone, and it removes only a resource
\* that was deleted.  The operator's Updates replace the whole object.
UserIntentPreserved ==
    [][pc' # pc => \A k \in Keys :
          \/ ~api'[k].exists /\ (api[k].exists => api[k].del /\ ~api[k].hold)
          \/ /\ api'[k].exists = api[k].exists
             /\ api'[k].uid = api[k].uid
             /\ api'[k].sel = api[k].sel
             /\ api'[k].gen = api[k].gen
             /\ api'[k].del = api[k].del
             /\ api'[k].hold = api[k].hold]_vars

\* Every resource that needs work gets it: the finalizer and the status of the
\* latest generation are written, a deleted resource is let go.
WorkIsDone == \A k \in Keys : NeedsWork(k) ~> ~NeedsWork(k)

\* The controller comes to rest: a resource that is never deleted is eventually
\* neither queued nor reconciled, although each of its own status writes is an
\* event that queues the key again.  (The clock stops in the model; a tick
\* between every write and its event would keep the loop alive.  A resync of
\* the informer is left out: it delivers the unchanged object again, which
\* wakes the controller for a new time in the status, and a new rest.)
Quiesces ==
    \A k \in Keys :
        <>[](api[k].exists) => <>[](k \notin queue /\ ~Reconciling(k))

-----------------------------------------------------------------------------
(***************************************************************************)
(* What comments and documentation say and the reconciler does not keep.   *)
(***************************************************************************)

\* The comment of doDelete: it removes our finalizer when the loop receives a
\* resource that was deleted.
DeletedIsReleased ==
    \A k \in Keys : (api[k].del /\ api[k].fin) ~> ~(api[k].del /\ api[k].fin)

\* The comment in Reconcile: the error of a resource that was recently deleted
\* is ignored and the key is not requeued.
DeletedIsForgotten ==
    \A k \in Keys : <>[](~api[k].exists) => <>[](k \notin queue)

=============================================================================
