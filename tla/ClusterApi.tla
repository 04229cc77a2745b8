---------------------------- MODULE ClusterApi ----------------------------
(***************************************************************************)
(* The part of Kubernetes the operator talks to, as far as the operator    *)
(* can tell: the API server's AuthProxyWorkload objects, the watch that    *)
(* carries every stored version to the informer, the informer's cache, the *)
(* workloads of the cluster, and the users who create, edit and delete     *)
(* these objects.  Everything here is external to the operator; it is      *)
(* modelled from how client.Client is used in the controller package.      *)
(*                                                                         *)
(* An object of a key that does not exist keeps its uid and rv, so that    *)
(* both only grow over the lifetime of a key, deletes and re-creates       *)
(* included.  Generation, deletion timestamp and the status subresource    *)
(* follow the API server: a spec change and the start of a graceful        *)
(* deletion bump gen, an Update never changes the status, a status Patch   *)
(* never changes anything else, a deleted object lives until its last      *)
(* finalizer is gone.                                                      *)
(***************************************************************************)
EXTENDS Naturals, Sequences, FiniteSets, WorkloadSelection

CONSTANTS Keys,        \* namespaced names, records with a field ns
          Selectors,   \* values of spec.workloadSelector
          Workloads,   \* workloads that may exist in the cluster
          MaxUserOps,  \* bound on the actions of users
          MaxTime      \* bound on the clock

ASSUME KeysAssumption == Keys # {}
ASSUME SelectorsAssumption == Selectors # {}
ASSUME SelectorSpecAssumption == Selectors \subseteq WorkloadSelectorSpec
ASSUME BoundsAssumption == MaxUserOps \in Nat /\ MaxTime \in Nat

VARIABLES api,         \* api[k]: the object as stored by the API server
          watch,       \* watch[k]: versions stored and not yet delivered
          cache,       \* cache[k]: the informer's copy of the object
          existing,    \* the workloads that exist, as the informers know them
          now,         \* seconds; a metav1.Time has no finer grain
          userOps      \* user actions so far

clusterVars == <<api, watch, cache, existing, now, userOps>>

Reasons == {"None", "NoWorkloadsFound", "FinishedReconcile"}

\* status.conditions: only the condition UpToDate is ever written, always
\* with status True.  time is its lastTransitionTime, count the number of
\* workloads in its message.
Conditions == [set : BOOLEAN, gen : Nat, reason : Reasons, time : Nat,
               count : {Cardinality(S) : S \in SUBSET Workloads}]
NoCondition == [set |-> FALSE, gen |-> 0, reason |-> "None", time |-> 0, count |-> 0]

\* An entry of status.WorkloadStatus with its condition WorkloadUpToDate.
WorkloadStatuses == [listed : BOOLEAN, gen : Nat, time : Nat]
NotListed == [listed |-> FALSE, gen |-> 0, time |-> 0]

Objects == [exists : BOOLEAN,
            uid    : Nat,          \* identity of one create
            rv     : Nat,          \* metadata.resourceVersion
            gen    : Nat,          \* metadata.generation
            fin    : BOOLEAN,      \* the operator's finalizer
            hold   : BOOLEAN,      \* a finalizer of somebody else
            del    : BOOLEAN,      \* deletionTimestamp is set
            sel    : Selectors,    \* spec.workloadSelector
            cond   : Conditions,
            wls    : [Workloads -> WorkloadStatuses]]

NoObject == [exists |-> FALSE, uid |-> 0, rv |-> 0, gen |-> 0, fin |-> FALSE,
             hold |-> FALSE, del |-> FALSE, sel |-> CHOOSE s \in Selectors : TRUE,
             cond |-> NoCondition, wls |-> [w \in Workloads |-> NotListed]]

ClusterTypeOK ==
    /\ api \in [Keys -> Objects]
    /\ watch \in [Keys -> Seq(Objects)]
    /\ cache \in [Keys -> Objects]
    /\ existing \subseteq Workloads
    /\ now \in Nat
    /\ userOps \in Nat

ClusterInit ==
    /\ api = [k \in Keys |-> NoObject]
    /\ watch = [k \in Keys |-> <<>>]
    /\ cache = [k \in Keys |-> NoObject]
    /\ existing \in SUBSET Workloads
    /\ now = 0
    /\ userOps = 0

-----------------------------------------------------------------------------
(***************************************************************************)
(* Requests to the API server                                              *)
(***************************************************************************)

\* A new stored version of an object has the next resourceVersion.
Bump(o) == [o EXCEPT !.rv = @ + 1]

\* What is left of a key when its object is removed from storage.
Removed(o) == [NoObject EXCEPT !.uid = o.uid, !.rv = o.rv + 1]

\* The API server stores o for k and sends it to the watch.
Store(k, o) ==
    /\ api' = [api EXCEPT ![k] = o]
    /\ watch' = [watch EXCEPT ![k] = Append(@, o)]

\* client.Update is optimistic: the object must exist with the resourceVersion
\* that was read, otherwise NotFound or Conflict is returned.
UpdateAccepted(k, o) == api[k].exists /\ api[k].rv = o.rv

\* The object a PUT of o stores: finalizers and spec are those of the request,
\* the status is the one already stored.
UpdateOf(k, o) ==
    IF api[k].del /\ ~o.fin /\ ~o.hold
    THEN Removed(api[k])
    ELSE Bump([api[k] EXCEPT !.fin = o.fin, !.hold = o.hold, !.sel = o.sel,
                             !.gen = IF o.sel = api[k].sel THEN @ ELSE @ + 1])

\* Status().Patch with client.MergeFrom(from): the JSON merge patch holds the
\* lists in which o differs from from, each in full, and no resourceVersion.
\* It is applied to whatever object has that name.
PatchOf(k, o, from) ==
    [api[k] EXCEPT !.cond = IF o.cond # from.cond THEN o.cond ELSE @,
                   !.wls = IF o.wls # from.wls THEN o.wls ELSE @]

\* A patch that changes nothing stores no version and sends no event.
ApplyPatch(k, o, from) ==
    IF PatchOf(k, o, from) = api[k]
    THEN UNCHANGED <<api, watch>>
    ELSE Store(k, Bump(PatchOf(k, o, from)))

-----------------------------------------------------------------------------
(***************************************************************************)
(* Users and the rest of the cluster.  ValidateCreate, ValidateUpdate,     *)
(* ValidateDelete and Default of the AuthProxyWorkload webhook accept      *)
(* everything and change nothing.                                          *)
(***************************************************************************)

UserStep ==
    /\ userOps < MaxUserOps
    /\ userOps' = userOps + 1

\* kubectl create; hold says that somebody else adds a finalizer as well.
Create(k, sel, hold) ==
    /\ UserStep
    /\ ~api[k].exists
    /\ Store(k, [NoObject EXCEPT !.exists = TRUE, !.uid = api[k].uid + 1,
                                 !.rv = api[k].rv + 1, !.gen = 1,
                                 !.hold = hold, !.sel = sel])
    /\ UNCHANGED <<cache, existing, now>>

EditSpec(k, sel) ==
    /\ UserStep
    /\ api[k].exists
    /\ sel # api[k].sel
    /\ Store(k, Bump([api[k] EXCEPT !.sel = sel, !.gen = @ + 1]))
    /\ UNCHANGED <<cache, existing, now>>

\* kubectl delete: an object with a finalizer is marked, any other is removed.
Delete(k) ==
    /\ UserStep
    /\ api[k].exists /\ ~api[k].del
    /\ Store(k, IF api[k].fin \/ api[k].hold
                THEN Bump([api[k] EXCEPT !.del = TRUE, !.gen = @ + 1])
                ELSE Removed(api[k]))
    /\ UNCHANGED <<cache, existing, now>>

\* The other party takes its finalizer off.
ReleaseHold(k) ==
    /\ UserStep
    /\ api[k].exists /\ api[k].hold
    /\ Store(k, IF api[k].del /\ ~api[k].fin
                THEN Removed(api[k])
                ELSE Bump([api[k] EXCEPT !.hold = FALSE]))
    /\ UNCHANGED <<cache, existing, now>>

\* A workload is created or deleted.
ToggleWorkload(w) ==
    /\ UserStep
    /\ existing' = IF w \in existing THEN existing \ {w} ELSE existing \cup {w}
    /\ UNCHANGED <<api, watch, cache, now>>

Tick ==
    /\ now < MaxTime
    /\ now' = now + 1
    /\ UNCHANGED <<api, watch, cache, existing, userOps>>

-----------------------------------------------------------------------------
(***************************************************************************)
(* The informer                                                            *)
(***************************************************************************)

\* One watch event reaches the cache.
NextEvent(k) ==
    /\ watch[k] # <<>>
    /\ cache' = [cache EXCEPT ![k] = Head(watch[k])]
    /\ watch' = [watch EXCEPT ![k] = Tail(@)]
    /\ UNCHANGED <<api, existing, now, userOps>>

\* The watch broke: a new list replaces the cached object by the stored one
\* and the versions in between are never seen.
ListAgain(k) ==
    /\ watch[k] # <<>>
    /\ cache' = [cache EXCEPT ![k] = api[k]]
    /\ watch' = [watch EXCEPT ![k] = <<>>]
    /\ UNCHANGED <<api, existing, now, userOps>>

\* A new process lists everything before it starts its workers.
ListAll ==
    /\ cache' = api
    /\ watch' = [k \in Keys |-> <<>>]
    /\ UNCHANGED <<api, existing, now, userOps>>

=============================================================================
