----------------------------- MODULE Operator -----------------------------
(***************************************************************************)
(* The operator as a whole: the reconciler and the pod admission webhook,  *)
(* two parts of one process that share nothing but the informer's cache.   *)
(* The reconciler tells users in the status which workloads are up to      *)
(* date; the webhook adds the proxies to the pods, when they are created   *)
(* and never again.                                                        *)
(*                                                                         *)
(* Handle is split where it reads the cache:                               *)
(*                                                                         *)
(*   list     List of the AuthProxyWorkloads of the pod's namespace        *)
(*   owners   one Get per owner reference, then the answer                 *)
(*                                                                         *)
(* Owner references are static and name workloads by kind and name; a      *)
(* reference may name a workload the informers do not know (existing), one *)
(* that was deleted or one that has not reached them yet.                  *)
(***************************************************************************)
EXTENDS Reconciler, FiniteSets

CONSTANTS Pods,       \* the pods that will be created, in the form of workloads
          OwnerRefs   \* metadata.ownerReferences of pods and workloads

ASSUME OwnerRefsAssumption == OwnerRefs \in [Pods \cup Workloads -> Seq(Workloads)]

\* listOwners follows references without looking back.
ASSUME OwnershipAssumption ==
    \E depth \in [Pods \cup Workloads -> 0..Cardinality(Workloads)] :
        \A o \in Pods \cup Workloads : \A i \in DOMAIN OwnerRefs[o] :
            depth[OwnerRefs[o][i]] < depth[o]

\* listOwners looks for an owner in the namespace of what it owns.
ASSUME OwnerNamespaceAssumption ==
    \A o \in Pods \cup Workloads : \A i \in DOMAIN OwnerRefs[o] : OwnerRefs[o][i].ns = o.ns

VARIABLES request,    \* request[p]: the admission of pod p
          letGo       \* history: the last resource of a key that was released

opVars == <<vars, request, letGo>>

\* A status entry as users saw it: workload up to date for this generation.
Claims == [key : Keys, uid : Nat, gen : Nat, workload : Workloads]

\* What Get leaves of a workload that is not found: an object without a kind.
EmptyObject == [kind |-> "", ns |-> "", name |-> "", labels |-> {}]

\* reported and released are history, taken when the pod was submitted; so are
\* got and missed, the owners that a Get has found and has not found.
NoRequest == [phase |-> "none", seen |-> [k \in Keys |-> NoObject], todo |-> <<>>,
              owners |-> {}, proxies |-> {}, handled |-> FALSE, reported |-> {},
              released |-> [k \in Keys |-> 0], got |-> {}, missed |-> {}]

OperatorInit ==
    /\ Init
    /\ request = [p \in Pods |-> NoRequest]
    /\ letGo = [k \in Keys |-> 0]

\* Handle has returned; what is left is the answer and the pod.
Answer(phase, proxies) ==
    [NoRequest EXCEPT !.phase = phase, !.proxies = proxies, !.handled = TRUE]

Pending(p) == request[p].phase \in {"list", "owners"}

-----------------------------------------------------------------------------
(***************************************************************************)
(* Handle                                                                  *)
(***************************************************************************)

\* The owners of every object of the set are in the set, where the object is
\* not one of lost.
ClosedUnderOwners(os, lost) ==
    \A o \in os \ lost : \A i \in DOMAIN OwnerRefs[o] : OwnerRefs[o][i] \in os

\* The object and everything that references lead to from it, when those of
\* lost are not known: what is in every closed set with the object.
Reachable(p, lost) ==
    {o \in Pods \cup Workloads :
        \A os \in SUBSET (Pods \cup Workloads) :
            p \in os /\ ClosedUnderOwners(os, lost) => o \in os}

\* The object and everything that owns it, the owners' owners included.
SelfAndOwners(p) == Reachable(p, {})

\* What the status of the stored resources says about the workloads of p.
ClaimsAbout(p) ==
    {c \in [key : Keys, uid : {api[k].uid : k \in Keys},
            gen : {api[k].wls[w].gen : k \in Keys, w \in Workloads},
            workload : SelfAndOwners(p) \cap Workloads] :
        /\ api[c.key].exists
        /\ api[c.key].uid = c.uid
        /\ api[c.key].wls[c.workload].listed
        /\ api[c.key].wls[c.workload].gen = c.gen}

\* The API server gets a new pod and calls the webhook.
Submit(p) ==
    /\ request[p].phase = "none"
    /\ request' = [request EXCEPT ![p].phase = "list",
                                  ![p].reported = ClaimsAbout(p),
                                  ![p].released = letGo]

\* List of the AuthProxyWorkloads in the namespace of the pod.
HandleList(p) ==
    /\ request[p].phase = "list"
    /\ request' = [request EXCEPT
           ![p].phase = "owners",
           ![p].seen = [k \in Keys |-> IF k.ns = p.ns THEN cache[k] ELSE NoObject],
           ![p].todo = OwnerRefs[p]]

\* The object of a reference, as WorkloadForKind and Get leave it in owners.
\* A kind the operator does not know is only followed, never an owner.
OwnerObject(w) ==
    IF ~WorkloadForKind(ObjectKind(w)) THEN {}
    ELSE IF w \in existing THEN {w} ELSE {EmptyObject}

\* Mutant: the owners of an owner are not looked for.
listOwners_Direct(p) ==
    /\ request[p].phase = "owners"
    /\ request[p].todo # <<>>
    /\ LET w == Head(request[p].todo) IN
       request' = [request EXCEPT
           ![p].owners = @ \cup OwnerObject(w),
           ![p].got = IF w \in existing THEN @ \cup {w} ELSE @,
           ![p].missed = IF w \in existing THEN @ ELSE @ \cup {w},
           ![p].todo = Tail(@)]

\* One turn of listOwners: Get of the next owner.  An owner that is not found
\* is passed over and its own owners are not looked for.
listOwners(p) ==
    /\ request[p].phase = "owners"
    /\ request[p].todo # <<>>
    /\ LET w == Head(request[p].todo) IN
       request' = [request EXCEPT
           ![p].owners = @ \cup OwnerObject(w),
           ![p].got = IF w \in existing THEN @ \cup {w} ELSE @,
           ![p].missed = IF w \in existing THEN @ ELSE @ \cup {w},
           ![p].todo = IF w \in existing THEN OwnerRefs[w] \o Tail(@) ELSE Tail(@)]

\* Mutant: a resource that is being deleted is applied as well.
filterMatchingInstances_Deleted(seen, w) ==
    {k \in Keys : seen[k].exists /\ workloadMatches(w, seen[k].sel, k.ns)}

\* The listed resources that select w, without those pending deletion.
filterMatchingInstances(seen, w) ==
    {k \in Keys : /\ seen[k].exists
                  /\ workloadMatches(w, seen[k].sel, k.ns)
                  /\ ~seen[k].del}

\* Every resource that selects the pod or an owner of it, once.
FindMatchingAuthProxyWorkloads(seen, wls) ==
    UNION {filterMatchingInstances(seen, w) : w \in wls}

\* The answer, when there is no owner left to get.  ConfigureWorkload accepts
\* or rejects the matching resources (module PodUpdate says when); an error is
\* a denial.  No match is no change.
HandleAnswer(p) ==
    /\ request[p].phase = "owners"
    /\ request[p].todo = <<>>
    /\ LET matches == FindMatchingAuthProxyWorkloads(request[p].seen,
                                                     {p} \cup request[p].owners)
       IN \/ request' = [request EXCEPT ![p] = Answer("admitted", matches)]
          \/ /\ matches # {}
             /\ request' = [request EXCEPT ![p] = Answer("denied", {})]

Handle(p) == HandleList(p) \/ listOwners(p) \/ HandleAnswer(p)

\* Decoding the pod or the List fails (both before anything is known of the
\* pod), or a Get of an owner fails with another error than NotFound (the
\* informer of a kind is started by its first Get): the pod is denied, whether
\* or not a resource selects it.
HandleErrored(p) ==
    /\ Fault
    /\ request[p].phase = "list" \/ (request[p].phase = "owners" /\ request[p].todo # <<>>)
    /\ request' = [request EXCEPT ![p] = Answer("denied", {})]

\* A pod whose call was not answered is created as it was submitted: the
\* webhook's failurePolicy is Ignore.
Unanswered == [NoRequest EXCEPT !.phase = "admitted"]

\* The call takes longer than timeoutSeconds or never reaches the operator.
HandleTimeout(p) ==
    /\ Fault
    /\ Pending(p)
    /\ request' = [request EXCEPT ![p] = Unanswered]

-----------------------------------------------------------------------------

Webhook ==
    /\ \E p \in Pods :
          \/ (Submit(p) \/ Handle(p)) /\ UNCHANGED faults
          \/ HandleErrored(p) \/ HandleTimeout(p)
    /\ UNCHANGED <<clusterVars, workerVars, letGo>>

\* A step that takes the operator's finalizer off a resource lets it go.
RecordRelease ==
    letGo' = [k \in Keys |-> IF api[k].fin /\ ~api'[k].fin THEN api[k].uid ELSE letGo[k]]

Controller ==
    /\ \/ User
       \/ \E k \in Keys : Deliver(k) \/ Relist(k) \/ Dequeue(k)
       \/ Worker
       \/ RequestFails \/ UpdateResponseLost \/ PatchResponseLost
    /\ RecordRelease
    /\ UNCHANGED request

\* Both parts die together, the calls in progress with them.
ProcessCrash ==
    /\ CrashRestart
    /\ request' = [p \in Pods |-> IF Pending(p) THEN Unanswered ELSE request[p]]
    /\ UNCHANGED letGo

OperatorNext == Webhook \/ Controller \/ ProcessCrash

OperatorSpec == OperatorInit /\ [][OperatorNext]_opVars

-----------------------------------------------------------------------------
(***************************************************************************)
(* Properties                                                              *)
(***************************************************************************)

\* Handle returns and its answer lets the pod in.
AdmitsNow(p) == Pending(p) /\ request'[p].phase = "admitted" /\ request'[p].handled

\* The status is a promise to pods created from then on: when it reported a
\* workload as up to date before the pod of that workload was submitted, the
\* webhook decides with that version of the resource or a later one, and with
\* that very version the pod gets the proxy, provided the workload was found
\* among its owners or no owner was missed.  The reconciler and the webhook run side by side on a
\* cache that lags the API server; only that they share it keeps the promise.
ReportedIsConfigured ==
    [][\A p \in Pods : AdmitsNow(p) => \A c \in request[p].reported :
          LET o == request[p].seen[c.key] IN
          \/ o.uid > c.uid
          \/ /\ o.uid = c.uid
             /\ \/ ~o.exists
                \/ o.gen > c.gen
                \/ /\ o.gen = c.gen
                   /\ c.workload \in request[p].owners \/ request[p].missed = {}
                         => c.key \in request'[p].proxies]_opVars

\* Once the operator has let a deleted resource go, no pod submitted later gets
\* its proxy, although the webhook's copy of it may not be gone yet.  A later
\* resource of the same name is another one.
ReleasedIsNotConfigured ==
    [][\A p \in Pods : AdmitsNow(p) => \A k \in request'[p].proxies :
          request[p].seen[k].uid > request[p].released[k]]_opVars

\* The workloads that the decision is made with are the pod's owners, direct and
\* indirect, and all of those of a kind the operator knows, but for those behind
\* an owner that a Get has not found, while owners come and go between the Gets.
OwnersExact ==
    [][\A p \in Pods : AdmitsNow(p) =>
          LET r == request[p] IN
          /\ r.owners \subseteq SelfAndOwners(p) \cup {EmptyObject}
          /\ \A w \in Reachable(p, r.missed) \ ({p} \cup r.missed) :
                WorkloadForKind(ObjectKind(w)) => w \in r.owners]_opVars

-----------------------------------------------------------------------------
(***************************************************************************)
(* What the documentation says and the operator does not keep.             *)
(***************************************************************************)

\* The documentation of the condition UpToDate: the proxy was successfully
\* applied to all matching workloads.
UpToDateIsApplied ==
    \A p \in Pods, k \in Keys :
        request[p].phase = "admitted" /\ request[p].handled
            /\ api[k].exists /\ ~api[k].del /\ ~NeedsWork(k)
            /\ (\E w \in SelfAndOwners(p) \cap existing : /\ api[k].wls[w].listed
                                                         /\ api[k].wls[w].gen = api[k].gen)
        => k \in request[p].proxies

=============================================================================
