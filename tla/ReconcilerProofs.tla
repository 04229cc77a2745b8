------------------------- MODULE ReconcilerProofs -------------------------
(***************************************************************************)
(* Proofs about Reconciler, for any set of keys, selectors and workloads   *)
(* and any bounds.                                                         *)
(***************************************************************************)
EXTENDS Reconciler, SelectionProofs, SequenceTheorems, FiniteSetTheorems, TLAPS

-----------------------------------------------------------------------------
(***************************************************************************)
(* Types                                                                   *)
(***************************************************************************)

\* The object of a key that was never created is an object.
LEMMA NoObjectType == NoObject \in Objects
  <1>1. (CHOOSE s \in Selectors : TRUE) \in Selectors
    BY SelectorsAssumption
  <1>2. NoCondition \in Conditions
    BY FS_EmptySet DEF NoCondition, Conditions, Reasons
  <1>3. QED
    BY <1>1, <1>2 DEF NoObject, Objects, NotListed, WorkloadStatuses

\* The versions the API server stores are objects again: a bumped one and the
\* remains of a removed one.
LEMMA StoredTypes ==
  ASSUME NEW o \in Objects
  PROVE  /\ Bump(o) \in Objects
         /\ Removed(o) \in Objects
  <1>1. Bump(o) \in Objects
    BY DEF Bump, Objects
  <1>2. Removed(o) \in Objects
    <2>1. o.uid \in Nat /\ o.rv + 1 \in Nat
      BY DEF Objects
    <2>2. QED
      BY <2>1, NoObjectType DEF Removed, Objects
  <1>3. QED
    BY <1>1, <1>2

\* A PUT and a status patch of objects store objects.
LEMMA WriteTypes ==
  ASSUME TypeOK, NEW k \in Keys, NEW o \in Objects, NEW from \in Objects
  PROVE  /\ UpdateOf(k, o) \in Objects
         /\ PatchOf(k, o, from) \in Objects
  <1>1. api[k] \in Objects
    BY DEF TypeOK, ClusterTypeOK
  <1>2. [api[k] EXCEPT !.fin = o.fin, !.hold = o.hold, !.sel = o.sel,
                       !.gen = IF o.sel = api[k].sel THEN @ ELSE @ + 1] \in Objects
    <2>1. (IF o.sel = api[k].sel THEN api[k].gen ELSE api[k].gen + 1) \in Nat
      BY <1>1 DEF Objects
    <2>2. o.fin \in BOOLEAN /\ o.hold \in BOOLEAN /\ o.sel \in Selectors
      BY DEF Objects
    <2>3. ASSUME NEW g \in Nat, NEW f \in BOOLEAN, NEW h \in BOOLEAN, NEW s \in Selectors
          PROVE  [api[k] EXCEPT !.fin = f, !.hold = h, !.sel = s, !.gen = g] \in Objects
      BY <1>1 DEF Objects
    <2>4. QED
      BY <2>1, <2>2, <2>3
  <1>3. PatchOf(k, o, from) \in Objects
    BY <1>1 DEF PatchOf, Objects
  <1>4. QED
    BY <1>1, <1>2, <1>3, StoredTypes DEF UpdateOf

\* The status helpers of the controller keep a resource a resource.
LEMMA StatusTypes ==
  ASSUME TypeOK, NEW o \in Objects, NEW ws
  PROVE  /\ updateWorkloadStatus(o, ws) \in Objects
         /\ ws \subseteq Workloads => reconcileResult(o, ws) \in Objects
  <1>1. replaceStatus(o.wls, ws, o.gen) \in [Workloads -> WorkloadStatuses]
    BY DEF replaceStatus, newStatus, WorkloadStatuses, Objects, TypeOK, ClusterTypeOK
  <1>2. updateWorkloadStatus(o, ws) \in Objects
    BY <1>1 DEF updateWorkloadStatus, Objects
  <1>3. ASSUME NEW r \in Reasons, ws \subseteq Workloads
        PROVE  replaceCondition(o.cond, o.gen, r, Cardinality(ws)) \in Conditions
    BY <1>3 DEF replaceCondition, Conditions, Objects, TypeOK, ClusterTypeOK
  <1>4. ASSUME ws \subseteq Workloads
        PROVE  reconcileResult(o, ws) \in Objects
    <2>1. CASE ws = {}
      BY <2>1, <1>3, <1>4 DEF reconcileResult, Objects, Reasons
    <2>2. CASE ws # {}
      BY <2>2, <1>3, <1>4 DEF reconcileResult, Objects, Reasons
    <2>3. QED
      BY <2>1, <2>2
  <1>5. QED
    BY <1>2, <1>4

\* Storing an object keeps api and watch well typed.
LEMMA StoreType ==
  ASSUME TypeOK, NEW k \in Keys, NEW o \in Objects, Store(k, o)
  PROVE  /\ api' \in [Keys -> Objects]
         /\ watch' \in [Keys -> Seq(Objects)]
  BY DEF TypeOK, ClusterTypeOK, Store

\* Returning to the queue keeps the worker's variables well typed.
LEMMA DoneType ==
  ASSUME TypeOK, NEW b, Done(b)
  PROVE  /\ queue' \subseteq Keys
         /\ pc' \in Steps \cup {"idle"}
         /\ req' \in Keys
         /\ orig' \in Objects
         /\ res' \in Objects
  BY NoObjectType DEF TypeOK, Done

\* What the users and the clock do keeps the types.
LEMMA UserType ==
  ASSUME TypeOK, User
  PROVE  TypeOK'
  <1> USE DEF UserStep
  <1>1. /\ queue' = queue /\ recentlyDeleted' = recentlyDeleted /\ pc' = pc
        /\ req' = req /\ orig' = orig /\ res' = res /\ faults' = faults
    BY DEF User, workerVars
  <1>2. ASSUME NEW k \in Keys, NEW o \in Objects, Store(k, o), UserStep,
               UNCHANGED <<cache, existing, now>>
        PROVE  TypeOK'
    BY <1>1, <1>2, StoreType DEF TypeOK, ClusterTypeOK
  <1>3. ASSUME NEW k \in Keys, NEW sel \in Selectors, NEW hold \in BOOLEAN,
               Create(k, sel, hold)
        PROVE  TypeOK'
    <2> api[k] \in Objects
      BY DEF TypeOK, ClusterTypeOK
    <2>1. api[k].uid + 1 \in Nat /\ api[k].rv + 1 \in Nat
      BY DEF Objects
    <2>2. ASSUME NEW u \in Nat, NEW r \in Nat
          PROVE  [NoObject EXCEPT !.exists = TRUE, !.uid = u, !.rv = r, !.gen = 1,
                                  !.hold = hold, !.sel = sel] \in Objects
      BY NoObjectType DEF Objects
    <2>3. QED
      BY <1>2, <1>3, <2>1, <2>2 DEF Create
  <1>4. ASSUME NEW k \in Keys, NEW sel \in Selectors, EditSpec(k, sel)
        PROVE  TypeOK'
    <2>1. api[k] \in Objects
      BY DEF TypeOK, ClusterTypeOK
    <2>2. [api[k] EXCEPT !.sel = sel, !.gen = @ + 1] \in Objects
      <3>1. api[k].gen + 1 \in Nat
        BY <2>1 DEF Objects
      <3>2. QED
        BY <2>1, <3>1 DEF Objects
    <2>3. QED
      BY <1>2, <1>4, <2>2, StoredTypes DEF EditSpec
  <1>5. ASSUME NEW k \in Keys, Delete(k)
        PROVE  TypeOK'
    <2>1. api[k] \in Objects
      BY DEF TypeOK, ClusterTypeOK
    <2>2. [api[k] EXCEPT !.del = TRUE, !.gen = @ + 1] \in Objects
      <3>1. api[k].gen + 1 \in Nat
        BY <2>1 DEF Objects
      <3>2. QED
        BY <2>1, <3>1 DEF Objects
    <2>3. QED
      BY <1>2, <1>5, <2>1, <2>2, StoredTypes DEF Delete
  <1>6. ASSUME NEW k \in Keys, ReleaseHold(k)
        PROVE  TypeOK'
    <2>1. api[k] \in Objects
      BY DEF TypeOK, ClusterTypeOK
    <2>2. [api[k] EXCEPT !.hold = FALSE] \in Objects
      BY <2>1 DEF Objects
    <2>3. QED
      BY <1>2, <1>6, <2>1, <2>2, StoredTypes DEF ReleaseHold
  <1>7. ASSUME NEW w \in Workloads, ToggleWorkload(w)
        PROVE  TypeOK'
    BY <1>1, <1>7 DEF ToggleWorkload, TypeOK, ClusterTypeOK
  <1>8. ASSUME Tick
        PROVE  TypeOK'
    BY <1>1, <1>8 DEF Tick, TypeOK, ClusterTypeOK
  <1>9. QED
    BY <1>3, <1>4, <1>5, <1>6, <1>7, <1>8 DEF User

\* The informer keeps the types.
LEMMA InformerType ==
  ASSUME TypeOK, NEW k \in Keys, Deliver(k) \/ Relist(k)
  PROVE  TypeOK'
  <1>1. CASE Deliver(k)
    <2>1. Head(watch[k]) \in Objects /\ Tail(watch[k]) \in Seq(Objects)
      BY <1>1 DEF Deliver, NextEvent, TypeOK, ClusterTypeOK
    <2>2. QED
      BY <1>1, <2>1 DEF Deliver, NextEvent, TypeOK, ClusterTypeOK
  <1>2. CASE Relist(k)
    BY <1>2 DEF Relist, ListAgain, TypeOK, ClusterTypeOK
  <1>3. QED
    BY <1>1, <1>2

\* Storing the worker's resource keeps the types.
LEMMA WorkerStoreType ==
  ASSUME TypeOK
  PROVE  /\ Store(req, UpdateOf(req, res)) =>
               api' \in [Keys -> Objects] /\ watch' \in [Keys -> Seq(Objects)]
         /\ ApplyPatch(req, res, orig) =>
               api' \in [Keys -> Objects] /\ watch' \in [Keys -> Seq(Objects)]
  <1>1. req \in Keys /\ res \in Objects /\ orig \in Objects
    BY DEF TypeOK
  <1>2. UpdateOf(req, res) \in Objects /\ Bump(PatchOf(req, res, orig)) \in Objects
    BY <1>1, WriteTypes, StoredTypes
  <1>3. QED
    BY <1>1, <1>2, StoreType DEF ApplyPatch, TypeOK, ClusterTypeOK

\* One step of Reconcile keeps the types.
LEMMA WorkerType ==
  ASSUME TypeOK, Worker
  PROVE  TypeOK'
  <1> USE DEF TypeOK, ClusterTypeOK, clusterVars
  <1>1. CASE ReconcileNotFound
    BY <1>1, DoneType DEF ReconcileNotFound
  <1>2. CASE ReconcileDelete
    BY <1>2 DEF ReconcileDelete, Steps
  <1>3. CASE ReconcileCreateUpdate
    <2>1. [cache[req] EXCEPT !.fin = TRUE] \in Objects
      BY DEF Objects
    <2>2. QED
      BY <1>3, <2>1 DEF ReconcileCreateUpdate, Steps
  <1>4. CASE ListWorkloadsError
    BY <1>4, DoneType DEF ListWorkloadsError
  <1>5. CASE doDelete
    <2>1. CASE res.fin
      <3>1. updateWorkloadStatus(res, Matching.items) \in Objects
        BY StatusTypes
      <3>2. [updateWorkloadStatus(res, Matching.items) EXCEPT !.fin = FALSE] \in Objects
        BY <3>1 DEF Objects
      <3>3. QED
        BY <1>5, <2>1, <3>2 DEF doDelete, Steps
    <2>2. CASE ~res.fin
      BY <1>5, <2>2, DoneType DEF doDelete
    <2>3. QED
      BY <2>1, <2>2
  <1>6. CASE doCreateUpdate
    <2>1. Matching.items \subseteq Workloads
      BY ListWorkloadsFinds DEF Matching
    <2>2. res' \in Objects
      BY <1>6, <2>1, StatusTypes DEF doCreateUpdate
    <2>3. QED
      BY <1>6, <2>2 DEF doCreateUpdate, Steps
  <1>7. CASE Update
    <2>1. api' \in [Keys -> Objects] /\ watch' \in [Keys -> Seq(Objects)]
      BY <1>7, WorkerStoreType DEF Update
    <2>2. QED
      BY <1>7, <2>1, DoneType DEF Update
  <1>8. CASE patchStatus
    <2>1. api' \in [Keys -> Objects] /\ watch' \in [Keys -> Seq(Objects)]
      BY <1>8, WorkerStoreType DEF patchStatus
    <2>2. QED
      BY <1>8, <2>1, DoneType DEF patchStatus, Steps
  <1>9. CASE refetch
    BY <1>9, DoneType DEF refetch
  <1>10. QED
    BY <1>1, <1>2, <1>3, <1>4, <1>5, <1>6, <1>7, <1>8, <1>9 DEF Worker

\* Faults keep the types.
LEMMA FailureType ==
  ASSUME TypeOK, Failure
  PROVE  TypeOK'
  <1>0. faults' \in Nat
    <2>1. Fault
      BY DEF Failure, RequestFails, UpdateResponseLost, PatchResponseLost, CrashRestart
    <2>2. faults \in Nat
      BY DEF TypeOK
    <2>3. QED
      BY <2>1, <2>2 DEF Fault
  <1> USE <1>0 DEF TypeOK, ClusterTypeOK, clusterVars
  <1>1. CASE RequestFails
    BY <1>1, DoneType DEF RequestFails
  <1>2. CASE UpdateResponseLost
    BY <1>2, DoneType, WorkerStoreType DEF UpdateResponseLost
  <1>3. CASE PatchResponseLost
    BY <1>3, DoneType, WorkerStoreType DEF PatchResponseLost
  <1>4. CASE CrashRestart
    BY <1>4, NoObjectType DEF CrashRestart, ListAll
  <1>5. QED
    BY <1>1, <1>2, <1>3, <1>4 DEF Failure

\* Every step keeps the types.
LEMMA TypeStep ==
  ASSUME TypeOK, [Next]_vars
  PROVE  TypeOK'
  <1>1. CASE UNCHANGED vars
    BY <1>1 DEF vars, clusterVars, workerVars, TypeOK, ClusterTypeOK
  <1>2. ASSUME NEW k \in Keys, Dequeue(k)
        PROVE  TypeOK'
    BY <1>2 DEF Dequeue, clusterVars, TypeOK, ClusterTypeOK, Steps
  <1>3. QED
    BY <1>1, <1>2, UserType, InformerType, WorkerType, FailureType DEF Next

\* Every variable of the reconciler and of the cluster keeps its type in every
\* behaviour: objects stay objects through Updates, patches, removals, faults
\* and restarts.
THEOREM TypeCorrect == Spec => []TypeOK
  <1>1. Init => TypeOK
    BY NoObjectType DEF Init, ClusterInit, TypeOK, ClusterTypeOK
  <1>2. TypeOK /\ [Next]_vars => TypeOK'
    BY TypeStep
  <1>3. QED
    BY <1>1, <1>2, PTL DEF Spec

-----------------------------------------------------------------------------
(***************************************************************************)
(* The inductive invariant                                                 *)
(***************************************************************************)

\* The steps at which the worker holds a resource it has read.
Holding == {"doDelete", "removeFinalizer", "applyFinalizer", "doCreateUpdate",
            "patchStatus"}

\* The watch is the gap between cache and API server, in resourceVersion order.
WatchOrdered ==
    \A k \in Keys :
        /\ watch[k] = <<>> => cache[k] = api[k]
        /\ watch[k] # <<>> => watch[k][Len(watch[k])] = api[k]
        /\ \A i \in DOMAIN watch[k] : cache[k].rv < watch[k][i].rv
        /\ \A i, j \in DOMAIN watch[k] : i < j => watch[k][i].rv < watch[k][j].rv

\* What Reconcile knows of the resource it holds at each of its steps, and the
\* part of it that its changes in memory have not touched.
HeldResource ==
    pc \in Holding =>
        /\ orig.exists
        /\ res.rv = orig.rv /\ res.gen = orig.gen /\ res.sel = orig.sel
        /\ res.hold = orig.hold
        /\ pc \in {"doDelete", "removeFinalizer"} => orig.del
        /\ pc = "doDelete" => res.fin = orig.fin
        /\ pc = "removeFinalizer" => ~res.fin
        /\ pc = "applyFinalizer" => ~orig.del /\ res.fin
        /\ pc \in {"doCreateUpdate", "patchStatus"} => ~orig.del /\ orig.fin
        /\ pc = "doCreateUpdate" => res.wls = orig.wls
        /\ pc = "patchStatus" => res.cond.set /\ res.cond.gen = orig.gen

\* The resource held is the cached one, or an event has queued its key again.
HeldIsCached == pc \in Holding /\ req \notin queue => orig = cache[req]

\* The resource held is no newer than the cached one.
HeldIsOld ==
    pc \in Holding => \/ orig.rv < cache[req].rv
                     \/ orig = cache[req]

\* After the patch nothing is left to do, or the key will be queued.
PatchedIsDone ==
    pc = "refetch" /\ req \notin queue /\ watch[req] = <<>> => ~NeedsWork(req)

WakeupInv == WatchOrdered /\ HeldResource /\ HeldIsCached /\ PatchedIsDone /\ NoLostWork

\* The observed generations of a version do not exceed its own.
GenerationsSound(v) ==
    /\ v.cond.gen <= v.gen
    /\ \A w \in Workloads : v.wls[w].gen <= v.gen

\* A version v of k that somebody may still look at, against the stored one:
\* identities and generations only grow, and while a version with the
\* finalizer and without deletion mark is around, its resource is stored.
Precedes(v, a) ==
    /\ v.uid <= a.uid
    /\ v.exists => GenerationsSound(v)
    /\ v.exists /\ a.exists /\ v.uid = a.uid => v.gen <= a.gen
    /\ v.exists /\ v.fin /\ ~v.del => a.exists /\ a.fin /\ v.uid = a.uid

VersionsPrecede ==
    \A k \in Keys :
        /\ api[k].exists => GenerationsSound(api[k])
        /\ Precedes(cache[k], api[k])
        /\ \A i \in DOMAIN watch[k] : Precedes(watch[k][i], api[k])

HeldPrecedes ==
    /\ pc \in Holding => Precedes(orig, api[req])
    /\ pc = "patchStatus" => \A w \in Workloads : res.wls[w].gen <= orig.gen

VersionInv == WatchOrdered /\ HeldResource /\ HeldIsOld /\ VersionsPrecede /\ HeldPrecedes

-----------------------------------------------------------------------------
(***************************************************************************)
(* Versions and the watch                                                  *)
(***************************************************************************)

\* The next version of k: a well typed object with the next resourceVersion.
NewVersion(k, o) == o \in Objects /\ o.rv = api[k].rv + 1

\* The resourceVersions of what the API server stores.
LEMMA NewVersions ==
  ASSUME TypeOK, NEW k \in Keys
  PROVE  /\ \A o \in Objects : o.rv = api[k].rv => NewVersion(k, Bump(o))
         /\ NewVersion(k, Removed(api[k]))
         /\ \A o \in Objects : NewVersion(k, UpdateOf(k, o))
         /\ \A o, from \in Objects : NewVersion(k, Bump(PatchOf(k, o, from)))
  <1>1. api[k] \in Objects
    BY DEF TypeOK, ClusterTypeOK
  <1>2. \A o \in Objects : o.rv = api[k].rv => NewVersion(k, Bump(o))
    BY StoredTypes DEF NewVersion, Bump, Objects
  <1>3. Removed(api[k]).rv = api[k].rv + 1
    BY DEF Removed, NoObject
  <1>4. NewVersion(k, Removed(api[k]))
    BY <1>1, <1>3, StoredTypes DEF NewVersion
  <1>5. ASSUME NEW o \in Objects
        PROVE  NewVersion(k, UpdateOf(k, o))
    <2>1. UpdateOf(k, o) \in Objects
      BY WriteTypes
    <2>2. CASE api[k].del /\ ~o.fin /\ ~o.hold
      BY <2>2, <1>4 DEF UpdateOf
    <2>3. CASE ~(api[k].del /\ ~o.fin /\ ~o.hold)
      <3> DEFINE u == [api[k] EXCEPT !.fin = o.fin, !.hold = o.hold, !.sel = o.sel,
                             !.gen = IF o.sel = api[k].sel THEN @ ELSE @ + 1]
      <3>1. u.rv = api[k].rv /\ UpdateOf(k, o) = Bump(u)
        BY <1>1, <2>3 DEF UpdateOf, Objects
      <3>2. Bump(u).rv = u.rv + 1
        BY <1>1 DEF Bump, Objects
      <3>3. QED
        BY <2>1, <3>1, <3>2 DEF NewVersion
    <2>4. QED
      BY <2>2, <2>3
  <1>6. ASSUME NEW o \in Objects, NEW from \in Objects
        PROVE  NewVersion(k, Bump(PatchOf(k, o, from)))
    <2>1. PatchOf(k, o, from) \in Objects
      BY WriteTypes
    <2>2. PatchOf(k, o, from).rv = api[k].rv
      BY <1>1 DEF PatchOf, Objects
    <2>3. QED
      BY <1>2, <2>1, <2>2
  <1>7. QED
    BY <1>2, <1>4, <1>5, <1>6

\* What a step may do to the stored objects, the watch and the cache.
ApiWrite == \E k \in Keys : \E o \in Objects : NewVersion(k, o) /\ Store(k, o) /\ UNCHANGED cache
InformerMove == \E k \in Keys : NextEvent(k) \/ ListAgain(k)

\* A user's step leaves the three alone or stores the next version of an object.
LEMMA UserKinds ==
  ASSUME TypeOK, User
  PROVE  UNCHANGED <<api, watch, cache>> \/ ApiWrite
  <1>1. ASSUME NEW k \in Keys, NEW sel \in Selectors, NEW hold \in BOOLEAN,
               Create(k, sel, hold)
        PROVE  ApiWrite
    <2> DEFINE o == [NoObject EXCEPT !.exists = TRUE, !.uid = api[k].uid + 1,
                               !.rv = api[k].rv + 1, !.gen = 1,
                               !.hold = hold, !.sel = sel]
    <2>1. api[k] \in Objects
      BY DEF TypeOK, ClusterTypeOK
    <2>2. api[k].uid + 1 \in Nat /\ api[k].rv + 1 \in Nat
      BY <2>1 DEF Objects
    <2>3. \A u, r \in Nat : [NoObject EXCEPT !.exists = TRUE, !.uid = u, !.rv = r,
                               !.gen = 1, !.hold = hold, !.sel = sel] \in Objects
      BY NoObjectType DEF Objects
    <2>4. o \in Objects
      BY <2>2, <2>3
    <2>5. o.rv = api[k].rv + 1
      BY DEF NoObject
    <2>6. QED
      BY <1>1, <2>4, <2>5 DEF Create, ApiWrite, NewVersion
  <1>2. ASSUME NEW k \in Keys, NEW sel \in Selectors, EditSpec(k, sel)
        PROVE  ApiWrite
    <2>1. api[k] \in Objects
      BY DEF TypeOK, ClusterTypeOK
    <2>2. api[k].gen + 1 \in Nat
      BY <2>1 DEF Objects
    <2>3. [api[k] EXCEPT !.sel = sel, !.gen = @ + 1] \in Objects
      BY <2>1, <2>2 DEF Objects
    <2>4. [api[k] EXCEPT !.sel = sel, !.gen = @ + 1].rv = api[k].rv
      BY <2>1 DEF Objects
    <2>5. QED
      BY <1>2, <2>3, <2>4, NewVersions DEF EditSpec, ApiWrite, NewVersion
  <1>3. ASSUME NEW k \in Keys, Delete(k)
        PROVE  ApiWrite
    <2>1. api[k] \in Objects
      BY DEF TypeOK, ClusterTypeOK
    <2>2. api[k].gen + 1 \in Nat
      BY <2>1 DEF Objects
    <2>3. [api[k] EXCEPT !.del = TRUE, !.gen = @ + 1] \in Objects
      BY <2>1, <2>2 DEF Objects
    <2>4. [api[k] EXCEPT !.del = TRUE, !.gen = @ + 1].rv = api[k].rv
      BY <2>1 DEF Objects
    <2>5. QED
      BY <1>3, <2>3, <2>4, NewVersions DEF Delete, ApiWrite, NewVersion
  <1>4. ASSUME NEW k \in Keys, ReleaseHold(k)
        PROVE  ApiWrite
    <2>1. api[k] \in Objects
      BY DEF TypeOK, ClusterTypeOK
    <2>2. [api[k] EXCEPT !.hold = FALSE] \in Objects
      BY <2>1 DEF Objects
    <2>3. [api[k] EXCEPT !.hold = FALSE].rv = api[k].rv
      BY <2>1 DEF Objects
    <2>4. QED
      BY <1>4, <2>2, <2>3, NewVersions DEF ReleaseHold, ApiWrite, NewVersion
  <1>5. ASSUME NEW w \in Workloads, ToggleWorkload(w)
        PROVE  UNCHANGED <<api, watch, cache>>
    BY <1>5 DEF ToggleWorkload
  <1>6. ASSUME Tick
        PROVE  UNCHANGED <<api, watch, cache>>
    BY <1>6 DEF Tick
  <1>7. QED
    BY <1>1, <1>2, <1>3, <1>4, <1>5, <1>6 DEF User

\* So does a step of Reconcile, and a fault that is not a restart.
LEMMA WorkerKinds ==
  ASSUME TypeOK
  PROVE  /\ Worker => UNCHANGED <<api, watch, cache>> \/ ApiWrite
         /\ Failure => UNCHANGED <<api, watch, cache>> \/ ApiWrite \/ CrashRestart
  <1> USE DEF clusterVars
  <1>1. req \in Keys /\ res \in Objects /\ orig \in Objects
    BY DEF TypeOK
  <1>2. ASSUME Store(req, UpdateOf(req, res)), UNCHANGED cache
        PROVE  ApiWrite
    BY <1>1, <1>2, NewVersions DEF ApiWrite, NewVersion
  <1>3. ASSUME ApplyPatch(req, res, orig), UNCHANGED cache
        PROVE  UNCHANGED <<api, watch, cache>> \/ ApiWrite
    BY <1>1, <1>3, NewVersions DEF ApiWrite, NewVersion, ApplyPatch
  <1>4. ASSUME Worker
        PROVE  UNCHANGED <<api, watch, cache>> \/ ApiWrite
    BY <1>2, <1>3, <1>4
       DEF Worker, ReconcileNotFound, ReconcileDelete, ReconcileCreateUpdate,
           ListWorkloadsError, doDelete, doCreateUpdate, Update, patchStatus, refetch
  <1>5. ASSUME Failure
        PROVE  UNCHANGED <<api, watch, cache>> \/ ApiWrite \/ CrashRestart
    BY <1>2, <1>3, <1>5
       DEF Failure, RequestFails, UpdateResponseLost, PatchResponseLost
  <1>6. QED
    BY <1>4, <1>5

\* Every step leaves the three alone, stores the next version of one object,
\* moves the informer, or is a restart.
LEMMA StepKinds ==
  ASSUME TypeOK, [Next]_vars
  PROVE  UNCHANGED <<api, watch, cache>> \/ ApiWrite \/ InformerMove \/ ListAll
  <1>1. ASSUME NEW k \in Keys, Deliver(k) \/ Relist(k)
        PROVE  InformerMove
    BY <1>1 DEF Deliver, Relist, InformerMove
  <1>2. ASSUME NEW k \in Keys, Dequeue(k)
        PROVE  UNCHANGED <<api, watch, cache>>
    BY <1>2 DEF Dequeue, clusterVars
  <1>3. CrashRestart => ListAll
    BY DEF CrashRestart
  <1>4. CASE UNCHANGED vars
    BY <1>4 DEF vars, clusterVars
  <1>5. QED
    BY <1>1, <1>2, <1>3, <1>4, UserKinds, WorkerKinds DEF Next

\* The versions on the watch are objects.
LEMMA WatchedType ==
  ASSUME TypeOK, NEW k \in Keys, NEW i \in DOMAIN watch[k]
  PROVE  watch[k][i] \in Objects /\ watch[k][i].rv \in Nat
  <1>1. watch[k] \in Seq(Objects)
    BY DEF TypeOK, ClusterTypeOK
  <1>2. i \in 1..Len(watch[k])
    BY <1>1
  <1>3. watch[k][i] \in Objects
    BY <1>1, <1>2, ElementOfSeq
  <1>4. QED
    BY <1>3 DEF Objects

\* The stored version is the newest one.
LEMMA StoredIsNewest ==
  ASSUME TypeOK, WatchOrdered, NEW k \in Keys
  PROVE  /\ \A i \in DOMAIN watch[k] : watch[k][i].rv <= api[k].rv
         /\ cache[k].rv <= api[k].rv
         /\ watch[k] # <<>> => cache[k].rv < api[k].rv
  <1>1. /\ watch[k] \in Seq(Objects) /\ api[k] \in Objects /\ cache[k] \in Objects
    BY DEF TypeOK, ClusterTypeOK
  <1>2. \A i \in DOMAIN watch[k] : watch[k][i].rv \in Nat
    BY <1>1, WatchedType
  <1>3. api[k].rv \in Nat /\ cache[k].rv \in Nat
    BY <1>1 DEF Objects
  <1>4. CASE watch[k] = <<>>
    BY <1>3, <1>4 DEF WatchOrdered
  <1>5. CASE watch[k] # <<>>
    <2> DEFINE n == Len(watch[k])
    <2>1. n \in DOMAIN watch[k] /\ watch[k][n] = api[k]
      BY <1>1, <1>5 DEF WatchOrdered
    <2>2. ASSUME NEW i \in DOMAIN watch[k]
          PROVE  watch[k][i].rv <= api[k].rv
      <3>1. i \in Nat /\ n \in Nat /\ i <= n
        BY <1>1
      <3>2. CASE i = n
        BY <1>3, <2>1, <3>2
      <3>3. CASE i < n
        BY <1>2, <1>3, <2>1, <3>3 DEF WatchOrdered
      <3>4. QED
        BY <3>1, <3>2, <3>3
    <2>3. cache[k].rv < api[k].rv
      BY <2>1 DEF WatchOrdered
    <2>4. QED
      BY <1>3, <2>2, <2>3
  <1>6. QED
    BY <1>4, <1>5

\* Every step keeps the watch ordered.
LEMMA WatchStep ==
  ASSUME TypeOK, WatchOrdered, [Next]_vars
  PROVE  WatchOrdered'
  <1> SUFFICES ASSUME NEW k \in Keys
               PROVE  /\ watch'[k] = <<>> => cache'[k] = api'[k]
                      /\ watch'[k] # <<>> => watch'[k][Len(watch'[k])] = api'[k]
                      /\ \A i \in DOMAIN watch'[k] : cache'[k].rv < watch'[k][i].rv
                      /\ \A i, j \in DOMAIN watch'[k] :
                            i < j => watch'[k][i].rv < watch'[k][j].rv
    BY DEF WatchOrdered
  <1>1. /\ watch \in [Keys -> Seq(Objects)] /\ api \in [Keys -> Objects]
        /\ cache \in [Keys -> Objects]
    BY DEF TypeOK, ClusterTypeOK
  <1>2. \A i \in DOMAIN watch[k] : watch[k][i].rv \in Nat
    BY WatchedType
  <1>3. api[k].rv \in Nat /\ cache[k].rv \in Nat
    BY <1>1 DEF Objects
  <1>4. CASE UNCHANGED <<api, watch, cache>>
    BY <1>4 DEF WatchOrdered
  <1>5. CASE ApiWrite
    <2>1. PICK h \in Keys, o \in Objects : NewVersion(h, o) /\ Store(h, o) /\ UNCHANGED cache
      BY <1>5 DEF ApiWrite
    <2>2. CASE h # k
      <3>1. watch'[k] = watch[k] /\ api'[k] = api[k] /\ cache'[k] = cache[k]
        BY <1>1, <2>1, <2>2 DEF Store
      <3>2. QED
        BY <3>1 DEF WatchOrdered
    <2>3. CASE h = k
      <3> DEFINE n == Len(watch[k])
      <3>1. /\ watch'[k] = Append(watch[k], o) /\ api'[k] = o /\ cache'[k] = cache[k]
            /\ o \in Objects /\ o.rv = api[k].rv + 1
        BY <1>1, <2>1, <2>3 DEF Store, NewVersion
      <3>2. /\ Len(watch'[k]) = n + 1 /\ DOMAIN watch'[k] = 1..(n + 1)
            /\ watch'[k][n + 1] = o
            /\ \A i \in 1..n : watch'[k][i] = watch[k][i]
            /\ watch'[k] # <<>> /\ n \in Nat /\ DOMAIN watch[k] = 1..n
        <4>1. watch[k] \in Seq(Objects)
          BY <1>1
        <4>2. QED
          BY <3>1, <4>1, AppendProperties, LenProperties
      <3>3. ASSUME NEW i \in 1..n
            PROVE  watch[k][i].rv < o.rv
        <4>1. i \in DOMAIN watch[k] /\ o.rv = api[k].rv + 1
          BY <3>1, <3>2
        <4>2. watch[k][i].rv <= api[k].rv
          BY <4>1, StoredIsNewest
        <4>3. watch[k][i].rv \in Nat
          BY <1>2, <4>1
        <4>4. QED
          BY <1>3, <4>1, <4>2, <4>3
      <3>4. cache[k].rv < o.rv
        BY <1>3, <3>1, StoredIsNewest
      <3>5. \A i \in 1..n : cache[k].rv < watch[k][i].rv
        BY <3>2 DEF WatchOrdered
      <3>6. \A i, j \in 1..n : i < j => watch[k][i].rv < watch[k][j].rv
        BY <3>2 DEF WatchOrdered
      <3>7. \A i \in 1..(n + 1) : i \in 1..n \/ i = n + 1
        BY <3>2
      <3>8. \A i \in DOMAIN watch'[k] : cache'[k].rv < watch'[k][i].rv
        BY <3>1, <3>2, <3>4, <3>5, <3>7
      <3>9. ASSUME NEW i \in DOMAIN watch'[k], NEW j \in DOMAIN watch'[k], i < j
            PROVE  watch'[k][i].rv < watch'[k][j].rv
        <4>1. i \in 1..n
          BY <3>2, <3>9
        <4>2. CASE j \in 1..n
          BY <3>2, <3>6, <3>9, <4>1, <4>2
        <4>3. CASE j = n + 1
          BY <3>2, <3>3, <4>1, <4>3
        <4>4. QED
          BY <3>2, <3>7, <4>2, <4>3
      <3>10. QED
        BY <3>1, <3>2, <3>8, <3>9
    <2>4. QED
      BY <2>2, <2>3
  <1>6. CASE InformerMove
    <2>1. PICK h \in Keys : NextEvent(h) \/ ListAgain(h)
      BY <1>6 DEF InformerMove
    <2>2. CASE h # k
      <3>1. watch'[k] = watch[k] /\ api'[k] = api[k] /\ cache'[k] = cache[k]
        BY <1>1, <2>1, <2>2 DEF NextEvent, ListAgain
      <3>2. QED
        BY <3>1 DEF WatchOrdered
    <2>3. CASE h = k /\ ListAgain(k)
      <3>1. watch'[k] = <<>> /\ api'[k] = api[k] /\ cache'[k] = api[k]
        BY <1>1, <2>3 DEF ListAgain
      <3>2. QED
        BY <3>1
    <2>4. CASE h = k /\ NextEvent(k)
      <3> DEFINE n == Len(watch[k])
      <3>1. /\ watch'[k] = Tail(watch[k]) /\ api'[k] = api[k]
            /\ cache'[k] = watch[k][1] /\ watch[k] # <<>>
        BY <1>1, <2>4 DEF NextEvent
      <3>2. /\ n \in Nat /\ n >= 1 /\ DOMAIN watch[k] = 1..n
            /\ Len(watch'[k]) = n - 1 /\ DOMAIN watch'[k] = 1..(n - 1)
            /\ \A i \in 1..(n - 1) : watch'[k][i] = watch[k][i + 1]
        BY <1>1, <3>1
      <3>3. \A i, j \in 1..n : i < j => watch[k][i].rv < watch[k][j].rv
        BY <3>2 DEF WatchOrdered
      <3>4. watch[k][n] = api[k]
        BY <3>1 DEF WatchOrdered
      <3>5. watch'[k] = <<>> => cache'[k] = api'[k]
        BY <1>1, <3>1, <3>2, <3>4
      <3>6. watch'[k] # <<>> => watch'[k][Len(watch'[k])] = api'[k]
        <4>1. watch'[k] \in Seq(Objects)
          BY <1>1, <3>1
        <4>2. watch'[k] # <<>> => n - 1 \in 1..(n - 1)
          BY <3>2, <4>1
        <4>3. QED
          BY <3>1, <3>2, <3>4, <4>2
      <3>7. \A i \in DOMAIN watch'[k] : cache'[k].rv < watch'[k][i].rv
        BY <3>1, <3>2, <3>3
      <3>8. \A i, j \in DOMAIN watch'[k] : i < j => watch'[k][i].rv < watch'[k][j].rv
        BY <3>2, <3>3
      <3>9. QED
        BY <3>5, <3>6, <3>7, <3>8
    <2>5. QED
      BY <2>1, <2>2, <2>3, <2>4
  <1>7. CASE ListAll
    BY <1>1, <1>7 DEF ListAll
  <1>8. QED
    BY <1>4, <1>5, <1>6, <1>7, StepKinds

-----------------------------------------------------------------------------
(***************************************************************************)
(* The worker                                                              *)
(***************************************************************************)

\* The ways the worker moves: it stands still, begins with a key, ends, reads
\* the cached resource, or takes one of the three steps in memory and to the
\* patch.  The write steps end, except for the patch.
Rest == UNCHANGED <<pc, req, orig, res>>
Ended == pc' = "idle" /\ req' = req
Began == pc' = "get"

\* Every step is one of these moves.
LEMMA WorkerMoves ==
  ASSUME [Next]_vars
  PROVE  \/ Rest \/ Ended \/ Began
         \/ ReconcileDelete \/ ReconcileCreateUpdate
         \/ doDelete /\ res.fin
         \/ doCreateUpdate
         \/ patchStatus /\ pc' = "refetch"
  <1> USE DEF workerVars
  <1>1. ASSUME User
        PROVE  Rest
    BY <1>1 DEF User, Rest
  <1>2. ASSUME NEW k \in Keys, Deliver(k) \/ Relist(k)
        PROVE  Rest
    BY <1>2 DEF Deliver, Relist, Rest
  <1>3. ASSUME NEW k \in Keys, Dequeue(k)
        PROVE  Began
    BY <1>3 DEF Dequeue, Began
  <1>4. ASSUME Failure
        PROVE  Ended
    BY <1>4 DEF Failure, RequestFails, UpdateResponseLost, PatchResponseLost,
                CrashRestart, Done, Ended
  <1>5. ASSUME Worker
        PROVE  \/ Ended
               \/ ReconcileDelete \/ ReconcileCreateUpdate
               \/ doDelete /\ res.fin
               \/ doCreateUpdate
               \/ patchStatus /\ pc' = "refetch"
    <2>1. ASSUME NEW b, Done(b)
          PROVE  Ended
      BY <2>1 DEF Done, Ended
    <2>2. CASE ReconcileNotFound \/ ListWorkloadsError \/ Update \/ refetch
      BY <2>1, <2>2 DEF ReconcileNotFound, ListWorkloadsError, Update, refetch
    <2>3. CASE doDelete
      BY <2>1, <2>3 DEF doDelete
    <2>4. CASE patchStatus
      BY <2>1, <2>4 DEF patchStatus
    <2>5. QED
      BY <1>5, <2>2, <2>3, <2>4 DEF Worker
  <1>6. CASE UNCHANGED vars
    BY <1>6 DEF vars, Rest
  <1>7. QED
    BY <1>1, <1>2, <1>3, <1>4, <1>5, <1>6 DEF Next

\* What updateWorkloadStatus and reconcileResult leave alone and what they set.
LEMMA StatusEffects ==
  ASSUME TypeOK, NEW o \in Objects, NEW ws
  PROVE  LET u == updateWorkloadStatus(o, ws)
             r == reconcileResult(o, ws)
         IN /\ u.rv = o.rv /\ u.gen = o.gen /\ u.sel = o.sel /\ u.hold = o.hold
            /\ \A w \in Workloads : u.wls[w].gen = o.gen \/ u.wls[w] = o.wls[w]
            /\ r.rv = o.rv /\ r.gen = o.gen /\ r.sel = o.sel /\ r.hold = o.hold
            /\ r.wls = o.wls
            /\ r.cond.set /\ r.cond.gen = o.gen
  BY DEF updateWorkloadStatus, reconcileResult, replaceCondition, replaceStatus,
         newStatus, Objects

\* Every step keeps HeldResource.
LEMMA HeldStep ==
  ASSUME TypeOK, HeldResource, [Next]_vars
  PROVE  HeldResource'
  <1>0. req \in Keys /\ res \in Objects /\ cache[req] \in Objects
    BY DEF TypeOK, ClusterTypeOK
  <1>1. CASE Rest
    BY <1>1 DEF Rest, HeldResource
  <1>2. CASE Ended \/ Began \/ (patchStatus /\ pc' = "refetch")
    BY <1>2 DEF Ended, Began, HeldResource, Holding
  <1>3. CASE ReconcileDelete
    BY <1>3 DEF ReconcileDelete, HeldResource
  <1>4. CASE ReconcileCreateUpdate
    <2> DEFINE c == cache[req]
    <2>1. /\ orig' = c /\ res' = [c EXCEPT !.fin = TRUE] /\ c.exists /\ ~c.del
          /\ pc' \in {"doCreateUpdate", "applyFinalizer"}
          /\ pc' = "doCreateUpdate" => c.fin
      BY <1>4 DEF ReconcileCreateUpdate
    <2>2. /\ res'.rv = c.rv /\ res'.gen = c.gen /\ res'.sel = c.sel /\ res'.hold = c.hold
          /\ res'.fin = TRUE /\ res'.wls = c.wls
      BY <1>0, <2>1 DEF Objects
    <2>3. QED
      BY <2>1, <2>2 DEF HeldResource
  <1>5. CASE doDelete /\ res.fin
    <2> DEFINE u == updateWorkloadStatus(res, Matching.items)
    <2>1. /\ pc = "doDelete" /\ pc' = "removeFinalizer" /\ orig' = orig
          /\ res' = [u EXCEPT !.fin = FALSE]
      BY <1>5 DEF doDelete, Done
    <2>2. u \in Objects
      BY <1>0, StatusTypes
    <2>3. /\ res'.rv = u.rv /\ res'.gen = u.gen /\ res'.sel = u.sel
          /\ res'.hold = u.hold /\ res'.fin = FALSE
      BY <2>1, <2>2 DEF Objects
    <2>4. u.rv = res.rv /\ u.gen = res.gen /\ u.sel = res.sel /\ u.hold = res.hold
      BY <1>0, StatusEffects
    <2>5. QED
      BY <2>1, <2>3, <2>4 DEF HeldResource, Holding
  <1>6. CASE doCreateUpdate
    <2> DEFINE u == updateWorkloadStatus(res, Matching.items)
               r == reconcileResult(u, Matching.items)
    <2>1. pc = "doCreateUpdate" /\ pc' = "patchStatus" /\ orig' = orig /\ res' = r
      BY <1>6 DEF doCreateUpdate
    <2>2. u \in Objects
      BY <1>0, StatusTypes
    <2>3. u.rv = res.rv /\ u.gen = res.gen /\ u.sel = res.sel /\ u.hold = res.hold
      BY <1>0, StatusEffects
    <2>4. /\ r.rv = u.rv /\ r.gen = u.gen /\ r.sel = u.sel /\ r.hold = u.hold
          /\ r.cond.set /\ r.cond.gen = u.gen
      BY <2>2, StatusEffects
    <2>5. QED
      BY <2>1, <2>3, <2>4 DEF HeldResource, Holding
  <1>7. QED
    BY <1>1, <1>2, <1>3, <1>4, <1>5, <1>6, WorkerMoves

-----------------------------------------------------------------------------
(***************************************************************************)
(* No wakeup is lost                                                       *)
(***************************************************************************)

\* A write changes the object of one key and leaves an event on its watch.
LEMMA WriteTouches ==
  ASSUME TypeOK, UNCHANGED <<api, watch, cache>> \/ ApiWrite, NEW k \in Keys
  PROVE  /\ cache' = cache
         /\ \/ api'[k] = api[k] /\ watch'[k] = watch[k]
            \/ watch'[k] # <<>>
  <1>1. CASE ApiWrite
    <2>1. PICK h \in Keys, o \in Objects : NewVersion(h, o) /\ Store(h, o) /\ UNCHANGED cache
      BY <1>1 DEF ApiWrite
    <2>2. watch \in [Keys -> Seq(Objects)] /\ api \in [Keys -> Objects]
      BY DEF TypeOK, ClusterTypeOK
    <2>3. CASE h = k
      <3>1. watch'[k] = Append(watch[k], o) /\ o \in Objects
        BY <2>1, <2>2, <2>3 DEF Store, NewVersion
      <3>2. QED
        BY <2>1, <2>2, <3>1, AppendProperties
    <2>4. CASE h # k
      BY <2>1, <2>2, <2>4 DEF Store
    <2>5. QED
      BY <2>3, <2>4
  <1>2. QED
    BY <1>1

\* The resource held is the stored one when no event is queued or on its way.
LEMMA HeldIsStored ==
  ASSUME TypeOK, WakeupInv, pc \in Holding, req \notin queue, watch[req] = <<>>
  PROVE  orig = api[req]
  BY DEF TypeOK, WakeupInv, WatchOrdered, HeldIsCached

\* Ending a reconcile loses nothing when the key goes back to the queue, or an
\* event is on its way, or the stored resource needs no work.
LEMMA DoneSafe ==
  ASSUME TypeOK, WakeupInv, NEW b \in BOOLEAN, Done(b),
         UNCHANGED <<api, watch, cache>> \/ ApiWrite,
         b \/ req \in queue \/ watch'[req] # <<>> \/ ~NeedsWork(req)'
  PROVE  HeldIsCached' /\ PatchedIsDone' /\ NoLostWork'
  <1>1. HeldIsCached' /\ PatchedIsDone'
    BY DEF Done, HeldIsCached, PatchedIsDone, Holding
  <1>2. ASSUME NEW k \in Keys, NeedsWork(k)'
        PROVE  k \in queue' \/ watch'[k] # <<>>
    <2>1. CASE k = req
      BY <1>2, <2>1 DEF Done
    <2>2. CASE k # req
      <3>1. CASE watch'[k] # <<>>
        BY <3>1
      <3>2. CASE api'[k] = api[k] /\ watch'[k] = watch[k]
        <4>1. NeedsWork(k)
          BY <1>2, <3>2 DEF NeedsWork
        <4>2. k \in queue \/ watch[k] # <<>>
          BY <2>2, <4>1 DEF WakeupInv, NoLostWork, Reconciling
        <4>3. QED
          BY <3>2, <4>2 DEF Done
      <3>3. QED
        BY <3>1, <3>2, WriteTouches
    <2>3. QED
      BY <2>1, <2>2
  <1>3. QED
    BY <1>1, <1>2 DEF NoLostWork

\* A step of Reconcile keeps the wakeup invariant.
LEMMA WorkerWakeup ==
  ASSUME TypeOK, WakeupInv, Worker
  PROVE  HeldIsCached' /\ PatchedIsDone' /\ NoLostWork'
  <1>0. /\ req \in Keys /\ res \in Objects /\ orig \in Objects
        /\ api[req] \in Objects
    BY DEF TypeOK, ClusterTypeOK
  <1>1. UNCHANGED <<api, watch, cache>> \/ ApiWrite
    BY WorkerKinds
  <1>2. \A b \in BOOLEAN : Done(b) /\
            (b \/ req \in queue \/ watch'[req] # <<>> \/ ~NeedsWork(req)')
            => HeldIsCached' /\ PatchedIsDone' /\ NoLostWork'
    BY <1>1, DoneSafe
  <1>3. ASSUME queue' = queue, req' = req, pc # "idle", pc' # "idle"
        PROVE  NoLostWork'
    <2>1. ASSUME NEW k \in Keys, NeedsWork(k)'
          PROVE  k \in queue' \/ Reconciling(k)' \/ watch'[k] # <<>>
      <3>1. CASE watch'[k] # <<>>
        BY <3>1
      <3>2. CASE api'[k] = api[k] /\ watch'[k] = watch[k]
        <4>1. NeedsWork(k)
          BY <2>1, <3>2 DEF NeedsWork
        <4>2. QED
          BY <1>3, <3>2, <4>1 DEF WakeupInv, NoLostWork, Reconciling
      <3>3. QED
        BY <1>1, <3>1, <3>2, WriteTouches
    <2>2. QED
      BY <2>1 DEF NoLostWork
  <1>4. CASE ReconcileNotFound
    <2>1. /\ Done(~recentlyDeleted[req]) /\ ~cache[req].exists
          /\ api' = api /\ watch' = watch /\ req' = req
      BY <1>4 DEF ReconcileNotFound, clusterVars, Done
    <2>2. watch[req] = <<>> => ~NeedsWork(req)'
      BY <1>0, <2>1 DEF WakeupInv, WatchOrdered, NeedsWork
    <2>3. (~recentlyDeleted[req]) \in BOOLEAN
      OBVIOUS
    <2>4. QED
      BY <1>2, <2>1, <2>2, <2>3
  <1>5. CASE ReconcileDelete
    <2>1. /\ queue' = queue /\ req' = req /\ pc = "get" /\ pc' = "doDelete"
          /\ orig' = cache[req] /\ cache' = cache
      BY <1>5 DEF ReconcileDelete, clusterVars
    <2>2. QED
      BY <1>3, <2>1 DEF HeldIsCached, PatchedIsDone
  <1>6. CASE ReconcileCreateUpdate
    <2>1. /\ queue' = queue /\ req' = req /\ pc = "get"
          /\ pc' \in {"doCreateUpdate", "applyFinalizer"}
          /\ orig' = cache[req] /\ cache' = cache
      BY <1>6 DEF ReconcileCreateUpdate, clusterVars
    <2>2. QED
      BY <1>3, <2>1 DEF HeldIsCached, PatchedIsDone
  <1>7. CASE ListWorkloadsError
    BY <1>2, <1>7 DEF ListWorkloadsError
  <1>8. CASE doDelete
    <2>1. CASE res.fin
      <3>1. /\ queue' = queue /\ req' = req /\ pc = "doDelete"
            /\ pc' = "removeFinalizer" /\ orig' = orig /\ cache' = cache
        BY <1>8, <2>1 DEF doDelete, clusterVars
      <3>2. QED
        BY <1>3, <3>1 DEF HeldIsCached, PatchedIsDone, WakeupInv, Holding
    <2>2. CASE ~res.fin
      <3>1. /\ Done(FALSE) /\ api' = api /\ watch' = watch /\ req' = req
            /\ pc = "doDelete"
        BY <1>8, <2>2 DEF doDelete, clusterVars, Done
      <3>2. orig.del /\ ~orig.fin
        BY <2>2, <3>1 DEF WakeupInv, HeldResource, Holding
      <3>3. req \notin queue /\ watch[req] = <<>> => ~NeedsWork(req)'
        BY <3>1, <3>2, HeldIsStored DEF NeedsWork, Holding
      <3>4. QED
        BY <1>2, <3>1, <3>3
    <2>3. QED
      BY <2>1, <2>2
  <1>9. CASE doCreateUpdate
    <2>1. /\ queue' = queue /\ req' = req /\ pc = "doCreateUpdate"
          /\ pc' = "patchStatus" /\ orig' = orig /\ cache' = cache
      BY <1>9 DEF doCreateUpdate, clusterVars
    <2>2. QED
      BY <1>3, <2>1 DEF HeldIsCached, PatchedIsDone, WakeupInv, Holding
  <1>10. CASE Update
    <2>1. CASE Store(req, UpdateOf(req, res)) /\ Done(pc = "applyFinalizer")
      <3>1. watch'[req] # <<>>
        <4>1. UpdateOf(req, res) \in Objects
          BY <1>0, WriteTypes
        <4>2. watch[req] \in Seq(Objects) /\ watch \in [Keys -> Seq(Objects)]
          BY <1>0 DEF TypeOK, ClusterTypeOK
        <4>3. watch'[req] = Append(watch[req], UpdateOf(req, res))
          BY <1>0, <2>1, <4>2 DEF Store
        <4>4. QED
          BY <4>1, <4>2, <4>3, AppendProperties
      <3>2. QED
        BY <1>2, <2>1, <3>1
    <2>2. CASE Done(TRUE)
      BY <1>2, <2>2
    <2>3. QED
      BY <1>10, <2>1, <2>2 DEF Update
  <1>11. CASE patchStatus
    <2>1. CASE pc' = "refetch"
      <3>1. /\ queue' = queue /\ req' = req /\ pc = "patchStatus"
            /\ ApplyPatch(req, res, orig)
        BY <1>11, <2>1 DEF patchStatus, Done
      <3>2. ASSUME req \notin queue, watch'[req] = <<>>
            PROVE  ~NeedsWork(req)'
        <4>1. api'[req] = api[req] /\ watch[req] = <<>>
          BY <1>0, <1>1, <3>2, WriteTouches
        <4>2. orig = api[req]
          BY <3>1, <3>2, <4>1, HeldIsStored DEF Holding
        <4>3. PatchOf(req, res, orig) = api[req]
          <5>1. SUFFICES ASSUME PatchOf(req, res, orig) # api[req]
                         PROVE  FALSE
            OBVIOUS
          <5>2. Store(req, Bump(PatchOf(req, res, orig)))
            BY <3>1, <5>1 DEF ApplyPatch
          <5>3. Bump(PatchOf(req, res, orig)) \in Objects
            BY <1>0, WriteTypes, StoredTypes
          <5>4. watch \in [Keys -> Seq(Objects)]
            BY DEF TypeOK, ClusterTypeOK
          <5>5. watch'[req] = Append(watch[req], Bump(PatchOf(req, res, orig)))
            BY <1>0, <5>2, <5>4 DEF Store
          <5>6. QED
            BY <1>0, <3>2, <5>3, <5>4, <5>5, AppendProperties
        <4>4. PatchOf(req, res, orig).cond = res.cond
          BY <1>0, <4>2 DEF PatchOf, Objects
        <4>5. /\ res.cond.set /\ res.cond.gen = orig.gen /\ ~orig.del /\ orig.fin
          BY <3>1 DEF WakeupInv, HeldResource, Holding
        <4>6. QED
          BY <3>1, <4>1, <4>2, <4>3, <4>4, <4>5 DEF NeedsWork
      <3>3. QED
        BY <1>3, <2>1, <3>1, <3>2 DEF HeldIsCached, PatchedIsDone, Holding
    <2>2. CASE pc' # "refetch"
      BY <1>2, <1>11, <2>2 DEF patchStatus
    <2>3. QED
      BY <2>1, <2>2
  <1>12. CASE refetch
    <2>1. /\ Done(~cache[req].exists) /\ pc = "refetch" /\ api' = api /\ watch' = watch
          /\ req' = req
      BY <1>12 DEF refetch, clusterVars, Done
    <2>2. req \notin queue /\ watch[req] = <<>> => ~NeedsWork(req)'
      BY <2>1 DEF WakeupInv, PatchedIsDone, NeedsWork
    <2>3. QED
      BY <1>2, <2>1, <2>2
  <1>13. QED
    BY <1>4, <1>5, <1>6, <1>7, <1>8, <1>9, <1>10, <1>11, <1>12 DEF Worker

\* So does every step of users, informer, queue and faults.
LEMMA OtherWakeup ==
  ASSUME TypeOK, WakeupInv, [Next]_vars, ~Worker
  PROVE  HeldIsCached' /\ PatchedIsDone' /\ NoLostWork'
  <1>0. /\ req \in Keys /\ watch \in [Keys -> Seq(Objects)]
        /\ api \in [Keys -> Objects] /\ cache \in [Keys -> Objects]
    BY DEF TypeOK, ClusterTypeOK
  <1>1. ASSUME UNCHANGED <<api, watch, cache>> \/ ApiWrite,
               UNCHANGED <<queue, pc, req, orig>>
        PROVE  HeldIsCached' /\ PatchedIsDone' /\ NoLostWork'
    <2>1. HeldIsCached'
      BY <1>0, <1>1, WriteTouches DEF WakeupInv, HeldIsCached
    <2>2. PatchedIsDone'
      BY <1>0, <1>1, WriteTouches DEF WakeupInv, PatchedIsDone, NeedsWork
    <2>3. ASSUME NEW k \in Keys, NeedsWork(k)', watch'[k] = <<>>
          PROVE  k \in queue' \/ Reconciling(k)'
      <3>1. api'[k] = api[k] /\ watch'[k] = watch[k]
        BY <1>1, <2>3, WriteTouches
      <3>2. NeedsWork(k)
        BY <2>3, <3>1 DEF NeedsWork
      <3>3. QED
        BY <1>1, <2>3, <3>1, <3>2 DEF WakeupInv, NoLostWork, Reconciling
    <2>4. QED
      BY <2>1, <2>2, <2>3 DEF NoLostWork
  <1>2. CASE UNCHANGED vars
    BY <1>1, <1>2 DEF vars, clusterVars, workerVars
  <1>3. CASE User
    <2>1. UNCHANGED <<queue, pc, req, orig>>
      BY <1>3 DEF User, workerVars
    <2>2. QED
      BY <1>1, <1>3, <2>1, UserKinds
  <1>4. ASSUME NEW h \in Keys, Deliver(h) \/ Relist(h)
        PROVE  HeldIsCached' /\ PatchedIsDone' /\ NoLostWork'
    <2>1. /\ UNCHANGED <<api, pc, req, orig>> /\ queue \subseteq queue'
          /\ \A k \in Keys \ {h} : watch'[k] = watch[k] /\ cache'[k] = cache[k]
          /\ h \in queue' \/ (~api[h].exists /\ ~cache[h].exists)
      BY <1>0, <1>4 DEF Deliver, Relist, NextEvent, ListAgain
    <2>2. HeldIsCached'
      <3>1. SUFFICES ASSUME pc \in Holding, req \notin queue'
                     PROVE  orig = cache'[req]
        BY <2>1 DEF HeldIsCached
      <3>2. orig = cache[req] /\ orig.exists
        BY <2>1, <3>1 DEF WakeupInv, HeldIsCached, HeldResource
      <3>3. req # h
        BY <2>1, <3>1, <3>2
      <3>4. QED
        BY <1>0, <2>1, <3>2, <3>3
    <2>3. PatchedIsDone'
      <3>1. SUFFICES ASSUME pc = "refetch", req \notin queue', watch'[req] = <<>>
                     PROVE  ~NeedsWork(req)
        BY <2>1 DEF PatchedIsDone, NeedsWork
      <3>2. CASE req = h
        BY <2>1, <3>1, <3>2 DEF NeedsWork
      <3>3. CASE req # h
        BY <1>0, <2>1, <3>1, <3>3 DEF WakeupInv, PatchedIsDone
      <3>4. QED
        BY <3>2, <3>3
    <2>4. ASSUME NEW k \in Keys, NeedsWork(k)
          PROVE  k \in queue' \/ Reconciling(k)' \/ watch'[k] # <<>>
      <3>1. CASE k = h
        BY <2>1, <2>4, <3>1 DEF NeedsWork
      <3>2. CASE k # h
        BY <2>1, <2>4, <3>2 DEF WakeupInv, NoLostWork, Reconciling
      <3>3. QED
        BY <3>1, <3>2
    <2>5. NoLostWork'
      BY <2>1, <2>4 DEF NoLostWork, NeedsWork
    <2>6. QED
      BY <2>2, <2>3, <2>5
  <1>5. ASSUME NEW h \in Keys, Dequeue(h)
        PROVE  HeldIsCached' /\ PatchedIsDone' /\ NoLostWork'
    <2>1. /\ UNCHANGED <<api, watch, cache>> /\ pc = "idle" /\ pc' = "get"
          /\ req' = h /\ queue' = queue \ {h}
      BY <1>5 DEF Dequeue, clusterVars
    <2>2. HeldIsCached' /\ PatchedIsDone'
      BY <2>1 DEF HeldIsCached, PatchedIsDone, Holding
    <2>3. ASSUME NEW k \in Keys, NeedsWork(k)
          PROVE  k \in queue' \/ Reconciling(k)' \/ watch'[k] # <<>>
      BY <2>1, <2>3 DEF WakeupInv, NoLostWork, Reconciling
    <2>4. NoLostWork'
      BY <2>1, <2>3 DEF NoLostWork, NeedsWork
    <2>5. QED
      BY <2>2, <2>4
  <1>6. CASE Failure
    <2>1. CASE CrashRestart
      <3>1. api' = api /\ pc' = "idle" /\ queue' = {k \in Keys : api[k].exists}
        BY <2>1 DEF CrashRestart, ListAll
      <3>2. HeldIsCached' /\ PatchedIsDone'
        BY <3>1 DEF HeldIsCached, PatchedIsDone, Holding
      <3>3. NoLostWork'
        BY <3>1 DEF NoLostWork, NeedsWork
      <3>4. QED
        BY <3>2, <3>3
    <2>2. CASE ~CrashRestart
      <3>1. Done(TRUE)
        BY <1>6, <2>2 DEF Failure, RequestFails, UpdateResponseLost, PatchResponseLost
      <3>2. UNCHANGED <<api, watch, cache>> \/ ApiWrite
        BY <1>6, <2>2, WorkerKinds
      <3>3. QED
        BY <3>1, <3>2, DoneSafe
    <2>3. QED
      BY <2>1, <2>2
  <1>7. QED
    BY <1>2, <1>3, <1>4, <1>5, <1>6 DEF Next

\* Nothing needs work at first.
LEMMA WakeupInit ==
  ASSUME Init
  PROVE  WakeupInv
  BY DEF Init, ClusterInit, WakeupInv, WatchOrdered, HeldResource, HeldIsCached,
         PatchedIsDone, NoLostWork, NeedsWork, NoObject, Holding

\* Every step keeps the invariant.
LEMMA WakeupStep ==
  ASSUME TypeOK, WakeupInv, [Next]_vars
  PROVE  WakeupInv'
  <1>1. WatchOrdered'
    BY WatchStep DEF WakeupInv
  <1>2. HeldResource'
    BY HeldStep DEF WakeupInv
  <1>3. HeldIsCached' /\ PatchedIsDone' /\ NoLostWork'
    BY WorkerWakeup, OtherWakeup
  <1>4. QED
    BY <1>1, <1>2, <1>3 DEF WakeupInv

\* No wakeup is lost, for any number of resources, user actions and faults: a
\* resource that Reconcile has not brought to rest is queued, being reconciled,
\* or about to be queued by an event.  Every return of Reconcile that does not
\* requeue is therefore safe, with a stale cache and lost responses included.
THEOREM NoWakeupLost == Spec => []NoLostWork
  <1>1. Init => WakeupInv
    BY WakeupInit
  <1>2. TypeOK /\ WakeupInv /\ [Next]_vars => WakeupInv'
    BY WakeupStep
  <1>3. WakeupInv => NoLostWork
    BY DEF WakeupInv
  <1>4. QED
    BY <1>1, <1>2, <1>3, TypeCorrect, PTL DEF Spec

-----------------------------------------------------------------------------
(***************************************************************************)
(* Stale versions                                                          *)
(***************************************************************************)

\* The cache only moves forward.
LEMMA CacheAdvances ==
  ASSUME TypeOK, WatchOrdered, [Next]_vars, NEW k \in Keys
  PROVE  cache[k].rv < cache'[k].rv \/ cache'[k] = cache[k]
  <1>1. cache \in [Keys -> Objects] /\ watch \in [Keys -> Seq(Objects)]
    BY DEF TypeOK, ClusterTypeOK
  <1>2. CASE UNCHANGED <<api, watch, cache>> \/ ApiWrite
    BY <1>2 DEF ApiWrite
  <1>3. CASE InformerMove
    <2>1. PICK h \in Keys : NextEvent(h) \/ ListAgain(h)
      BY <1>3 DEF InformerMove
    <2>2. CASE h # k
      BY <1>1, <2>1, <2>2 DEF NextEvent, ListAgain
    <2>3. CASE h = k /\ NextEvent(k)
      <3>1. cache'[k] = Head(watch[k]) /\ watch[k] # <<>>
        BY <1>1, <2>3 DEF NextEvent
      <3>2. 1 \in DOMAIN watch[k] /\ Head(watch[k]) = watch[k][1]
        BY <1>1, <3>1
      <3>3. QED
        BY <3>1, <3>2 DEF WatchOrdered
    <2>4. CASE h = k /\ ListAgain(k)
      BY <1>1, <2>4, StoredIsNewest DEF ListAgain
    <2>5. QED
      BY <2>1, <2>2, <2>3, <2>4
  <1>4. CASE ListAll
    <2>1. cache'[k] = api[k]
      BY <1>4 DEF ListAll
    <2>2. CASE watch[k] = <<>>
      BY <2>1, <2>2 DEF WatchOrdered
    <2>3. CASE watch[k] # <<>>
      BY <2>1, <2>3, StoredIsNewest
    <2>4. QED
      BY <2>2, <2>3
  <1>5. QED
    BY <1>2, <1>3, <1>4, StepKinds

\* Reading and computing leave cache and key alone.
LEMMA MemorySteps ==
  ASSUME ReconcileDelete \/ ReconcileCreateUpdate \/ (doDelete /\ res.fin) \/ doCreateUpdate
  PROVE  UNCHANGED <<api, watch, cache, queue, req>>
  BY DEF ReconcileDelete, ReconcileCreateUpdate, doDelete, doCreateUpdate, clusterVars

\* Every step keeps HeldIsOld.
LEMMA OldStep ==
  ASSUME TypeOK, WatchOrdered, HeldIsOld, [Next]_vars
  PROVE  HeldIsOld'
  <1>0. /\ req \in Keys /\ orig.rv \in Nat /\ cache[req].rv \in Nat
    BY DEF TypeOK, ClusterTypeOK, Objects
  <1>1. CASE Rest
    <2>1. CASE cache'[req] = cache[req]
      BY <1>1, <2>1 DEF Rest, HeldIsOld
    <2>2. CASE cache[req].rv < cache'[req].rv
      <3>1. cache'[req].rv \in Nat
        <4>1. TypeOK'
          BY TypeStep
        <4>2. QED
          BY <1>0, <4>1 DEF TypeOK, ClusterTypeOK, Objects
      <3>2. QED
        BY <1>0, <1>1, <2>2, <3>1 DEF Rest, HeldIsOld
    <2>3. QED
      BY <1>0, <2>1, <2>2, CacheAdvances
  <1>2. CASE Ended \/ Began \/ (patchStatus /\ pc' = "refetch")
    BY <1>2 DEF Ended, Began, HeldIsOld, Holding
  <1>3. CASE ReconcileDelete \/ ReconcileCreateUpdate
    <2>1. orig' = cache[req]
      BY <1>3 DEF ReconcileDelete, ReconcileCreateUpdate
    <2>2. QED
      BY <1>3, <2>1, MemorySteps DEF HeldIsOld
  <1>4. CASE (doDelete /\ res.fin) \/ doCreateUpdate
    <2>1. orig' = orig /\ pc \in Holding
      BY <1>4 DEF doDelete, doCreateUpdate, Holding
    <2>2. QED
      BY <1>4, <2>1, MemorySteps DEF HeldIsOld
  <1>5. QED
    BY <1>1, <1>2, <1>3, <1>4, WorkerMoves

\* An Update is accepted only when the resource read is the stored one and no
\* other version is around.
LEMMA AcceptedIsStored ==
  ASSUME TypeOK, WatchOrdered, HeldResource, HeldIsOld, pc \in Holding,
         UpdateAccepted(req, res)
  PROVE  orig = api[req] /\ cache[req] = api[req] /\ watch[req] = <<>>
  <1>1. /\ req \in Keys /\ orig.rv \in Nat /\ cache[req].rv \in Nat
        /\ api[req].rv \in Nat
    BY DEF TypeOK, ClusterTypeOK, Objects
  <1>2. orig.rv = api[req].rv
    BY DEF UpdateAccepted, HeldResource
  <1>3. cache[req].rv <= api[req].rv
    BY <1>1, StoredIsNewest
  <1>4. orig = cache[req]
    BY <1>1, <1>2, <1>3 DEF HeldIsOld
  <1>5. watch[req] = <<>>
    BY <1>1, <1>2, <1>4, StoredIsNewest
  <1>6. QED
    BY <1>1, <1>4, <1>5 DEF WatchOrdered

-----------------------------------------------------------------------------
(***************************************************************************)
(* The operator's writes                                                   *)
(***************************************************************************)

\* What an accepted Update stores, field by field.
LEMMA UpdateEffects ==
  ASSUME TypeOK, NEW k \in Keys, NEW o \in Objects
  PROVE  LET a == api[k]
             u == UpdateOf(k, o)
         IN /\ a.del /\ ~o.fin /\ ~o.hold => ~u.exists /\ u.uid = a.uid
            /\ ~(a.del /\ ~o.fin /\ ~o.hold) =>
                  /\ u.exists = a.exists /\ u.uid = a.uid /\ u.del = a.del
                  /\ u.fin = o.fin /\ u.hold = o.hold /\ u.sel = o.sel
                  /\ u.cond = a.cond /\ u.wls = a.wls
                  /\ u.gen = IF o.sel = a.sel THEN a.gen ELSE a.gen + 1
  <1>1. api[k] \in Objects
    BY DEF TypeOK, ClusterTypeOK
  <1>2. QED
    BY <1>1 DEF UpdateOf, Removed, Bump, NoObject, Objects

\* What a status patch stores, field by field.
LEMMA PatchEffects ==
  ASSUME TypeOK, NEW k \in Keys, NEW o \in Objects, NEW from \in Objects
  PROVE  LET a == api[k]
             u == Bump(PatchOf(k, o, from))
         IN /\ u.exists = a.exists /\ u.uid = a.uid /\ u.del = a.del /\ u.fin = a.fin
            /\ u.hold = a.hold /\ u.sel = a.sel /\ u.gen = a.gen
            /\ u.cond \in {a.cond, o.cond} /\ u.wls \in {a.wls, o.wls}
  <1>1. api[k] \in Objects
    BY DEF TypeOK, ClusterTypeOK
  <1>2. QED
    BY <1>1 DEF PatchOf, Bump, Objects

\* The step of UserIntentPreserved for one key.
IntentKept(k) ==
    \/ ~api'[k].exists /\ (api[k].exists => api[k].del /\ ~api[k].hold)
    \/ /\ api'[k].exists = api[k].exists
       /\ api'[k].uid = api[k].uid
       /\ api'[k].sel = api[k].sel
       /\ api'[k].gen = api[k].gen
       /\ api'[k].del = api[k].del
       /\ api'[k].hold = api[k].hold

\* The Updates and the patch of Reconcile keep what users did.
LEMMA WritesKeepIntent ==
  ASSUME TypeOK, WatchOrdered, HeldResource, HeldIsOld, pc \in Holding, NEW k \in Keys
  PROVE  /\ UpdateAccepted(req, res) /\ Store(req, UpdateOf(req, res)) => IntentKept(k)
         /\ ApplyPatch(req, res, orig) => IntentKept(k)
  <1>0. /\ req \in Keys /\ res \in Objects /\ orig \in Objects
        /\ api \in [Keys -> Objects]
    BY DEF TypeOK, ClusterTypeOK
  <1>1. ASSUME UpdateAccepted(req, res), Store(req, UpdateOf(req, res))
        PROVE  IntentKept(k)
    <2>1. CASE k # req
      BY <1>0, <1>1, <2>1 DEF Store, IntentKept
    <2>2. CASE k = req
      <3>1. api'[k] = UpdateOf(req, res)
        BY <1>0, <1>1, <2>2 DEF Store
      <3>2. res.sel = api[req].sel /\ res.hold = api[req].hold
        BY <1>1, AcceptedIsStored DEF HeldResource
      <3>3. QED
        BY <1>0, <2>2, <3>1, <3>2, UpdateEffects DEF IntentKept
    <2>3. QED
      BY <2>1, <2>2
  <1>2. ASSUME ApplyPatch(req, res, orig)
        PROVE  IntentKept(k)
    <2>1. CASE api' = api
      BY <2>1 DEF IntentKept
    <2>2. CASE Store(req, Bump(PatchOf(req, res, orig)))
      <3>1. CASE k # req
        BY <1>0, <2>2, <3>1 DEF Store, IntentKept
      <3>2. CASE k = req
        <4>1. api'[k] = Bump(PatchOf(req, res, orig))
          BY <1>0, <2>2, <3>2 DEF Store
        <4>2. QED
          BY <1>0, <3>2, <4>1, PatchEffects DEF IntentKept
      <3>3. QED
        BY <3>1, <3>2
    <2>3. QED
      BY <1>2, <2>1, <2>2 DEF ApplyPatch
  <1>3. QED
    BY <1>1, <1>2

\* The part of the invariant that concerns stale reads is inductive by itself.
ReadInv == TypeOK /\ WatchOrdered /\ HeldResource /\ HeldIsOld

\* Reads are stale but ordered, in every behaviour.
LEMMA ReadsOrdered == Spec => []ReadInv
  <1>1. Init => ReadInv
    <2>1. Init => TypeOK
      BY NoObjectType DEF Init, ClusterInit, TypeOK, ClusterTypeOK
    <2>2. QED
      BY <2>1 DEF Init, ClusterInit, ReadInv, WatchOrdered, HeldResource, HeldIsOld, Holding
  <1>2. ReadInv /\ [Next]_vars => ReadInv'
    BY TypeStep, WatchStep, HeldStep, OldStep DEF ReadInv
  <1>3. QED
    BY <1>1, <1>2, PTL DEF Spec

\* A step of the worker or a fault of it, on every key.
LEMMA IntentStep ==
  ASSUME ReadInv, [Next]_vars, pc' # pc, NEW k \in Keys
  PROVE  IntentKept(k)
  <1>1. ASSUME api' = api
        PROVE  IntentKept(k)
    BY <1>1 DEF IntentKept
  <1>2. CASE User
    BY <1>2 DEF User, workerVars
  <1>3. ASSUME NEW h \in Keys, Deliver(h) \/ Relist(h)
        PROVE  IntentKept(k)
    BY <1>3 DEF Deliver, Relist
  <1>4. ASSUME NEW h \in Keys, Dequeue(h)
        PROVE  IntentKept(k)
    BY <1>1, <1>4 DEF Dequeue, clusterVars
  <1>5. CASE Update \/ UpdateResponseLost
    <2>1. pc \in Holding
      BY <1>5 DEF Update, UpdateResponseLost, Holding
    <2>2. api' = api \/ (UpdateAccepted(req, res) /\ Store(req, UpdateOf(req, res)))
      BY <1>5 DEF Update, UpdateResponseLost
    <2>3. QED
      BY <1>1, <2>1, <2>2, WritesKeepIntent DEF ReadInv
  <1>6. CASE patchStatus \/ PatchResponseLost
    <2>1. pc \in Holding
      BY <1>6 DEF patchStatus, PatchResponseLost, Holding
    <2>2. api' = api \/ ApplyPatch(req, res, orig)
      BY <1>6 DEF patchStatus, PatchResponseLost
    <2>3. QED
      BY <1>1, <2>1, <2>2, WritesKeepIntent DEF ReadInv
  <1>7. CASE RequestFails \/ CrashRestart
    BY <1>1, <1>7 DEF RequestFails, CrashRestart, ListAll, clusterVars
  <1>8. CASE Worker /\ ~Update /\ ~patchStatus
    BY <1>1, <1>8
       DEF Worker, ReconcileNotFound, ReconcileDelete, ReconcileCreateUpdate,
           ListWorkloadsError, doDelete, doCreateUpdate, refetch, clusterVars
  <1>9. CASE UNCHANGED vars
    BY <1>9 DEF vars, workerVars
  <1>10. QED
    BY <1>2, <1>3, <1>4, <1>5, <1>6, <1>7, <1>8, <1>9 DEF Next, Failure

\* A step of the operator never undoes what users did: although Updates send
\* the whole resource as it was read from a cache that may be stale, neither the
\* spec nor a deletion mark nor another finalizer of the stored resource is
\* changed, and only a deleted resource is removed.
THEOREM UserIntentKept == Spec => UserIntentPreserved
  <1>1. ReadInv /\ [Next]_vars => (pc' # pc => \A k \in Keys : IntentKept(k))
    BY IntentStep
  <1>2. QED
    BY <1>1, ReadsOrdered, PTL DEF Spec, UserIntentPreserved, IntentKept

-----------------------------------------------------------------------------
(***************************************************************************)
(* Observed generations                                                    *)
(***************************************************************************)

\* What every write but the removal of the finalizer does to the stored object:
\* the identity only grows, within one identity the generation does, nothing
\* comes back under an old identity, and an object with the finalizer stays.
Succeeds(a, o) ==
    /\ a.uid <= o.uid
    /\ o.exists => GenerationsSound(o) /\ (a.exists \/ a.uid < o.uid)
    /\ a.exists /\ o.exists /\ a.uid = o.uid => a.gen <= o.gen
    /\ a.exists /\ a.fin => o.exists /\ o.fin /\ o.uid = a.uid

\* What preceded the stored object precedes its successor.
LEMMA PrecedesSuccessor ==
  ASSUME NEW v \in Objects, NEW a \in Objects, NEW o \in Objects,
         Precedes(v, a), Succeeds(a, o)
  PROVE  Precedes(v, o) /\ Precedes(o, o)
  <1>1. /\ v.uid \in Nat /\ a.uid \in Nat /\ o.uid \in Nat
        /\ v.gen \in Nat /\ a.gen \in Nat /\ o.gen \in Nat
    BY DEF Objects
  <1>2. QED
    BY <1>1 DEF Precedes, Succeeds

\* The writes of users.
LEMMA UserSucceeds ==
  ASSUME TypeOK, VersionsPrecede, NEW k \in Keys
  PROVE  LET a == api[k]
         IN /\ ~a.exists => \A sel \in Selectors, hold \in BOOLEAN :
                  Succeeds(a, [NoObject EXCEPT !.exists = TRUE, !.uid = a.uid + 1,
                                 !.rv = a.rv + 1, !.gen = 1, !.hold = hold, !.sel = sel])
            /\ a.exists => \A sel \in Selectors :
                  Succeeds(a, Bump([a EXCEPT !.sel = sel, !.gen = @ + 1]))
            /\ a.exists => Succeeds(a, Bump([a EXCEPT !.del = TRUE, !.gen = @ + 1]))
            /\ a.exists => Succeeds(a, Bump([a EXCEPT !.hold = FALSE]))
            /\ ~a.fin => Succeeds(a, Removed(a))
  <1> DEFINE a == api[k]
  <1>1. a \in Objects
    BY DEF TypeOK, ClusterTypeOK
  <1>2. /\ a.uid \in Nat /\ a.rv \in Nat /\ a.gen \in Nat /\ a.cond.gen \in Nat
        /\ \A w \in Workloads : a.wls[w].gen \in Nat
    BY <1>1 DEF Objects, Conditions, WorkloadStatuses
  <1>3. a.exists => GenerationsSound(a)
    BY DEF VersionsPrecede
  <1>4. ASSUME ~a.exists, NEW sel \in Selectors, NEW hold \in BOOLEAN
        PROVE  Succeeds(a, [NoObject EXCEPT !.exists = TRUE, !.uid = a.uid + 1,
                              !.rv = a.rv + 1, !.gen = 1, !.hold = hold, !.sel = sel])
    <2> DEFINE o == [NoObject EXCEPT !.exists = TRUE, !.uid = a.uid + 1,
                       !.rv = a.rv + 1, !.gen = 1, !.hold = hold, !.sel = sel]
    <2>1. /\ o.uid = a.uid + 1 /\ o.gen = 1 /\ o.cond = NoCondition
          /\ o.wls = [w \in Workloads |-> NotListed]
      BY DEF NoObject
    <2>2. GenerationsSound(o)
      BY <2>1 DEF GenerationsSound, NoCondition, NotListed
    <2>3. QED
      BY <1>2, <1>4, <2>1, <2>2 DEF Succeeds
  <1>5. ASSUME a.exists, NEW o, o.exists = a.exists, o.uid = a.uid, o.fin = a.fin,
               o.gen \in Nat, a.gen <= o.gen, o.cond = a.cond, o.wls = a.wls
        PROVE  Succeeds(a, o)
    <2>1. GenerationsSound(o)
      BY <1>2, <1>3, <1>5 DEF GenerationsSound
    <2>2. QED
      BY <1>2, <1>5, <2>1 DEF Succeeds
  <1>6. ASSUME a.exists, NEW sel \in Selectors
        PROVE  Succeeds(a, Bump([a EXCEPT !.sel = sel, !.gen = @ + 1]))
    <2> DEFINE o == Bump([a EXCEPT !.sel = sel, !.gen = @ + 1])
    <2>1. /\ o.exists = a.exists /\ o.uid = a.uid /\ o.fin = a.fin
          /\ o.gen = a.gen + 1 /\ o.cond = a.cond /\ o.wls = a.wls
      BY <1>1 DEF Bump, Objects
    <2>2. o.gen \in Nat /\ a.gen <= o.gen
      BY <1>2, <2>1
    <2>3. QED
      BY <1>5, <1>6, <2>1, <2>2
  <1>7. ASSUME a.exists
        PROVE  Succeeds(a, Bump([a EXCEPT !.del = TRUE, !.gen = @ + 1]))
    <2> DEFINE o == Bump([a EXCEPT !.del = TRUE, !.gen = @ + 1])
    <2>1. /\ o.exists = a.exists /\ o.uid = a.uid /\ o.fin = a.fin
          /\ o.gen = a.gen + 1 /\ o.cond = a.cond /\ o.wls = a.wls
      BY <1>1 DEF Bump, Objects
    <2>2. o.gen \in Nat /\ a.gen <= o.gen
      BY <1>2, <2>1
    <2>3. QED
      BY <1>5, <1>7, <2>1, <2>2
  <1>8. ASSUME a.exists
        PROVE  Succeeds(a, Bump([a EXCEPT !.hold = FALSE]))
    <2> DEFINE o == Bump([a EXCEPT !.hold = FALSE])
    <2>1. /\ o.exists = a.exists /\ o.uid = a.uid /\ o.fin = a.fin
          /\ o.gen = a.gen /\ o.cond = a.cond /\ o.wls = a.wls
      BY <1>1 DEF Bump, Objects
    <2>2. o.gen \in Nat /\ a.gen <= o.gen
      BY <1>2, <2>1
    <2>3. QED
      BY <1>5, <1>8, <2>1, <2>2
  <1>9. ASSUME ~a.fin
        PROVE  Succeeds(a, Removed(a))
    <2>1. ~Removed(a).exists /\ Removed(a).uid = a.uid
      BY DEF Removed, NoObject
    <2>2. QED
      BY <1>2, <1>9, <2>1 DEF Succeeds
  <1>10. QED
    BY <1>4, <1>6, <1>7, <1>8, <1>9

\* The Update of applyFinalizer and the status patch.
LEMMA WorkerSucceeds ==
  ASSUME TypeOK, VersionInv
  PROVE  /\ pc = "applyFinalizer" /\ UpdateAccepted(req, res)
               => Succeeds(api[req], UpdateOf(req, res))
         /\ pc = "patchStatus" /\ api[req].exists
               => Succeeds(api[req], Bump(PatchOf(req, res, orig)))
  <1> DEFINE a == api[req]
  <1>0. /\ req \in Keys /\ res \in Objects /\ orig \in Objects /\ a \in Objects
    BY DEF TypeOK, ClusterTypeOK
  <1>1. /\ a.uid \in Nat /\ a.gen \in Nat /\ orig.gen \in Nat
    BY <1>0 DEF Objects
  <1>2. a.exists => GenerationsSound(a)
    BY <1>0 DEF VersionInv, VersionsPrecede
  <1>3. ASSUME pc = "applyFinalizer", UpdateAccepted(req, res)
        PROVE  Succeeds(a, UpdateOf(req, res))
    <2> DEFINE u == UpdateOf(req, res)
    <2>1. orig = a
      BY <1>3, AcceptedIsStored DEF VersionInv, Holding
    <2>2. res.fin /\ ~a.del /\ res.sel = a.sel
      BY <1>3, <2>1 DEF VersionInv, HeldResource, Holding
    <2>3. /\ u.exists = a.exists /\ u.uid = a.uid /\ u.fin = res.fin
          /\ u.gen = a.gen /\ u.cond = a.cond /\ u.wls = a.wls
      <3>1. ~(a.del /\ ~res.fin /\ ~res.hold) =>
               /\ u.exists = a.exists /\ u.uid = a.uid /\ u.fin = res.fin
               /\ u.cond = a.cond /\ u.wls = a.wls
               /\ u.gen = IF res.sel = a.sel THEN a.gen ELSE a.gen + 1
        BY <1>0, UpdateEffects
      <3>2. QED
        BY <2>2, <3>1
    <2>4. a.exists
      BY <1>3 DEF UpdateAccepted
    <2>5. GenerationsSound(u)
      BY <1>2, <2>3, <2>4 DEF GenerationsSound
    <2>6. QED
      BY <1>1, <2>2, <2>3, <2>4, <2>5 DEF Succeeds
  <1>4. ASSUME pc = "patchStatus", a.exists
        PROVE  Succeeds(a, Bump(PatchOf(req, res, orig)))
    <2> DEFINE u == Bump(PatchOf(req, res, orig))
    <2>1. /\ u.exists = a.exists /\ u.uid = a.uid /\ u.fin = a.fin /\ u.gen = a.gen
          /\ u.cond \in {a.cond, res.cond} /\ u.wls \in {a.wls, res.wls}
      BY <1>0, PatchEffects
    <2>2. orig.exists /\ orig.fin /\ ~orig.del /\ res.cond.gen = orig.gen
      BY <1>4 DEF VersionInv, HeldResource, Holding
    <2>3. orig.gen <= a.gen
      BY <1>4, <2>2 DEF VersionInv, HeldPrecedes, Precedes, Holding
    <2>4. \A w \in Workloads : res.wls[w].gen <= orig.gen
      BY <1>4 DEF VersionInv, HeldPrecedes
    <2>5. \A w \in Workloads : res.wls[w].gen \in Nat
      BY <1>0 DEF Objects, WorkloadStatuses
    <2>6. \A w \in Workloads : res.wls[w].gen <= a.gen
      BY <1>1, <2>3, <2>4, <2>5
    <2>7. GenerationsSound(u)
      BY <1>2, <1>4, <2>1, <2>2, <2>3, <2>6 DEF GenerationsSound
    <2>8. QED
      BY <1>1, <1>4, <2>1, <2>7 DEF Succeeds
  <1>5. QED
    BY <1>3, <1>4

\* A write that stores a successor, and the one that removes the finalizer.
SuccessorWrite ==
    \E k \in Keys : \E o \in Objects :
        Succeeds(api[k], o) /\ Store(k, o) /\ UNCHANGED cache
FinalizerRemoval ==
    /\ pc = "removeFinalizer"
    /\ UpdateAccepted(req, res)
    /\ Store(req, UpdateOf(req, res))
    /\ UNCHANGED cache
    /\ pc' = "idle"
ApiUntouched == UNCHANGED <<api, watch, cache>>

\* Users store successors.
LEMMA UserWrites ==
  ASSUME TypeOK, VersionsPrecede, User
  PROVE  ApiUntouched \/ SuccessorWrite
  <1>0. \A k \in Keys : api[k] \in Objects
    BY DEF TypeOK, ClusterTypeOK
  <1>1. \A k \in Keys : /\ api[k].uid + 1 \in Nat /\ api[k].rv + 1 \in Nat
                        /\ api[k].gen + 1 \in Nat
    BY <1>0 DEF Objects
  <1>2. ASSUME NEW k \in Keys, NEW sel \in Selectors, NEW hold \in BOOLEAN,
               Create(k, sel, hold)
        PROVE  SuccessorWrite
    <2> DEFINE o == [NoObject EXCEPT !.exists = TRUE, !.uid = api[k].uid + 1,
                               !.rv = api[k].rv + 1, !.gen = 1,
                               !.hold = hold, !.sel = sel]
    <2>1. api[k].uid + 1 \in Nat /\ api[k].rv + 1 \in Nat
      BY <1>1
    <2>2. \A u, r \in Nat : [NoObject EXCEPT !.exists = TRUE, !.uid = u, !.rv = r,
                               !.gen = 1, !.hold = hold, !.sel = sel] \in Objects
      BY NoObjectType DEF Objects
    <2>3. o \in Objects
      BY <2>1, <2>2
    <2>4. Succeeds(api[k], o)
      BY <1>2, UserSucceeds DEF Create
    <2>5. QED
      BY <1>2, <2>3, <2>4 DEF Create, SuccessorWrite
  <1>3. ASSUME NEW k \in Keys, NEW sel \in Selectors, EditSpec(k, sel)
        PROVE  SuccessorWrite
    <2> DEFINE e == [api[k] EXCEPT !.sel = sel, !.gen = @ + 1]
    <2>1. api[k] \in Objects /\ api[k].gen + 1 \in Nat
      BY <1>0, <1>1
    <2>2. e \in Objects
      BY <2>1 DEF Objects
    <2>3. Bump(e) \in Objects
      BY <2>2, StoredTypes
    <2>4. Succeeds(api[k], Bump(e))
      BY <1>3, UserSucceeds DEF EditSpec
    <2>5. QED
      BY <1>3, <2>3, <2>4 DEF EditSpec, SuccessorWrite
  <1>4. ASSUME NEW k \in Keys, Delete(k)
        PROVE  SuccessorWrite
    <2> DEFINE d == [api[k] EXCEPT !.del = TRUE, !.gen = @ + 1]
    <2>1. api[k] \in Objects /\ api[k].gen + 1 \in Nat
      BY <1>0, <1>1
    <2>2. d \in Objects
      BY <2>1 DEF Objects
    <2>3. Bump(d) \in Objects /\ Removed(api[k]) \in Objects
      BY <2>1, <2>2, StoredTypes
    <2>4. /\ api[k].fin \/ api[k].hold => Store(k, Bump(d))
          /\ ~(api[k].fin \/ api[k].hold) => Store(k, Removed(api[k]))
          /\ api[k].exists /\ UNCHANGED cache
      BY <1>4 DEF Delete
    <2>5. /\ Succeeds(api[k], Bump(d))
          /\ ~api[k].fin => Succeeds(api[k], Removed(api[k]))
      BY <2>4, UserSucceeds
    <2>6. QED
      BY <2>3, <2>4, <2>5 DEF SuccessorWrite
  <1>5. ASSUME NEW k \in Keys, ReleaseHold(k)
        PROVE  SuccessorWrite
    <2> DEFINE r == [api[k] EXCEPT !.hold = FALSE]
    <2>1. api[k] \in Objects
      BY DEF TypeOK, ClusterTypeOK
    <2>2. r \in Objects
      BY <2>1 DEF Objects
    <2>3. Bump(r) \in Objects /\ Removed(api[k]) \in Objects
      BY <2>1, <2>2, StoredTypes
    <2>4. /\ api[k].del /\ ~api[k].fin => Store(k, Removed(api[k]))
          /\ ~(api[k].del /\ ~api[k].fin) => Store(k, Bump(r))
          /\ api[k].exists /\ UNCHANGED cache
      BY <1>5 DEF ReleaseHold
    <2>5. /\ Succeeds(api[k], Bump(r))
          /\ ~api[k].fin => Succeeds(api[k], Removed(api[k]))
      BY <2>4, UserSucceeds
    <2>6. QED
      BY <2>3, <2>4, <2>5 DEF SuccessorWrite
  <1>6. (\E w \in Workloads : ToggleWorkload(w)) \/ Tick => ApiUntouched
    BY DEF ToggleWorkload, Tick, ApiUntouched
  <1>7. QED
    BY <1>2, <1>3, <1>4, <1>5, <1>6 DEF User

\* Every write stores a successor or removes the finalizer.
LEMMA VersionKinds ==
  ASSUME TypeOK, VersionInv, [Next]_vars
  PROVE  \/ ApiUntouched \/ SuccessorWrite \/ FinalizerRemoval
         \/ InformerMove \/ ListAll
  <1> USE DEF clusterVars
  <1>0. req \in Keys /\ res \in Objects /\ orig \in Objects
    BY DEF TypeOK
  <1>1. ASSUME Update \/ UpdateResponseLost
        PROVE  ApiUntouched \/ SuccessorWrite \/ FinalizerRemoval
    <2>1. /\ pc \in {"applyFinalizer", "removeFinalizer"} /\ pc' = "idle" /\ cache' = cache
          /\ \/ UpdateAccepted(req, res) /\ Store(req, UpdateOf(req, res))
             \/ UNCHANGED <<api, watch>>
      BY <1>1 DEF Update, UpdateResponseLost, Done
    <2>2. UpdateOf(req, res) \in Objects
      BY <1>0, WriteTypes
    <2>3. QED
      BY <1>0, <2>1, <2>2, WorkerSucceeds DEF ApiUntouched, SuccessorWrite, FinalizerRemoval
  <1>2. ASSUME patchStatus \/ PatchResponseLost
        PROVE  ApiUntouched \/ SuccessorWrite
    <2>1. /\ pc = "patchStatus" /\ cache' = cache
          /\ \/ api[req].exists /\ ApplyPatch(req, res, orig)
             \/ UNCHANGED <<api, watch>>
      BY <1>2 DEF patchStatus, PatchResponseLost
    <2>2. Bump(PatchOf(req, res, orig)) \in Objects
      BY <1>0, NewVersions DEF NewVersion
    <2>3. QED
      BY <1>0, <2>1, <2>2, WorkerSucceeds DEF ApiUntouched, SuccessorWrite, ApplyPatch
  <1>3. ASSUME Worker, ~Update, ~patchStatus
        PROVE  ApiUntouched
    BY <1>3 DEF Worker, ReconcileNotFound, ReconcileDelete, ReconcileCreateUpdate,
                ListWorkloadsError, doDelete, doCreateUpdate, refetch, ApiUntouched
  <1>4. ASSUME RequestFails \/ CrashRestart
        PROVE  ApiUntouched \/ ListAll
    BY <1>4 DEF RequestFails, CrashRestart, ApiUntouched
  <1>5. ASSUME NEW k \in Keys, Deliver(k) \/ Relist(k)
        PROVE  InformerMove
    BY <1>5 DEF Deliver, Relist, InformerMove
  <1>6. ASSUME NEW k \in Keys, Dequeue(k)
        PROVE  ApiUntouched
    BY <1>6 DEF Dequeue, ApiUntouched
  <1>7. CASE UNCHANGED vars
    BY <1>7 DEF vars, ApiUntouched
  <1>8. VersionsPrecede
    BY DEF VersionInv
  <1>9. QED
    BY <1>1, <1>2, <1>3, <1>4, <1>5, <1>6, <1>7, <1>8, UserWrites DEF Next, Failure

\* After any step but the removal of the finalizer, what preceded the stored
\* object still does.
LEMMA StillPrecedes ==
  ASSUME TypeOK, VersionInv, [Next]_vars, ~FinalizerRemoval,
         NEW k \in Keys, NEW v \in Objects, Precedes(v, api[k])
  PROVE  Precedes(v, api'[k])
  <1>1. api \in [Keys -> Objects]
    BY DEF TypeOK, ClusterTypeOK
  <1>2. CASE SuccessorWrite
    <2>1. PICK h \in Keys, o \in Objects : Succeeds(api[h], o) /\ Store(h, o)
      BY <1>2 DEF SuccessorWrite
    <2>2. CASE h = k
      BY <1>1, <2>1, <2>2, PrecedesSuccessor DEF Store
    <2>3. CASE h # k
      BY <1>1, <2>1, <2>3 DEF Store
    <2>4. QED
      BY <2>2, <2>3
  <1>3. CASE ApiUntouched \/ InformerMove \/ ListAll
    BY <1>3 DEF ApiUntouched, InformerMove, NextEvent, ListAgain, ListAll
  <1>4. QED
    BY <1>2, <1>3, VersionKinds

\* A stored object of sound generations precedes itself.
LEMMA StoredPrecedesItself ==
  ASSUME NEW o \in Objects, o.exists => GenerationsSound(o)
  PROVE  Precedes(o, o)
  <1>1. o.uid \in Nat /\ o.gen \in Nat
    BY DEF Objects
  <1>2. QED
    BY <1>1 DEF Precedes

\* The claim of VersionsPrecede for one key in the next state.
KeyPrecedes(k) ==
    /\ api'[k].exists => GenerationsSound(api'[k])
    /\ Precedes(cache'[k], api'[k])
    /\ \A i \in DOMAIN watch'[k] : Precedes(watch'[k][i], api'[k])

\* A write that appends o: enough that o and all older versions precede o.
LEMMA AppendPrecedes ==
  ASSUME TypeOK, NEW k \in Keys, NEW o \in Objects, Store(k, o), UNCHANGED cache,
         o.exists => GenerationsSound(o), Precedes(cache[k], o),
         \A i \in DOMAIN watch[k] : Precedes(watch[k][i], o)
  PROVE  KeyPrecedes(k)
  <1>1. api \in [Keys -> Objects] /\ watch \in [Keys -> Seq(Objects)]
    BY DEF TypeOK, ClusterTypeOK
  <1>2. api'[k] = o /\ watch'[k] = Append(watch[k], o)
    BY <1>1 DEF Store
  <1>3. watch[k] \in Seq(Objects)
    BY <1>1
  <1>4. ASSUME NEW i \in DOMAIN watch'[k]
        PROVE  Precedes(watch'[k][i], o)
    <2>1. i \in 1..(Len(watch[k]) + 1) /\ Len(watch[k]) \in Nat
      BY <1>2, <1>3, <1>4, AppendProperties
    <2>2. CASE i = Len(watch[k]) + 1
      BY <1>2, <1>3, <2>2, AppendProperties, StoredPrecedesItself
    <2>3. CASE i # Len(watch[k]) + 1
      <3>1. i \in 1..Len(watch[k])
        BY <2>1, <2>3
      <3>2. watch'[k][i] = watch[k][i] /\ i \in DOMAIN watch[k]
        BY <1>2, <1>3, <3>1, AppendProperties
      <3>3. QED
        BY <3>2
    <2>4. QED
      BY <2>2, <2>3
  <1>5. QED
    BY <1>2, <1>4 DEF KeyPrecedes

\* Removing the finalizer: the version read is the stored one and is marked as
\* deleted, so nobody has a version the status may still be patched from.
LEMMA RemovalPrecedes ==
  ASSUME TypeOK, VersionInv, FinalizerRemoval
  PROVE  KeyPrecedes(req)
  <1> DEFINE a == api[req]
             u == UpdateOf(req, res)
  <1>0. /\ req \in Keys /\ res \in Objects /\ a \in Objects
    BY DEF TypeOK, ClusterTypeOK
  <1>1. orig = a /\ cache[req] = a /\ watch[req] = <<>>
    BY AcceptedIsStored DEF FinalizerRemoval, VersionInv, Holding
  <1>2. a.del /\ ~res.fin /\ res.sel = a.sel
    BY <1>1 DEF FinalizerRemoval, VersionInv, HeldResource, Holding
  <1>3. a.exists /\ GenerationsSound(a)
    BY <1>0 DEF FinalizerRemoval, UpdateAccepted, VersionInv, VersionsPrecede
  <1>4. /\ u.uid = a.uid /\ u \in Objects
        /\ u.exists => u.gen = a.gen /\ u.cond = a.cond /\ u.wls = a.wls
    BY <1>0, <1>2, UpdateEffects, WriteTypes
  <1>5. u.exists => GenerationsSound(u)
    BY <1>3, <1>4 DEF GenerationsSound
  <1>6. a.uid \in Nat /\ a.gen \in Nat
    BY <1>0 DEF Objects
  <1>7. Precedes(a, u)
    BY <1>2, <1>3, <1>4, <1>6 DEF Precedes
  <1>8. \A i \in DOMAIN watch[req] : Precedes(watch[req][i], u)
    BY <1>1
  <1>9. QED
    BY <1>0, <1>1, <1>4, <1>5, <1>7, <1>8, AppendPrecedes DEF FinalizerRemoval

\* Every step keeps VersionsPrecede.
LEMMA VersionsStep ==
  ASSUME TypeOK, VersionInv, [Next]_vars
  PROVE  VersionsPrecede'
  <1> SUFFICES ASSUME NEW k \in Keys
               PROVE  KeyPrecedes(k)
    BY DEF VersionsPrecede, KeyPrecedes
  <1>1. /\ api \in [Keys -> Objects] /\ watch \in [Keys -> Seq(Objects)]
        /\ cache \in [Keys -> Objects]
    BY DEF TypeOK, ClusterTypeOK
  <1>2. /\ api[k].exists => GenerationsSound(api[k])
        /\ Precedes(cache[k], api[k])
        /\ \A i \in DOMAIN watch[k] : Precedes(watch[k][i], api[k])
    BY DEF VersionInv, VersionsPrecede
  <1>3. ASSUME api'[k] = api[k], watch'[k] = watch[k], cache'[k] = cache[k]
        PROVE  KeyPrecedes(k)
    BY <1>2, <1>3 DEF KeyPrecedes
  <1>4. ASSUME api'[k] = api[k], watch'[k] = <<>>, cache'[k] = api[k]
        PROVE  KeyPrecedes(k)
    BY <1>1, <1>2, <1>4, StoredPrecedesItself DEF KeyPrecedes
  <1>5. CASE ApiUntouched
    BY <1>3, <1>5 DEF ApiUntouched
  <1>6. CASE SuccessorWrite
    <2>1. PICK h \in Keys, o \in Objects : Succeeds(api[h], o) /\ Store(h, o) /\ UNCHANGED cache
      BY <1>6 DEF SuccessorWrite
    <2>2. CASE h # k
      BY <1>1, <1>3, <2>1, <2>2 DEF Store
    <2>3. CASE h = k
      <3>1. o.exists => GenerationsSound(o)
        BY <2>1, <2>3 DEF Succeeds
      <3>2. Precedes(cache[k], o)
        BY <1>1, <1>2, <2>1, <2>3, PrecedesSuccessor
      <3>3. \A i \in DOMAIN watch[k] : Precedes(watch[k][i], o)
        BY <1>1, <1>2, <2>1, <2>3, PrecedesSuccessor, WatchedType
      <3>4. QED
        BY <2>1, <2>3, <3>1, <3>2, <3>3, AppendPrecedes
    <2>4. QED
      BY <2>2, <2>3
  <1>7. CASE FinalizerRemoval
    <2>1. CASE k = req
      BY <1>7, <2>1, RemovalPrecedes
    <2>2. CASE k # req
      BY <1>1, <1>3, <1>7, <2>2 DEF FinalizerRemoval, Store
    <2>3. QED
      BY <2>1, <2>2
  <1>8. CASE InformerMove
    <2>1. PICK h \in Keys : NextEvent(h) \/ ListAgain(h)
      BY <1>8 DEF InformerMove
    <2>2. CASE h # k
      BY <1>1, <1>3, <2>1, <2>2 DEF NextEvent, ListAgain
    <2>3. CASE h = k /\ NextEvent(k)
      <3>1. /\ watch[k] # <<>> /\ cache'[k] = Head(watch[k])
            /\ watch'[k] = Tail(watch[k]) /\ api' = api
        BY <1>1, <2>3 DEF NextEvent
      <3>2. watch[k] \in Seq(Objects)
        BY <1>1
      <3>3. 1 \in DOMAIN watch[k] /\ Head(watch[k]) = watch[k][1]
        BY <3>1, <3>2
      <3>4. ASSUME NEW i \in DOMAIN watch'[k]
            PROVE  Precedes(watch'[k][i], api[k])
        <4>1. i + 1 \in DOMAIN watch[k] /\ watch'[k][i] = watch[k][i + 1]
          BY <3>1, <3>2, <3>4
        <4>2. QED
          BY <1>2, <4>1
      <3>5. QED
        BY <1>2, <3>1, <3>3, <3>4 DEF KeyPrecedes
    <2>4. CASE h = k /\ ListAgain(k)
      BY <1>1, <1>4, <2>4 DEF ListAgain
    <2>5. QED
      BY <2>1, <2>2, <2>3, <2>4
  <1>9. CASE ListAll
    BY <1>4, <1>9 DEF ListAll
  <1>10. QED
    BY <1>5, <1>6, <1>7, <1>8, <1>9, VersionKinds

\* Every step keeps HeldPrecedes.
LEMMA HeldPrecedesStep ==
  ASSUME TypeOK, VersionInv, [Next]_vars
  PROVE  HeldPrecedes'
  <1>0. /\ req \in Keys /\ orig \in Objects /\ res \in Objects /\ cache[req] \in Objects
    BY DEF TypeOK, ClusterTypeOK
  <1>1. CASE Rest
    <2>1. ~FinalizerRemoval
      BY <1>1 DEF Rest, FinalizerRemoval
    <2>2. pc \in Holding => Precedes(orig, api'[req])
      BY <1>0, <2>1, StillPrecedes DEF VersionInv, HeldPrecedes
    <2>3. QED
      BY <1>1, <2>2 DEF Rest, VersionInv, HeldPrecedes
  <1>2. CASE Ended \/ Began \/ (patchStatus /\ pc' = "refetch")
    BY <1>2 DEF Ended, Began, HeldPrecedes, Holding
  <1>3. CASE ReconcileDelete \/ ReconcileCreateUpdate
    <2>1. orig' = cache[req] /\ pc' # "patchStatus" /\ req' = req /\ api' = api
      BY <1>3 DEF ReconcileDelete, ReconcileCreateUpdate, clusterVars
    <2>2. Precedes(cache[req], api[req])
      BY <1>0 DEF VersionInv, VersionsPrecede
    <2>3. QED
      BY <2>1, <2>2 DEF HeldPrecedes
  <1>4. CASE doDelete /\ res.fin
    <2>1. /\ orig' = orig /\ pc = "doDelete" /\ pc' # "patchStatus" /\ req' = req
          /\ api' = api
      BY <1>4 DEF doDelete, clusterVars
    <2>2. QED
      BY <2>1 DEF VersionInv, HeldPrecedes, Holding
  <1>5. CASE doCreateUpdate
    <2> DEFINE u == updateWorkloadStatus(res, Matching.items)
               r == reconcileResult(u, Matching.items)
    <2>1. /\ orig' = orig /\ pc = "doCreateUpdate" /\ req' = req /\ api' = api /\ res' = r
      BY <1>5 DEF doCreateUpdate, clusterVars
    <2>2. Precedes(orig, api[req])
      BY <2>1 DEF VersionInv, HeldPrecedes, Holding
    <2>3. orig.exists /\ res.gen = orig.gen /\ res.wls = orig.wls
      BY <2>1 DEF VersionInv, HeldResource, Holding
    <2>4. \A w \in Workloads : orig.wls[w].gen <= orig.gen
      BY <2>2, <2>3 DEF Precedes, GenerationsSound
    <2>5. u \in Objects
      BY <1>0, StatusTypes
    <2>6. r.wls = u.wls
      BY <2>5, StatusEffects
    <2>7. \A w \in Workloads : u.wls[w].gen = res.gen \/ u.wls[w] = res.wls[w]
      BY <1>0, StatusEffects
    <2>8. orig.gen \in Nat
      BY <1>0 DEF Objects
    <2>9. \A w \in Workloads : r.wls[w].gen <= orig.gen
      BY <2>3, <2>4, <2>6, <2>7, <2>8
    <2>10. QED
      BY <2>1, <2>2, <2>9 DEF HeldPrecedes
  <1>6. QED
    BY <1>1, <1>2, <1>3, <1>4, <1>5, WorkerMoves

\* Every step keeps the invariant.
LEMMA VersionStep ==
  ASSUME TypeOK, VersionInv, [Next]_vars
  PROVE  VersionInv'
  <1>1. VersionsPrecede' /\ HeldPrecedes'
    BY VersionsStep, HeldPrecedesStep
  <1>2. QED
    BY <1>1, TypeStep, WatchStep, HeldStep, OldStep DEF VersionInv

\* Nothing is stored and nothing is held at first.
LEMMA VersionInit ==
  ASSUME Init
  PROVE  TypeOK /\ VersionInv
  <1>1. TypeOK
    BY NoObjectType DEF Init, ClusterInit, TypeOK, ClusterTypeOK
  <1>2. ~NoObject.exists
    BY DEF NoObject
  <1>3. Precedes(NoObject, NoObject)
    BY <1>2, NoObjectType, StoredPrecedesItself
  <1>4. VersionsPrecede
    BY <1>2, <1>3 DEF Init, ClusterInit, VersionsPrecede
  <1>5. QED
    BY <1>1, <1>4 DEF Init, ClusterInit, VersionInv, WatchOrdered, HeldResource,
                      HeldIsOld, HeldPrecedes, Holding

\* Every version anybody may still look at precedes the stored one, in every
\* behaviour.
LEMMA VersionsKept == Spec => [](TypeOK /\ VersionInv)
  <1>1. Init => TypeOK /\ VersionInv
    BY VersionInit
  <1>2. TypeOK /\ VersionInv /\ [Next]_vars => TypeOK' /\ VersionInv'
    BY VersionStep, TypeStep
  <1>3. QED
    BY <1>1, <1>2, PTL DEF Spec

\* The status never claims a generation that the stored resource has not
\* reached, although reconcileResult patches it by name, without a
\* resourceVersion and from a copy that may be stale: as long as anybody has a
\* copy the status may be patched from, the finalizer keeps its resource.
THEOREM GenerationsObserved == Spec => []ObservedGenerationSound
  <1>1. VersionInv => ObservedGenerationSound
    BY DEF VersionInv, VersionsPrecede, GenerationsSound, ObservedGenerationSound
  <1>2. QED
    BY <1>1, VersionsKept, PTL

=============================================================================
