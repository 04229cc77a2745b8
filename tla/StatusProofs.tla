--------------------------- MODULE StatusProofs ---------------------------
(***************************************************************************)
(* Proofs about the status the reconciler writes: what it reports belongs  *)
(* to the spec it reports on, although conditions and WorkloadStatus are   *)
(* patched from a stale copy, each only where it differs from that copy.   *)
(***************************************************************************)
EXTENDS ReconcilerProofs, SelectionProofs

-----------------------------------------------------------------------------
(***************************************************************************)
(* The inductive invariant                                                 *)
(***************************************************************************)

\* The versions of k that the operator has or will still get to see.  The
\* stored one is always among them.
Versions(k) == {cache[k]} \cup {watch[k][i] : i \in DOMAIN watch[k]}

\* v is an earlier version of w: identities only grow; of one resource the
\* generation grows with every change of spec or deletion mark, and so does the
\* observed generation.
Older(v, w) ==
    /\ v.uid <= w.uid
    /\ w.exists /\ v.uid = w.uid =>
          /\ v.exists
          /\ v.gen <= w.gen
          /\ v.gen = w.gen => v.sel = w.sel /\ v.del = w.del
          /\ v.cond.gen <= w.cond.gen

\* The status of v reports no generation beyond the one of c, and nothing when
\* v is another resource.
Bounded(v, c) ==
    v.exists =>
        IF v.uid = c.uid
        THEN v.cond.gen <= c.gen /\ \A w \in Workloads : v.wls[w].gen <= c.gen
        ELSE v.cond.gen = 0 /\ \A w \in Workloads : v.wls[w] = NotListed

\* A workload that v reports for the generation of u is one that u selects, and
\* u was not deleted.
Selected(v, u, k) ==
    v.exists /\ u.exists /\ v.uid = u.uid =>
        \A w \in Workloads :
            v.wls[w].listed /\ v.wls[w].gen = u.gen =>
                w \in listWorkloads(Workloads, u.sel, k.ns).items /\ ~u.del

\* Some workload is reported for generation gen.
Reports(v, gen) == \E w \in Workloads : v.wls[w].listed /\ v.wls[w].gen = gen

\* When v reports a workload for its own generation, a does so as well.
Backed(v, a) == v.exists /\ a.exists /\ v.uid = a.uid /\ Reports(v, v.gen) => Reports(a, v.gen)

\* Only workloads of the namespace are reported.
ReportsOwnNamespace(v, k) == \A w \in Workloads : v.wls[w].listed => w.ns = k.ns

\* The condition of one stored object.
ReasonHolds(a) ==
    a.exists /\ a.cond.reason = "FinishedReconcile" => Reports(a, a.cond.gen)

\* The versions of one key, among each other, against the cached one and
\* against the stored one.
KeyStatus(k) ==
    /\ \A v, w \in Versions(k) : v.rv <= w.rv => Older(v, w)
    /\ \A v, u \in Versions(k) : Selected(v, u, k)
    /\ \A v \in Versions(k) : /\ Bounded(v, cache[k])
                              /\ Backed(v, api[k])
                              /\ ReportsOwnNamespace(v, k)
    /\ ReasonHolds(api[k])
    /\ ~api[k].exists => api[k].gen = 0 /\ api[k].cond.gen = 0 /\ ~api[k].fin

\* The resource held, against the versions that are still around.
HeldStatus ==
    pc \in Holding =>
        /\ Older(orig, cache[req])
        /\ Backed(orig, api[req])
        /\ ReportsOwnNamespace(orig, req)
        /\ \A v \in Versions(req) : Bounded(v, orig) /\ Selected(orig, v, req)

\* The status about to be patched: old entries, or entries of this generation
\* for workloads that the resource held selects; and when WorkloadStatus was
\* changed or something was found, there is an entry of this generation.
PatchStatusReady ==
    pc = "patchStatus" =>
        /\ \A w \in Workloads :
              \/ res.wls[w] = orig.wls[w]
              \/ /\ res.wls[w].gen = orig.gen
                 /\ w \in listWorkloads(Workloads, orig.sel, req.ns).items
        /\ res.wls # orig.wls \/ res.cond.reason = "FinishedReconcile"
              => Reports(res, orig.gen)

StatusInv == (\A k \in Keys : KeyStatus(k)) /\ HeldStatus /\ PatchStatusReady

-----------------------------------------------------------------------------
(***************************************************************************)
(* The five kinds of writes                                                *)
(***************************************************************************)

\* A user creates the resource.
Born(a, o) ==
    /\ ~a.exists /\ o.exists /\ o.uid = a.uid + 1 /\ o.gen = 1
    /\ ~o.fin /\ ~o.del
    /\ o.cond = NoCondition /\ o.wls = [w \in Workloads |-> NotListed]

\* A user edits the spec or marks the resource as deleted.
Respecified(a, o) ==
    /\ a.exists /\ o.exists /\ o.uid = a.uid /\ o.gen = a.gen + 1
    /\ o.fin = a.fin /\ (a.del => o.del)
    /\ o.cond = a.cond /\ o.wls = a.wls

\* A finalizer comes or goes; the operator's comes to a live resource and goes
\* from a deleted one.
Refinalized(a, o) ==
    /\ a.exists /\ o.exists /\ o.uid = a.uid /\ o.gen = a.gen
    /\ o.sel = a.sel /\ o.del = a.del
    /\ o.fin # a.fin => (o.fin <=> ~a.del)
    /\ o.cond = a.cond /\ o.wls = a.wls

\* The resource is removed, by the operator or because nobody holds it.
Vanished(a, o) ==
    /\ a.exists /\ ~o.exists /\ o.uid = a.uid /\ ~o.fin
    /\ o.gen = 0 /\ o.cond = NoCondition /\ o.wls = [w \in Workloads |-> NotListed]
    /\ a.fin => a.del

\* Reconcile patches the status: each list that differs from what was read.
Patched(a, o) ==
    /\ pc = "patchStatus" /\ pc' # "patchStatus"
    /\ a.exists /\ o.exists /\ o.uid = a.uid /\ o.gen = a.gen
    /\ o.sel = a.sel /\ o.del = a.del /\ o.fin = a.fin
    /\ o.cond = IF res.cond # orig.cond THEN res.cond ELSE a.cond
    /\ o.wls = IF res.wls # orig.wls THEN res.wls ELSE a.wls

\* A write to k.  The operator's finalizer goes only when the operator has seen
\* everything.
Write(k, o) ==
    /\ NewVersion(k, o) /\ Store(k, o) /\ UNCHANGED cache
    /\ \/ Born(api[k], o) \/ Respecified(api[k], o) \/ Refinalized(api[k], o)
       \/ Vanished(api[k], o)
       \/ k = req /\ Patched(api[k], o)
    /\ api[k].exists /\ api[k].fin /\ ~o.fin =>
          api[k].del /\ cache[k] = api[k] /\ watch[k] = <<>>

\* What is left of a removed object.
LEMMA RemovedFields ==
  ASSUME NEW a \in Objects, a.exists, a.fin => a.del
  PROVE  Vanished(a, Removed(a))
  BY DEF Vanished, Removed, NoObject

\* The writes of users.
LEMMA UserWriteKinds ==
  ASSUME TypeOK, User
  PROVE  ApiUntouched \/ \E k \in Keys : \E o \in Objects : Write(k, o)
  <1>0. \A k \in Keys : api[k] \in Objects
    BY DEF TypeOK, ClusterTypeOK
  <1>1. \A k \in Keys : /\ api[k].uid + 1 \in Nat /\ api[k].rv + 1 \in Nat
                        /\ api[k].gen + 1 \in Nat
    BY <1>0 DEF Objects
  <1>2. ASSUME NEW k \in Keys, NEW sel \in Selectors, NEW hold \in BOOLEAN,
               Create(k, sel, hold)
        PROVE  \E o \in Objects : Write(k, o)
    <2> DEFINE o == [NoObject EXCEPT !.exists = TRUE, !.uid = api[k].uid + 1,
                               !.rv = api[k].rv + 1, !.gen = 1,
                               !.hold = hold, !.sel = sel]
    <2>1. \A u, r \in Nat : [NoObject EXCEPT !.exists = TRUE, !.uid = u, !.rv = r,
                               !.gen = 1, !.hold = hold, !.sel = sel] \in Objects
      BY NoObjectType DEF Objects
    <2>2. o \in Objects
      BY <1>1, <2>1
    <2>3. /\ o.exists /\ o.uid = api[k].uid + 1 /\ o.rv = api[k].rv + 1 /\ o.gen = 1
          /\ ~o.fin /\ ~o.del
          /\ o.cond = NoCondition /\ o.wls = [w \in Workloads |-> NotListed]
      BY DEF NoObject
    <2>4. ~api[k].exists /\ Store(k, o) /\ UNCHANGED cache
      BY <1>2 DEF Create
    <2>5. QED
      BY <2>2, <2>3, <2>4 DEF Write, NewVersion, Born
  <1>3. ASSUME NEW k \in Keys, NEW sel \in Selectors, EditSpec(k, sel)
        PROVE  \E o \in Objects : Write(k, o)
    <2> DEFINE a == api[k]
               e == [a EXCEPT !.sel = sel, !.gen = @ + 1]
               o == Bump(e)
    <2>1. a \in Objects /\ a.gen + 1 \in Nat
      BY <1>0, <1>1
    <2>2. e \in Objects
      BY <2>1 DEF Objects
    <2>3. e.rv = a.rv
      BY <2>1 DEF Objects
    <2>4. NewVersion(k, o)
      BY <2>2, <2>3, NewVersions
    <2>5. /\ o.exists = a.exists /\ o.uid = a.uid /\ o.gen = a.gen + 1 /\ o.fin = a.fin
          /\ o.del = a.del /\ o.cond = a.cond /\ o.wls = a.wls
      BY <2>1 DEF Bump, Objects
    <2>6. a.exists /\ Store(k, o) /\ UNCHANGED cache
      BY <1>3 DEF EditSpec
    <2>7. Respecified(a, o)
      BY <2>5, <2>6 DEF Respecified
    <2>8. o \in Objects
      BY <2>4 DEF NewVersion
    <2>9. QED
      BY <2>4, <2>5, <2>6, <2>7, <2>8 DEF Write
  <1>4. ASSUME NEW k \in Keys, Delete(k)
        PROVE  \E o \in Objects : Write(k, o)
    <2> DEFINE a == api[k]
               e == [a EXCEPT !.del = TRUE, !.gen = @ + 1]
    <2>1. a \in Objects /\ a.gen + 1 \in Nat
      BY <1>0, <1>1
    <2>2. /\ a.exists /\ ~a.del /\ UNCHANGED cache
          /\ a.fin \/ a.hold => Store(k, Bump(e))
          /\ ~(a.fin \/ a.hold) => Store(k, Removed(a))
      BY <1>4 DEF Delete
    <2>3. CASE a.fin \/ a.hold
      <3> DEFINE o == Bump(e)
      <3>1. e \in Objects
        BY <2>1 DEF Objects
      <3>2. e.rv = a.rv
        BY <2>1 DEF Objects
      <3>3. NewVersion(k, o)
        BY <3>1, <3>2, NewVersions
      <3>4. /\ o.exists = a.exists /\ o.uid = a.uid /\ o.gen = a.gen + 1 /\ o.fin = a.fin
            /\ o.del = TRUE /\ o.cond = a.cond /\ o.wls = a.wls
        BY <2>1 DEF Bump, Objects
      <3>5. Respecified(a, o) /\ o \in Objects
        BY <2>2, <3>3, <3>4 DEF Respecified, NewVersion
      <3>6. QED
        BY <2>2, <2>3, <3>3, <3>4, <3>5 DEF Write
    <2>4. CASE ~(a.fin \/ a.hold)
      <3>1. NewVersion(k, Removed(a)) /\ Removed(a) \in Objects
        BY <2>1, NewVersions, StoredTypes
      <3>2. Vanished(a, Removed(a))
        BY <2>1, <2>2, <2>4, RemovedFields
      <3>3. QED
        BY <2>2, <2>4, <3>1, <3>2 DEF Write
    <2>5. QED
      BY <2>3, <2>4
  <1>5. ASSUME NEW k \in Keys, ReleaseHold(k)
        PROVE  \E o \in Objects : Write(k, o)
    <2> DEFINE a == api[k]
               e == [a EXCEPT !.hold = FALSE]
    <2>1. a \in Objects
      BY <1>0
    <2>2. /\ a.exists /\ UNCHANGED cache
          /\ ~(a.del /\ ~a.fin) => Store(k, Bump(e))
          /\ a.del /\ ~a.fin => Store(k, Removed(a))
      BY <1>5 DEF ReleaseHold
    <2>3. CASE ~(a.del /\ ~a.fin)
      <3> DEFINE o == Bump(e)
      <3>1. e \in Objects
        BY <2>1 DEF Objects
      <3>2. e.rv = a.rv
        BY <2>1 DEF Objects
      <3>3. NewVersion(k, o)
        BY <3>1, <3>2, NewVersions
      <3>4. /\ o.exists = a.exists /\ o.uid = a.uid /\ o.gen = a.gen /\ o.fin = a.fin
            /\ o.sel = a.sel /\ o.del = a.del /\ o.cond = a.cond /\ o.wls = a.wls
        BY <2>1 DEF Bump, Objects
      <3>5. Refinalized(a, o) /\ o \in Objects
        BY <2>2, <3>3, <3>4 DEF Refinalized, NewVersion
      <3>6. QED
        BY <2>2, <2>3, <3>3, <3>4, <3>5 DEF Write
    <2>4. CASE a.del /\ ~a.fin
      <3>1. NewVersion(k, Removed(a)) /\ Removed(a) \in Objects
        BY <2>1, NewVersions, StoredTypes
      <3>2. Vanished(a, Removed(a))
        BY <2>1, <2>2, <2>4, RemovedFields
      <3>3. QED
        BY <2>2, <2>4, <3>1, <3>2 DEF Write
    <2>5. QED
      BY <2>3, <2>4
  <1>6. (\E w \in Workloads : ToggleWorkload(w)) \/ Tick => ApiUntouched
    BY DEF ToggleWorkload, Tick, ApiUntouched
  <1>7. QED
    BY <1>2, <1>3, <1>4, <1>5, <1>6 DEF User

\* The Updates of Reconcile: the resource read is the stored one.
LEMMA UpdateWriteKind ==
  ASSUME TypeOK, ReadInv, pc \in {"applyFinalizer", "removeFinalizer"},
         UpdateAccepted(req, res), Store(req, UpdateOf(req, res)), UNCHANGED cache
  PROVE  Write(req, UpdateOf(req, res))
  <1> DEFINE a == api[req]
             o == UpdateOf(req, res)
  <1>0. req \in Keys /\ res \in Objects /\ a \in Objects
    BY DEF TypeOK, ClusterTypeOK
  <1>1. NewVersion(req, o)
    BY <1>0, NewVersions
  <1>2. orig = a /\ cache[req] = a /\ watch[req] = <<>> /\ a.exists
    BY AcceptedIsStored DEF ReadInv, Holding, UpdateAccepted
  <1>3. /\ res.sel = a.sel /\ res.hold = a.hold
        /\ pc = "applyFinalizer" => ~a.del /\ res.fin
        /\ pc = "removeFinalizer" => a.del /\ ~res.fin
    BY <1>2 DEF ReadInv, HeldResource, Holding
  <1>4. CASE a.del /\ ~res.fin /\ ~res.hold
    <2>1. o = Removed(a)
      BY <1>4 DEF UpdateOf
    <2>2. Vanished(a, o)
      BY <1>0, <1>2, <1>4, <2>1, RemovedFields
    <2>3. QED
      BY <1>1, <1>2, <1>4, <2>2 DEF Write
  <1>5. CASE ~(a.del /\ ~res.fin /\ ~res.hold)
    <2>1. /\ o.exists = a.exists /\ o.uid = a.uid /\ o.del = a.del
          /\ o.fin = res.fin /\ o.sel = res.sel /\ o.cond = a.cond /\ o.wls = a.wls
          /\ o.gen = IF res.sel = a.sel THEN a.gen ELSE a.gen + 1
      BY <1>0, <1>5, UpdateEffects
    <2>2. Refinalized(a, o)
      BY <1>2, <1>3, <2>1 DEF Refinalized
    <2>3. QED
      BY <1>1, <1>2, <1>3, <2>1, <2>2 DEF Write
  <1>6. QED
    BY <1>4, <1>5

\* The status patch of Reconcile.
LEMMA PatchWriteKind ==
  ASSUME TypeOK, pc = "patchStatus", pc' # "patchStatus", api[req].exists,
         ApplyPatch(req, res, orig), UNCHANGED cache
  PROVE  ApiUntouched \/ Write(req, Bump(PatchOf(req, res, orig)))
  <1> DEFINE a == api[req]
             o == Bump(PatchOf(req, res, orig))
  <1>0. req \in Keys /\ res \in Objects /\ orig \in Objects /\ a \in Objects
    BY DEF TypeOK, ClusterTypeOK
  <1>1. CASE PatchOf(req, res, orig) = api[req]
    BY <1>1 DEF ApplyPatch, ApiUntouched
  <1>2. CASE PatchOf(req, res, orig) # api[req]
    <2>1. NewVersion(req, o) /\ Store(req, o)
      BY <1>0, <1>2, NewVersions DEF ApplyPatch
    <2>2. /\ o.exists = a.exists /\ o.uid = a.uid /\ o.del = a.del /\ o.fin = a.fin
          /\ o.sel = a.sel /\ o.gen = a.gen
      BY <1>0, PatchEffects
    <2>3. /\ o.cond = IF res.cond # orig.cond THEN res.cond ELSE a.cond
          /\ o.wls = IF res.wls # orig.wls THEN res.wls ELSE a.wls
      BY <1>0 DEF PatchOf, Bump, Objects
    <2>4. Patched(a, o)
      BY <2>2, <2>3 DEF Patched
    <2>5. QED
      BY <2>1, <2>2, <2>4 DEF Write
  <1>3. QED
    BY <1>1, <1>2

\* Every step leaves objects, watch and cache alone, is a write of one of the
\* five kinds, moves the informer, or is a restart.
LEMMA WriteKinds ==
  ASSUME TypeOK, ReadInv, [Next]_vars
  PROVE  \/ ApiUntouched
         \/ \E k \in Keys : \E o \in Objects : Write(k, o)
         \/ InformerMove
         \/ ListAll
  <1> USE DEF clusterVars
  <1>0. req \in Keys /\ res \in Objects /\ orig \in Objects
    BY DEF TypeOK
  <1>1. ASSUME Update \/ UpdateResponseLost
        PROVE  ApiUntouched \/ \E k \in Keys : \E o \in Objects : Write(k, o)
    <2>1. /\ pc \in {"applyFinalizer", "removeFinalizer"} /\ cache' = cache
          /\ \/ UpdateAccepted(req, res) /\ Store(req, UpdateOf(req, res))
             \/ UNCHANGED <<api, watch>>
      BY <1>1 DEF Update, UpdateResponseLost
    <2>2. UpdateOf(req, res) \in Objects
      BY <1>0, WriteTypes
    <2>3. QED
      BY <1>0, <2>1, <2>2, UpdateWriteKind DEF ApiUntouched
  <1>2. ASSUME patchStatus \/ PatchResponseLost
        PROVE  ApiUntouched \/ \E k \in Keys : \E o \in Objects : Write(k, o)
    <2>1. /\ pc = "patchStatus" /\ cache' = cache /\ pc' # "patchStatus"
          /\ \/ api[req].exists /\ ApplyPatch(req, res, orig)
             \/ UNCHANGED <<api, watch>>
      BY <1>2 DEF patchStatus, PatchResponseLost, Done
    <2>2. Bump(PatchOf(req, res, orig)) \in Objects
      BY <1>0, NewVersions DEF NewVersion
    <2>3. QED
      BY <1>0, <2>1, <2>2, PatchWriteKind DEF ApiUntouched
  <1>3. ASSUME Worker, ~Update, ~patchStatus
        PROVE  ApiUntouched
    BY <1>3 DEF Worker, ReconcileNotFound, ReconcileDelete, ReconcileCreateUpdate,
                ListWorkloadsError, doDelete, doCreateUpdate, refetch, ApiUntouched
  <1>4. ASSUME RequestFails \/ CrashRestart
        PROVE  ApiUntouched \/ ListAll
    BY <1>4 DEF RequestFails, CrashRestart, ApiUntouched
  <1>5. ASSUME NEW k \in Keys, Deliver(k) \/ Relist(k)
        PROVE  InformerMove
    BY <1>5 DEF Deliver, Relist, InformerMove
  <1>6. ASSUME NEW k \in Keys, Dequeue(k)
        PROVE  ApiUntouched
    BY <1>6 DEF Dequeue, ApiUntouched
  <1>7. CASE UNCHANGED vars
    BY <1>7 DEF vars, ApiUntouched
  <1>8. QED
    BY <1>1, <1>2, <1>3, <1>4, <1>5, <1>6, <1>7, UserWriteKinds DEF Next, Failure

-----------------------------------------------------------------------------
(***************************************************************************)
(* Steps seen from one key                                                 *)
(***************************************************************************)

\* Versions are objects; the cached one is the oldest and the stored one the
\* newest of them.
LEMMA VersionFacts ==
  ASSUME TypeOK, WatchOrdered, NEW k \in Keys
  PROVE  /\ Versions(k) \subseteq Objects
         /\ cache[k] \in Versions(k) /\ api[k] \in Versions(k)
         /\ \A v \in Versions(k) : v.rv \in Nat /\ cache[k].rv <= v.rv /\ v.rv <= api[k].rv
  <1>1. /\ cache[k] \in Objects /\ api[k] \in Objects /\ watch[k] \in Seq(Objects)
    BY DEF TypeOK, ClusterTypeOK
  <1>2. cache[k].rv \in Nat /\ api[k].rv \in Nat
    BY <1>1 DEF Objects
  <1>3. \A i \in DOMAIN watch[k] : /\ watch[k][i] \in Objects /\ watch[k][i].rv \in Nat
                                   /\ watch[k][i].rv <= api[k].rv
    BY WatchedType, StoredIsNewest
  <1>4. \A i \in DOMAIN watch[k] : cache[k].rv < watch[k][i].rv
    BY DEF WatchOrdered
  <1>5. cache[k].rv <= api[k].rv
    BY StoredIsNewest
  <1>6. api[k] \in Versions(k)
    <2>1. CASE watch[k] = <<>>
      BY <2>1 DEF WatchOrdered, Versions
    <2>2. CASE watch[k] # <<>>
      <3>1. Len(watch[k]) \in DOMAIN watch[k]
        BY <1>1, <2>2
      <3>2. QED
        BY <2>2, <3>1 DEF WatchOrdered, Versions
    <2>3. QED
      BY <2>1, <2>2
  <1>7. \A v \in Versions(k) : v = cache[k] \/ \E i \in DOMAIN watch[k] : v = watch[k][i]
    BY DEF Versions
  <1>8. \A v \in Versions(k) : v \in Objects /\ v.rv \in Nat
    BY <1>1, <1>2, <1>3, <1>7
  <1>9. ASSUME NEW v \in Versions(k)
        PROVE  cache[k].rv <= v.rv /\ v.rv <= api[k].rv
    <2>1. CASE v = cache[k]
      BY <1>2, <1>5, <2>1
    <2>2. ASSUME NEW i \in DOMAIN watch[k], v = watch[k][i]
          PROVE  cache[k].rv <= v.rv /\ v.rv <= api[k].rv
      BY <1>2, <1>3, <1>4, <2>2
    <2>3. QED
      BY <1>7, <2>1, <2>2
  <1>10. QED
    BY <1>6, <1>8, <1>9 DEF Versions

\* The versions after a write.
LEMMA WriteVersions ==
  ASSUME TypeOK, NEW k \in Keys, NEW o \in Objects, Write(k, o)
  PROVE  /\ api'[k] = o /\ cache'[k] = cache[k]
         /\ Versions(k)' \subseteq Versions(k) \cup {o}
  <1>1. /\ api \in [Keys -> Objects] /\ watch \in [Keys -> Seq(Objects)]
    BY DEF TypeOK, ClusterTypeOK
  <1>2. /\ api'[k] = o /\ cache'[k] = cache[k] /\ watch'[k] = Append(watch[k], o)
        /\ watch[k] \in Seq(Objects)
    BY <1>1 DEF Write, Store
  <1>3. ASSUME NEW i \in DOMAIN watch'[k]
        PROVE  watch'[k][i] = o \/ \E j \in DOMAIN watch[k] : watch'[k][i] = watch[k][j]
    <2>1. i \in 1..(Len(watch[k]) + 1) /\ Len(watch[k]) \in Nat
      BY <1>2, <1>3, AppendProperties
    <2>2. CASE i = Len(watch[k]) + 1
      BY <1>2, <2>2, AppendProperties
    <2>3. CASE i # Len(watch[k]) + 1
      <3>1. i \in 1..Len(watch[k])
        BY <2>1, <2>3
      <3>2. watch'[k][i] = watch[k][i] /\ i \in DOMAIN watch[k]
        BY <1>2, <3>1, AppendProperties
      <3>3. QED
        BY <3>2
    <2>4. QED
      BY <2>2, <2>3
  <1>4. QED
    BY <1>2, <1>3 DEF Versions

\* A step that stores nothing for k: the cache may take one of the versions and
\* others may be forgotten.
Read(k) ==
    /\ api'[k] = api[k]
    /\ cache'[k] \in Versions(k)
    /\ Versions(k)' \subseteq Versions(k)

\* Every step reads or writes k.
LEMMA KeySteps ==
  ASSUME TypeOK, ReadInv, [Next]_vars, NEW k \in Keys
  PROVE  Read(k) \/ \E o \in Objects : Write(k, o)
  <1>1. /\ api \in [Keys -> Objects] /\ watch \in [Keys -> Seq(Objects)]
        /\ cache \in [Keys -> Objects]
    BY DEF TypeOK, ClusterTypeOK
  <1>2. ASSUME api'[k] = api[k], watch'[k] = watch[k], cache'[k] = cache[k]
        PROVE  Read(k)
    BY <1>2 DEF Read, Versions
  <1>3. ASSUME api'[k] = api[k], watch'[k] = <<>>, cache'[k] = api[k]
        PROVE  Read(k)
    <2>1. api[k] \in Versions(k)
      BY VersionFacts DEF ReadInv
    <2>2. Versions(k)' = {api[k]}
      BY <1>3 DEF Versions
    <2>3. QED
      BY <1>3, <2>1, <2>2 DEF Read
  <1>4. CASE ApiUntouched
    BY <1>2, <1>4 DEF ApiUntouched
  <1>5. ASSUME NEW h \in Keys, NEW o \in Objects, Write(h, o)
        PROVE  Read(k) \/ Write(k, o)
    <2>1. CASE h = k
      BY <1>5, <2>1
    <2>2. CASE h # k
      BY <1>1, <1>2, <1>5, <2>2 DEF Write, Store
    <2>3. QED
      BY <2>1, <2>2
  <1>6. CASE InformerMove
    <2>1. PICK h \in Keys : NextEvent(h) \/ ListAgain(h)
      BY <1>6 DEF InformerMove
    <2>2. CASE h # k
      BY <1>1, <1>2, <2>1, <2>2 DEF NextEvent, ListAgain
    <2>3. CASE h = k /\ NextEvent(k)
      <3>1. /\ watch[k] # <<>> /\ cache'[k] = Head(watch[k])
            /\ watch'[k] = Tail(watch[k]) /\ api' = api
        BY <1>1, <2>3 DEF NextEvent
      <3>2. watch[k] \in Seq(Objects)
        BY <1>1
      <3>3. 1 \in DOMAIN watch[k] /\ Head(watch[k]) = watch[k][1]
        BY <3>1, <3>2
      <3>4. cache'[k] \in Versions(k)
        BY <3>1, <3>3 DEF Versions
      <3>5. ASSUME NEW i \in DOMAIN watch'[k]
            PROVE  watch'[k][i] \in Versions(k)
        <4>1. i + 1 \in DOMAIN watch[k] /\ watch'[k][i] = watch[k][i + 1]
          BY <3>1, <3>2, <3>5
        <4>2. QED
          BY <4>1 DEF Versions
      <3>6. Versions(k)' = {cache'[k]} \cup {watch'[k][i] : i \in DOMAIN watch'[k]}
        BY DEF Versions
      <3>7. Versions(k)' \subseteq Versions(k)
        BY <3>4, <3>5, <3>6
      <3>8. QED
        BY <3>1, <3>4, <3>7 DEF Read
    <2>4. CASE h = k /\ ListAgain(k)
      BY <1>1, <1>3, <2>4 DEF ListAgain
    <2>5. QED
      BY <2>1, <2>2, <2>3, <2>4
  <1>7. CASE ListAll
    BY <1>3, <1>7 DEF ListAll
  <1>8. QED
    BY <1>4, <1>5, <1>6, <1>7, WriteKinds

-----------------------------------------------------------------------------
(***************************************************************************)
(* Writes that leave the status alone, and creation and removal            *)
(***************************************************************************)

\* The numbers in an object.
LEMMA Numbers ==
  ASSUME NEW v \in Objects
  PROVE  /\ v.uid \in Nat /\ v.gen \in Nat /\ v.rv \in Nat /\ v.cond.gen \in Nat
         /\ \A w \in Workloads : v.wls[w].gen \in Nat
  BY DEF Objects, Conditions, WorkloadStatuses

\* Older is reflexive and transitive.
LEMMA OlderOrder ==
  ASSUME NEW u \in Objects, NEW v \in Objects, NEW w \in Objects
  PROVE  /\ Older(v, v)
         /\ Older(u, v) /\ Older(v, w) => Older(u, w)
  <1>1. /\ u.uid \in Nat /\ v.uid \in Nat /\ w.uid \in Nat
        /\ u.gen \in Nat /\ v.gen \in Nat /\ w.gen \in Nat
        /\ u.cond.gen \in Nat /\ v.cond.gen \in Nat /\ w.cond.gen \in Nat
    BY Numbers
  <1>2. Older(v, v)
    BY <1>1 DEF Older
  <1>3. ASSUME Older(u, v), Older(v, w)
        PROVE  Older(u, w)
    BY <1>1, <1>3 DEF Older
  <1>4. QED
    BY <1>2, <1>3

\* Every write of users and every Update.
Unpatched(a, o) == Born(a, o) \/ Respecified(a, o) \/ Refinalized(a, o) \/ Vanished(a, o)

\* Such a write stores a later version.
LEMMA UnpatchedOlder ==
  ASSUME NEW a \in Objects, NEW o \in Objects, Unpatched(a, o)
  PROVE  Older(a, o)
  <1>1. /\ a.uid \in Nat /\ o.uid \in Nat /\ a.gen \in Nat /\ o.gen \in Nat
        /\ a.cond.gen \in Nat
    BY Numbers
  <1>2. QED
    BY <1>1 DEF Unpatched, Born, Respecified, Refinalized, Vanished, Older

\* It reports nothing new.
LEMMA UnpatchedBounded ==
  ASSUME NEW a \in Objects, NEW o \in Objects, NEW c \in Objects,
         Unpatched(a, o), Bounded(a, c)
  PROVE  Bounded(o, c)
  <1>1. c.gen \in Nat /\ c.uid \in Nat
    BY Numbers
  <1>2. CASE Born(a, o)
    <2>1. o.cond.gen = 0 /\ \A w \in Workloads : o.wls[w] = NotListed
      BY <1>2 DEF Born, NoCondition
    <2>2. NotListed.gen = 0
      BY DEF NotListed
    <2>3. QED
      BY <1>1, <2>1, <2>2 DEF Bounded
  <1>3. CASE Vanished(a, o)
    BY <1>3 DEF Vanished, Bounded
  <1>4. CASE Respecified(a, o) \/ Refinalized(a, o)
    BY <1>4 DEF Respecified, Refinalized, Bounded
  <1>5. QED
    BY <1>2, <1>3, <1>4 DEF Unpatched

\* What older versions report is still about what they selected.
LEMMA UnpatchedSelected ==
  ASSUME NEW a \in Objects, NEW o \in Objects, NEW v \in Objects, NEW k,
         Unpatched(a, o), Precedes(v, a), Selected(v, a, k)
  PROVE  Selected(v, o, k)
  <1> SUFFICES ASSUME v.exists, o.exists, v.uid = o.uid, NEW w \in Workloads,
                      v.wls[w].listed, v.wls[w].gen = o.gen
               PROVE  w \in listWorkloads(Workloads, o.sel, k.ns).items /\ ~o.del
    BY DEF Selected
  <1>1. /\ v.uid \in Nat /\ a.uid \in Nat /\ a.gen \in Nat /\ v.gen \in Nat
        /\ v.wls[w].gen \in Nat
    BY Numbers
  <1>2. v.uid <= a.uid
    BY DEF Precedes
  <1>3. ~Born(a, o) /\ ~Vanished(a, o)
    BY <1>1, <1>2 DEF Born, Vanished
  <1>4. a.exists /\ o.uid = a.uid
    BY <1>3 DEF Unpatched, Respecified, Refinalized
  <1>5. v.wls[w].gen <= v.gen /\ v.gen <= a.gen
    BY <1>4 DEF Precedes, GenerationsSound
  <1>6. Refinalized(a, o)
    BY <1>1, <1>3, <1>5 DEF Unpatched, Respecified
  <1>7. QED
    BY <1>4, <1>6 DEF Refinalized, Selected

\* And so is what it stores itself.
LEMMA UnpatchedSelects ==
  ASSUME NEW a \in Objects, NEW o \in Objects, NEW u \in Objects, NEW k,
         Unpatched(a, o), Selected(a, u, k)
  PROVE  Selected(o, u, k)
  <1>1. CASE Born(a, o)
    <2>1. \A w \in Workloads : ~o.wls[w].listed
      BY <1>1 DEF Born, NotListed
    <2>2. QED
      BY <2>1 DEF Selected
  <1>2. CASE Vanished(a, o)
    BY <1>2 DEF Vanished, Selected
  <1>3. CASE Respecified(a, o) \/ Refinalized(a, o)
    BY <1>3 DEF Respecified, Refinalized, Selected
  <1>4. QED
    BY <1>1, <1>2, <1>3 DEF Unpatched

\* The rest of KeyStatus for such a write.
LEMMA UnpatchedKeeps ==
  ASSUME NEW a \in Objects, NEW o \in Objects, NEW v \in Objects, NEW k, Unpatched(a, o)
  PROVE  /\ v.uid <= a.uid /\ Backed(v, a) => Backed(v, o)
         /\ ReportsOwnNamespace(a, k) => ReportsOwnNamespace(o, k)
         /\ ReasonHolds(a) => ReasonHolds(o)
         /\ ~o.exists => o.gen = 0 /\ o.cond.gen = 0 /\ ~o.fin
  <1>1. a.uid \in Nat /\ v.uid \in Nat
    BY Numbers
  <1>2. CASE Born(a, o)
    <2>1. (\A w \in Workloads : ~o.wls[w].listed) /\ o.cond.reason # "FinishedReconcile"
      BY <1>2 DEF Born, NotListed, NoCondition
    <2>2. o.uid = a.uid + 1 /\ o.exists
      BY <1>2 DEF Born
    <2>3. QED
      BY <1>1, <2>1, <2>2 DEF Backed, ReportsOwnNamespace, ReasonHolds
  <1>3. CASE Vanished(a, o)
    <2>1. (\A w \in Workloads : ~o.wls[w].listed) /\ o.cond.gen = 0
      BY <1>3 DEF Vanished, NotListed, NoCondition
    <2>2. QED
      BY <1>3, <2>1 DEF Vanished, Backed, ReportsOwnNamespace, ReasonHolds
  <1>4. CASE Respecified(a, o) \/ Refinalized(a, o)
    BY <1>4 DEF Respecified, Refinalized, Backed, ReportsOwnNamespace, ReasonHolds, Reports
  <1>5. QED
    BY <1>2, <1>3, <1>4 DEF Unpatched

-----------------------------------------------------------------------------
(***************************************************************************)
(* The status patch                                                        *)
(***************************************************************************)

\* The stored resource is the one that was read, the versions in between are
\* later ones of it, and nobody else has reported anything since.
LEMMA PatchFacts ==
  ASSUME TypeOK, VersionInv, StatusInv, pc = "patchStatus", api[req].exists
  PROVE  /\ orig.exists /\ ~orig.del
         /\ orig.uid = api[req].uid
         /\ cache[req].uid = orig.uid
         /\ orig.gen <= cache[req].gen
         /\ orig.cond.gen <= api[req].cond.gen
         /\ \A v \in Versions(req) : Older(orig, v)
         /\ res.cond.gen = orig.gen
         /\ \A w \in Workloads : res.wls[w].gen <= orig.gen
  <1>0. /\ req \in Keys /\ orig \in Objects /\ cache[req] \in Objects
        /\ api[req] \in Objects
    BY DEF TypeOK, ClusterTypeOK
  <1>1. /\ orig.exists /\ ~orig.del /\ orig.fin /\ res.cond.gen = orig.gen
        /\ \A w \in Workloads : res.wls[w].gen <= orig.gen
    BY DEF VersionInv, HeldResource, HeldPrecedes, Holding
  <1>2. orig.uid = api[req].uid
    BY <1>1 DEF VersionInv, HeldPrecedes, Precedes, Holding
  <1>3. Older(orig, cache[req]) /\ KeyStatus(req)
    BY <1>0 DEF StatusInv, HeldStatus, Holding
  <1>4. /\ Versions(req) \subseteq Objects /\ api[req] \in Versions(req)
        /\ cache[req] \in Versions(req)
        /\ \A v \in Versions(req) : cache[req].rv <= v.rv
    BY <1>0, VersionFacts DEF VersionInv
  <1>5. \A v \in Versions(req) : Older(cache[req], v)
    BY <1>3, <1>4 DEF KeyStatus
  <1>6. \A v \in Versions(req) : Older(orig, v)
    BY <1>0, <1>3, <1>4, <1>5, OlderOrder
  <1>7. Older(cache[req], api[req]) /\ Older(orig, api[req])
    BY <1>4, <1>5, <1>6
  <1>8. /\ orig.uid \in Nat /\ cache[req].uid \in Nat /\ api[req].uid \in Nat
    BY <1>0, Numbers
  <1>9. cache[req].uid = orig.uid
    BY <1>2, <1>3, <1>7, <1>8 DEF Older
  <1>10. cache[req].exists
    BY <1>2, <1>7, <1>9 DEF Older
  <1>11. orig.gen <= cache[req].gen /\ orig.cond.gen <= api[req].cond.gen
    BY <1>2, <1>3, <1>7, <1>9, <1>10 DEF Older
  <1>12. QED
    BY <1>1, <1>2, <1>6, <1>9, <1>11

\* A patch stores a later version, reports no generation the cache has not seen
\* and only workloads that the spec selects, although it was computed from an
\* older copy.
LEMMA PatchedIsSound ==
  ASSUME TypeOK, VersionInv, StatusInv, NEW o \in Objects, Patched(api[req], o)
  PROVE  /\ Older(api[req], o)
         /\ Bounded(o, cache[req])
         /\ ReportsOwnNamespace(o, req)
         /\ \A u \in Versions(req) : Selected(o, u, req) /\ Selected(u, o, req)
         /\ Selected(o, o, req)
  <1> DEFINE a == api[req]
             c == cache[req]
  <1>0. /\ req \in Keys /\ orig \in Objects /\ c \in Objects /\ a \in Objects
        /\ res \in Objects
    BY DEF TypeOK, ClusterTypeOK
  <1>1. /\ pc = "patchStatus" /\ a.exists /\ o.exists /\ o.uid = a.uid /\ o.gen = a.gen
        /\ o.sel = a.sel /\ o.del = a.del
        /\ o.cond = IF res.cond # orig.cond THEN res.cond ELSE a.cond
        /\ o.wls = IF res.wls # orig.wls THEN res.wls ELSE a.wls
    BY DEF Patched
  <1>2. /\ orig.exists /\ ~orig.del /\ orig.uid = a.uid /\ c.uid = orig.uid
        /\ orig.gen <= c.gen /\ res.cond.gen = orig.gen
        /\ \A v \in Versions(req) : Older(orig, v)
        /\ \A w \in Workloads : res.wls[w].gen <= orig.gen
    BY <1>1, PatchFacts
  <1>3. KeyStatus(req) /\ HeldStatus /\ PatchStatusReady
    BY <1>0 DEF StatusInv
  <1>4. /\ Versions(req) \subseteq Objects /\ a \in Versions(req)
    BY <1>0, VersionFacts DEF VersionInv
  <1>5. Bounded(a, c) /\ Bounded(a, orig)
    BY <1>1, <1>3, <1>4 DEF KeyStatus, HeldStatus, Holding
  <1>6. /\ a.gen \in Nat /\ c.gen \in Nat /\ orig.gen \in Nat /\ a.cond.gen \in Nat
        /\ a.uid \in Nat /\ res.cond.gen \in Nat
        /\ \A w \in Workloads : res.wls[w].gen \in Nat
    BY <1>0, Numbers
  <1>7. a.cond.gen <= orig.gen
    BY <1>1, <1>2, <1>5 DEF Bounded
  <1>8. Older(a, o)
    <2>1. a.cond.gen <= o.cond.gen
      BY <1>1, <1>2, <1>6, <1>7
    <2>2. QED
      BY <1>1, <1>6, <2>1 DEF Older
  <1>9. Bounded(o, c)
    <2>1. o.cond.gen <= c.gen
      BY <1>1, <1>2, <1>5, <1>6 DEF Bounded
    <2>2. \A w \in Workloads : o.wls[w].gen <= c.gen
      <3>1. \A w \in Workloads : res.wls[w].gen <= c.gen
        BY <1>2, <1>6
      <3>2. \A w \in Workloads : a.wls[w].gen <= c.gen
        BY <1>1, <1>2, <1>5 DEF Bounded
      <3>3. QED
        BY <1>1, <3>1, <3>2
    <2>3. QED
      BY <1>1, <1>2, <2>1, <2>2 DEF Bounded
  <1>10. \A w \in Workloads :
            \/ res.wls[w] = orig.wls[w]
            \/ /\ res.wls[w].gen = orig.gen
               /\ w \in listWorkloads(Workloads, orig.sel, req.ns).items
    BY <1>1, <1>3 DEF PatchStatusReady
  <1>11. ReportsOwnNamespace(o, req)
    <2>1. ReportsOwnNamespace(a, req) /\ ReportsOwnNamespace(orig, req)
      BY <1>1, <1>3, <1>4 DEF KeyStatus, HeldStatus, Holding
    <2>2. \A w \in listWorkloads(Workloads, orig.sel, req.ns).items : w.ns = req.ns
      BY ListWorkloadsFinds
    <2>3. QED
      BY <1>1, <1>10, <2>1, <2>2 DEF ReportsOwnNamespace
  <1>12. ASSUME NEW u \in Versions(req)
         PROVE  Selected(o, u, req)
    <2> SUFFICES ASSUME u.exists, o.uid = u.uid, NEW w \in Workloads,
                        o.wls[w].listed, o.wls[w].gen = u.gen
                 PROVE  w \in listWorkloads(Workloads, u.sel, req.ns).items /\ ~u.del
      BY DEF Selected
    <2>1. Selected(a, u, req) /\ Selected(orig, u, req)
      BY <1>1, <1>3, <1>4, <1>12 DEF KeyStatus, HeldStatus, Holding
    <2>2. CASE o.wls = a.wls
      BY <1>1, <2>1, <2>2 DEF Selected
    <2>3. CASE o.wls = res.wls /\ res.wls[w] = orig.wls[w]
      BY <1>1, <1>2, <2>1, <2>3 DEF Selected
    <2>4. CASE /\ o.wls = res.wls /\ res.wls[w].gen = orig.gen
               /\ w \in listWorkloads(Workloads, orig.sel, req.ns).items
      <3>1. Older(orig, u) /\ orig.uid = u.uid /\ orig.gen = u.gen
        BY <1>1, <1>2, <1>12, <2>4
      <3>2. orig.sel = u.sel /\ orig.del = u.del
        BY <3>1 DEF Older
      <3>3. QED
        BY <1>2, <2>4, <3>2
    <2>5. QED
      BY <1>1, <1>10, <2>2, <2>3, <2>4
  <1>13. ASSUME NEW v, Selected(v, a, req)
         PROVE  Selected(v, o, req)
    BY <1>1, <1>13 DEF Selected
  <1>14. \A u \in Versions(req) : Selected(u, o, req)
    BY <1>3, <1>4, <1>13 DEF KeyStatus
  <1>15. Selected(o, o, req)
    BY <1>4, <1>12, <1>13
  <1>16. QED
    BY <1>8, <1>9, <1>11, <1>12, <1>14, <1>15

\* After a patch the reason FinishedReconcile is still backed, and so is what
\* the versions around report for their own generation.
LEMMA PatchedIsBacked ==
  ASSUME TypeOK, VersionInv, StatusInv, NEW o \in Objects, Patched(api[req], o)
  PROVE  /\ ReasonHolds(o)
         /\ \A v \in Versions(req) : Backed(v, o)
  <1> DEFINE a == api[req]
  <1>0. /\ req \in Keys /\ orig \in Objects /\ a \in Objects /\ res \in Objects
    BY DEF TypeOK, ClusterTypeOK
  <1>1. /\ pc = "patchStatus" /\ a.exists /\ o.exists /\ o.uid = a.uid /\ o.gen = a.gen
        /\ o.cond = IF res.cond # orig.cond THEN res.cond ELSE a.cond
        /\ o.wls = IF res.wls # orig.wls THEN res.wls ELSE a.wls
    BY DEF Patched
  <1>2. /\ orig.exists /\ orig.uid = a.uid /\ res.cond.gen = orig.gen
        /\ orig.cond.gen <= a.cond.gen
        /\ \A v \in Versions(req) : Older(orig, v)
    BY <1>1, PatchFacts
  <1>3. KeyStatus(req) /\ HeldStatus /\ PatchStatusReady
    BY <1>0 DEF StatusInv
  <1>4. /\ Versions(req) \subseteq Objects /\ a \in Versions(req)
    BY <1>0, VersionFacts DEF VersionInv
  <1>5. res.wls # orig.wls \/ res.cond.reason = "FinishedReconcile" => Reports(res, orig.gen)
    BY <1>1, <1>3 DEF PatchStatusReady
  <1>6. /\ orig.gen \in Nat /\ a.cond.gen \in Nat /\ orig.cond.gen \in Nat
    BY <1>0, Numbers
  <1>7. a.cond.gen <= orig.gen
    BY <1>1, <1>2, <1>3, <1>4 DEF HeldStatus, Holding, Bounded
  <1>8. ReasonHolds(o)
    <2> SUFFICES ASSUME o.cond.reason = "FinishedReconcile"
                 PROVE  Reports(o, o.cond.gen)
      BY DEF ReasonHolds
    <2>1. CASE res.wls # orig.wls
      <3>1. o.wls = res.wls /\ Reports(res, orig.gen)
        BY <1>1, <1>5, <2>1
      <3>2. o.cond.gen = orig.gen
        <4>1. CASE res.cond # orig.cond
          BY <1>1, <1>2, <4>1
        <4>2. CASE res.cond = orig.cond
          BY <1>1, <1>2, <1>6, <1>7, <4>2
        <4>3. QED
          BY <4>1, <4>2
      <3>3. QED
        BY <3>1, <3>2 DEF Reports
    <2>2. CASE res.wls = orig.wls /\ res.cond # orig.cond
      <3>1. o.wls = a.wls /\ o.cond = res.cond
        BY <1>1, <2>2
      <3>2. Reports(orig, orig.gen)
        BY <1>5, <2>2, <3>1 DEF Reports
      <3>3. Backed(orig, a)
        BY <1>1, <1>3 DEF HeldStatus, Holding
      <3>4. Reports(a, orig.gen)
        BY <1>1, <1>2, <3>2, <3>3 DEF Backed
      <3>5. QED
        BY <1>2, <3>1, <3>4 DEF Reports
    <2>3. CASE res.wls = orig.wls /\ res.cond = orig.cond
      <3>1. o.wls = a.wls /\ o.cond = a.cond
        BY <1>1, <2>3
      <3>2. ReasonHolds(a)
        BY <1>3 DEF KeyStatus
      <3>3. QED
        BY <1>1, <3>1, <3>2 DEF ReasonHolds, Reports
    <2>4. QED
      BY <2>1, <2>2, <2>3
  <1>9. ASSUME NEW v \in Versions(req)
        PROVE  Backed(v, o)
    <2> SUFFICES ASSUME v.exists, v.uid = o.uid, Reports(v, v.gen)
                 PROVE  Reports(o, v.gen)
      BY DEF Backed
    <2>1. Backed(v, a) /\ Bounded(v, orig) /\ Older(orig, v)
      BY <1>1, <1>2, <1>3 DEF KeyStatus, HeldStatus, Holding
    <2>2. Reports(a, v.gen)
      BY <1>1, <2>1 DEF Backed
    <2>3. CASE res.wls = orig.wls
      BY <1>1, <2>2, <2>3 DEF Reports
    <2>4. CASE res.wls # orig.wls
      <3>1. o.wls = res.wls /\ Reports(res, orig.gen)
        BY <1>1, <1>5, <2>4
      <3>2. v.gen \in Nat
        BY <1>4, Numbers
      <3>3. v.uid = orig.uid
        BY <1>1, <1>2
      <3>4. v.gen <= orig.gen
        BY <2>1, <3>3 DEF Bounded, Reports
      <3>5. orig.gen <= v.gen
        BY <2>1, <3>3 DEF Older
      <3>6. QED
        BY <1>6, <3>1, <3>2, <3>4, <3>5 DEF Reports
    <2>5. QED
      BY <2>3, <2>4
  <1>10. QED
    BY <1>8, <1>9

-----------------------------------------------------------------------------
(***************************************************************************)
(* The invariant is kept                                                   *)
(***************************************************************************)

\* A later copy in the cache bounds what an earlier one bounded: what is
\* reported on the resource is reported on versions the cache has passed.
LEMMA BoundedLater ==
  ASSUME NEW v \in Objects, NEW c \in Objects, NEW d \in Objects,
         Bounded(v, c), Older(c, d), Older(d, v)
  PROVE  Bounded(v, d)
  <1>1. /\ v.uid \in Nat /\ c.uid \in Nat /\ d.uid \in Nat /\ c.gen \in Nat
        /\ d.gen \in Nat /\ v.cond.gen \in Nat /\ \A w \in Workloads : v.wls[w].gen \in Nat
    BY Numbers
  <1>2. NotListed.gen = 0
    BY DEF NotListed
  <1>3. SUFFICES ASSUME v.exists
                 PROVE  Bounded(v, d)
    BY DEF Bounded
  <1>4. c.uid <= d.uid /\ d.uid <= v.uid
    BY DEF Older
  <1>5. CASE v.uid = c.uid
    <2>1. d.uid = v.uid /\ c.uid = d.uid
      BY <1>1, <1>4, <1>5
    <2>2. d.exists
      BY <1>3, <2>1 DEF Older
    <2>3. c.gen <= d.gen
      BY <2>1, <2>2 DEF Older
    <2>4. v.cond.gen <= c.gen /\ \A w \in Workloads : v.wls[w].gen <= c.gen
      BY <1>3, <1>5 DEF Bounded
    <2>5. v.cond.gen <= d.gen /\ \A w \in Workloads : v.wls[w].gen <= d.gen
      BY <1>1, <2>3, <2>4
    <2>6. QED
      BY <2>1, <2>5 DEF Bounded
  <1>6. CASE v.uid # c.uid
    <2>1. v.cond.gen = 0 /\ \A w \in Workloads : v.wls[w] = NotListed
      BY <1>3, <1>6 DEF Bounded
    <2>2. QED
      BY <1>1, <1>2, <2>1 DEF Bounded
  <1>7. QED
    BY <1>5, <1>6

\* A read keeps the status of a key.
LEMMA ReadKeepsStatus ==
  ASSUME TypeOK, WatchOrdered, WatchOrdered', NEW k \in Keys, KeyStatus(k), Read(k),
         cache'[k].rv \in Nat
  PROVE  KeyStatus(k)'
  <1>1. /\ api'[k] = api[k] /\ cache'[k] \in Versions(k) /\ Versions(k)' \subseteq Versions(k)
    BY DEF Read
  <1>2. /\ Versions(k) \subseteq Objects /\ cache[k] \in Versions(k)
        /\ \A v \in Versions(k) : cache[k].rv <= v.rv
    BY VersionFacts
  <1>3. ASSUME NEW v \in Versions(k)'
        PROVE  cache'[k].rv <= v.rv
    <2>1. \A i \in DOMAIN watch'[k] : cache'[k].rv < watch'[k][i].rv
      BY DEF WatchOrdered
    <2>2. v = cache'[k] \/ \E i \in DOMAIN watch'[k] : v = watch'[k][i]
      BY DEF Versions
    <2>3. v.rv \in Nat
      BY <1>1, <1>2, Numbers
    <2>4. QED
      BY <2>1, <2>2, <2>3
  <1>4. \A v, w \in Versions(k)' : v.rv <= w.rv => Older(v, w)
    BY <1>1 DEF KeyStatus
  <1>5. \A v, u \in Versions(k)' : Selected(v, u, k)
    BY <1>1 DEF KeyStatus
  <1>6. \A v \in Versions(k)' : Backed(v, api'[k]) /\ ReportsOwnNamespace(v, k)
    BY <1>1 DEF KeyStatus
  <1>7. ASSUME NEW v \in Versions(k)'
        PROVE  Bounded(v, cache'[k])
    <2>1. v \in Versions(k) /\ v \in Objects /\ cache'[k] \in Objects /\ cache[k] \in Objects
      BY <1>1, <1>2
    <2>2. Bounded(v, cache[k])
      BY <2>1 DEF KeyStatus
    <2>3. Older(cache[k], cache'[k])
      BY <1>1, <1>2 DEF KeyStatus
    <2>4. Older(cache'[k], v)
      BY <1>1, <1>3, <2>1 DEF KeyStatus
    <2>5. QED
      BY <2>1, <2>2, <2>3, <2>4, BoundedLater
  <1>8. /\ ReasonHolds(api'[k])
        /\ ~api'[k].exists => api'[k].gen = 0 /\ api'[k].cond.gen = 0 /\ ~api'[k].fin
    BY <1>1 DEF KeyStatus
  <1>9. QED
    BY <1>4, <1>5, <1>6, <1>7, <1>8 DEF KeyStatus

\* Enough of the stored version o for a write to keep the status of a key.
LEMMA WriteKeepsStatus ==
  ASSUME TypeOK, WatchOrdered, NEW k \in Keys, KeyStatus(k),
         NEW o \in Objects, Write(k, o),
         Older(api[k], o), Bounded(o, cache[k]), ReportsOwnNamespace(o, k),
         \A u \in Versions(k) : Selected(o, u, k) /\ Selected(u, o, k) /\ Backed(u, o),
         Selected(o, o, k), ReasonHolds(o),
         ~o.exists => o.gen = 0 /\ o.cond.gen = 0 /\ ~o.fin
  PROVE  KeyStatus(k)'
  <1>1. /\ api'[k] = o /\ cache'[k] = cache[k] /\ Versions(k)' \subseteq Versions(k) \cup {o}
    BY WriteVersions
  <1>2. /\ Versions(k) \subseteq Objects /\ api[k] \in Versions(k)
        /\ \A v \in Versions(k) : v.rv \in Nat /\ v.rv <= api[k].rv
    BY VersionFacts
  <1>3. o.rv = api[k].rv + 1
    BY DEF Write, NewVersion
  <1>4. \A v \in Versions(k) : Older(v, api[k])
    BY <1>2 DEF KeyStatus
  <1>5. \A v \in Versions(k) : Older(v, o)
    BY <1>2, <1>4, OlderOrder
  <1>6. Older(o, o)
    BY OlderOrder
  <1>7. \A v \in Versions(k) : ~(o.rv <= v.rv)
    BY <1>2, <1>3
  <1>8. ASSUME NEW v \in Versions(k)', NEW w \in Versions(k)', v.rv <= w.rv
        PROVE  Older(v, w)
    <2>1. CASE w = o
      BY <1>1, <1>5, <1>6, <2>1
    <2>2. CASE w # o
      <3>1. w \in Versions(k)
        BY <1>1, <2>2
      <3>2. v \in Versions(k)
        BY <1>1, <1>7, <1>8, <3>1
      <3>3. QED
        BY <1>8, <3>1, <3>2 DEF KeyStatus
    <2>3. QED
      BY <2>1, <2>2
  <1>9. \A v, u \in Versions(k)' : Selected(v, u, k)
    BY <1>1 DEF KeyStatus
  <1>10. Backed(o, o)
    BY DEF Backed
  <1>11. \A v \in Versions(k)' : /\ Bounded(v, cache'[k]) /\ Backed(v, api'[k])
                                 /\ ReportsOwnNamespace(v, k)
    BY <1>1, <1>10 DEF KeyStatus
  <1>12. QED
    BY <1>1, <1>8, <1>9, <1>11 DEF KeyStatus

\* Every step keeps the status of every key.
LEMMA KeyStatusStep ==
  ASSUME TypeOK, VersionInv, StatusInv, [Next]_vars, NEW k \in Keys
  PROVE  KeyStatus(k)'
  <1>0. KeyStatus(k) /\ ReadInv /\ api[k] \in Objects
    BY DEF StatusInv, VersionInv, ReadInv, TypeOK, ClusterTypeOK
  <1>1. TypeOK' /\ WatchOrdered'
    BY TypeStep, VersionStep DEF VersionInv
  <1>2. cache'[k].rv \in Nat
    BY <1>1 DEF TypeOK, ClusterTypeOK, Objects
  <1>3. CASE Read(k)
    BY <1>0, <1>1, <1>2, <1>3, ReadKeepsStatus DEF VersionInv
  <1>4. ASSUME NEW o \in Objects, Write(k, o), Unpatched(api[k], o)
        PROVE  KeyStatus(k)'
    <2> DEFINE a == api[k]
    <2>1. /\ Versions(k) \subseteq Objects /\ a \in Versions(k) /\ cache[k] \in Versions(k)
          /\ \A v \in Versions(k) : v.rv <= a.rv
      BY VersionFacts DEF VersionInv
    <2>2. a.exists => GenerationsSound(a)
      BY DEF VersionInv, VersionsPrecede
    <2>3. \A v \in Versions(k) : Precedes(v, a)
      BY DEF VersionInv, VersionsPrecede, Versions
    <2>4. Older(a, o)
      BY <1>0, <1>4, UnpatchedOlder
    <2>5. Bounded(a, cache[k]) /\ ReportsOwnNamespace(a, k) /\ ReasonHolds(a)
      BY <1>0, <2>1 DEF KeyStatus
    <2>6. Bounded(o, cache[k])
      BY <1>0, <1>4, <2>1, <2>5, UnpatchedBounded
    <2>7. \A u \in Versions(k) : Selected(u, a, k) /\ Selected(a, u, k) /\ Backed(u, a)
      BY <1>0, <2>1 DEF KeyStatus
    <2>8. \A u \in Versions(k) : Selected(u, o, k)
      BY <1>0, <1>4, <2>1, <2>3, <2>7, UnpatchedSelected
    <2>9. \A u \in Versions(k) : Selected(o, u, k)
      BY <1>0, <1>4, <2>1, <2>7, UnpatchedSelects
    <2>10. Selected(o, o, k)
      BY <1>0, <1>4, <2>1, <2>8, UnpatchedSelects
    <2>11. \A u \in Versions(k) : u.uid <= a.uid
      BY <2>3 DEF Precedes
    <2>12. \A u \in Versions(k) : Backed(u, o)
      BY <1>0, <1>4, <2>1, <2>7, <2>11, UnpatchedKeeps
    <2>13. /\ ReportsOwnNamespace(o, k) /\ ReasonHolds(o)
           /\ ~o.exists => o.gen = 0 /\ o.cond.gen = 0 /\ ~o.fin
      BY <1>0, <1>4, <2>5, UnpatchedKeeps
    <2>14. QED
      BY <1>0, <1>4, <2>4, <2>6, <2>8, <2>9, <2>10, <2>12, <2>13, WriteKeepsStatus
         DEF VersionInv
  <1>5. ASSUME NEW o \in Objects, Write(k, o), k = req, Patched(api[req], o)
        PROVE  KeyStatus(k)'
    <2>1. o.exists
      BY <1>5 DEF Patched
    <2>2. QED
      BY <1>0, <1>5, <2>1, PatchedIsSound, PatchedIsBacked, WriteKeepsStatus
         DEF VersionInv
  <1>6. QED
    BY <1>0, <1>3, <1>4, <1>5, KeySteps DEF Write, Unpatched

\* While the resource is held, every step keeps what is known of it.
LEMMA HeldStatusRests ==
  ASSUME TypeOK, VersionInv, StatusInv, [Next]_vars, Rest
  PROVE  HeldStatus'
  <1> SUFFICES ASSUME pc \in Holding, NEW k \in Keys, req = k
               PROVE  /\ Older(orig, cache'[k])
                      /\ Backed(orig, api'[k])
                      /\ ReportsOwnNamespace(orig, k)
                      /\ \A v \in Versions(k)' : Bounded(v, orig) /\ Selected(orig, v, k)
    <2>1. pc' = pc /\ req' = req /\ orig' = orig /\ req \in Keys
      BY DEF Rest, TypeOK
    <2>2. QED
      BY <2>1 DEF HeldStatus, Versions
  <1>0. /\ orig \in Objects /\ api[k] \in Objects
        /\ cache[k] \in Objects /\ ReadInv
    BY DEF TypeOK, ClusterTypeOK, ReadInv, VersionInv
  <1>1. /\ Older(orig, cache[k]) /\ Backed(orig, api[k])
        /\ ReportsOwnNamespace(orig, k)
        /\ \A v \in Versions(k) : Bounded(v, orig) /\ Selected(orig, v, k)
        /\ KeyStatus(k)
    BY <1>0 DEF StatusInv, HeldStatus
  <1>2. /\ Versions(k) \subseteq Objects
        /\ cache[k] \in Versions(k) /\ api[k] \in Versions(k)
        /\ \A v \in Versions(k) : cache[k].rv <= v.rv
    BY <1>0, VersionFacts DEF VersionInv
  <1>3. CASE Read(k)
    <2>1. Older(cache[k], cache'[k])
      BY <1>1, <1>2, <1>3 DEF Read, KeyStatus
    <2>2. cache'[k] \in Objects
      BY <1>2, <1>3 DEF Read
    <2>3. Older(orig, cache'[k])
      BY <1>0, <1>1, <2>1, <2>2, OlderOrder
    <2>4. QED
      BY <1>1, <1>3, <2>3 DEF Read
  <1>4. ASSUME NEW o \in Objects, Write(k, o)
        PROVE  /\ Older(orig, cache'[k]) /\ Backed(orig, api'[k])
               /\ ReportsOwnNamespace(orig, k)
               /\ \A v \in Versions(k)' : Bounded(v, orig) /\ Selected(orig, v, k)
    <2>1. Unpatched(api[k], o)
      BY <1>4 DEF Write, Unpatched, Patched, Rest
    <2>2. /\ api'[k] = o /\ cache'[k] = cache[k]
          /\ Versions(k)' \subseteq Versions(k) \cup {o}
      BY <1>0, <1>4, WriteVersions
    <2>3. Precedes(orig, api[k])
      BY DEF VersionInv, HeldPrecedes
    <2>4. orig.uid <= api[k].uid
      BY <2>3 DEF Precedes
    <2>5. Backed(orig, o)
      BY <1>0, <1>1, <2>1, <2>4, UnpatchedKeeps
    <2>6. Bounded(o, orig)
      BY <1>0, <1>1, <1>2, <2>1, UnpatchedBounded
    <2>7. Selected(orig, o, k)
      BY <1>0, <1>1, <1>2, <2>1, <2>3, UnpatchedSelected
    <2>8. QED
      BY <1>1, <2>2, <2>5, <2>6, <2>7
  <1>5. QED
    BY <1>0, <1>3, <1>4, KeySteps

\* Every step keeps what is known of the resource held.
LEMMA HeldStatusStep ==
  ASSUME TypeOK, VersionInv, StatusInv, [Next]_vars
  PROVE  HeldStatus'
  <1>0. req \in Keys /\ cache[req] \in Objects
    BY DEF TypeOK, ClusterTypeOK
  <1>1. CASE Rest
    BY <1>1, HeldStatusRests
  <1>2. CASE Ended \/ Began \/ (patchStatus /\ pc' = "refetch")
    BY <1>2 DEF Ended, Began, HeldStatus, Holding
  <1>3. CASE ReconcileDelete \/ ReconcileCreateUpdate
    <2>1. orig' = cache[req] /\ UNCHANGED <<api, watch, cache, req>>
      BY <1>3, MemorySteps DEF ReconcileDelete, ReconcileCreateUpdate
    <2>2. Versions(req)' = Versions(req)
      BY <2>1 DEF Versions
    <2>3. KeyStatus(req)
      BY <1>0 DEF StatusInv
    <2>4. cache[req] \in Versions(req)
      BY DEF Versions
    <2>5. Older(cache[req], cache[req])
      BY <1>0, OlderOrder
    <2>6. /\ Backed(cache[req], api[req]) /\ ReportsOwnNamespace(cache[req], req)
          /\ \A v \in Versions(req) : Bounded(v, cache[req]) /\ Selected(cache[req], v, req)
      BY <2>3, <2>4 DEF KeyStatus
    <2>7. QED
      BY <2>1, <2>2, <2>5, <2>6 DEF HeldStatus, Versions
  <1>4. CASE (doDelete /\ res.fin) \/ doCreateUpdate
    <2>1. orig' = orig /\ pc \in Holding /\ UNCHANGED <<api, watch, cache, req>>
      BY <1>4, MemorySteps DEF doDelete, doCreateUpdate, Holding
    <2>2. HeldStatus
      BY DEF StatusInv
    <2>3. QED
      BY <2>1, <2>2 DEF HeldStatus, Versions
  <1>5. QED
    BY <1>1, <1>2, <1>3, <1>4, WorkerMoves

\* What doCreateUpdate is going to patch.
LEMMA ReadyStep ==
  ASSUME TypeOK, VersionInv, StatusInv, [Next]_vars
  PROVE  PatchStatusReady'
  <1>1. CASE Rest
    BY <1>1 DEF Rest, StatusInv, PatchStatusReady, Reports
  <1>2. CASE pc' # "patchStatus"
    BY <1>2 DEF PatchStatusReady
  <1>3. CASE doCreateUpdate
    <2> DEFINE ws == Matching.items
               u == updateWorkloadStatus(res, ws)
               r == reconcileResult(u, ws)
    <2>0. res \in Objects /\ orig \in Objects /\ u \in Objects /\ existing \subseteq Workloads
      BY StatusTypes DEF TypeOK, ClusterTypeOK
    <2>1. /\ orig' = orig /\ req' = req /\ res' = r /\ pc = "doCreateUpdate"
      BY <1>3 DEF doCreateUpdate
    <2>2. res.gen = orig.gen /\ res.sel = orig.sel /\ res.wls = orig.wls
      BY <2>1 DEF VersionInv, HeldResource, Holding
    <2>3. /\ ws \subseteq Workloads
          /\ ws \subseteq listWorkloads(Workloads, orig.sel, req.ns).items
      BY <2>0, <2>2, ListWorkloadsFinds DEF Matching
    <2>4. r.wls = u.wls
      BY <2>0, StatusEffects
    <2>5. u.wls = replaceStatus(orig.wls, ws, orig.gen)
      BY <2>0, <2>2 DEF updateWorkloadStatus, Objects
    <2>6. /\ \A w \in ws : r.wls[w].listed /\ r.wls[w].gen = orig.gen
          /\ \A w \in Workloads \ ws : r.wls[w] = orig.wls[w]
      BY <2>3, <2>4, <2>5 DEF replaceStatus, newStatus
    <2>7. ws = {} => r.wls = orig.wls
      <3>1. orig.wls \in [Workloads -> WorkloadStatuses]
        BY <2>0 DEF Objects
      <3>2. QED
        BY <2>4, <2>5, <3>1 DEF replaceStatus
    <2>8. ws = {} => r.cond.reason = "NoWorkloadsFound"
      BY <2>0 DEF reconcileResult, replaceCondition, Objects
    <2>9. ws # {} => Reports(r, orig.gen)
      BY <2>3, <2>6 DEF Reports
    <2>10. r.wls # orig.wls \/ r.cond.reason = "FinishedReconcile" => Reports(r, orig.gen)
      BY <2>7, <2>8, <2>9
    <2>11. \A w \in Workloads :
              \/ r.wls[w] = orig.wls[w]
              \/ /\ r.wls[w].gen = orig.gen
                 /\ w \in listWorkloads(Workloads, orig.sel, req.ns).items
      BY <2>3, <2>6
    <2>12. QED
      BY <2>1, <2>10, <2>11 DEF PatchStatusReady, Reports
  <1>4. Rest \/ doCreateUpdate \/ pc' # "patchStatus"
    BY WorkerMoves DEF Ended, Began, ReconcileDelete, ReconcileCreateUpdate, doDelete
  <1>5. QED
    BY <1>1, <1>2, <1>3, <1>4

\* Every step keeps the invariant.
LEMMA StatusStep ==
  ASSUME TypeOK, VersionInv, StatusInv, [Next]_vars
  PROVE  StatusInv'
  BY KeyStatusStep, HeldStatusStep, ReadyStep DEF StatusInv

\* The invariant holds when nothing was created yet.
LEMMA StatusInit ==
  ASSUME Init
  PROVE  StatusInv
  <1>1. \A k \in Keys : Versions(k) = {NoObject} /\ api[k] = NoObject /\ cache[k] = NoObject
    BY DEF Init, ClusterInit, Versions
  <1>2. /\ ~NoObject.exists /\ NoObject.gen = 0 /\ NoObject.cond.gen = 0 /\ ~NoObject.fin
        /\ \A w \in Workloads : ~NoObject.wls[w].listed
    BY DEF NoObject, NoCondition, NotListed
  <1>3. Older(NoObject, NoObject)
    BY NoObjectType, OlderOrder
  <1>4. \A k \in Keys : KeyStatus(k)
    BY <1>1, <1>2, <1>3
       DEF KeyStatus, Selected, Bounded, Backed, ReportsOwnNamespace, ReasonHolds
  <1>5. QED
    BY <1>4 DEF Init, StatusInv, HeldStatus, PatchStatusReady, Holding

\* The three invariants together, in every behaviour.
LEMMA StatusKept == Spec => [](TypeOK /\ VersionInv /\ StatusInv)
  <1>1. Init => StatusInv
    BY StatusInit
  <1>2. TypeOK /\ VersionInv /\ StatusInv /\ [Next]_vars => StatusInv'
    BY StatusStep
  <1>3. QED
    BY <1>1, <1>2, VersionsKept, PTL DEF Spec

\* The stored version is one of the versions that Selected relates.
LEMMA SelectedIsStored ==
  ASSUME TypeOK, VersionInv, StatusInv
  PROVE  WorkloadStatusMatchesSpec
  <1> SUFFICES ASSUME NEW k \in Keys, NEW w \in Workloads,
                      api[k].exists, api[k].wls[w].listed,
                      api[k].wls[w].gen = api[k].gen
               PROVE  w \in listWorkloads(Workloads, api[k].sel, k.ns).items
    BY DEF WorkloadStatusMatchesSpec
  <1>1. api[k] \in Versions(k)
    BY VersionFacts DEF VersionInv
  <1>2. Selected(api[k], api[k], k)
    BY <1>1 DEF StatusInv, KeyStatus
  <1>3. QED
    BY <1>2 DEF Selected

\* A workload reported for the current generation is one that the current spec
\* selects: doCreateUpdate lists the workloads of the spec it read, stamps them
\* with the generation it read, and no later spec has that generation.
THEOREM StatusMatchesSpec == Spec => []WorkloadStatusMatchesSpec
  <1>1. TypeOK /\ VersionInv /\ StatusInv => WorkloadStatusMatchesSpec
    BY SelectedIsStored
  <1>2. QED
    BY <1>1, StatusKept, PTL

\* The reason FinishedReconcile always comes with a workload reported for the
\* generation of the condition, although the merge patch carries conditions and
\* WorkloadStatus independently of each other.
THEOREM FinishedIsBacked == Spec => []ReasonBacked
  <1>1. StatusInv => ReasonBacked
    BY DEF StatusInv, KeyStatus, ReasonHolds, Reports, ReasonBacked
  <1>2. QED
    BY <1>1, StatusKept, PTL

=============================================================================
