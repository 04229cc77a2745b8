-------------------------- MODULE OperatorProofs --------------------------
(***************************************************************************)
(* Proofs about the operator as a whole: what the status promises, pods    *)
(* admitted later get, what was let go, they do not get, and the owners    *)
(* that decide it are exactly those that can be found, for any set of      *)
(* pods, owners, resources and workloads.  What is proved of the           *)
(* reconciler alone holds with the webhook beside it as well.              *)
(***************************************************************************)
EXTENDS Operator, LifecycleProofs

-----------------------------------------------------------------------------
(***************************************************************************)
(* The inductive invariant                                                 *)
(***************************************************************************)

Requests == [phase    : {"none", "list", "owners", "admitted", "denied"},
             seen     : [Keys -> Objects],
             todo     : Seq(Workloads),
             owners   : SUBSET (Workloads \cup {EmptyObject}),
             proxies  : SUBSET Keys,
             handled  : BOOLEAN,
             reported : SUBSET Claims,
             released : [Keys -> Nat],
             got      : SUBSET Workloads,
             missed   : SUBSET Workloads]

\* The copy o of a resource keeps the promise c: it is another resource, or a
\* later version, or the very version that selects the workload.
Covers(o, c) ==
    \/ o.uid > c.uid
    \/ /\ o.uid = c.uid
       /\ \/ ~o.exists
          \/ o.gen > c.gen
          \/ /\ o.gen = c.gen
             /\ c.workload \in listWorkloads(Workloads, o.sel, c.key.ns).items
             /\ ~o.del

\* Of the request r of pod p: before the list the cache keeps what the status
\* promised, after it the copy that the webhook has seen.
Promised(p, r) ==
    /\ r.phase = "list" => \A c \in r.reported : c.key.ns = p.ns /\ Covers(cache[c.key], c)
    /\ r.phase = "owners" => \A c \in r.reported : Covers(r.seen[c.key], c)

\* A live copy the webhook has seen is not one that was let go before.
NotReleased(r) ==
    /\ r.phase \in {"list", "owners"} => \A k \in Keys : r.released[k] <= letGo[k]
    /\ r.phase = "owners" =>
          \A k \in Keys : r.seen[k].exists /\ ~r.seen[k].del => r.seen[k].uid > r.released[k]

\* Every version around of a resource that was let go is marked as deleted.
ReleasedIsDeleted ==
    \A k \in Keys : /\ letGo[k] <= api[k].uid
                    /\ \A v \in Versions(k) : v.exists /\ v.uid <= letGo[k] => v.del

RequestTypeOK == request \in [Pods -> Requests] /\ letGo \in [Keys -> Nat]

ReconcilerInv == TypeOK /\ VersionInv /\ StatusInv

OperatorInv ==
    /\ ReconcilerInv
    /\ RequestTypeOK
    /\ ReleasedIsDeleted
    /\ \A p \in Pods : Promised(p, request[p]) /\ NotReleased(request[p])

-----------------------------------------------------------------------------
(***************************************************************************)
(* The reconciler inside the operator                                      *)
(***************************************************************************)

\* The webhook reads and writes nothing of the cluster's objects and of the
\* worker, so it keeps what is known about them.
LEMMA WebhookKeepsReconciler ==
  ASSUME ReconcilerInv, UNCHANGED <<clusterVars, workerVars>>, faults' \in Nat
  PROVE  ReconcilerInv'
  <1>1. /\ api' = api /\ watch' = watch /\ cache' = cache /\ existing' = existing
        /\ now' = now /\ userOps' = userOps /\ queue' = queue
        /\ recentlyDeleted' = recentlyDeleted /\ pc' = pc /\ req' = req
        /\ orig' = orig /\ res' = res
    BY DEF clusterVars, workerVars
  <1>2. TypeOK'
    BY <1>1 DEF ReconcilerInv, TypeOK, ClusterTypeOK
  <1>3. WatchOrdered' /\ HeldResource' /\ HeldIsOld'
    BY <1>1 DEF ReconcilerInv, VersionInv, WatchOrdered, HeldResource, HeldIsOld
  <1>4. VersionsPrecede' /\ HeldPrecedes'
    BY <1>1 DEF ReconcilerInv, VersionInv, VersionsPrecede, HeldPrecedes
  <1>5. \A k \in Keys : Versions(k)' = Versions(k)
    BY <1>1 DEF Versions
  <1>6. \A k \in Keys : KeyStatus(k)'
    BY <1>1, <1>5 DEF ReconcilerInv, StatusInv, KeyStatus
  <1>7. Versions(req)' = Versions(req)
    BY <1>1 DEF Versions
  <1>8. HeldStatus'
    BY <1>1, <1>7 DEF ReconcilerInv, StatusInv, HeldStatus
  <1>9. PatchStatusReady'
    BY <1>1 DEF ReconcilerInv, StatusInv, PatchStatusReady, Reports
  <1>10. QED
    BY <1>2, <1>3, <1>4, <1>6, <1>8, <1>9 DEF ReconcilerInv, VersionInv, StatusInv

\* Every other step of the operator is one of the reconciler.
LEMMA OperatorSteps ==
  ASSUME [OperatorNext]_opVars
  PROVE  Webhook \/ [Next]_vars
  BY DEF OperatorNext, opVars, Controller, ProcessCrash, Next, Failure

\* What the webhook leaves alone.
LEMMA WebhookLeaves ==
  ASSUME TypeOK, Webhook
  PROVE  /\ UNCHANGED <<clusterVars, workerVars, letGo>>
         /\ faults' \in Nat
  BY DEF TypeOK, Webhook, HandleErrored, HandleTimeout, Fault

\* Every step of the operator keeps the invariant of the reconciler.
LEMMA ReconcilerStep ==
  ASSUME ReconcilerInv, [OperatorNext]_opVars
  PROVE  ReconcilerInv'
  <1>1. CASE Webhook
    <2>1. UNCHANGED <<clusterVars, workerVars>> /\ faults' \in Nat
      BY <1>1, WebhookLeaves DEF ReconcilerInv
    <2>2. QED
      BY <2>1, WebhookKeepsReconciler
  <1>2. CASE [Next]_vars
    BY <1>2, TypeStep, VersionStep, StatusStep DEF ReconcilerInv
  <1>3. QED
    BY <1>1, <1>2, OperatorSteps

-----------------------------------------------------------------------------
(***************************************************************************)
(* What was let go                                                         *)
(***************************************************************************)

\* A write to k: identities grow, and what has the identity of a deleted
\* resource is deleted.
LEMMA WriteOnReleased ==
  ASSUME ReconcilerInv, NEW k \in Keys, NEW o \in Objects, Write(k, o)
  PROVE  /\ api[k].uid <= o.uid
         /\ api[k].exists => o.uid = api[k].uid
         /\ ~api[k].exists /\ o.exists => api[k].uid < o.uid
         /\ api[k].exists /\ api[k].del /\ o.exists => o.del
  <1>1. api[k].uid \in Nat
    BY DEF ReconcilerInv, TypeOK, ClusterTypeOK, Objects
  <1>2. QED
    BY <1>1 DEF Write, Born, Respecified, Refinalized, Vanished, Patched

\* Every step of the reconciler that is recorded keeps ReleasedIsDeleted, and
\* what was let go stays let go.
LEMMA ReleasedStep ==
  ASSUME ReconcilerInv, letGo \in [Keys -> Nat], ReleasedIsDeleted, [Next]_vars,
         RecordRelease \/ (UNCHANGED letGo /\ UNCHANGED api)
  PROVE  /\ letGo' \in [Keys -> Nat]
         /\ \A k \in Keys : letGo[k] <= letGo'[k]
         /\ ReleasedIsDeleted'
  <1>1. /\ \A k \in Keys : api[k] \in Objects /\ api[k].uid \in Nat /\ letGo[k] \in Nat
        /\ ReadInv /\ TypeOK /\ WatchOrdered
    BY DEF ReconcilerInv, ReadInv, VersionInv, TypeOK, ClusterTypeOK, Objects
  <1>2. letGo' \in [Keys -> Nat]
    BY <1>1 DEF RecordRelease
  <1>3. ASSUME NEW k \in Keys
        PROVE  /\ letGo[k] <= letGo'[k]
               /\ letGo'[k] <= api'[k].uid
               /\ \A v \in Versions(k)' : v.exists /\ v.uid <= letGo'[k] => v.del
    <2> DEFINE a == api[k]
    <2>1. /\ letGo[k] <= a.uid
          /\ \A v \in Versions(k) : v.exists /\ v.uid <= letGo[k] => v.del
      BY DEF ReleasedIsDeleted
    <2>2. \/ letGo'[k] = letGo[k] /\ ~(RecordRelease /\ a.fin /\ ~api'[k].fin)
          \/ letGo'[k] = a.uid /\ a.fin /\ ~api'[k].fin
      BY DEF RecordRelease
    <2>3. CASE Read(k)
      <3>1. letGo'[k] = letGo[k] /\ api'[k] = a /\ Versions(k)' \subseteq Versions(k)
        BY <2>2, <2>3 DEF Read
      <3>2. QED
        BY <1>1, <2>1, <3>1
    <2>4. ASSUME NEW o \in Objects, Write(k, o)
          PROVE  /\ letGo[k] <= letGo'[k]
                 /\ letGo'[k] <= api'[k].uid
                 /\ \A v \in Versions(k)' : v.exists /\ v.uid <= letGo'[k] => v.del
      <3>1. api'[k] = o /\ Versions(k)' \subseteq Versions(k) \cup {o}
        BY <1>1, <2>4, WriteVersions
      <3>2. o.uid \in Nat /\ letGo[k] \in Nat /\ a.uid \in Nat
        BY <1>1, Numbers
      <3>3. /\ a.uid <= o.uid /\ (a.exists => o.uid = a.uid)
            /\ ~a.exists /\ o.exists => a.uid < o.uid
            /\ a.exists /\ a.del /\ o.exists => o.del
        BY <2>4, WriteOnReleased
      <3>4. a \in Versions(k)
        BY <1>1, VersionFacts
      <3>5. CASE letGo'[k] = letGo[k]
        <4>1. o.exists /\ o.uid <= letGo[k] => o.del
          BY <2>1, <3>2, <3>3, <3>4
        <4>2. QED
          BY <2>1, <3>1, <3>2, <3>3, <3>5, <4>1
      <3>6. CASE letGo'[k] = a.uid /\ a.fin /\ ~api'[k].fin
        <4>1. a.exists
          BY <3>6 DEF ReconcilerInv, StatusInv, KeyStatus
        <4>2. a.del /\ cache[k] = a /\ watch[k] = <<>>
          BY <2>4, <3>1, <3>6, <4>1 DEF Write
        <4>3. Versions(k) = {a}
          BY <4>2 DEF Versions
        <4>4. \A v \in Versions(k)' : v.exists => v.del
          BY <3>1, <3>3, <4>1, <4>2, <4>3
        <4>5. QED
          BY <2>1, <3>1, <3>3, <3>6, <4>4
      <3>7. QED
        BY <2>2, <3>5, <3>6
    <2>5. QED
      BY <1>1, <2>3, <2>4, KeySteps
  <1>4. QED
    BY <1>2, <1>3 DEF ReleasedIsDeleted

-----------------------------------------------------------------------------
(***************************************************************************)
(* What was promised                                                       *)
(***************************************************************************)

\* A later copy of the resource keeps the promise as well.
LEMMA CoversLater ==
  ASSUME NEW o \in Objects, NEW d \in Objects, NEW c \in Claims, Covers(o, c), Older(o, d)
  PROVE  Covers(d, c)
  <1>1. /\ o.uid \in Nat /\ d.uid \in Nat /\ o.gen \in Nat /\ d.gen \in Nat
        /\ c.uid \in Nat /\ c.gen \in Nat
    BY Numbers DEF Claims
  <1>2. o.uid <= d.uid
    BY DEF Older
  <1>3. CASE d.uid > c.uid
    BY <1>3 DEF Covers
  <1>4. CASE ~(d.uid > c.uid)
    <2>1. o.uid = c.uid /\ d.uid = c.uid
      BY <1>1, <1>2, <1>4 DEF Covers
    <2>2. CASE ~d.exists
      BY <2>1, <2>2 DEF Covers
    <2>3. CASE d.exists
      <3>1. /\ o.exists /\ o.gen <= d.gen
            /\ o.gen = d.gen => o.sel = d.sel /\ o.del = d.del
        BY <2>1, <2>3 DEF Older
      <3>2. \/ o.gen > c.gen
            \/ /\ o.gen = c.gen /\ ~o.del
               /\ c.workload \in listWorkloads(Workloads, o.sel, c.key.ns).items
        BY <1>1, <2>1, <3>1 DEF Covers
      <3>3. CASE d.gen > c.gen
        BY <2>1, <3>3 DEF Covers
      <3>4. CASE ~(d.gen > c.gen)
        <4>1. o.gen = c.gen /\ d.gen = c.gen /\ o.sel = d.sel /\ o.del = d.del
          BY <1>1, <3>1, <3>2, <3>4
        <4>2. c.workload \in listWorkloads(Workloads, d.sel, c.key.ns).items /\ ~d.del
          BY <1>1, <3>2, <4>1
        <4>3. QED
          BY <2>1, <4>1, <4>2 DEF Covers
      <3>5. QED
        BY <3>3, <3>4
    <2>4. QED
      BY <2>2, <2>3
  <1>5. QED
    BY <1>3, <1>4

\* The cache moves to later versions only.
LEMMA CacheMovesOn ==
  ASSUME ReconcilerInv, [Next]_vars, NEW k \in Keys
  PROVE  Older(cache[k], cache'[k]) /\ cache'[k] \in Objects /\ cache[k] \in Objects
  <1>1. /\ TypeOK /\ ReadInv /\ WatchOrdered /\ KeyStatus(k) /\ cache[k] \in Objects
    BY DEF ReconcilerInv, ReadInv, VersionInv, StatusInv, TypeOK, ClusterTypeOK
  <1>2. /\ Versions(k) \subseteq Objects /\ cache[k] \in Versions(k)
        /\ \A v \in Versions(k) : cache[k].rv <= v.rv
    BY <1>1, VersionFacts
  <1>3. CASE Read(k)
    BY <1>1, <1>2, <1>3 DEF Read, KeyStatus
  <1>4. ASSUME NEW o \in Objects, Write(k, o)
        PROVE  cache'[k] = cache[k]
    BY <1>4 DEF Write
  <1>5. Older(cache[k], cache[k])
    BY <1>1, OlderOrder
  <1>6. QED
    BY <1>1, <1>3, <1>4, <1>5, KeySteps

\* The owners of a pod are in its namespace.
LEMMA OwnersInNamespace ==
  ASSUME NEW p \in Pods, NEW o \in SelfAndOwners(p)
  PROVE  o.ns = p.ns
  <1> DEFINE os == {x \in Pods \cup Workloads : x.ns = p.ns}
  <1>1. os \in SUBSET (Pods \cup Workloads) /\ p \in os
    OBVIOUS
  <1>2. ClosedUnderOwners(os, {})
    <2> SUFFICES ASSUME NEW x \in os, NEW i \in DOMAIN OwnerRefs[x]
                 PROVE  OwnerRefs[x][i] \in os
      BY DEF ClosedUnderOwners
    <2>1. x \in Pods \cup Workloads /\ x.ns = p.ns
      OBVIOUS
    <2>2. OwnerRefs[x] \in Seq(Workloads)
      BY <2>1, OwnerRefsAssumption
    <2>3. OwnerRefs[x][i] \in Workloads
      BY <2>2, ElementOfSeq
    <2>4. OwnerRefs[x][i].ns = x.ns
      BY <2>1, OwnerNamespaceAssumption
    <2>5. QED
      BY <2>1, <2>3, <2>4
  <1>3. o \in os
    BY <1>1, <1>2 DEF SelfAndOwners, Reachable
  <1>4. QED
    BY <1>3

\* When the pod is submitted, the cache already has what the status reports.
LEMMA ClaimsAreCovered ==
  ASSUME ReconcilerInv, NEW p \in Pods, NEW c \in ClaimsAbout(p)
  PROVE  c \in Claims /\ c.key.ns = p.ns /\ Covers(cache[c.key], c)
  <1> DEFINE a == api[c.key]
             d == cache[c.key]
  <1>1. \A k \in Keys : /\ api[k].uid \in Nat
                        /\ \A w \in Workloads : api[k].wls[w].gen \in Nat
    BY Numbers DEF ReconcilerInv, TypeOK, ClusterTypeOK
  <1>2. /\ c.key \in Keys /\ c.workload \in SelfAndOwners(p) /\ c.workload \in Workloads
        /\ a.exists /\ a.uid = c.uid /\ a.wls[c.workload].listed
        /\ a.wls[c.workload].gen = c.gen
    BY DEF ClaimsAbout
  <1>3. c \in Claims
    BY <1>1 DEF ClaimsAbout, Claims
  <1>4. KeyStatus(c.key) /\ TypeOK /\ WatchOrdered
    BY <1>2 DEF ReconcilerInv, StatusInv, VersionInv
  <1>5. a \in Versions(c.key) /\ d \in Versions(c.key) /\ d \in Objects
    BY <1>2, <1>4, VersionFacts
  <1>6. c.key.ns = p.ns
    <2>1. c.workload.ns = c.key.ns
      BY <1>2, <1>4, <1>5 DEF KeyStatus, ReportsOwnNamespace
    <2>2. c.workload.ns = p.ns
      BY <1>2, OwnersInNamespace
    <2>3. QED
      BY <2>1, <2>2
  <1>7. Bounded(a, d) /\ Selected(a, d, c.key)
    BY <1>4, <1>5 DEF KeyStatus
  <1>8. d.uid = c.uid
    <2>1. ~NotListed.listed
      BY DEF NotListed
    <2>2. QED
      BY <1>2, <1>7, <2>1 DEF Bounded
  <1>9. c.gen <= d.gen
    BY <1>2, <1>7, <1>8 DEF Bounded
  <1>10. d.gen \in Nat /\ c.gen \in Nat
    BY <1>3, <1>5, Numbers DEF Claims
  <1>11. CASE d.exists /\ d.gen = c.gen
    <2>1. c.workload \in listWorkloads(Workloads, d.sel, c.key.ns).items /\ ~d.del
      BY <1>2, <1>7, <1>8, <1>11 DEF Selected
    <2>2. QED
      BY <1>3, <1>6, <1>8, <1>11, <2>1 DEF Covers
  <1>12. CASE ~d.exists \/ d.gen # c.gen
    BY <1>3, <1>6, <1>8, <1>9, <1>10, <1>12 DEF Covers
  <1>13. QED
    BY <1>11, <1>12

-----------------------------------------------------------------------------
(***************************************************************************)
(* The requests                                                            *)
(***************************************************************************)

\* The requests that no call is in progress for.
LEMMA AnswerTypes ==
  /\ NoRequest \in Requests /\ NoRequest.phase = "none"
  /\ Unanswered \in Requests /\ Unanswered.phase = "admitted" /\ ~Unanswered.handled
  /\ \A phase \in {"admitted", "denied"} : \A proxies \in SUBSET Keys :
        /\ Answer(phase, proxies) \in Requests
        /\ Answer(phase, proxies).phase = phase
        /\ Answer(phase, proxies).proxies = proxies
  <1>1. [k \in Keys |-> NoObject] \in [Keys -> Objects]
    BY NoObjectType
  <1>2. <<>> \in Seq(Workloads)
    OBVIOUS
  <1>3. NoRequest \in Requests
    BY <1>1, <1>2 DEF NoRequest, Requests
  <1>4. NoRequest.phase = "none" /\ NoRequest.handled = FALSE
    BY DEF NoRequest
  <1>5. Unanswered \in Requests /\ Unanswered.phase = "admitted"
    BY <1>3 DEF Unanswered, Requests
  <1>6. Unanswered.handled = FALSE
    BY <1>3, <1>4 DEF Unanswered, Requests
  <1>7. ASSUME NEW phase \in {"admitted", "denied"}, NEW proxies \in SUBSET Keys
        PROVE  /\ Answer(phase, proxies) \in Requests
               /\ Answer(phase, proxies).phase = phase
               /\ Answer(phase, proxies).proxies = proxies
    BY <1>3 DEF Answer, Requests
  <1>8. QED
    BY <1>3, <1>4, <1>5, <1>6, <1>7

\* What no call is in progress for, promises nothing.
LEMMA NothingPending ==
  ASSUME NEW p, NEW r, r.phase \notin {"list", "owners"}
  PROVE  Promised(p, r) /\ NotReleased(r)
  BY DEF Promised, NotReleased

\* A step of one request.
LEMMA RequestChange ==
  ASSUME OperatorInv, UNCHANGED <<cache, letGo>>, NEW p \in Pods, NEW r \in Requests,
         request' = [request EXCEPT ![p] = r], Promised(p, r), NotReleased(r)
  PROVE  /\ RequestTypeOK'
         /\ \A q \in Pods : Promised(q, request[q])' /\ NotReleased(request[q])'
  <1>1. request \in [Pods -> Requests] /\ letGo \in [Keys -> Nat]
    BY DEF OperatorInv, RequestTypeOK
  <1>2. RequestTypeOK'
    BY <1>1 DEF RequestTypeOK
  <1>3. ASSUME NEW q \in Pods
        PROVE  Promised(q, request'[q]) /\ NotReleased(request'[q])
    <2>1. CASE q = p
      BY <1>1, <2>1
    <2>2. CASE q # p
      <3>1. request'[q] = request[q]
        BY <1>1, <2>2
      <3>2. QED
        BY <3>1 DEF OperatorInv
    <2>3. QED
      BY <2>1, <2>2
  <1>4. ASSUME NEW q \in Pods
        PROVE  Promised(q, request[q])' /\ NotReleased(request[q])'
    BY <1>3 DEF Promised, NotReleased, Covers
  <1>5. QED
    BY <1>2, <1>4

\* A pod is submitted: what the status says, the cache has.
LEMMA SubmitStep ==
  ASSUME OperatorInv, NEW p \in Pods, Submit(p), UNCHANGED <<cache, letGo>>
  PROVE  /\ RequestTypeOK'
         /\ \A q \in Pods : Promised(q, request[q])' /\ NotReleased(request[q])'
  <1> DEFINE r == [request[p] EXCEPT !.phase = "list", !.reported = ClaimsAbout(p),
                                     !.released = letGo]
  <1>1. request \in [Pods -> Requests] /\ request[p] \in Requests
        /\ letGo \in [Keys -> Nat] /\ ReconcilerInv
    BY DEF OperatorInv, RequestTypeOK
  <1>2. request' = [request EXCEPT ![p] = r]
    BY <1>1 DEF Submit
  <1>3. \A c \in ClaimsAbout(p) : c \in Claims /\ c.key.ns = p.ns /\ Covers(cache[c.key], c)
    BY <1>1, ClaimsAreCovered
  <1>4. r \in Requests /\ r.phase = "list" /\ r.reported = ClaimsAbout(p) /\ r.released = letGo
    <2>1. ClaimsAbout(p) \in SUBSET Claims
      BY <1>3
    <2>2. QED
      BY <1>1, <2>1 DEF Requests
  <1> HIDE DEF r
  <1>5. Promised(p, r)
    BY <1>3, <1>4 DEF Promised
  <1>6. NotReleased(r)
    BY <1>1, <1>4 DEF NotReleased
  <1>7. QED
    BY <1>2, <1>4, <1>5, <1>6, RequestChange

\* The list: the webhook's copies are those of the cache.
LEMMA HandleListStep ==
  ASSUME OperatorInv, NEW p \in Pods, HandleList(p), UNCHANGED <<cache, letGo>>
  PROVE  /\ RequestTypeOK'
         /\ \A q \in Pods : Promised(q, request[q])' /\ NotReleased(request[q])'
  <1> DEFINE s == [k \in Keys |-> IF k.ns = p.ns THEN cache[k] ELSE NoObject]
             r == [request[p] EXCEPT !.phase = "owners", !.seen = s, !.todo = OwnerRefs[p]]
  <1>1. /\ request \in [Pods -> Requests] /\ request[p] \in Requests
        /\ letGo \in [Keys -> Nat] /\ TypeOK /\ WatchOrdered /\ ReleasedIsDeleted
        /\ Promised(p, request[p]) /\ NotReleased(request[p])
        /\ request[p].phase = "list"
    BY DEF OperatorInv, RequestTypeOK, ReconcilerInv, VersionInv, HandleList
  <1>2. request' = [request EXCEPT ![p] = r]
    BY <1>1 DEF HandleList
  <1>3. cache \in [Keys -> Objects]
    BY <1>1 DEF TypeOK, ClusterTypeOK
  <1>4. s \in [Keys -> Objects]
    BY <1>3, NoObjectType
  <1>5. OwnerRefs[p] \in Seq(Workloads)
    BY OwnerRefsAssumption
  <1>6. /\ r \in Requests /\ r.phase = "owners" /\ r.seen = s
        /\ r.reported = request[p].reported /\ r.released = request[p].released
    BY <1>1, <1>4, <1>5 DEF Requests
  <1>7. Promised(p, r)
    <2> SUFFICES ASSUME NEW c \in request[p].reported
                 PROVE  Covers(s[c.key], c)
      BY <1>6 DEF Promised
    <2>1. c.key.ns = p.ns /\ Covers(cache[c.key], c)
      BY <1>1 DEF Promised
    <2>2. c.key \in Keys
      BY <1>1 DEF Requests, Claims
    <2>3. QED
      BY <2>1, <2>2
  <1>8. NotReleased(r)
    <2>1. \A k \in Keys : request[p].released[k] <= letGo[k]
      BY <1>1 DEF NotReleased
    <2>2. ASSUME NEW k \in Keys, s[k].exists, ~s[k].del
          PROVE  s[k].uid > request[p].released[k]
      <3>1. s[k] = cache[k]
        BY <2>2 DEF NoObject
      <3>2. cache[k] \in Versions(k)
        BY <1>1, VersionFacts
      <3>3. ~(cache[k].uid <= letGo[k])
        BY <1>1, <2>2, <3>1, <3>2 DEF ReleasedIsDeleted
      <3>4. /\ cache[k].uid \in Nat /\ letGo[k] \in Nat /\ request[p].released[k] \in Nat
        BY <1>1, <1>3, Numbers DEF Requests
      <3>5. QED
        BY <2>1, <3>1, <3>3, <3>4
    <2>3. QED
      BY <1>6, <2>1, <2>2 DEF NotReleased
  <1>9. QED
    BY <1>2, <1>6, <1>7, <1>8, RequestChange

\* One turn of listOwners leaves the copies alone.
LEMMA listOwnersStep ==
  ASSUME OperatorInv, NEW p \in Pods, listOwners(p), UNCHANGED <<cache, letGo>>
  PROVE  /\ RequestTypeOK'
         /\ \A q \in Pods : Promised(q, request[q])' /\ NotReleased(request[q])'
  <1> DEFINE t == request[p].todo
             w == Head(t)
             u == IF w \in existing THEN OwnerRefs[w] \o Tail(t) ELSE Tail(t)
             g == IF w \in existing THEN request[p].got \cup {w} ELSE request[p].got
             m == IF w \in existing THEN request[p].missed ELSE request[p].missed \cup {w}
             r == [request[p] EXCEPT !.owners = @ \cup OwnerObject(w), !.got = g,
                                     !.missed = m, !.todo = u]
  <1>1. /\ request \in [Pods -> Requests] /\ request[p] \in Requests
        /\ Promised(p, request[p]) /\ NotReleased(request[p])
        /\ request[p].phase = "owners" /\ t # <<>> /\ t \in Seq(Workloads)
    BY DEF OperatorInv, RequestTypeOK, listOwners, Requests
  <1>2. request' = [request EXCEPT ![p] = r]
    BY <1>1 DEF listOwners
  <1>3. w \in Workloads /\ Tail(t) \in Seq(Workloads)
    BY <1>1
  <1>4. OwnerRefs[w] \in Seq(Workloads)
    BY <1>3, OwnerRefsAssumption
  <1>5. u \in Seq(Workloads)
    BY <1>3, <1>4
  <1>6. /\ OwnerObject(w) \subseteq Workloads \cup {EmptyObject}
        /\ g \in SUBSET Workloads /\ m \in SUBSET Workloads
    BY <1>1, <1>3 DEF OwnerObject, Requests
  <1> HIDE DEF u, w, g, m
  <1>7. /\ r \in Requests /\ r.phase = "owners" /\ r.seen = request[p].seen
        /\ r.reported = request[p].reported /\ r.released = request[p].released
    BY <1>1, <1>5, <1>6 DEF Requests
  <1> HIDE DEF r
  <1>8. Promised(p, r) /\ NotReleased(r)
    BY <1>1, <1>7 DEF Promised, NotReleased
  <1>9. QED
    BY <1>2, <1>7, <1>8, RequestChange

\* The answer ends the request, whatever it is.
LEMMA AnswerStep ==
  ASSUME OperatorInv, NEW p \in Pods, HandleAnswer(p) \/ HandleErrored(p) \/ HandleTimeout(p),
         UNCHANGED <<cache, letGo>>
  PROVE  /\ RequestTypeOK'
         /\ \A q \in Pods : Promised(q, request[q])' /\ NotReleased(request[q])'
  <1>1. ASSUME NEW r \in Requests, r.phase \notin {"list", "owners"},
               request' = [request EXCEPT ![p] = r]
        PROVE  /\ RequestTypeOK'
               /\ \A q \in Pods : Promised(q, request[q])' /\ NotReleased(request[q])'
    BY <1>1, NothingPending, RequestChange
  <1>2. CASE HandleAnswer(p)
    <2> DEFINE matches == FindMatchingAuthProxyWorkloads(request[p].seen,
                                                         {p} \cup request[p].owners)
    <2>1. matches \in SUBSET Keys
      BY DEF FindMatchingAuthProxyWorkloads, filterMatchingInstances
    <2>2. \/ request' = [request EXCEPT ![p] = Answer("admitted", matches)]
          \/ request' = [request EXCEPT ![p] = Answer("denied", {})]
      BY <1>2 DEF HandleAnswer
    <2> HIDE DEF matches
    <2>3. QED
      BY <1>1, <2>1, <2>2, AnswerTypes
  <1>3. CASE HandleErrored(p)
    BY <1>1, <1>3, AnswerTypes DEF HandleErrored
  <1>4. CASE HandleTimeout(p)
    BY <1>1, <1>4, AnswerTypes DEF HandleTimeout
  <1>5. QED
    BY <1>2, <1>3, <1>4

\* While the worker and the users move on, the cache covers what it covered.
LEMMA PromiseKept ==
  ASSUME OperatorInv, [Next]_vars, UNCHANGED request,
         \A k \in Keys : letGo[k] <= letGo'[k], letGo' \in [Keys -> Nat]
  PROVE  /\ RequestTypeOK'
         /\ \A q \in Pods : Promised(q, request[q])' /\ NotReleased(request[q])'
  <1>1. /\ request \in [Pods -> Requests] /\ letGo \in [Keys -> Nat] /\ ReconcilerInv
        /\ \A q \in Pods : Promised(q, request[q]) /\ NotReleased(request[q])
    BY DEF OperatorInv, RequestTypeOK
  <1>2. ASSUME NEW q \in Pods
        PROVE  Promised(q, request[q])'
    <2>1. \A c \in request[q].reported : c \in Claims /\ c.key \in Keys
      BY <1>1 DEF Requests, Claims
    <2>2. ASSUME NEW c \in request[q].reported, Covers(cache[c.key], c)
          PROVE  Covers(cache'[c.key], c)
      <3>1. /\ Older(cache[c.key], cache'[c.key])
            /\ cache'[c.key] \in Objects /\ cache[c.key] \in Objects
        BY <1>1, <2>1, CacheMovesOn
      <3>2. QED
        BY <2>1, <2>2, <3>1, CoversLater
    <2>3. QED
      BY <1>1, <2>2 DEF Promised, Covers
  <1>3. ASSUME NEW q \in Pods
        PROVE  NotReleased(request[q])'
    <2>1. \A k \in Keys : /\ request[q].released[k] \in Nat
                          /\ letGo[k] \in Nat /\ letGo'[k] \in Nat
      BY <1>1 DEF Requests
    <2>2. request[q].phase \in {"list", "owners"} =>
             \A k \in Keys : request[q].released[k] <= letGo'[k]
      BY <1>1, <2>1 DEF NotReleased
    <2>3. QED
      BY <1>1, <2>2 DEF NotReleased
  <1>4. RequestTypeOK'
    BY <1>1 DEF RequestTypeOK
  <1>5. QED
    BY <1>2, <1>3, <1>4

\* A crash ends the calls in progress.
LEMMA CrashEndsRequests ==
  ASSUME OperatorInv, ProcessCrash
  PROVE  /\ RequestTypeOK'
         /\ \A q \in Pods : Promised(q, request[q])' /\ NotReleased(request[q])'
  <1>1. request \in [Pods -> Requests] /\ letGo \in [Keys -> Nat]
    BY DEF OperatorInv, RequestTypeOK
  <1>2. RequestTypeOK'
    BY <1>1, AnswerTypes DEF RequestTypeOK, ProcessCrash
  <1>3. \A q \in Pods : request'[q].phase \notin {"list", "owners"}
    BY <1>1, AnswerTypes DEF ProcessCrash, Pending
  <1>4. ASSUME NEW q \in Pods
        PROVE  Promised(q, request[q])' /\ NotReleased(request[q])'
    BY <1>3 DEF Promised, NotReleased
  <1>5. QED
    BY <1>2, <1>4

\* Every step of the operator keeps the invariant.
LEMMA OperatorStep ==
  ASSUME OperatorInv, [OperatorNext]_opVars
  PROVE  OperatorInv'
  <1>1. ReconcilerInv /\ TypeOK /\ RequestTypeOK /\ ReleasedIsDeleted
    BY DEF OperatorInv, ReconcilerInv
  <1>2. ReconcilerInv'
    BY <1>1, ReconcilerStep
  <1>3. CASE Webhook
    <2>1. /\ UNCHANGED <<clusterVars, workerVars, letGo>>
          /\ UNCHANGED <<cache, letGo>> /\ api' = api /\ watch' = watch
      BY <1>1, <1>3, WebhookLeaves DEF clusterVars
    <2>2. /\ RequestTypeOK'
          /\ \A q \in Pods : Promised(q, request[q])' /\ NotReleased(request[q])'
      BY <1>3, <2>1, SubmitStep, HandleListStep, listOwnersStep, AnswerStep DEF Webhook, Handle
    <2>3. \A k \in Keys : Versions(k)' = Versions(k)
      BY <2>1 DEF Versions
    <2>4. ReleasedIsDeleted'
      BY <1>1, <2>1, <2>3 DEF ReleasedIsDeleted
    <2>5. QED
      BY <1>2, <2>2, <2>4 DEF OperatorInv
  <1>4. CASE Controller
    <2>1. [Next]_vars /\ RecordRelease /\ UNCHANGED request
      BY <1>4 DEF Controller, Next, Failure
    <2>2. /\ letGo' \in [Keys -> Nat] /\ \A k \in Keys : letGo[k] <= letGo'[k]
          /\ ReleasedIsDeleted'
      BY <1>1, <2>1, ReleasedStep DEF RequestTypeOK
    <2>3. QED
      BY <1>2, <2>1, <2>2, PromiseKept DEF OperatorInv
  <1>5. CASE ProcessCrash
    <2>1. [Next]_vars /\ UNCHANGED letGo /\ UNCHANGED api
      BY <1>5 DEF ProcessCrash, Next, Failure, CrashRestart, ListAll
    <2>2. ReleasedIsDeleted'
      BY <1>1, <2>1, ReleasedStep DEF RequestTypeOK
    <2>3. QED
      BY <1>2, <1>5, <2>2, CrashEndsRequests DEF OperatorInv
  <1>6. CASE UNCHANGED opVars
    <2>1. [Next]_vars /\ UNCHANGED letGo /\ UNCHANGED api /\ UNCHANGED request
      BY <1>6 DEF opVars, vars, clusterVars
    <2>2. /\ letGo' \in [Keys -> Nat] /\ \A k \in Keys : letGo[k] <= letGo'[k]
          /\ ReleasedIsDeleted'
      BY <1>1, <2>1, ReleasedStep DEF RequestTypeOK
    <2>3. QED
      BY <1>2, <2>1, <2>2, PromiseKept DEF OperatorInv
  <1>7. QED
    BY <1>3, <1>4, <1>5, <1>6 DEF OperatorNext

LEMMA OperatorInitially ==
  ASSUME OperatorInit
  PROVE  OperatorInv
  <1>1. Init
    BY DEF OperatorInit
  <1>2. ReconcilerInv
    BY <1>1, VersionInit, StatusInit DEF ReconcilerInv
  <1>3. RequestTypeOK
    BY AnswerTypes DEF OperatorInit, RequestTypeOK
  <1>4. \A p \in Pods : Promised(p, request[p]) /\ NotReleased(request[p])
    BY AnswerTypes, NothingPending DEF OperatorInit
  <1>5. ReleasedIsDeleted
    <2> SUFFICES ASSUME NEW k \in Keys
                 PROVE  /\ letGo[k] <= api[k].uid
                        /\ \A v \in Versions(k) : v.exists /\ v.uid <= letGo[k] => v.del
      BY DEF ReleasedIsDeleted
    <2>1. letGo[k] = 0 /\ api[k] = NoObject
      BY <1>1 DEF OperatorInit, Init, ClusterInit
    <2>2. Versions(k) = {NoObject}
      BY <1>1 DEF Init, ClusterInit, Versions
    <2>3. NoObject.uid \in Nat /\ ~NoObject.exists
      BY DEF NoObject
    <2>4. QED
      BY <2>1, <2>2, <2>3
  <1>6. QED
    BY <1>2, <1>3, <1>4, <1>5 DEF OperatorInv

LEMMA OperatorInvKept == OperatorSpec => []OperatorInv
  <1>1. OperatorInit => OperatorInv
    BY OperatorInitially
  <1>2. OperatorInv /\ [OperatorNext]_opVars => OperatorInv'
    BY OperatorStep
  <1>3. QED
    BY <1>1, <1>2, PTL DEF OperatorSpec

-----------------------------------------------------------------------------
(***************************************************************************)
(* The owners that listOwners finds                                        *)
(***************************************************************************)

Elements(t) == {t[i] : i \in DOMAIN t}

\* Of the request r of pod p: what is found, not found and still to be looked
\* up are owners of the pod; the references of everything found are among them;
\* and of what is found the known kinds are the owners.  What the status
\* reported is about the pod or an owner.
OwnersFound(p, r) ==
    /\ r.phase \in {"list", "owners"} => \A c \in r.reported : c.workload \in SelfAndOwners(p)
    /\ r.phase \in {"none", "list"} => r.owners = {} /\ r.got = {} /\ r.missed = {}
    /\ r.phase = "owners" =>
          /\ r.got \cup r.missed \cup Elements(r.todo) \subseteq SelfAndOwners(p)
          /\ \A o \in {p} \cup r.got : Elements(OwnerRefs[o])
                                          \subseteq r.got \cup r.missed \cup Elements(r.todo)
          /\ r.owners \subseteq r.got \cup {EmptyObject}
          /\ \A w \in r.got : WorkloadForKind(ObjectKind(w)) => w \in r.owners

\* Taking the next reference off the list.
LEMMA HeadElement ==
  ASSUME NEW S, NEW t \in Seq(S), t # <<>>
  PROVE  Elements(t) = {Head(t)} \cup Elements(Tail(t))
  <1>1. /\ DOMAIN t = 1..Len(t) /\ Len(t) \in Nat \ {0} /\ Head(t) = t[1]
        /\ DOMAIN Tail(t) = 1..(Len(t) - 1)
        /\ \A i \in 1..(Len(t) - 1) : Tail(t)[i] = t[i + 1]
    OBVIOUS
  <1>2. ASSUME NEW i \in DOMAIN t PROVE t[i] \in {Head(t)} \cup Elements(Tail(t))
    <2>1. CASE i = 1
      BY <1>1, <2>1
    <2>2. CASE i # 1
      <3>1. i - 1 \in DOMAIN Tail(t) /\ Tail(t)[i - 1] = t[i]
        BY <1>1, <2>2
      <3>2. QED
        BY <3>1 DEF Elements
    <2>3. QED
      BY <2>1, <2>2
  <1>3. ASSUME NEW i \in DOMAIN Tail(t) PROVE Tail(t)[i] \in Elements(t)
    <2>1. i + 1 \in DOMAIN t /\ Tail(t)[i] = t[i + 1]
      BY <1>1
    <2>2. QED
      BY <2>1 DEF Elements
  <1>4. Head(t) \in Elements(t)
    BY <1>1 DEF Elements
  <1>5. QED
    BY <1>2, <1>3, <1>4 DEF Elements

\* Putting the references of an owner in front of the list.
LEMMA ConcatElements ==
  ASSUME NEW S, NEW t \in Seq(S), NEW u \in Seq(S)
  PROVE  Elements(t \o u) = Elements(t) \cup Elements(u)
  <1>1. /\ DOMAIN t = 1..Len(t) /\ DOMAIN u = 1..Len(u) /\ Len(t) \in Nat /\ Len(u) \in Nat
        /\ DOMAIN (t \o u) = 1..(Len(t) + Len(u))
        /\ \A i \in 1..(Len(t) + Len(u)) :
              (t \o u)[i] = IF i <= Len(t) THEN t[i] ELSE u[i - Len(t)]
    OBVIOUS
  <1>2. ASSUME NEW i \in DOMAIN (t \o u) PROVE (t \o u)[i] \in Elements(t) \cup Elements(u)
    <2>1. \/ i \in DOMAIN t /\ (t \o u)[i] = t[i]
          \/ i - Len(t) \in DOMAIN u /\ (t \o u)[i] = u[i - Len(t)]
      BY <1>1
    <2>2. QED
      BY <2>1 DEF Elements
  <1>3. ASSUME NEW i \in DOMAIN t PROVE t[i] \in Elements(t \o u)
    <2>1. i \in DOMAIN (t \o u) /\ (t \o u)[i] = t[i]
      BY <1>1
    <2>2. QED
      BY <2>1 DEF Elements
  <1>4. ASSUME NEW i \in DOMAIN u PROVE u[i] \in Elements(t \o u)
    <2>1. Len(t) + i \in DOMAIN (t \o u) /\ (t \o u)[Len(t) + i] = u[i]
      BY <1>1
    <2>2. QED
      BY <2>1 DEF Elements
  <1>5. QED
    BY <1>2, <1>3, <1>4 DEF Elements

\* The pod is one of its SelfAndOwners, and so are the references of each.
LEMMA OwnersOfOwners ==
  ASSUME NEW p \in Pods
  PROVE  /\ p \in SelfAndOwners(p)
         /\ \A o \in SelfAndOwners(p) : Elements(OwnerRefs[o]) \subseteq SelfAndOwners(p)
  <1>1. p \in SelfAndOwners(p)
    BY DEF SelfAndOwners, Reachable
  <1>2. ASSUME NEW o \in SelfAndOwners(p), NEW i \in DOMAIN OwnerRefs[o]
        PROVE  OwnerRefs[o][i] \in SelfAndOwners(p)
    <2>1. o \in Pods \cup Workloads
      BY DEF SelfAndOwners, Reachable
    <2>2. OwnerRefs[o] \in Seq(Workloads)
      BY <2>1, OwnerRefsAssumption
    <2>3. OwnerRefs[o][i] \in Workloads
      BY <2>2, ElementOfSeq
    <2>4. ASSUME NEW os \in SUBSET (Pods \cup Workloads), p \in os, ClosedUnderOwners(os, {})
          PROVE  OwnerRefs[o][i] \in os
      <3>1. o \in os
        BY <2>4 DEF SelfAndOwners, Reachable
      <3>2. QED
        BY <2>4, <3>1 DEF ClosedUnderOwners
    <2>5. QED
      BY <2>3, <2>4 DEF SelfAndOwners, Reachable
  <1>3. QED
    BY <1>1, <1>2 DEF Elements

\* A step that changes the request of one pod.
LEMMA FoundChange ==
  ASSUME \A q \in Pods : OwnersFound(q, request[q]), request \in [Pods -> Requests],
         NEW p \in Pods, NEW r, OwnersFound(p, r), request' = [request EXCEPT ![p] = r]
  PROVE  \A q \in Pods : OwnersFound(q, request'[q])
  <1> SUFFICES ASSUME NEW q \in Pods PROVE OwnersFound(q, request'[q])
    OBVIOUS
  <1>1. CASE q = p
    BY <1>1
  <1>2. CASE q # p
    <2>1. request'[q] = request[q]
      BY <1>2
    <2>2. QED
      BY <2>1
  <1>3. QED
    BY <1>1, <1>2

\* The search starts with the references of the pod and nothing found.
LEMMA FoundAtList ==
  ASSUME \A q \in Pods : OwnersFound(q, request[q]), request \in [Pods -> Requests],
         NEW p \in Pods, HandleList(p)
  PROVE  \A q \in Pods : OwnersFound(q, request'[q])
  <1> DEFINE s == [k \in Keys |-> IF k.ns = p.ns THEN cache[k] ELSE NoObject]
             r == [request[p] EXCEPT !.phase = "owners", !.seen = s, !.todo = OwnerRefs[p]]
  <1>1. request' = [request EXCEPT ![p] = r] /\ request[p] \in Requests
    BY DEF HandleList
  <1> HIDE DEF s
  <1>2. /\ r.phase = "owners" /\ r.todo = OwnerRefs[p] /\ r.owners = request[p].owners
        /\ r.got = request[p].got /\ r.missed = request[p].missed
        /\ r.reported = request[p].reported
    BY <1>1 DEF Requests
  <1>3. /\ request[p].owners = {} /\ request[p].got = {} /\ request[p].missed = {}
        /\ \A c \in request[p].reported : c.workload \in SelfAndOwners(p)
    BY DEF HandleList, OwnersFound
  <1> HIDE DEF r
  <1>4. OwnersFound(p, r)
    BY <1>2, <1>3, OwnersOfOwners DEF OwnersFound
  <1>5. QED
    BY <1>1, <1>4, FoundChange

\* One Get: what was found is followed, what was not is passed over.
LEMMA FoundByGet ==
  ASSUME \A q \in Pods : OwnersFound(q, request[q]), request \in [Pods -> Requests],
         NEW p \in Pods, listOwners(p)
  PROVE  \A q \in Pods : OwnersFound(q, request'[q])
  <1> DEFINE t == request[p].todo
             w == Head(t)
             u == IF w \in existing THEN OwnerRefs[w] \o Tail(t) ELSE Tail(t)
             g == IF w \in existing THEN request[p].got \cup {w} ELSE request[p].got
             m == IF w \in existing THEN request[p].missed ELSE request[p].missed \cup {w}
             r == [request[p] EXCEPT !.owners = @ \cup OwnerObject(w), !.got = g,
                                     !.missed = m, !.todo = u]
  <1>1. /\ request' = [request EXCEPT ![p] = r] /\ request[p] \in Requests
        /\ request[p].phase = "owners" /\ t # <<>> /\ t \in Seq(Workloads)
    BY DEF listOwners, Requests
  <1>2. w \in Workloads /\ Tail(t) \in Seq(Workloads)
    BY <1>1
  <1>3. OwnerRefs[w] \in Seq(Workloads)
    BY <1>2, OwnerRefsAssumption
  <1>4. Elements(t) = {w} \cup Elements(Tail(t))
    BY <1>1, HeadElement
  <1>5. Elements(u) = IF w \in existing THEN Elements(OwnerRefs[w]) \cup Elements(Tail(t))
                                        ELSE Elements(Tail(t))
    <2>1. Elements(OwnerRefs[w] \o Tail(t)) = Elements(OwnerRefs[w]) \cup Elements(Tail(t))
      BY <1>2, <1>3, ConcatElements
    <2>2. CASE w \in existing
      <3>1. u = OwnerRefs[w] \o Tail(t)
        BY <2>2
      <3>2. QED
        BY <2>1, <2>2, <3>1
    <2>3. CASE w \notin existing
      <3>1. u = Tail(t)
        BY <2>3
      <3>2. QED
        BY <2>3, <3>1
    <2>4. QED
      BY <2>2, <2>3
  <1>6. /\ request[p].got \cup request[p].missed \cup Elements(t) \subseteq SelfAndOwners(p)
        /\ \A o \in {p} \cup request[p].got :
              Elements(OwnerRefs[o]) \subseteq request[p].got \cup request[p].missed \cup Elements(t)
        /\ request[p].owners \subseteq request[p].got \cup {EmptyObject}
        /\ \A x \in request[p].got : WorkloadForKind(ObjectKind(x)) => x \in request[p].owners
        /\ \A c \in request[p].reported : c.workload \in SelfAndOwners(p)
    BY <1>1 DEF OwnersFound
  <1>7. Elements(OwnerRefs[w]) \subseteq SelfAndOwners(p)
    BY <1>4, <1>6, OwnersOfOwners
  <1>8. /\ w \in existing => OwnerObject(w) \subseteq {w}
        /\ w \in existing /\ WorkloadForKind(ObjectKind(w)) => w \in OwnerObject(w)
        /\ w \notin existing => OwnerObject(w) \subseteq {EmptyObject}
    BY DEF OwnerObject
  <1>9. g \cup m \cup Elements(u) \subseteq SelfAndOwners(p)
    BY <1>4, <1>5, <1>6, <1>7
  <1>10. \A o \in {p} \cup g : Elements(OwnerRefs[o]) \subseteq g \cup m \cup Elements(u)
    BY <1>4, <1>5, <1>6
  <1>11. request[p].owners \cup OwnerObject(w) \subseteq g \cup {EmptyObject}
    BY <1>6, <1>8
  <1>12. \A x \in g : WorkloadForKind(ObjectKind(x)) => x \in request[p].owners \cup OwnerObject(w)
    BY <1>6, <1>8
  <1> HIDE DEF u, w, g, m
  <1>13. /\ r.phase = "owners" /\ r.todo = u /\ r.got = g /\ r.missed = m
         /\ r.owners = request[p].owners \cup OwnerObject(w)
         /\ r.reported = request[p].reported
    BY <1>1 DEF Requests
  <1> HIDE DEF r
  <1>14. OwnersFound(p, r)
    BY <1>6, <1>9, <1>10, <1>11, <1>12, <1>13 DEF OwnersFound
  <1>15. QED
    BY <1>1, <1>14, FoundChange

\* Every step of the operator keeps OwnersFound.
LEMMA FoundStep ==
  ASSUME OperatorInv, \A q \in Pods : OwnersFound(q, request[q]), [OperatorNext]_opVars
  PROVE  \A q \in Pods : OwnersFound(q, request[q])'
  <1>1. request \in [Pods -> Requests]
    BY DEF OperatorInv, RequestTypeOK
  <1>2. \A r \in Requests : r.phase \in {"admitted", "denied"} => \A q \in Pods : OwnersFound(q, r)
    BY DEF OwnersFound
  <1>3. ASSUME NEW p \in Pods, Submit(p)
        PROVE  \A q \in Pods : OwnersFound(q, request'[q])
    <2> DEFINE r == [request[p] EXCEPT !.phase = "list", !.reported = ClaimsAbout(p),
                                       !.released = letGo]
    <2>1. /\ request' = [request EXCEPT ![p] = r] /\ request[p] \in Requests
          /\ request[p].phase = "none"
      BY <1>1, <1>3 DEF Submit
    <2>2. /\ r.phase = "list" /\ r.owners = request[p].owners
          /\ r.got = request[p].got /\ r.missed = request[p].missed
          /\ r.reported = ClaimsAbout(p)
      BY <2>1 DEF Requests
    <2> HIDE DEF r
    <2>3. \A c \in ClaimsAbout(p) : c.workload \in SelfAndOwners(p)
      BY DEF ClaimsAbout
    <2>4. OwnersFound(p, r)
      BY <2>1, <2>2, <2>3 DEF OwnersFound
    <2>5. QED
      BY <1>1, <2>1, <2>4, FoundChange
  <1>4. ASSUME NEW p \in Pods, HandleAnswer(p) \/ HandleErrored(p) \/ HandleTimeout(p)
        PROVE  \A q \in Pods : OwnersFound(q, request'[q])
    <2>1. PICK r \in Requests : /\ r.phase \in {"admitted", "denied"}
                                /\ request' = [request EXCEPT ![p] = r]
      <3> DEFINE matches == FindMatchingAuthProxyWorkloads(request[p].seen,
                                                           {p} \cup request[p].owners)
      <3>1. matches \in SUBSET Keys
        BY DEF FindMatchingAuthProxyWorkloads, filterMatchingInstances
      <3>2. \/ request' = [request EXCEPT ![p] = Answer("admitted", matches)]
            \/ request' = [request EXCEPT ![p] = Answer("denied", {})]
            \/ request' = [request EXCEPT ![p] = Unanswered]
        BY <1>4 DEF HandleAnswer, HandleErrored, HandleTimeout
      <3> HIDE DEF matches
      <3>3. QED
        BY <3>1, <3>2, AnswerTypes
    <2>2. QED
      BY <1>1, <1>2, <2>1, FoundChange
  <1>5. CASE Webhook
    <2>1. \A q \in Pods : OwnersFound(q, request'[q])
      BY <1>1, <1>3, <1>4, <1>5, FoundAtList, FoundByGet DEF Webhook, Handle
    <2>2. QED
      BY <2>1
  <1>6. CASE Controller \/ UNCHANGED opVars
    BY <1>6 DEF Controller, opVars
  <1>7. CASE ProcessCrash
    <2>1. request' = [p \in Pods |-> IF Pending(p) THEN Unanswered ELSE request[p]]
      BY <1>7 DEF ProcessCrash
    <2>2. \A q \in Pods : OwnersFound(q, Unanswered)
      BY <1>2, AnswerTypes
    <2>3. \A q \in Pods : OwnersFound(q, request'[q])
      BY <2>1, <2>2
    <2>4. QED
      BY <2>3
  <1>8. QED
    BY <1>5, <1>6, <1>7 DEF OperatorNext

-----------------------------------------------------------------------------
(***************************************************************************)
(* The theorems                                                            *)
(***************************************************************************)

\* A pod is let in by an answer of Handle and by nothing else: a call that was
\* not answered is not handled.
LEMMA AdmittedByAnswer ==
  ASSUME OperatorInv, [OperatorNext]_opVars, NEW p \in Pods, AdmitsNow(p)
  PROVE  /\ request[p].phase = "owners" /\ request[p].todo = <<>>
         /\ request'[p].proxies = FindMatchingAuthProxyWorkloads(request[p].seen,
                                                                 {p} \cup request[p].owners)
  <1> DEFINE matches(q) == FindMatchingAuthProxyWorkloads(request[q].seen,
                                                          {q} \cup request[q].owners)
  <1>1. request \in [Pods -> Requests] /\ request[p] \in Requests
    BY DEF OperatorInv, RequestTypeOK
  <1>2. /\ request[p].phase \in {"list", "owners"}
        /\ request'[p].phase = "admitted" /\ request'[p].handled
    BY DEF AdmitsNow, Pending
  <1>3. request'[p] # request[p]
    BY <1>2
  <1>4. ~Controller /\ ~UNCHANGED opVars
    BY <1>3 DEF Controller, opVars
  <1>5. ~ProcessCrash
    BY <1>2, AnswerTypes DEF ProcessCrash, Pending
  <1>6. PICK q \in Pods : \/ Submit(q) \/ Handle(q)
                          \/ HandleErrored(q) \/ HandleTimeout(q)
    BY <1>4, <1>5 DEF OperatorNext, Webhook
  <1>7. q = p
    BY <1>1, <1>3, <1>6 DEF Submit, Handle, HandleList, listOwners, HandleAnswer,
                            HandleErrored, HandleTimeout
  <1>8. ~Submit(p)
    BY <1>2 DEF Submit
  <1>9. ~HandleList(p)
    <2> SUFFICES ASSUME HandleList(p) PROVE FALSE
      OBVIOUS
    <2> DEFINE s == [k \in Keys |-> IF k.ns = p.ns THEN cache[k] ELSE NoObject]
               r == [request[p] EXCEPT !.phase = "owners", !.seen = s, !.todo = OwnerRefs[p]]
    <2>1. request' = [request EXCEPT ![p] = r]
      BY <1>1 DEF HandleList
    <2> HIDE DEF s
    <2>2. r.phase = "owners"
      BY <1>1 DEF Requests
    <2>3. QED
      BY <1>1, <1>2, <2>1, <2>2
  <1>10. ~listOwners(p)
    <2> SUFFICES ASSUME listOwners(p) PROVE FALSE
      OBVIOUS
    <2> DEFINE t == request[p].todo
               w == Head(t)
               u == IF w \in existing THEN OwnerRefs[w] \o Tail(t) ELSE Tail(t)
               g == IF w \in existing THEN request[p].got \cup {w} ELSE request[p].got
               m == IF w \in existing THEN request[p].missed ELSE request[p].missed \cup {w}
               r == [request[p] EXCEPT !.owners = @ \cup OwnerObject(w), !.got = g,
                                       !.missed = m, !.todo = u]
    <2>1. request' = [request EXCEPT ![p] = r] /\ request[p].phase = "owners"
      BY <1>1 DEF listOwners
    <2> HIDE DEF u, w, g, m
    <2>2. r.phase = request[p].phase
      BY <1>1 DEF Requests
    <2>3. QED
      BY <1>1, <1>2, <2>1, <2>2
  <1>11. Answer("denied", {}).phase = "denied"
    BY AnswerTypes
  <1>12. ~HandleErrored(p)
    BY <1>1, <1>2, <1>11 DEF HandleErrored
  <1>13. ~HandleTimeout(p)
    BY <1>1, <1>2, AnswerTypes DEF HandleTimeout
  <1>14. HandleAnswer(p)
    BY <1>6, <1>7, <1>8, <1>9, <1>10, <1>12, <1>13 DEF Handle
  <1>15. matches(p) \in SUBSET Keys
    BY DEF FindMatchingAuthProxyWorkloads, filterMatchingInstances
  <1>16. /\ request[p].phase = "owners" /\ request[p].todo = <<>>
         /\ \/ request'[p] = Answer("admitted", matches(p))
            \/ request'[p] = Answer("denied", {})
    BY <1>1, <1>14 DEF HandleAnswer
  <1>17. Answer("admitted", matches(p)).proxies = matches(p)
    BY <1>15, AnswerTypes
  <1>18. QED
    BY <1>2, <1>11, <1>16, <1>17

\* What the operator has let go gets no proxy: a finalizer is taken off only
\* when the cache has the deletion, so a copy that is listed later is marked as
\* deleted or is of a later resource, and filterMatchingInstances drops the
\* former.
THEOREM LetGoIsNotConfigured == OperatorSpec => ReleasedIsNotConfigured
  <1>1. OperatorInv /\ [OperatorNext]_opVars =>
          \A p \in Pods : AdmitsNow(p) => \A k \in request'[p].proxies :
             request[p].seen[k].uid > request[p].released[k]
    <2> SUFFICES ASSUME OperatorInv, [OperatorNext]_opVars, NEW p \in Pods, AdmitsNow(p),
                        NEW k \in request'[p].proxies
                 PROVE  request[p].seen[k].uid > request[p].released[k]
      OBVIOUS
    <2>1. /\ request[p].phase = "owners"
          /\ k \in FindMatchingAuthProxyWorkloads(request[p].seen, {p} \cup request[p].owners)
      BY AdmittedByAnswer
    <2>2. k \in Keys /\ request[p].seen[k].exists /\ ~request[p].seen[k].del
      BY <2>1 DEF FindMatchingAuthProxyWorkloads, filterMatchingInstances
    <2>3. NotReleased(request[p])
      BY DEF OperatorInv
    <2>4. QED
      BY <2>1, <2>2, <2>3 DEF NotReleased
  <1>2. QED
    BY <1>1, OperatorInvKept, PTL DEF OperatorSpec, ReleasedIsNotConfigured

\* In every behaviour the search is as OwnersFound says.
LEMMA FoundKept == OperatorSpec => [](OperatorInv /\ \A q \in Pods : OwnersFound(q, request[q]))
  <1> DEFINE Inv == \A q \in Pods : OwnersFound(q, request[q])
  <1>1. OperatorInit => Inv
    <2> SUFFICES ASSUME OperatorInit, NEW q \in Pods PROVE OwnersFound(q, request[q])
      OBVIOUS
    <2>1. request[q] = NoRequest
      BY DEF OperatorInit
    <2>2. QED
      BY <2>1 DEF NoRequest, OwnersFound
  <1>2. OperatorInv /\ Inv /\ [OperatorNext]_opVars => Inv'
    BY FoundStep
  <1>3. QED
    BY <1>1, <1>2, OperatorInvKept, PTL DEF OperatorSpec

\* When nothing is left to be looked up, the objects found and missed form a set
\* that no reference of a found one leads out of, and Reachable is the least one.
LEMMA SearchIsExact ==
  ASSUME OperatorInv, NEW p \in Pods, OwnersFound(p, request[p]),
         request[p].phase = "owners", request[p].todo = <<>>
  PROVE  /\ request[p].owners \subseteq SelfAndOwners(p) \cup {EmptyObject}
         /\ \A w \in Reachable(p, request[p].missed) \ ({p} \cup request[p].missed) :
               WorkloadForKind(ObjectKind(w)) => w \in request[p].owners
  <1> DEFINE got == request[p].got
             missed == request[p].missed
             os == {p} \cup got \cup missed
  <1>1. Elements(request[p].todo) = {}
    BY DEF Elements
  <1>2. /\ got \subseteq SelfAndOwners(p)
        /\ \A o \in {p} \cup got : Elements(OwnerRefs[o]) \subseteq got \cup missed
        /\ request[p].owners \subseteq got \cup {EmptyObject}
        /\ \A w \in got : WorkloadForKind(ObjectKind(w)) => w \in request[p].owners
    BY <1>1 DEF OwnersFound
  <1>3. ClosedUnderOwners(os, missed)
    BY <1>2 DEF ClosedUnderOwners, Elements
  <1>4. os \in SUBSET (Pods \cup Workloads) /\ p \in os
    BY DEF OperatorInv, RequestTypeOK, Requests
  <1>5. Reachable(p, missed) \subseteq os
    BY <1>3, <1>4 DEF Reachable
  <1>6. QED
    BY <1>2, <1>5

\* listOwners finds the owners of a pod and all of those that it can find,
\* although it looks them up one by one while workloads come and go.
THEOREM OwnersAreExact == OperatorSpec => OwnersExact
  <1>1. OperatorInv /\ (\A q \in Pods : OwnersFound(q, request[q])) /\ [OperatorNext]_opVars =>
          \A p \in Pods : AdmitsNow(p) =>
             LET r == request[p] IN
             /\ r.owners \subseteq SelfAndOwners(p) \cup {EmptyObject}
             /\ \A w \in Reachable(p, r.missed) \ ({p} \cup r.missed) :
                   WorkloadForKind(ObjectKind(w)) => w \in r.owners
    BY AdmittedByAnswer, SearchIsExact
  <1>2. QED
    BY <1>1, FoundKept, PTL DEF OperatorSpec, OwnersExact

\* A selector with a plain kind and either a name or labels; for the others
\* listWorkloads and workloadMatches disagree (module SelectionAgreement).
PlainSelectors ==
    \A sel \in Selectors : ~sel.kind.qualified
                           /\ (sel.name = "" \/ (sel.valid /\ sel.labels = {}))

\* What the status reports, the pods submitted from then on get: the status is
\* written from a version that the cache has, the webhook lists the same cache
\* later, and workloadMatches accepts what listWorkloads has listed.
THEOREM StatusIsAPromise ==
  ASSUME PlainSelectors
  PROVE  OperatorSpec => ReportedIsConfigured
  <1>1. OperatorInv /\ (\A q \in Pods : OwnersFound(q, request[q])) /\ [OperatorNext]_opVars =>
          \A p \in Pods : AdmitsNow(p) => \A c \in request[p].reported :
             LET o == request[p].seen[c.key] IN
             \/ o.uid > c.uid
             \/ /\ o.uid = c.uid
                /\ \/ ~o.exists
                   \/ o.gen > c.gen
                   \/ /\ o.gen = c.gen
                      /\ c.workload \in request[p].owners \/ request[p].missed = {}
                            => c.key \in request'[p].proxies
    <2> SUFFICES ASSUME OperatorInv, \A q \in Pods : OwnersFound(q, request[q]),
                        [OperatorNext]_opVars, NEW p \in Pods, AdmitsNow(p),
                        NEW c \in request[p].reported
                 PROVE  LET o == request[p].seen[c.key] IN
                        \/ o.uid > c.uid
                        \/ /\ o.uid = c.uid
                           /\ \/ ~o.exists
                              \/ o.gen > c.gen
                              \/ /\ o.gen = c.gen
                                 /\ c.workload \in request[p].owners \/ request[p].missed = {}
                                       => c.key \in request'[p].proxies
      OBVIOUS
    <2> DEFINE o == request[p].seen[c.key]
    <2>1. /\ request[p].phase = "owners" /\ request[p].todo = <<>>
          /\ request'[p].proxies = FindMatchingAuthProxyWorkloads(request[p].seen,
                                                                  {p} \cup request[p].owners)
      BY AdmittedByAnswer
    <2>2. Covers(o, c)
      BY <2>1 DEF OperatorInv, Promised
    <2>3. c.key \in Keys /\ o \in Objects
      BY DEF OperatorInv, RequestTypeOK, Requests, Claims
    <2>4. ASSUME o.exists, ~o.del,
                 c.workload \in request[p].owners \/ request[p].missed = {},
                 c.workload \in listWorkloads(Workloads, o.sel, c.key.ns).items
          PROVE  c.key \in request'[p].proxies
      <3>1. o.sel \in Selectors
        BY <2>3, <2>4 DEF Objects
      <3>2. workloadMatches(c.workload, o.sel, c.key.ns)
        BY <2>4, <3>1, ListedMatches, SelectorSpecAssumption DEF PlainSelectors
      <3>3. c.key \in filterMatchingInstances(request[p].seen, c.workload)
        BY <2>3, <2>4, <3>2 DEF filterMatchingInstances
      <3>4. c.workload \in {p} \cup request[p].owners
        <4>1. c.workload \in SelfAndOwners(p)
          BY <2>1 DEF OwnersFound
        <4>2. WorkloadForKind(ObjectKind(c.workload))
          BY <2>4, ListedIsKnown DEF WorkloadForKind, ParseKindArg, ObjectKind
        <4>3. CASE request[p].missed = {}
          BY <2>1, <4>1, <4>2, <4>3, SearchIsExact DEF SelfAndOwners
        <4>4. QED
          BY <2>4, <4>3
      <3>5. QED
        BY <2>1, <3>3, <3>4 DEF FindMatchingAuthProxyWorkloads
    <2>5. QED
      BY <2>2, <2>4 DEF Covers
  <1>2. QED
    BY <1>1, FoundKept, PTL DEF OperatorSpec, ReportedIsConfigured

-----------------------------------------------------------------------------
(***************************************************************************)
(* The reconciler's properties in the whole operator                       *)
(***************************************************************************)

\* The webhook and its failures leave what wakes the reconciler up alone.
LEMMA WakeupUnderOperator ==
  ASSUME OperatorInv, WakeupInv, [OperatorNext]_opVars
  PROVE  WakeupInv'
  <1>1. TypeOK
    BY DEF OperatorInv, ReconcilerInv
  <1>2. CASE Webhook
    <2>1. /\ api' = api /\ watch' = watch /\ cache' = cache
          /\ queue' = queue /\ recentlyDeleted' = recentlyDeleted
          /\ pc' = pc /\ req' = req /\ orig' = orig /\ res' = res
      BY <1>1, <1>2, WebhookLeaves DEF clusterVars, workerVars
    <2>2. WatchOrdered' /\ HeldResource'
      BY <2>1 DEF WakeupInv, WatchOrdered, HeldResource
    <2>3. HeldIsCached' /\ PatchedIsDone'
      BY <2>1 DEF WakeupInv, HeldIsCached, PatchedIsDone, NeedsWork
    <2>4. NoLostWork'
      BY <2>1 DEF WakeupInv, NoLostWork, NeedsWork, Reconciling
    <2>5. QED
      BY <2>2, <2>3, <2>4 DEF WakeupInv
  <1>3. CASE [Next]_vars
    BY <1>1, <1>3, WakeupStep
  <1>4. QED
    BY <1>2, <1>3, OperatorSteps

\* No wakeup is lost in the whole operator either: a crash takes the webhook's
\* calls and the reconciler's queue at once, and the new process lists what is
\* left to do.
THEOREM OperatorLosesNoWork == OperatorSpec => []NoLostWork
  <1>1. OperatorInit => WakeupInv
    BY WakeupInit DEF OperatorInit
  <1>2. OperatorInv /\ WakeupInv /\ [OperatorNext]_opVars => WakeupInv'
    BY WakeupUnderOperator
  <1>3. WakeupInv => NoLostWork
    BY DEF WakeupInv
  <1>4. QED
    BY <1>1, <1>2, <1>3, OperatorInvKept, PTL DEF OperatorSpec

\* With the webhook beside it and pods being admitted at any time, the operator
\* changes the resources of users only as Lifecycle allows: Handle reads them and
\* never writes one.
THEOREM OperatorImplementsLifecycle == OperatorSpec => ImplementsLifecycle
  <1>1. OperatorInit => L!Init
    BY LifecycleInit DEF OperatorInit
  <1>2. OperatorInv /\ [OperatorNext]_opVars => [L!Next]_(L!vars)
    <2> SUFFICES ASSUME OperatorInv, [OperatorNext]_opVars
                 PROVE  L!Next \/ UNCHANGED L!vars
      OBVIOUS
    <2>1. TypeOK /\ VersionInv /\ StatusInv
      BY DEF OperatorInv, ReconcilerInv
    <2>2. CASE Webhook
      <3>1. api' = api
        BY <2>1, <2>2, WebhookLeaves DEF clusterVars
      <3>2. QED
        BY <3>1 DEF L!vars
    <2>3. CASE [Next]_vars
      BY <2>1, <2>3, LifecycleStep
    <2>4. QED
      BY <2>2, <2>3, OperatorSteps
  <1>3. QED
    BY <1>1, <1>2, OperatorInvKept, PTL DEF OperatorSpec, ImplementsLifecycle, L!Spec

\* What the reconciler reports in the status stays true while pods are being
\* admitted: generations are not claimed ahead, a workload reported for the
\* current generation is one the spec selects, and FinishedReconcile is backed.
THEOREM OperatorReportsSoundly ==
  OperatorSpec => [](ObservedGenerationSound /\ WorkloadStatusMatchesSpec /\ ReasonBacked)
  <1>1. OperatorInv => ObservedGenerationSound
    BY DEF OperatorInv, ReconcilerInv, VersionInv, VersionsPrecede, GenerationsSound,
           ObservedGenerationSound
  <1>2. OperatorInv => WorkloadStatusMatchesSpec
    BY SelectedIsStored DEF OperatorInv, ReconcilerInv
  <1>3. OperatorInv => ReasonBacked
    BY DEF OperatorInv, ReconcilerInv, StatusInv, KeyStatus, ReasonHolds, Reports,
           ReasonBacked
  <1>4. QED
    BY <1>1, <1>2, <1>3, OperatorInvKept, PTL

\* Whatever the webhook does beside it, no step of the worker undoes what users
\* did to a resource.
THEOREM OperatorKeepsIntent == OperatorSpec => UserIntentPreserved
  <1>1. OperatorInv /\ [OperatorNext]_opVars => (pc' # pc => \A k \in Keys : IntentKept(k))
    <2> SUFFICES ASSUME OperatorInv, [OperatorNext]_opVars, pc' # pc, NEW k \in Keys
                 PROVE  IntentKept(k)
      OBVIOUS
    <2>1. TypeOK /\ ReadInv
      BY DEF OperatorInv, ReconcilerInv, VersionInv, ReadInv
    <2>2. CASE Webhook
      BY <2>1, <2>2, WebhookLeaves DEF workerVars
    <2>3. CASE [Next]_vars
      BY <2>1, <2>3, IntentStep
    <2>4. QED
      BY <2>2, <2>3, OperatorSteps
  <1>2. QED
    BY <1>1, OperatorInvKept, PTL DEF OperatorSpec, UserIntentPreserved, IntentKept

=============================================================================
