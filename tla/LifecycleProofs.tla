-------------------------- MODULE LifecycleProofs --------------------------
(***************************************************************************)
(* The proof that the reconciler implements Lifecycle: every write of one  *)
(* of the five kinds is a step of the abstract specification, and nothing  *)
(* else the reconciler, the informer or a fault does is visible in it.     *)
(***************************************************************************)
EXTENDS StatusProofs, ReconcilerRefinement

\* The abstract variables.
Phase == [k \in Keys |-> PhaseOf(api[k])]
Generation == [k \in Keys |-> api[k].gen]
Observed == [k \in Keys |-> api[k].cond.gen]

\* The phase of an object, spelled out.
LEMMA PhaseIs ==
  ASSUME NEW o \in Objects
  PROVE  /\ ~o.exists => PhaseOf(o) = "absent"
         /\ o.exists /\ o.del /\ o.fin => PhaseOf(o) = "deleting"
         /\ o.exists /\ o.del /\ ~o.fin => PhaseOf(o) = "released"
         /\ o.exists /\ ~o.del /\ o.fin => PhaseOf(o) = "managed"
         /\ o.exists /\ ~o.del /\ ~o.fin => PhaseOf(o) = "pending"
  BY DEF PhaseOf

\* A write to k changes the abstract state of k only.
LEMMA MapsToOneKey ==
  ASSUME TypeOK, NEW k \in Keys, NEW o \in Objects, Write(k, o)
  PROVE  /\ Phase' = [Phase EXCEPT ![k] = PhaseOf(o)]
         /\ Generation' = [Generation EXCEPT ![k] = o.gen]
         /\ Observed' = [Observed EXCEPT ![k] = o.cond.gen]
         /\ Phase[k] = PhaseOf(api[k])
         /\ Generation[k] = api[k].gen
         /\ Observed[k] = api[k].cond.gen
  <1>1. api \in [Keys -> Objects]
    BY DEF TypeOK, ClusterTypeOK
  <1>2. \A h \in Keys : api'[h] = IF h = k THEN o ELSE api[h]
    BY <1>1 DEF Write, Store
  <1>3. QED
    BY <1>2 DEF Phase, Generation, Observed

\* What does not change the abstract state of k changes nothing of it.
LEMMA MapsToSame ==
  ASSUME NEW k \in Keys
  PROVE  /\ [Phase EXCEPT ![k] = Phase[k]] = Phase
         /\ [Generation EXCEPT ![k] = Generation[k]] = Generation
         /\ [Observed EXCEPT ![k] = Observed[k]] = Observed
  BY DEF Phase, Generation, Observed

\* The abstract actions in terms of the abstract variables.
LEMMA AbstractNext ==
  ASSUME NEW k \in Keys,
         \/ L!Create(k) \/ L!Edit(k) \/ L!Delete(k) \/ L!Adopt(k)
         \/ L!Report(k) \/ L!Release(k) \/ L!OthersRelease(k)
  PROVE  L!Next
  BY DEF L!Next

\* A created resource is pending.
LEMMA BornMaps ==
  ASSUME TypeOK, StatusInv, NEW k \in Keys, NEW o \in Objects, Write(k, o), Born(api[k], o)
  PROVE  L!Create(k)
  <1>1. api[k] \in Objects
    BY DEF TypeOK, ClusterTypeOK
  <1>2. PhaseOf(api[k]) = "absent" /\ PhaseOf(o) = "pending" /\ o.gen = 1
    BY <1>1, PhaseIs DEF Born
  <1>3. o.cond.gen = 0 /\ api[k].cond.gen = 0
    BY DEF Born, NoCondition, StatusInv, KeyStatus
  <1>4. /\ Phase[k] = "absent" /\ Phase' = [Phase EXCEPT ![k] = "pending"]
        /\ Generation' = [Generation EXCEPT ![k] = 1]
        /\ Observed' = Observed
    BY <1>2, <1>3, MapsToOneKey, MapsToSame
  <1>5. QED
    BY <1>4 DEF L!Create, L!Move, Phase, Generation, Observed

\* An edited resource keeps its phase, a marked one is deleted.
LEMMA RespecifiedMaps ==
  ASSUME TypeOK, NEW k \in Keys, NEW o \in Objects, Write(k, o), Respecified(api[k], o)
  PROVE  L!Edit(k) \/ L!Delete(k)
  <1>1. api[k] \in Objects /\ api[k].del \in BOOLEAN /\ o.del \in BOOLEAN
    BY DEF TypeOK, ClusterTypeOK, Objects
  <1>2. /\ api[k].exists /\ o.exists /\ o.gen = api[k].gen + 1 /\ o.fin = api[k].fin
        /\ o.cond.gen = api[k].cond.gen /\ (api[k].del => o.del)
    BY DEF Respecified
  <1>3. /\ Generation' = [Generation EXCEPT ![k] = Generation[k] + 1]
        /\ Observed' = Observed
        /\ Phase' = [Phase EXCEPT ![k] = PhaseOf(o)]
        /\ Phase[k] = PhaseOf(api[k])
    BY <1>2, MapsToOneKey, MapsToSame
  <1>4. CASE o.del = api[k].del
    <2>1. Phase[k] = PhaseOf(o) /\ Phase[k] # "absent"
      BY <1>1, <1>2, <1>3, <1>4, PhaseIs
    <2>2. Phase' = Phase
      BY <1>3, <2>1, MapsToSame
    <2>3. QED
      BY <1>3, <2>1, <2>2 DEF L!Edit, Phase, Generation, Observed
  <1>5. CASE o.del # api[k].del
    <2>1. \/ Phase[k] = "managed" /\ PhaseOf(o) = "deleting"
          \/ Phase[k] = "pending" /\ PhaseOf(o) = "released"
      BY <1>1, <1>2, <1>3, <1>5, PhaseIs
    <2>2. QED
      BY <1>3, <2>1 DEF L!Delete, L!Move, Phase, Generation, Observed
  <1>6. QED
    BY <1>4, <1>5

\* The operator adopts live resources and releases deleted ones; the finalizers
\* of others are not seen.
LEMMA RefinalizedMaps ==
  ASSUME TypeOK, NEW k \in Keys, NEW o \in Objects, Write(k, o), Refinalized(api[k], o)
  PROVE  L!Adopt(k) \/ L!Release(k) \/ UNCHANGED L!vars
  <1>1. /\ api[k] \in Objects /\ api[k].del \in BOOLEAN /\ o.fin \in BOOLEAN
        /\ api[k].fin \in BOOLEAN
    BY DEF TypeOK, ClusterTypeOK, Objects
  <1>2. /\ api[k].exists /\ o.exists /\ o.gen = api[k].gen /\ o.del = api[k].del
        /\ o.cond.gen = api[k].cond.gen
        /\ o.fin # api[k].fin => (o.fin <=> ~api[k].del)
    BY DEF Refinalized
  <1>3. /\ Generation' = Generation /\ Observed' = Observed
        /\ Phase' = [Phase EXCEPT ![k] = PhaseOf(o)]
        /\ Phase[k] = PhaseOf(api[k])
    BY <1>2, MapsToOneKey, MapsToSame
  <1>4. CASE o.fin = api[k].fin
    <2>1. Phase[k] = PhaseOf(o)
      BY <1>1, <1>2, <1>3, <1>4, PhaseIs
    <2>2. Phase' = Phase
      BY <1>3, <2>1, MapsToSame
    <2>3. QED
      BY <1>3, <2>2 DEF L!vars, Phase, Generation, Observed
  <1>5. CASE o.fin # api[k].fin
    <2>1. \/ Phase[k] = "pending" /\ PhaseOf(o) = "managed"
          \/ Phase[k] = "deleting" /\ PhaseOf(o) = "released"
      BY <1>1, <1>2, <1>3, <1>5, PhaseIs
    <2>2. QED
      BY <1>3, <2>1 DEF L!Adopt, L!Release, L!Move, Phase, Generation, Observed
  <1>6. QED
    BY <1>4, <1>5

\* A resource vanishes when nobody adopted it, or it was deleted.
LEMMA VanishedMaps ==
  ASSUME TypeOK, NEW k \in Keys, NEW o \in Objects, Write(k, o), Vanished(api[k], o)
  PROVE  L!Delete(k) \/ L!Release(k) \/ L!OthersRelease(k)
  <1>1. api[k] \in Objects /\ api[k].del \in BOOLEAN /\ api[k].fin \in BOOLEAN
    BY DEF TypeOK, ClusterTypeOK, Objects
  <1>2. api[k].exists /\ (api[k].fin => api[k].del) /\ ~o.exists /\ o.gen = 0
    BY DEF Vanished
  <1>3. o.cond.gen = 0
    BY DEF Vanished, NoCondition
  <1>4. /\ Phase' = [Phase EXCEPT ![k] = "absent"]
        /\ Generation' = [Generation EXCEPT ![k] = 0]
        /\ Observed' = [Observed EXCEPT ![k] = 0]
        /\ Phase[k] = PhaseOf(api[k])
    BY <1>2, <1>3, MapsToOneKey, PhaseIs
  <1>5. Phase[k] \in {"pending", "deleting", "released"}
    BY <1>1, <1>2, <1>4, PhaseIs
  <1>6. QED
    BY <1>4, <1>5
       DEF L!Delete, L!Release, L!OthersRelease, L!Vanish, L!Move,
           Phase, Generation, Observed

\* A patch reports on an adopted resource, no less than was reported before and
\* no more than its generation.
LEMMA PatchedMaps ==
  ASSUME TypeOK, VersionInv, StatusInv, [Next]_vars, NEW k \in Keys, k = req,
         NEW o \in Objects, Write(k, o), Patched(api[k], o)
  PROVE  L!Report(k)
  <1> DEFINE a == api[k]
  <1>1. a \in Objects /\ a.del \in BOOLEAN
    BY DEF TypeOK, ClusterTypeOK, Objects
  <1>2. /\ pc = "patchStatus" /\ a.exists /\ o.exists /\ o.uid = a.uid /\ o.gen = a.gen
        /\ o.del = a.del /\ o.fin = a.fin
    BY DEF Patched
  <1>3. a.fin
    BY <1>2 DEF VersionInv, HeldResource, HeldPrecedes, Precedes, Holding
  <1>4. a.cond.gen <= o.cond.gen
    <2>1. Older(a, o)
      BY PatchedIsSound
    <2>2. QED
      BY <1>2, <2>1 DEF Older
  <1>5. o.cond.gen <= a.gen
    <2>1. api'[k] = o
      BY WriteVersions
    <2>2. VersionsPrecede'
      BY VersionStep DEF VersionInv
    <2>3. GenerationsSound(o)
      BY <1>2, <2>1, <2>2 DEF VersionsPrecede
    <2>4. QED
      BY <1>2, <2>3 DEF GenerationsSound
  <1>6. /\ Phase' = [Phase EXCEPT ![k] = PhaseOf(o)] /\ Phase[k] = PhaseOf(a)
        /\ Generation' = Generation /\ Generation[k] = a.gen
        /\ Observed' = [Observed EXCEPT ![k] = o.cond.gen] /\ Observed[k] = a.cond.gen
    BY <1>2, MapsToOneKey, MapsToSame
  <1>7. Phase[k] = PhaseOf(o) /\ Phase[k] \in {"managed", "deleting"}
    BY <1>1, <1>2, <1>3, <1>6, PhaseIs
  <1>8. Phase' = Phase
    BY <1>6, <1>7, MapsToSame
  <1>9. o.cond.gen \in Observed[k]..Generation[k]
    <2>1. a.cond.gen \in Nat /\ o.cond.gen \in Nat /\ a.gen \in Nat
      BY <1>1, Numbers
    <2>2. QED
      BY <1>4, <1>5, <1>6, <2>1
  <1>10. QED
    BY <1>6, <1>7, <1>8, <1>9 DEF L!Report, Phase, Generation, Observed

\* Nothing is stored at first.
LEMMA LifecycleInit ==
  ASSUME Init
  PROVE  L!Init
  <1>1. PhaseOf(NoObject) = "absent" /\ NoObject.gen = 0 /\ NoObject.cond.gen = 0
    BY DEF PhaseOf, NoObject, NoCondition
  <1>2. QED
    BY <1>1 DEF Init, ClusterInit, L!Init

\* Every step is one of Lifecycle or invisible in it.
LEMMA LifecycleStep ==
  ASSUME TypeOK, VersionInv, StatusInv, [Next]_vars
  PROVE  L!Next \/ UNCHANGED L!vars
  <1>1. ASSUME api' = api
        PROVE  UNCHANGED L!vars
    BY <1>1 DEF L!vars
  <1>2. ASSUME NEW k \in Keys, NEW o \in Objects, Write(k, o)
        PROVE  L!Next \/ UNCHANGED L!vars
    <2>1. CASE Born(api[k], o)
      BY <1>2, <2>1, BornMaps, AbstractNext
    <2>2. CASE Respecified(api[k], o)
      BY <1>2, <2>2, RespecifiedMaps, AbstractNext
    <2>3. CASE Refinalized(api[k], o)
      BY <1>2, <2>3, RefinalizedMaps, AbstractNext
    <2>4. CASE Vanished(api[k], o)
      BY <1>2, <2>4, VanishedMaps, AbstractNext
    <2>5. CASE k = req /\ Patched(api[k], o)
      BY <1>2, <2>5, PatchedMaps, AbstractNext
    <2>6. QED
      BY <1>2, <2>1, <2>2, <2>3, <2>4, <2>5 DEF Write
  <1>3. ReadInv
    BY DEF ReadInv, VersionInv
  <1>4. QED
    BY <1>1, <1>2, <1>3, WriteKinds
       DEF ApiUntouched, InformerMove, NextEvent, ListAgain, ListAll

\* Every behaviour of the reconciler is one of Lifecycle: a resource is adopted
\* before anything is reported on it, an adopted one vanishes only after its
\* deletion and by the operator's own release, a report never overtakes the
\* spec and never goes back while the resource lives, with a stale cache, lost
\* responses, retries and restarts.
THEOREM ReconcilerImplementsLifecycle == Spec => ImplementsLifecycle
  <1>1. Init => L!Init
    BY LifecycleInit
  <1>2. TypeOK /\ VersionInv /\ StatusInv /\ [Next]_vars => [L!Next]_(L!vars)
    BY LifecycleStep
  <1>3. QED
    BY <1>1, <1>2, StatusKept, PTL DEF Spec, ImplementsLifecycle, L!Spec

=============================================================================
