# Verification of the Cloud SQL Proxy Operator

TLA+ models of the operator's own logic, TLC runs that check them on small
instances, and TLAPS proofs of all their safety properties for every instance:
of the reconciler, of the admission webhook beside it, of the configuration of
pods and of the names of containers. `PROJECT.json` lists components, runs,
mutants, the map from definitions to source lines, findings, hazards and
theorems.

## 1. The system and its parts

The operator watches `AuthProxyWorkload` resources. Each one selects workloads
(Deployments, Pods, ...) and describes the Cloud SQL proxy their pods need. Two
parts run in one process and share a cached client:

- the **reconciler** (`internal/controller/authproxyworkload_controller.go`)
  gives every resource a finalizer, lists the workloads it selects, writes the
  status (condition `UpToDate`, one `WorkloadStatus` per workload) and removes
  the finalizer when the resource is deleted;
- the **pod admission webhook** (`internal/controller/pod_controller.go`) is
  called for every new pod, finds the resources that select the pod or one of
  its owners, and has the **Updater** (`internal/workload/podspec_updates.go`)
  add one proxy container per resource.

| Component | State | Operations | Interacts with | Hard behaviour | Correct when |
|---|---|---|---|---|---|
| Reconciler | the resource read, the resource in memory, the workqueue | `Reconcile`, `doDelete`, `doCreateUpdate`, `applyFinalizer`, `patchAuthProxyWorkloadStatus` | API server (Update, status Patch), informer (Get, List, events) | stale reads, conflicts, lost responses, crashes between steps, events of its own writes | no wakeup is lost; the status never runs ahead; users' changes survive; work gets done; the loop comes to rest |
| `recentlyDeletedCache` | one flag per key | `set`, `get` | `Reconcile` | memory of a previous resource of the same name; lost in a restart | a re-created resource is not ignored |
| Status helpers | conditions and workload statuses | `replaceCondition`, `replaceStatus`, `newStatus`, `updateWorkloadStatus` | reconciler, merge patch | two lists patched separately against a stale copy | what is reported is backed and belongs to its generation |
| Workload selection | none | `listWorkloads`, `loadByName`, `loadByLabelSelector`, `workloadMatches` | reconciler (list), webhook (match) | one selector interpreted by two pieces of code | both select the same workloads |
| Updater | port table, next port, environment table, errors | `ConfigureWorkload` | webhook | order of a Go map; first come, first served ports; sockets that are in no table | conflicts are reported exactly; every container can find every listener |
| Pod admission webhook | the request it handles | `Handle`, `listOwners`, `FindMatchingAuthProxyWorkloads` | cached client (List, Get), Updater | stale cache, missing owners, timeouts, crashes, a reconciler at work beside it | what the status reported is applied to later pods; what was let go is not |
| Names | none | `SafePrefixedName`, `ContainerName` | Updater | both cuts move with the length of the printed checksum | valid names, distinct as far as the checksum is |
| API type, its webhooks | the resource | `Default`, `Validate*` accept everything | API server | - | - |
| Manager setup, `main.go` | - | registration, flags, leader election | controller-runtime | one process, one cache, one death for both parts | only its consequences are modelled |
| Generated code, manifests, tests | - | - | - | - | not modelled |

## 2. Modules

| Module | Models |
|---|---|
| `WorkloadSelection` | pure: the reconciler's `listWorkloads` and the webhook's `workloadMatches` |
| `SelectionAgreement` (`MCSelectionAgreement`) | one resource and a changing set of workloads; compares the two |
| `ClusterApi` | external: API server, watch, informer cache, users, workloads, clock |
| `Reconciler` (`MCReconciler`) | the controller, its workqueue, its faults; extends `ClusterApi` |
| `Lifecycle` | abstract: what the reconciler promises about one resource |
| `ReconcilerRefinement` | the mapping from `Reconciler` to `Lifecycle` |
| `ReconcilerProofs` | theorems of `Reconciler`: types, wakeups, users' intent, observed generations |
| `StatusProofs` | theorems of `Reconciler`: what the status reports |
| `LifecycleProofs` | theorem: `Reconciler` implements `Lifecycle` |
| `SelectionProofs` | lemmas about `WorkloadSelection` |
| `SelectionAgreementProofs` | theorem of `SelectionAgreement` |
| `PodUpdate` (`MCPodUpdate`) | `Updater.ConfigureWorkload`, one call per behaviour |
| `PodUpdateProofs` | theorems of `PodUpdate` |
| `Operator` (`MCOperator`) | reconciler and pod admission webhook over the shared cache; extends `Reconciler` |
| `OperatorProofs` | theorems of `Operator`, those of the reconciler included |
| `Names` (`MCNames`) | pure: the names of the proxy containers of one pod |
| `NamesProofs` | theorems of `Names` |

### ClusterApi

`api[k]` is the stored object of key `k`, `watch[k]` the versions stored and not
yet delivered, `cache[k]` the informer's copy. Every write (`Store`) bumps `rv`
and appends to the watch. `UpdateOf` is a PUT: it needs the `resourceVersion`
that was read, replaces finalizers and spec, ignores the status, and removes a
deleted object when its last finalizer goes. `PatchOf` is the JSON merge patch
of `client.MergeFrom`: a list is in the patch only if it differs from the copy
the patch is made from, then in full, and there is no `resourceVersion`. Of the
condition's message the number of workloads is kept (`count`), so that the list
of conditions differs when only that number does. A patch
that changes nothing stores nothing. `uid` tells apart the resources that one
name had in turn. Users create (with or without somebody else's finalizer),
edit, delete, and release the other finalizer, `MaxUserOps` times; workloads come
and go.

### Reconciler

`Reconcile` is cut where it talks to the cluster; `pc` names the next call.

| Action | Code |
|---|---|
| `Deliver`, `Relist`, `Dequeue`, `Done` | `SetupWithManager` (no predicates), workqueue, return values |
| `ReconcileNotFound` | `Get` fails: ignored if recently deleted, otherwise error and requeue |
| `ReconcileDelete`, `ReconcileCreateUpdate` | the two branches; `recentlyDeleted` is set or cleared; finalizer test |
| `ListWorkloadsError` | `updateWorkloadStatus` returns an error |
| `doDelete`, `doCreateUpdate` | status in memory; next is the Update or the patch |
| `Update` | `r.Update` of `applyFinalizer` (always requeues) and of `doDelete` (requeues on error) |
| `patchStatus`, `refetch` | the two halves of `patchAuthProxyWorkloadStatus` |
| `RequestFails`, `UpdateResponseLost`, `PatchResponseLost`, `CrashRestart` | error paths and a new process, `MaxFaults` times |

Workload informers are taken to be up to date (`existing` is read directly);
their lag would only delay what `ToggleWorkload` does at any time. Retry delays
(`requeueWithDelay`, rate limits) are not modelled: a requeued key may be taken
at once or later. Labels of a workload do not change.

### Lifecycle and ReconcilerRefinement

`Lifecycle` has no cache, queue, request or failure: a resource of a key is
absent, pending, managed, deleting or released, has a generation and an observed
generation. Its actions are those of users (`Create`, `Edit`, `Delete`,
`OthersRelease`) and of the operator (`Adopt`, `Report`, `Release`). It says that
reports are made on adopted resources only, never overtake the spec and never go
back, that an adopted resource goes only after its deletion and by the operator's
release, and that every new resource of a name starts from nothing.

The mapping is read off the stored object: the phase from `exists`, the finalizer
and the deletion mark, the observed generation from the condition. Everything
else of the reconciler is a stutter. The refinement is of safety only: fairness
of the abstract actions would need ENABLED under the mapping. What must
eventually happen is stated on the reconciler itself (`WorkIsDone`).

### Operator

The webhook and the reconciler are two parts of one process that never talk to
each other; both read the informer's cache. `Handle` is cut where it reads it.

| Action | Code |
|---|---|
| `Submit` | the API server calls the webhook for a new pod (external) |
| `HandleList` | List of the AuthProxyWorkloads of the pod's namespace |
| `listOwners` | one Get per owner reference, depth first, as a worklist |
| `HandleAnswer` | `FindMatchingAuthProxyWorkloads`, `ConfigureWorkload`, the response |
| `HandleErrored` | the pod cannot be decoded, or List or Get has an error other than NotFound: the pod is denied |
| `HandleTimeout` | no answer in time: `failurePolicy: Ignore` lets the pod in as it is |
| `ProcessCrash` | both parts start again; calls in progress are never answered |
| `Controller` | every step of `Reconciler` and `ClusterApi` |

`listOwners` keeps the code's details: a kind the operator does not know is
followed but is not an owner; an owner that is not found leaves an object without
a kind among the owners (it matches nothing) and its own owners are not visited.
`existing` is what the informers know of the workloads, so a missing owner is one
that was deleted or one that has not arrived. Owner references are acyclic, as an
assumption: the code follows them without looking back. Whether
`ConfigureWorkload` accepts the matching resources is a choice here; when it does
is the subject of `PodUpdate`. One pod is enough: `Handle` keeps nothing between
calls, and the only state it shares is read-only for it.

`request[p].reported`, `request[p].released` and `letGo` are history: what the
status said, and what had been let go, when the pod was submitted. So are
`request[p].got` and `request[p].missed`, the owners that a `Get` has found and
has not found.

### Names

A string is a sequence of characters: `Letters` digits and lower case letters (36
in the code), the first `Base` of which (16) are the digits of a printed checksum,
the upper case ones, the dash and the dot. The checksum is printed without leading zeros, as
`%x` does, so its length depends on its value; the function itself is a constant,
because nothing in the code depends on which one it is. Slices are at the same
places as in the code.

### PodUpdate

The matching resources are taken in any order because
`FindMatchingAuthProxyWorkloads` returns them in the order of a Go map. `ports`,
`nextDBPort`, `envVars` and `errs` are `updateState`; `containers` becomes the
result only without errors. `hasPort` says whether the pointer `Port` of an
instance is set; the number it points to may be any, 0 and negative ones included,
because the CRD has no bounds. `None` is an empty string. A
container given in full (`authProxyContainer.container`) has ports and variables
of its own. Four kinds of sockets can meet in the pod's network namespace (`Clash`):
ports of the application and of instances, which are in the code's table
(`RecordedClash`), and ports of containers given in full and of health checks,
which are not. The ports of a pod are far fewer than 60000, so the 32-bit counters
do not overflow and the search for a free port is bounded by the size of the
table.

## 3. Runs

| Run | Expectation | Shows |
|---|---|---|
| `reconciler_safety` | pass | `TypeOK`, `NoLostWork`, `ObservedGenerationSound`, `WorkloadStatusMatchesSpec`, `ReasonBacked`, `UserIntentPreserved`, `ImplementsLifecycle` |
| `reconciler_liveness` | pass | `WorkIsDone`, `Quiesces` |
| `reconciler_unsupported` | violation | a resource with an unsupported kind can never be deleted |
| `reconciler_forgotten` | violation | a resource deleted before it got the finalizer is retried forever |
| `selection_agrees` | pass | `SelectionAgrees` |
| `selection_qualified` | violation | a qualified kind is reported and never configured |
| `pod_exact` | pass | `TypeOK`, `PortConflictExact`, `EnvConflictExact`, `EnvMatchesListeners` |
| `pod_explicit` | violation | an explicit port may be a port of a proxy container given in full, or a health check port |
| `pod_chosen` | violation | a chosen port is taken by a later explicit request, or given away again when its resource repeats the connection string |
| `operator_promises` | pass | `ReportedIsConfigured`, `ReleasedIsNotConfigured`, `OwnersExact` |
| `operator_uptodate` | violation | `UpToDate` is reported for a workload whose running pod has no proxy |
| `names_unique` | pass | `ContainerNameValid`, `UniqueUpToChecksum` |

The violations are disagreements between a comment, the API documentation or the
CRD and the code; `findings` quotes the sentences. `ExplicitPortChecked` and
`ChosenPortKept` each fail for two reasons in different lines of the code; TLC
stops at the first. The other reason is the one left with `ContainerChoices <- Built`
(the health check), and with `pc = "ok"` in place of `Returns` (the repeated
connection string: the pod is accepted). More were met and have no run
of their own, because one look at the model shows them:

- every reconcile gives `WorkloadUpToDate` a new `lastTransitionTime`
  (`newStatus` starts from nothing);
- `replaceStatus` never removes the entry of a workload that no longer matches;
- two instances of one resource with the same connection string and no port get
  one port (`managedPorts`); `PortConflictExact` does not ask for an error then,
  and `ChosenPortKept` is about what follows from it for other resources;
- a pod that already has its proxy container gets another of the same name
  (`finish` keeps the submitted containers);
- a dot is legal in the name of a resource and stays in the container's name,
  where it is not; a short name may be equal to a shortened one
  (`ContainerNameValid` and `UniqueUpToChecksum` leave these cases out);
- `maxSigtermDelay` is documented to adjust `terminationGracePeriodSeconds`
  (`authproxyworkload_types.go`, lines 126-128); no code does.

**Bounds.** `reconciler_safety`: one key, a selector by name, one by label and
one of an unsupported kind, two deployments, four user actions and one fault.
Four actions are enough for create, delete, re-create and edit around one
reconcile; keys interact only through the queue, so one is enough for the safety
properties, each of which is about one key. `reconciler_liveness`: supported
selectors only (an unsupported one is `reconciler_unsupported`), three user
actions, one fault, one tick. `pod_exact`: two
resources with up to two instances each out of ten specifications, a container
given in full or built, a pod with and without a stale proxy container, both
orders, so that repeated connection strings, the first two ports the operator
chooses, an explicit port 0, the ports of a given container and equal variable
names all meet. The health check port is in the runs about ports alone
(`pod_explicit`, `pod_chosen`), where there are no variables.
`operator_promises`: one resource that selects by name or by label, one pod owned
through a kind the operator does not know by a Deployment, three user actions
and one fault; that is enough to report, edit or delete and re-create a resource
while the pod is being admitted, and for the owner to come and go between the
reads. `names_unique`: a limit of 10, a prefix of 2 characters, a binary
checksum of one to three digits (63, 5 and one to eight hexadecimal digits in the
code); all pairs of about 490 names on both sides of the limit, so that the
cuts fall at different places, at a dash as well.
`selection_*`: workloads and selectors that differ in each field the code looks
at.

`CHECK_DEADLOCK FALSE` in the reconciler and operator runs: when the users are
done, the queue is empty and the pods are answered, the operator rightly waits.

**What the operator runs show.** The status is a promise to pods created later,
and it is kept although the webhook's copy lags the API server: the reconciler
reports from the same cache, so whatever it has reported the webhook has seen.
A reconciler that read from the API server itself would break the promise (that
is the mutant). In the same way a released resource is not applied any more,
because its deletion mark reached the cache before the finalizer went. The limits
of the promise are in the properties: it is for pods submitted after the report,
for an answered call, for an owner that was found or a search that missed none,
and only for a resource that carried the finalizer. `OwnersExact` is about that
search: `listOwners` walks a graph one `Get` at a time while workloads come and
go, and what it ends with is what a closure defines (`Reachable`), cut off behind
the owners that were missed. `operator_uptodate` shows that pods that already run are
not covered, whatever the documentation of the condition says.

**Fairness.** `WF(Worker)`: the goroutine runs on and its requests return.
`WF(Deliver(k))`: watch events arrive. `SF(Dequeue(k))`: the workqueue is a
FIFO, so a key that is queued again and again is taken. Nothing is assumed of
users, faults, relists, the clock or the webhook. In `Quiesces` the clock stops after
`MaxTime`: because every reconcile rewrites the workload conditions with the
current time, a second that passes between each write
and its event would keep the loop alive. Resyncs of the informer, which deliver
unchanged objects again after hours, are left out: each one wakes the controller,
which writes the new time and comes to rest again.

**Mutants.** Every property of a passing run has a mutated definition beside the
original (`Done_Forgets`, `Update_Unconditional`, ...) that breaks it.

## 4. Proofs

Every theorem is for every value of the constants: any sets of keys, selectors,
workloads, pods and resources, any bound on user actions, faults and instances.

| Module | Theorem | States |
|---|---|---|
| `ReconcilerProofs` | `TypeCorrect` | `Spec => []TypeOK` |
| | `NoWakeupLost` | `Spec => []NoLostWork` |
| | `UserIntentKept` | `Spec => UserIntentPreserved` |
| | `GenerationsObserved` | `Spec => []ObservedGenerationSound` |
| `StatusProofs` | `StatusMatchesSpec` | `Spec => []WorkloadStatusMatchesSpec` |
| | `FinishedIsBacked` | `Spec => []ReasonBacked` |
| `LifecycleProofs` | `ReconcilerImplementsLifecycle` | `Spec => ImplementsLifecycle` |
| `OperatorProofs` | `LetGoIsNotConfigured` | `OperatorSpec => ReleasedIsNotConfigured` |
| | `StatusIsAPromise` | `OperatorSpec => ReportedIsConfigured`, given `PlainSelectors` |
| | `OwnersAreExact` | `OperatorSpec => OwnersExact` |
| | `OperatorLosesNoWork` | `OperatorSpec => []NoLostWork` |
| | `OperatorKeepsIntent` | `OperatorSpec => UserIntentPreserved` |
| | `OperatorReportsSoundly` | `OperatorSpec => [](ObservedGenerationSound /\ WorkloadStatusMatchesSpec /\ ReasonBacked)` |
| | `OperatorImplementsLifecycle` | `OperatorSpec => ImplementsLifecycle` |
| `SelectionAgreementProofs` | `ReportedAreConfigured` | `Spec => []SelectionAgrees` |
| `PodUpdateProofs` | `UpdateTypeCorrect` | `Spec => []TypeOK` |
| | `PortConflictsExact` | `Spec => []PortConflictExact` |
| | `EnvConflictsExact` | `Spec => []EnvConflictExact` |
| | `ListenersAreFound` | `Spec => []EnvMatchesListeners` |
| `NamesProofs` | `ContainerNamesAreValid` | `Spec => []ContainerNameValid` |
| | `NamesAreUniqueUpToChecksum` | `Spec => []UniqueUpToChecksum` |

`SelectionProofs` has the lemmas about `listWorkloads` and `workloadMatches` that
the reconciler, the status, the operator and the agreement proofs share. `StatusProofs` extends
`ReconcilerProofs`, `LifecycleProofs` extends `StatusProofs`, and `OperatorProofs`
extends `LifecycleProofs`.

**Assumptions.** All are named ASSUMEs that TLC evaluates on the runs' instances:

- some key and some selector exist, selectors have the fields of
  `WorkloadSelectorSpec`, bounds are natural numbers (`ClusterApi`, `Reconciler`);
- workloads are of the kinds the operator knows (`SelectionAgreement`); owners
  are in the namespace of what they own and there is no cycle of owner
  references (`Operator`), the former being a rule of Kubernetes, the latter what
  `listOwners` relies on;
- the webhook calls `ConfigureWorkload` with at least one resource, a pod has
  finitely many ports, which are integers, and no resource has the empty name
  (`PodUpdate`);
- the prefix starts with a letter or digit, namespaces and names of resources are
  what Kubernetes accepts, the checksum is a natural number printed in base 2 or
  more with digits that are among the letters, and prefix and printed checksum fit into the limit, as 5 and 9 of 63
  characters do in the code (`Names`).

`StatusIsAPromise` has the hypothesis `PlainSelectors`: kinds are not qualified,
and a selector gives a name or labels, not both, as the API documents. Without it
the theorem is false, which is the finding of `selection_qualified`; the selectors
of the `operator_promises` run satisfy it.

**NoLostWork** is not inductive: that a return without requeue is harmless depends
on what the worker read. `WakeupInv` adds

- `WatchOrdered`: the watch is exactly the gap between cache and API server, in
  increasing resourceVersion, so an empty watch means the cache is current;
- `HeldResource`: what `Reconcile` knows of its resource at each step;
- `HeldIsCached`: the worker holds the cached version, or the event that
  replaced it has queued the key again;
- `PatchedIsDone`: after the patch the resource is up to date, or an event is
  on its way.

Then each silent return is safe: if the resource needs work after it, the
version the worker held was stale, and the event of the newer version is either
undelivered or has queued the key.

**UserIntentPreserved** uses `HeldIsOld` (the worker never holds a version newer
than the cache). With `WatchOrdered` it gives `AcceptedIsStored`: an Update that
passes the resourceVersion test was computed from exactly the stored object, so
the spec, deletion mark and foreign finalizers it sends are the stored ones.

**ObservedGenerationSound** needs `VersionInv`. The status patch is unconditional,
so the argument is about identity: `Precedes` says that as long as anyone (cache,
watch or worker) has a version with the finalizer and without deletion mark, the
resource of that identity is still stored with its finalizer, and its generation
has only grown. The reconciler patches only such resources, hence never one that
was re-created in between. Removing the finalizer is the only write that could
break this, and `AcceptedIsStored` shows that at that moment no such version is
left anywhere.

**WorkloadStatusMatchesSpec and ReasonBacked** are about what a merge patch from
a stale copy leaves in the stored object. `StatusInv` relates all the versions
that are around (`Versions(k)`: the cached one and the undelivered ones) to each
other, to the stored one and to the one the worker holds:

- `Older`: identities, generations and observed generations grow along the
  versions, and one generation has one spec;
- `Bounded`: no version reports a generation that the cached one has not reached,
  because whoever wrote the report had read the cache;
- `Selected`: a workload that any version reports for the generation of any
  other is one that the other's spec selects;
- `Backed`: what an older version reports for its own generation the stored one
  still reports. This is what the patch needs that carries a new condition and no
  `WorkloadStatus`, because that list is equal to the stale copy's;
- `PatchStatusReady`: what is in the patch when it is about to be sent.

Every write to the cluster is one of a few kinds (`Born`, `Respecified`,
`Refinalized`, `Vanished`, `Patched`), so that each conjunct is proved once per
kind and not once per action.

**ImplementsLifecycle** follows the same kinds: each is a step of `Lifecycle` on
one key, everything else leaves the mapped variables alone. That a report never
goes back is `Older` between the stored version and the patched one, which holds
because the stored report is not ahead of the copy held (`Bounded`). That it is
made on an adopted resource only is `Precedes`.

**The promises of Operator** need `OperatorInv`: the invariants above, which no
step of the webhook can disturb, and for each pod's request that what was reported
when it was submitted is covered by the cache until the list, and by the copy
that was listed after it (`Covers`: a later resource, a later version, or the
version that selects the workload); and that every version still around of a
resource that was let go is marked as deleted (`ReleasedIsDeleted`). `Bounded` is
what starts the first; `Write` starts the second: the finalizer goes only when
the operator has seen everything (`AcceptedIsStored`).

**OwnersExact** needs `OwnersFound`: what was found, what was missed and what is
still to be looked up are owners of the pod, and every reference of the pod or of
an owner found is among them. When nothing is left to be looked up, found and
missed together are a set that no reference of a found object leads out of, and
`Reachable` is the least such set. `StatusIsAPromise` uses this: when nothing was
missed, the reported workload is among the owners, because `listWorkloads` reports
only kinds that `WorkloadForKind` knows (`ListedIsKnown`).

**The reconciler inside the operator.** Every step of `Operator` is one of
`Reconciler` or a step of the webhook (`OperatorSteps`), and the latter changes
nothing that the reconciler reads but the budget of faults (`WebhookLeaves`). So
the step lemmas behind the theorems of `Reconciler` carry over: no wakeup is
lost, users' changes survive, the status is sound and `Lifecycle` is implemented
with any number of pods being admitted at the same time.

**SelectionAgrees** needs only the types: it is a statement about two operators,
and the proof goes through the cases of the code (unsupported kind, empty name,
a selector that does not parse).

**PodUpdate.** `UpdateInv` strengthens the four properties by what the tables
mean: every instance done has one listener and the others have none
(`ListenersInv`); a variable in the table has a value that some listener asks for,
and while nothing is reported all of them ask for it (`EnvInv`). `PortInv` says of the port table: the application's ports are in it
(`PodPortsAreTaken`); its other entries are those of listeners (`EntriesAreKnown`);
while nothing is reported a listener's port is in it, unless its connection string
is repeated (`ListenersAreTaken`); a clash of recorded ports is blamed (`ClashesAreBlamed`),
and what is blamed clashes (`BlamedClash`). The last needs no condition: an entry
that was moved belonged to a listener, and the listener stays. `EnvInv` is why
comparing with the last value only is enough: once a conflict is reported nothing
more has to be known. That `FirstFree` finds a port in the interval it searches is
a counting argument (`SomePortIsFree`): the interval has more ports than the
table.

**Names.** The properties are state predicates, and the invariant they need is
only that the names are legal; the work is in the operators. `Printed`, the
checksum as `%x` prints it, is a recursive function, so three facts come first,
each by the least number for which it would fail: it satisfies its equation
(`PrintedIs`), it yields digits (`PrintedType`), and it is injective
(`PrintedInjective`). `Cuts` shows that the two slices of `SafePrefixedName` lie
inside the name for every length of the printed checksum, and `LongName` what a
shortened name looks like. Because digits contain no dash, the last dash of a
shortened name is the one in front of the checksum (`SameDigits`); hence equal
names have equal checksums, although the cuts may have been at different places.

All inductive invariants (`WakeupInv`, `VersionInv`, `StatusInv`, `OperatorInv`,
`OwnersFound`, `UpdateInv`) were checked with TLC on the runs' instances before they were proved.

**Only model-checked.** Liveness (`WorkIsDone`, `Quiesces`), which needs fairness
and ENABLED. Every other property of a passing run is a theorem. The six expected violations are counterexamples, which a run shows and nothing needs
to be proved about.

## 5. Not modelled

- Several replicas: the deployment has one, with `--leader-elect`. During a
  rollout two processes have caches of their own, and the webhook of one may lag
  the reconciler of the other; the promises of `Operator` are for one process.
- Writes of a crashed process that reach the API server after the new process
  has started.
- Errors of a cached `Get` of the resource other than NotFound.
- `lastTransitionTime` below one second; the wording of condition messages;
  resyncs of the informer.
- `matchExpressions` of label selectors; changing labels of a workload; cycles of
  owner references.
- The flags, image and resources of `applyContainerSpec` and `mods.DBInstances`,
  which nothing reads; `VolumeName`, which only tests call.
- `Default`, `ValidateCreate`, `ValidateUpdate`, `ValidateDelete` of the
  resource's webhook, which accept everything and change nothing.
- Generated code, manifests (but for the failure policy and timeout of the pod
  webhook), installer, tests.

## 6. Plan

All safety properties of the runs are proved. What is left is a wider model: two
processes with caches of their own, if the rollout of a new version is to be
covered. There `ReportedIsConfigured` would fail, since its proof rests on the
reconciler and the webhook reading one cache; the question is what still holds.
