# A TLA+ verification of provider-dip

provider-dip is a Crossplane provider: seventeen Kubernetes custom resource kinds
(IAM, MDM and Provisioning) and, for each, a controller that keeps one object at
the DIP services in the state the resource asks for. This directory holds TLA+
models of it, the TLC configurations that check them, and proofs that TLAPS
checks.

    tlc -config Races.cfg MCManagedResource.tla          # Faults, Drift, ...
    tlc -config References.cfg MCReferenceChain.tla      # StaleReference
    tlc -config ProviderConfig.cfg MCConnection.tla
    tlapm ManagedResourceProofs.tla                      # and the other *Proofs

## Inventory of the system

| Part | State it keeps | Operations | What makes it correct |
|---|---|---|---|
| Managed resource lifecycle: `internal/controller/*/*.go` on crossplane-runtime's managed reconciler | external name and create annotations, finalizer, spec on the resource; objects in DIP; the connection secret | `Connect`, `Observe`, `Create`, `Update`, `Delete` and the reconciler's writes around them | no object without its resource, no second object, calls hit the named object, deletion ends, differences heal, the key is delivered |
| The seventeen kinds: `isUpToDate`, request building, `Delete`, connection details | none | same, with different parameters | what is declared is compared, sent and deleted |
| API types: `apis/*/v1alpha1/*_types.go` | the resource | validation (CEL rules, required fields) | frozen parameters never change |
| Reference resolvers: `zz_generated.resolvers.go` | the resolved GUID in the parameters | `ResolveReferences` before `Connect` | what is resolved is a GUID of DIP; a chain resolves, and is deleted, in any order |
| Connector and `internal/clients/dip` | none between reconciles | `Connect`, `ConfigFromSecret`, `formatPrivateKey`, `NewClient` (service login, optional MDM and Provisioning clients) | region, environment and key belong together; the key keeps its text; a missing service is refused |
| ProviderConfig controller and usage tracking: `internal/controller/config`, `Track` in `Connect` | finalizer of the ProviderConfig, usages | reconcile of the ProviderConfig, `Track` | a ProviderConfig in use is not removed |
| Provider process: `cmd/provider/main.go` | none | start, flags, rate limits, poll interval, leader election (off by default) | - |
| Generated deep copies and accessors, CRDs, templates, images | none | - | not modelled |

**Interaction.** A change of the resource, a retry with back-off or the poll timer
puts the resource in a controller's work queue; one goroutine at a time reconciles
it in a process. The reconciler reads it from an informer cache, resolves
references from the caches of other kinds, connects (which records the use of the
ProviderConfig, reads it and its Secret and logs in), and calls the external
client, whose `Observe` decides between create, update, delete and nothing. Writes to
the API server carry the resourceVersion of the copy they were decided on, but for
two: the annotations written after `Create`, which are re-applied until they get
through, and the patch that puts a resolved reference into the resource. That patch
comes after the reconciler has looked for an unfinished creation, and its answer is
the copy the reconcile goes on with, so that a copy that was old becomes the newest
without being looked at again. The ProviderConfig controller watches the usages and
nothing else.

**Hard parts.** Nothing between two remote calls is atomic. The process can stop,
the reply of a create can be lost, the cached copy can be old, and since leader
election is off by default two pods reconcile side by side during a rollout.
DIP chooses the name (a GUID) of the object, so the only link from a resource to
its object is an annotation that is written after the object exists, and it is
also what other resources resolve their references into. DIP returns a Service's
private key once. Deletion in DIP is asynchronous. The ProviderConfig, its Secret
and the resources that need both are edited and deleted independently. `hazards`
in `PROJECT.json` lists each of these at its line, with the properties that cover
it or the reason why none does.

## Modules

| Module | What it models |
|---|---|
| `ManagedResource` | one resource, its reconcilers, users, operators and DIP |
| `ResourceLifecycle` | what all that promises, without reconciles: the plain life of a resource and its object |
| `LifecycleRefinement` | the refinement mapping from the one to the other (`INSTANCE ... WITH`) |
| `ReferenceChain` | several resources that refer to one another, each with its reconciler |
| `Hierarchy` | what that promises, without references and reconciles: which object is made, deleted and left for whom |
| `HierarchyRefinement` | the refinement mapping from the one to the other |
| `Connection` | resources that connect through one ProviderConfig and its Secret, the controller of the ProviderConfig, administrators, the installations of DIP |
| `KeyFormat` | `formatPrivateKey`, a pure function; `Connection` uses it |
| `DipKinds` | the seventeen kinds as data: what each compares, sends, deletes and publishes |
| `DipConnections` | the same for `Connect`, `Observe` and `ResolveReferences`: the client each kind insists on, the statuses it takes for absence, what it refers to |
| `MCManagedResource`, `MCReferenceChain`, `MCConnection` | the instances and budgets of the runs |
| `ManagedResourceProofs`, `LifecycleProofs`, `ReferenceChainProofs`, `HierarchyProofs`, `HierarchyRefinementProofs`, `ConnectionProofs`, `KeyFormatProofs` | the inductive invariants and the theorems |
| `NaturalRecursion` | induction and recursion over the natural numbers, as theorems about sets and functions |

The three models share the reconcile but look at different neighbours of it.
`ManagedResource` takes one resource apart into every remote call; `ReferenceChain`
has several resources and keeps of each reconcile the steps that carry a name from
one to the other; `Connection` has what comes before the first call and makes the
calls themselves single steps.

### ManagedResource

The resource at the API server is `cr` (existence, deletion timestamp, finalizer,
external name, the create-pending/succeeded/failed annotations as `mark`, `spec`, and
whether its reference has been resolved, `resolved`, which is kept apart from the
parameters). `cache[w]` is the informer copy of process `w`, `mem[w]` the copy its
running reconcile works on. Instead of resourceVersion counters, `synced` and
`fresh` hold the processes whose copy is the newest: a write empties both, the
answer to one's own write makes one's copy fresh, and a write from a copy that is
not fresh is a `Conflict`. `pc` is the position in the reconcile, `dip` and
`remote` are DIP's objects, `secret` says whose credentials the connection secret
holds. `lost` is a ghost: objects whose reply never arrived, that a wrong 400/404
declared absent, or that the user or operator let go of; nobody can hold the
provider to account for those.

| Code | Actions |
|---|---|
| reconciler's Get and its checks, `Connect` (service.go 89-124), with no reference to resolve or none that must be | `Begin` |
| `ResolveReferences` (zz_generated.resolvers.go 233-257) and the patch of what it assigns | `Resolve`, `Overtakes` |
| `Observe` (130-165), `IsNotFoundOrInvalidID` (util.go 31), `isUpToDate` | `ObserveUnnamed`, `Observe` with `MeansAbsent`, `UpToDate` |
| AddFinalizer | `AddFinalizer` |
| SetExternalCreatePending and its update | `Claim` |
| `Create` (179-230) | `CreateSucceeds`, `CreateFails`, `CreateReplyLost` |
| SetExternalCreateSucceeded / Failed, UpdateCriticalAnnotations | `PersistName`, `RecordFailure` |
| PublishConnection with `connectionDetails` (232-246) | `Publish` |
| `Update` (248-284) | `Update`, `CallFails` |
| `Delete` (286-305), RemoveFinalizer | `Delete`, `CallFails`, `RemoveFinalizer` |
| informer, process death | `Sync`, `Interrupt` |
| kubectl apply / delete, operator, DIP console, Secrets | `Edit`, `Remove`, `ClearPending`, `Drift`, `Vanish`, `FinishTermination`, `SecretsMissing`, `SecretsReturn` |

`service.go` is the file the skeleton is mapped to. The other sixteen controllers
have the same control flow and differ in what `DipKinds` records: the compared
parameters (`isUpToDate`), those in the create and update requests (an empty set
of updates is an `Update` that returns without a call), whether `Delete` calls
DIP, and the connection details. A parameter filled through a reference is listed
once, under the field the reference resolves into.

The reconciler of crossplane-runtime is not part of the repository; it is modelled
from the way the controllers use it (`managed.NewReconciler` with an external
connector, no initializers, management policies at their default) and marked
external in `PROJECT.json`, as are Kubernetes and DIP.

**Resolution.** A kind with a reference starts resolved, as if the user had given the
GUID, or unresolved; one whose references were resolved already does not come by
`Resolve` again until a user takes the value away or has it resolved anew (`Edit`). `Resolve`
starts from whatever copy the informer has, writes `resolved` onto the newest resource
and makes the reconcile's copy that one. If the resource stands create-pending by
then, the reconcile has gone past the check that was to stop it: the resolution
*overtakes* the creation. Such steps are counted by `budget["overtake"]`, and
`Overtaken` says that there was one. It takes two processes, since a process
reconciles a resource serially and its own creation is over before it begins
again; or a copy from before a creation that was interrupted. What is lost then is
exactly that: `CreatorsAreFew` and `StraysAreFew` say how much each overtaking costs,
`NothingStray`, `OneObject`, `TouchesOnlyNamed` and the refinement hold until the
first. For kinds without references (`MDM` Proposition, AuthenticationMethod and
OrgConfiguration) there is none.

**Abstractions.** A failing `Connect` ends the reconcile without effect, as an
interruption right after `Begin` does. A resolution that fails leaves a resource
whose reference is required idle, which is the same; where the reference is optional
`Begin` goes on without it. For liveness a required reference is resolvable in the
end; `ReferenceChain` opens that up, and `Connection` the `Connect`. A write to the API server that fails for good is an interruption too.
The grace period in which the reconciler waits for its cache after a creation is
left out: the model may go on earlier than the code, so what it shows holds with
the grace period as well. Which GUID DIP hands out makes no difference, so `NewId`
is the first free one. An operator clears `external-create-pending` only when no
creation is running; clearing it under one is outside what the annotation promises.
Secrets that parameters point at are readable or not; their contents are not
modelled. `Update` may keep or clear a parameter the request leaves out, since
DIP's behaviour differs.

### ResourceLifecycle and the refinement

`ResourceLifecycle` has a resource (new, kept, deleting, gone) and the stage of its
object (none, created, named, ending). An object is made only for a resource that
is kept, is given its name before anything else happens to it, is deleted only
when the resource is being deleted, and the resource goes only after it. People may
interfere a bounded number of times: delete the object, declare it nobody's, or
answer that it is absent. `LifecycleRefinement` maps the owned object of
`ManagedResource`, its life in DIP and the external name to the stage, and the
finalizer and the deletion timestamp to the state of the resource; reconciles,
caches, annotations and processes disappear. The mapping is checked by TLC in
`Races` and `Faults` and proved in `LifecycleProofs`. An overtaken creation counts as
interference that declares the object nobody's: from then on the refinement speaks of
the resource only, not of the objects it may have two of.

### ReferenceChain

`obj` are the resources at the API server with their reference (`ref`) and what it
was resolved into (`value`), `seen` what the informers show of them to the others,
`copy` and `phase` the running reconciles, `below` the parent each DIP object was
created under. `Manifests` are what users may write: `candidates` says what a
reference names or a selector matches, `always` which references have the policy
resolve: Always (the default is IfNotPresent), `optional` which have the policy
resolution: Optional (the default is Required), `imported` which external names were
given beforehand.

| Code | Actions |
|---|---|
| `ResolveReferences` (zz_generated.resolvers.go, fourteen kinds) | `Begin` with `NothingToResolve`, `Targets`, `Resolvable`, `Resolve`, `DoesWithout` |
| `Observe`, AddFinalizer | `Adopt` |
| AddFinalizer, SetExternalCreatePending | `Claim` |
| `Create` with the parent in its request | `CreateSucceeds`, `CreateRefused` |
| UpdateCriticalAnnotations | `PersistName` |
| `Delete`, RemoveFinalizer | `Delete`, `Finalize` |
| informers | `Sync` |
| kubectl, DIP console | `Remove`, `Recreate`, `Repoint`, `Vanish` |

The resolver itself is crossplane-runtime's. From the way it is called and from the
CRDs (`package/crds/iam.dip.m.crossplane.io_organizations.yaml` 94-112, 140-158) it keeps
a `CurrentValue` unless asked to resolve always, fails when the referenced resource
is missing or has no external name, and is not run for a resource being deleted. With
the resolution Optional such a failure is a no-op: nothing is written and the reconcile
goes on with the value it has, which is none at first, so that `Create` makes an object
below no parent (`DoesWithout`); the parameter is resolved later, the object stays where
it is. A selector that matches several resources picks any of them (the order of a
listing is not known) and stays with it, unless it selects anew in each reconcile
(Always). A StandardService has one reference for each of its service URLs; here a
resource has one. Of
DIP it is assumed that it refuses to create an object under a parent that does not
exist and may refuse to delete one that has others below it. Users import only
external names of live objects; unusable ones are a matter of `ManagedResource`.

### Hierarchy and the refinement

`Hierarchy` knows of each resource only whether it is present, leaving or absent,
its object (`name`) and all it has had (`names`), and of each object whether it
lives and what it was made under. An object is made for a resource that is there
and has no living one, below a living object of what it may point at, or below none if
it points at nothing or may do without (`Make`, `Below`); it
is deleted for the leaving resource that bears its name and no other (`Delete`); the
resource leaves after it (`Leave`); one that has nothing, or only the object it was imported
with, may go at once (`Abandon`).
Others may delete objects a bounded number of times (`Meddle`). Its `EachItsOwn`
says that every object that was made and lives is the one object of one resource
that is there.

`HierarchyRefinement` maps `ReferenceChain` to it. References, selectors, informers,
copies and phases disappear. The object of a resource is the one its external name
says, or, between the answer of `Create` and the annotation, the one just made: the
refinement holds because a resource cannot be removed, deleted from DIP or made a
second object in between. `Meddle` counts down with `budget["vanish"]`. The mapping
is checked by TLC in `References` and proved in `HierarchyRefinementProofs`.

### Connection and KeyFormat

`pc` is the ProviderConfig, `pcWork` the copy its controller is about to write,
`usages` and `usagesSeen` the ProviderConfigUsages and what the informer shows of
them. `step` and `held` say how far the reconcile of each resource is and what it
has got: what the ProviderConfig says of region and environment, and after the login
the region and environment its clients were made with and the account whose token they
use. Where the calls go (`There`) follows from the former alone, whether DIP lets them
in from the latter, and that the two fit is not presupposed but the property
`ClientsAreWhole`; `dip` says in which installation (region and environment) each object
lives. A Secret gives an account, a key and possibly region and environment.

| Code | Actions |
|---|---|
| `usage.Track` (service.go 95) | `Track` |
| Get of the ProviderConfig (103) | `GetConfig` |
| CommonCredentialExtractor, `ConfigFromSecret` (client.go 112-152), `NewClient` (51-108), the nil checks (mdm/devicegroup 124) | `Login` with `FromSecret`, `Complete`, `Configured`, `LoggedIn`, `Clients`, `Connects` |
| `Observe` and what follows | `Create`, `Delete`, `Finalize`, `Leave` with `ObservedAbsent` |
| reconciler of ProviderConfigs (config.go 32-51) | `ConfigRead`, `ConfigWrite`, `SyncUsages` |
| garbage collection of usages | `CollectUsage` |
| users and administrators | `Remove`, `CreateConfig`, `EditSpec`, `RemoveConfig`, `PutSecret`, `RemoveSecret`, `Revoke` |

The ProviderConfig and the Secret are read as they are, one step before anything is
done with them, which is the same as an informer copy that lags by the edits in
between; for the usages, where the lag decides whether a ProviderConfig may go, the
informer is modelled. The library's login is modelled by what it needs: a key it
can read (its header on a line of its own), that is the account's, at the
installation that knows it, and not revoked. A token audience and malformed JSON
are ways for it to fail. The references of the resources have the kind
`ProviderConfig`.

`KeyFormat` follows `formatPrivateKey` over sequences of characters in which header
and footer count as one each. `KeepsItsText` is its reference definition: what was
on one line is broken after every `LineWidth` characters, loses nothing, and is
not changed by formatting it again. What is joined line by line, and what is left of
a key without its line breaks, are recursive functions on an initial segment of
the natural numbers.

## Runs

`Budgets` and `Scenarios` bound every fault and every user action (here
to at most one of each in a scenario, removals excepted), `Ids` and `Guids` bound
the objects DIP can create. CHECK_DEADLOCK is off because a resource that is gone,
waits for its reference or its configuration, or stands create-pending until an
operator comes, really stops.

| Configuration | Instance | Shows |
|---|---|---|
| `Races` | 2 processes, a Service with a required reference, resolved or not, 3 GUIDs, 2 values; edit, remove, vanish, interrupt, clear; or remove, interrupt and a resolution that overtakes a creation | `TypeOK`, `NothingStray`, `OneObject`, `StraysAreFew`, `CreatorsAreFew`, `TouchesOnlyNamed`, `LifecycleRefined` |
| `Faults` | 1 process, 6 GUIDs; all faults but drift and, since a Service reads none, missing Secrets; imported live and unusable names | `NothingStray`, `OneObject`, `StraysAreFew`, `CredentialsMatch`, `TouchesOnlyNamed`, `LifecycleRefined` |
| `Drift` | every kind with an `Update`, two parameters at a time; edit, drift, vanish, lost reply | `Converges`, `UpdatesSettle` |
| `Troubles` | 2 processes, a kind whose requests read Secrets; edit, drift, refusal, missing Secret | `Converges` |
| `Deletion` | every kind with a `Delete`, and a Group whose reference is optional; remove, vanish, lost reply, interrupt, wrong 4xx, missing Secret | `DeletionCompletes` |
| `References` | an organization, one below it and a proposition, in a chain, in a cycle and through a selector; all references required and resolved once, or the middle one optional, or all resolved Always and the last one optional; with and without an import; vanish and repoint, or remove and recreate, or all three removed | `TypeOK`, `ResolvedIsGuid`, `ParentFirst`, `CyclesWait`, `EachItsOwn`, `HierarchyRefined`, `ChainSettles`, `ChainDeleted` |
| `ProviderConfig` | a Group and a DeviceGroup, two installations of which one lacks MDM, three accounts, seven Secrets; edits, rotations with revocation, removals of the Secret, the resources and the ProviderConfig | `TypeOK`, `EarlyUsersKeepConfig`, `ClientsAreWhole`, `NothingAstray`, `KeysKeepTheirText`, `WhatSuitsConnects`, `ServedInTheEnd`, `LeaveInOrder` |

Why the bounds suffice. One fault of each kind meets every step of a reconcile,
because TLC tries it at every one, and faults of different kinds combine. Six
GUIDs in `Faults` are more than the faults that can lead to another creation.
Two processes are what a rollout runs; the theorems cover any number. `Races` has two
scenarios because one with everything is too large: with a single overtaking it
reaches two creators and two objects, the most that `CreatorsAreFew` and `StraysAreFew`
allow there. Kinds are
instances with one or two parameters (`Focus`): `UpToDate`, `Request` and
`Applied` treat parameters one by one, so a class of parameters treated alike
(`Class`) is represented by one, paired with one that is compared; `EveryKind`
then takes one of the kinds the model cannot tell apart. Three resources are the
fewest that have a chain with a middle, a cycle with something below it and a
selector with a choice; `GraphsAreTyped` and `ReferencesAreSent` check that the
kinds of the repository let them refer to one another so and that what is resolved
is in the create request. Two resources of which one needs MDM tell the kinds apart
as far as `Connect` goes (`ExternalsAreComplete`). Lines of keys are 4 characters
in TLC and 64 in the code; the keys have 3, 5, 8 and 9, on either side of the
multiples. Of the selector only the default policies and, with an import, those of a
reference resolved Always are taken, for the size of the run. Symmetry of processes and
values is used only in runs without liveness.

### Where the code and its documents differ

Five configurations have TLC find a behaviour that a document of the repository
excludes; `findings` in `PROJECT.json` quotes the documents.

| Configuration | Property | What the code does |
|---|---|---|
| `NoDelete` | `DeletionCompletes` | `Delete` of MDM Application and MDM Proposition calls nothing; the finalizer stays for ever |
| `NoUpdate` | `ComparedConverges` | `Update` of Role, Proposition, Application, User and EmailTemplate calls nothing, although `Observe` reports the difference |
| `SilentParameters` | `SentConverges` | parameters that `Update` sends are not compared, so drift in them is never noticed |
| `KeyLost` | `CredentialsKept` | a stop between writing the external name and publishing loses the private key |
| `StaleReference` | `ReferencesFollow` | a resolved reference keeps the GUID of an organization that was made anew under another, which is what the CRDs' default IfNotPresent says and the design document does not |

### Fairness

`FairSpec` of `ManagedResource` asks weak fairness of each process's reconcile
steps together (the work queue retries with back-off and polls every minute:
`main.go` 59, 120), of each informer, of DIP finishing a deletion it accepted, and
of a missing Secret being put back. In `ReferenceChain` it is the reconcile of each
resource and each informer; in `Connection` also the ProviderConfig controller, the
informer of the usages and the garbage collector. Nothing is asked of users, of
administrators, of faults or of interruptions, and no single step of a reconcile is
favoured. A choice DIP or a selector makes is not fair: a parent with children may
be refused for as long as it has them.

## Proofs

All theorems hold for every value of the constants under the named assumptions of
the modules only, which TLC evaluates in the runs.

**ManagedResourceProofs.** `TypeCorrect`; `NothingStrayAlways` and `OneObjectAlways`
through `SafetyInvariant`; the action property `TouchesOnlyNamedAlways` from
`Safety /\ Naming`; `CreatorsAreFewAlways` and `StraysAreFewAlways` by counting;
`CredentialsMatchAlways` and `UpdatesSettleAlways`.
The inductive invariant is that a creation was overtaken or `Safety` holds. Whether a creation may start is decided on a copy of the resource, and
`NothingStray` alone says nothing of copies. `Safety` adds that a fresh copy
equals the resource (`CopiesAgree`); that a fresh reconcile bound for `Create` or
for dropping the finalizer knows that no object is owned (`AbsentWhenFresh`), which
`Observe` establishes because the resource is not pending and so names every owned
object; that the conditional write of create-pending lets only a fresh copy
through, after which the resource stays pending until the outcome is recorded
(`PendingMeanwhile`); that nobody works on a pending copy (`NeverServesPending`),
so no other fresh reconcile can be bound for `Create` in the meantime; that the
objects owned during a creation are none before the answer and at most the new one
after (`OnlyTheNewOne`); that only one process is inside a creation (`OneCreator`); and that a pending resource has a finalizer
(`PendingIsProtected`), so a deletion cannot take it away. `Naming` adds that no
copy, however old, names an owned object that the resource itself does not name,
and that a copy is never deleted when the resource is not.
A resolution keeps all this as long as the resource is not pending: what it makes
newest names what the resource names. What it costs when the resource is pending is
counted. `FewInside`: the processes inside a creation, and those that are on the way
there on a newest copy although another creation is pending, are no more than the
resolutions that overtook one, and one more while the resource is pending. `FewStray`:
the living objects, the creations that can still add one (`Making`) and the place of the
object the resource is in want of are together at most one more than the mishaps.
Neither needs `Safety`, which is lost by then; the second needs that no copy names an
object before it was born and that the name a process is about to write is in nobody
else's copy (`Standing`). For the credentials a
single uninterrupted process holds the key of the name it is about to publish, and
no other step changes the name of a resource whose creation succeeded.
`UpdatesSettleAlways` is the step on which `Converges` rests, for every kind: an
`Update` of a reconcile whose copy is the newest leaves the object in agreement in all
that is compared and sent, whether DIP keeps or clears what the request leaves out.
It needs that the required parameters of a resource are always set (`RequiredSet`),
because `Observe` overlooks an unset parameter only if it is optional.

**LifecycleProofs.** `ImplementsLifecycle`: `Spec => LifecycleRefined`. Each step of
`ManagedResource` is a step of `ResourceLifecycle` or a stutter under the mapping,
given `Safety`, `Naming` and that only the copy of a resource being deleted is
finalized (`Calm`); a step that overtakes a creation is interference, and after it
(`Lasting`) every step is what it does to the resource or a stutter.

**ReferenceChainProofs.** `ReferencesInvariant` follows each name through the places
it passes: external names of resources, copies and informers are among those the
resource has borne, resolved values among those of what it refers to, and the
parents of DIP objects are resolved values, or none where the reference is optional
(`Parentless`). What makes a required parent come first is `Carries`: once the reconcile
is under way for a resource whose reference is required, its copy has a value, up to the
request. From it `ReferencesTyped`, `ResolvedIsGuidAlways`, `ParentFirstAlways` and
`CyclesWaitAlways`, the last for every set of resources whose required references lead
only to one another.

**HierarchyProofs, HierarchyRefinementProofs.** `ImplementsHierarchy`:
`Spec => HierarchyRefined`. That a new object is below a living object of the right
resource, or below none only where that is allowed, follows from `ReferencesInvariant`. That it is made, deleted and left for
the right resource needs `Steady` as well, because a reconcile acts on what it found
out some steps before: a resource without finalizer has at most the object it was
given; one whose object is about to be made or written down exists and has its
finalizer, so that no deletion removes it in the meantime; what `Observe` found
absent is still absent when `Create` comes, which needs that gone objects stay gone;
and a copy that is being deleted names what the resource names now.
`EachItsOwnInHierarchy` is an invariant of the abstract specification alone, whose
induction adds only that every name was given after its object was born;
`EachItsOwnAlways` is the same of `ReferenceChain`, got by instantiating that theorem
under the mapping. Nothing about reconciles is proved a second time for it.

**ConnectionProofs.** `ConnectionInvariant`: every resource that is past `Track` or
has an object has a usage (`UsesAreTracked`); the informer keeps showing those of
the early users (`EarlyAreSeen`); a copy the controller is about to finalize was
read when there were none (`WorkIsOld`); every object lives where an issued account
is at home (`LivesAtHome`). `ClientsAreWhole` is established by `Login`, which compares
what the library was configured with to what knows the account, and lasts because the
client is never made anew within a reconcile; that a call then ends up in the
account's home (`CallsHome`) needs that no two installations have the same region and
environment (`InstallationsAssumption`). From it `ConnectionTyped`, `EarlyUsersKeepConfigAlways`,
`ClientsAreWholeAlways` and `NothingAstrayAlways`.

`KeysKeepTheirTextAlways` and `WhatSuitsConnectsAlways` are about the data of a
connection. The first is `FormatKeepsTheText` of every key a Secret may hold. The
second says that `ConfigFromSecret` and `NewClient` refuse nothing that would do: a
key on one line is accepted because formatting gives it the line of its own the
library asks for and nothing else (`KeysAreAccepted`), and region and environment
are those of the account's home wherever each of them stands, whatever the
ProviderConfig says of one the Secret has. It needs that the keys of Secrets are
sequences and that an installation has a region and an environment, which
`SecretsAssumption` and `InstallationsAssumption` say.

**KeyFormatProofs.** `LinesKeepTheText`: for every text and every line width, each
character of the text is on a line, each character on a line is that of the text at
the same distance from the beginning, no line is empty and all but the last are
full. `FormatKeepsTheText`: for every key over any characters, of any length, and
every line width, `KeepsItsText`, that is all of what `formatPrivateKey` promises.
The joining of the lines is described position by position (`JoinedLines`: a line
break at every multiple of `LineWidth + 1` and at the end, the text in between), by
induction over the lines, and the text of what is joined by induction over the
characters (`TextOfConcat`, `TextOfPlain`).

**NaturalRecursion.** The library states induction over the natural numbers for a
predicate, which is an operator parameter that no prover here can instantiate.
`Induction` and `BoundedInduction` state it for a set of numbers instead, from the
least element that `WFMin` gives, and `Recursion` gives the function that a first
value and a step describe. A caller defines the set of numbers of which its claim is
true and cites them by name.

**Only model-checked.** The liveness properties: `Converges`, `DeletionCompletes`,
`ChainSettles`, `ChainDeleted`, `ServedInTheEnd`, `LeaveInOrder`. Fairness and ENABLED
are out of the prover's reach; of `Converges` the single step is proved. Every invariant, action property and refinement of the
passing runs is proved.

## Plan

Done: lifecycle, kinds, races, faults, convergence, deletion, the abstract lifecycle
and its refinement, references and the hierarchy they implement, connections, key
format, and the safety proofs of all of them. What would come next:

1. Secrets with contents in `ManagedResource`: a rotated Secret is compared with
   nothing and never sent.
2. Two providers for one connection secret: a late `Publish` of an old process.
3. Resolution from informers of the referenced resources inside `ManagedResource`,
   which now takes its outcome for granted, and several references per resource.
4. ProviderConfig references of another kind, once the resolution of
   `ClusterProviderConfig` is part of the code.
5. Management policies other than the default.

## Not modelled

Status conditions and `atProvider`, metrics, change logs, management policies
other than the default, the CRD gate, rate limits (only that a retry comes), the
contents of the Secrets that parameters point at, DIP's own validation of requests
beyond the existence of a parent, several references of one resource (the elements of a
StandardService's `serviceUrls`), what the runtime does with an Optional reference beyond
the no-op of the CRDs' text, and the generated deep copies, accessors and CRDs,
which have no behaviour of their own. A Role's permissions and the Secrets of a User
and of a Service are in no request; `DipKinds` shows it and no run repeats it.
