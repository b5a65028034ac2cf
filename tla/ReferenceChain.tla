---------------------------- MODULE ReferenceChain ----------------------------
(***************************************************************************)
(* Custom resources that refer to one another: an Organization to its      *)
(* parent, a Proposition to its Organization, an Application to its        *)
(* Proposition, a Service to its Application.  A reconcile resolves the    *)
(* reference, or the selector, of its resource into the external name of   *)
(* the referenced one, read from the informer's cache, and writes it into  *)
(* the resource, where it stays; Create sends it to DIP as the parent of   *)
(* the new object.                                                         *)
(*                                                                         *)
(* Each resource has a reconciler of its own and DIP, users and informers  *)
(* act between any two of its steps.  What may befall a single creation,   *)
(* and what an old copy of the resource's own leads to, is the subject of  *)
(* ManagedResource and is not repeated: here the reconcile of a resource   *)
(* begins with its newest version, and the copies that lag are those of    *)
(* the resources it refers to.                                             *)
(***************************************************************************)
EXTENDS Integers, FiniteSets

CONSTANTS
  Resources, \* the custom resources of a namespace
  Manifests, \* what users may write: references or selectors (functions from a
             \* resource to what it may point at), which of them are resolved
             \* Always and which are Optional, and external names given beforehand
  Guids,     \* the GUIDs DIP can hand out
  Budgets    \* how often each disturbance may happen, in each of the scenarios

NoName == "no external name"
Unset  == "unset"
None   == "none"

Disturbances == {"remove", "recreate", "vanish", "repoint"}
Phases == {"idle", "observe", "create", "persist"}

ASSUME ManifestsAssumption ==
  \A m \in Manifests :
    /\ m.candidates \in [Resources -> SUBSET Resources]
    /\ m.always \subseteq Resources /\ m.optional \subseteq Resources
    /\ m.imported \in [Resources -> Guids \cup {NoName}]
ASSUME NamesAssumption ==
  {NoName, Unset} \cap Guids = {} /\ NoName # Unset /\ None \notin Resources
ASSUME BudgetsAssumption == \A b \in Budgets : b \in [Disturbances -> Nat]

VARIABLES
  candidates, \* what a reference names (one resource) or a selector matches (several)
  always,     \* resources that resolve their reference again in every reconcile
  optional,   \* resources that do without it as long as it cannot be resolved
  imported,   \* the external names users gave at first
  allowed,    \* the scenario: the disturbances there may be
  obj,        \* the resources at the API server
  seen,       \* what the informers, which references are resolved from, show of them
  copy,       \* the copy each running reconcile works on
  phase,      \* what each reconcile does next
  dip,        \* life of each DIP object: unborn, live, gone
  below,      \* the parent each DIP object was created under
  budget,     \* disturbances still allowed
  borne       \* (ghost) the external names each resource has had

spec  == <<candidates, always, optional, imported, allowed>>
local == <<copy, phase>>
world == <<dip, below>>
vars  == <<spec, obj, seen, local, world, budget, borne>>

Resource ==
  [exists : BOOLEAN, deleting : BOOLEAN, finalizer : BOOLEAN,
   name : Guids \cup {NoName}, ref : Resources \cup {None},
   value : Guids \cup {Unset}]

Blank ==
  [exists |-> FALSE, deleting |-> FALSE, finalizer |-> FALSE,
   name |-> NoName, ref |-> None, value |-> Unset]

\* A reference points at one resource; a selector points at none yet.
Pointer(r) ==
  IF \E p \in candidates[r] : candidates[r] = {p}
  THEN CHOOSE p \in candidates[r] : TRUE ELSE None

\* The external name of a resource that was just created: Setup disables the
\* initializer that would write the name of the resource.
\* (Mutant: it does not.)
InitialNameOfResource(r, given) == IF given = NoName THEN r ELSE given

InitialName(r, given) == given

Applied(r, given) ==
  [exists |-> TRUE, deleting |-> FALSE, finalizer |-> FALSE,
   name |-> InitialName(r, given), ref |-> Pointer(r), value |-> Unset]

\* All that a resolution looks at in the referenced resource.
Shown(o) == [exists |-> o.exists, name |-> o.name]

Init ==
  /\ \E m \in Manifests : /\ candidates = m.candidates
                          /\ always = m.always /\ optional = m.optional
                          /\ imported = m.imported
  /\ obj = [r \in Resources |-> Applied(r, imported[r])]
  /\ borne = [r \in Resources |-> {imported[r]} \ {NoName}]
  /\ dip = [g \in Guids |->
              IF \E r \in Resources : imported[r] = g THEN "live" ELSE "unborn"]
  /\ seen = [r \in Resources |-> Shown(obj[r])]
  /\ copy = [r \in Resources |-> Blank]
  /\ phase = [r \in Resources |-> "idle"]
  /\ below = [g \in Guids |-> Unset]
  /\ allowed \in Budgets
  /\ budget = allowed

Live(g) == g \in Guids /\ dip[g] = "live"

Spend(what) ==
  /\ budget[what] > 0
  /\ budget' = [budget EXCEPT ![what] = @ - 1]

\* A reconcile goes on with its copy, or ends and drops it.
Continue(r, next, with) ==
  /\ phase' = [phase EXCEPT ![r] = next]
  /\ copy' = [copy EXCEPT ![r] = with]

End(r) == Continue(r, "idle", Blank)

-----------------------------------------------------------------------------
(* The reconcile of resource r. *)

\* The informer catches up.
Sync(r) ==
  /\ \E q \in Resources : r \in candidates[q]
  /\ seen[r] # Shown(obj[r])
  /\ seen' = [seen EXCEPT ![r] = Shown(obj[r])]
  /\ UNCHANGED <<spec, obj, local, world, budget, borne>>

\* Nothing is resolved for a resource that is being deleted, has no reference,
\* or has a value already and asks for no more.
\* (Mutant: resolution is a part of Connect, which deletions go through too.)
NothingToConnect(r) ==
  \/ candidates[r] = {}
  \/ obj[r].value # Unset /\ r \notin always

NothingToResolve(r) ==
  \/ obj[r].deleting
  \/ candidates[r] = {}
  \/ obj[r].value # Unset /\ r \notin always

\* What the reference names, or the selector matches; with the policy Always a
\* selector selects anew.
Targets(r) ==
  IF obj[r].ref = None \/ (Pointer(r) = None /\ r \in always)
  THEN candidates[r] ELSE {obj[r].ref}

\* Resolve fails if the referenced resource is missing or has no external name.
\* (Mutant: the error is not returned.)
ResolvableUnnamed(r, p) == p \in Targets(r) /\ seen[p].exists

Resolvable(r, p) == p \in Targets(r) /\ seen[p].exists /\ seen[p].name # NoName

ExternalName(p) == IF seen[p].name = NoName THEN Unset ELSE seen[p].name

\* What was resolved is patched onto the resource.
Resolve(r, p) ==
  /\ obj' = [obj EXCEPT ![r].ref = p, ![r].value = ExternalName(p)]
  /\ Continue(r, "observe", obj'[r])

\* The policy Optional makes it no error that nothing is there to refer to, or
\* that the first of what is there has no external name; nothing is written then.
DoesWithout(r) ==
  /\ r \in optional
  /\ \/ \A p \in Targets(r) : ~seen[p].exists
     \/ \E p \in Targets(r) : seen[p].exists /\ seen[p].name = NoName

\* Get, then ResolveReferences; a resource whose reference is required and cannot
\* be resolved stays where it is and is tried again.
Begin(r) ==
  /\ phase[r] = "idle"
  /\ obj[r].exists
  /\ \/ /\ NothingToResolve(r) \/ DoesWithout(r)
        /\ Continue(r, "observe", obj[r]) /\ obj' = obj
     \/ /\ ~NothingToResolve(r)
        /\ \E p \in Resources : Resolvable(r, p) /\ Resolve(r, p)
  /\ UNCHANGED <<spec, seen, world, budget, borne>>

\* A write that carries a resourceVersion meets a conflict unless the copy of
\* the reconcile is the newest; then the reconcile ends.
Fresh(r) == obj[r].exists /\ copy[r] = obj[r]

Conflict(r) == ~Fresh(r) /\ End(r) /\ obj' = obj

\* Observe found the object: the resource gets its finalizer.
Adopt(r) ==
  /\ phase[r] = "observe"
  /\ ~copy[r].deleting /\ Live(copy[r].name)
  /\ \/ Fresh(r) /\ obj' = [obj EXCEPT ![r].finalizer = TRUE] /\ End(r)
     \/ Conflict(r)
  /\ UNCHANGED <<spec, seen, world, budget, borne>>

\* Observe found nothing: finalizer and external-create-pending.
\* (Mutant: the finalizer is left to the first Observe that finds the object.)
ClaimUnprotected(r) ==
  /\ phase[r] = "observe"
  /\ ~copy[r].deleting /\ ~Live(copy[r].name)
  /\ \/ Fresh(r) /\ Continue(r, "create", obj[r]) /\ obj' = obj
     \/ Conflict(r)
  /\ UNCHANGED <<spec, seen, world, budget, borne>>

Claim(r) ==
  /\ phase[r] = "observe"
  /\ ~copy[r].deleting /\ ~Live(copy[r].name)
  /\ \/ /\ Fresh(r)
        /\ obj' = [obj EXCEPT ![r].finalizer = TRUE]
        /\ Continue(r, "create", obj'[r])
     \/ Conflict(r)
  /\ UNCHANGED <<spec, seen, world, budget, borne>>

\* Create sends the resolved value, if there is one, as the parent.
Sent(r) == copy[r].value

NewGuid == CHOOSE g \in Guids : dip[g] = "unborn"

\* DIP makes the object, unless the parent that was sent does not exist.
CreateSucceeds(r) ==
  /\ phase[r] = "create"
  /\ Sent(r) = Unset \/ Live(Sent(r))
  /\ \E g \in Guids : dip[g] = "unborn"
  /\ dip' = [dip EXCEPT ![NewGuid] = "live"]
  /\ below' = [below EXCEPT ![NewGuid] = Sent(r)]
  /\ Continue(r, "persist", [copy[r] EXCEPT !.name = NewGuid])
  /\ UNCHANGED <<spec, obj, seen, budget, borne>>

CreateRefused(r) ==
  /\ phase[r] = "create"
  /\ Sent(r) # Unset /\ ~Live(Sent(r))
  /\ End(r)
  /\ UNCHANGED <<spec, obj, seen, world, budget, borne>>

\* The GUID goes into the external name, whatever the resourceVersion.
PersistName(r) ==
  /\ phase[r] = "persist"
  /\ obj' = [obj EXCEPT ![r].name = copy[r].name]
  /\ borne' = [borne EXCEPT ![r] = @ \cup {copy[r].name}]
  /\ End(r)
  /\ UNCHANGED <<spec, seen, world, budget>>

\* DIP may refuse to delete an object that has others below it.
HasChildren(g) == \E h \in Guids : Live(h) /\ below[h] = g

Delete(r) ==
  /\ phase[r] = "observe"
  /\ copy[r].deleting /\ Live(copy[r].name)
  /\ \/ dip' = [dip EXCEPT ![copy[r].name] = "gone"]
     \/ HasChildren(copy[r].name) /\ dip' = dip
  /\ End(r)
  /\ UNCHANGED <<spec, obj, seen, below, budget, borne>>

\* Observe found nothing: the finalizer and with it the resource go.
\* (Mutant: they go also after a DELETE that was refused.)
FinalizeRefused(r) ==
  /\ phase[r] = "observe"
  /\ copy[r].deleting /\ (~Live(copy[r].name) \/ HasChildren(copy[r].name))
  /\ \/ Fresh(r) /\ obj' = [obj EXCEPT ![r].exists = FALSE] /\ End(r)
     \/ Conflict(r)
  /\ UNCHANGED <<spec, seen, world, budget, borne>>

Finalize(r) ==
  /\ phase[r] = "observe"
  /\ copy[r].deleting /\ ~Live(copy[r].name)
  /\ \/ Fresh(r) /\ obj' = [obj EXCEPT ![r].exists = FALSE] /\ End(r)
     \/ Conflict(r)
  /\ UNCHANGED <<spec, seen, world, budget, borne>>

-----------------------------------------------------------------------------
(* Users and DIP. *)

\* kubectl delete
Remove(r) ==
  /\ obj[r].exists /\ ~obj[r].deleting
  /\ Spend("remove")
  /\ obj' = [obj EXCEPT ![r] = IF @.finalizer THEN [@ EXCEPT !.deleting = TRUE]
                               ELSE [@ EXCEPT !.exists = FALSE]]
  /\ UNCHANGED <<spec, seen, local, world, borne>>

\* kubectl apply of a resource that is gone
Recreate(r) ==
  /\ ~obj[r].exists
  /\ Spend("recreate")
  /\ obj' = [obj EXCEPT ![r] = Applied(r, NoName)]
  /\ UNCHANGED <<spec, seen, local, world, borne>>

\* kubectl edit of the reference; the value it was resolved into stays.
Repoint(r) ==
  /\ obj[r].exists
  /\ Spend("repoint")
  /\ \E p \in candidates[r] \ {obj[r].ref} : obj' = [obj EXCEPT ![r].ref = p]
  /\ UNCHANGED <<spec, seen, local, world, borne>>

\* Somebody deletes an object in the DIP console.
Vanish(g) ==
  /\ Live(g)
  /\ Spend("vanish")
  /\ dip' = [dip EXCEPT ![g] = "gone"]
  /\ UNCHANGED <<spec, obj, seen, local, below, borne>>

-----------------------------------------------------------------------------
Reconcile(r) ==
  \/ Begin(r) \/ Adopt(r) \/ Claim(r)
  \/ CreateSucceeds(r) \/ CreateRefused(r) \/ PersistName(r)
  \/ Delete(r) \/ Finalize(r)

Next ==
  \/ \E r \in Resources :
       Reconcile(r) \/ Sync(r) \/ Remove(r) \/ Recreate(r) \/ Repoint(r)
  \/ \E g \in Guids : Vanish(g)

Spec == Init /\ [][Next]_vars

\* Errors are retried with back-off, every resource is polled, informers catch up.
Fairness == \A r \in Resources : WF_vars(Reconcile(r)) /\ WF_vars(Sync(r))

FairSpec == Spec /\ Fairness

-----------------------------------------------------------------------------
(* Properties. *)

TypeOK ==
  /\ candidates \in [Resources -> SUBSET Resources]
  /\ always \subseteq Resources /\ optional \subseteq Resources
  /\ imported \in [Resources -> Guids \cup {NoName}]
  /\ allowed \in Budgets
  /\ obj \in [Resources -> Resource]
  /\ seen \in [Resources -> [exists : BOOLEAN, name : Guids \cup {NoName}]]
  /\ copy \in [Resources -> Resource]
  /\ phase \in [Resources -> Phases]
  /\ dip \in [Guids -> {"unborn", "live", "gone"}]
  /\ below \in [Guids -> Guids \cup {Unset}]
  /\ budget \in [Disturbances -> Nat]
  /\ borne \in [Resources -> SUBSET Guids]

\* The external names that what r points at has had.
ParentNames(r) == UNION {borne[p] : p \in candidates[r]}

\* A reference is only ever resolved into a GUID that DIP gave to an object of
\* the referenced resource, never into the name of the resource itself, which
\* would stay for ever (WithInitializers in Setup).
ResolvedIsGuid ==
  \A r \in Resources : obj[r].value \in ParentNames(r) \cup {Unset}

\* What stands for the parent of an object that was made without one.
Parentless(r) == IF r \in optional THEN {Unset} ELSE {}

\* A resource whose reference is required never gets an object without a parent:
\* what was sent as the parent is an object of the referenced resource (the error
\* of ResolveReferences ends the reconcile before Create).  One whose reference
\* is optional gets its object below such a parent or below none.
ParentFirst ==
  \A r \in Resources : candidates[r] # {} =>
    \A g \in borne[r] \ {imported[r]} : below[g] \in ParentNames(r) \cup Parentless(r)

\* A set of resources each of which has to have another of the set as its parent.
Bottomless(set) ==
  \A r \in set : /\ imported[r] = NoName
                 /\ r \notin optional
                 /\ candidates[r] # {}
                 /\ candidates[r] \subseteq set

\* Resources that require each other as parents wait for each other for ever.
CyclesWait ==
  \A set \in SUBSET Resources :
    Bottomless(set) => \A r \in set : borne[r] = {}

\* A resource that has no object yet and may not be made without its parent.
NeedsParent(r) == ~Live(obj[r].name) /\ (r \in optional => obj[r].value # Unset)

\* r has its object or will: the parents that it needs, directly or not, are
\* there and end in resources that need none.
Grounded(r) ==
  ~ \E set \in SUBSET Resources :
      /\ r \in set
      /\ \A q \in set : /\ NeedsParent(q)
                       /\ \E p \in candidates[q] :
                            p \in set \/ ~obj[p].exists \/ obj[p].deleting

\* What r points at is there and will have names.
Rooted(r) ==
  /\ Grounded(r)
  /\ \A p \in candidates[r] : obj[p].exists /\ ~obj[p].deleting /\ Grounded(p)

Settled(r) ==
  obj[r].exists /\ ~obj[r].deleting
    => /\ Live(obj[r].name)
       /\ candidates[r] # {} =>
            \E p \in candidates[r] : obj[r].ref = p /\ obj[r].value = obj[p].name

\* Nothing happened that gives a resource another GUID or another parent.
Undisturbed ==
  \A what \in {"recreate", "vanish", "repoint"} : budget[what] = allowed[what]

\* In whatever order a chain of resources is applied, all of them get their
\* objects, and their references agree with what they point at, those that are
\* optional too, once their parents have names; references with the policy
\* Always also after a parent was made anew or the reference edited.
ChainSettles ==
  \A r \in Resources :
    (<>[](Rooted(r) /\ (Undisturbed \/ always = Resources))) => <>[]Settled(r)

\* A reference resolves to the external name of the resource it names, whatever
\* happened before.
ReferencesFollow == \A r \in Resources : (<>[]Rooted(r)) => <>[]Settled(r)

AllLeaving == \A r \in Resources : obj[r].exists => obj[r].deleting

\* When all resources are being deleted, in whatever order, all of them go,
\* although DIP refuses to delete a parent before its children and a reference
\* may no longer resolve.
ChainDeleted == (<>[]AllLeaving) => <>(\A r \in Resources : ~obj[r].exists)
=============================================================================
