------------------------------- MODULE Hierarchy -------------------------------
(***************************************************************************)
(* What the controllers promise of resources that refer to one another,    *)
(* without references, reconciles, caches and copies:                      *)
(*                                                                         *)
(*   - an object is made for a resource that is there and has none, below  *)
(*     a living object of a resource it may point at, or below none if it  *)
(*     points at nothing or may do without;                                *)
(*   - it is deleted only for the resource that is named after it, when    *)
(*     that resource is leaving;                                           *)
(*   - a resource that had an object made leaves only after it.            *)
(*                                                                         *)
(* HierarchyRefinement shows that ReferenceChain implements this.          *)
(***************************************************************************)
EXTENDS Naturals

CONSTANTS Resources, Guids, NoName, NoParent

VARIABLES
  graph,    \* what each resource may point at
  optional, \* the resources that may do without a parent
  given,    \* the objects that were there before, and the resources they got
  stage,    \* of each resource: present, leaving, absent
  name,     \* its object
  names,    \* all the objects it has had
  life,     \* of each object: unborn, live, gone
  parent,   \* what it was made under
  meddling  \* how often others may still delete objects

rules   == <<graph, optional, given>>
objects == <<life, parent>>
vars    == <<rules, stage, name, names, objects, meddling>>

Init ==
  /\ graph \in [Resources -> SUBSET Resources]
  /\ optional \subseteq Resources
  /\ given \in [Resources -> Guids \cup {NoName}]
  /\ stage = [r \in Resources |-> "present"]
  /\ name = given
  /\ names = [r \in Resources |-> {given[r]} \ {NoName}]
  /\ life = [g \in Guids |-> IF \E r \in Resources : given[r] = g THEN "live" ELSE "unborn"]
  /\ parent = [g \in Guids |-> NoParent]
  /\ meddling \in Nat

Live(g) == g \in Guids /\ life[g] = "live"

\* Where an object of r may be put.
Below(r, p) ==
  \/ p = NoParent /\ (graph[r] = {} \/ r \in optional)
  \/ Live(p) /\ \E q \in graph[r] : p \in names[q]

Make(r) ==
  /\ stage[r] # "absent" /\ ~Live(name[r])
  /\ \E g \in Guids, p \in Guids \cup {NoParent} :
       /\ life[g] = "unborn" /\ Below(r, p)
       /\ life' = [life EXCEPT ![g] = "live"]
       /\ parent' = [parent EXCEPT ![g] = p]
       /\ name' = [name EXCEPT ![r] = g]
       /\ names' = [names EXCEPT ![r] = @ \cup {g}]
  /\ UNCHANGED <<rules, stage, meddling>>

Becomes(r, next) == stage' = [stage EXCEPT ![r] = next]

Nameless(r) == name' = [name EXCEPT ![r] = NoName]

Apply(r) ==
  /\ stage[r] = "absent"
  /\ Becomes(r, "present") /\ Nameless(r)
  /\ UNCHANGED <<rules, names, objects, meddling>>

AskForDeletion(r) ==
  /\ stage[r] = "present"
  /\ Becomes(r, "leaving")
  /\ UNCHANGED <<rules, name, names, objects, meddling>>

\* The user deletes a resource for which nothing was made.
Abandon(r) ==
  /\ stage[r] = "present" /\ name[r] \in {NoName, given[r]}
  /\ Becomes(r, "absent") /\ Nameless(r)
  /\ UNCHANGED <<rules, names, objects, meddling>>

Goes(g) == Live(g) /\ life' = [life EXCEPT ![g] = "gone"]

Delete(r) ==
  /\ stage[r] = "leaving"
  /\ Goes(name[r])
  /\ UNCHANGED <<rules, stage, name, names, parent, meddling>>

Leave(r) ==
  /\ stage[r] = "leaving" /\ ~Live(name[r])
  /\ Becomes(r, "absent") /\ Nameless(r)
  /\ UNCHANGED <<rules, names, objects, meddling>>

\* Others delete an object.
Meddle(g) ==
  /\ meddling' < meddling /\ meddling' \in Nat
  /\ Goes(g)
  /\ UNCHANGED <<rules, stage, name, names, parent>>

Next ==
  \/ \E r \in Resources :
       \/ Make(r) \/ Apply(r) \/ AskForDeletion(r) \/ Abandon(r)
       \/ Delete(r) \/ Leave(r)
  \/ \E g \in Guids : Meddle(g)

Spec == Init /\ [][Next]_vars

-----------------------------------------------------------------------------
Made(r) == names[r] \ {given[r]}

\* Every object that was made and lives is the one and only of a resource that
\* is there: none is left behind, none is made twice, none is shared.
EachItsOwn ==
  \A r \in Resources : \A g \in Made(r) :
    /\ Live(g) => stage[r] # "absent" /\ name[r] = g
    /\ \A q \in Resources \ {r} : g \notin names[q]
=============================================================================
