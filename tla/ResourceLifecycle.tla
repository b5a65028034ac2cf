--------------------------- MODULE ResourceLifecycle ---------------------------
(***************************************************************************)
(* What a controller promises of one custom resource and its object in     *)
(* DIP, without reconciles, processes, caches and annotations:             *)
(*                                                                         *)
(*   - an object is made only for a resource that is kept (that has the    *)
(*     finalizer) and that has none;                                       *)
(*   - it is deleted only when the resource is being deleted and names it; *)
(*   - the resource goes only after its object.                            *)
(*                                                                         *)
(* LifecycleRefinement shows that ManagedResource implements this.         *)
(***************************************************************************)
EXTENDS Naturals

CONSTANTS Objects, NoObject

VARIABLES
  resource,    \* new, kept, deleting, gone
  stage,       \* of its object: none, created, named, ending
  object,      \* which one it is
  interference \* how often people may still interfere

vars == <<resource, stage, object, interference>>

Init ==
  /\ resource = "new"
  /\ \/ stage = "none" /\ object = NoObject
     \/ stage = "named" /\ object \in Objects
  /\ interference \in Nat

Becomes(next, obj) == stage' = next /\ object' = obj

\* The provider takes the resource on.
Keep ==
  /\ resource = "new"
  /\ resource' = "kept"
  /\ UNCHANGED <<stage, object, interference>>

Create ==
  /\ resource \in {"kept", "deleting"}
  /\ stage = "none"
  /\ \E o \in Objects : Becomes("created", o)
  /\ UNCHANGED <<resource, interference>>

\* The resource learns the GUID of its object.
Name ==
  /\ resource \in {"kept", "deleting"}
  /\ stage = "created"
  /\ Becomes("named", object)
  /\ UNCHANGED <<resource, interference>>

AskForDeletion ==
  /\ resource = "kept"
  /\ resource' = "deleting"
  /\ UNCHANGED <<stage, object, interference>>

\* DIP deletes an object at once, or marks it and finishes later.
Delete ==
  /\ resource = "deleting"
  /\ stage = "named"
  /\ Becomes("none", NoObject) \/ Becomes("ending", object)
  /\ UNCHANGED <<resource, interference>>

Finish ==
  /\ stage = "ending"
  /\ Becomes("none", NoObject)
  /\ UNCHANGED <<resource, interference>>

Leave ==
  /\ resource = "deleting"
  /\ stage = "none"
  /\ resource' = "gone"
  /\ UNCHANGED <<stage, object, interference>>

\* The user deletes a resource that the provider has not taken on.
Abandon ==
  /\ resource = "new"
  /\ resource' = "gone"
  /\ Becomes("none", NoObject)
  /\ UNCHANGED interference

\* People delete the object, or declare it nobody's, or are told it is absent.
Interfere ==
  /\ interference' < interference /\ interference' \in Nat
  /\ Becomes("none", NoObject) \/ UNCHANGED <<stage, object>>
  /\ UNCHANGED resource

Next ==
  \/ Keep \/ Create \/ Name \/ AskForDeletion \/ Delete \/ Finish \/ Leave
  \/ Abandon \/ Interfere

Spec == Init /\ [][Next]_vars
=============================================================================
