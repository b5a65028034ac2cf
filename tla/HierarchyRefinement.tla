-------------------------- MODULE HierarchyRefinement --------------------------
(***************************************************************************)
(* ReferenceChain implements Hierarchy.  A resource has the object that a  *)
(* reconcile has just made for it, also before the GUID is written into    *)
(* its external name.                                                      *)
(***************************************************************************)
EXTENDS ReferenceChain

\* The object that was made and is not written down yet.
Pending(r) == IF phase[r] = "persist" THEN {copy[r].name} ELSE {}

ObjectOf(r) ==
  IF phase[r] = "persist" THEN copy[r].name
  ELSE IF obj[r].exists THEN obj[r].name ELSE NoName

StageOf(r) ==
  IF ~obj[r].exists THEN "absent"
  ELSE IF obj[r].deleting THEN "leaving" ELSE "present"

Stages  == [r \in Resources |-> StageOf(r)]
Objects == [r \in Resources |-> ObjectOf(r)]
Had     == [r \in Resources |-> borne[r] \cup Pending(r)]

Tree ==
  INSTANCE Hierarchy WITH
    NoParent <- Unset, graph <- candidates, given <- imported,
    stage <- Stages, name <- Objects, names <- Had,
    life <- dip, parent <- below, meddling <- budget["vanish"]

\* Whatever is applied, deleted, recreated and pointed elsewhere, in whatever
\* order and with informers that lag, what DIP holds grows and shrinks like a
\* hierarchy without references: each object is made once, below a living object
\* of what its resource points at or, only where that is optional, below none; it
\* is deleted only when that very resource is being deleted, and never left behind
\* (ResolveReferences, Create, Delete and the finalizer around them).
HierarchyRefined == Tree!Spec

\* Every object made for a resource is named by that resource alone, as long as
\* it lives, and by no other: deleting and applying anew, while a parent goes and
\* references move, neither leaves an object behind nor makes a second one.
EachItsOwn == Tree!EachItsOwn
=============================================================================
