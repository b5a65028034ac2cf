-------------------------- MODULE LifecycleRefinement --------------------------
(***************************************************************************)
(* ManagedResource implements ResourceLifecycle.  The object of the        *)
(* resource is the one the provider owns; which stage it is in follows     *)
(* from its life in DIP and from the external name.                        *)
(***************************************************************************)
EXTENDS ManagedResource

\* Once a resolution has overtaken a creation there may be two objects, and the
\* resource is promised none: it is as if people had declared its own nobody's.
TheObject ==
  IF Overtaken \/ Owned = {} THEN NoName ELSE CHOOSE i \in Ids : i \in Owned

StageOf(i) ==
  IF i = NoName THEN "none"
  ELSE IF dip[i] = "terminating" THEN "ending"
  ELSE IF cr.name = i THEN "named" ELSE "created"

ResourceState ==
  IF ~cr.exists THEN "gone"
  ELSE IF cr.deleting THEN "deleting"
  ELSE IF cr.finalizer THEN "kept" ELSE "new"

\* Objects deleted or declared nobody's, wrong answers that say so, and
\* creations that were overtaken.
Interference ==
  budget["vanish"] + budget["wrong4xx"] + budget["clear"] + budget["overtake"]

Lifecycle ==
  INSTANCE ResourceLifecycle WITH
    Objects <- Ids, NoObject <- NoName,
    resource <- ResourceState, stage <- StageOf(TheObject), object <- TheObject,
    interference <- Interference

\* Whatever is interrupted, lost, stale or raced between the calls of a
\* reconcile, what can be seen from outside is the plain life of a resource:
\* its object is made once, after the finalizer, deleted only on request and
\* under its name, and never outlives it (Observe, Create, Delete and the order
\* of the writes around them).
LifecycleRefined == Lifecycle!Spec
=============================================================================
