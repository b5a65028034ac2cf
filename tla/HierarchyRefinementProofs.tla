---------------------- MODULE HierarchyRefinementProofs ----------------------
(***************************************************************************)
(* ReferenceChain implements Hierarchy, for every set of resources and     *)
(* GUIDs and every manifest.  That a new object is below an object of the  *)
(* right resource, or may be below none, follows from the invariant of     *)
(* ReferenceChainProofs.                                                   *)
(* That it is made and deleted for the right resource at the right moment  *)
(* needs one more, Steady: what a reconcile found out when it began or     *)
(* observed still holds when it creates, writes the name or deletes,       *)
(* although users and other reconciles act in between.                     *)
(***************************************************************************)
EXTENDS HierarchyRefinement, ReferenceChainProofs

Steady(r) ==
  /\ obj[r].exists /\ ~obj[r].finalizer => obj[r].name \in {NoName, imported[r]}
  /\ phase[r] \in {"create", "persist"} => obj[r].exists /\ obj[r].finalizer
  /\ phase[r] = "create" => copy[r].name = obj[r].name /\ ~Live(obj[r].name)
  /\ phase[r] = "observe" /\ copy[r].deleting =>
       obj[r].exists /\ obj[r].deleting /\ copy[r].name = obj[r].name

Invariant == Inductive /\ \A r \in Resources : Steady(r)

-----------------------------------------------------------------------------
(* The invariant. *)

\* An object that has gone does not come back, and no resource bears the name of
\* one that is yet to be born.
LEMMA DeadStaysDead ==
  ASSUME Inductive, [Next]_vars, NEW q \in Resources, ~Live(obj[q].name)
  PROVE  ~(obj[q].name \in Guids /\ dip'[obj[q].name] = "live")
<1> SUFFICES ASSUME obj[q].name \in Guids
             PROVE  dip'[obj[q].name] # "live"
  OBVIOUS
<1> DEFINE g == obj[q].name
<1>1. g \in borne[q] /\ g \in Guids
  BY NamesAssumption DEF Inductive, Named, Names
<1>2. dip[g] = "gone" /\ dip \in [Guids -> {"unborn", "live", "gone"}]
  BY <1>1 DEF Inductive, Named, TypeOK, Live
<1> HIDE DEF g
<1>3. \/ dip' = dip
      \/ \E h : dip' = [dip EXCEPT ![h] = "gone"]
      \/ NewGuid \in Guids /\ dip[NewGuid] = "unborn" /\ dip' = [dip EXCEPT ![NewGuid] = "live"]
  BY NewGuidUnborn DEF Next, Reconcile, Begin, Adopt, Claim, CreateSucceeds, CreateRefused,
     PersistName, Delete, Finalize, Sync, Remove, Recreate, Repoint, Vanish, vars, world
<1>4. dip'[g] = "gone"
  BY <1>1, <1>2, <1>3
<1>5. QED
  BY <1>4 DEF g

\* What is somebody else's step leaves a resource steady.
LEMMA OthersSteady ==
  ASSUME Invariant, [Next]_vars, NEW q \in Resources,
         obj'[q] = obj[q], phase'[q] = phase[q], copy'[q] = copy[q]
  PROVE  Steady(q)'
<1>1. imported' = imported
  BY SpecKept DEF spec
<1>2. ~Live(obj[q].name) => ~Live(obj[q].name)'
  BY DeadStaysDead DEF Invariant, Live
<1>3. QED
  BY <1>1, <1>2 DEF Invariant, Steady

\* What a reconcile does to its own resource leaves it steady.
LEMMA ReconcileSteady ==
  ASSUME Invariant, [Next]_vars, NEW r \in Resources, Reconcile(r)
  PROVE  Steady(r)'
<1>0. TypeOK /\ Steady(r) /\ imported' = imported
  BY SpecKept DEF Invariant, Inductive, spec
<1>1. CASE Begin(r)
  <2>1. /\ obj'[r].exists /\ obj'[r].deleting = obj[r].deleting
        /\ obj'[r].finalizer = obj[r].finalizer /\ obj'[r].name = obj[r].name
    <3>1. \/ obj' = obj
          \/ \E p \in Resources : obj' = [obj EXCEPT ![r].ref = p, ![r].value = ExternalName(p)]
      BY <1>1 DEF Begin, Resolve
    <3>2. obj[r].exists /\ obj[r] \in Resource
      BY <1>0, <1>1 DEF Begin, TypeOK
    <3>3. \/ obj'[r] = obj[r]
          \/ \E p \in Resources : obj'[r] = [obj[r] EXCEPT !.ref = p, !.value = ExternalName(p)]
      BY <1>0, <3>1 DEF TypeOK
    <3>4. QED
      BY <3>2, <3>3 DEF Resource
  <2>2. phase'[r] = "observe" /\ copy'[r] = obj'[r]
    <3>1. Continue(r, "observe", obj'[r])
      BY <1>1 DEF Begin, Resolve
    <3>2. QED
      BY <1>0, <3>1 DEF Continue, TypeOK
  <2>3. QED
    BY <1>0, <1>1, <2>1, <2>2 DEF Steady, Begin
<1>2. ASSUME End(r),
             \/ obj' = obj
             \/ obj' = [obj EXCEPT ![r].finalizer = TRUE]
             \/ obj' = [obj EXCEPT ![r].exists = FALSE]
      PROVE  Steady(r)'
  <2>1. phase'[r] = "idle"
    BY <1>0, <1>2 DEF End, Continue, TypeOK
  <2>2. obj'[r].exists /\ ~obj'[r].finalizer =>
          obj[r].exists /\ ~obj[r].finalizer /\ obj'[r].name = obj[r].name
    BY <1>0, <1>2 DEF TypeOK, Resource
  <2>3. QED
    BY <1>0, <2>1, <2>2 DEF Steady
<1>3. ASSUME phase[r] = "observe", ~Live(copy[r].name), Fresh(r),
             obj' = [obj EXCEPT ![r].finalizer = TRUE], Continue(r, "create", obj'[r])
      PROVE  Steady(r)'
  <2>1. /\ phase'[r] = "create" /\ copy'[r] = obj'[r]
        /\ obj'[r].exists /\ obj'[r].finalizer /\ obj'[r].name = obj[r].name
    BY <1>0, <1>3 DEF Fresh, Continue, TypeOK, Resource
  <2>2. ~Live(obj[r].name)
    BY <1>3 DEF Fresh
  <2>3. ~Live(obj[r].name)'
    BY <2>1, <2>2, DeadStaysDead DEF Invariant, Live
  <2>4. QED
    BY <2>1, <2>3 DEF Steady
<1>4. CASE CreateSucceeds(r)
  <2>1. phase'[r] = "persist" /\ obj' = obj /\ phase[r] = "create"
    BY <1>0, <1>4 DEF CreateSucceeds, Continue, TypeOK
  <2>2. QED
    BY <1>0, <2>1 DEF Steady
<1>5. CASE PersistName(r)
  <2>1. /\ phase'[r] = "idle" /\ phase[r] = "persist"
        /\ obj'[r].finalizer = obj[r].finalizer
    BY <1>0, <1>5 DEF PersistName, End, Continue, TypeOK, Resource
  <2>2. QED
    BY <1>0, <2>1 DEF Steady
<1>6. CASE Adopt(r) \/ Claim(r) \/ CreateRefused(r) \/ Delete(r) \/ Finalize(r)
  BY <1>2, <1>3, <1>6 DEF Adopt, Claim, CreateRefused, Delete, Finalize, Conflict
<1>7. QED
  BY <1>1, <1>4, <1>5, <1>6 DEF Reconcile

\* What users do to a resource leaves it steady: one with the finalizer stays.
LEMMA UsersSteady ==
  ASSUME Invariant, [Next]_vars, NEW r \in Resources, Remove(r) \/ Recreate(r) \/ Repoint(r)
  PROVE  Steady(r)'
<1>0. TypeOK /\ Steady(r) /\ UNCHANGED <<imported, local, dip>>
  BY SpecKept DEF Invariant, Inductive, spec, Remove, Recreate, Repoint, world
<1>1. CASE Remove(r)
  <2>1. /\ obj[r].exists /\ ~obj[r].deleting
        /\ obj'[r].name = obj[r].name /\ obj'[r].finalizer = obj[r].finalizer
        /\ obj'[r].exists <=> obj[r].finalizer
    <3>1. obj[r].exists /\ ~obj[r].deleting /\ obj[r] \in Resource
      BY <1>0, <1>1 DEF Remove, TypeOK
    <3>2. obj'[r] = IF obj[r].finalizer THEN [obj[r] EXCEPT !.deleting = TRUE]
                    ELSE [obj[r] EXCEPT !.exists = FALSE]
      BY <1>0, <1>1 DEF Remove, TypeOK
    <3>3. CASE obj[r].finalizer
      BY <3>1, <3>2, <3>3 DEF Resource
    <3>4. CASE ~obj[r].finalizer
      BY <3>1, <3>2, <3>4 DEF Resource
    <3>5. QED
      BY <3>3, <3>4
  <2>2. QED
    BY <1>0, <2>1 DEF Steady, local, Live
<1>2. CASE Recreate(r)
  <2>1. ~obj[r].exists /\ obj'[r].name = NoName
    BY <1>0, <1>2 DEF Recreate, Applied, InitialName, TypeOK
  <2>2. QED
    BY <1>0, <2>1 DEF Steady, local
<1>3. CASE Repoint(r)
  <2>1. /\ obj'[r].name = obj[r].name /\ obj'[r].finalizer = obj[r].finalizer
        /\ obj'[r].exists = obj[r].exists /\ obj'[r].deleting = obj[r].deleting
    <3>1. \E p : obj'[r] = [obj[r] EXCEPT !.ref = p]
      BY <1>0, <1>3 DEF Repoint, TypeOK
    <3>2. obj[r] \in Resource
      BY <1>0 DEF TypeOK
    <3>3. QED
      BY <3>1, <3>2 DEF Resource
  <2>2. QED
    BY <1>0, <2>1 DEF Steady, local, Live
<1>4. QED
  BY <1>1, <1>2, <1>3

\* Every step is that of one resource, or of none.
LEMMA Elsewhere ==
  ASSUME TypeOK, NEW r \in Resources, Reconcile(r) \/ Remove(r) \/ Recreate(r) \/ Repoint(r)
  PROVE  \A q \in Resources \ {r} :
           /\ obj'[q] = obj[q] /\ phase'[q] = phase[q] /\ copy'[q] = copy[q]
           /\ borne'[q] = borne[q]
<1>1. CASE Reconcile(r)
  BY <1>1 DEF TypeOK, Reconcile, Begin, Adopt, Claim, CreateSucceeds, CreateRefused,
     PersistName, Delete, Finalize, Resolve, Conflict, Continue, End
<1>2. CASE Remove(r) \/ Recreate(r) \/ Repoint(r)
  BY <1>2 DEF TypeOK, Remove, Recreate, Repoint, local
<1>3. QED
  BY <1>1, <1>2

\* The invariant holds of every behaviour.
LEMMA InvariantHolds == Spec => []Invariant
<1>1. Init => Invariant
  <2> SUFFICES ASSUME Init, NEW r \in Resources
               PROVE  Steady(r)
    BY InductiveInit DEF Invariant
  <2>1. phase[r] = "idle" /\ obj[r].name = imported[r]
    BY DEF Init, Applied, InitialName
  <2>2. QED
    BY <2>1 DEF Steady
<1>2. Invariant /\ [Next]_vars => Invariant'
  <2> SUFFICES ASSUME Invariant, [Next]_vars, NEW q \in Resources
               PROVE  Steady(q)'
    BY InductiveStep DEF Invariant
  <2>0. TypeOK
    BY DEF Invariant, Inductive
  <2>1. ASSUME NEW r \in Resources, Reconcile(r) PROVE Steady(q)'
    BY <2>0, <2>1, ReconcileSteady, OthersSteady, Elsewhere
  <2>2. ASSUME NEW r \in Resources, Remove(r) \/ Recreate(r) \/ Repoint(r)
        PROVE  Steady(q)'
    BY <2>0, <2>2, UsersSteady, OthersSteady, Elsewhere
  <2>3. CASE \/ \E r \in Resources : Sync(r)
             \/ \E g \in Guids : Vanish(g)
             \/ UNCHANGED vars
    BY <2>3, OthersSteady DEF Sync, Vanish, vars, local
  <2>4. QED
    BY <2>1, <2>2, <2>3 DEF Next
<1>3. QED
  BY <1>1, <1>2, PTL DEF Spec

-----------------------------------------------------------------------------
(* The steps. *)

Refined == [Tree!Next]_Tree!vars

\* What a step of one resource does to the mapped state.
LEMMA OneMoves ==
  ASSUME NEW r \in Resources,
         \A q \in Resources \ {r} :
           /\ obj'[q] = obj[q] /\ phase'[q] = phase[q] /\ copy'[q] = copy[q]
           /\ borne'[q] = borne[q]
  PROVE  /\ Stages' = [Stages EXCEPT ![r] = StageOf(r)']
         /\ Objects' = [Objects EXCEPT ![r] = ObjectOf(r)']
         /\ Had' = [Had EXCEPT ![r] = (borne[r] \cup Pending(r))']
<1>1. \A q \in Resources \ {r} :
        /\ StageOf(q)' = StageOf(q) /\ ObjectOf(q)' = ObjectOf(q)
        /\ (borne[q] \cup Pending(q))' = borne[q] \cup Pending(q)
  BY DEF StageOf, ObjectOf, Pending
<1>2. Stages' = [Stages EXCEPT ![r] = StageOf(r)']
  BY <1>1 DEF Stages
<1>3. Objects' = [Objects EXCEPT ![r] = ObjectOf(r)']
  BY <1>1 DEF Objects
<1>4. Had' = [Had EXCEPT ![r] = (borne[r] \cup Pending(r))']
  BY <1>1 DEF Had
<1>5. QED
  BY <1>2, <1>3, <1>4

\* A step that changes nothing that the mapping shows.
LEMMA Unseen ==
  ASSUME NEW r \in Resources,
         \A q \in Resources \ {r} :
           /\ obj'[q] = obj[q] /\ phase'[q] = phase[q] /\ copy'[q] = copy[q]
           /\ borne'[q] = borne[q],
         UNCHANGED <<candidates, optional, imported, world>>, budget'["vanish"] = budget["vanish"],
         StageOf(r)' = StageOf(r), ObjectOf(r)' = ObjectOf(r),
         (borne[r] \cup Pending(r))' = borne[r] \cup Pending(r)
  PROVE  Refined
<1>1. Stages' = Stages
  BY OneMoves DEF Stages
<1>2. Objects' = Objects
  BY OneMoves DEF Objects
<1>3. Had' = Had
  BY OneMoves DEF Had
<1>4. QED
  BY <1>1, <1>2, <1>3 DEF Refined, Tree!vars, Tree!rules, Tree!objects, world

\* Resolving, taking on, a refusal and writing the name down are not seen.
LEMMA QuietRefines ==
  ASSUME Invariant, [Next]_vars, NEW r \in Resources,
         \/ Begin(r) \/ Adopt(r) \/ Claim(r) \/ CreateRefused(r) \/ PersistName(r)
  PROVE  Refined
<1>0. TypeOK /\ Steady(r) /\ UNCHANGED <<candidates, optional, imported, world, budget>>
  BY SpecKept DEF Invariant, Inductive, spec, Begin, Adopt, Claim, CreateRefused, PersistName
<1>1. \A q \in Resources \ {r} :
        /\ obj'[q] = obj[q] /\ phase'[q] = phase[q] /\ copy'[q] = copy[q]
        /\ borne'[q] = borne[q]
  BY <1>0, Elsewhere DEF Reconcile
<1>2. CASE PersistName(r)
  <2>1. /\ phase[r] = "persist" /\ phase'[r] = "idle"
        /\ obj'[r].exists = obj[r].exists /\ obj'[r].deleting = obj[r].deleting
        /\ obj'[r].name = copy[r].name
        /\ borne'[r] = borne[r] \cup {copy[r].name}
    BY <1>0, <1>2 DEF PersistName, End, Continue, TypeOK, Resource
  <2>2. obj[r].exists
    BY <1>0, <2>1 DEF Steady
  <2>3. QED
    BY <1>0, <1>1, <2>1, <2>2, Unseen DEF StageOf, ObjectOf, Pending
<1>3. CASE Begin(r) \/ Adopt(r) \/ Claim(r) \/ CreateRefused(r)
  <2>1. /\ phase[r] # "persist" /\ borne' = borne
        /\ \/ obj' = obj
           \/ obj' = [obj EXCEPT ![r].finalizer = TRUE]
           \/ \E p \in Resources : obj' = [obj EXCEPT ![r].ref = p, ![r].value = ExternalName(p)]
        /\ \E next \in {"idle", "observe", "create"} : \E with : Continue(r, next, with)
    BY <1>3 DEF Begin, Adopt, Claim, CreateRefused, Resolve, Conflict, End
  <2>2. phase'[r] # "persist"
    BY <1>0, <2>1 DEF Continue, TypeOK
  <2>3. /\ obj'[r].exists = obj[r].exists /\ obj'[r].deleting = obj[r].deleting
        /\ obj'[r].name = obj[r].name
    <3>1. /\ obj[r] \in Resource
          /\ \/ obj'[r] = obj[r]
             \/ obj'[r] = [obj[r] EXCEPT !.finalizer = TRUE]
             \/ \E p \in Resources : obj'[r] = [obj[r] EXCEPT !.ref = p, !.value = ExternalName(p)]
      BY <1>0, <2>1 DEF TypeOK
    <3>2. QED
      BY <3>1 DEF Resource
  <2>4. QED
    BY <1>0, <1>1, <2>1, <2>2, <2>3, Unseen DEF StageOf, ObjectOf, Pending
<1>4. QED
  BY <1>2, <1>3

\* The object that Create makes is that of the resource, which is there and has
\* none, below a living object of what it points at, or below none if it may be.
LEMMA CreateRefines ==
  ASSUME Invariant, [Next]_vars, NEW r \in Resources, CreateSucceeds(r)
  PROVE  Refined
<1>0. TypeOK /\ Steady(r) /\ Carries(r) /\ Inductive
      /\ UNCHANGED <<candidates, optional, imported, obj, borne, budget>> /\ phase[r] = "create"
  BY SpecKept DEF Invariant, Inductive, spec, CreateSucceeds
<1>1. \A q \in Resources \ {r} :
        /\ obj'[q] = obj[q] /\ phase'[q] = phase[q] /\ copy'[q] = copy[q]
        /\ borne'[q] = borne[q]
  BY <1>0, Elsewhere DEF Reconcile
<1>2. NewGuid \in Guids /\ dip[NewGuid] = "unborn"
  BY NewGuidUnborn DEF CreateSucceeds
<1>3. phase'[r] = "persist" /\ copy'[r].name = NewGuid
  BY <1>0 DEF CreateSucceeds, Continue, TypeOK, Resource
<1>4. StageOf(r)' = StageOf(r) /\ ObjectOf(r)' = NewGuid
      /\ (borne[r] \cup Pending(r))' = borne[r] \cup Pending(r) \cup {NewGuid}
  BY <1>0, <1>3 DEF StageOf, ObjectOf, Pending
<1>5. Stages[r] # "absent" /\ ~Tree!Live(Objects[r])
  BY <1>0 DEF Steady, Stages, StageOf, Objects, ObjectOf, Tree!Live, Live
<1>6. Sent(r) \in Guids \cup {Unset} /\ Tree!Below(r, Sent(r))
  <2>1. Sent(r) \in ParentNames(r) \cup {Unset} /\ (Sent(r) = Unset \/ Live(Sent(r)))
    BY <1>0 DEF Carries, Sent, CreateSucceeds
  <2>2. CASE Sent(r) = Unset
    <3>1. candidates[r] = {} \/ r \in optional
      BY <1>0, <2>2 DEF Carries, Sent
    <3>2. QED
      BY <2>2, <3>1 DEF Tree!Below
  <2>3. CASE Sent(r) # Unset
    <3>1. Sent(r) \in ParentNames(r) /\ Live(Sent(r))
      BY <2>1, <2>3
    <3>2. PICK q \in candidates[r] : Sent(r) \in borne[q]
      BY <3>1 DEF ParentNames
    <3>3. q \in Resources
      BY <1>0 DEF TypeOK
    <3>4. Sent(r) \in Had[q]
      BY <3>2, <3>3 DEF Had
    <3>5. QED
      BY <2>3, <3>1, <3>2, <3>4 DEF Tree!Below, Tree!Live, Live
  <2>4. QED
    BY <2>2, <2>3
<1>7. /\ Stages' = Stages
      /\ Objects' = [Objects EXCEPT ![r] = NewGuid]
      /\ Had' = [Had EXCEPT ![r] = @ \cup {NewGuid}]
  <2>1. Stages' = Stages
    BY <1>1, <1>4, OneMoves DEF Stages
  <2>2. Objects' = [Objects EXCEPT ![r] = NewGuid]
    BY <1>1, <1>4, OneMoves
  <2>3. Had' = [Had EXCEPT ![r] = @ \cup {NewGuid}]
    BY <1>1, <1>4, OneMoves DEF Had
  <2>4. QED
    BY <2>1, <2>2, <2>3
<1>8. /\ dip' = [dip EXCEPT ![NewGuid] = "live"]
      /\ below' = [below EXCEPT ![NewGuid] = Sent(r)]
  BY DEF CreateSucceeds
<1>9. Tree!Make(r)
  BY <1>0, <1>2, <1>5, <1>6, <1>7, <1>8, Zenon DEF Tree!Make, Tree!rules
<1>10. QED
  BY <1>9 DEF Refined, Tree!Next

\* Delete deletes what a resource that is being deleted is named after.
LEMMA DeleteRefines ==
  ASSUME Invariant, [Next]_vars, NEW r \in Resources, Delete(r)
  PROVE  Refined
<1>0. TypeOK /\ Steady(r) /\ UNCHANGED <<candidates, optional, imported, obj, below, borne, budget>>
      /\ phase[r] = "observe" /\ copy[r].deleting /\ Live(copy[r].name)
  BY SpecKept DEF Invariant, Inductive, spec, Delete
<1>1. \A q \in Resources \ {r} :
        /\ obj'[q] = obj[q] /\ phase'[q] = phase[q] /\ copy'[q] = copy[q]
        /\ borne'[q] = borne[q]
  BY <1>0, Elsewhere DEF Reconcile
<1>2. phase'[r] = "idle"
  BY <1>0 DEF Delete, End, Continue, TypeOK
<1>3. StageOf(r)' = StageOf(r) /\ ObjectOf(r)' = ObjectOf(r)
      /\ (borne[r] \cup Pending(r))' = borne[r] \cup Pending(r)
  BY <1>0, <1>2 DEF StageOf, ObjectOf, Pending
<1>4. CASE dip' = dip
  BY <1>0, <1>1, <1>3, <1>4, Unseen DEF world
<1>5. CASE dip' = [dip EXCEPT ![copy[r].name] = "gone"]
  <2>1. Stages' = Stages /\ Objects' = Objects /\ Had' = Had
    BY <1>1, <1>3, OneMoves DEF Stages, Objects, Had
  <2>2. Stages[r] = "leaving" /\ Objects[r] = copy[r].name
    BY <1>0 DEF Steady, Stages, StageOf, Objects, ObjectOf
  <2>3. Tree!Delete(r)
    BY <1>0, <1>5, <2>1, <2>2 DEF Tree!Delete, Tree!Goes, Tree!Live, Tree!rules, Live
  <2>4. QED
    BY <2>3 DEF Refined, Tree!Next
<1>6. QED
  BY <1>4, <1>5 DEF Delete

\* A resource is finalized when what it is named after has gone.
LEMMA FinalizeRefines ==
  ASSUME Invariant, [Next]_vars, NEW r \in Resources, Finalize(r)
  PROVE  Refined
<1>0. TypeOK /\ Steady(r) /\ UNCHANGED <<candidates, optional, imported, world, borne, budget>>
      /\ phase[r] = "observe" /\ copy[r].deleting /\ ~Live(copy[r].name)
  BY SpecKept DEF Invariant, Inductive, spec, Finalize
<1>1. \A q \in Resources \ {r} :
        /\ obj'[q] = obj[q] /\ phase'[q] = phase[q] /\ copy'[q] = copy[q]
        /\ borne'[q] = borne[q]
  BY <1>0, Elsewhere DEF Reconcile
<1>2. phase'[r] = "idle"
  BY <1>0 DEF Finalize, Conflict, End, Continue, TypeOK
<1>3. (borne[r] \cup Pending(r))' = borne[r] \cup Pending(r)
  BY <1>0, <1>2 DEF Pending
<1>4. CASE obj' = obj
  BY <1>0, <1>1, <1>2, <1>3, <1>4, Unseen DEF StageOf, ObjectOf
<1>5. CASE obj' = [obj EXCEPT ![r].exists = FALSE]
  <2>1. ~obj'[r].exists
    BY <1>0, <1>5 DEF TypeOK, Resource
  <2>2. StageOf(r)' = "absent" /\ ObjectOf(r)' = NoName
    BY <1>2, <2>1 DEF StageOf, ObjectOf
  <2>3. /\ Stages' = [Stages EXCEPT ![r] = "absent"]
        /\ Objects' = [Objects EXCEPT ![r] = NoName]
    BY <1>1, <2>2, OneMoves
  <2>4. Had' = Had
    BY <1>1, <1>3, OneMoves DEF Had
  <2>5. Stages[r] = "leaving" /\ ~Tree!Live(Objects[r])
    BY <1>0 DEF Steady, Stages, StageOf, Objects, ObjectOf, Tree!Live, Live
  <2>6. Tree!Leave(r)
    BY <1>0, <2>3, <2>4, <2>5
       DEF Tree!Leave, Tree!Becomes, Tree!Nameless, Tree!rules, Tree!objects, world
  <2>7. QED
    BY <2>6 DEF Refined, Tree!Next
<1>6. QED
  BY <1>4, <1>5 DEF Finalize, Conflict

\* Users delete resources, apply them anew and edit their references.
LEMMA UsersRefine ==
  ASSUME Invariant, [Next]_vars, NEW r \in Resources, Remove(r) \/ Recreate(r) \/ Repoint(r)
  PROVE  Refined
<1>0. TypeOK /\ Steady(r) /\ UNCHANGED <<candidates, optional, imported, local, world, borne>>
  BY SpecKept DEF Invariant, Inductive, spec, Remove, Recreate, Repoint
<1>1. \A q \in Resources \ {r} :
        /\ obj'[q] = obj[q] /\ phase'[q] = phase[q] /\ copy'[q] = copy[q]
        /\ borne'[q] = borne[q]
  BY <1>0, Elsewhere
<1>2. budget'["vanish"] = budget["vanish"]
  BY <1>0 DEF Remove, Recreate, Repoint, Spend, TypeOK, Disturbances
<1>3. (borne[r] \cup Pending(r))' = borne[r] \cup Pending(r)
  BY <1>0 DEF Pending, local
<1>4. Had' = Had
  BY <1>1, <1>3, OneMoves DEF Had
<1>5. obj[r] \in Resource
  BY <1>0 DEF TypeOK
<1>6. CASE Remove(r) /\ obj[r].finalizer
  <2>1. obj[r].exists /\ ~obj[r].deleting /\ obj'[r] = [obj[r] EXCEPT !.deleting = TRUE]
    BY <1>0, <1>6 DEF Remove, TypeOK
  <2>2. obj'[r].exists /\ obj'[r].deleting /\ obj'[r].name = obj[r].name
    BY <1>5, <2>1 DEF Resource
  <2>3. StageOf(r) = "present" /\ StageOf(r)' = "leaving" /\ ObjectOf(r)' = ObjectOf(r)
    BY <1>0, <2>1, <2>2 DEF StageOf, ObjectOf, local
  <2>4. Stages' = [Stages EXCEPT ![r] = "leaving"] /\ Objects' = Objects
    BY <1>1, <2>3, OneMoves DEF Objects
  <2>5. Stages[r] = "present"
    BY <2>3 DEF Stages
  <2>6. Tree!AskForDeletion(r)
    BY <1>0, <1>2, <1>4, <2>4, <2>5
       DEF Tree!AskForDeletion, Tree!Becomes, Tree!rules, Tree!objects, world
  <2>7. QED
    BY <2>6 DEF Refined, Tree!Next
<1>7. CASE Remove(r) /\ ~obj[r].finalizer
  <2>1. obj[r].exists /\ ~obj[r].deleting /\ obj'[r] = [obj[r] EXCEPT !.exists = FALSE]
    BY <1>0, <1>7 DEF Remove, TypeOK
  <2>2. ~obj'[r].exists /\ phase[r] # "persist" /\ obj[r].name \in {NoName, imported[r]}
    BY <1>0, <1>5, <1>7, <2>1 DEF Resource, Steady
  <2>3. StageOf(r) = "present" /\ StageOf(r)' = "absent" /\ ObjectOf(r)' = NoName
    BY <1>0, <2>1, <2>2 DEF StageOf, ObjectOf, local
  <2>4. /\ Stages' = [Stages EXCEPT ![r] = "absent"]
        /\ Objects' = [Objects EXCEPT ![r] = NoName]
    BY <1>1, <2>3, OneMoves
  <2>5. Stages[r] = "present" /\ Objects[r] \in {NoName, imported[r]}
    BY <2>1, <2>2, <2>3 DEF Stages, Objects, ObjectOf
  <2>6. Tree!Abandon(r)
    BY <1>0, <1>2, <1>4, <2>4, <2>5
       DEF Tree!Abandon, Tree!Becomes, Tree!Nameless, Tree!rules, Tree!objects, world
  <2>7. QED
    BY <2>6 DEF Refined, Tree!Next
<1>8. CASE Recreate(r)
  <2>1. ~obj[r].exists /\ obj'[r] = Applied(r, NoName)
    BY <1>0, <1>8 DEF Recreate, TypeOK
  <2>2. phase[r] # "persist"
    BY <1>0, <2>1 DEF Steady
  <2>3. StageOf(r) = "absent" /\ StageOf(r)' = "present" /\ ObjectOf(r)' = NoName
    BY <1>0, <2>1, <2>2 DEF StageOf, ObjectOf, Applied, InitialName, local
  <2>4. /\ Stages' = [Stages EXCEPT ![r] = "present"]
        /\ Objects' = [Objects EXCEPT ![r] = NoName]
    BY <1>1, <2>3, OneMoves
  <2>5. Stages[r] = "absent"
    BY <2>3 DEF Stages
  <2>6. Tree!Apply(r)
    BY <1>0, <1>2, <1>4, <2>4, <2>5
       DEF Tree!Apply, Tree!Becomes, Tree!Nameless, Tree!rules, Tree!objects, world
  <2>7. QED
    BY <2>6 DEF Refined, Tree!Next
<1>9. CASE Repoint(r)
  <2>1. \E p : obj'[r] = [obj[r] EXCEPT !.ref = p]
    BY <1>0, <1>9 DEF Repoint, TypeOK
  <2>2. /\ obj'[r].exists = obj[r].exists /\ obj'[r].deleting = obj[r].deleting
        /\ obj'[r].name = obj[r].name
    BY <1>5, <2>1 DEF Resource
  <2>3. QED
    BY <1>0, <1>1, <1>2, <1>3, <2>2, Unseen DEF StageOf, ObjectOf, local
<1>10. QED
  BY <1>6, <1>7, <1>8, <1>9

\* Informers show nothing of DIP, and an object may vanish in the DIP console.
LEMMA EnvironmentRefines ==
  ASSUME Invariant, [Next]_vars,
         \/ \E r \in Resources : Sync(r)
         \/ \E g \in Guids : Vanish(g)
         \/ UNCHANGED vars
  PROVE  Refined
<1>0. TypeOK /\ UNCHANGED <<candidates, optional, imported, obj, local, below, borne>>
  BY SpecKept DEF Invariant, Inductive, spec, Sync, Vanish, vars, world
<1>1. Stages' = Stages /\ Objects' = Objects /\ Had' = Had
  BY <1>0 DEF Stages, StageOf, Objects, ObjectOf, Had, Pending, local
<1>2. CASE UNCHANGED <<dip, budget>>
  BY <1>0, <1>1, <1>2 DEF Refined, Tree!vars, Tree!rules, Tree!objects
<1>3. ASSUME NEW g \in Guids, Vanish(g) PROVE Refined
  <2>1. budget'["vanish"] \in Nat /\ budget'["vanish"] < budget["vanish"]
    BY <1>0, <1>3 DEF Vanish, Spend, TypeOK, Disturbances
  <2>2. Tree!Goes(g)
    BY <1>3 DEF Vanish, Tree!Goes, Tree!Live, Live
  <2>3. Tree!Meddle(g)
    BY <1>0, <1>1, <2>1, <2>2 DEF Tree!Meddle, Tree!rules
  <2>4. QED
    BY <2>3 DEF Refined, Tree!Next
<1>4. QED
  BY <1>2, <1>3 DEF Sync, vars, world

\* Every step of ReferenceChain is one of Hierarchy, or a stutter.
LEMMA StepRefines == Invariant /\ [Next]_vars => Refined
  BY QuietRefines, CreateRefines, DeleteRefines, FinalizeRefines, UsersRefine,
     EnvironmentRefines, Zenon DEF Next, Reconcile

\* Resources start with the objects they import, or with none.
LEMMA InitRefines == Init => Tree!Init
<1> SUFFICES ASSUME Init
             PROVE  Tree!Init
  OBVIOUS
<1>1. /\ candidates \in [Resources -> SUBSET Resources]
      /\ optional \subseteq Resources
      /\ imported \in [Resources -> Guids \cup {NoName}]
      /\ budget["vanish"] \in Nat
  BY ManifestsAssumption, BudgetsAssumption DEF Init, Disturbances
<1>2. \A r \in Resources : /\ StageOf(r) = "present" /\ ObjectOf(r) = imported[r]
                           /\ borne[r] \cup Pending(r) = {imported[r]} \ {NoName}
  BY DEF Init, Applied, InitialName, StageOf, ObjectOf, Pending
<1>3. Stages = [r \in Resources |-> "present"]
  BY <1>2 DEF Stages
<1>4. Objects = imported
  BY <1>1, <1>2 DEF Objects
<1>5. Had = [r \in Resources |-> {imported[r]} \ {NoName}]
  BY <1>2 DEF Had
<1>6. QED
  BY <1>1, <1>3, <1>4, <1>5 DEF Init, Tree!Init

\* ReferenceChain implements Hierarchy, whatever users, informers and DIP do
\* between the steps of a reconcile (ResolveReferences, Create, Delete and the
\* finalizer).
THEOREM ImplementsHierarchy == Spec => HierarchyRefined
<1>1. Init => Tree!Init
  BY InitRefines
<1>2. Invariant /\ [Next]_vars => [Tree!Next]_Tree!vars
  BY StepRefines DEF Refined
<1>3. QED
  BY <1>1, <1>2, InvariantHolds, PTL DEF Spec, HierarchyRefined, Tree!Spec

\* The same instance of Hierarchy, with what is proved of it.
Proved ==
  INSTANCE HierarchyProofs WITH
    NoParent <- Unset, graph <- candidates, given <- imported,
    stage <- Stages, name <- Objects, names <- Had,
    life <- dip, parent <- below, meddling <- budget["vanish"]

\* No object that was made is left behind, made twice or shared, however often
\* resources are deleted and applied anew while parents go and references move.
THEOREM EachItsOwnAlways == Spec => []EachItsOwn
<1>1. NoName \notin Guids
  BY NamesAssumption
<1>2. Proved!Spec => []Proved!EachItsOwn
  BY <1>1, Proved!EachItsOwnInHierarchy
<1>3. Tree!Init => Proved!Init
  BY DEF Tree!Init, Proved!Init
<1>4. [Tree!Next]_Tree!vars => [Proved!Next]_Proved!vars
  BY DEF Tree!Next, Proved!Next, Tree!vars, Proved!vars, Tree!rules, Proved!rules,
     Tree!objects, Proved!objects, Tree!Make, Proved!Make, Tree!Apply, Proved!Apply,
     Tree!AskForDeletion, Proved!AskForDeletion, Tree!Abandon, Proved!Abandon,
     Tree!Delete, Proved!Delete, Tree!Leave, Proved!Leave, Tree!Meddle, Proved!Meddle,
     Tree!Live, Proved!Live, Tree!Below, Proved!Below, Tree!Becomes, Proved!Becomes,
     Tree!Nameless, Proved!Nameless, Tree!Goes, Proved!Goes
<1>5. Proved!EachItsOwn => EachItsOwn
  BY DEF EachItsOwn, Tree!EachItsOwn, Proved!EachItsOwn, Tree!Made, Proved!Made,
     Tree!Live, Proved!Live
<1>6. QED
  BY <1>2, <1>3, <1>4, <1>5, ImplementsHierarchy, PTL
     DEF HierarchyRefined, Tree!Spec, Proved!Spec
=============================================================================
