------------------------- MODULE ReferenceChainProofs -------------------------
(***************************************************************************)
(* The safety of references, for every set of resources, manifests and     *)
(* GUIDs.                                                                  *)
(*                                                                         *)
(* That a child which requires its parent never gets an object without it  *)
(* is decided when its reconcile begins and has to survive until the GUID  *)
(* is written: the copy carries a value as soon as there is a reference    *)
(* that must be resolved (Carries), the value is a name that the           *)
(* referenced resource has had (ResolvedIsGuid), and the object that comes *)
(* out of the creation is below it.  Names that were ever borne are never  *)
(* handed out again (Named).                                               *)
(***************************************************************************)
EXTENDS ReferenceChain, TLAPS

\* What a resource is called and points at, and what the informers show of it.
Names(r) ==
  /\ obj[r].name \in borne[r] \cup {NoName}
  /\ obj[r].ref \in candidates[r] \cup {None}
  /\ obj[r].value \in ParentNames(r) \cup {Unset}

Named ==
  \A r \in Resources :
    /\ Names(r)
    /\ seen[r].name \in borne[r] \cup {NoName}
    /\ \A g \in borne[r] : dip[g] # "unborn"

\* What a reconcile carries from its beginning to the name of its new object.
Carries(r) ==
  /\ phase[r] # "idle" => copy[r].value \in ParentNames(r) \cup {Unset}
  /\ phase[r] = "persist" => copy[r].name \in Guids /\ dip[copy[r].name] # "unborn"
  /\ candidates[r] # {} /\ r \notin optional =>
       /\ phase[r] = "observe" /\ ~copy[r].deleting => copy[r].value # Unset
       /\ phase[r] = "create" => copy[r].value # Unset
  /\ phase[r] = "persist" /\ candidates[r] # {} =>
       below[copy[r].name] \in ParentNames(r) \cup Parentless(r)

Inductive ==
  /\ TypeOK
  /\ Named
  /\ \A r \in Resources : Carries(r)
  /\ ParentFirst
  /\ CyclesWait

-----------------------------------------------------------------------------
(* Types. *)

\* What users wrote down at first never changes.
LEMMA SpecKept == [Next]_vars => UNCHANGED spec
  BY DEF Next, Reconcile, Begin, Adopt, Claim, CreateSucceeds, CreateRefused, PersistName,
     Delete, Finalize, Sync, Remove, Recreate, Repoint, Vanish, vars

\* A resource that was just applied is a resource.
LEMMA AppliedTyped ==
  ASSUME TypeOK, NEW r \in Resources, NEW given \in Guids \cup {NoName}
  PROVE  Applied(r, given) \in Resource
<1>1. candidates[r] \subseteq Resources
  BY DEF TypeOK
<1>2. Pointer(r) \in Resources \cup {None}
  BY <1>1 DEF Pointer
<1>3. QED
  BY <1>2 DEF Applied, InitialName, Resource

\* A copy that is dropped leaves a resource without content.
LEMMA BlankTyped == Blank \in Resource
  BY DEF Blank, Resource

\* What an action makes of a resource is a resource.
LEMMA WrittenTyped ==
  ASSUME NEW o \in Resource
  PROVE  /\ \A b \in BOOLEAN : /\ [o EXCEPT !.finalizer = b] \in Resource
                              /\ [o EXCEPT !.deleting = b] \in Resource
                              /\ [o EXCEPT !.exists = b] \in Resource
         /\ \A n \in Guids : [o EXCEPT !.name = n] \in Resource
         /\ \A p \in Resources : [o EXCEPT !.ref = p] \in Resource
         /\ \A p \in Resources, v \in Guids :
              [o EXCEPT !.ref = p, !.value = v] \in Resource
  BY DEF Resource

\* A step that writes one resource keeps all of them resources.
LEMMA OneWritten ==
  ASSUME TypeOK, NEW r \in Resources, NEW new \in Resource,
         obj' = [obj EXCEPT ![r] = new]
  PROVE  obj' \in [Resources -> Resource]
  BY DEF TypeOK

\* Continuing with a resource keeps the types of copies and phases.
LEMMA ContinueTyped ==
  ASSUME TypeOK, NEW r \in Resources, NEW next \in Phases, NEW with \in Resource,
         Continue(r, next, with)
  PROVE  copy' \in [Resources -> Resource] /\ phase' \in [Resources -> Phases]
  BY DEF Continue, TypeOK

\* NewGuid is a GUID that DIP has not handed out, if there is one.
LEMMA NewGuidUnborn ==
  ASSUME \E g \in Guids : dip[g] = "unborn"
  PROVE  NewGuid \in Guids /\ dip[NewGuid] = "unborn"
  BY DEF NewGuid

\* Every step keeps the types.
LEMMA TypeStep == Inductive /\ [Next]_vars => TypeOK'
<1> SUFFICES ASSUME Inductive, [Next]_vars
             PROVE  TypeOK'
  OBVIOUS
<1> TypeOK
  BY DEF Inductive
<1>0. candidates \in [Resources -> SUBSET Resources]
  BY DEF TypeOK
<1>1. UNCHANGED spec
  BY SpecKept
<1>2. "idle" \in Phases /\ "observe" \in Phases /\ "create" \in Phases /\ "persist" \in Phases
  BY DEF Phases
<1>3. ASSUME NEW r \in Resources, End(r)
      PROVE  copy' \in [Resources -> Resource] /\ phase' \in [Resources -> Phases]
  BY <1>2, <1>3, ContinueTyped, BlankTyped DEF End
<1>4. ASSUME NEW what \in Disturbances, Spend(what)
      PROVE  budget' \in [Disturbances -> Nat]
  BY <1>4 DEF Spend, TypeOK
<1>5. ASSUME NEW r \in Resources, Begin(r) PROVE TypeOK'
  <2>1. CASE Continue(r, "observe", obj[r]) /\ obj' = obj
    BY <1>1, <1>2, <1>5, <2>1, ContinueTyped DEF Begin, TypeOK, spec, world
  <2>2. ASSUME NEW p \in Resources, Resolvable(r, p), Resolve(r, p)
        PROVE  TypeOK'
    <3>1. ExternalName(p) \in Guids
      BY <2>2 DEF Resolvable, ExternalName, TypeOK
    <3>2. obj' \in [Resources -> Resource]
      BY <2>2, <3>1, WrittenTyped, OneWritten DEF Resolve, TypeOK
    <3>3. Continue(r, "observe", obj'[r]) /\ obj'[r] \in Resource
      BY <2>2, <3>2 DEF Resolve
    <3>4. copy' \in [Resources -> Resource] /\ phase' \in [Resources -> Phases]
      BY <1>2, <3>3, ContinueTyped
    <3>5. QED
      BY <1>1, <1>5, <3>2, <3>4 DEF Begin, TypeOK, spec, world
  <2>3. QED
    BY <1>5, <2>1, <2>2 DEF Begin
<1>6. ASSUME NEW r \in Resources, Adopt(r) \/ Claim(r) \/ Finalize(r) PROVE TypeOK'
  <2>1. /\ UNCHANGED <<spec, seen, world, budget, borne>>
        /\ \/ obj' = obj
           \/ obj' = [obj EXCEPT ![r].finalizer = TRUE]
           \/ obj' = [obj EXCEPT ![r].exists = FALSE]
        /\ End(r) \/ Continue(r, "create", obj'[r])
    BY <1>6 DEF Adopt, Claim, Finalize, Conflict
  <2>2. obj' \in [Resources -> Resource]
    BY <2>1, WrittenTyped, OneWritten DEF TypeOK
  <2>3. copy' \in [Resources -> Resource] /\ phase' \in [Resources -> Phases]
    BY <1>2, <1>3, <2>1, <2>2, ContinueTyped
  <2>4. QED
    BY <2>1, <2>2, <2>3 DEF TypeOK, spec, world
<1>7. ASSUME NEW r \in Resources, CreateSucceeds(r) PROVE TypeOK'
  <2>1. NewGuid \in Guids
    BY <1>7, NewGuidUnborn DEF CreateSucceeds
  <2>2. /\ dip' \in [Guids -> {"unborn", "live", "gone"}]
        /\ below' \in [Guids -> Guids \cup {Unset}]
    <3>1. Sent(r) \in Guids \cup {Unset}
      BY DEF TypeOK, Sent, Resource
    <3>2. QED
      BY <1>7, <2>1, <3>1 DEF CreateSucceeds, TypeOK
  <2>3. [copy[r] EXCEPT !.name = NewGuid] \in Resource
    BY <2>1, WrittenTyped DEF TypeOK
  <2>4. copy' \in [Resources -> Resource] /\ phase' \in [Resources -> Phases]
    BY <1>2, <1>7, <2>3, ContinueTyped DEF CreateSucceeds
  <2>5. QED
    BY <1>7, <2>2, <2>4 DEF CreateSucceeds, TypeOK, spec
<1>8. ASSUME NEW r \in Resources, PersistName(r) PROVE TypeOK'
  <2>1. copy[r].name \in Guids
    BY <1>8 DEF PersistName, Inductive, Carries
  <2>2. obj' \in [Resources -> Resource] /\ borne' \in [Resources -> SUBSET Guids]
    BY <1>8, <2>1, WrittenTyped, OneWritten DEF PersistName, TypeOK
  <2>3. QED
    BY <1>3, <1>8, <2>2 DEF PersistName, TypeOK, spec, world
<1>9. ASSUME NEW r \in Resources, CreateRefused(r) \/ Delete(r) PROVE TypeOK'
  <2>1. /\ UNCHANGED <<spec, obj, seen, below, budget, borne>>
        /\ End(r)
        /\ dip' = dip \/ dip' = [dip EXCEPT ![copy[r].name] = "gone"]
    BY <1>9 DEF CreateRefused, Delete, world
  <2>2. QED
    BY <1>3, <2>1 DEF TypeOK, spec
<1>10. ASSUME NEW r \in Resources, Remove(r) \/ Recreate(r) \/ Repoint(r) PROVE TypeOK'
  <2>1. /\ UNCHANGED <<spec, seen, local, world, borne>>
        /\ \E what \in Disturbances : Spend(what)
    BY <1>10 DEF Remove, Recreate, Repoint, Disturbances
  <2>2. Applied(r, NoName) \in Resource
    BY AppliedTyped
  <2>3. \/ obj' = [obj EXCEPT ![r].deleting = TRUE]
        \/ obj' = [obj EXCEPT ![r].exists = FALSE]
        \/ obj' = [obj EXCEPT ![r] = Applied(r, NoName)]
        \/ \E p \in candidates[r] : obj' = [obj EXCEPT ![r].ref = p]
    BY <1>10 DEF Remove, Recreate, Repoint, TypeOK
  <2>4. obj' \in [Resources -> Resource]
    BY <1>0, <2>2, <2>3, WrittenTyped, OneWritten DEF TypeOK
  <2>5. QED
    BY <1>4, <2>1, <2>4 DEF TypeOK, spec, local, world
<1>11. ASSUME NEW r \in Resources, Sync(r) PROVE TypeOK'
  <2>1. Shown(obj[r]) \in [exists : BOOLEAN, name : Guids \cup {NoName}]
    BY DEF TypeOK, Resource, Shown
  <2>2. QED
    BY <1>11, <2>1 DEF Sync, TypeOK, spec, local, world
<1>12. ASSUME NEW g \in Guids, Vanish(g) PROVE TypeOK'
  BY <1>4, <1>12 DEF Vanish, TypeOK, spec, local, Disturbances
<1>13. CASE UNCHANGED vars
  BY <1>13 DEF vars, TypeOK, spec, local, world
<1>14. QED
  BY <1>5, <1>6, <1>7, <1>8, <1>9, <1>10, <1>11, <1>12, <1>13, Zenon DEF Next, Reconcile

-----------------------------------------------------------------------------
(* Safety. *)

\* What parents were called is never forgotten.
LEMMA ParentNamesGrow ==
  ASSUME TypeOK, UNCHANGED spec, \A p \in Resources : borne[p] \subseteq borne'[p]
  PROVE  \A r \in Resources : ParentNames(r) \subseteq ParentNames(r)'
<1>1. \A r \in Resources : candidates[r] \subseteq Resources
  BY DEF TypeOK
<1>2. QED
  BY <1>1 DEF ParentNames, spec

\* A step that names nothing and creates nothing keeps the invariant, if what it
\* writes, resolves and carries is in order.
LEMMA LocalStep ==
  ASSUME Inductive, TypeOK', UNCHANGED <<spec, below, borne>>,
         \A g \in Guids : dip'[g] = "unborn" => dip[g] = "unborn",
         \A r \in Resources : seen'[r] = seen[r] \/ seen'[r].name = obj[r].name,
         \A r \in Resources : obj'[r] = obj[r] \/ Names(r)',
         \A r \in Resources : (copy'[r] = copy[r] /\ phase'[r] = phase[r]) \/ Carries(r)'
  PROVE  Inductive'
<1>1. \A r \in Resources : ParentNames(r)' = ParentNames(r)
  BY DEF ParentNames, spec
<1>2. \A r \in Resources : borne[r] \subseteq Guids
  BY DEF Inductive, TypeOK
<1>3. Named'
  BY <1>1, <1>2 DEF Inductive, Named, Names, spec
<1>4. \A r \in Resources : Carries(r)'
  BY <1>1 DEF Inductive, Carries, Parentless, spec
<1>5. ParentFirst'
  BY <1>1 DEF Inductive, ParentFirst, Parentless, spec
<1>6. CyclesWait'
  BY DEF Inductive, CyclesWait, Bottomless, spec
<1>7. QED
  BY <1>3, <1>4, <1>5, <1>6 DEF Inductive

\* A resolution yields a name that the referenced resource has had, and every
\* reconcile of a resource that is not being deleted has such a name at hand.
LEMMA BeginKeeps ==
  ASSUME Inductive, TypeOK', NEW r \in Resources, Begin(r)
  PROVE  Inductive'
<1>0. TypeOK /\ candidates[r] \subseteq Resources
  BY DEF Inductive, TypeOK
<1>1. UNCHANGED <<spec, seen, dip, below, borne>>
  BY DEF Begin, world
<1>2. ParentNames(r)' = ParentNames(r)
  BY <1>1 DEF ParentNames, spec
<1>3. CASE /\ NothingToResolve(r) \/ DoesWithout(r)
           /\ Continue(r, "observe", obj[r]) /\ obj' = obj
  <2>1. /\ phase'[r] = "observe" /\ copy'[r] = obj[r]
        /\ \A q \in Resources \ {r} : phase'[q] = phase[q] /\ copy'[q] = copy[q]
    BY <1>0, <1>3 DEF Continue, TypeOK
  <2>2. Carries(r)'
    BY <1>1, <1>2, <1>3, <2>1
       DEF Inductive, Named, Names, Carries, NothingToResolve, DoesWithout, spec
  <2>3. QED
    BY <1>1, <1>3, <2>1, <2>2, LocalStep
<1>4. ASSUME NEW p \in Resources, Resolvable(r, p), Resolve(r, p)
      PROVE  Inductive'
  <2>1. p \in candidates[r]
    BY <1>4 DEF Resolvable, Targets, Inductive, Named, Names
  <2>2. ExternalName(p) \in ParentNames(r) /\ ExternalName(p) # Unset
    BY <1>0, <1>4, <2>1, NamesAssumption
       DEF Resolvable, ExternalName, Inductive, Named, ParentNames, TypeOK
  <2>3. /\ obj'[r].name = obj[r].name /\ obj'[r].ref = p
        /\ obj'[r].value = ExternalName(p)
        /\ \A q \in Resources \ {r} : obj'[q] = obj[q]
    BY <1>0, <1>4 DEF Resolve, TypeOK, Resource
  <2>4. /\ phase'[r] = "observe" /\ copy'[r] = obj'[r]
        /\ \A q \in Resources \ {r} : phase'[q] = phase[q] /\ copy'[q] = copy[q]
    BY <1>0, <1>4 DEF Resolve, Continue, TypeOK
  <2>5. Names(r)'
    BY <1>1, <1>2, <2>1, <2>2, <2>3 DEF Inductive, Named, Names, spec
  <2>6. Carries(r)'
    BY <1>2, <2>2, <2>3, <2>4 DEF Carries
  <2>7. QED
    BY <1>1, <2>3, <2>4, <2>5, <2>6, LocalStep
<1>5. QED
  BY <1>3, <1>4 DEF Begin

\* The steps of a reconcile that leave names and values alone.
LEMMA QuietKeeps ==
  ASSUME Inductive, TypeOK', NEW r \in Resources,
         \/ Adopt(r) \/ Claim(r) \/ CreateRefused(r) \/ Delete(r) \/ Finalize(r)
  PROVE  Inductive'
<1>0. TypeOK /\ UNCHANGED <<spec, seen, below, borne>>
  BY DEF Inductive, Adopt, Claim, CreateRefused, Delete, Finalize, world
<1>1. \A g \in Guids : dip'[g] = "unborn" => dip[g] = "unborn"
  BY <1>0 DEF Adopt, Claim, CreateRefused, Delete, Finalize, world, TypeOK
<1>2. \/ obj' = obj
      \/ obj' = [obj EXCEPT ![r].finalizer = TRUE]
      \/ obj' = [obj EXCEPT ![r].exists = FALSE]
  BY DEF Adopt, Claim, CreateRefused, Delete, Finalize, Conflict
<1>3. /\ \A q \in Resources \ {r} : obj'[q] = obj[q]
      /\ obj'[r].name = obj[r].name /\ obj'[r].ref = obj[r].ref
      /\ obj'[r].value = obj[r].value /\ obj'[r].deleting = obj[r].deleting
  BY <1>0, <1>2 DEF TypeOK, Resource
<1>4. ParentNames(r)' = ParentNames(r)
  BY <1>0 DEF ParentNames, spec
<1>5. Names(r)'
  BY <1>0, <1>3, <1>4 DEF Inductive, Named, Names, spec
<1>6. CASE End(r)
  <2>1. /\ phase'[r] = "idle"
        /\ \A q \in Resources \ {r} : phase'[q] = phase[q] /\ copy'[q] = copy[q]
    BY <1>0, <1>6 DEF End, Continue, TypeOK
  <2>2. Carries(r)'
    BY <2>1 DEF Carries
  <2>3. QED
    BY <1>0, <1>1, <1>3, <1>5, <2>1, <2>2, LocalStep
<1>7. CASE Claim(r) /\ Fresh(r) /\ Continue(r, "create", obj'[r])
  <2>1. /\ phase'[r] = "create" /\ copy'[r] = obj'[r]
        /\ \A q \in Resources \ {r} : phase'[q] = phase[q] /\ copy'[q] = copy[q]
    BY <1>0, <1>7 DEF Continue, TypeOK
  <2>2. candidates[r] # {} /\ r \notin optional => copy'[r].value # Unset
    BY <1>3, <1>7, <2>1 DEF Claim, Fresh, Inductive, Carries
  <2>3. Carries(r)'
    BY <1>0, <1>3, <1>5, <2>1, <2>2 DEF Carries, Names, spec
  <2>4. QED
    BY <1>0, <1>1, <1>3, <1>5, <2>1, <2>3, LocalStep
<1>8. QED
  BY <1>6, <1>7 DEF Adopt, Claim, CreateRefused, Delete, Finalize, Conflict

\* The new object is below the parent that the reconcile carries.
LEMMA CreateKeeps ==
  ASSUME Inductive, TypeOK', NEW r \in Resources, CreateSucceeds(r)
  PROVE  Inductive'
<1>0. TypeOK /\ UNCHANGED <<spec, obj, seen, borne>> /\ phase[r] = "create"
  BY DEF Inductive, CreateSucceeds
<1>1. NewGuid \in Guids /\ dip[NewGuid] = "unborn"
  BY NewGuidUnborn DEF CreateSucceeds
<1>2. /\ \A g \in Guids \ {NewGuid} : dip'[g] = dip[g] /\ below'[g] = below[g]
      /\ dip'[NewGuid] = "live" /\ below'[NewGuid] = copy[r].value
  BY <1>0, <1>1 DEF CreateSucceeds, Sent, TypeOK
<1>3. /\ phase'[r] = "persist" /\ copy'[r].name = NewGuid
      /\ copy'[r].value = copy[r].value
      /\ \A q \in Resources \ {r} : phase'[q] = phase[q] /\ copy'[q] = copy[q]
  BY <1>0 DEF CreateSucceeds, Continue, TypeOK, Resource
<1>4. \A q \in Resources : ParentNames(q)' = ParentNames(q)
  BY <1>0 DEF ParentNames, spec
<1>5. \A q \in Resources : NewGuid \notin borne[q] /\ borne[q] \subseteq Guids
  BY <1>0, <1>1 DEF Inductive, Named, TypeOK
<1>6. Named'
  BY <1>0, <1>2, <1>4, <1>5 DEF Inductive, Named, Names, spec
<1>7. Carries(r)'
  BY <1>0, <1>1, <1>2, <1>3, <1>4 DEF Inductive, Carries, Parentless, spec
<1>8. ASSUME NEW q \in Resources \ {r} PROVE Carries(q)'
  <2>1. phase[q] = "persist" => copy[q].name # NewGuid
    BY <1>1 DEF Inductive, Carries
  <2>2. QED
    BY <1>0, <1>2, <1>3, <1>4, <2>1 DEF Inductive, Carries, Parentless, spec
<1>9. ParentFirst'
  BY <1>0, <1>2, <1>4, <1>5 DEF Inductive, ParentFirst, Parentless, spec
<1>10. CyclesWait'
  BY <1>0 DEF Inductive, CyclesWait, Bottomless, spec
<1>11. QED
  BY <1>6, <1>7, <1>8, <1>9, <1>10 DEF Inductive

\* A resource of a cycle has nothing to write: its parents never had a name.
LEMMA PersistKeeps ==
  ASSUME Inductive, TypeOK', NEW r \in Resources, PersistName(r)
  PROVE  Inductive'
<1> DEFINE guid == copy[r].name
<1>0. TypeOK /\ UNCHANGED <<spec, seen, dip, below>> /\ phase[r] = "persist"
  BY DEF Inductive, PersistName, world
<1>1. guid \in Guids /\ dip[guid] # "unborn"
  BY <1>0 DEF Inductive, Carries
<1>2. candidates[r] # {} => below[guid] \in ParentNames(r) \cup Parentless(r)
  BY <1>0 DEF Inductive, Carries
<1>3. /\ obj'[r].name = guid /\ obj'[r].ref = obj[r].ref /\ obj'[r].value = obj[r].value
      /\ borne'[r] = borne[r] \cup {guid}
      /\ \A q \in Resources \ {r} : obj'[q] = obj[q] /\ borne'[q] = borne[q]
  BY <1>0 DEF PersistName, TypeOK, Resource
<1>4. /\ phase'[r] = "idle"
      /\ \A q \in Resources \ {r} : phase'[q] = phase[q] /\ copy'[q] = copy[q]
  BY <1>0 DEF PersistName, End, Continue, TypeOK
<1> HIDE DEF guid
<1>5. \A q \in Resources : borne[q] \subseteq borne'[q]
  BY <1>3
<1>6. \A q \in Resources : ParentNames(q) \subseteq ParentNames(q)'
  BY <1>0, <1>5, ParentNamesGrow
<1>7. Named'
  BY <1>0, <1>1, <1>3, <1>6 DEF Inductive, Named, Names, spec
<1>8. ASSUME NEW q \in Resources PROVE Carries(q)'
  <2>1. CASE q = r
    BY <1>4, <2>1 DEF Carries
  <2>2. CASE q # r
    BY <1>0, <1>4, <1>6, <2>2 DEF Inductive, Carries, Parentless, spec
  <2>3. QED
    BY <2>1, <2>2
<1>9. ParentFirst'
  BY <1>0, <1>2, <1>3, <1>6 DEF Inductive, ParentFirst, Parentless, spec
<1>10. CyclesWait'
  <2>1. ASSUME NEW set \in SUBSET Resources, Bottomless(set), NEW q \in set
        PROVE  borne'[q] = {}
    <3>1. r \notin set
      <4>1. SUFFICES ASSUME r \in set PROVE FALSE
        OBVIOUS
      <4>2. candidates[r] # {} /\ candidates[r] \subseteq set /\ Parentless(r) = {}
        BY <2>1, <4>1 DEF Bottomless, Parentless
      <4>3. \A p \in set : borne[p] = {}
        BY <2>1 DEF Inductive, CyclesWait
      <4>4. ParentNames(r) = {}
        BY <4>2, <4>3 DEF ParentNames
      <4>5. QED
        BY <1>2, <4>2, <4>4
    <3>2. borne[q] = {}
      BY <2>1 DEF Inductive, CyclesWait
    <3>3. QED
      BY <1>3, <2>1, <3>1, <3>2
  <2>2. \A set \in SUBSET Resources : Bottomless(set)' <=> Bottomless(set)
    BY <1>0 DEF Bottomless, spec
  <2>3. QED
    BY <2>1, <2>2 DEF CyclesWait
<1>11. QED
  BY <1>7, <1>8, <1>9, <1>10 DEF Inductive

\* What users, DIP and informers do.
LEMMA EnvironmentKeeps ==
  ASSUME Inductive, TypeOK',
         \/ \E r \in Resources : Sync(r) \/ Remove(r) \/ Recreate(r) \/ Repoint(r)
         \/ \E g \in Guids : Vanish(g)
         \/ UNCHANGED vars
  PROVE  Inductive'
<1>0. TypeOK /\ UNCHANGED <<spec, local, below, borne>>
  BY DEF Inductive, Sync, Remove, Recreate, Repoint, Vanish, vars, world
<1>1. \A g \in Guids : dip'[g] = "unborn" => dip[g] = "unborn"
  BY <1>0 DEF Sync, Remove, Recreate, Repoint, Vanish, vars, world, TypeOK
<1>2. \A r \in Resources : seen'[r] = seen[r] \/ seen'[r].name = obj[r].name
  BY <1>0 DEF Sync, Remove, Recreate, Repoint, Vanish, vars, TypeOK, Shown
<1>3. ASSUME NEW r \in Resources PROVE obj'[r] = obj[r] \/ Names(r)'
  <2>1. \/ obj'[r] = obj[r]
        \/ /\ obj'[r].name = obj[r].name /\ obj'[r].value = obj[r].value
           /\ obj'[r].ref \in candidates[r] \cup {obj[r].ref}
        \/ obj'[r] = Applied(r, NoName)
    <3>1. CASE \E q \in Resources : Remove(q)
      BY <1>0, <3>1 DEF Remove, TypeOK, Resource
    <3>2. CASE \E q \in Resources : Recreate(q)
      BY <1>0, <3>2 DEF Recreate, TypeOK
    <3>3. CASE \E q \in Resources : Repoint(q)
      BY <1>0, <3>3 DEF Repoint, TypeOK, Resource
    <3>4. CASE obj' = obj
      BY <3>4
    <3>5. QED
      BY <3>1, <3>2, <3>3, <3>4 DEF Sync, Vanish, vars
  <2>2. /\ Applied(r, NoName).name = NoName /\ Applied(r, NoName).value = Unset
        /\ Applied(r, NoName).ref \in candidates[r] \cup {None}
    BY DEF Applied, InitialName, Pointer
  <2>3. ParentNames(r)' = ParentNames(r)
    BY <1>0 DEF ParentNames, spec
  <2>4. QED
    BY <1>0, <2>1, <2>2, <2>3 DEF Inductive, Named, Names, spec
<1>4. QED
  BY <1>0, <1>1, <1>2, <1>3, LocalStep DEF local

\* Every step keeps the invariant.
LEMMA InductiveStep == Inductive /\ [Next]_vars => Inductive'
<1> SUFFICES ASSUME Inductive, [Next]_vars
             PROVE  Inductive'
  OBVIOUS
<1>1. TypeOK'
  BY TypeStep
<1>2. QED
  BY <1>1, BeginKeeps, QuietKeeps, CreateKeeps, PersistKeeps, EnvironmentKeeps, Zenon
     DEF Next, Reconcile

\* Resources start with the names that users gave them and without values.
LEMMA InductiveInit == Init => Inductive
<1> SUFFICES ASSUME Init
             PROVE  Inductive
  OBVIOUS
<1>1. /\ candidates \in [Resources -> SUBSET Resources]
      /\ always \subseteq Resources /\ optional \subseteq Resources
      /\ imported \in [Resources -> Guids \cup {NoName}]
  BY ManifestsAssumption DEF Init
<1>2. ASSUME NEW r \in Resources
      PROVE  /\ obj[r] \in Resource
             /\ obj[r].name = imported[r] /\ obj[r].value = Unset
             /\ obj[r].ref \in candidates[r] \cup {None}
  <2>1. Pointer(r) \in candidates[r] \cup {None}
    BY DEF Pointer
  <2>2. QED
    BY <1>1, <2>1 DEF Init, Applied, InitialName, Resource
<1>3. /\ obj \in [Resources -> Resource] /\ copy \in [Resources -> Resource]
      /\ seen \in [Resources -> [exists : BOOLEAN, name : Guids \cup {NoName}]]
  <2>1. obj \in [Resources -> Resource]
    BY <1>2 DEF Init
  <2>2. QED
    BY <2>1, BlankTyped DEF Init, Shown, Resource
<1>4. /\ borne \in [Resources -> SUBSET Guids]
      /\ \A r \in Resources : borne[r] = {imported[r]} \ {NoName}
  BY <1>1 DEF Init
<1>5. dip \in [Guids -> {"unborn", "live", "gone"}] /\ below \in [Guids -> Guids \cup {Unset}]
  BY DEF Init
<1>6. TypeOK
  <2>1. budget \in [Disturbances -> Nat]
    BY BudgetsAssumption DEF Init
  <2>2. QED
    BY <1>1, <1>3, <1>4, <1>5, <2>1 DEF Init, TypeOK, Phases
<1>7. Named
  BY <1>1, <1>2, <1>4 DEF Init, Named, Names, Shown
<1>8. \A r \in Resources : Carries(r)
  BY DEF Init, Carries
<1>9. ParentFirst
  BY <1>4 DEF ParentFirst
<1>10. CyclesWait
  BY <1>4 DEF CyclesWait, Bottomless
<1>11. QED
  BY <1>6, <1>7, <1>8, <1>9, <1>10 DEF Inductive

\* The invariant holds of every behaviour.
THEOREM ReferencesInvariant == Spec => []Inductive
<1>1. Init => Inductive
  BY InductiveInit
<1>2. Inductive /\ [Next]_vars => Inductive'
  BY InductiveStep
<1>3. QED
  BY <1>1, <1>2, PTL DEF Spec

\* The variables keep their types, in whatever order resources are applied,
\* deleted, recreated and pointed elsewhere.
THEOREM ReferencesTyped == Spec => []TypeOK
<1>1. Inductive => TypeOK
  BY DEF Inductive
<1>2. QED
  BY <1>1, ReferencesInvariant, PTL

\* ResolveReferences yields GUIDs of the referenced resource only, for every
\* graph of references: the name of a resource is never taken for one.
THEOREM ResolvedIsGuidAlways == Spec => []ResolvedIsGuid
<1>1. Inductive => ResolvedIsGuid
  BY DEF Inductive, Named, Names, ResolvedIsGuid
<1>2. QED
  BY <1>1, ReferencesInvariant, PTL

\* No object of a resource with a required reference is ever created without the
\* parent that the reference stands for (ResolveReferences before Create), and one
\* of a resource with an optional reference is created below such a parent or none.
THEOREM ParentFirstAlways == Spec => []ParentFirst
<1>1. Inductive => ParentFirst
  BY DEF Inductive
<1>2. QED
  BY <1>1, ReferencesInvariant, PTL

\* Resources of a cycle of required references, of any length, never get an object.
THEOREM CyclesWaitAlways == Spec => []CyclesWait
<1>1. Inductive => CyclesWait
  BY DEF Inductive
<1>2. QED
  BY <1>1, ReferencesInvariant, PTL
=============================================================================
