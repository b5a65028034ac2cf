---------------------------- MODULE LifecycleProofs ----------------------------
(***************************************************************************)
(* ManagedResource implements ResourceLifecycle, for every set of kinds,   *)
(* workers, GUIDs and values and every budget.  A step of a reconcile is   *)
(* mapped to a step of the abstract specification by what it does to the   *)
(* owned object and to the resource itself; that it may do so follows from *)
(* the invariants Safety and Naming, and from one more: a reconcile that   *)
(* drops the finalizer works on the copy of a resource being deleted.      *)
(* Once a creation was overtaken Safety and Naming are lost; the object is *)
(* then nobody's, and only what happens to the resource itself is mapped.  *)
(***************************************************************************)
EXTENDS LifecycleRefinement, ManagedResourceProofs

\* Only what is being deleted is finalized.
FinalizesDeleted == \A w \in Workers : pc[w] = "finalize" => mem[w].deleting

\* What holds always, and what holds as long as no creation was overtaken.
Lasting == Inductive /\ Standing /\ FinalizesDeleted /\ (Overtaken \/ Naming)

Calm == ~Overtaken /\ Safety /\ Naming /\ FinalizesDeleted

-----------------------------------------------------------------------------
(* The invariant. *)

\* After Observe, only a resource being deleted goes on to be finalized.
LEMMA ProceedFinalizes ==
  ASSUME TypeOK, FinalizesDeleted, NEW w \in Workers, Absent(w) \/ Present(w)
  PROVE  FinalizesDeleted'
<1>1. PICK next : /\ next = "finalize" => mem[w].deleting
                  /\ Proceed(w, next)
  <2>1. \A exists, upToDate :
          NextPhase(mem[w], exists, upToDate) = "finalize" => mem[w].deleting
    BY DEF NextPhase
  <2>2. QED
    BY <2>1, Zenon DEF Absent, Present
<1>2. CASE Goto(w, next)
  BY <1>1, <1>2 DEF Goto, End, Stop, TypeOK, FinalizesDeleted
<1>3. CASE pc' = [pc EXCEPT ![w] = "protect"] /\ UNCHANGED mem
  BY <1>3 DEF TypeOK, FinalizesDeleted
<1>4. QED
  BY <1>1, <1>2, <1>3 DEF Proceed

\* Every step keeps FinalizesDeleted.
LEMMA FinalizesStep == TypeOK /\ FinalizesDeleted /\ [Next]_vars => FinalizesDeleted'
<1> SUFFICES ASSUME TypeOK, FinalizesDeleted, [Next]_vars
             PROVE  FinalizesDeleted'
  OBVIOUS
<1>1. ASSUME NEW w \in Workers, ObserveUnnamed(w) \/ Observe(w)
      PROVE  FinalizesDeleted'
  <2>1. Absent(w) \/ Present(w) \/ End(w)
    BY <1>1 DEF ObserveUnnamed, Observe, Answered
  <2>2. CASE End(w)
    BY <2>2 DEF End, Stop, TypeOK, FinalizesDeleted
  <2>3. QED
    BY <2>1, <2>2, ProceedFinalizes
<1>2. ASSUME NEW w \in Workers,
             \/ Begin(w) \/ Resolve(w) \/ Publish(w) \/ Update(w) \/ Delete(w)
             \/ CallFails(w) \/ RemoveFinalizer(w) \/ RecordFailure(w) \/ Interrupt(w)
      PROVE  FinalizesDeleted'
  <2>1. \/ pc' = [pc EXCEPT ![w] = "observe"] /\ \A v \in Workers \ {w} : mem'[v] = mem[v]
        \/ Stop(w)
    BY <1>2, ResolveWrites DEF Begin, Publish, Update, Delete, CallFails,
       RemoveFinalizer, RecordFailure, Interrupt, Conflict, End, TypeOK
  <2>2. QED
    BY <2>1 DEF Stop, TypeOK, FinalizesDeleted
<1>3. ASSUME NEW w \in Workers, AddFinalizer(w) \/ Claim(w) \/ PersistName(w)
      PROVE  FinalizesDeleted'
  <2>1. /\ pc'[w] # "finalize"
        /\ \A v \in Workers \ {w} : pc'[v] = pc[v] /\ mem'[v] = mem[v]
    BY <1>3 DEF AddFinalizer, Claim, PersistName, WriteOwn, Conflict, End, Stop, TypeOK
  <2>2. QED
    BY <2>1 DEF FinalizesDeleted
<1>4. ASSUME NEW w \in Workers,
             CreateSucceeds(w) \/ CreateFails(w) \/ CreateReplyLost(w)
      PROVE  FinalizesDeleted'
  <2>1. /\ pc'[w] # "finalize"
        /\ \A v \in Workers \ {w} : pc'[v] = pc[v] /\ mem'[v] = mem[v]
    BY <1>4 DEF CreateSucceeds, CreateFails, CreateReplyLost, Named, Goto, TypeOK
  <2>2. QED
    BY <2>1 DEF FinalizesDeleted
<1>5. ASSUME UNCHANGED <<pc, mem>> PROVE FinalizesDeleted'
  BY <1>5 DEF FinalizesDeleted
<1>6. QED
  BY <1>1, <1>2, <1>3, <1>4, <1>5
     DEF Next, Reconcile, Environment, Sync, Edit, Remove, ClearPending, Drift, Vanish,
         FinishTermination, SecretsMissing, SecretsReturn, vars, run

\* The initial states satisfy the invariant.
LEMMA LastingInit == Init => Lasting
  BY InductiveInit, StandingInit, NamingInit DEF Init, Lasting, FinalizesDeleted

\* The invariant the refinement rests on.
LEMMA LastingInvariant == Spec => []Lasting
<1>1. Lasting /\ [Next]_vars => Lasting'
  <2> SUFFICES ASSUME Lasting, [Next]_vars
               PROVE  Lasting'
    OBVIOUS
  <2>1. TypeOK /\ Within /\ CopiesAgree
    BY DEF Lasting, Inductive
  <2>2. Inductive' /\ Standing' /\ FinalizesDeleted'
    BY <2>1, InductiveStep, StandingStep, FinalizesStep DEF Lasting
  <2>3. ~Overtaken' => Naming'
    BY <2>1, OvertakenForGood, NamingStep DEF Lasting, Inductive
  <2>4. QED
    BY <2>2, <2>3 DEF Lasting
<1>2. QED
  BY <1>1, LastingInit, PTL DEF Spec

-----------------------------------------------------------------------------
(* What the mapping makes of a state. *)

Stage == StageOf(TheObject)

StageIn(i) ==
  IF dip[i] = "terminating" THEN "ending" ELSE IF cr.name = i THEN "named" ELSE "created"

\* Without an owned object, or once a creation was overtaken, there is none.
LEMMA MappedNone == Overtaken \/ Owned = {} => TheObject = NoName /\ Stage = "none"
  BY DEF TheObject, Stage, StageOf

\* An owned object is the object.
LEMMA MappedSome ==
  ~Overtaken /\ AtMostOneObject
    => \A i \in Owned : TheObject = i /\ Stage = StageIn(i)
<1> SUFFICES ASSUME ~Overtaken, AtMostOneObject, NEW i \in Owned
             PROVE  TheObject = i /\ Stage = StageIn(i)
  OBVIOUS
<1>1. i \in Ids /\ i # NoName
  BY NamesAssumption DEF Owned
<1>2. (CHOOSE j \in Ids : j \in Owned) \in Owned
  BY <1>1
<1>3. TheObject = i
  BY <1>2 DEF TheObject, AtMostOneObject
<1>4. QED
  BY <1>1, <1>3 DEF Stage, StageOf, StageIn

\* The same of the next state.
LEMMA MappedNext ==
  /\ Overtaken' \/ Owned' = {} => TheObject' = NoName /\ Stage' = "none"
  /\ ~Overtaken' /\ AtMostOneObject'
       => \A i \in Owned' : TheObject' = i /\ Stage' = StageIn(i)'
<1>1. (Overtaken \/ Owned = {} => TheObject = NoName /\ Stage = "none")'
  BY MappedNone, PTL
<1>2. (~Overtaken /\ AtMostOneObject
         => \A i \in Owned : TheObject = i /\ Stage = StageIn(i))'
  BY MappedSome, PTL
<1>3. QED
  BY <1>1, <1>2

\* Nothing changes for the object if the same are owned, as they were.
LEMMA SameObject ==
  ASSUME Calm, Calm', Owned' = Owned,
         \A i \in Owned : dip'[i] = dip[i] /\ (cr'.name = i <=> cr.name = i)
  PROVE  TheObject' = TheObject /\ Stage' = Stage
<1>1. /\ AtMostOneObject /\ ~Overtaken
      /\ AtMostOneObject' /\ ~Overtaken'
  BY DEF Calm, Safety
<1>2. CASE Owned = {}
  BY <1>2, MappedNone, MappedNext
<1>3. ASSUME NEW i \in Owned PROVE TheObject' = TheObject /\ Stage' = Stage
  BY <1>1, <1>3, MappedSome, MappedNext DEF StageIn
<1>4. QED
  BY <1>2, <1>3

Meddling == {"vanish", "wrong4xx", "clear", "overtake"}

\* Interference is a number, which spending does not raise.
LEMMA InterferenceSpent ==
  ASSUME TypeOK
  PROVE  /\ Interference \in Nat
         /\ UNCHANGED budget => Interference' = Interference
         /\ \A f \in Faults \ Meddling :
              Spend(f) => Interference' = Interference
         /\ \A f \in Meddling :
              Spend(f) => Interference' \in Nat /\ Interference' < Interference
<1>1. budget \in [Faults -> Nat] /\ Meddling \subseteq Faults
  BY DEF TypeOK, Faults, Meddling
<1>2. QED
  BY <1>1 DEF Interference, Spend, Meddling

-----------------------------------------------------------------------------
(* The steps. *)

Refined == [Lifecycle!Next]_Lifecycle!vars

\* A step that leaves the resource, as seen from outside, and its object alone.
LEMMA Stutters ==
  ASSUME ResourceState' = ResourceState, TheObject' = TheObject, Stage' = Stage,
         Interference' = Interference
  PROVE  Refined
  BY DEF Refined, Lifecycle!vars, Stage

\* A reconcile that changes neither the resource nor an object refines.
LEMMA QuietRefines ==
  ASSUME Calm, Calm', UNCHANGED <<cr, dip, lost>>,
         Interference' = Interference
  PROVE  Refined
<1>1. Owned' = Owned
  BY DEF Owned, Alive
<1>2. QED
  BY <1>1, SameObject, Stutters DEF ResourceState

\* Interference that leaves the object as it is, or takes it away, refines.
LEMMA InterfereRefines ==
  ASSUME Calm, Calm', ResourceState' = ResourceState,
         Interference' \in Nat, Interference' < Interference,
         \/ Owned' = {}
         \/ /\ Owned' = Owned
            /\ \A i \in Owned : dip'[i] = dip[i] /\ (cr'.name = i <=> cr.name = i)
  PROVE  Refined
<1>1. \/ TheObject' = NoName /\ Stage' = "none"
      \/ TheObject' = TheObject /\ Stage' = Stage
  BY SameObject, MappedNext
<1>2. Lifecycle!Interfere
  BY <1>1 DEF Lifecycle!Interfere, Lifecycle!Becomes, Stage
<1>3. QED
  BY <1>2 DEF Refined, Lifecycle!Next

\* The owned object of an invariant state, and what the resource knows of it.
LEMMA OwnedFacts ==
  ASSUME Calm, NEW i \in Owned
  PROVE  /\ Owned = {i} /\ i \in Ids
         /\ TheObject = i /\ Stage = StageIn(i)
         /\ cr.exists /\ (cr.name = i \/ cr.mark = "pending")
  BY MappedSome DEF Calm, Safety, AtMostOneObject, AllNamed, Owned

\* The answer to Observe's GET changes nothing, unless it is wrong.
LEMMA ObserveRefines ==
  ASSUME Calm, Calm', NEW w \in Workers, Observe(w)
  PROVE  Refined
<1>0. TypeOK
  BY DEF Calm, Safety
<1>1. UNCHANGED <<cr, dip>>
  BY DEF Observe, api
<1>2. CASE UNCHANGED <<lost, budget>>
  BY <1>0, <1>1, <1>2, QuietRefines, InterferenceSpent
<1>3. CASE Spend("refuse") /\ lost' = lost
  BY <1>0, <1>1, <1>3, QuietRefines, InterferenceSpent DEF Faults, Meddling
<1>4. CASE Spend("wrong4xx") /\ lost' = lost \cup {mem[w].name}
  <2>1. Owned' = Owned \ {mem[w].name}
    BY <1>1, <1>4 DEF Owned, Alive
  <2>2. Owned' = {} \/ Owned' = Owned
    BY <2>1, OwnedFacts
  <2>3. Interference' \in Nat /\ Interference' < Interference
    BY <1>0, <1>4, InterferenceSpent DEF Meddling
  <2>4. QED
    BY <1>1, <2>2, <2>3, InterfereRefines DEF ResourceState
<1>5. QED
  BY <1>2, <1>3, <1>4 DEF Observe

\* A write that changes no more than finalizer, mark or specification of the
\* resource, and takes it on at the most, refines.
LEMMA WriteRefines ==
  ASSUME Calm, Calm', UNCHANGED <<dip, lost>>,
         cr.exists, cr'.exists, cr'.name = cr.name, cr'.deleting = cr.deleting,
         cr.finalizer => cr'.finalizer, cr'.finalizer \in BOOLEAN,
         Interference' = Interference
  PROVE  Refined
<1>1. Owned' = Owned
  BY DEF Owned, Alive
<1>2. TheObject' = TheObject /\ Stage' = Stage
  BY <1>1, SameObject
<1>3. CASE ResourceState' = ResourceState
  BY <1>2, <1>3, Stutters
<1>4. CASE ResourceState' # ResourceState
  <2>1. ResourceState = "new" /\ ResourceState' = "kept"
    BY <1>4 DEF ResourceState, Calm, Safety, TypeOK, CustomResource
  <2>2. Lifecycle!Keep
    BY <1>2, <2>1 DEF Lifecycle!Keep, Stage
  <2>3. QED
    BY <2>2 DEF Refined, Lifecycle!Next
<1>5. QED
  BY <1>3, <1>4

\* Adding the finalizer takes the resource on; claiming its creation does not
\* show from outside.
LEMMA ProtectRefines ==
  ASSUME Calm, Calm', NEW w \in Workers, AddFinalizer(w) \/ Claim(w)
  PROVE  Refined
<1>0. TypeOK /\ UNCHANGED <<dip, lost, budget>>
  BY DEF Calm, Safety, AddFinalizer, Claim, world
<1>1. Interference' = Interference
  BY <1>0, InterferenceSpent
<1>2. CASE Conflict(w)
  BY <1>0, <1>1, <1>2, QuietRefines DEF Conflict, api
<1>3. CASE ~Conflict(w)
  <2>1. \/ cr' = [cr EXCEPT !.finalizer = TRUE]
        \/ cr' = [cr EXCEPT !.mark = "pending"]
    BY <1>3 DEF AddFinalizer, Claim, Write, WriteOwn
  <2>2. w \in fresh /\ pc[w] \in {"protect", "claim"}
    BY <1>3 DEF AddFinalizer, Claim
  <2>3. cr.exists
    BY <2>2 DEF Calm, Safety, CopiesAgree, NeverServesPending, Serving
  <2>4. /\ cr'.exists = cr.exists /\ cr'.name = cr.name /\ cr'.deleting = cr.deleting
        /\ cr.finalizer => cr'.finalizer
        /\ cr'.finalizer \in BOOLEAN
    BY <1>0, <2>1 DEF TypeOK, CustomResource
  <2>5. QED
    BY <1>0, <1>1, <2>3, <2>4, WriteRefines
<1>4. QED
  BY <1>2, <1>3

\* A creation ends the time without object, unless its reply is lost.
LEMMA CreateRefines ==
  ASSUME Calm, Calm', NEW w \in Workers,
         CreateSucceeds(w) \/ CreateReplyLost(w) \/ CreateFails(w)
  PROVE  Refined
<1>0. TypeOK /\ UNCHANGED cr /\ pc[w] = "create"
  BY DEF Calm, Safety, CreateSucceeds, CreateReplyLost, CreateFails, api
<1>1. Interference' = Interference
  BY <1>0, InterferenceSpent DEF CreateSucceeds, CreateReplyLost, CreateFails, Faults, Meddling
<1>2. Owned = {} /\ cr.exists /\ cr.finalizer
  BY <1>0 DEF Calm, Safety, OnlyTheNewOne, PendingMeanwhile, Creating
<1>3. ResourceState \in {"kept", "deleting"} /\ ResourceState' = ResourceState
  BY <1>0, <1>2 DEF ResourceState
<1>4. CASE Owned' = {}
  BY <1>1, <1>2, <1>3, <1>4, MappedNone, MappedNext, Stutters
<1>5. ASSUME NEW i \in Owned' PROVE Refined
  <2>1. CreateSucceeds(w)
    <3>1. ~CreateFails(w)
      BY <1>2, <1>5 DEF CreateFails, world, Owned, Alive
    <3>2. ~CreateReplyLost(w)
      BY <1>0, <1>2, <1>5, NewIdUnborn
         DEF CreateReplyLost, Born, Owned, Alive, TypeOK
    <3>3. QED
      BY <3>1, <3>2
  <2>2. i = NewId /\ i \in Ids /\ dip'[i] = "live" /\ dip[i] = "unborn"
    BY <1>0, <1>2, <1>5, <2>1, NewIdUnborn
       DEF CreateSucceeds, Born, Owned, Alive, TypeOK
  <2>3. cr'.name # i
    BY <1>0, <2>2 DEF Calm, Naming, CopiesNameTheSame, Unborn
  <2>4. TheObject' = i /\ Stage' = "created"
    BY <1>5, <2>2, <2>3, MappedNext DEF Calm, Safety, StageIn
  <2>5. Lifecycle!Create
    BY <1>1, <1>2, <1>3, <2>2, <2>4, MappedNone
       DEF Lifecycle!Create, Lifecycle!Becomes, Stage
  <2>6. QED
    BY <2>5 DEF Refined, Lifecycle!Next
<1>6. QED
  BY <1>4, <1>5

\* Writing the annotations of a creation names its object, if it has one.
LEMMA AnnotateRefines ==
  ASSUME Calm, Calm', NEW w \in Workers, PersistName(w) \/ RecordFailure(w)
  PROVE  Refined
<1>0. TypeOK /\ UNCHANGED <<world, budget>> /\ pc[w] \in {"persist", "record"}
  BY DEF Calm, Safety, PersistName, RecordFailure
<1>1. cr.exists /\ cr.finalizer
  BY <1>0 DEF Calm, Safety, PendingMeanwhile, Creating
<1>2. \E mark \in Marks : cr' = Annotated(w, mark)
  BY <1>1 DEF PersistName, RecordFailure, WriteOwn, Write, Marks
<1>3. /\ cr'.exists = cr.exists /\ cr'.deleting = cr.deleting
      /\ cr'.finalizer = cr.finalizer /\ cr'.name = mem[w].name
  BY <1>0, <1>2 DEF Annotated, TypeOK, CustomResource
<1>4. ResourceState' = ResourceState /\ ResourceState \in {"kept", "deleting"}
  BY <1>1, <1>3 DEF ResourceState
<1>5. Owned' = Owned /\ dip' = dip /\ Interference' = Interference
  BY <1>0, InterferenceSpent DEF world, Owned, Alive
<1>6. Owned \subseteq {mem[w].name}
  BY <1>0 DEF Calm, Safety, OnlyTheNewOne
<1>7. CASE Owned = {}
  BY <1>4, <1>5, <1>7, MappedNone, MappedNext, Stutters
<1>8. ASSUME NEW i \in Owned PROVE Refined
  <2>1. i = mem[w].name /\ TheObject = i /\ Stage = StageIn(i)
    BY <1>6, <1>8, OwnedFacts
  <2>2. TheObject' = i /\ Stage' = IF dip[i] = "terminating" THEN "ending" ELSE "named"
    BY <1>3, <1>5, <1>8, <2>1, MappedNext DEF Calm, Safety, StageIn
  <2>3. CASE Stage' = Stage
    BY <1>4, <1>5, <2>1, <2>2, <2>3, Stutters
  <2>4. CASE Stage' # Stage
    <3>1. Stage = "created" /\ Stage' = "named"
      BY <2>1, <2>2, <2>4 DEF StageIn
    <3>2. Lifecycle!Name
      BY <1>4, <1>5, <2>1, <2>2, <3>1 DEF Lifecycle!Name, Lifecycle!Becomes, Stage
    <3>3. QED
      BY <3>2 DEF Refined, Lifecycle!Next
  <2>5. QED
    BY <2>3, <2>4
<1>9. QED
  BY <1>7, <1>8

\* A Delete that reaches the owned object deletes the named object of a
\* resource being deleted.
LEMMA DeleteRefines ==
  ASSUME Calm, Calm', NEW w \in Workers, Delete(w)
  PROVE  Refined
<1>0. TypeOK /\ UNCHANGED <<cr, lost, budget>> /\ pc[w] = "delete"
  BY DEF Calm, Safety, Delete, api
<1>1. Interference' = Interference /\ ResourceState' = ResourceState
  BY <1>0, InterferenceSpent DEF ResourceState
<1>2. CASE dip' = dip
  BY <1>0, <1>1, <1>2, QuietRefines
<1>3. CASE dip' # dip
  <2> DEFINE i == mem[w].name
  <2>1. PICK end \in {"terminating", "gone"} :
          i \in Ids /\ dip[i] = "live" /\ dip' = [dip EXCEPT ![i] = end]
    BY <1>3 DEF Delete
  <2>2. /\ dip'[i] = end
        /\ \A j \in Ids : j # i => dip'[j] = dip[j]
    BY <1>0, <2>1 DEF TypeOK
  <2> HIDE DEF i
  <2>3. CASE i \notin Owned
    <3>1. i \in lost
      BY <2>1, <2>3 DEF Owned, Alive
    <3>2. Owned' = Owned /\ \A j \in Owned : dip'[j] = dip[j]
      BY <1>0, <2>2, <3>1 DEF Owned, Alive
    <3>3. QED
      BY <1>0, <1>1, <3>2, SameObject, Stutters
  <2>4. CASE i \in Owned
    <3>1. Owned = {i} /\ TheObject = i /\ Stage = StageIn(i) /\ cr.exists
      BY <2>4, OwnedFacts
    <3>2. cr.name = i
      BY <1>0, <2>4 DEF Calm, Naming, CopiesNameTheSame, i
    <3>3. cr.deleting
      BY <1>0 DEF Calm, Naming, DeletedForGood
    <3>4. Stage = "named" /\ ResourceState = "deleting"
      BY <2>1, <3>1, <3>2, <3>3 DEF StageIn, ResourceState
    <3>5. \/ TheObject' = NoName /\ Stage' = "none"
          \/ TheObject' = i /\ Stage' = "ending"
      <4>1. CASE end = "gone"
        <5>1. Owned' = {}
          BY <1>0, <2>2, <3>1, <4>1 DEF Owned, Alive
        <5>2. QED
          BY <5>1, MappedNext
      <4>2. CASE end = "terminating"
        <5>1. i \in Owned'
          BY <1>0, <2>2, <2>4, <4>2 DEF Owned, Alive
        <5>2. QED
          BY <2>2, <4>2, <5>1, MappedNext DEF Calm, Safety, StageIn
      <4>3. QED
        BY <4>1, <4>2
    <3>6. Lifecycle!Delete
      BY <1>1, <3>1, <3>4, <3>5 DEF Lifecycle!Delete, Lifecycle!Becomes, Stage
    <3>7. QED
      BY <3>6 DEF Refined, Lifecycle!Next
  <2>5. QED
    BY <2>3, <2>4
<1>4. QED
  BY <1>2, <1>3

\* The resource goes when it is being deleted and has no object left.
LEMMA RemoveFinalizerRefines ==
  ASSUME Calm, Calm', NEW w \in Workers, RemoveFinalizer(w)
  PROVE  Refined
<1>0. TypeOK /\ UNCHANGED <<dip, lost, budget>> /\ pc[w] = "finalize"
  BY DEF Calm, Safety, RemoveFinalizer, world
<1>1. Interference' = Interference
  BY <1>0, InterferenceSpent
<1>2. CASE Conflict(w)
  BY <1>0, <1>1, <1>2, QuietRefines DEF Conflict, api
<1>3. CASE ~Conflict(w)
  <2>1. w \in fresh /\ cr' = [cr EXCEPT !.exists = FALSE, !.finalizer = FALSE]
    BY <1>3 DEF RemoveFinalizer, Write
  <2>2. mem[w] = cr /\ mem[w].exists /\ mem[w].deleting
    BY <1>0, <2>1
       DEF Calm, Safety, CopiesAgree, NeverServesPending, Serving, FinalizesDeleted
  <2>3. Owned = {} /\ Owned' = {}
    BY <1>0, <2>1 DEF Calm, Safety, AbsentWhenFresh, Leaving, Owned, Alive
  <2>4. ResourceState = "deleting" /\ ResourceState' = "gone"
    BY <1>0, <2>1, <2>2 DEF ResourceState, TypeOK, CustomResource
  <2>5. Lifecycle!Leave
    BY <1>1, <2>3, <2>4, MappedNone, MappedNext DEF Lifecycle!Leave, Stage
  <2>6. QED
    BY <2>5 DEF Refined, Lifecycle!Next
<1>4. QED
  BY <1>2, <1>3

\* kubectl apply is not seen from outside.
LEMMA EditRefines ==
  ASSUME Calm, Calm', Edit
  PROVE  Refined
<1>0. TypeOK /\ cr.exists
  BY DEF Calm, Safety, Edit
<1>1. Interference' = Interference
  BY <1>0, InterferenceSpent DEF Edit, Faults, Meddling
<1>2. PICK new : /\ cr' = new
                 /\ new.exists = cr.exists /\ new.deleting = cr.deleting
                 /\ new.finalizer = cr.finalizer /\ new.name = cr.name
  BY <1>0, EditWrites DEF Write
<1>3. UNCHANGED <<dip, lost>> /\ cr.finalizer \in BOOLEAN
  BY <1>0, EditWrites DEF TypeOK, CustomResource
<1>4. QED
  BY <1>0, <1>1, <1>2, <1>3, WriteRefines

\* Nor is the resolution of a reference, unless it overtakes a creation.
LEMMA ResolveRefines ==
  ASSUME Calm, Calm', Within, allowed' = allowed, NEW w \in Workers, Resolve(w)
  PROVE  Refined
<1>0. TypeOK /\ TypeOK'
  BY DEF Calm, Safety
<1>1. cr.mark # "pending"
  BY <1>0, ResolveCalm DEF Calm
<1>2. Interference' = Interference
  BY <1>0, <1>1, InterferenceSpent DEF Resolve, Overtakes
<1>3. /\ cr.exists /\ cr'.exists = cr.exists /\ cr'.name = cr.name
      /\ cr'.deleting = cr.deleting /\ cr'.finalizer = cr.finalizer
      /\ UNCHANGED <<dip, lost>> /\ cr.finalizer \in BOOLEAN
  BY <1>0, ResolveWrites DEF TypeOK, CustomResource
<1>4. QED
  BY <1>2, <1>3, WriteRefines

\* kubectl delete asks for the deletion, or abandons what was not taken on.
LEMMA RemoveRefines ==
  ASSUME Calm, Calm', Remove
  PROVE  Refined
<1>0. TypeOK /\ dip' = dip /\ cr.exists /\ ~cr.deleting
  BY DEF Calm, Safety, Remove
<1>1. Interference' = Interference
  BY <1>0, InterferenceSpent DEF Remove, Faults, Meddling
<1>2. CASE cr.finalizer
  <2>1. cr' = [cr EXCEPT !.deleting = TRUE] /\ lost' = lost
    BY <1>2 DEF Remove, Write
  <2>2. cr'.exists /\ cr'.deleting /\ cr'.name = cr.name
    BY <1>0, <2>1 DEF TypeOK, CustomResource
  <2>3. Owned' = Owned
    BY <1>0, <2>1 DEF Owned, Alive
  <2>4. TheObject' = TheObject /\ Stage' = Stage
    BY <1>0, <2>2, <2>3, SameObject
  <2>5. ResourceState = "kept" /\ ResourceState' = "deleting"
    BY <1>0, <1>2, <2>2 DEF ResourceState
  <2>6. Lifecycle!AskForDeletion
    BY <1>1, <2>4, <2>5 DEF Lifecycle!AskForDeletion, Stage
  <2>7. QED
    BY <2>6 DEF Refined, Lifecycle!Next
<1>3. CASE ~cr.finalizer
  <2>1. /\ cr' = [cr EXCEPT !.exists = FALSE]
        /\ lost' = lost \cup ({cr.name} \cap Ids)
    BY <1>3 DEF Remove, Write
  <2>2. \A i \in Owned : i = cr.name
    BY <1>0, <1>3 DEF Calm, Safety, AllNamed, PendingIsProtected
  <2>3. Owned' = {}
    BY <1>0, <2>1, <2>2 DEF Owned, Alive
  <2>4. ResourceState = "new" /\ ResourceState' = "gone"
    BY <1>0, <1>3, <2>1 DEF ResourceState, TypeOK, CustomResource
  <2>5. Lifecycle!Abandon
    BY <1>1, <2>3, <2>4, MappedNext DEF Lifecycle!Abandon, Lifecycle!Becomes, Stage
  <2>6. QED
    BY <2>5 DEF Refined, Lifecycle!Next
<1>4. QED
  BY <1>2, <1>3

\* The operator, or somebody in the DIP console, interferes.
LEMMA MeddlingRefines ==
  ASSUME Calm, Calm', ClearPending \/ Vanish
  PROVE  Refined
<1>0. TypeOK
  BY DEF Calm, Safety
<1>1. Interference' \in Nat /\ Interference' < Interference
  BY <1>0, InterferenceSpent DEF ClearPending, Vanish, Meddling
<1>2. CASE ClearPending
  <2>1. /\ cr' = [cr EXCEPT !.mark = "none"] /\ dip' = dip
        /\ lost' = lost \cup {i \in Ids : Alive(i) /\ i # cr.name}
    BY <1>2 DEF ClearPending, Write
  <2>2. /\ cr'.exists = cr.exists /\ cr'.name = cr.name /\ cr'.deleting = cr.deleting
        /\ cr'.finalizer = cr.finalizer
    BY <1>0, <2>1 DEF TypeOK, CustomResource
  <2>3. Owned' = Owned \cap {cr.name}
    BY <2>1 DEF Owned, Alive
  <2>4. Owned' = {} \/ Owned' = Owned
    BY <2>3, OwnedFacts
  <2>5. ResourceState' = ResourceState
    BY <2>2 DEF ResourceState
  <2>6. QED
    BY <1>1, <2>1, <2>2, <2>4, <2>5, InterfereRefines
<1>3. CASE Vanish
  <2>1. UNCHANGED <<cr, lost>>
    BY <1>3 DEF Vanish, api
  <2>2. PICK i \in Ids : dip[i] = "live" /\ dip' = [dip EXCEPT ![i] = "gone"]
    BY <1>3 DEF Vanish
  <2>3. dip'[i] = "gone" /\ \A j \in Ids : j # i => dip'[j] = dip[j]
    BY <1>0, <2>2 DEF TypeOK
  <2>4. Owned' = Owned \ {i}
    BY <2>1, <2>3 DEF Owned, Alive
  <2>5. \/ Owned' = {}
        \/ Owned' = Owned /\ \A j \in Owned : dip'[j] = dip[j]
    <3>1. CASE i \in Owned
      BY <2>4, <3>1, OwnedFacts
    <3>2. CASE i \notin Owned
      BY <2>3, <2>4, <3>2 DEF Owned
    <3>3. QED
      BY <3>1, <3>2
  <2>6. ResourceState' = ResourceState
    BY <2>1 DEF ResourceState
  <2>7. QED
    BY <1>1, <2>1, <2>5, <2>6, InterfereRefines
<1>4. QED
  BY <1>2, <1>3

\* DIP ends what it was deleting.
LEMMA FinishRefines ==
  ASSUME Calm, Calm', FinishTermination
  PROVE  Refined
<1>0. TypeOK /\ UNCHANGED <<cr, lost, budget>>
  BY DEF Calm, Safety, FinishTermination, api
<1>1. Interference' = Interference /\ ResourceState' = ResourceState
  BY <1>0, InterferenceSpent DEF ResourceState
<1>2. PICK i \in Ids : dip[i] = "terminating" /\ dip' = [dip EXCEPT ![i] = "gone"]
  BY DEF FinishTermination
<1>3. dip'[i] = "gone" /\ \A j \in Ids : j # i => dip'[j] = dip[j]
  BY <1>0, <1>2 DEF TypeOK
<1>4. Owned' = Owned \ {i}
  BY <1>0, <1>3 DEF Owned, Alive
<1>5. CASE i \in Owned
  <2>1. Owned' = {} /\ Stage = "ending"
    BY <1>2, <1>4, <1>5, OwnedFacts DEF StageIn
  <2>2. Lifecycle!Finish
    BY <1>1, <2>1, MappedNext DEF Lifecycle!Finish, Lifecycle!Becomes, Stage
  <2>3. QED
    BY <2>2 DEF Refined, Lifecycle!Next
<1>6. CASE i \notin Owned
  <2>1. Owned' = Owned /\ \A j \in Owned : dip'[j] = dip[j]
    BY <1>3, <1>4, <1>6 DEF Owned
  <2>2. QED
    BY <1>0, <1>1, <2>1, SameObject, Stutters
<1>7. QED
  BY <1>5, <1>6

\* As long as no creation was overtaken, every step refines.
LEMMA CalmRefines ==
  ASSUME Calm, Calm', Within, [Next]_vars
  PROVE  Refined
<1>0. TypeOK /\ allowed' = allowed
  BY KindKept DEF Calm, Safety
<1>1. ASSUME UNCHANGED <<cr, dip, lost>>,
             \/ UNCHANGED budget
             \/ \E f \in Faults \ Meddling : Spend(f)
      PROVE  Refined
  BY <1>0, <1>1, QuietRefines, InterferenceSpent
<1>2. ASSUME NEW w \in Workers,
             \/ Begin(w) \/ ObserveUnnamed(w) \/ Publish(w) \/ Update(w)
             \/ CallFails(w) \/ Sync(w) \/ Interrupt(w)
      PROVE  Refined
  BY <1>1, <1>2 DEF Begin, ObserveUnnamed, Publish, Update, CallFails, Sync, Interrupt,
     api, world, Faults, Meddling
<1>3. ASSUME NEW w \in Workers, Reconcile(w) PROVE Refined
  BY <1>0, <1>2, <1>3, ResolveRefines, ObserveRefines, ProtectRefines, CreateRefines,
     AnnotateRefines, DeleteRefines, RemoveFinalizerRefines, Zenon DEF Reconcile
<1>4. CASE Drift \/ SecretsMissing \/ SecretsReturn
  BY <1>1, <1>4 DEF Drift, SecretsMissing, SecretsReturn, api, world, Faults, Meddling
<1>5. CASE Environment
  BY <1>4, <1>5, EditRefines, RemoveRefines, MeddlingRefines, FinishRefines, Zenon
     DEF Environment
<1>6. CASE UNCHANGED vars
  BY <1>1, <1>6 DEF vars, api, world
<1>7. QED
  BY <1>2, <1>3, <1>5, <1>6 DEF Next

\* What may become of the resource, whatever became of its object.
Moves == {<<"new", "kept">>, <<"kept", "deleting">>, <<"deleting", "gone">>,
          <<"new", "gone">>}

\* The resource, as seen from outside, follows from three of its fields.
LEMMA SameState ==
  ASSUME cr'.exists = cr.exists, cr'.deleting = cr.deleting,
         cr'.finalizer = cr.finalizer
  PROVE  ResourceState' = ResourceState
  BY DEF ResourceState

\* Whoever acts, the resource goes its way, and only when nobody interferes.
LEMMA ResourceMoves ==
  ASSUME Lasting, [Next]_vars, ResourceState' # ResourceState
  PROVE  <<ResourceState, ResourceState'>> \in Moves /\ Interference' = Interference
<1>0. TypeOK /\ CopiesAgree /\ Standing /\ cr \in CustomResource
  BY DEF Lasting, Inductive, TypeOK
<1>1. ASSUME NEW w \in Workers, AddFinalizer(w)
      PROVE  <<ResourceState, ResourceState'>> \in Moves /\ Interference' = Interference
  <2>1. w \in fresh /\ cr' = [cr EXCEPT !.finalizer = TRUE] /\ pc[w] = "protect"
    BY <1>1, SameState DEF AddFinalizer, Conflict, api, Write, WriteOwn
  <2>2. cr.exists
    BY <1>0, <2>1 DEF CopiesAgree, Standing, Serving
  <2>3. /\ cr'.exists = cr.exists /\ cr'.deleting = cr.deleting /\ cr'.finalizer
        /\ cr.finalizer \in BOOLEAN
    BY <1>0, <2>1 DEF CustomResource
  <2>4. ResourceState = "new" /\ ResourceState' = "kept"
    BY <2>2, <2>3 DEF ResourceState
  <2>5. QED
    BY <1>0, <1>1, <2>4, InterferenceSpent DEF AddFinalizer, Moves
<1>2. ASSUME NEW w \in Workers, RemoveFinalizer(w)
      PROVE  <<ResourceState, ResourceState'>> \in Moves /\ Interference' = Interference
  <2>1. /\ w \in fresh /\ cr' = [cr EXCEPT !.exists = FALSE, !.finalizer = FALSE]
        /\ pc[w] = "finalize"
    BY <1>2, SameState DEF RemoveFinalizer, Conflict, api, Write
  <2>2. cr.exists /\ cr.deleting
    BY <1>0, <2>1 DEF CopiesAgree, Standing, Serving, Lasting, FinalizesDeleted
  <2>3. ResourceState = "deleting" /\ ResourceState' = "gone"
    BY <1>0, <2>1, <2>2 DEF ResourceState, CustomResource
  <2>4. QED
    BY <1>0, <1>2, <2>3, InterferenceSpent DEF RemoveFinalizer, Moves
<1>3. CASE Remove
  <2>1. /\ cr.exists /\ ~cr.deleting
        /\ IF cr.finalizer THEN cr' = [cr EXCEPT !.deleting = TRUE]
           ELSE cr' = [cr EXCEPT !.exists = FALSE]
    BY <1>3 DEF Remove, Write
  <2>2. <<ResourceState, ResourceState'>> \in Moves
    BY <1>0, <2>1 DEF ResourceState, CustomResource, Moves
  <2>3. QED
    BY <1>0, <1>3, <2>2, InterferenceSpent DEF Remove, Faults, Meddling
<1>4. ASSUME NEW w \in Workers,
             Resolve(w) \/ Claim(w) \/ RecordFailure(w) \/ PersistName(w)
      PROVE  FALSE
  <2>1. \/ cr' = cr
        \/ cr' = [cr EXCEPT !.mark = "pending"]
        \/ \E mark \in Marks : cr' = Annotated(w, mark)
        \/ Resolve(w)
    BY <1>4 DEF Claim, RecordFailure, PersistName, Conflict, api, Write, WriteOwn, Marks
  <2>2. /\ cr'.exists = cr.exists /\ cr'.deleting = cr.deleting
        /\ cr'.finalizer = cr.finalizer
    BY <1>0, <2>1, ResolveWrites DEF Annotated, CustomResource
  <2>3. QED
    BY <2>2, SameState
<1>5. CASE Edit \/ ClearPending
  <2>1. /\ cr'.exists = cr.exists /\ cr'.deleting = cr.deleting
        /\ cr'.finalizer = cr.finalizer
    BY <1>0, <1>5, EditWrites DEF ClearPending, Write, CustomResource
  <2>2. QED
    BY <2>1, SameState
<1>6. cr' # cr
  BY SameState
<1>7. QED
  BY <1>1, <1>2, <1>3, <1>4, <1>5, <1>6
     DEF Next, Reconcile, Environment, Sync, Interrupt, Begin, ObserveUnnamed, Observe,
         CreateSucceeds, CreateFails, CreateReplyLost, Publish, Update, Delete, CallFails,
         Drift, Vanish, FinishTermination, SecretsMissing, SecretsReturn, vars, api

\* Interference is spent, and an overtaking resolution spends some.
LEMMA InterferenceFalls ==
  ASSUME Lasting, [Next]_vars
  PROVE  /\ Interference' \in Nat /\ Interference' <= Interference
         /\ ~Overtaken /\ Overtaken' => Interference' < Interference
<1>1. TypeOK /\ TypeOK' /\ allowed' = allowed /\ Meddling \subseteq Faults
  BY TypeStep, KindKept DEF Lasting, Inductive, Meddling, Faults
<1>2. \A f \in Meddling : /\ budget[f] \in Nat /\ budget'[f] \in Nat
                          /\ budget'[f] <= budget[f]
  BY <1>1, BudgetFalls DEF TypeOK
<1>3. ~Overtaken /\ Overtaken' => budget'["overtake"] < budget["overtake"]
  BY <1>1, <1>2, BudgetsAssumption DEF Overtaken, Spent, Meddling, TypeOK
<1>4. QED
  BY <1>2, <1>3 DEF Interference, Meddling

LEMMA LastingCounts == Lasting => Interference \in Nat
  BY InterferenceSpent DEF Lasting, Inductive

\* From the step on that overtakes a creation there is only the resource.
LEMMA OvertakenRefines ==
  ASSUME Lasting, [Next]_vars, Overtaken'
  PROVE  Refined
<1>1. TheObject' = NoName /\ Stage' = "none"
  BY MappedNext
<1>2. CASE ResourceState' = ResourceState /\ Interference' < Interference
  <2>1. Lifecycle!Interfere
    BY <1>1, <1>2, InterferenceFalls
       DEF Lifecycle!Interfere, Lifecycle!Becomes, Stage
  <2>2. QED
    BY <2>1 DEF Refined, Lifecycle!Next
<1>3. CASE Overtaken
  <2>1. TheObject = NoName /\ Stage = "none"
    BY <1>3, MappedNone
  <2>2. CASE ResourceState' # ResourceState
    <3>1. Lifecycle!Keep \/ Lifecycle!AskForDeletion \/ Lifecycle!Leave \/ Lifecycle!Abandon
      BY <1>1, <2>1, <2>2, ResourceMoves
         DEF Moves, Lifecycle!Keep, Lifecycle!AskForDeletion, Lifecycle!Leave,
             Lifecycle!Abandon, Lifecycle!Becomes, Stage
    <3>2. QED
      BY <3>1 DEF Refined, Lifecycle!Next
  <2>3. CASE ResourceState' = ResourceState /\ Interference' = Interference
    BY <1>1, <2>1, <2>3, Stutters
  <2>4. Interference' = Interference \/ Interference' < Interference
    BY InterferenceFalls, LastingCounts
  <2>5. QED
    BY <1>2, <2>2, <2>3, <2>4
<1>4. CASE ~Overtaken
  BY <1>2, <1>4, InterferenceFalls, ResourceMoves, LastingCounts
<1>5. QED
  BY <1>3, <1>4

\* Every step of ManagedResource is one of ResourceLifecycle, or a stutter.
LEMMA StepRefines == Lasting /\ Lasting' /\ [Next]_vars => Refined
<1> SUFFICES ASSUME Lasting, Lasting', [Next]_vars
             PROVE  Refined
  OBVIOUS
<1>1. CASE Overtaken'
  BY <1>1, OvertakenRefines
<1>2. CASE ~Overtaken'
  <2>1. ~Overtaken
    BY <1>2, OvertakenForGood DEF Lasting, Inductive
  <2>2. Calm /\ Calm' /\ Within
    BY <1>2, <2>1 DEF Lasting, Inductive, Calm
  <2>3. QED
    BY <2>2, CalmRefines
<1>3. QED
  BY <1>1, <1>2

\* A resource starts as one the provider has not taken on, with the object it
\* imports or with none.
LEMMA InitRefines == Init => Lifecycle!Init
<1> SUFFICES ASSUME Init
             PROVE  Lifecycle!Init
  OBVIOUS
<1>1. Calm
  <2>1. ~Overtaken
    BY BudgetsAssumption DEF Init, Overtaken, Spent, Faults
  <2>2. QED
    BY <2>1, SafetyInit, LastingInit DEF Calm, Lasting
<1>2. PICK n \in Imported :
        /\ cr.exists /\ ~cr.deleting /\ ~cr.finalizer /\ cr.name = n
        /\ dip = [i \in Ids |-> IF i = n THEN "live" ELSE "unborn"]
  BY DEF Init
<1>3. ResourceState = "new" /\ cr.name = n
  BY <1>2 DEF ResourceState
<1>4. Interference \in Nat
  BY <1>1, InterferenceSpent DEF Calm, Safety
<1>5. \/ Stage = "none" /\ TheObject = NoName
      \/ Stage = "named" /\ TheObject \in Ids
  <2>1. CASE Owned = {}
    BY <2>1, MappedNone
  <2>2. ASSUME NEW i \in Owned PROVE Stage = "named" /\ TheObject \in Ids
    <3>1. i \in Ids /\ TheObject = i /\ Stage = StageIn(i)
      BY <1>1, <2>2, OwnedFacts
    <3>2. i = n /\ dip[i] = "live"
      BY <1>2, <2>2 DEF Owned, Alive
    <3>3. QED
      BY <1>3, <3>1, <3>2 DEF StageIn
  <2>3. QED
    BY <2>1, <2>2
<1>6. QED
  BY <1>3, <1>4, <1>5 DEF Lifecycle!Init, Stage

\* ManagedResource implements ResourceLifecycle: whatever is interrupted, lost,
\* stale or raced, a resource seen from outside leads the plain life that the
\* controllers promise (Observe, Create, Delete and the writes around them).
THEOREM ImplementsLifecycle == Spec => LifecycleRefined
<1>1. Init => Lifecycle!Init
  BY InitRefines
<1>2. Lasting /\ Lasting' /\ [Next]_vars => [Lifecycle!Next]_Lifecycle!vars
  BY StepRefines DEF Refined
<1>3. QED
  BY <1>1, <1>2, LastingInvariant, PTL DEF Spec, LifecycleRefined, Lifecycle!Spec
=============================================================================
