------------------------ MODULE ManagedResourceProofs ------------------------
(***************************************************************************)
(* Safety of ManagedResource for every set of kinds, workers, GUIDs and    *)
(* values and every budget.                                                *)
(*                                                                         *)
(* AllNamed and AtMostOneObject hold until the resolution of a reference   *)
(* overtakes a creation, and are not inductive by themselves.  Whether a   *)
(* creation may start is decided on a copy of the resource, so the         *)
(* invariant has to say what a copy is worth: one that still has the       *)
(* newest resourceVersion equals the resource (CopiesAgree), and if its    *)
(* reconcile is on its way to create, or to drop the finalizer, then DIP   *)
(* has no object of the resource (AbsentWhenFresh).  A creation makes the  *)
(* resource create-pending and keeps it so until its outcome is written    *)
(* (PendingMeanwhile), which excludes every other creation (OneCreator),   *)
(* because no reconcile works on a pending copy (NeverServesPending).      *)
(*                                                                         *)
(* What holds beyond that is shown by counting: each overtaking resolution *)
(* lets one more process past the mark (FewInside), and the objects alive, *)
(* the creations that may still add one and the place of the object that   *)
(* is missing are together one more than the mishaps (FewStray).           *)
(***************************************************************************)
EXTENDS ManagedResource, FiniteSetTheorems, TLAPS

\* At most one process is inside a creation.
OneCreator == \A v, w \in Workers : Creating(v) /\ Creating(w) => v = w

Serving == {"observe", "protect", "claim", "update", "delete", "finalize"}

CopiesAgree ==
  /\ \A w \in synced : cache[w] = cr
  /\ \A w \in fresh : pc[w] # "idle" /\ (pc[w] # "persist" => mem[w] = cr)

PendingMeanwhile ==
  \A w \in Workers :
    Creating(w) => cr.exists /\ cr.finalizer /\ cr.mark = "pending"

NeverServesPending ==
  \A w \in Workers :
    /\ pc[w] \in Serving => mem[w].exists /\ mem[w].mark # "pending"
    /\ pc[w] = "claim" => mem[w].finalizer

PendingIsProtected == cr.exists /\ cr.mark = "pending" => cr.finalizer

\* Before Create has answered DIP has no object, afterwards at most the new one.
OnlyTheNewOne ==
  \A w \in Workers :
    /\ pc[w] \in {"create", "record"} => Owned = {}
    /\ pc[w] = "persist" => Owned \subseteq {mem[w].name}

\* On its way to a creation, or to the end of the resource.
Leaving(w) ==
  pc[w] \in {"claim", "finalize"} \/ (pc[w] = "protect" /\ plan[w] = "claim")

AbsentWhenFresh == \A w \in fresh : Leaving(w) => Owned = {}

Safety ==
  /\ TypeOK
  /\ CopiesAgree
  /\ PendingMeanwhile
  /\ NeverServesPending
  /\ PendingIsProtected
  /\ OneCreator
  /\ OnlyTheNewOne
  /\ AbsentWhenFresh
  /\ AllNamed
  /\ AtMostOneObject

-----------------------------------------------------------------------------
(* Types. *)

\* Kind and scenario never change, and with the kind neither do the types it
\* determines.
LEMMA KindKept ==
  [Next]_vars => kind' = kind /\ allowed' = allowed /\ CustomResource' = CustomResource
<1>1. [Next]_vars => kind' = kind /\ allowed' = allowed
  BY DEF Next, Reconcile, Environment, Begin, Resolve, ObserveUnnamed, Observe, AddFinalizer,
     Claim, CreateSucceeds, CreateFails, CreateReplyLost, RecordFailure, PersistName,
     Publish, Update, Delete, CallFails, RemoveFinalizer, Sync, Interrupt, Edit,
     Remove, ClearPending, Drift, Vanish, FinishTermination, SecretsMissing,
     SecretsReturn, vars
<1>2. QED
  BY <1>1 DEF CustomResource, Parameters

\* The copy a reconcile drops is replaced by a resource without content.
LEMMA BlankTyped == Blank \in CustomResource
  BY DEF Blank, CustomResource, Parameters, Marks

\* NewId is a GUID DIP has not handed out, if there is one.
LEMMA NewIdUnborn ==
  ASSUME \E i \in Ids : dip[i] = "unborn"
  PROVE  NewId \in Ids /\ dip[NewId] = "unborn"
  BY Zenon DEF NewId

\* What an action makes of the resource is a resource.
LEMMA WrittenTyped ==
  ASSUME NEW r \in CustomResource
  PROVE  /\ \A b \in BOOLEAN : /\ [r EXCEPT !.finalizer = b] \in CustomResource
                               /\ [r EXCEPT !.deleting = b] \in CustomResource
                               /\ [r EXCEPT !.exists = b] \in CustomResource
         /\ \A m \in Marks : [r EXCEPT !.mark = m] \in CustomResource
         /\ \A n \in Ids \cup {NoName, BadName} :
              [r EXCEPT !.name = n] \in CustomResource
         /\ \A f \in kind.fields, v \in Values \cup {Unset} :
              [r EXCEPT !.spec[f] = v] \in CustomResource
  BY DEF CustomResource, Parameters

\* The annotations that Create leaves are those of a resource.
LEMMA AnnotatedTyped ==
  ASSUME TypeOK, NEW w \in Workers, NEW mark \in Marks
  PROVE  Annotated(w, mark) \in CustomResource
<1>1. mem[w].name \in Ids \cup {NoName, BadName}
  BY DEF TypeOK, CustomResource
<1>2. QED
  BY <1>1 DEF TypeOK, Annotated, CustomResource

\* A request has one value, or none, for every parameter.
LEMMA RequestTyped ==
  ASSUME NEW r \in CustomResource, NEW sends, NEW old \in Parameters,
         NEW clears \in BOOLEAN
  PROVE  /\ Request(r.spec, sends) \in Parameters
         /\ Applied(Request(r.spec, sends), old, clears) \in Parameters
  BY DEF CustomResource, Parameters, Request, Applied

\* Spending one of a budget leaves a budget.
LEMMA SpendTyped ==
  ASSUME budget \in [Faults -> Nat], NEW fault \in Faults, Spend(fault)
  PROVE  budget' \in [Faults -> Nat]
  BY DEF Spend

\* Going to another phase, or ending, touches the own copy only and keeps
\* the types.
LEMMA GotoTyped ==
  ASSUME TypeOK, NEW w \in Workers, NEW phase \in Phases, Goto(w, phase),
         CustomResource' = CustomResource
  PROVE  /\ mem' \in [Workers -> CustomResource]
         /\ fresh' \subseteq Workers
         /\ pc' \in [Workers -> Phases]
         /\ plan' \in [Workers -> {"idle", "claim", "update"}]
  BY BlankTyped DEF TypeOK, Goto, End, Stop, Phases

\* What follows Observe is one of five phases, two of which may be planned.
LEMMA NextPhases ==
  ASSUME NEW copy, NEW exists, NEW upToDate
  PROVE  /\ NextPhase(copy, exists, upToDate)
              \in {"idle", "claim", "update", "delete", "finalize"}
         /\ ~copy.deleting
              => NextPhase(copy, exists, upToDate) \in {"idle", "claim", "update"}
  BY DEF NextPhase

\* Going on after Observe, by way of the finalizer or not, keeps the types.
LEMMA ProceedTyped ==
  ASSUME TypeOK, NEW w \in Workers,
         NEW next \in {"idle", "claim", "update", "delete", "finalize"},
         ~mem[w].deleting => next \in {"idle", "claim", "update"},
         Proceed(w, next), CustomResource' = CustomResource
  PROVE  /\ mem' \in [Workers -> CustomResource]
         /\ fresh' \subseteq Workers
         /\ pc' \in [Workers -> Phases]
         /\ plan' \in [Workers -> {"idle", "claim", "update"}]
<1>1. CASE mem[w].deleting \/ mem[w].finalizer
  BY <1>1, GotoTyped DEF Proceed, Phases
<1>2. CASE ~(mem[w].deleting \/ mem[w].finalizer)
  BY <1>2 DEF Proceed, TypeOK, Phases
<1>3. QED
  BY <1>1, <1>2

\* Whichever of the two answers Observe finds, the types are kept.
LEMMA FoundTyped ==
  ASSUME TypeOK, NEW w \in Workers, Absent(w) \/ Present(w),
         CustomResource' = CustomResource
  PROVE  /\ mem' \in [Workers -> CustomResource]
         /\ fresh' \subseteq Workers
         /\ pc' \in [Workers -> Phases]
         /\ plan' \in [Workers -> {"idle", "claim", "update"}]
<1>1. PICK next : /\ next \in {"idle", "claim", "update", "delete", "finalize"}
                  /\ ~mem[w].deleting => next \in {"idle", "claim", "update"}
                  /\ Proceed(w, next)
  BY NextPhases, Zenon DEF Absent, Present
<1>2. QED
  BY <1>1, ProceedTyped

\* Whatever the status of its GET, Observe keeps the types.
LEMMA AnsweredTyped ==
  ASSUME TypeOK, NEW w \in Workers, NEW status \in {200, 400, 404, 500},
         Answered(w, status), CustomResource' = CustomResource
  PROVE  /\ mem' \in [Workers -> CustomResource]
         /\ fresh' \subseteq Workers
         /\ pc' \in [Workers -> Phases]
         /\ plan' \in [Workers -> {"idle", "claim", "update"}]
<1>1. CASE Absent(w) \/ Present(w)
  BY <1>1, FoundTyped
<1>2. CASE End(w)
  BY <1>2, GotoTyped DEF Goto, Phases
<1>3. QED
  BY <1>1, <1>2 DEF Answered

\* Every step keeps the types.
LEMMA TypeStep == TypeOK /\ [Next]_vars => TypeOK'
<1> SUFFICES ASSUME TypeOK, [Next]_vars
             PROVE  TypeOK'
  OBVIOUS
<1>0. /\ kind' = kind /\ allowed' = allowed
      /\ CustomResource' = CustomResource
      /\ Parameters' = Parameters
  BY KindKept DEF Parameters
<1>1. ASSUME NEW w \in Workers, Begin(w) PROVE TypeOK'
  BY <1>0, <1>1 DEF TypeOK, Begin, api, world, Phases
<1>2. ASSUME NEW w \in Workers, ObserveUnnamed(w) PROVE TypeOK'
  BY <1>0, <1>2, FoundTyped DEF TypeOK, ObserveUnnamed, api, world
<1>3. ASSUME NEW w \in Workers, Observe(w) PROVE TypeOK'
  <2>1. budget' \in [Faults -> Nat] /\ lost' \subseteq Ids
    BY <1>3, SpendTyped DEF Observe, TypeOK, Faults
  <2>2. PICK status \in {200, 400, 404, 500} : Answered(w, status)
    BY <1>3 DEF Observe
  <2>3. QED
    BY <1>0, <1>3, <2>1, <2>2, AnsweredTyped DEF TypeOK, Observe, api
<1>4. ASSUME NEW w \in Workers, AddFinalizer(w) PROVE TypeOK'
  <2> DEFINE protected == [cr EXCEPT !.finalizer = TRUE]
  <2>1. protected \in CustomResource
    BY WrittenTyped DEF TypeOK
  <2>2. CASE WriteOwn(w, protected) /\ pc' = [pc EXCEPT ![w] = plan[w]]
             /\ plan' = [plan EXCEPT ![w] = "idle"]
    BY <1>0, <1>4, <2>1, <2>2 DEF TypeOK, AddFinalizer, WriteOwn, world, Phases
  <2>3. CASE Write(protected) /\ Stop(w)
    BY <1>0, <1>4, <2>1, <2>3, BlankTyped
       DEF TypeOK, AddFinalizer, Write, Stop, world, Phases
  <2>4. CASE Conflict(w)
    BY <1>0, <1>4, <2>4, BlankTyped
       DEF TypeOK, AddFinalizer, Conflict, Stop, End, api, world, Phases
  <2>5. QED
    BY <1>4, <2>2, <2>3, <2>4 DEF AddFinalizer
<1>5. ASSUME NEW w \in Workers, Claim(w) PROVE TypeOK'
  <2> DEFINE claimed == [cr EXCEPT !.mark = "pending"]
  <2>1. claimed \in CustomResource
    BY WrittenTyped DEF TypeOK, Marks
  <2>2. CASE WriteOwn(w, claimed) /\ pc' = [pc EXCEPT ![w] = "create"] /\ plan' = plan
    BY <1>0, <1>5, <2>1, <2>2 DEF TypeOK, Claim, WriteOwn, world, Phases
  <2>3. CASE Conflict(w)
    BY <1>0, <1>5, <2>3, BlankTyped
       DEF TypeOK, Claim, Conflict, Stop, End, api, world, Phases
  <2>4. QED
    BY <1>5, <2>2, <2>3 DEF Claim
<1>6. ASSUME NEW w \in Workers, CreateSucceeds(w) PROVE TypeOK'
  <2>1. NewId \in Ids
    BY <1>6, NewIdUnborn DEF CreateSucceeds, Named, Born
  <2>2. mem' \in [Workers -> CustomResource]
    BY <1>0, <1>6, <2>1, WrittenTyped DEF TypeOK, CreateSucceeds, Named
  <2>3. remote' \in [Ids -> Parameters]
    BY <1>6, RequestTyped DEF TypeOK, CreateSucceeds, Named, Born
  <2>4. QED
    BY <1>0, <1>6, <2>2, <2>3 DEF TypeOK, CreateSucceeds, Named, Born, api, Phases
<1>7. ASSUME NEW w \in Workers, CreateFails(w) PROVE TypeOK'
  <2>1. budget' \in [Faults -> Nat]
    BY <1>7, SpendTyped DEF CreateFails, TypeOK, Faults
  <2>2. QED
    BY <1>0, <1>7, <2>1, GotoTyped DEF TypeOK, CreateFails, api, world, Phases
<1>8. ASSUME NEW w \in Workers, CreateReplyLost(w) PROVE TypeOK'
  <2>1. NewId \in Ids
    BY <1>8, NewIdUnborn DEF CreateReplyLost, Born
  <2>2. budget' \in [Faults -> Nat]
    BY <1>8, SpendTyped DEF CreateReplyLost, TypeOK, Faults
  <2>3. remote' \in [Ids -> Parameters]
    BY <1>8, RequestTyped DEF TypeOK, CreateReplyLost, Born
  <2>4. QED
    BY <1>0, <1>8, <2>1, <2>2, <2>3, GotoTyped
       DEF TypeOK, CreateReplyLost, Born, api, Phases
<1>9. ASSUME NEW w \in Workers, RecordFailure(w) PROVE TypeOK'
  <2>1. Annotated(w, "failed") \in CustomResource
    BY AnnotatedTyped DEF Marks
  <2>2. QED
    BY <1>0, <1>9, <2>1, BlankTyped
       DEF TypeOK, RecordFailure, Write, Stop, End, api, world, Phases
<1>10. ASSUME NEW w \in Workers, PersistName(w) PROVE TypeOK'
  <2>1. Annotated(w, "succeeded") \in CustomResource
    BY AnnotatedTyped DEF Marks
  <2>2. QED
    BY <1>0, <1>10, <2>1, BlankTyped
       DEF TypeOK, PersistName, WriteOwn, Stop, End, api, world, Phases
<1>11. ASSUME NEW w \in Workers, Publish(w) PROVE TypeOK'
  <2>1. secret' \in Ids \cup {NoName, BadName}
    BY <1>11 DEF TypeOK, Publish, CustomResource
  <2>2. QED
    BY <1>0, <1>11, <2>1, BlankTyped DEF TypeOK, Publish, Stop, End, api, world, Phases
<1>12. ASSUME NEW w \in Workers, Update(w) PROVE TypeOK'
  <2>1. remote' \in [Ids -> Parameters]
    <3>1. CASE UpdateReaches(w)
      <4>1. PICK clears \in BOOLEAN :
              remote' = [remote EXCEPT ![mem[w].name] =
                           Applied(Request(mem[w].spec, kind.updates), @, clears)]
        BY <1>12, <3>1 DEF Update
      <4>2. Applied(Request(mem[w].spec, kind.updates), remote[mem[w].name], clears)
              \in Parameters
        BY <3>1, RequestTyped DEF TypeOK, UpdateReaches, Alive
      <4>3. QED
        BY <3>1, <4>1, <4>2 DEF TypeOK
    <3>2. CASE ~UpdateReaches(w)
      BY <1>12, <3>2 DEF Update, TypeOK
    <3>3. QED
      BY <3>1, <3>2
  <2>2. QED
    BY <1>0, <1>12, <2>1, BlankTyped DEF TypeOK, Update, Stop, End, api, Phases
<1>13. ASSUME NEW w \in Workers, Delete(w) PROVE TypeOK'
  BY <1>0, <1>13, BlankTyped DEF TypeOK, Delete, Stop, End, api, Phases
<1>14. ASSUME NEW w \in Workers, CallFails(w) PROVE TypeOK'
  <2>1. budget' \in [Faults -> Nat]
    BY <1>14, SpendTyped DEF CallFails, TypeOK, Faults
  <2>2. QED
    BY <1>0, <1>14, <2>1, BlankTyped DEF TypeOK, CallFails, Stop, End, api, world, Phases
<1>15. ASSUME NEW w \in Workers, RemoveFinalizer(w) PROVE TypeOK'
  <2>1. [cr EXCEPT !.exists = FALSE, !.finalizer = FALSE] \in CustomResource
    BY DEF TypeOK, CustomResource
  <2>2. QED
    BY <1>0, <1>15, <2>1, BlankTyped
       DEF TypeOK, RemoveFinalizer, Write, Stop, Conflict, End, api, world, Phases
<1>16. ASSUME NEW w \in Workers, Interrupt(w) PROVE TypeOK'
  <2>1. budget' \in [Faults -> Nat]
    BY <1>16, SpendTyped DEF Interrupt, TypeOK, Faults
  <2>2. QED
    BY <1>0, <1>16, <2>1, BlankTyped DEF TypeOK, Interrupt, Stop, End, api, world, Phases
<1>17. ASSUME NEW w \in Workers, Sync(w) PROVE TypeOK'
  BY <1>0, <1>17 DEF TypeOK, Sync, run, world
<1>18. CASE Edit
  <2>1. budget' \in [Faults -> Nat]
    BY <1>18, SpendTyped DEF Edit, TypeOK, Faults
  <2>2. cr' \in CustomResource /\ synced' = {} /\ fresh' = {}
    <3>1. CASE Write([cr EXCEPT !.resolved = FALSE])
      BY <3>1 DEF Write, TypeOK, CustomResource
    <3>2. ASSUME NEW f \in kind.fields, NEW v \in Values \cup {Unset},
                 Write([cr EXCEPT !.spec[f] = v])
          PROVE  cr' \in CustomResource /\ synced' = {} /\ fresh' = {}
      BY <3>2, WrittenTyped DEF TypeOK, Write
    <3>3. QED
      BY <1>18, <3>1, <3>2 DEF Edit
  <2>3. QED
    BY <1>0, <1>18, <2>1, <2>2 DEF TypeOK, Edit, world
<1>19. CASE Remove
  <2>1. budget' \in [Faults -> Nat] /\ cr' \in CustomResource
    BY <1>19, SpendTyped, WrittenTyped DEF Remove, Write, TypeOK, Faults
  <2>2. QED
    BY <1>0, <1>19, <2>1 DEF TypeOK, Remove, Write
<1>20. CASE ClearPending
  <2>1. budget' \in [Faults -> Nat] /\ cr' \in CustomResource
    BY <1>20, SpendTyped, WrittenTyped DEF ClearPending, Write, TypeOK, Faults, Marks
  <2>2. QED
    BY <1>0, <1>20, <2>1 DEF TypeOK, ClearPending, Write
<1>21. CASE Drift
  <2>1. budget' \in [Faults -> Nat]
    BY <1>21, SpendTyped DEF Drift, TypeOK, Faults
  <2>2. remote' \in [Ids -> Parameters]
    BY <1>21 DEF Drift, TypeOK, Parameters
  <2>3. QED
    BY <1>0, <1>21, <2>1, <2>2 DEF TypeOK, Drift, api, run
<1>22. CASE Vanish
  <2>1. budget' \in [Faults -> Nat]
    BY <1>22, SpendTyped DEF Vanish, TypeOK, Faults
  <2>2. QED
    BY <1>0, <1>22, <2>1 DEF TypeOK, Vanish, api, run
<1>23. CASE FinishTermination
  BY <1>0, <1>23 DEF TypeOK, FinishTermination, api, run
<1>24. CASE SecretsMissing
  <2>1. budget' \in [Faults -> Nat]
    BY <1>24, SpendTyped DEF SecretsMissing, TypeOK, Faults
  <2>2. QED
    BY <1>0, <1>24, <2>1 DEF TypeOK, SecretsMissing, api, run, world
<1>25. CASE SecretsReturn
  BY <1>0, <1>25 DEF TypeOK, SecretsReturn, api, run, world
<1>26. CASE UNCHANGED vars
  BY <1>0, <1>26 DEF TypeOK, vars, api, run, world
<1>27. ASSUME NEW w \in Workers, Resolve(w) PROVE TypeOK'
  <2>1. budget' \in [Faults -> Nat]
    BY <1>27, SpendTyped DEF Resolve, Overtakes, TypeOK, Faults
  <2>2. [cr EXCEPT !.resolved = TRUE] \in CustomResource
    BY DEF TypeOK, CustomResource
  <2>3. /\ cr' \in CustomResource /\ mem' \in [Workers -> CustomResource]
        /\ synced' \subseteq Workers /\ fresh' \subseteq Workers
    BY <1>27, <2>2 DEF Resolve, WriteOwn, TypeOK, api
  <2>4. QED
    BY <1>0, <1>27, <2>1, <2>3 DEF TypeOK, Resolve, world, Phases
<1>28. QED
  BY <1>1, <1>2, <1>3, <1>4, <1>5, <1>6, <1>7, <1>8, <1>9, <1>10, <1>11, <1>12,
     <1>13, <1>14, <1>15, <1>16, <1>17, <1>18, <1>19, <1>20, <1>21, <1>22, <1>23,
     <1>24, <1>25, <1>26, <1>27 DEF Next, Reconcile, Environment

\* The initial states are of the types.
LEMMA TypeInit == Init => TypeOK
<1> SUFFICES ASSUME Init
             PROVE  TypeOK
  OBVIOUS
<1>1. cr \in CustomResource
  BY NamesAssumption DEF Init, CustomResource, Parameters, Marks
<1>2. remote \in [Ids -> Parameters]
  BY DEF Init, Parameters
<1>3. QED
  BY <1>1, <1>2, BlankTyped, BudgetsAssumption DEF Init, TypeOK, Phases

\* The variables keep their types, whatever is raced, lost or interrupted.
THEOREM TypeCorrect == Spec => []TypeOK
<1>1. Init => TypeOK
  BY TypeInit
<1>2. TypeOK /\ [Next]_vars => TypeOK'
  BY TypeStep
<1>3. QED
  BY <1>1, <1>2, PTL DEF Spec

\* The user touches parameters and references, and nothing else.
LEMMA EditWrites ==
  ASSUME TypeOK, Edit
  PROVE  /\ \E new : /\ Write(new)
                    /\ new.exists = cr.exists /\ new.deleting = cr.deleting
                    /\ new.finalizer = cr.finalizer
                    /\ new.mark = cr.mark /\ new.name = cr.name
         /\ UNCHANGED <<cache, mem, pc, plan, dip, lost>>
<1> DEFINE Alike(new) == /\ new.exists = cr.exists /\ new.deleting = cr.deleting
                         /\ new.finalizer = cr.finalizer
                         /\ new.mark = cr.mark /\ new.name = cr.name
<1>1. ASSUME Write([cr EXCEPT !.resolved = FALSE])
      PROVE  \E new : Write(new) /\ Alike(new)
  <2> DEFINE new == [cr EXCEPT !.resolved = FALSE]
  <2>1. Write(new) /\ Alike(new)
    BY <1>1 DEF TypeOK, CustomResource
  <2> HIDE DEF new
  <2>2. QED
    BY <2>1
<1>2. ASSUME NEW f \in kind.fields, NEW v \in Values \cup {Unset},
             Write([cr EXCEPT !.spec[f] = v])
      PROVE  \E new : Write(new) /\ Alike(new)
  <2> DEFINE new == [cr EXCEPT !.spec[f] = v]
  <2>1. Write(new) /\ Alike(new)
    BY <1>2 DEF TypeOK, CustomResource
  <2> HIDE DEF new
  <2>2. QED
    BY <2>1
<1>3. UNCHANGED <<cache, mem, pc, plan, dip, lost>>
  BY DEF Edit, world
<1>4. QED
  BY <1>1, <1>2, <1>3 DEF Edit

\* A resolution leaves the reconcile with the newest copy.
LEMMA ResolveWrites ==
  ASSUME TypeOK, NEW w \in Workers, Resolve(w)
  PROVE  /\ pc[w] = "idle" /\ pc' = [pc EXCEPT ![w] = "observe"]
         /\ mem' = [mem EXCEPT ![w] = cr']
         /\ cr'.exists = cr.exists /\ cr'.deleting = cr.deleting
         /\ cr'.finalizer = cr.finalizer /\ cr'.mark = cr.mark
         /\ cr'.name = cr.name /\ cr'.spec = cr.spec /\ cr.exists
         /\ \/ cr' = cr /\ synced' = synced /\ fresh' = fresh \cup {w}
            \/ synced' = {} /\ fresh' = {w}
         /\ UNCHANGED <<cache, plan, dip, remote, lost, secret>>
<1> DEFINE new == [cr EXCEPT !.resolved = TRUE]
<1>1. /\ new.exists = cr.exists /\ new.deleting = cr.deleting
      /\ new.finalizer = cr.finalizer /\ new.mark = cr.mark
      /\ new.name = cr.name /\ new.spec = cr.spec
      /\ cr.resolved => new = cr
  BY DEF TypeOK, CustomResource
<1>2. /\ pc[w] = "idle" /\ pc' = [pc EXCEPT ![w] = "observe"] /\ cr.exists
      /\ UNCHANGED <<cache, plan, dip, remote, lost, secret>>
      /\ \/ ~cr.resolved /\ WriteOwn(w, new)
         \/ /\ cr.resolved
            /\ mem' = [mem EXCEPT ![w] = new]
            /\ fresh' = fresh \cup {w}
            /\ UNCHANGED api
  BY Zenon DEF Resolve, world
<1> HIDE DEF new
<1>3. \/ cr' = new /\ mem' = [mem EXCEPT ![w] = new] /\ synced' = {} /\ fresh' = {w}
      \/ /\ cr' = cr /\ new = cr /\ mem' = [mem EXCEPT ![w] = new]
         /\ synced' = synced /\ fresh' = fresh \cup {w}
  BY <1>1, <1>2 DEF WriteOwn, api
<1>4. QED
  BY <1>1, <1>2, <1>3

-----------------------------------------------------------------------------
(* Budgets, and copies. *)

\* Nothing is spent that was not allowed.
Within == \A f \in Faults : budget[f] <= allowed[f]

\* What was spent stays spent.
LEMMA BudgetFalls ==
  ASSUME TypeOK, [Next]_vars
  PROVE  \A f \in Faults : budget'[f] <= budget[f]
<1>1. ASSUME NEW f \in Faults, Spend(f)
      PROVE  \A g \in Faults : budget'[g] <= budget[g]
  BY <1>1 DEF TypeOK, Spend
<1>2. CASE UNCHANGED budget
  BY <1>2 DEF TypeOK
<1>3. UNCHANGED budget \/ \E f \in Faults : Spend(f)
  <2>1. CASE \E w \in Workers : Reconcile(w) \/ Sync(w) \/ Interrupt(w)
    BY <2>1, Zenon DEF Faults, Reconcile, Begin, Resolve, Overtakes, ObserveUnnamed, Observe,
       AddFinalizer, Claim, CreateSucceeds, CreateFails, CreateReplyLost, RecordFailure,
       PersistName, Publish, Update, Delete, CallFails, RemoveFinalizer, Sync, Interrupt
  <2>2. CASE Environment \/ UNCHANGED vars
    BY <2>2 DEF Faults, Environment, Edit, Remove, ClearPending, Drift, Vanish,
       FinishTermination, SecretsMissing, SecretsReturn, vars
  <2>3. QED
    BY <2>1, <2>2 DEF Next
<1>4. QED
  BY <1>1, <1>2, <1>3

LEMMA WithinStep == TypeOK /\ Within /\ [Next]_vars => Within'
<1> SUFFICES ASSUME TypeOK, Within, [Next]_vars
             PROVE  Within'
  OBVIOUS
<1>1. TypeOK' /\ allowed' = allowed
  BY TypeStep, KindKept
<1>2. QED
  BY <1>1, BudgetFalls, BudgetsAssumption DEF Within, TypeOK

\* A creation that was overtaken stays so.
LEMMA OvertakenForGood ==
  ASSUME TypeOK, Within, [Next]_vars, ~Overtaken'
  PROVE  ~Overtaken
<1>1. "overtake" \in Faults
  BY DEF Faults
<1>2. TypeOK' /\ allowed' = allowed /\ budget'["overtake"] <= budget["overtake"]
  BY <1>1, TypeStep, KindKept, BudgetFalls
<1>3. QED
  BY <1>1, <1>2, BudgetsAssumption DEF Within, TypeOK, Overtaken, Spent

\* Only a resource that is not create-pending is resolved without overtaking.
LEMMA ResolveCalm ==
  ASSUME TypeOK, TypeOK', Within, allowed' = allowed, NEW w \in Workers, Resolve(w),
         ~Overtaken'
  PROVE  cr.mark # "pending"
<1>1. ASSUME cr.mark = "pending" PROVE FALSE
  <2>1. Spend("overtake")
    BY <1>1 DEF Resolve, Overtakes
  <2>2. /\ "overtake" \in Faults /\ budget["overtake"] \in Nat
        /\ allowed["overtake"] \in Nat /\ budget["overtake"] <= allowed["overtake"]
    BY BudgetsAssumption DEF Faults, TypeOK, Within
  <2>3. budget'["overtake"] = budget["overtake"] - 1
    BY <2>1, <2>2 DEF Spend, TypeOK
  <2>4. QED
    BY <2>2, <2>3 DEF Overtaken, Spent
<1>2. QED
  BY <1>1

\* Observe's two answers lead to one of five phases.
LEMMA FoundNext ==
  ASSUME NEW w, Absent(w) \/ Present(w)
  PROVE  \E next : /\ next \in {"idle", "claim", "update", "delete", "finalize"}
                   /\ Proceed(w, next)
  BY NextPhases, Zenon DEF Absent, Present

\* Fresh copies equal the resource, also after a creation was overtaken.
LEMMA CopiesStep == TypeOK /\ CopiesAgree /\ [Next]_vars => CopiesAgree'
<1> SUFFICES ASSUME TypeOK, CopiesAgree, [Next]_vars
             PROVE  CopiesAgree'
  OBVIOUS
<1> USE DEF TypeOK, CopiesAgree
<1>1. ASSUME NEW w \in Workers, End(w), UNCHANGED <<api, cache>>
      PROVE  CopiesAgree'
  BY <1>1 DEF End, Stop, api
<1>2. ASSUME NEW new, Write(new)
      PROVE  CopiesAgree'
  BY <1>2 DEF Write
<1>3. ASSUME NEW w \in Workers, NEW new, WriteOwn(w, new), pc'[w] # "idle"
      PROVE  CopiesAgree'
  BY <1>3 DEF WriteOwn
<1>4. ASSUME NEW w \in Workers, NEW phase \in Phases, Goto(w, phase),
             pc[w] # "persist", phase # "persist", pc[w] # "idle", UNCHANGED <<api, cache>>
      PROVE  CopiesAgree'
  <2>1. CASE phase = "idle"
    BY <1>1, <1>4, <2>1 DEF Goto
  <2>2. CASE phase # "idle"
    BY <1>4, <2>2 DEF Goto, api
  <2>3. QED
    BY <2>1, <2>2
<1>5. ASSUME NEW w \in Workers, ObserveUnnamed(w) \/ Observe(w) PROVE CopiesAgree'
  <2>1. pc[w] = "observe" /\ UNCHANGED <<api, cache>> /\ (Absent(w) \/ Present(w) \/ End(w))
    BY <1>5 DEF ObserveUnnamed, Observe, Answered
  <2>2. CASE Absent(w) \/ Present(w)
    <3>1. PICK next : /\ next \in {"idle", "claim", "update", "delete", "finalize"}
                      /\ Proceed(w, next)
      BY <2>2, FoundNext
    <3>2. CASE Goto(w, next)
      <4>1. next \in Phases /\ next # "persist"
        BY <3>1 DEF Phases
      <4>2. QED
        BY <1>4, <2>1, <3>2, <4>1
    <3>3. CASE pc' = [pc EXCEPT ![w] = "protect"] /\ UNCHANGED <<mem, fresh>>
      BY <2>1, <3>3 DEF api
    <3>4. QED
      BY <3>1, <3>2, <3>3 DEF Proceed
  <2>3. QED
    BY <1>1, <2>1, <2>2
<1>6. ASSUME NEW w \in Workers, CreateSucceeds(w) PROVE CopiesAgree'
  BY <1>6 DEF CreateSucceeds, Named, api
<1>7. ASSUME NEW w \in Workers, CreateFails(w) \/ CreateReplyLost(w) PROVE CopiesAgree'
  BY <1>4, <1>7 DEF CreateFails, CreateReplyLost, Phases
<1>8. ASSUME NEW w \in Workers, Begin(w) PROVE CopiesAgree'
  BY <1>8 DEF Begin, api
<1>9. ASSUME NEW w \in Workers, Resolve(w) PROVE CopiesAgree'
  BY <1>9, ResolveWrites
<1>10. ASSUME NEW w \in Workers, AddFinalizer(w) \/ RemoveFinalizer(w) PROVE CopiesAgree'
  <2>1. CASE Conflict(w)
    BY <1>1, <1>10, <2>1 DEF Conflict, AddFinalizer, RemoveFinalizer
  <2>2. CASE Write(cr')
    BY <2>2 DEF Write
  <2>3. CASE WriteOwn(w, cr') /\ pc' = [pc EXCEPT ![w] = plan[w]] /\ plan[w] # "idle"
    BY <1>3, <2>3 DEF WriteOwn
  <2>4. QED
    BY <1>10, <2>1, <2>2, <2>3 DEF AddFinalizer, RemoveFinalizer, Write, WriteOwn
<1>11. ASSUME NEW w \in Workers, Claim(w) \/ RecordFailure(w) \/ PersistName(w)
       PROVE CopiesAgree'
  <2>1. CASE End(w) /\ UNCHANGED api
    BY <1>1, <1>11, <2>1 DEF Claim, RecordFailure, PersistName
  <2>2. CASE Claim(w) /\ w \in fresh
    BY <1>3, <2>2 DEF Claim, Conflict
  <2>3. CASE RecordFailure(w) /\ cr.exists
    BY <1>2, <2>3 DEF RecordFailure
  <2>4. CASE PersistName(w) /\ cr.exists
    BY <1>3, <2>4 DEF PersistName
  <2>5. QED
    BY <1>11, <2>1, <2>2, <2>3, <2>4 DEF Claim, RecordFailure, PersistName, Conflict
<1>12. ASSUME NEW w \in Workers,
              Publish(w) \/ Update(w) \/ Delete(w) \/ CallFails(w) \/ Interrupt(w)
       PROVE CopiesAgree'
  BY <1>1, <1>12 DEF Publish, Update, Delete, CallFails, Interrupt
<1>13. ASSUME NEW w \in Workers, Sync(w) PROVE CopiesAgree'
  BY <1>13 DEF Sync, run
<1>14. CASE Edit
  BY <1>2, <1>14, EditWrites
<1>15. CASE Remove \/ ClearPending
  BY <1>2, <1>15 DEF Remove, ClearPending
<1>16. CASE \/ Drift \/ Vanish \/ FinishTermination \/ SecretsMissing \/ SecretsReturn
            \/ UNCHANGED vars
  BY <1>16 DEF Drift, Vanish, FinishTermination, SecretsMissing, SecretsReturn, vars,
     api, run
<1>17. QED
  BY <1>5, <1>6, <1>7, <1>8, <1>9, <1>10, <1>11, <1>12, <1>13, <1>14, <1>15, <1>16
     DEF Next, Reconcile, Environment

-----------------------------------------------------------------------------
(* Safety. *)

\* Objects that die or are given up, and none born, leave fewer to account for.
LEMMA OwnedShrinks ==
  ASSUME \A i \in Ids : dip'[i] \in {"live", "terminating"} => dip[i] \in {"live", "terminating"},
         lost \subseteq lost'
  PROVE  Owned' \subseteq Owned
  BY DEF Owned, Alive

\* What happens in DIP alone, or to an informer's copy, keeps Safety.
LEMMA WorldKeeps ==
  ASSUME Safety, TypeOK', UNCHANGED <<cr, run>>, Owned' \subseteq Owned,
         \A w \in synced' : cache'[w] = cr
  PROVE  Safety'
<1> USE DEF Safety, run, Creating
<1>1. CopiesAgree'
  BY DEF CopiesAgree
<1>2. PendingMeanwhile' /\ NeverServesPending' /\ PendingIsProtected' /\ OneCreator'
  BY DEF PendingMeanwhile, NeverServesPending, PendingIsProtected, OneCreator
<1>3. OnlyTheNewOne' /\ AbsentWhenFresh'
  BY DEF OnlyTheNewOne, AbsentWhenFresh, Leaving
<1>4. AllNamed' /\ AtMostOneObject'
  BY DEF AllNamed, AtMostOneObject
<1>5. QED
  BY <1>1, <1>2, <1>3, <1>4

\* A reconcile that ends without writing the resource keeps Safety.
LEMMA EndKeeps ==
  ASSUME Safety, TypeOK', NEW w \in Workers, End(w), UNCHANGED <<api, cache>>,
         Owned' \subseteq Owned
  PROVE  Safety'
<1> USE DEF Safety, TypeOK, End, Stop, api, Creating
<1>1. CopiesAgree'
  BY DEF CopiesAgree
<1>2. PendingMeanwhile' /\ NeverServesPending' /\ PendingIsProtected' /\ OneCreator'
  BY DEF PendingMeanwhile, NeverServesPending, PendingIsProtected, OneCreator, Serving
<1>3. OnlyTheNewOne' /\ AbsentWhenFresh'
  BY DEF OnlyTheNewOne, AbsentWhenFresh, Leaving
<1>4. AllNamed' /\ AtMostOneObject'
  BY DEF AllNamed, AtMostOneObject
<1>5. QED
  BY <1>1, <1>2, <1>3, <1>4

\* With the newest copy at hand, an object that is not the named one, or is
\* given up, is none.
LEMMA NoneWhenFresh ==
  ASSUME Safety, NEW w \in fresh, pc[w] = "observe", Owned' \subseteq Owned,
         mem[w].name \notin Owned'
  PROVE  Owned' = {}
<1>1. mem[w] = cr
  BY DEF Safety, CopiesAgree
<1>2. cr.mark # "pending"
  BY <1>1 DEF Safety, TypeOK, NeverServesPending, Serving
<1>3. \A i \in Owned : cr.name = i
  BY <1>2 DEF Safety, AllNamed
<1>4. QED
  BY <1>1, <1>3

\* Going on from Observe keeps Safety, if a reconcile that goes on to create or
\* to finalize found the named object absent.
LEMMA ProceedKeeps ==
  ASSUME Safety, TypeOK', NEW w \in Workers, pc[w] = "observe",
         UNCHANGED <<api, cache>>, Owned' \subseteq Owned,
         NEW next \in {"idle", "claim", "update", "delete", "finalize"},
         next = "claim" => ~mem[w].deleting,
         next \in {"claim", "finalize"} => mem[w].name \notin Owned',
         Proceed(w, next)
  PROVE  Safety'
<1>1. /\ next \in {"idle", "claim", "update", "delete", "finalize"}
      /\ next = "claim" => ~mem[w].deleting
  OBVIOUS
<1>2. \/ (mem[w].deleting \/ mem[w].finalizer) /\ Goto(w, next)
      \/ /\ pc' = [pc EXCEPT ![w] = "protect"]
         /\ plan' = [plan EXCEPT ![w] = next]
         /\ UNCHANGED <<mem, fresh>>
  BY DEF Proceed
<1>3. w \in fresh /\ next \in {"claim", "finalize"} => Owned' = {}
  BY NoneWhenFresh
<1>4. CASE Goto(w, next) /\ next = "idle"
  BY <1>4, EndKeeps DEF Goto
<1>5. CASE Goto(w, next) /\ next # "idle" /\ (mem[w].deleting \/ mem[w].finalizer)
  <2> USE <1>5 DEF Safety, TypeOK, Goto, api, Creating
  <2>1. CopiesAgree'
    BY <1>1 DEF CopiesAgree
  <2>2. PendingMeanwhile' /\ PendingIsProtected' /\ OneCreator'
    BY <1>1 DEF PendingMeanwhile, PendingIsProtected, OneCreator
  <2>3. NeverServesPending'
    BY <1>1 DEF NeverServesPending, Serving
  <2>4. OnlyTheNewOne' /\ AllNamed' /\ AtMostOneObject'
    BY <1>1 DEF OnlyTheNewOne, AllNamed, AtMostOneObject
  <2>5. AbsentWhenFresh'
    BY <1>1, <1>3 DEF AbsentWhenFresh, Leaving
  <2>6. QED
    BY <2>1, <2>2, <2>3, <2>4, <2>5
<1>6. CASE /\ pc' = [pc EXCEPT ![w] = "protect"]
           /\ plan' = [plan EXCEPT ![w] = next]
           /\ UNCHANGED <<mem, fresh>>
  <2> USE <1>6 DEF Safety, TypeOK, api, Creating
  <2>1. CopiesAgree'
    BY DEF CopiesAgree
  <2>2. PendingMeanwhile' /\ PendingIsProtected' /\ OneCreator'
    BY DEF PendingMeanwhile, PendingIsProtected, OneCreator
  <2>3. NeverServesPending'
    BY DEF NeverServesPending, Serving
  <2>4. OnlyTheNewOne' /\ AllNamed' /\ AtMostOneObject'
    BY DEF OnlyTheNewOne, AllNamed, AtMostOneObject
  <2>5. AbsentWhenFresh'
    BY <1>3 DEF AbsentWhenFresh, Leaving
  <2>6. QED
    BY <2>1, <2>2, <2>3, <2>4, <2>5
<1>7. QED
  BY <1>2, <1>4, <1>5, <1>6

\* Every step of a reconcile keeps Safety.
LEMMA ObserveKeeps ==
  ASSUME Safety, TypeOK', NEW w \in Workers, ObserveUnnamed(w) \/ Observe(w)
  PROVE  Safety'
<1>1. pc[w] = "observe" /\ UNCHANGED <<api, cache>> /\ dip' = dip /\ lost \subseteq lost'
  BY DEF ObserveUnnamed, Observe, world
<1>2. Owned' \subseteq Owned
  BY <1>1, OwnedShrinks
<1>3. ASSUME Absent(w), mem[w].name \notin Owned'
      PROVE  Safety'
  <2>1. NextPhase(mem[w], FALSE, FALSE) = IF mem[w].deleting THEN "finalize" ELSE "claim"
    BY DEF NextPhase
  <2>2. QED
    BY <1>1, <1>2, <1>3, <2>1, ProceedKeeps DEF Absent
<1>4. ASSUME Present(w)
      PROVE  Safety'
  <2>1. PICK next \in {"idle", "update", "delete"} : Proceed(w, next)
    BY <1>4, Zenon DEF Present, NextPhase
  <2>2. QED
    BY <1>1, <1>2, <2>1, ProceedKeeps
<1>5. ASSUME NEW status \in {200, 400, 404, 500}, Answered(w, status),
             MeansAbsent(status) => mem[w].name \notin Owned'
      PROVE  Safety'
  <2>1. \/ MeansAbsent(status) /\ Absent(w)
        \/ Present(w)
        \/ End(w)
    BY <1>5 DEF Answered
  <2>2. QED
    BY <1>1, <1>2, <1>3, <1>4, <1>5, <2>1, EndKeeps
<1>6. CASE ObserveUnnamed(w)
  BY <1>3, <1>6 DEF ObserveUnnamed, Owned
<1>7. CASE Observe(w)
  <2>1. CASE Answered(w, IF Alive(mem[w].name) THEN 200 ELSE 404)
    <3>1. ~Alive(mem[w].name) => mem[w].name \notin Owned'
      BY <1>1 DEF Owned, Alive
    <3>2. QED
      BY <1>5, <2>1, <3>1 DEF MeansAbsent
  <2>2. CASE Answered(w, 500)
    BY <1>5, <2>2 DEF MeansAbsent
  <2>3. CASE /\ \E status \in {400, 404} : Answered(w, status)
             /\ lost' = lost \cup {mem[w].name}
    BY <1>5, <2>3 DEF Owned
  <2>4. QED
    BY <1>7, <2>1, <2>2, <2>3 DEF Observe
<1>8. QED
  BY <1>6, <1>7

\* A finalizer, added to the newest copy or not at all, keeps Safety.
LEMMA AddFinalizerKeeps ==
  ASSUME Safety, TypeOK', NEW w \in Workers, AddFinalizer(w)
  PROVE  Safety'
<1> DEFINE protected == [cr EXCEPT !.finalizer = TRUE]
<1>1. pc[w] = "protect" /\ UNCHANGED <<cache, world>> /\ Owned' = Owned
  BY DEF AddFinalizer, world, Owned, Alive
<1>2. /\ protected.exists = cr.exists /\ protected.mark = cr.mark
      /\ protected.name = cr.name /\ protected.finalizer
  BY DEF Safety, TypeOK, CustomResource
<1> HIDE DEF protected
<1>3. CASE /\ w \in fresh
           /\ plan[w] # "idle"
           /\ WriteOwn(w, protected)
           /\ pc' = [pc EXCEPT ![w] = plan[w]]
           /\ plan' = [plan EXCEPT ![w] = "idle"]
  <2>1. plan[w] \in {"claim", "update"} /\ mem[w] = cr
    BY <1>1, <1>3 DEF Safety, TypeOK, CopiesAgree
  <2> USE <1>1, <1>2, <1>3, <2>1 DEF Safety, TypeOK, WriteOwn, Creating
  <2>2. CopiesAgree'
    BY DEF CopiesAgree
  <2>3. PendingMeanwhile' /\ PendingIsProtected' /\ OneCreator'
    BY DEF PendingMeanwhile, PendingIsProtected, OneCreator
  <2>4. NeverServesPending'
    BY DEF NeverServesPending, Serving
  <2>5. OnlyTheNewOne' /\ AllNamed' /\ AtMostOneObject'
    BY DEF OnlyTheNewOne, AllNamed, AtMostOneObject
  <2>6. AbsentWhenFresh'
    BY DEF AbsentWhenFresh, Leaving
  <2>7. QED
    BY <2>2, <2>3, <2>4, <2>5, <2>6
<1>4. CASE Write(protected) /\ Stop(w)
  <2> USE <1>1, <1>2, <1>4 DEF Safety, TypeOK, Write, Stop, Creating
  <2>1. CopiesAgree' /\ AbsentWhenFresh'
    BY DEF CopiesAgree, AbsentWhenFresh
  <2>2. PendingMeanwhile' /\ PendingIsProtected' /\ OneCreator'
    BY DEF PendingMeanwhile, PendingIsProtected, OneCreator
  <2>3. NeverServesPending'
    BY DEF NeverServesPending, Serving
  <2>4. OnlyTheNewOne' /\ AllNamed' /\ AtMostOneObject'
    BY DEF OnlyTheNewOne, AllNamed, AtMostOneObject
  <2>5. QED
    BY <2>1, <2>2, <2>3, <2>4
<1>5. CASE Conflict(w)
  BY <1>1, <1>5, EndKeeps DEF Conflict
<1>6. QED
  BY <1>3, <1>4, <1>5 DEF AddFinalizer, protected

\* The update that claims the creation gets through only for a worker whose copy
\* is the newest, so nobody else is creating and DIP has no object.
LEMMA ClaimKeeps ==
  ASSUME Safety, TypeOK', NEW w \in Workers, Claim(w)
  PROVE  Safety'
<1> DEFINE claimed == [cr EXCEPT !.mark = "pending"]
<1>1. pc[w] = "claim" /\ UNCHANGED <<cache, world>> /\ Owned' = Owned
  BY DEF Claim, world, Owned, Alive
<1>2. /\ claimed.exists = cr.exists /\ claimed.mark = "pending"
      /\ claimed.name = cr.name /\ claimed.finalizer = cr.finalizer
  BY DEF Safety, TypeOK, CustomResource
<1> HIDE DEF claimed
<1>3. CASE /\ w \in fresh
           /\ WriteOwn(w, claimed)
           /\ pc' = [pc EXCEPT ![w] = "create"]
           /\ plan' = plan
  <2>1. mem[w] = cr
    BY <1>1, <1>3 DEF Safety, CopiesAgree
  <2>2. cr.exists /\ cr.finalizer /\ cr.mark # "pending"
    BY <1>1, <2>1 DEF Safety, TypeOK, NeverServesPending, Serving
  <2>3. \A v \in Workers : ~Creating(v)
    BY <2>2 DEF Safety, PendingMeanwhile
  <2>4. Owned = {}
    BY <1>1, <1>3 DEF Safety, AbsentWhenFresh, Leaving
  <2> USE <1>1, <1>2, <1>3, <2>2, <2>3, <2>4 DEF Safety, TypeOK, WriteOwn, Creating
  <2>5. CopiesAgree'
    BY DEF CopiesAgree
  <2>6. PendingMeanwhile' /\ PendingIsProtected'
    BY DEF PendingMeanwhile, PendingIsProtected
  <2>7. OneCreator'
    BY DEF OneCreator
  <2>8. NeverServesPending'
    BY DEF NeverServesPending, Serving
  <2>9. OnlyTheNewOne' /\ AllNamed' /\ AtMostOneObject' /\ AbsentWhenFresh'
    BY DEF OnlyTheNewOne, AllNamed, AtMostOneObject, AbsentWhenFresh
  <2>10. QED
    BY <2>5, <2>6, <2>7, <2>8, <2>9
<1>4. CASE Conflict(w)
  BY <1>1, <1>4, EndKeeps DEF Conflict
<1>5. QED
  BY <1>3, <1>4 DEF Claim, claimed

\* An object is born only while there is none.
LEMMA CreateSucceedsKeeps ==
  ASSUME Safety, TypeOK', NEW w \in Workers, CreateSucceeds(w)
  PROVE  Safety'
<1>1. NewId \in Ids
  BY NewIdUnborn DEF CreateSucceeds, Named, Born
<1>2. Owned = {}
  BY DEF Safety, CreateSucceeds, Named, OnlyTheNewOne
<1>3. Owned' \subseteq {NewId}
  BY <1>1, <1>2 DEF CreateSucceeds, Named, Born, Owned, Alive, Safety, TypeOK
<1>4. Creating(w) /\ cr.exists /\ cr.mark = "pending"
  BY DEF Safety, PendingMeanwhile, CreateSucceeds, Named, Creating
<1>5. \A v \in Workers : Creating(v) => v = w
  BY <1>4 DEF Safety, OneCreator
<1>6. mem'[w].name = NewId /\ \A v \in Workers \ {w} : mem'[v] = mem[v]
  BY DEF Safety, TypeOK, CreateSucceeds, Named, CustomResource
<1>7. \A v \in fresh : v # w => ~Leaving(v)
  <2> SUFFICES ASSUME NEW v \in fresh, v # w, Leaving(v)
               PROVE  FALSE
    OBVIOUS
  <2>1. pc[v] \in Serving /\ pc[v] # "persist" /\ v \in Workers
    BY DEF Safety, TypeOK, Leaving, Serving
  <2>2. mem[v] = cr
    BY <2>1 DEF Safety, CopiesAgree
  <2>3. QED
    BY <1>4, <2>1, <2>2 DEF Safety, NeverServesPending
<1> USE DEF Safety, TypeOK, CreateSucceeds, Named, Creating, api
<1>8. CopiesAgree'
  BY <1>6 DEF CopiesAgree
<1>9. PendingMeanwhile' /\ PendingIsProtected' /\ OneCreator'
  BY <1>4, <1>5 DEF PendingMeanwhile, PendingIsProtected, OneCreator
<1>10. NeverServesPending'
  BY <1>6 DEF NeverServesPending, Serving
<1>11. OnlyTheNewOne'
  BY <1>3, <1>5, <1>6 DEF OnlyTheNewOne
<1>12. AbsentWhenFresh'
  BY <1>7 DEF AbsentWhenFresh, Leaving
<1>13. AllNamed' /\ AtMostOneObject'
  BY <1>3, <1>4 DEF AllNamed, AtMostOneObject
<1>14. QED
  BY <1>8, <1>9, <1>10, <1>11, <1>12, <1>13

\* A Create that failed, or seems to have, leaves nothing the provider knows of.
LEMMA CreateFailsKeeps ==
  ASSUME Safety, TypeOK', NEW w \in Workers, CreateFails(w) \/ CreateReplyLost(w)
  PROVE  Safety'
<1>1. /\ pc[w] = "create" /\ UNCHANGED <<api, cache>>
      /\ pc' = [pc EXCEPT ![w] = "record"] /\ UNCHANGED <<mem, fresh, plan>>
  BY DEF CreateFails, CreateReplyLost, Goto
<1>2. Owned' \subseteq Owned
  <2>1. CASE CreateFails(w)
    BY <2>1 DEF CreateFails, world, Owned, Alive
  <2>2. CASE CreateReplyLost(w)
    BY <2>2 DEF CreateReplyLost, Born, Owned, Alive, Safety, TypeOK
  <2>3. QED
    BY <2>1, <2>2
<1>3. Owned = {}
  BY <1>1 DEF Safety, OnlyTheNewOne
<1> USE <1>1, <1>2, <1>3 DEF Safety, TypeOK, Creating, api
<1>4. CopiesAgree'
  BY DEF CopiesAgree
<1>5. PendingMeanwhile' /\ PendingIsProtected' /\ OneCreator'
  BY DEF PendingMeanwhile, PendingIsProtected, OneCreator
<1>6. NeverServesPending'
  BY DEF NeverServesPending, Serving
<1>7. OnlyTheNewOne' /\ AllNamed' /\ AtMostOneObject' /\ AbsentWhenFresh'
  BY DEF OnlyTheNewOne, AllNamed, AtMostOneObject, AbsentWhenFresh
<1>8. QED
  BY <1>4, <1>5, <1>6, <1>7

\* The mark of a failed creation may go: nothing owned came of it.
LEMMA RecordFailureKeeps ==
  ASSUME Safety, TypeOK', NEW w \in Workers, RecordFailure(w)
  PROVE  Safety'
<1> DEFINE written == Annotated(w, "failed")
<1>1. /\ written.exists = cr.exists /\ written.finalizer = cr.finalizer
      /\ written.mark = "failed"
  BY DEF Safety, TypeOK, CustomResource, Annotated
<1> HIDE DEF written
<1>2. /\ pc[w] = "record" /\ cr.exists /\ UNCHANGED <<cache, world>> /\ Owned' = Owned
  BY DEF RecordFailure, world, Owned, Alive, Safety, PendingMeanwhile, Creating
<1>3. Write(written) /\ Stop(w)
  BY <1>2 DEF RecordFailure, written
<1>4. Owned = {} /\ \A v \in Workers : Creating(v) => v = w
  BY <1>2 DEF Safety, OnlyTheNewOne, OneCreator, Creating
<1> USE <1>1, <1>2, <1>3, <1>4 DEF Safety, TypeOK, Write, Stop, Creating
<1>5. CopiesAgree' /\ AbsentWhenFresh'
  BY DEF CopiesAgree, AbsentWhenFresh
<1>6. PendingMeanwhile' /\ PendingIsProtected' /\ OneCreator'
  BY DEF PendingMeanwhile, PendingIsProtected, OneCreator
<1>7. NeverServesPending'
  BY DEF NeverServesPending, Serving
<1>8. OnlyTheNewOne' /\ AllNamed' /\ AtMostOneObject'
  BY DEF OnlyTheNewOne, AllNamed, AtMostOneObject
<1>9. QED
  BY <1>5, <1>6, <1>7, <1>8

\* Only now may the mark go: the resource names its object.
LEMMA PersistNameKeeps ==
  ASSUME Safety, TypeOK', NEW w \in Workers, PersistName(w)
  PROVE  Safety'
<1> DEFINE written == Annotated(w, "succeeded")
<1>1. /\ written.exists = cr.exists /\ written.finalizer = cr.finalizer
      /\ written.mark = "succeeded" /\ written.name = mem[w].name
  BY DEF Safety, TypeOK, CustomResource, Annotated
<1> HIDE DEF written
<1>2. /\ pc[w] = "persist" /\ cr.exists /\ UNCHANGED <<cache, world>> /\ Owned' = Owned
  BY DEF PersistName, world, Owned, Alive, Safety, PendingMeanwhile, Creating
<1>3. WriteOwn(w, written) /\ pc' = [pc EXCEPT ![w] = "publish"] /\ plan' = plan
  BY <1>2 DEF PersistName, written
<1>4. Owned \subseteq {mem[w].name} /\ \A v \in Workers : Creating(v) => v = w
  BY <1>2 DEF Safety, OnlyTheNewOne, OneCreator, Creating
<1> USE <1>1, <1>2, <1>3, <1>4 DEF Safety, TypeOK, WriteOwn, Creating
<1>5. CopiesAgree' /\ AbsentWhenFresh'
  BY DEF CopiesAgree, AbsentWhenFresh, Leaving
<1>6. PendingMeanwhile' /\ PendingIsProtected' /\ OneCreator'
  BY DEF PendingMeanwhile, PendingIsProtected, OneCreator
<1>7. NeverServesPending'
  BY DEF NeverServesPending, Serving
<1>8. OnlyTheNewOne'
  BY DEF OnlyTheNewOne
<1>9. AllNamed' /\ AtMostOneObject'
  BY DEF AllNamed, AtMostOneObject
<1>10. QED
  BY <1>5, <1>6, <1>7, <1>8, <1>9

\* The resource goes only on a fresh copy that knows that nothing is owned.
LEMMA RemoveFinalizerKeeps ==
  ASSUME Safety, TypeOK', NEW w \in Workers, RemoveFinalizer(w)
  PROVE  Safety'
<1>1. pc[w] = "finalize" /\ UNCHANGED <<cache, world>> /\ Owned' = Owned
  BY DEF RemoveFinalizer, world, Owned, Alive
<1>2. CASE /\ w \in fresh
           /\ Write([cr EXCEPT !.exists = FALSE, !.finalizer = FALSE])
           /\ Stop(w)
  <2>1. Owned = {}
    BY <1>1, <1>2 DEF Safety, AbsentWhenFresh, Leaving
  <2>2. cr.mark # "pending"
    BY <1>1, <1>2 DEF Safety, TypeOK, CopiesAgree, NeverServesPending, Serving
  <2>3. \A v \in Workers : ~Creating(v)
    BY <2>2 DEF Safety, PendingMeanwhile
  <2>4. ~cr'.exists
    BY <1>2 DEF Write, Safety, TypeOK, CustomResource
  <2> USE <1>1, <1>2, <2>1, <2>3, <2>4 DEF Safety, TypeOK, Write, Stop, Creating
  <2>5. CopiesAgree' /\ AbsentWhenFresh'
    BY DEF CopiesAgree, AbsentWhenFresh
  <2>6. PendingMeanwhile' /\ PendingIsProtected' /\ OneCreator'
    BY DEF PendingMeanwhile, PendingIsProtected, OneCreator
  <2>7. NeverServesPending'
    BY DEF NeverServesPending, Serving
  <2>8. OnlyTheNewOne' /\ AllNamed' /\ AtMostOneObject'
    BY DEF OnlyTheNewOne, AllNamed, AtMostOneObject
  <2>9. QED
    BY <2>5, <2>6, <2>7, <2>8
<1>3. CASE Conflict(w)
  BY <1>1, <1>3, EndKeeps DEF Conflict
<1>4. QED
  BY <1>2, <1>3 DEF RemoveFinalizer

\* A reconcile begins on a copy that is as new as the informer's.
LEMMA BeginKeeps ==
  ASSUME Safety, TypeOK', NEW w \in Workers, Begin(w)
  PROVE  Safety'
<1>1. Owned' = Owned /\ UNCHANGED <<api, cache, plan>>
  BY DEF Begin, world, Owned, Alive
<1>2. w \in synced => cache[w] = cr
  BY DEF Safety, CopiesAgree
<1> USE <1>1, <1>2 DEF Safety, TypeOK, Begin, api, Creating
<1>3. CopiesAgree'
  BY DEF CopiesAgree
<1>4. PendingMeanwhile' /\ PendingIsProtected' /\ OneCreator'
  BY DEF PendingMeanwhile, PendingIsProtected, OneCreator
<1>5. NeverServesPending'
  BY DEF NeverServesPending, Serving, MayServe
<1>6. OnlyTheNewOne' /\ AllNamed' /\ AtMostOneObject'
  BY DEF OnlyTheNewOne, AllNamed, AtMostOneObject
<1>7. AbsentWhenFresh'
  BY DEF AbsentWhenFresh, Leaving
<1>8. QED
  BY <1>3, <1>4, <1>5, <1>6, <1>7

\* So does one whose resolution did not overtake a creation.
LEMMA ResolveKeeps ==
  ASSUME Safety, TypeOK', CopiesAgree', NEW w \in Workers, Resolve(w),
         cr.mark # "pending"
  PROVE  Safety'
<1>1. Owned' = Owned /\ \A v \in Workers : ~Creating(v)
  BY ResolveWrites DEF Safety, Owned, Alive, PendingMeanwhile
<1>2. /\ pc[w] = "idle" /\ pc' = [pc EXCEPT ![w] = "observe"]
      /\ mem' = [mem EXCEPT ![w] = cr'] /\ plan' = plan
      /\ cr'.exists /\ cr'.mark # "pending" /\ cr'.name = cr.name
      /\ fresh' \subseteq fresh \cup {w}
  BY ResolveWrites DEF Safety
<1> USE <1>1, <1>2 DEF Safety, TypeOK, Creating
<1>3. PendingMeanwhile' /\ PendingIsProtected' /\ OneCreator'
  BY DEF PendingMeanwhile, PendingIsProtected, OneCreator
<1>4. NeverServesPending'
  BY DEF NeverServesPending, Serving
<1>5. OnlyTheNewOne' /\ AllNamed' /\ AtMostOneObject'
  BY ResolveWrites DEF OnlyTheNewOne, AllNamed, AtMostOneObject
<1>6. AbsentWhenFresh'
  BY DEF AbsentWhenFresh, Leaving
<1>7. QED
  BY <1>3, <1>4, <1>5, <1>6

\* A write by a user or an operator keeps Safety, if a resource in creation stays
\* as it is but for what it asks for, and no object is left without its name.
LEMMA WriteKeeps ==
  ASSUME Safety, TypeOK', NEW new, Write(new), UNCHANGED <<mem, pc, plan>>,
         Owned' \subseteq Owned,
         \A w \in Workers :
           Creating(w) => new.exists /\ new.finalizer /\ new.mark = "pending",
         new.exists /\ new.mark = "pending" => new.finalizer,
         \A i \in Owned' : new.exists /\ (new.name = i \/ new.mark = "pending")
  PROVE  Safety'
<1> USE DEF Safety, TypeOK, Write, Creating
<1>1. CopiesAgree' /\ AbsentWhenFresh'
  BY DEF CopiesAgree, AbsentWhenFresh
<1>2. PendingMeanwhile' /\ PendingIsProtected' /\ OneCreator'
  BY DEF PendingMeanwhile, PendingIsProtected, OneCreator
<1>3. NeverServesPending'
  BY DEF NeverServesPending, Serving
<1>4. OnlyTheNewOne' /\ AllNamed' /\ AtMostOneObject'
  BY DEF OnlyTheNewOne, AllNamed, AtMostOneObject
<1>5. QED
  BY <1>1, <1>2, <1>3, <1>4

\* kubectl apply leaves all but the parameters as they are.
LEMMA EditKeeps ==
  ASSUME Safety, TypeOK', Edit
  PROVE  Safety'
<1>1. PICK new : /\ Write(new)
                 /\ new.exists = cr.exists /\ new.finalizer = cr.finalizer
                 /\ new.mark = cr.mark /\ new.name = cr.name
  BY EditWrites DEF Safety
<1>2. Owned' = Owned /\ UNCHANGED <<mem, pc, plan>>
  BY EditWrites DEF Safety, Owned, Alive
<1>3. QED
  BY <1>1, <1>2, WriteKeeps DEF Safety, PendingMeanwhile, PendingIsProtected, AllNamed

\* kubectl delete removes at once only a resource that no creation pends for.
LEMMA RemoveKeeps ==
  ASSUME Safety, TypeOK', Remove
  PROVE  Safety'
<1>1. dip' = dip /\ lost \subseteq lost' /\ UNCHANGED <<mem, pc, plan>>
  BY DEF Remove
<1>2. Owned' \subseteq Owned
  BY <1>1, OwnedShrinks
<1>3. CASE cr.finalizer
  <2> DEFINE new == [cr EXCEPT !.deleting = TRUE]
  <2>1. /\ new.exists = cr.exists /\ new.finalizer = cr.finalizer
        /\ new.mark = cr.mark /\ new.name = cr.name
    BY DEF Safety, TypeOK, CustomResource
  <2>2. Write(new)
    BY <1>3 DEF Remove
  <2> HIDE DEF new
  <2>3. QED
    BY <1>1, <1>2, <2>1, <2>2, WriteKeeps
       DEF Safety, PendingMeanwhile, PendingIsProtected, AllNamed
<1>4. CASE ~cr.finalizer
  <2> DEFINE new == [cr EXCEPT !.exists = FALSE]
  <2>1. ~new.exists
    BY DEF Safety, TypeOK, CustomResource
  <2>2. Write(new) /\ lost' = lost \cup ({cr.name} \cap Ids)
    BY <1>4 DEF Remove
  <2>3. cr.mark # "pending" /\ \A w \in Workers : ~Creating(w)
    BY <1>4 DEF Remove, Safety, PendingIsProtected, PendingMeanwhile
  <2>4. Owned' = {}
    BY <1>1, <2>2, <2>3 DEF Safety, AllNamed, Owned, Alive
  <2> HIDE DEF new
  <2>5. QED
    BY <1>1, <1>2, <2>1, <2>2, <2>3, <2>4, WriteKeeps
<1>5. QED
  BY <1>3, <1>4

\* An operator who clears the mark takes over the objects it stood for.
LEMMA ClearPendingKeeps ==
  ASSUME Safety, TypeOK', ClearPending
  PROVE  Safety'
<1> DEFINE new == [cr EXCEPT !.mark = "none"]
<1>1. new.exists /\ new.mark = "none" /\ new.name = cr.name
  BY DEF Safety, TypeOK, CustomResource, ClearPending
<1>2. /\ Write(new) /\ dip' = dip /\ UNCHANGED <<mem, pc, plan>>
      /\ lost' = lost \cup {i \in Ids : Alive(i) /\ i # cr.name}
  BY DEF ClearPending
<1> HIDE DEF new
<1>3. Owned' \subseteq Owned /\ Owned' \subseteq {cr.name}
  BY <1>2 DEF Owned, Alive
<1>4. \A w \in Workers : ~Creating(w)
  BY DEF ClearPending, Creating
<1>5. QED
  BY <1>1, <1>2, <1>3, <1>4, WriteKeeps

\* Every step keeps Safety, but for a resolution that overtakes a creation.
LEMMA SafetyStep == Safety /\ Within /\ ~Overtaken' /\ [Next]_vars => Safety'
<1> SUFFICES ASSUME Safety, Within, ~Overtaken', [Next]_vars
             PROVE  Safety'
  OBVIOUS
<1>0. TypeOK' /\ CopiesAgree' /\ allowed' = allowed
  BY TypeStep, CopiesStep, KindKept DEF Safety
<1>1. ASSUME NEW w \in Workers, Reconcile(w) PROVE Safety'
  <2>1. CASE Begin(w)
    BY <1>0, <2>1, BeginKeeps
  <2>2. CASE ObserveUnnamed(w) \/ Observe(w)
    BY <1>0, <2>2, ObserveKeeps
  <2>3. CASE AddFinalizer(w)
    BY <1>0, <2>3, AddFinalizerKeeps
  <2>4. CASE Claim(w)
    BY <1>0, <2>4, ClaimKeeps
  <2>5. CASE CreateSucceeds(w)
    BY <1>0, <2>5, CreateSucceedsKeeps
  <2>6. CASE CreateFails(w) \/ CreateReplyLost(w)
    BY <1>0, <2>6, CreateFailsKeeps
  <2>7. CASE RecordFailure(w)
    BY <1>0, <2>7, RecordFailureKeeps
  <2>8. CASE PersistName(w)
    BY <1>0, <2>8, PersistNameKeeps
  <2>9. CASE Publish(w) \/ Update(w) \/ Delete(w) \/ CallFails(w)
    <3>1. End(w) /\ UNCHANGED <<api, cache>> /\ lost' = lost
      BY <2>9 DEF Publish, Update, Delete, CallFails, world
    <3>2. Owned' \subseteq Owned
      BY <2>9, OwnedShrinks DEF Publish, Update, Delete, CallFails, world, Safety, TypeOK
    <3>3. QED
      BY <1>0, <3>1, <3>2, EndKeeps
  <2>10. CASE RemoveFinalizer(w)
    BY <1>0, <2>10, RemoveFinalizerKeeps
  <2>11. CASE Resolve(w)
    <3>1. cr.mark # "pending"
      BY <1>0, <2>11, ResolveCalm DEF Safety
    <3>2. QED
      BY <1>0, <2>11, <3>1, ResolveKeeps
  <2>12. QED
    BY <1>1, <2>1, <2>2, <2>3, <2>4, <2>5, <2>6, <2>7, <2>8, <2>9, <2>10, <2>11
       DEF Reconcile
<1>2. ASSUME NEW w \in Workers, Interrupt(w) PROVE Safety'
  BY <1>0, <1>2, EndKeeps, OwnedShrinks DEF Interrupt, world
<1>3. ASSUME NEW w \in Workers, Sync(w) PROVE Safety'
  <2>1. \A v \in synced' : cache'[v] = cr
    BY <1>3 DEF Sync, Safety, TypeOK, CopiesAgree
  <2>2. QED
    BY <1>0, <1>3, <2>1, WorldKeeps, OwnedShrinks DEF Sync, world
<1>4. CASE Edit \/ Remove \/ ClearPending
  BY <1>0, <1>4, EditKeeps, RemoveKeeps, ClearPendingKeeps
<1>5. CASE \/ Drift \/ Vanish \/ FinishTermination \/ SecretsMissing \/ SecretsReturn
           \/ UNCHANGED vars
  <2>1. UNCHANGED <<api, cache, run, lost>>
    BY <1>5 DEF Drift, Vanish, FinishTermination, SecretsMissing, SecretsReturn, vars, world
  <2>2. Owned' \subseteq Owned
    BY <1>5, <2>1, OwnedShrinks
       DEF Drift, Vanish, FinishTermination, SecretsMissing, SecretsReturn, vars, world,
           Safety, TypeOK
  <2>3. QED
    BY <1>0, <2>1, <2>2, WorldKeeps DEF api, Safety, CopiesAgree
<1>6. QED
  BY <1>1, <1>2, <1>3, <1>4, <1>5 DEF Next, Environment

\* The initial states satisfy Safety.
LEMMA SafetyInit == Init => Safety
<1> SUFFICES ASSUME Init
             PROVE  Safety
  OBVIOUS
<1>1. PICK n \in Imported :
        /\ cr.name = n /\ cr.exists /\ cr.mark = "none"
        /\ dip = [i \in Ids |-> IF i = n THEN "live" ELSE "unborn"]
  BY DEF Init
<1>2. \A i \in Owned : i = cr.name
  BY <1>1 DEF Owned, Alive
<1>3. TypeOK
  BY TypeInit
<1>4. /\ CopiesAgree /\ PendingMeanwhile /\ NeverServesPending /\ PendingIsProtected
      /\ OneCreator /\ OnlyTheNewOne /\ AbsentWhenFresh
  BY <1>1 DEF Init, CopiesAgree, PendingMeanwhile, NeverServesPending,
     PendingIsProtected, OneCreator, OnlyTheNewOne, AbsentWhenFresh, Creating, Serving
<1>5. AllNamed /\ AtMostOneObject
  BY <1>1, <1>2 DEF AllNamed, AtMostOneObject
<1>6. QED
  BY <1>3, <1>4, <1>5 DEF Safety

\* What holds always, and what holds until a creation is overtaken.
Inductive == TypeOK /\ Within /\ CopiesAgree /\ (Overtaken \/ Safety)

LEMMA InductiveInit == Init => Inductive
<1>1. Init => Within
  BY BudgetsAssumption DEF Init, Within
<1>2. QED
  BY <1>1, SafetyInit DEF Inductive, Safety

LEMMA InductiveStep == Inductive /\ [Next]_vars => Inductive'
<1> SUFFICES ASSUME Inductive, [Next]_vars
             PROVE  Inductive'
  OBVIOUS
<1>1. TypeOK' /\ Within' /\ CopiesAgree'
  BY TypeStep, WithinStep, CopiesStep DEF Inductive
<1>2. ~Overtaken' => Safety'
  BY OvertakenForGood, SafetyStep DEF Inductive
<1>3. QED
  BY <1>1, <1>2 DEF Inductive

\* The inductive invariant holds of every behaviour.
THEOREM SafetyInvariant == Spec => []Inductive
<1>1. Init => Inductive
  BY InductiveInit
<1>2. Inductive /\ [Next]_vars => Inductive'
  BY InductiveStep
<1>3. QED
  BY <1>1, <1>2, PTL DEF Spec

\* No object of DIP is ever left without a resource that names it, or one that
\* stands create-pending until an operator looks: Create's SetExternalName, the
\* order of its annotations and Observe's answers are enough for that, in
\* whatever order processes, users and failures act, unless the resolution of a
\* reference overtakes a creation.
THEOREM NothingStrayAlways == Spec => []NothingStray
<1>1. Inductive => NothingStray
  BY DEF Inductive, Safety, NothingStray
<1>2. QED
  BY <1>1, SafetyInvariant, PTL

\* A resource never owns two objects in DIP, with any number of processes, unless
\* the resolution of a reference overtakes a creation.
THEOREM OneObjectAlways == Spec => []OneObject
<1>1. Inductive => OneObject
  BY DEF Inductive, Safety, OneObject
<1>2. QED
  BY <1>1, SafetyInvariant, PTL

-----------------------------------------------------------------------------
(* Which object a call touches. *)

Unborn(r) == r.name \in Ids /\ dip[r.name] = "unborn"

\* No copy of the resource, however old, names an object that is still to come,
\* or an owned object that the resource itself does not name, but for the copy
\* of a reconcile that has the name of its new object to write.
CopiesNameTheSame ==
  /\ ~Unborn(cr)
  /\ \A w \in Workers :
       /\ ~Unborn(cache[w]) /\ ~Unborn(mem[w])
       /\ cache[w].name \in Owned => cr.name = cache[w].name
       /\ mem[w].name \in Owned /\ pc[w] # "persist" => cr.name = mem[w].name

\* Once deleted, always deleted: an old copy never says so of one that is not.
DeletedForGood ==
  \A w \in Workers :
    /\ cache[w].deleting \/ mem[w].deleting => cr.deleting
    /\ pc[w] = "delete" => mem[w].deleting

Naming == CopiesNameTheSame /\ DeletedForGood

\* A step keeps the names if the resource keeps its own, every copy stays, is
\* dropped, or is made of the resource or of the informer's copy, and a reconcile
\* goes on with a copy of a resource that exists.
Copied(w) ==
  /\ \/ mem'[w] = mem[w] /\ (pc'[w] = "persist" <=> pc[w] = "persist")
     \/ mem'[w] \in {Blank, cr', cache[w]} /\ pc'[w] # "persist"
  /\ pc'[w] = "delete" => mem'[w] = mem[w] /\ (pc[w] = "delete" \/ mem[w].deleting)
  /\ pc'[w] \in Serving
       => mem'[w].exists \/ (pc[w] \in Serving /\ mem'[w].exists = mem[w].exists)

KeepsNames ==
  /\ cr'.name = cr.name
  /\ cr.deleting => cr'.deleting
  /\ Owned' \subseteq Owned
  /\ \A i \in Ids : dip'[i] = "unborn" => dip[i] = "unborn"
  /\ \A w \in Workers : Copied(w) /\ cache'[w] \in {cache[w], cr'}

\* The two writes of the annotations that a creation leaves.
Annotates(w) == cr.exists /\ (PersistName(w) \/ RecordFailure(w))

\* A reconcile touches no state of another one.
LEMMA OthersStay ==
  ASSUME TypeOK, NEW w \in Workers, Reconcile(w) \/ Interrupt(w)
  PROVE  /\ \A v \in Workers \ {w} :
              pc'[v] = pc[v] /\ plan'[v] = plan[v] /\ mem'[v] = mem[v]
         /\ fresh' \subseteq fresh \cup {w}
         /\ cache' = cache
<1> USE DEF TypeOK
<1>1. ASSUME End(w) PROVE /\ \A v \in Workers \ {w} :
                               pc'[v] = pc[v] /\ plan'[v] = plan[v] /\ mem'[v] = mem[v]
                          /\ fresh' \subseteq fresh \cup {w}
  BY <1>1 DEF End, Stop
<1>2. CASE ObserveUnnamed(w) \/ Observe(w)
  <2>1. cache' = cache /\ (Absent(w) \/ Present(w) \/ End(w))
    BY <1>2 DEF ObserveUnnamed, Observe, Answered
  <2>2. CASE Absent(w) \/ Present(w)
    <3>1. PICK next : Proceed(w, next)
      BY <2>2, FoundNext
    <3>2. QED
      BY <1>1, <2>1, <3>1 DEF Proceed, Goto
  <2>3. QED
    BY <1>1, <2>1, <2>2
<1>3. CASE \/ Begin(w) \/ AddFinalizer(w) \/ Claim(w) \/ RecordFailure(w)
           \/ PersistName(w) \/ RemoveFinalizer(w)
  BY <1>1, <1>3 DEF Begin, AddFinalizer, Claim, RecordFailure, PersistName,
     RemoveFinalizer, WriteOwn, Write, Stop, Conflict
<1>4. CASE CreateSucceeds(w) \/ CreateFails(w) \/ CreateReplyLost(w)
  BY <1>4 DEF CreateSucceeds, CreateFails, CreateReplyLost, Named, Goto
<1>5. CASE Publish(w) \/ Update(w) \/ Delete(w) \/ CallFails(w) \/ Interrupt(w)
  BY <1>1, <1>5 DEF Publish, Update, Delete, CallFails, Interrupt
<1>6. CASE Resolve(w)
  BY <1>6, ResolveWrites
<1>7. QED
  BY <1>2, <1>3, <1>4, <1>5, <1>6 DEF Reconcile

\* A reconcile that ends leaves the worker idle, without a copy.
LEMMA Ends ==
  ASSUME TypeOK, NEW w \in Workers, End(w)
  PROVE  /\ pc'[w] = "idle" /\ plan'[w] = "idle" /\ mem'[w] = Blank
         /\ w \notin fresh' /\ fresh' \subseteq fresh
  BY DEF TypeOK, End, Stop

\* Observe goes on with the copy it has, or ends.
LEMMA Observes ==
  ASSUME TypeOK, NEW w \in Workers, ObserveUnnamed(w) \/ Observe(w)
  PROVE  /\ pc[w] = "observe" /\ fresh' \subseteq fresh
         /\ UNCHANGED <<api, cache, dip>> /\ lost \subseteq lost'
         /\ \/ pc'[w] = "idle" /\ mem'[w] = Blank /\ w \notin fresh'
            \/ /\ pc'[w] \in {"protect", "claim", "update", "delete", "finalize"}
               /\ mem'[w] = mem[w]
               /\ pc'[w] = "delete" => mem[w].deleting
<1>1. /\ pc[w] = "observe" /\ UNCHANGED <<api, cache, dip>> /\ lost \subseteq lost'
      /\ Absent(w) \/ Present(w) \/ End(w)
  BY DEF ObserveUnnamed, Observe, Answered, world
<1>2. CASE Absent(w) \/ Present(w)
  <2>1. PICK next : /\ next \in {"idle", "claim", "update", "delete", "finalize"}
                    /\ next = "delete" => mem[w].deleting
                    /\ Proceed(w, next)
    <3>1. \A exists, upToDate :
            /\ NextPhase(mem[w], exists, upToDate)
                 \in {"idle", "claim", "update", "delete", "finalize"}
            /\ NextPhase(mem[w], exists, upToDate) = "delete" => mem[w].deleting
      BY DEF NextPhase
    <3>2. QED
      BY <1>2, <3>1, Zenon DEF Absent, Present
  <2>2. CASE Goto(w, next) /\ next = "idle"
    BY <1>1, <2>2, Ends DEF Goto
  <2>3. CASE Goto(w, next) /\ next # "idle"
    BY <1>1, <2>1, <2>3 DEF Goto, TypeOK
  <2>4. CASE pc' = [pc EXCEPT ![w] = "protect"] /\ UNCHANGED <<mem, fresh>>
    BY <1>1, <2>4 DEF TypeOK
  <2>5. QED
    BY <2>1, <2>2, <2>3, <2>4 DEF Proceed
<1>3. QED
  BY <1>1, <1>2, Ends

\* All steps keep the names but the two that are about them.
LEMMA NamesKept ==
  ASSUME TypeOK, CopiesAgree, [Next]_vars,
         \A w \in Workers : ~CreateSucceeds(w) /\ ~Annotates(w)
  PROVE  KeepsNames
<1>1. ASSUME NEW w \in Workers, Reconcile(w) \/ Interrupt(w), Copied(w),
             cr'.name = cr.name, cr'.deleting = cr.deleting, lost \subseteq lost',
             \A i \in Ids : dip'[i] = dip[i] \/ (dip[i] = "live" /\ dip'[i] # "unborn")
      PROVE  KeepsNames
  <2>1. Owned' \subseteq Owned /\ \A i \in Ids : dip'[i] = "unborn" => dip[i] = "unborn"
    BY <1>1 DEF Owned, Alive
  <2>2. \A v \in Workers : Copied(v) /\ cache'[v] = cache[v]
    BY <1>1, OthersStay DEF Copied
  <2>3. QED
    BY <1>1, <2>1, <2>2 DEF KeepsNames
<1>2. ASSUME NEW w \in Workers, Reconcile(w) \/ Interrupt(w), End(w), cr' = cr,
             lost \subseteq lost',
             \A i \in Ids : dip'[i] = dip[i] \/ (dip[i] = "live" /\ dip'[i] # "unborn")
      PROVE  KeepsNames
  BY <1>1, <1>2, Ends DEF Copied, Serving
<1>3. ASSUME NEW w \in Workers, Begin(w) PROVE KeepsNames
  BY <1>1, <1>3 DEF Begin, MayServe, Copied, Reconcile, TypeOK, api, world
<1>4. ASSUME NEW w \in Workers, Resolve(w) PROVE KeepsNames
  BY <1>1, <1>4, ResolveWrites DEF Copied, Reconcile, TypeOK
<1>5. ASSUME NEW w \in Workers, ObserveUnnamed(w) \/ Observe(w) PROVE KeepsNames
  BY <1>1, <1>5, Observes DEF Copied, Reconcile, Serving, api
<1>6. ASSUME NEW w \in Workers, AddFinalizer(w) PROVE KeepsNames
  <2> DEFINE protected == [cr EXCEPT !.finalizer = TRUE]
  <2>1. /\ protected.name = cr.name /\ protected.deleting = cr.deleting
        /\ protected.exists = cr.exists
    BY DEF TypeOK, CustomResource
  <2>2. pc[w] = "protect" /\ dip' = dip /\ lost' = lost /\ (w \in fresh => mem[w] = cr)
    BY <1>6 DEF AddFinalizer, world, CopiesAgree
  <2>3. CASE Conflict(w)
    BY <1>2, <1>6, <2>2, <2>3 DEF Conflict, Reconcile, api
  <2>4. CASE w \in fresh /\ WriteOwn(w, protected) /\ pc' = [pc EXCEPT ![w] = plan[w]]
    <3>1. cr' = protected /\ mem'[w] = protected /\ pc'[w] \in {"idle", "claim", "update"}
      BY <2>4 DEF WriteOwn, TypeOK
    <3> HIDE DEF protected
    <3>2. Copied(w)
      BY <2>1, <2>2, <2>4, <3>1 DEF Copied, Serving
    <3>3. QED
      BY <1>1, <1>6, <2>1, <2>2, <3>1, <3>2 DEF Reconcile
  <2>5. CASE Write(protected) /\ Stop(w)
    <3>1. cr' = protected /\ mem'[w] = Blank /\ pc'[w] = "idle"
      BY <2>5 DEF Write, Stop, TypeOK
    <3> HIDE DEF protected
    <3>2. QED
      BY <1>1, <1>6, <2>1, <2>2, <3>1 DEF Copied, Serving, Reconcile
  <2>6. QED
    BY <1>6, <2>3, <2>4, <2>5 DEF AddFinalizer
<1>7. ASSUME NEW w \in Workers, Claim(w) PROVE KeepsNames
  <2> DEFINE claimed == [cr EXCEPT !.mark = "pending"]
  <2>1. claimed.name = cr.name /\ claimed.deleting = cr.deleting
    BY DEF TypeOK, CustomResource
  <2>2. pc[w] = "claim" /\ dip' = dip /\ lost' = lost
    BY <1>7 DEF Claim, world
  <2>3. CASE Conflict(w)
    BY <1>2, <1>7, <2>2, <2>3 DEF Conflict, Reconcile, api
  <2>4. CASE ~Conflict(w)
    <3>1. cr' = claimed /\ mem'[w] = claimed /\ pc'[w] = "create"
      BY <1>7, <2>4 DEF Claim, WriteOwn, TypeOK
    <3> HIDE DEF claimed
    <3>2. QED
      BY <1>1, <1>7, <2>1, <2>2, <3>1 DEF Copied, Serving, Reconcile
  <2>5. QED
    BY <2>3, <2>4
<1>8. ASSUME NEW w \in Workers, CreateFails(w) \/ CreateReplyLost(w) PROVE KeepsNames
  <2>1. /\ UNCHANGED <<api, cache, mem>> /\ pc' = [pc EXCEPT ![w] = "record"]
        /\ pc[w] = "create"
    BY <1>8 DEF CreateFails, CreateReplyLost, Goto
  <2>2. Owned' \subseteq Owned /\ \A i \in Ids : dip'[i] = "unborn" => dip[i] = "unborn"
    <3>1. CASE CreateFails(w)
      BY <3>1 DEF CreateFails, world, Owned, Alive
    <3>2. CASE CreateReplyLost(w)
      BY <3>2 DEF CreateReplyLost, Born, Owned, Alive, TypeOK
    <3>3. QED
      BY <1>8, <3>1, <3>2
  <2>3. QED
    BY <2>1, <2>2 DEF KeepsNames, Copied, Serving, TypeOK, api
<1>9. ASSUME NEW w \in Workers, PersistName(w) \/ RecordFailure(w) PROVE KeepsNames
  BY <1>2, <1>9 DEF PersistName, RecordFailure, Annotates, Reconcile, api, world
<1>10. ASSUME NEW w \in Workers,
              Publish(w) \/ Update(w) \/ Delete(w) \/ CallFails(w) \/ Interrupt(w)
       PROVE  KeepsNames
  <2>1. End(w) /\ cr' = cr /\ lost' = lost
    BY <1>10 DEF Publish, Update, Delete, CallFails, Interrupt, world, api
  <2>2. \A i \in Ids : dip'[i] = dip[i] \/ (dip[i] = "live" /\ dip'[i] # "unborn")
    <3>1. CASE Delete(w)
      BY <3>1 DEF Delete, TypeOK
    <3>2. CASE Publish(w) \/ Update(w) \/ CallFails(w) \/ Interrupt(w)
      BY <3>2 DEF Publish, Update, CallFails, Interrupt, world
    <3>3. QED
      BY <1>10, <3>1, <3>2
  <2>3. QED
    BY <1>2, <1>10, <2>1, <2>2 DEF Reconcile
<1>11. ASSUME NEW w \in Workers, RemoveFinalizer(w) PROVE KeepsNames
  <2> DEFINE new == [cr EXCEPT !.exists = FALSE, !.finalizer = FALSE]
  <2>1. new.name = cr.name /\ new.deleting = cr.deleting
    BY DEF TypeOK, CustomResource
  <2>2. dip' = dip /\ lost' = lost
    BY <1>11 DEF RemoveFinalizer, world
  <2>3. CASE Conflict(w)
    BY <1>2, <1>11, <2>2, <2>3 DEF Conflict, Reconcile, api
  <2>4. CASE ~Conflict(w)
    <3>1. cr' = new /\ mem'[w] = Blank /\ pc'[w] = "idle"
      BY <1>11, <2>4 DEF RemoveFinalizer, Write, Stop, TypeOK
    <3> HIDE DEF new
    <3>2. QED
      BY <1>1, <1>11, <2>1, <2>2, <3>1 DEF Copied, Serving, Reconcile
  <2>5. QED
    BY <2>3, <2>4
<1>12. ASSUME UNCHANGED <<mem, pc>>, Owned' \subseteq Owned, cr'.name = cr.name,
              cr.deleting => cr'.deleting,
              \A i \in Ids : dip'[i] = "unborn" => dip[i] = "unborn",
              \A w \in Workers : cache'[w] \in {cache[w], cr'}
       PROVE  KeepsNames
  BY <1>12 DEF KeepsNames, Copied
<1>13. ASSUME NEW w \in Workers, Sync(w) PROVE KeepsNames
  BY <1>12, <1>13, OwnedShrinks DEF Sync, run, world, TypeOK
<1>14. CASE Edit \/ Remove \/ ClearPending
  <2>1. cr'.name = cr.name /\ (cr.deleting => cr'.deleting)
    <3>1. CASE Edit
      BY <3>1, EditWrites DEF Write
    <3>2. CASE Remove \/ ClearPending
      BY <3>2 DEF Remove, ClearPending, Write, TypeOK, CustomResource
    <3>3. QED
      BY <1>14, <3>1, <3>2
  <2>2. UNCHANGED <<cache, mem, pc, dip>> /\ lost \subseteq lost'
    BY <1>14 DEF Edit, Remove, ClearPending, world
  <2>3. QED
    BY <1>12, <2>1, <2>2, OwnedShrinks
<1>15. CASE \/ Drift \/ Vanish \/ FinishTermination \/ SecretsMissing \/ SecretsReturn
            \/ UNCHANGED vars
  <2>1. UNCHANGED <<cr, cache, mem, pc, lost>>
    BY <1>15 DEF Drift, Vanish, FinishTermination, SecretsMissing, SecretsReturn,
       vars, world, api, run
  <2>2. Owned' \subseteq Owned /\ \A i \in Ids : dip'[i] = "unborn" => dip[i] = "unborn"
    BY <1>15, <2>1
       DEF Drift, Vanish, FinishTermination, SecretsMissing, SecretsReturn, vars, world,
           Owned, Alive, TypeOK
  <2>3. QED
    BY <1>12, <2>1, <2>2
<1>16. QED
  BY <1>3, <1>4, <1>5, <1>6, <1>7, <1>8, <1>9, <1>10, <1>11, <1>13, <1>14, <1>15
     DEF Next, Reconcile, Environment

\* A step that keeps the names keeps Naming.
LEMMA SameNameKeeps ==
  ASSUME Naming, KeepsNames
  PROVE  Naming'
<1>0. ~Blank.deleting /\ Blank.name \notin Ids
  BY NamesAssumption DEF Blank
<1>1. ~Unborn(cr)'
  BY DEF Naming, CopiesNameTheSame, Unborn, KeepsNames
<1>2. ASSUME NEW w \in Workers
      PROVE  /\ ~Unborn(cache[w])' /\ ~Unborn(mem[w])'
             /\ cache'[w].name \in Owned' => cr'.name = cache'[w].name
             /\ mem'[w].name \in Owned' /\ pc'[w] # "persist" => cr'.name = mem'[w].name
  <2>1. Owned \subseteq Ids
    BY DEF Owned
  <2>2. ~Unborn(cache[w])' /\ (cache'[w].name \in Owned' => cr'.name = cache'[w].name)
    BY <1>1, <2>1 DEF Naming, CopiesNameTheSame, Unborn, KeepsNames
  <2>3. ~Unborn(mem[w])'
    BY <1>0, <1>1 DEF Naming, CopiesNameTheSame, Unborn, KeepsNames, Copied
  <2>4. mem'[w].name \in Owned' /\ pc'[w] # "persist" => cr'.name = mem'[w].name
    BY <1>0, <2>1 DEF Naming, CopiesNameTheSame, KeepsNames, Copied
  <2>5. QED
    BY <2>2, <2>3, <2>4
<1>3. DeletedForGood'
  BY <1>0 DEF Naming, DeletedForGood, KeepsNames, Copied
<1>4. QED
  BY <1>1, <1>2, <1>3 DEF Naming, CopiesNameTheSame

\* The new object is named by no copy but the one of the reconcile that made it.
LEMMA CreateSucceedsNames ==
  ASSUME Safety, Naming, TypeOK', Safety', NEW w \in Workers, CreateSucceeds(w)
  PROVE  Naming'
<1>1. NewId \in Ids /\ dip[NewId] = "unborn"
  BY NewIdUnborn DEF CreateSucceeds, Named, Born
<1>2. dip' = [dip EXCEPT ![NewId] = "live"]
  BY DEF CreateSucceeds, Named, Born
<1>3. /\ mem'[w].name = NewId /\ mem'[w].deleting = mem[w].deleting
      /\ \A v \in Workers \ {w} : mem'[v] = mem[v]
      /\ pc' = [pc EXCEPT ![w] = "persist"]
      /\ UNCHANGED <<cr, cache>>
  BY DEF Safety, TypeOK, CreateSucceeds, Named, CustomResource, api
<1>4. Owned' \subseteq {NewId}
  <2>1. Owned = {}
    BY DEF Safety, CreateSucceeds, Named, OnlyTheNewOne
  <2>2. QED
    BY <1>1, <2>1 DEF CreateSucceeds, Named, Born, Owned, Alive, Safety, TypeOK
<1>5. \A r : ~Unborn(r) => ~Unborn(r)' /\ r.name # NewId
  BY <1>1, <1>2 DEF Unborn, Safety, TypeOK
<1>6. QED
  BY <1>1, <1>2, <1>3, <1>4, <1>5
     DEF Naming, CopiesNameTheSame, DeletedForGood, Unborn, Safety, TypeOK

\* Writing the annotations of a creation leaves at most the object they name.
LEMMA AnnotatedNames ==
  ASSUME Safety, Naming, TypeOK', NEW w \in Workers,
         PersistName(w) \/ RecordFailure(w)
  PROVE  Naming'
<1>1. PICK mark \in Marks :
        /\ cr' = Annotated(w, mark)
        /\ mem'[w] = cr' \/ mem'[w] = Blank
        /\ \A v \in Workers \ {w} : mem'[v] = mem[v]
        /\ pc'[w] \notin {"persist", "delete"}
        /\ \A v \in Workers \ {w} : pc'[v] = pc[v]
        /\ UNCHANGED <<cache, world>>
  <2>1. cr.exists
    BY DEF Safety, PendingMeanwhile, Creating, PersistName, RecordFailure
  <2>2. CASE PersistName(w)
    BY <2>1, <2>2 DEF PersistName, WriteOwn, Safety, TypeOK, Marks
  <2>3. CASE RecordFailure(w)
    BY <2>1, <2>3 DEF RecordFailure, Write, Stop, Safety, TypeOK, Marks
  <2>4. QED
    BY <2>2, <2>3
<1>2. cr'.name = mem[w].name /\ cr'.deleting = cr.deleting
  BY <1>1 DEF Annotated, Safety, TypeOK, CustomResource
<1>3. Owned' = Owned /\ dip' = dip /\ Owned \subseteq {mem[w].name}
  BY <1>1 DEF world, Owned, Alive, Safety, OnlyTheNewOne, PersistName, RecordFailure
<1>4. \A v \in Workers \ {w} : ~Creating(v)
  BY DEF Safety, OneCreator, Creating, PersistName, RecordFailure
<1>5. ~Blank.deleting /\ Blank.name \notin Ids
  BY NamesAssumption DEF Blank
<1>6. CopiesNameTheSame'
  BY <1>1, <1>2, <1>3, <1>5 DEF Naming, CopiesNameTheSame, Unborn, Owned
<1>7. DeletedForGood'
  BY <1>1, <1>2, <1>5 DEF Naming, DeletedForGood
<1>8. QED
  BY <1>6, <1>7 DEF Naming

\* Every step keeps Naming.
LEMMA NamingStep ==
  Safety /\ Within /\ ~Overtaken' /\ Naming /\ [Next]_vars => Naming'
<1> SUFFICES ASSUME Safety, Within, ~Overtaken', Naming, [Next]_vars
             PROVE  Naming'
  OBVIOUS
<1>1. TypeOK /\ TypeOK' /\ CopiesAgree /\ Safety'
  BY SafetyStep DEF Safety
<1>2. ASSUME NEW w \in Workers, CreateSucceeds(w) PROVE Naming'
  BY <1>1, <1>2, CreateSucceedsNames
<1>3. ASSUME NEW w \in Workers, Annotates(w) PROVE Naming'
  BY <1>1, <1>3, AnnotatedNames DEF Annotates
<1>4. CASE \A w \in Workers : ~CreateSucceeds(w) /\ ~Annotates(w)
  BY <1>1, <1>4, NamesKept, SameNameKeeps
<1>5. QED
  BY <1>2, <1>3, <1>4

\* The initial states satisfy Naming.
LEMMA NamingInit == Init => Naming
<1> SUFFICES ASSUME Init
             PROVE  Naming
  OBVIOUS
<1>1. ~Unborn(cr) /\ ~cr.deleting
  BY DEF Init, Unborn
<1>2. \A w \in Workers : cache[w] = cr /\ mem[w] = Blank /\ pc[w] = "idle"
  BY DEF Init
<1>3. ~Blank.deleting /\ Blank.name \notin Ids
  BY NamesAssumption DEF Blank
<1>4. QED
  BY <1>1, <1>2, <1>3 DEF Naming, CopiesNameTheSame, DeletedForGood, Unborn, Owned

\* An Update changes, and a Delete deletes, the object the resource names when
\* the call is made, and a Delete only for a resource that is being deleted:
\* true of every copy a reconcile may still be working on,
\* unless the resolution of a reference has overtaken a creation.
THEOREM TouchesOnlyNamedAlways == Spec => TouchesOnlyNamed
<1> DEFINE Tracked == Inductive /\ (Overtaken \/ Naming)
<1>1. Init => Tracked
  BY InductiveInit, NamingInit
<1>2. Tracked /\ [Next]_vars => Tracked'
  BY InductiveStep, OvertakenForGood, NamingStep DEF Inductive
<1>3. ASSUME Safety, Naming, NEW w \in Workers, NEW i \in Owned, pc[w] # "persist",
             mem[w].name = i, pc[w] \in Serving
      PROVE  cr.exists /\ cr.name = i
  BY <1>3 DEF Naming, CopiesNameTheSame, Safety, AllNamed
<1>4. ASSUME Safety, Naming, NEW w \in Workers, NEW i \in Owned
      PROVE  /\ Update(w) /\ remote'[i] # remote[i] => cr.exists /\ cr.name = i
             /\ Delete(w) /\ dip'[i] # dip[i] => cr.exists /\ cr.deleting /\ cr.name = i
  <2>1. Update(w) /\ remote'[i] # remote[i] => pc[w] = "update" /\ mem[w].name = i
    BY <1>4 DEF Update, Safety, TypeOK, Owned
  <2>2. Delete(w) /\ dip'[i] # dip[i] => pc[w] = "delete" /\ mem[w].name = i
    BY <1>4 DEF Delete, Safety, TypeOK, Owned
  <2>3. pc[w] = "delete" => cr.deleting
    BY <1>4 DEF Naming, DeletedForGood
  <2>4. QED
    BY <1>3, <1>4, <2>1, <2>2, <2>3 DEF Serving
<1>5. Tracked /\ [Next]_vars
        => [~Overtaken => \A w \in Workers, i \in Owned :
              /\ Update(w) /\ remote'[i] # remote[i] => cr.exists /\ cr.name = i
              /\ Delete(w) /\ dip'[i] # dip[i]
                   => cr.exists /\ cr.deleting /\ cr.name = i]_vars
  BY <1>4 DEF Inductive
<1>6. QED
  BY <1>1, <1>2, <1>5, PTL DEF Spec, TouchesOnlyNamed

-----------------------------------------------------------------------------
(* How many. *)

LEMMA NoneMore ==
  ASSUME NEW S, IsFiniteSet(S), NEW T, T \subseteq S
  PROVE  IsFiniteSet(T) /\ Cardinality(T) <= Cardinality(S)
  BY FS_Subset

LEMMA OneMore ==
  ASSUME NEW S, IsFiniteSet(S), NEW x, NEW T, T \subseteq S \cup {x}
  PROVE  IsFiniteSet(T) /\ Cardinality(T) <= Cardinality(S) + 1
<1> DEFINE U == S \cup {x}
<1>1. /\ IsFiniteSet(U)
      /\ Cardinality(U) = IF x \in S THEN Cardinality(S) ELSE Cardinality(S) + 1
  BY FS_AddElement
<1> HIDE DEF U
<1>2. IsFiniteSet(T) /\ Cardinality(T) <= Cardinality(U)
  BY <1>1, FS_Subset DEF U
<1>3. Cardinality(S) \in Nat /\ Cardinality(T) \in Nat
  BY <1>2, FS_CardinalityType
<1>4. QED
  BY <1>1, <1>2, <1>3

LEMMA OneLess ==
  ASSUME NEW S, IsFiniteSet(S), NEW x \in S, NEW T, T \subseteq S \ {x}
  PROVE  IsFiniteSet(T) /\ Cardinality(T) + 1 <= Cardinality(S)
<1>1. /\ IsFiniteSet(S \ {x}) /\ Cardinality(S) \in Nat
      /\ Cardinality(S \ {x}) = Cardinality(S) - 1
  BY FS_RemoveElement, FS_CardinalityType
<1>2. IsFiniteSet(T) /\ Cardinality(T) <= Cardinality(S \ {x})
  BY <1>1, FS_Subset
<1>3. Cardinality(T) \in Nat
  BY <1>2, FS_CardinalityType
<1>4. QED
  BY <1>1, <1>2, <1>3

\* What was spent is a number, and grows by one with each fault of its kind.
LEMMA SpentGrows ==
  ASSUME TypeOK, Within, [Next]_vars
  PROVE  \A f \in Faults :
           /\ Spent(f) \in Nat /\ Spent(f)' \in Nat /\ Spent(f) <= Spent(f)'
           /\ Spend(f) => Spent(f)' = Spent(f) + 1
<1>1. TypeOK' /\ Within' /\ allowed' = allowed
  BY TypeStep, WithinStep, KindKept
<1>2. ASSUME NEW f \in Faults
      PROVE  /\ budget[f] \in Nat /\ allowed[f] \in Nat /\ budget[f] <= allowed[f]
             /\ budget'[f] \in Nat /\ budget'[f] <= budget[f]
             /\ Spend(f) => budget'[f] = budget[f] - 1
  BY <1>1, BudgetFalls, BudgetsAssumption DEF Within, TypeOK, Spend
<1>3. QED
  BY <1>1, <1>2 DEF Spent

\* Inside a creation, or on the way there on a copy that shows another one pending.
Inside ==
  {w \in Workers :
     \/ Creating(w)
     \/ /\ w \in fresh /\ cr.mark = "pending"
        /\ pc[w] \in {"observe", "protect", "claim"}}

\* A resource that is not create-pending lets one more in.
Vacant == IF cr.mark = "pending" THEN 0 ELSE 1

FewInside ==
  /\ IsFiniteSet(Inside)
  /\ Cardinality(Inside) + Vacant <= 1 + Spent("overtake")

\* A step without a new entrant that lets the resource stay create-pending.
LEMMA NoneEnters ==
  ASSUME FewInside, NEW s \in Nat, NEW t \in Nat, s <= t,
         s = Spent("overtake"), t = Spent("overtake")',
         Inside' \subseteq Inside, cr.mark = "pending" => cr'.mark = "pending"
  PROVE  FewInside'
<1>1. /\ IsFiniteSet(Inside') /\ Cardinality(Inside') <= Cardinality(Inside)
      /\ Cardinality(Inside) \in Nat /\ Cardinality(Inside') \in Nat
  BY NoneMore, FS_CardinalityType DEF FewInside
<1>2. Vacant' <= Vacant /\ Vacant \in Nat /\ Vacant' \in Nat
  BY DEF Vacant
<1>3. QED
  BY <1>1, <1>2 DEF FewInside

LEMMA FewInsideStep ==
  TypeOK /\ Within /\ CopiesAgree /\ FewInside /\ [Next]_vars => FewInside'
<1> SUFFICES ASSUME TypeOK, Within, CopiesAgree, FewInside, [Next]_vars
             PROVE  FewInside'
  OBVIOUS
<1> DEFINE s == Spent("overtake")
           t == Spent("overtake")'
<1>1. /\ s \in Nat /\ t \in Nat /\ s <= t
      /\ Spend("overtake") => t = s + 1
  BY SpentGrows DEF Faults
<1>2. ASSUME Inside' \subseteq Inside, cr.mark = "pending" => cr'.mark = "pending"
      PROVE  FewInside'
  BY <1>1, <1>2, NoneEnters
<1> HIDE DEF s, t
<1>3. IsFiniteSet(Inside) /\ Cardinality(Inside) \in Nat
  BY FS_CardinalityType DEF FewInside
<1>4. ASSUME NEW w \in Workers, End(w), cr' = cr, Reconcile(w) \/ Interrupt(w)
      PROVE  FewInside'
  <2>1. pc'[w] = "idle" /\ fresh' \subseteq fresh
    BY <1>4, Ends
  <2>2. \A v \in Workers \ {w} : pc'[v] = pc[v]
    BY <1>4, OthersStay
  <2>3. Inside' \subseteq Inside
    BY <1>4, <2>1, <2>2 DEF Inside, Creating
  <2>4. QED
    BY <1>2, <1>4, <2>3
<1>5. ASSUME NEW w \in Workers, Begin(w) PROVE FewInside'
  <2>1. w \in fresh' => cr.mark # "pending"
    BY <1>5 DEF Begin, MayServe, CopiesAgree, TypeOK
  <2>2. cr' = cr /\ pc' = [pc EXCEPT ![w] = "observe"] /\ fresh' \subseteq fresh \cup {w}
    BY <1>5 DEF Begin, api
  <2>3. Inside' \subseteq Inside
    BY <2>1, <2>2 DEF Inside, Creating, TypeOK
  <2>4. QED
    BY <1>2, <2>2, <2>3
<1>6. ASSUME NEW w \in Workers, Resolve(w) PROVE FewInside'
  <2>1. /\ pc[w] = "idle" /\ pc' = [pc EXCEPT ![w] = "observe"]
        /\ cr'.mark = cr.mark /\ fresh' \subseteq fresh \cup {w}
    BY <1>6, ResolveWrites
  <2>2. CASE cr.mark # "pending"
    BY <1>2, <2>1, <2>2 DEF Inside, Creating, TypeOK
  <2>3. CASE cr.mark = "pending"
    <3>1. t = s + 1
      BY <1>1, <1>6, <2>3 DEF Resolve, Overtakes
    <3>2. Inside' \subseteq Inside \cup {w}
      BY <2>1 DEF Inside, Creating, TypeOK
    <3>3. IsFiniteSet(Inside') /\ Cardinality(Inside') <= Cardinality(Inside) + 1
      BY <1>3, <3>2, OneMore
    <3>4. Cardinality(Inside') \in Nat /\ Vacant = 0 /\ Vacant' = 0
      BY <2>1, <2>3, <3>3, FS_CardinalityType DEF Vacant
    <3>5. QED
      BY <1>1, <1>3, <3>1, <3>3, <3>4 DEF FewInside, s, t
  <2>4. QED
    BY <2>2, <2>3
<1>7. ASSUME NEW w \in Workers, ObserveUnnamed(w) \/ Observe(w) PROVE FewInside'
  BY <1>2, <1>7, OthersStay, Observes DEF Inside, Creating, Reconcile, TypeOK, api
<1>8. ASSUME NEW w \in Workers, AddFinalizer(w) PROVE FewInside'
  <2>1. [cr EXCEPT !.finalizer = TRUE].mark = cr.mark
    BY DEF TypeOK, CustomResource
  <2>2. CASE Conflict(w)
    BY <1>4, <1>8, <2>2 DEF Conflict, Reconcile, api
  <2>3. CASE ~Conflict(w)
    <3>1. /\ cr'.mark = cr.mark /\ pc[w] = "protect" /\ w \in fresh
          /\ fresh' \subseteq {w} /\ pc'[w] \in {"idle", "claim", "update"}
      BY <1>8, <2>1, <2>3 DEF AddFinalizer, WriteOwn, Write, Stop, TypeOK
    <3>2. Inside' \subseteq Inside
      BY <1>8, <3>1, OthersStay DEF Inside, Creating, Reconcile
    <3>3. QED
      BY <1>2, <3>1, <3>2
  <2>4. QED
    BY <2>2, <2>3
<1>9. ASSUME NEW w \in Workers, Claim(w) PROVE FewInside'
  <2>1. [cr EXCEPT !.mark = "pending"].mark = "pending"
    BY DEF TypeOK, CustomResource
  <2>2. CASE Conflict(w)
    BY <1>4, <1>9, <2>2 DEF Conflict, Reconcile, api
  <2>3. CASE ~Conflict(w)
    <3>1. /\ cr'.mark = "pending" /\ pc[w] = "claim" /\ w \in fresh
          /\ fresh' = {w} /\ pc' = [pc EXCEPT ![w] = "create"]
      BY <1>9, <2>1, <2>3 DEF Claim, WriteOwn
    <3>2. Inside' \subseteq Inside \cup {w} /\ (cr.mark = "pending" => w \in Inside)
      BY <3>1 DEF Inside, Creating, TypeOK
    <3>3. CASE cr.mark = "pending"
      BY <1>2, <3>1, <3>2, <3>3
    <3>4. CASE cr.mark # "pending"
      <4>1. IsFiniteSet(Inside') /\ Cardinality(Inside') <= Cardinality(Inside) + 1
        BY <1>3, <3>2, OneMore
      <4>2. Cardinality(Inside') \in Nat /\ Vacant = 1 /\ Vacant' = 0
        BY <3>1, <3>4, <4>1, FS_CardinalityType DEF Vacant
      <4>3. QED
        BY <1>1, <1>3, <4>1, <4>2 DEF FewInside, s, t
    <3>5. QED
      BY <3>3, <3>4
  <2>4. QED
    BY <2>2, <2>3
<1>10. ASSUME NEW w \in Workers, CreateSucceeds(w) \/ CreateFails(w) \/ CreateReplyLost(w)
       PROVE  FewInside'
  <2>1. /\ pc[w] = "create" /\ pc'[w] \in {"record", "persist"}
        /\ cr' = cr /\ fresh' = fresh
    BY <1>10 DEF CreateSucceeds, CreateFails, CreateReplyLost, Goto, TypeOK, api
  <2>2. Inside' \subseteq Inside
    BY <1>10, <2>1, OthersStay DEF Inside, Creating, Reconcile
  <2>3. QED
    BY <1>2, <2>1, <2>2
<1>11. ASSUME NEW w \in Workers, RecordFailure(w) \/ PersistName(w) PROVE FewInside'
  <2>1. CASE End(w) /\ UNCHANGED api
    BY <1>4, <1>11, <2>1 DEF Reconcile, api
  <2>2. CASE cr.exists
    <3>1. \A mark \in Marks : Annotated(w, mark).mark = mark
      BY DEF Annotated, TypeOK, CustomResource
    <3>2. /\ w \in Inside /\ cr'.mark # "pending" /\ fresh' \subseteq {w}
          /\ pc'[w] \in {"idle", "publish"}
      BY <1>11, <2>2, <3>1 DEF RecordFailure, PersistName, Write, WriteOwn, Stop, Inside,
         Creating, TypeOK, Marks
    <3>3. Inside' \subseteq Inside \ {w}
      BY <1>11, <3>2, OthersStay DEF Inside, Creating, Reconcile
    <3>4. IsFiniteSet(Inside') /\ Cardinality(Inside') + 1 <= Cardinality(Inside)
      BY <1>3, <3>2, <3>3, OneLess
    <3>5. Cardinality(Inside') \in Nat /\ Vacant \in Nat /\ Vacant' = 1
      BY <3>2, <3>4, FS_CardinalityType DEF Vacant
    <3>6. QED
      BY <1>1, <1>3, <3>4, <3>5 DEF FewInside, s, t
  <2>3. QED
    BY <1>11, <2>1, <2>2 DEF RecordFailure, PersistName
<1>12. ASSUME NEW w \in Workers,
              Publish(w) \/ Update(w) \/ Delete(w) \/ CallFails(w) \/ Interrupt(w)
       PROVE  FewInside'
  BY <1>4, <1>12 DEF Publish, Update, Delete, CallFails, Interrupt, Reconcile, api
<1>13. ASSUME NEW w \in Workers, RemoveFinalizer(w) PROVE FewInside'
  <2>1. [cr EXCEPT !.exists = FALSE, !.finalizer = FALSE].mark = cr.mark
    BY DEF TypeOK, CustomResource
  <2>2. CASE Conflict(w)
    BY <1>4, <1>13, <2>2 DEF Conflict, Reconcile, api
  <2>3. CASE ~Conflict(w)
    <3>1. cr'.mark = cr.mark /\ fresh' = {} /\ pc'[w] = "idle"
      BY <1>13, <2>1, <2>3 DEF RemoveFinalizer, Write, Stop, TypeOK
    <3>2. Inside' \subseteq Inside
      BY <1>13, <3>1, OthersStay DEF Inside, Creating, Reconcile
    <3>3. QED
      BY <1>2, <3>1, <3>2
  <2>4. QED
    BY <2>2, <2>3
<1>14. CASE Edit \/ Remove
  <2>1. cr'.mark = cr.mark /\ fresh' = {} /\ pc' = pc
    <3>1. CASE Edit
      BY <3>1, EditWrites DEF Write
    <3>2. CASE Remove
      BY <3>2 DEF Remove, Write, TypeOK, CustomResource
    <3>3. QED
      BY <1>14, <3>1, <3>2
  <2>2. QED
    BY <1>2, <2>1 DEF Inside, Creating
<1>15. CASE ClearPending
  <2>1. fresh' = {} /\ pc' = pc /\ \A w \in Workers : ~Creating(w)
    BY <1>15 DEF ClearPending, Write, Creating
  <2>2. Inside' = {}
    BY <2>1 DEF Inside, Creating
  <2>3. IsFiniteSet(Inside') /\ Cardinality(Inside') = 0 /\ Vacant' \in {0, 1}
    BY <2>2, FS_EmptySet DEF Vacant
  <2>4. QED
    BY <1>1, <2>3 DEF FewInside, s, t
<1>16. CASE \/ Drift \/ Vanish \/ FinishTermination \/ SecretsMissing \/ SecretsReturn
            \/ (\E w \in Workers : Sync(w)) \/ UNCHANGED vars
  <2>1. UNCHANGED <<cr, run>>
    BY <1>16 DEF Drift, Vanish, FinishTermination, SecretsMissing, SecretsReturn, Sync,
       vars, api
  <2>2. QED
    BY <1>2, <2>1 DEF run, Inside, Creating
<1>17. QED
  BY <1>5, <1>6, <1>7, <1>8, <1>9, <1>10, <1>11, <1>12, <1>13, <1>14, <1>15, <1>16
     DEF Next, Reconcile, Environment

\* For any number of processes: two are inside a creation only if a resolution
\* overtook the first, and each that does lets at most one more in (the update that
\* writes create-pending, the reconciler's check of it, and the patch that a
\* resolution makes without a resourceVersion).
THEOREM CreatorsAreFewAlways == Spec => []CreatorsAreFew
<1>1. Init => Inductive /\ FewInside
  <2>1. ASSUME Init PROVE FewInside
    <3>1. Inside = {}
      BY <2>1 DEF Init, Inside, Creating
    <3>2. IsFiniteSet(Inside) /\ Cardinality(Inside) = 0 /\ Vacant \in {0, 1}
      BY <3>1, FS_EmptySet DEF Vacant
    <3>3. Spent("overtake") = 0
      BY <2>1, BudgetsAssumption DEF Init, Spent, Faults
    <3>4. QED
      BY <3>2, <3>3 DEF FewInside
  <2>2. QED
    BY <2>1, InductiveInit
<1>2. Inductive /\ FewInside /\ [Next]_vars => (Inductive /\ FewInside)'
  BY InductiveStep, FewInsideStep DEF Inductive
<1>3. Inductive /\ FewInside => CreatorsAreFew
  <2> SUFFICES ASSUME Inductive, FewInside
               PROVE  CreatorsAreFew
    OBVIOUS
  <2>1. {w \in Workers : Creating(w)} \subseteq Inside
    BY DEF Inside
  <2>2. /\ IsFiniteSet({w \in Workers : Creating(w)})
        /\ Cardinality({w \in Workers : Creating(w)}) <= Cardinality(Inside)
    BY <2>1, NoneMore DEF FewInside
  <2>3. /\ Cardinality({w \in Workers : Creating(w)}) \in Nat /\ Cardinality(Inside) \in Nat
        /\ Vacant \in {0, 1}
    BY <2>2, FS_CardinalityType DEF FewInside, Vacant
  <2>4. Spent("overtake") \in Int
    BY BudgetsAssumption DEF Inductive, TypeOK, Spent, Faults
  <2>5. QED
    BY <2>2, <2>3, <2>4 DEF CreatorsAreFew, FewInside
<1>4. QED
  BY <1>1, <1>2, <1>3, PTL DEF Spec

\* No copy names an object that is still to come; the name that a reconcile has to
\* write is in no other copy; a reconcile serves what existed.
Standing ==
  /\ ~Unborn(cr)
  /\ \A w \in Workers :
       /\ ~Unborn(cache[w]) /\ ~Unborn(mem[w])
       /\ pc[w] \in Serving => mem[w].exists
       /\ pc[w] = "persist" =>
            /\ mem[w].name \in Ids \ {cr.name}
            /\ \A v \in Workers : /\ cache[v].name # mem[w].name
                                  /\ v # w => mem[v].name # mem[w].name

\* The initial states satisfy Standing.
LEMMA StandingInit == Init => Standing
  BY NamesAssumption DEF Init, Standing, Unborn, Blank, Serving

LEMMA StandingStep ==
  TypeOK /\ CopiesAgree /\ Standing /\ [Next]_vars => Standing'
<1> SUFFICES ASSUME TypeOK, CopiesAgree, Standing, [Next]_vars
             PROVE  Standing'
  OBVIOUS
<1>0. ~Blank.exists /\ Blank.name \notin Ids
  BY NamesAssumption DEF Blank
<1>1. ASSUME KeepsNames PROVE Standing'
  <2>1. ~Unborn(cr)'
    BY <1>1 DEF Standing, Unborn, KeepsNames
  <2>2. ASSUME NEW w \in Workers
        PROVE  /\ ~Unborn(cache[w])' /\ ~Unborn(mem[w])'
               /\ pc'[w] \in Serving => mem'[w].exists
    BY <1>0, <1>1, <2>1 DEF Standing, Unborn, KeepsNames, Copied
  <2>3. ASSUME NEW w \in Workers, pc'[w] = "persist"
        PROVE  /\ mem'[w].name \in Ids \ {cr'.name}
               /\ \A v \in Workers : /\ cache'[v].name # mem'[w].name
                                     /\ v # w => mem'[v].name # mem'[w].name
    <3>1. /\ mem'[w] = mem[w] /\ pc[w] = "persist" /\ cr'.name = cr.name
          /\ mem[w].name \in Ids \ {cr.name}
      BY <1>1, <2>3 DEF Standing, KeepsNames, Copied
    <3>2. ASSUME NEW v \in Workers
          PROVE  /\ cache'[v].name # mem[w].name
                 /\ v # w => mem'[v].name # mem[w].name
      BY <1>0, <1>1, <3>1 DEF Standing, KeepsNames, Copied
    <3>3. QED
      BY <3>1, <3>2
  <2>4. QED
    BY <2>1, <2>2, <2>3 DEF Standing
<1>2. ASSUME NEW w \in Workers, CreateSucceeds(w) PROVE Standing'
  <2>1. NewId \in Ids /\ dip[NewId] = "unborn" /\ dip' = [dip EXCEPT ![NewId] = "live"]
    BY <1>2, NewIdUnborn DEF CreateSucceeds, Born
  <2>2. /\ mem'[w].name = NewId /\ pc' = [pc EXCEPT ![w] = "persist"]
        /\ \A v \in Workers \ {w} : mem'[v] = mem[v]
        /\ UNCHANGED <<cr, cache>>
    BY <1>2, <2>1 DEF CreateSucceeds, Named, TypeOK, CustomResource, api
  <2>3. /\ \A r : ~Unborn(r) => ~Unborn(r)' /\ r.name # NewId
        /\ ~Unborn(mem[w])'
    BY <2>1, <2>2 DEF Unborn, TypeOK
  <2>4. QED
    BY <2>1, <2>2, <2>3 DEF Standing, Serving, TypeOK, Unborn
<1>3. ASSUME NEW w \in Workers, Annotates(w) PROVE Standing'
  <2>1. PICK mark \in Marks :
          /\ cr' = Annotated(w, mark) /\ mem'[w] \in {cr', Blank}
          /\ pc'[w] \in {"publish", "idle"}
          /\ \A v \in Workers \ {w} : mem'[v] = mem[v] /\ pc'[v] = pc[v]
          /\ UNCHANGED <<cache, dip>> /\ pc[w] \in {"record", "persist"}
    <3>1. CASE PersistName(w)
      BY <1>3, <3>1 DEF Annotates, PersistName, WriteOwn, TypeOK, Marks, world
    <3>2. CASE RecordFailure(w)
      BY <1>3, <3>2 DEF Annotates, RecordFailure, Write, Stop, TypeOK, Marks, world
    <3>3. QED
      BY <1>3, <3>1, <3>2 DEF Annotates
  <2>2. cr'.name = mem[w].name
    BY <2>1 DEF Annotated, TypeOK, CustomResource
  <2>3. QED
    BY <1>0, <2>1, <2>2 DEF Standing, Serving, Unborn
<1>4. QED
  BY <1>1, <1>2, <1>3, NamesKept

Living == {i \in Ids : Alive(i)}

\* Creating, with no object to show for it; or on the way there, although another
\* creation is pending or the resource names an object.
Making ==
  {w \in Workers :
     \/ pc[w] \in {"create", "record"}
     \/ pc[w] = "persist" /\ ~Alive(mem[w].name)
     \/ /\ w \in fresh
        /\ \/ cr.mark = "pending" /\ pc[w] \in {"observe", "protect", "claim"}
           \/ /\ Alive(cr.name)
              /\ pc[w] = "claim" \/ (pc[w] = "protect" /\ plan[w] = "claim")}

\* A resource that is not create-pending and names no object is in want of one.
Wanting == cr.exists /\ cr.mark # "pending" /\ ~Alive(cr.name)
Unfilled == IF Wanting THEN 1 ELSE 0

Mishaps == Spent("lostReply") + Spent("wrong4xx") + Spent("clear") + Spent("overtake")

\* The objects there are, and those that may yet be made.
FewStray ==
  /\ IsFiniteSet(Living) /\ IsFiniteSet(Making)
  /\ Cardinality(Living) + Cardinality(Making) + Unfilled <= 1 + Mishaps

\* A step that adds no more than there are new mishaps.
LEMMA Balance ==
  ASSUME FewStray, IsFiniteSet(Living'), IsFiniteSet(Making'),
         NEW l \in Int, Cardinality(Living') <= Cardinality(Living) + l,
         NEW m \in Int, Cardinality(Making') <= Cardinality(Making) + m,
         NEW u \in Int, Unfilled' <= Unfilled + u,
         Mishaps \in Int, Mishaps' \in Int, Mishaps + (l + m + u) <= Mishaps'
  PROVE  FewStray'
<1>1. /\ Cardinality(Living) \in Nat /\ Cardinality(Making) \in Nat
      /\ Cardinality(Living') \in Nat /\ Cardinality(Making') \in Nat
  BY FS_CardinalityType DEF FewStray
<1>2. Unfilled \in Int /\ Unfilled' \in Int
  BY DEF Unfilled
<1>3. QED
  BY <1>1, <1>2 DEF FewStray

\* An object dies, or is on its way to: then the resource is in want of one, or the
\* one reconcile that has its name to write.
LEMMA DyingKeepsFew ==
  ASSUME TypeOK, Standing, FewStray, NEW i \in Living,
         \A j \in Ids \ {i} : dip'[j] = dip[j],
         cr' = cr, fresh' \subseteq fresh,
         \A v \in Workers :
           pc'[v] = "idle" \/ (pc'[v] = pc[v] /\ plan'[v] = plan[v] /\ mem'[v] = mem[v]),
         Mishaps \in Int, Mishaps' \in Int, Mishaps <= Mishaps'
  PROVE  FewStray'
<1>1. i \in Ids /\ \A n : n # i => (Alive(n)' <=> Alive(n))
  BY DEF Living, Alive
<1>2. /\ IsFiniteSet(Living) /\ IsFiniteSet(Making)
      /\ Cardinality(Living) \in Nat /\ Cardinality(Making) \in Nat
  BY FS_CardinalityType DEF FewStray
<1>3. ASSUME Making' \subseteq Making
      PROVE  /\ IsFiniteSet(Making') /\ Cardinality(Making') <= Cardinality(Making) + 0
             /\ Cardinality(Making') <= Cardinality(Making) + 1
             /\ Cardinality(Making') \in Nat
  BY <1>2, <1>3, NoneMore, FS_CardinalityType
<1>4. CASE Alive(i)'
  <2>1. \A n : Alive(n)' <=> Alive(n)
    BY <1>1, <1>4 DEF Living
  <2>2. Living' \subseteq Living /\ Making' \subseteq Making /\ Unfilled' = Unfilled
    BY <2>1 DEF Living, Making, Unfilled, Wanting
  <2>3. IsFiniteSet(Living') /\ Cardinality(Living') <= Cardinality(Living) + 0
    BY <1>2, <2>2, NoneMore
  <2>4. QED
    BY <1>3, <2>2, <2>3, Balance DEF Unfilled
<1>5. CASE ~Alive(i)'
  <2>1. Living' \subseteq Living \ {i}
    BY <1>1, <1>5 DEF Living
  <2>2. /\ IsFiniteSet(Living') /\ Cardinality(Living') + 1 <= Cardinality(Living)
        /\ Cardinality(Living') \in Nat
    BY <1>2, <2>1, OneLess, FS_CardinalityType
  <2>3. Cardinality(Living') <= Cardinality(Living) + (-1)
    BY <1>2, <2>2
  <2>4. CASE cr.name = i
    <3>1. \A w \in Workers : pc[w] = "persist" => mem[w].name # i
      BY <2>4 DEF Standing
    <3>2. Making' \subseteq Making
      BY <1>1, <1>5, <2>4, <3>1 DEF Making
    <3>3. Unfilled' <= Unfilled + 1
      BY DEF Unfilled
    <3>4. QED
      BY <1>3, <2>2, <2>3, <3>2, <3>3, Balance
  <2>5. CASE cr.name # i
    <3>1. Unfilled' <= Unfilled + 0
      BY <1>1, <2>5 DEF Unfilled, Wanting
    <3>2. CASE \E w \in Workers : pc[w] = "persist" /\ mem[w].name = i
      <4>1. PICK w \in Workers : pc[w] = "persist" /\ mem[w].name = i
        BY <3>2
      <4>2. \A v \in Workers : pc[v] = "persist" /\ mem[v].name = i => v = w
        BY <4>1 DEF Standing
      <4>3. Making' \subseteq Making \cup {w}
        BY <1>1, <2>5, <4>2 DEF Making
      <4>4. IsFiniteSet(Making') /\ Cardinality(Making') <= Cardinality(Making) + 1
        BY <1>2, <4>3, OneMore
      <4>5. QED
        BY <2>2, <2>3, <3>1, <4>4, Balance
    <3>3. CASE \A w \in Workers : pc[w] = "persist" => mem[w].name # i
      <4>1. Making' \subseteq Making
        BY <1>1, <2>5, <3>3 DEF Making
      <4>2. QED
        BY <1>3, <2>2, <2>3, <3>1, <4>1, Balance
    <3>4. QED
      BY <3>2, <3>3
  <2>6. QED
    BY <2>4, <2>5
<1>6. QED
  BY <1>4, <1>5

LEMMA FewStrayStep ==
  TypeOK /\ Within /\ CopiesAgree /\ Standing /\ FewStray /\ [Next]_vars => FewStray'
<1> SUFFICES ASSUME TypeOK, Within, CopiesAgree, Standing, FewStray, [Next]_vars
             PROVE  FewStray'
  OBVIOUS
<1>1. /\ Mishaps \in Int /\ Mishaps' \in Int /\ Mishaps <= Mishaps'
      /\ \A f \in {"lostReply", "wrong4xx", "clear", "overtake"} :
           Spend(f) => Mishaps + 1 <= Mishaps'
  BY SpentGrows DEF Mishaps, Faults
<1>2. /\ IsFiniteSet(Living) /\ IsFiniteSet(Making)
      /\ Cardinality(Living) \in Nat /\ Cardinality(Making) \in Nat
      /\ Unfilled \in {0, 1} /\ Unfilled' \in {0, 1}
  BY FS_CardinalityType DEF FewStray, Unfilled
<1>3. ASSUME NEW S \in {Living, Making}, NEW T
      PROVE  /\ T \subseteq S => IsFiniteSet(T) /\ Cardinality(T) <= Cardinality(S) + 0
             /\ \A x : T \subseteq S \cup {x}
                         => IsFiniteSet(T) /\ Cardinality(T) <= Cardinality(S) + 1
             /\ \A x \in S : T \subseteq S \ {x}
                         => IsFiniteSet(T) /\ Cardinality(T) <= Cardinality(S) + (-1)
  <2>1. IsFiniteSet(S) /\ Cardinality(S) \in Nat
    BY <1>2, <1>3
  <2>2. T \subseteq S => IsFiniteSet(T) /\ Cardinality(T) <= Cardinality(S) + 0
    BY <2>1, NoneMore, FS_CardinalityType
  <2>3. ASSUME NEW x, T \subseteq S \cup {x}
        PROVE  IsFiniteSet(T) /\ Cardinality(T) <= Cardinality(S) + 1
    BY <2>1, <2>3, OneMore
  <2>4. ASSUME NEW x \in S, T \subseteq S \ {x}
        PROVE  IsFiniteSet(T) /\ Cardinality(T) <= Cardinality(S) + (-1)
    <3>1. IsFiniteSet(T) /\ Cardinality(T) + 1 <= Cardinality(S)
      BY <2>1, <2>4, OneLess
    <3>2. Cardinality(T) \in Nat
      BY <3>1, FS_CardinalityType
    <3>3. QED
      BY <2>1, <3>1, <3>2
  <2>5. QED
    BY <2>2, <2>3, <2>4
<1>4. ASSUME Living' \subseteq Living, Making' \subseteq Making, Wanting' => Wanting
      PROVE  FewStray'
  <2>1. Unfilled' <= Unfilled + 0
    BY <1>4 DEF Unfilled
  <2>2. QED
    BY <1>1, <1>3, <1>4, <2>1, Balance
<1>5. ASSUME NEW f \in {"lostReply", "wrong4xx", "clear", "overtake"}, Spend(f),
             Living' \subseteq Living, NEW x, Making' \subseteq Making \cup {x},
             Wanting' => Wanting
      PROVE  FewStray'
  <2>1. Unfilled' <= Unfilled + 0
    BY <1>5 DEF Unfilled
  <2>2. Mishaps + (0 + 1 + 0) <= Mishaps'
    BY <1>1, <1>5
  <2>3. /\ IsFiniteSet(Living') /\ Cardinality(Living') <= Cardinality(Living) + 0
        /\ IsFiniteSet(Making') /\ Cardinality(Making') <= Cardinality(Making) + 1
    BY <1>3, <1>5
  <2>4. QED
    BY <1>1, <2>1, <2>2, <2>3, Balance
<1>6. ASSUME NEW w \in Workers, End(w), Reconcile(w) \/ Interrupt(w), UNCHANGED <<cr, dip>>
      PROVE  FewStray'
  <2>1. pc'[w] = "idle" /\ fresh' \subseteq fresh
    BY <1>6, Ends
  <2>2. \A v \in Workers \ {w} : pc'[v] = pc[v] /\ plan'[v] = plan[v] /\ mem'[v] = mem[v]
    BY <1>6, OthersStay
  <2>3. Making' \subseteq Making
    BY <1>6, <2>1, <2>2 DEF Making, Alive
  <2>4. QED
    BY <1>4, <1>6, <2>3 DEF Living, Wanting, Alive
<1>7. ASSUME NEW w \in Workers, Begin(w) PROVE FewStray'
  <2>1. w \in fresh' => cr.mark # "pending"
    BY <1>7 DEF Begin, MayServe, CopiesAgree, TypeOK
  <2>2. /\ UNCHANGED <<cr, dip>> /\ pc' = [pc EXCEPT ![w] = "observe"]
        /\ fresh' \subseteq fresh \cup {w}
    BY <1>7 DEF Begin, api, world
  <2>3. \A v \in Workers \ {w} : pc'[v] = pc[v] /\ plan'[v] = plan[v] /\ mem'[v] = mem[v]
    BY <1>7, OthersStay DEF Reconcile
  <2>4. Making' \subseteq Making
    BY <2>1, <2>2, <2>3 DEF Making, Alive, TypeOK
  <2>5. QED
    BY <1>4, <2>2, <2>4 DEF Living, Wanting, Alive
<1>8. ASSUME NEW w \in Workers, Resolve(w) PROVE FewStray'
  <2>1. /\ pc' = [pc EXCEPT ![w] = "observe"] /\ fresh' \subseteq fresh \cup {w}
        /\ dip' = dip /\ cr'.mark = cr.mark /\ cr'.name = cr.name /\ cr'.exists = cr.exists
    BY <1>8, ResolveWrites
  <2>2. \A v \in Workers \ {w} : pc'[v] = pc[v] /\ plan'[v] = plan[v] /\ mem'[v] = mem[v]
    BY <1>8, OthersStay DEF Reconcile
  <2>3. /\ Living' \subseteq Living /\ (Wanting' => Wanting)
        /\ Making' \subseteq Making \cup {w}
        /\ cr.mark # "pending" => Making' \subseteq Making
    BY <2>1, <2>2 DEF Living, Wanting, Alive, Making, TypeOK
  <2>4. QED
    BY <1>4, <1>5, <1>8, <2>3 DEF Resolve, Overtakes
<1>9. ASSUME NEW w \in Workers, ObserveUnnamed(w) \/ Observe(w) PROVE FewStray'
  <2>1. /\ pc[w] = "observe" /\ fresh' \subseteq fresh /\ UNCHANGED <<cr, dip>>
        /\ pc'[w] \in {"idle", "protect", "claim", "update", "delete", "finalize"}
    BY <1>9, Observes DEF api
  <2>2. \A v \in Workers \ {w} : pc'[v] = pc[v] /\ plan'[v] = plan[v] /\ mem'[v] = mem[v]
    BY <1>9, OthersStay DEF Reconcile
  <2>3. Living' \subseteq Living /\ (Wanting' => Wanting) /\ Making' \subseteq Making \cup {w}
    BY <2>1, <2>2 DEF Living, Wanting, Alive, Making
  <2>4. CASE Spend("wrong4xx")
    BY <1>5, <2>3, <2>4
  <2>6. ASSUME ~Spend("wrong4xx") PROVE Making' \subseteq Making
    <3>1. CASE w \in Making
      BY <2>3, <3>1
    <3>2. CASE w \notin Making /\ ~Alive(mem[w].name)
      <4>1. w \in fresh => mem[w] = cr /\ cr.mark # "pending"
        BY <2>1, <3>2 DEF CopiesAgree, Making
      <4>2. QED
        BY <2>1, <2>2, <3>2, <4>1 DEF Making, Alive
    <3>3. CASE Alive(mem[w].name)
      <4>1. Present(w) \/ End(w)
        BY <1>9, <2>6, <3>3 DEF Observe, ObserveUnnamed, Answered, MeansAbsent, Alive
      <4>2. ASSUME Present(w) PROVE Making' \subseteq Making
        <5>1. PICK next : /\ next \in {"idle", "update", "delete"}
                          /\ Proceed(w, next)
          BY <4>2, Zenon DEF Present, NextPhase
        <5>2. /\ pc'[w] \in {"idle", "update", "delete", "protect"}
              /\ pc'[w] = "protect" => plan'[w] = next
              /\ w \in fresh' => w \in fresh
          BY <2>1, <5>1 DEF Proceed, Goto, End, Stop, TypeOK
        <5>3. pc'[w] = "protect" => plan'[w] \in {"idle", "update", "delete"}
          BY <5>1, <5>2 DEF Proceed, Goto, End, Stop, TypeOK
        <5>4. cr.mark = "pending" /\ w \in fresh => w \in Making
          BY <2>1 DEF Making
        <5>5. QED
          BY <2>1, <2>2, <2>3, <5>2, <5>3, <5>4 DEF Making, Alive
      <4>3. CASE End(w)
        BY <2>1, <2>2, <4>3, Ends DEF Making, Alive
      <4>4. QED
        BY <4>1, <4>2, <4>3
    <3>4. QED
      BY <3>1, <3>2, <3>3
  <2>7. QED
    BY <1>4, <2>3, <2>4, <2>6
<1>10. ASSUME NEW w \in Workers, AddFinalizer(w) PROVE FewStray'
  <2> DEFINE protected == [cr EXCEPT !.finalizer = TRUE]
  <2>1. /\ protected.mark = cr.mark /\ protected.name = cr.name
        /\ protected.exists = cr.exists
    BY DEF TypeOK, CustomResource
  <2> HIDE DEF protected
  <2>2. pc[w] = "protect" /\ dip' = dip
    BY <1>10 DEF AddFinalizer, world
  <2>3. CASE Conflict(w)
    BY <1>6, <1>10, <2>2, <2>3 DEF Conflict, Reconcile, api
  <2>4. CASE ~Conflict(w)
    <3>1. /\ cr' = protected /\ w \in fresh /\ fresh' \subseteq {w}
          /\ pc'[w] \in {"idle", "claim", "update"}
          /\ pc'[w] = "claim" => plan[w] = "claim"
      BY <1>10, <2>4 DEF AddFinalizer, WriteOwn, Write, Stop, TypeOK, protected
    <3>2. \A v \in Workers \ {w} : pc'[v] = pc[v] /\ plan'[v] = plan[v] /\ mem'[v] = mem[v]
      BY <1>10, OthersStay DEF Reconcile
    <3>3. Making' \subseteq Making
      BY <2>1, <2>2, <3>1, <3>2 DEF Making, Alive
    <3>4. QED
      BY <1>4, <2>1, <2>2, <3>1, <3>3 DEF Living, Wanting, Alive
  <2>5. QED
    BY <2>3, <2>4
<1>11. ASSUME NEW w \in Workers, Claim(w) PROVE FewStray'
  <2> DEFINE claimed == [cr EXCEPT !.mark = "pending"]
  <2>1. claimed.mark = "pending"
    BY DEF TypeOK, CustomResource
  <2> HIDE DEF claimed
  <2>2. pc[w] = "claim" /\ dip' = dip
    BY <1>11 DEF Claim, world
  <2>3. CASE Conflict(w)
    BY <1>6, <1>11, <2>2, <2>3 DEF Conflict, Reconcile, api
  <2>4. CASE ~Conflict(w)
    <3>1. cr' = claimed /\ w \in fresh /\ fresh' = {w} /\ pc'[w] = "create"
      BY <1>11, <2>4 DEF Claim, WriteOwn, TypeOK, claimed
    <3>2. cr.exists
      BY <2>2, <3>1 DEF CopiesAgree, Standing, Serving
    <3>3. \A v \in Workers \ {w} : pc'[v] = pc[v] /\ plan'[v] = plan[v] /\ mem'[v] = mem[v]
      BY <1>11, OthersStay DEF Reconcile
    <3>4. Making' \subseteq Making \cup {w} /\ Living' \subseteq Living /\ ~Wanting'
      BY <2>1, <2>2, <3>1, <3>3 DEF Making, Living, Wanting, Alive
    <3>5. CASE w \in Making
      BY <1>4, <3>4, <3>5
    <3>6. CASE w \notin Making
      <4>1. Wanting
        BY <2>2, <3>1, <3>2, <3>6 DEF Making, Wanting
      <4>2. Unfilled' <= Unfilled + (-1)
        BY <3>4, <4>1 DEF Unfilled
      <4>3. /\ IsFiniteSet(Living') /\ Cardinality(Living') <= Cardinality(Living) + 0
            /\ IsFiniteSet(Making') /\ Cardinality(Making') <= Cardinality(Making) + 1
        BY <1>3, <3>4
      <4>4. Mishaps + (0 + 1 + (-1)) <= Mishaps'
        BY <1>1
      <4>5. QED
        BY <1>1, <4>2, <4>3, <4>4, Balance
    <3>7. QED
      BY <3>5, <3>6
  <2>5. QED
    BY <2>3, <2>4
<1>12. ASSUME NEW w \in Workers, Born(w), Reconcile(w), pc[w] = "create",
              UNCHANGED <<cr, fresh>>
       PROVE  /\ Living' \subseteq Living \cup {NewId}
              /\ pc'[w] = "persist" /\ mem'[w].name = NewId => Making' \subseteq Making \ {w}
              /\ pc'[w] = "record" => Making' \subseteq Making
              /\ w \in Making
              /\ Wanting' => Wanting
  <2>1. NewId \in Ids /\ dip[NewId] = "unborn" /\ dip' = [dip EXCEPT ![NewId] = "live"]
    BY <1>12, NewIdUnborn DEF Born
  <2>2. /\ \A n : Alive(n)' <=> (Alive(n) \/ n = NewId)
        /\ NewId # cr.name
    BY <2>1 DEF Alive, TypeOK, Standing, Unborn
  <2>3. \A v \in Workers \ {w} : pc'[v] = pc[v] /\ plan'[v] = plan[v] /\ mem'[v] = mem[v]
    BY <1>12, OthersStay
  <2>4. QED
    BY <1>12, <2>2, <2>3 DEF Living, Making, Wanting
<1>13. ASSUME NEW w \in Workers, CreateSucceeds(w) PROVE FewStray'
  <2>1. Born(w) /\ pc[w] = "create" /\ UNCHANGED <<cr, fresh>> /\ pc'[w] = "persist"
    BY <1>13 DEF CreateSucceeds, TypeOK, api
  <2>2. mem'[w].name = NewId
    BY <1>13, <2>1, NewIdUnborn DEF CreateSucceeds, Named, Born, TypeOK, CustomResource
  <2>3. /\ Living' \subseteq Living \cup {NewId} /\ Making' \subseteq Making \ {w}
        /\ w \in Making /\ (Wanting' => Wanting)
    BY <1>12, <1>13, <2>1, <2>2 DEF Reconcile
  <2>4. Unfilled' <= Unfilled + 0
    BY <2>3 DEF Unfilled
  <2>5. /\ IsFiniteSet(Living') /\ Cardinality(Living') <= Cardinality(Living) + 1
        /\ IsFiniteSet(Making') /\ Cardinality(Making') <= Cardinality(Making) + (-1)
    BY <1>3, <2>3
  <2>6. Mishaps + (1 + (-1) + 0) <= Mishaps'
    BY <1>1
  <2>7. QED
    BY <1>1, <2>4, <2>5, <2>6, Balance
<1>14. ASSUME NEW w \in Workers, CreateReplyLost(w) PROVE FewStray'
  <2>1. /\ Born(w) /\ pc[w] = "create" /\ UNCHANGED <<cr, fresh>> /\ pc'[w] = "record"
        /\ Spend("lostReply")
    BY <1>14 DEF CreateReplyLost, Goto, TypeOK, api
  <2>2. /\ Living' \subseteq Living \cup {NewId} /\ Making' \subseteq Making
        /\ (Wanting' => Wanting)
    BY <1>12, <1>14, <2>1 DEF Reconcile
  <2>3. Unfilled' <= Unfilled + 0
    BY <2>2 DEF Unfilled
  <2>4. Mishaps + (1 + 0 + 0) <= Mishaps'
    BY <1>1, <2>1
  <2>5. /\ IsFiniteSet(Living') /\ Cardinality(Living') <= Cardinality(Living) + 1
        /\ IsFiniteSet(Making') /\ Cardinality(Making') <= Cardinality(Making) + 0
    BY <1>3, <2>2
  <2>6. QED
    BY <1>1, <2>3, <2>4, <2>5, Balance
<1>15. ASSUME NEW w \in Workers, CreateFails(w) PROVE FewStray'
  <2>1. /\ pc[w] = "create" /\ pc'[w] = "record" /\ UNCHANGED <<cr, dip, fresh>>
    BY <1>15 DEF CreateFails, Goto, TypeOK, api, world
  <2>2. \A v \in Workers \ {w} : pc'[v] = pc[v] /\ plan'[v] = plan[v] /\ mem'[v] = mem[v]
    BY <1>15, OthersStay DEF Reconcile
  <2>3. QED
    BY <1>4, <2>1, <2>2 DEF Living, Making, Wanting, Alive
<1>16. ASSUME NEW w \in Workers, RecordFailure(w) \/ PersistName(w) PROVE FewStray'
  <2>1. CASE End(w) /\ UNCHANGED api
    BY <1>6, <1>16, <2>1 DEF Reconcile, api, RecordFailure, PersistName, world
  <2>2. CASE cr.exists
    <3>1. \A mark \in Marks : Annotated(w, mark).name = mem[w].name
      BY DEF Annotated, TypeOK, CustomResource
    <3>2. /\ cr'.name = mem[w].name /\ dip' = dip /\ fresh' \subseteq {w}
          /\ pc[w] \in {"record", "persist"} /\ pc'[w] \in {"idle", "publish"}
      BY <1>16, <2>2, <3>1 DEF RecordFailure, PersistName, Write, WriteOwn, Stop, TypeOK,
         Marks, world
    <3>3. \A v \in Workers \ {w} : pc'[v] = pc[v] /\ plan'[v] = plan[v] /\ mem'[v] = mem[v]
      BY <1>16, OthersStay DEF Reconcile
    <3>4. Making' \subseteq Making \ {w} /\ Living' \subseteq Living
      BY <3>2, <3>3 DEF Making, Living, Alive
    <3>5. CASE Alive(mem[w].name)
      <4>1. ~Wanting'
        BY <3>2, <3>5 DEF Wanting, Alive
      <4>2. QED
        BY <1>4, <3>4, <4>1
    <3>6. CASE ~Alive(mem[w].name)
      <4>1. w \in Making
        BY <3>2, <3>6 DEF Making
      <4>2. Unfilled' <= Unfilled + 1
        BY <1>2
      <4>3. QED
        BY <1>1, <1>3, <3>4, <4>1, <4>2, Balance
    <3>7. QED
      BY <3>5, <3>6
  <2>3. QED
    BY <1>16, <2>1, <2>2 DEF RecordFailure, PersistName
<1>17. ASSUME NEW w \in Workers, Publish(w) \/ Update(w) \/ CallFails(w) \/ Interrupt(w)
       PROVE  FewStray'
  BY <1>6, <1>17 DEF Publish, Update, CallFails, Interrupt, Reconcile, api, world
<1>18. ASSUME NEW w \in Workers, Delete(w) PROVE FewStray'
  <2>1. End(w) /\ cr' = cr
    BY <1>18 DEF Delete, api
  <2>2. CASE dip' = dip
    BY <1>6, <1>18, <2>1, <2>2 DEF Reconcile
  <2>3. CASE /\ mem[w].name \in Living
             /\ \A j \in Ids \ {mem[w].name} : dip'[j] = dip[j]
    <3>1. pc'[w] = "idle" /\ fresh' \subseteq fresh
      BY <2>1, Ends
    <3>2. \A v \in Workers \ {w} : pc'[v] = pc[v] /\ plan'[v] = plan[v] /\ mem'[v] = mem[v]
      BY <1>18, OthersStay DEF Reconcile
    <3>3. QED
      BY <1>1, <2>1, <2>3, <3>1, <3>2, DyingKeepsFew
  <2>4. QED
    BY <1>18, <2>2, <2>3 DEF Delete, TypeOK, Living, Alive
<1>19. ASSUME NEW w \in Workers, RemoveFinalizer(w) PROVE FewStray'
  <2>1. ~[cr EXCEPT !.exists = FALSE, !.finalizer = FALSE].exists
    BY DEF TypeOK, CustomResource
  <2>2. CASE Conflict(w)
    BY <1>6, <1>19, <2>2 DEF RemoveFinalizer, Conflict, Reconcile, api, world
  <2>3. CASE ~Conflict(w)
    <3>1. ~cr'.exists /\ fresh' = {} /\ pc'[w] = "idle" /\ dip' = dip
      BY <1>19, <2>1, <2>3 DEF RemoveFinalizer, Write, Stop, TypeOK, world
    <3>2. \A v \in Workers \ {w} : pc'[v] = pc[v] /\ plan'[v] = plan[v] /\ mem'[v] = mem[v]
      BY <1>19, OthersStay DEF Reconcile
    <3>3. QED
      BY <1>4, <3>1, <3>2 DEF Living, Making, Wanting, Alive
  <2>4. QED
    BY <2>2, <2>3
<1>20. CASE Edit \/ Remove
  <2>1. /\ cr'.mark = cr.mark /\ cr'.name = cr.name /\ (cr'.exists => cr.exists)
        /\ fresh' = {} /\ UNCHANGED <<pc, plan, mem, dip>>
    <3>1. CASE Edit
      BY <3>1, EditWrites DEF Write
    <3>2. CASE Remove
      BY <3>2 DEF Remove, Write, TypeOK, CustomResource
    <3>3. QED
      BY <1>20, <3>1, <3>2
  <2>2. QED
    BY <1>4, <2>1 DEF Living, Making, Wanting, Alive
<1>21. CASE ClearPending
  <2>1. /\ fresh' = {} /\ UNCHANGED <<pc, plan, mem, dip>> /\ Spend("clear")
    BY <1>21 DEF ClearPending, Write
  <2>2. Living' \subseteq Living /\ Making' \subseteq Making
    BY <2>1 DEF Living, Making, Alive
  <2>3. Unfilled' <= Unfilled + 1 /\ Mishaps + (0 + 0 + 1) <= Mishaps'
    BY <1>1, <1>2, <2>1
  <2>4. QED
    BY <1>1, <1>3, <2>2, <2>3, Balance
<1>22. CASE Vanish \/ FinishTermination
  <2>1. UNCHANGED <<cr, run>>
    BY <1>22 DEF Vanish, FinishTermination, api
  <2>2. PICK i \in Living : \A j \in Ids \ {i} : dip'[j] = dip[j]
    BY <1>22 DEF Vanish, FinishTermination, Living, Alive, TypeOK
  <2>3. QED
    BY <1>1, <2>1, <2>2, DyingKeepsFew DEF run
<1>23. CASE \/ Drift \/ SecretsMissing \/ SecretsReturn
            \/ (\E w \in Workers : Sync(w)) \/ UNCHANGED vars
  <2>1. UNCHANGED <<cr, run, dip>>
    BY <1>23 DEF Drift, SecretsMissing, SecretsReturn, Sync, vars, api, world
  <2>2. QED
    BY <1>4, <2>1 DEF run, Living, Making, Wanting, Alive
<1>24. QED
  BY <1>7, <1>8, <1>9, <1>10, <1>11, <1>13, <1>14, <1>15, <1>16, <1>17, <1>18, <1>19,
     <1>20, <1>21, <1>22, <1>23 DEF Next, Reconcile, Environment

\* For any number of processes, GUIDs and mishaps: the objects in DIP are never more
\* than one and one for each lost reply, wrong 4xx, cleared pending creation and
\* overtaking resolution.  A step that makes an object uses up what entitled it to:
\* the one vacancy of the resource, or one mishap.
THEOREM StraysAreFewAlways == Spec => []StraysAreFew
<1>1. Init => Inductive /\ Standing /\ FewStray
  <2>1. Init => Standing
    BY StandingInit
  <2>2. ASSUME Init PROVE FewStray
    <3>1. PICK n \in Imported :
            /\ cr.name = n /\ cr.exists
            /\ dip = [i \in Ids |-> IF i = n THEN "live" ELSE "unborn"]
      BY <2>2 DEF Init
    <3>2. Making = {} /\ Living \subseteq {} \cup {n} /\ (Wanting => Living \subseteq {})
      BY <2>2, <3>1 DEF Init, Making, Living, Wanting, Alive
    <3>3. IsFiniteSet({}) /\ Cardinality({}) = 0
      BY FS_EmptySet
    <3>4. /\ IsFiniteSet(Living) /\ Cardinality(Living) <= 1
          /\ Wanting => Cardinality(Living) <= 0
      BY <3>2, <3>3, OneMore, NoneMore
    <3>5. Cardinality(Living) \in Nat
      BY <3>4, FS_CardinalityType
    <3>6. Mishaps = 0
      BY <2>2, BudgetsAssumption DEF Init, Mishaps, Spent, Faults
    <3>7. QED
      BY <3>2, <3>3, <3>4, <3>5, <3>6 DEF FewStray, Unfilled
  <2>3. QED
    BY <2>1, <2>2, InductiveInit
<1>2. Inductive /\ Standing /\ FewStray /\ [Next]_vars
        => (Inductive /\ Standing /\ FewStray)'
  BY InductiveStep, StandingStep, FewStrayStep DEF Inductive
<1>3. Inductive /\ FewStray => StraysAreFew
  <2> SUFFICES ASSUME Inductive, FewStray
               PROVE  StraysAreFew
    OBVIOUS
  <2>1. /\ Cardinality(Living) \in Nat /\ Cardinality(Making) \in Nat
        /\ Unfilled \in {0, 1}
    BY FS_CardinalityType DEF FewStray, Unfilled
  <2>2. \A f \in Faults : Spent(f) \in Int
    BY BudgetsAssumption DEF Inductive, TypeOK, Spent
  <2>3. Cardinality(Living) <= 1 + Mishaps /\ Mishaps \in Int
    BY <2>1, <2>2 DEF FewStray, Mishaps, Faults
  <2>4. QED
    BY <2>2, <2>3 DEF StraysAreFew, Living, Mishaps, Faults
<1>4. QED
  BY <1>1, <1>2, <1>3, PTL DEF Spec

-----------------------------------------------------------------------------
(* The connection secret. *)

Undisturbed ==
  /\ \A v, w \in Workers : v = w
  /\ Spent("interrupt") = 0

\* While one process works undisturbed, the secret holds the credentials of the
\* named object, or the reconcile that made it is about to put them there.
KeyInHand ==
  /\ budget["interrupt"] <= allowed["interrupt"]
  /\ Undisturbed /\ kind.publishes # {} /\ cr.exists /\ cr.mark = "succeeded"
     => \/ secret = cr.name /\ \A w \in Workers : pc[w] # "publish"
        \/ \E w \in Workers : pc[w] = "publish" /\ mem[w].name = cr.name

\* Nothing but an interruption uses up the budget of interruptions.
LEMMA InterruptionsSpent ==
  ASSUME TypeOK
  PROVE  /\ UNCHANGED budget => budget'["interrupt"] = budget["interrupt"]
         /\ \A f \in Faults \ {"interrupt"} :
              Spend(f) => budget'["interrupt"] = budget["interrupt"]
  BY DEF TypeOK, Faults, Spend

\* A step that does not succeed in a creation, and neither begins nor ends a
\* publication, keeps KeyInHand.
LEMMA KeyKeeps ==
  ASSUME KeyInHand, kind' = kind, allowed' = allowed, secret' = secret,
         budget'["interrupt"] = budget["interrupt"],
         cr'.exists /\ cr'.mark = "succeeded"
           => cr.exists /\ cr.mark = "succeeded" /\ cr'.name = cr.name,
         \A w \in Workers :
           \/ pc'[w] = pc[w] /\ mem'[w] = mem[w]
           \/ pc'[w] # "publish" /\ pc[w] # "publish"
  PROVE  KeyInHand'
  BY DEF KeyInHand, Undisturbed, Spent

\* A reconcile that stays inside its phases before the publication.
LEMMA ReconcileKeepsKey ==
  ASSUME TypeOK, KeyInHand, kind' = kind, allowed' = allowed, NEW w \in Workers,
         \/ Begin(w) \/ Resolve(w) \/ ObserveUnnamed(w) \/ Observe(w)
         \/ AddFinalizer(w) \/ Claim(w) \/ CreateSucceeds(w) \/ CreateFails(w)
         \/ CreateReplyLost(w) \/ RecordFailure(w) \/ Update(w) \/ Delete(w)
         \/ CallFails(w) \/ RemoveFinalizer(w)
  PROVE  KeyInHand'
<1>1. secret' = secret
  BY DEF Begin, Resolve, ObserveUnnamed, Observe, AddFinalizer, Claim, CreateSucceeds, CreateFails,
     CreateReplyLost, RecordFailure, Update, Delete, CallFails, RemoveFinalizer
<1>2. budget'["interrupt"] = budget["interrupt"]
  BY InterruptionsSpent
     DEF Begin, Resolve, Overtakes, ObserveUnnamed, Observe, AddFinalizer, Claim,
     CreateSucceeds, CreateFails, CreateReplyLost, RecordFailure, Update, Delete, CallFails,
     RemoveFinalizer, Faults
<1>3. \A v \in Workers \ {w} : pc'[v] = pc[v] /\ mem'[v] = mem[v]
  BY OthersStay, Zenon DEF Reconcile
<1>4. pc[w] # "publish" /\ pc'[w] # "publish"
  <2>1. CASE ObserveUnnamed(w) \/ Observe(w)
    BY <2>1, Observes
  <2>2. CASE AddFinalizer(w)
    BY <2>2 DEF AddFinalizer, WriteOwn, Write, Conflict, End, Stop, TypeOK
  <2>3. CASE Begin(w) \/ Claim(w) \/ RecordFailure(w) \/ RemoveFinalizer(w)
    BY <2>3 DEF Begin, Claim, RecordFailure, RemoveFinalizer, WriteOwn, Write,
       Conflict, End, Stop, TypeOK
  <2>4. CASE CreateSucceeds(w) \/ CreateFails(w) \/ CreateReplyLost(w)
    BY <2>4 DEF CreateSucceeds, CreateFails, CreateReplyLost, Named, Goto, TypeOK
  <2>5. CASE Update(w) \/ Delete(w) \/ CallFails(w)
    BY <2>5 DEF Update, Delete, CallFails, End, Stop, TypeOK
  <2>6. CASE Resolve(w)
    BY <2>6, ResolveWrites DEF TypeOK
  <2>7. QED
    BY <2>1, <2>2, <2>3, <2>4, <2>5, <2>6
<1>5. cr'.exists /\ cr'.mark = "succeeded"
        => cr.exists /\ cr.mark = "succeeded" /\ cr'.name = cr.name
  <2>1. \/ Resolve(w)
        \/ cr' = cr
        \/ cr' = [cr EXCEPT !.finalizer = TRUE]
        \/ cr' = [cr EXCEPT !.mark = "pending"]
        \/ cr' = Annotated(w, "failed")
        \/ cr' = [cr EXCEPT !.exists = FALSE, !.finalizer = FALSE]
    BY DEF Begin, ObserveUnnamed, Observe, AddFinalizer, Claim, CreateSucceeds, CreateFails,
       CreateReplyLost, RecordFailure, Update, Delete, CallFails, RemoveFinalizer,
       Write, WriteOwn, Conflict, api
  <2>2. QED
    BY <2>1, ResolveWrites DEF Annotated, TypeOK, CustomResource
<1>6. QED
  BY <1>1, <1>2, <1>3, <1>4, <1>5, KeyKeeps

\* What users, operators, DIP and informers do.
LEMMA EnvironmentKeepsKey ==
  ASSUME TypeOK, KeyInHand, kind' = kind, allowed' = allowed,
         \/ Environment
         \/ \E w \in Workers : Sync(w)
         \/ UNCHANGED vars
  PROVE  KeyInHand'
<1>1. secret' = secret /\ UNCHANGED <<pc, mem>>
  BY DEF Environment, Sync, Edit, Remove, ClearPending, Drift, Vanish, FinishTermination,
     SecretsMissing, SecretsReturn, vars, run
<1>2. budget'["interrupt"] = budget["interrupt"]
  BY InterruptionsSpent
     DEF Environment, Sync, Edit, Remove, ClearPending, Drift, Vanish, FinishTermination,
     SecretsMissing, SecretsReturn, vars, Faults
<1>3. \/ cr' = cr
      \/ Edit
      \/ cr' = [cr EXCEPT !.deleting = TRUE]
      \/ cr' = [cr EXCEPT !.exists = FALSE]
      \/ cr' = [cr EXCEPT !.mark = "none"]
  BY DEF Environment, Sync, Remove, ClearPending, Drift, Vanish, FinishTermination,
     SecretsMissing, SecretsReturn, vars, api, Write
<1>4. cr'.exists /\ cr'.mark = "succeeded"
        => cr.exists /\ cr.mark = "succeeded" /\ cr'.name = cr.name
  <2>1. CASE Edit
    BY <2>1, EditWrites DEF Write
  <2>2. CASE ~Edit
    BY <1>3, <2>2 DEF TypeOK, CustomResource
  <2>3. QED
    BY <2>1, <2>2
<1>5. QED
  BY <1>1, <1>2, <1>4, KeyKeeps

\* Every step keeps KeyInHand.
LEMMA KeyStep == TypeOK /\ KeyInHand /\ [Next]_vars => KeyInHand'
<1> SUFFICES ASSUME TypeOK, KeyInHand, [Next]_vars
             PROVE  KeyInHand'
  OBVIOUS
<1>1. TypeOK /\ kind' = kind /\ allowed' = allowed
  BY KindKept
<1>2. ASSUME NEW w \in Workers, PersistName(w) PROVE KeyInHand'
  <2>1. budget' = budget
    BY <1>2 DEF PersistName
  <2>2. CASE cr.exists
    <3>1. pc'[w] = "publish" /\ mem'[w] = cr'
      BY <1>1, <1>2, <2>2 DEF PersistName, WriteOwn, TypeOK
    <3>2. QED
      BY <1>1, <2>1, <3>1 DEF KeyInHand, Undisturbed, Spent
  <2>3. CASE ~cr.exists
    <3>1. ~cr'.exists
      BY <1>2, <2>3 DEF PersistName, api
    <3>2. QED
      BY <1>1, <2>1, <3>1 DEF KeyInHand
  <2>4. QED
    BY <2>2, <2>3
<1>3. ASSUME NEW w \in Workers, Publish(w) PROVE KeyInHand'
  <2>1. /\ pc[w] = "publish" /\ pc'[w] = "idle"
        /\ UNCHANGED <<kind, allowed, cr, budget>>
        /\ kind.publishes # {} => secret' = mem[w].name
    BY <1>1, <1>3 DEF Publish, End, Stop, TypeOK, api
  <2>2. CASE Undisturbed /\ kind.publishes # {} /\ cr.exists /\ cr.mark = "succeeded"
    <3>1. \A v \in Workers : v = w
      BY <2>2 DEF Undisturbed
    <3>2. mem[w].name = cr.name
      BY <2>1, <2>2, <3>1 DEF KeyInHand
    <3>3. secret' = cr'.name /\ \A v \in Workers : pc'[v] # "publish"
      BY <2>1, <2>2, <3>1, <3>2
    <3>4. QED
      BY <2>1, <3>3 DEF KeyInHand
  <2>3. CASE ~(Undisturbed /\ kind.publishes # {} /\ cr.exists /\ cr.mark = "succeeded")
    BY <2>1, <2>3 DEF KeyInHand, Undisturbed, Spent
  <2>4. QED
    BY <2>2, <2>3
<1>4. ASSUME NEW w \in Workers, Interrupt(w) PROVE KeyInHand'
  <2>1. /\ budget["interrupt"] \in Nat /\ allowed["interrupt"] \in Nat
        /\ budget'["interrupt"] = budget["interrupt"] - 1
    BY <1>1, <1>4, BudgetsAssumption DEF Interrupt, Spend, TypeOK, Faults
  <2>2. budget'["interrupt"] < allowed["interrupt"]
    BY <2>1 DEF KeyInHand
  <2>3. QED
    BY <1>1, <2>1, <2>2 DEF KeyInHand, Undisturbed, Spent
<1>5. ASSUME NEW w \in Workers, Reconcile(w) PROVE KeyInHand'
  BY <1>1, <1>2, <1>3, <1>5, ReconcileKeepsKey, Zenon DEF Reconcile
<1>6. QED
  BY <1>1, <1>4, <1>5, EnvironmentKeepsKey DEF Next

\* The secret follows the external name as long as one process serves the
\* resource without interruption, whatever is refused, lost, deleted or made
\* anew meanwhile (Create's connection details, CredentialsMatch).
THEOREM CredentialsMatchAlways == Spec => []CredentialsMatch
<1>1. Init => KeyInHand
  BY BudgetsAssumption DEF Init, KeyInHand, Faults
<1>2. TypeOK /\ KeyInHand /\ [Next]_vars => KeyInHand'
  BY KeyStep
<1>3. KeyInHand => CredentialsMatch
  BY DEF KeyInHand, Undisturbed, CredentialsMatch, CredentialsKept
<1>4. QED
  BY <1>1, <1>2, <1>3, TypeCorrect, PTL DEF Spec

-----------------------------------------------------------------------------
(* Updates. *)

\* Validation keeps every required parameter of the resource set; an Update may
\* leave an unset one as it is in DIP, but Observe overlooks it only if optional.
RequiredSet ==
  /\ cr \in CustomResource
  /\ \A f \in kind.fields \ kind.optional : cr.spec[f] # Unset

\* Only the user changes the parameters of the resource.
LEMMA SpecKept ==
  ASSUME TypeOK, [Next]_vars, ~Edit
  PROVE  cr'.spec = cr.spec
<1>1. cr \in CustomResource
  BY DEF TypeOK
<1>2. ASSUME NEW w \in Workers, Reconcile(w)
      PROVE  cr'.spec = cr.spec
  <2>1. \/ Resolve(w)
        \/ cr' = cr
        \/ cr' = [cr EXCEPT !.finalizer = TRUE]
        \/ cr' = [cr EXCEPT !.mark = "pending"]
        \/ cr' = [cr EXCEPT !.exists = FALSE, !.finalizer = FALSE]
        \/ \E mark : cr' = Annotated(w, mark)
    BY <1>2 DEF Reconcile, Begin, ObserveUnnamed, Observe, AddFinalizer, Claim,
       CreateSucceeds, CreateFails, CreateReplyLost, RecordFailure, PersistName, Publish,
       Update, Delete, CallFails, RemoveFinalizer, api, Conflict, Write, WriteOwn
  <2>2. ASSUME NEW mark, cr' = Annotated(w, mark)
        PROVE  cr'.spec = cr.spec
    BY <1>1, <2>2 DEF CustomResource, Annotated
  <2>3. ASSUME \/ cr' = [cr EXCEPT !.finalizer = TRUE]
               \/ cr' = [cr EXCEPT !.mark = "pending"]
               \/ cr' = [cr EXCEPT !.exists = FALSE, !.finalizer = FALSE]
        PROVE  cr'.spec = cr.spec
    BY <1>1, <2>3 DEF CustomResource
  <2>4. QED
    BY <2>1, <2>2, <2>3, ResolveWrites
<1>3. CASE Environment
  BY <1>1, <1>3 DEF Environment, Remove, ClearPending, Drift, Vanish, FinishTermination,
     SecretsMissing, SecretsReturn, api, Write, CustomResource
<1>4. CASE UNCHANGED vars
  BY <1>4 DEF vars, api
<1>5. ASSUME NEW w \in Workers, Sync(w) \/ Interrupt(w)
      PROVE  cr'.spec = cr.spec
  BY <1>5 DEF Sync, Interrupt, api
<1>6. QED
  BY <1>2, <1>3, <1>4, <1>5 DEF Next

\* The user unsets optional parameters only.
LEMMA RequiredStep == TypeOK /\ RequiredSet /\ [Next]_vars => RequiredSet'
<1> SUFFICES ASSUME TypeOK, RequiredSet, [Next]_vars
             PROVE  RequiredSet'
  OBVIOUS
<1>1. TypeOK /\ TypeOK' /\ kind' = kind
  BY TypeStep, KindKept
<1>2. CASE ~Edit
  BY <1>1, <1>2, SpecKept DEF RequiredSet, TypeOK
<1>3. CASE Edit
  <2>1. cr.spec \in Parameters
    BY DEF RequiredSet, CustomResource
  <2>2. ASSUME NEW f \in kind.fields, NEW v \in Values \cup {Unset},
               v = Unset => f \in kind.optional, cr' = [cr EXCEPT !.spec[f] = v]
        PROVE  RequiredSet'
    <3>1. cr'.spec = [cr.spec EXCEPT ![f] = v]
      BY <2>2 DEF RequiredSet, CustomResource
    <3>2. QED
      BY <1>1, <2>1, <2>2, <3>1 DEF RequiredSet, Parameters, TypeOK
  <2>3. ASSUME cr' = [cr EXCEPT !.resolved = FALSE]
        PROVE  RequiredSet'
    <3>1. cr'.spec = cr.spec
      BY <2>3 DEF RequiredSet, CustomResource
    <3>2. QED
      BY <1>1, <3>1 DEF RequiredSet, TypeOK
  <2>4. QED
    BY <1>3, <2>2, <2>3 DEF Edit, Write
<1>4. QED
  BY <1>2, <1>3

\* What the object has after an Update that was decided on the newest resource.
LEMMA UpdateSettles ==
  ASSUME TypeOK, CopiesAgree, RequiredSet, NEW w \in fresh, Update(w), UpdateReaches(w)
  PROVE  AgreesOn(kind.compares \cap kind.updates)'
<1>1. /\ TypeOK /\ w \in Workers /\ mem[w] = cr /\ Alive(cr.name)
      /\ UNCHANGED <<kind, cr, dip>>
  BY DEF TypeOK, CopiesAgree, Update, UpdateReaches, api
<1>2. PICK clears \in BOOLEAN :
        remote' = [remote EXCEPT ![cr.name] =
                     Applied(Request(cr.spec, kind.updates), @, clears)]
  BY <1>1 DEF Update
<1>3. remote'[cr.name] = Applied(Request(cr.spec, kind.updates), remote[cr.name], clears)
  BY <1>1, <1>2 DEF TypeOK, Alive
<1>4. ASSUME NEW f \in kind.compares \cap kind.updates, f \in kind.fields,
             cr.spec[f] # Unset
      PROVE  cr.spec[f] = remote'[cr.name][f]
  BY <1>3, <1>4 DEF Applied, Request
<1>5. Alive(cr.name)'
  BY <1>1 DEF Alive
<1>6. QED
  BY <1>1, <1>4, <1>5 DEF AgreesOn, RequiredSet

\* One Update is enough, for every kind and whatever DIP does with parameters that
\* are left out: the step on which convergence rests.
THEOREM UpdatesSettleAlways == Spec => UpdatesSettle
<1>1. Init => Inductive /\ RequiredSet
  <2>1. Init => Inductive
    BY InductiveInit
  <2>2. Init => \A f \in kind.fields : cr.spec[f] # Unset
    BY ValuesAssumption DEF Init
  <2>3. QED
    BY <2>1, <2>2 DEF RequiredSet, Inductive, TypeOK
<1>2. Inductive /\ RequiredSet /\ [Next]_vars => (Inductive /\ RequiredSet)'
  BY InductiveStep, RequiredStep DEF Inductive
<1>3. Inductive /\ RequiredSet /\ [Next]_vars
        => [\A w \in fresh :
              Update(w) /\ UpdateReaches(w)
                => AgreesOn(kind.compares \cap kind.updates)']_vars
  BY UpdateSettles DEF Inductive
<1>4. QED
  BY <1>1, <1>2, <1>3, PTL DEF Spec, UpdatesSettle
=============================================================================
