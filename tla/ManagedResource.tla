--------------------------- MODULE ManagedResource ---------------------------
(***************************************************************************)
(* One custom resource of the provider from its creation to its end: the   *)
(* resource at the Kubernetes API server, the reconcilers that serve it    *)
(* (the managed reconciler of crossplane-runtime driving the connector and *)
(* the external client of a controller), and the objects it has in DIP.    *)
(*                                                                         *)
(* A reconcile is a sequence of remote calls with nothing atomic between   *)
(* them: read the resource from the informer's cache, Observe the DIP      *)
(* object, add the finalizer, note that a creation is about to start,      *)
(* Create, write the GUID that DIP chose into the external-name            *)
(* annotation, publish the connection secret; or Update; or Delete and,    *)
(* one reconcile later, drop the finalizer.  Each is an action, and users, *)
(* other processes, DIP and interruptions act between any two.             *)
(*                                                                         *)
(* Several Workers may run: leader election is off by default, so an old   *)
(* and a new pod overlap during a rollout, and nothing but the API         *)
(* server's optimistic concurrency keeps them apart.  Two writes escape it: *)
(* the annotations after Create, and the patch of a resolved reference.    *)
(***************************************************************************)
EXTENDS Integers, FiniteSets

CONSTANTS
  Kinds,    \* controllers, records of the form DipKinds!Controller returns
  Workers,  \* provider processes (each reconciles one resource serially)
  Ids,      \* the GUIDs DIP can hand out
  Values,   \* values a parameter can be set to
  Imported, \* external names the user may write on the resource beforehand
  Budgets   \* how often each fault and user action may happen, in each scenario

NoName  == "no external name"
BadName == "not a UUID"
Unset   == "unset"

Faults == {"edit", "remove", "drift", "vanish", "refuse", "lostReply",
           "wrong4xx", "interrupt", "clear", "secretGone", "overtake"}

Marks  == {"none", "pending", "failed", "succeeded"}
Phases == {"idle", "observe", "protect", "claim", "create", "record", "persist",
           "publish", "update", "delete", "finalize"}

ASSUME KindsAssumption ==
  \A k \in Kinds : /\ k.deletes \in BOOLEAN
                   /\ k.reference \in {"none", "required", "optional"}
                   /\ k.optional \subseteq k.fields
                   /\ k.frozen \subseteq k.fields
ASSUME NamesAssumption ==
  /\ {NoName, BadName} \cap Ids = {}
  /\ Imported \subseteq Ids \cup {NoName, BadName}
ASSUME ValuesAssumption == Unset \notin Values
ASSUME BudgetsAssumption == \A b \in Budgets : b \in [Faults -> Nat]

VARIABLES
  kind,     \* the controller the resource belongs to; never changes
  allowed,  \* the scenario: the faults and user actions there may be
  cr,       \* the custom resource at the API server
  cache,    \* each process's informer copy of it
  synced,   \* the processes whose copy has the newest resourceVersion
  mem,      \* the copy a running reconcile works on
  fresh,    \* the reconciles whose copy has the newest resourceVersion
  pc,       \* what the reconcile does next
  plan,     \* what Observe decided, while the finalizer is being added
  dip,      \* life of each DIP object: unborn, live, terminating, gone
  remote,   \* the parameters each DIP object has
  secret,   \* whose credentials the connection secret holds
  sources,  \* whether the Secrets the parameters point at can be read
  budget,   \* faults and user actions still allowed
  lost      \* (ghost) objects the provider was never, or wrongly, told about

api   == <<cr, synced>>
run   == <<mem, fresh, pc, plan>>
world == <<dip, remote, lost>>
vars  == <<kind, allowed, api, cache, run, world, secret, sources, budget>>

Parameters == [kind.fields -> Values \cup {Unset}]

CustomResource ==
  [exists : BOOLEAN, deleting : BOOLEAN, finalizer : BOOLEAN,
   name : Ids \cup {NoName, BadName}, mark : Marks, resolved : BOOLEAN,
   spec : Parameters]

Blank ==
  [exists |-> FALSE, deleting |-> FALSE, finalizer |-> FALSE, name |-> NoName,
   mark |-> "none", resolved |-> FALSE, spec |-> [f \in kind.fields |-> Unset]]

Init ==
  /\ kind \in Kinds
  /\ \E n \in Imported, v \in Values, done \in BOOLEAN :
       /\ kind.reference # "none" \/ done
       /\ cr = [exists |-> TRUE, deleting |-> FALSE, finalizer |-> FALSE,
                name |-> n, mark |-> "none", resolved |-> done,
                spec |-> [f \in kind.fields |-> v]]
       /\ dip = [i \in Ids |-> IF i = n THEN "live" ELSE "unborn"]
  /\ cache = [w \in Workers |-> cr]
  /\ mem = [w \in Workers |-> Blank]
  /\ synced = Workers
  /\ fresh = {}
  /\ pc = [w \in Workers |-> "idle"]
  /\ plan = [w \in Workers |-> "idle"]
  /\ remote = [i \in Ids |-> [f \in kind.fields |-> Unset]]
  /\ secret = NoName
  /\ sources = TRUE
  /\ allowed \in Budgets
  /\ budget = allowed
  /\ lost = {}

-----------------------------------------------------------------------------
(* What the controllers compute. *)

Alive(i) == i \in Ids /\ dip[i] \in {"live", "terminating"}

\* IsNotFoundOrInvalidID: the statuses that mean the object is not there.
\* (Mutant: every error does.)
MeansAbsentAnyError(status) == status >= 400

MeansAbsent(status) == status \in {400, 404}

\* isUpToDate: set parameters among the compared ones equal the observed ones.
\* (Mutant: parameters that are not pointers are forgotten.)
UpToDateOptional(spec, observed) ==
  \A f \in kind.fields \cap kind.compares \cap kind.optional :
    spec[f] = Unset \/ spec[f] = observed[f]

UpToDate(spec, observed) ==
  \A f \in kind.fields \cap kind.compares :
    (f \in kind.optional /\ spec[f] = Unset) \/ spec[f] = observed[f]

\* The parameters of a request; what is unset or not sent goes out as Go's zero.
\* (Mutant: parameters that are pointers are forgotten.)
RequestRequired(spec, sends) ==
  [f \in kind.fields |-> IF f \in sends \ kind.optional THEN spec[f] ELSE Unset]

Request(spec, sends) ==
  [f \in kind.fields |-> IF f \in sends THEN spec[f] ELSE Unset]

Spend(fault) ==
  /\ budget[fault] > 0
  /\ budget' = [budget EXCEPT ![fault] = @ - 1]

\* A write to the API server makes every copy of the resource stale.
Write(new) == cr' = new /\ synced' = {} /\ fresh' = {}

\* The answer to a worker's own write refreshes the copy it works on.
WriteOwn(w, new) ==
  /\ cr' = new
  /\ synced' = {}
  /\ fresh' = {w}
  /\ mem' = [mem EXCEPT ![w] = new]

\* A reconcile ends and drops its copy.
Stop(w) ==
  /\ pc' = [pc EXCEPT ![w] = "idle"]
  /\ plan' = [plan EXCEPT ![w] = "idle"]
  /\ mem' = [mem EXCEPT ![w] = Blank]

End(w) == Stop(w) /\ fresh' = fresh \ {w}

Goto(w, phase) ==
  IF phase = "idle" THEN End(w)
  ELSE pc' = [pc EXCEPT ![w] = phase] /\ UNCHANGED <<mem, fresh, plan>>

\* An update carrying an old resourceVersion is a conflict: the reconcile ends.
Conflict(w) == w \notin fresh /\ End(w) /\ UNCHANGED api

-----------------------------------------------------------------------------
(* The reconcile of worker w. *)

\* The informer catches up.
Sync(w) ==
  /\ w \notin synced
  /\ cache' = [cache EXCEPT ![w] = cr]
  /\ synced' = synced \cup {w}
  /\ UNCHANGED <<kind, allowed, cr, run, world, secret, sources, budget>>

\* Get finds the resource and its last creation, if any, is known to have ended.
MayServe(copy) == copy.exists /\ copy.mark # "pending"

\* Get and its checks, then Connect: ResolveReferences is left out for a deletion,
\* has nothing to resolve, or cannot, and the policy of the reference is Optional.
Begin(w) ==
  /\ pc[w] = "idle"
  /\ MayServe(cache[w])
  /\ cache[w].deleting \/ cache[w].resolved \/ kind.reference = "optional"
  /\ pc' = [pc EXCEPT ![w] = "observe"]
  /\ mem' = [mem EXCEPT ![w] = cache[w]]
  /\ fresh' = fresh \cup (synced \cap {w})
  /\ UNCHANGED <<kind, allowed, api, cache, plan, world, secret, sources, budget>>

\* ResolveReferences found what its copy lacks.  The patch that writes it carries
\* no resourceVersion, and its answer is the copy the reconcile goes on with: an
\* old copy becomes the newest, after it was looked at.  If another process has
\* begun a creation in the meantime, the reconcile has overtaken it.
Overtakes == IF cr.mark = "pending" THEN Spend("overtake") ELSE UNCHANGED budget

Resolve(w) ==
  /\ pc[w] = "idle"
  /\ MayServe(cache[w]) /\ ~cache[w].deleting
  /\ ~cache[w].resolved
  /\ cr.exists
  /\ Overtakes
  /\ LET new == [cr EXCEPT !.resolved = TRUE]
     IN  /\ pc' = [pc EXCEPT ![w] = "observe"]
         /\ \/ ~cr.resolved /\ WriteOwn(w, new)
            \/ /\ cr.resolved
               /\ mem' = [mem EXCEPT ![w] = new]
               /\ fresh' = fresh \cup {w}
               /\ UNCHANGED api
  /\ UNCHANGED <<kind, allowed, cache, plan, world, secret, sources>>

\* What the reconciler does next with Observe's answer.
NextPhase(copy, exists, upToDate) ==
  IF copy.deleting THEN IF exists THEN "delete" ELSE "finalize"
  ELSE IF ~exists THEN "claim" ELSE IF upToDate THEN "idle" ELSE "update"

\* The finalizer comes before anything that is not a deletion.
Proceed(w, next) ==
  IF mem[w].deleting \/ mem[w].finalizer
  THEN Goto(w, next)
  ELSE /\ pc' = [pc EXCEPT ![w] = "protect"]
       /\ plan' = [plan EXCEPT ![w] = next]
       /\ UNCHANGED <<mem, fresh>>

\* What Observe found: no object, or one that is up to date or is not.
Absent(w) == Proceed(w, NextPhase(mem[w], FALSE, FALSE))

\* (Mutant: an object that differs is reported as one that does not exist.)
PresentIfUpToDate(w) ==
  LET same == UpToDate(mem[w].spec, remote[mem[w].name])
  IN  Proceed(w, NextPhase(mem[w], same, same))

Present(w) ==
  Proceed(w, NextPhase(mem[w], TRUE, UpToDate(mem[w].spec, remote[mem[w].name])))

\* An empty or non-UUID external name is not looked up.
ObserveUnnamed(w) ==
  /\ pc[w] = "observe"
  /\ mem[w].name \notin Ids
  /\ Absent(w)
  /\ UNCHANGED <<kind, allowed, api, cache, world, secret, sources, budget>>

\* What Observe makes of the status of its GET.
Answered(w, status) ==
  IF MeansAbsent(status) THEN Absent(w)
  ELSE IF status = 200 THEN Present(w)
  ELSE End(w)

\* DIP answers truthfully; or, it or a gateway before it, with an error of its
\* own; or with 400 or 404 for an object that is there.
Observe(w) ==
  /\ pc[w] = "observe"
  /\ mem[w].name \in Ids
  /\ \/ /\ Answered(w, IF Alive(mem[w].name) THEN 200 ELSE 404)
        /\ UNCHANGED <<lost, budget>>
     \/ /\ Spend("refuse")
        /\ Answered(w, 500)
        /\ lost' = lost
     \/ /\ Spend("wrong4xx")
        /\ \E status \in {400, 404} : Answered(w, status)
        /\ lost' = lost \cup {mem[w].name}
  /\ UNCHANGED <<kind, allowed, api, cache, dip, remote, secret, sources>>

\* A resource that is up to date ends its reconcile with the finalizer added.
AddFinalizer(w) ==
  /\ pc[w] = "protect"
  /\ LET protected == [cr EXCEPT !.finalizer = TRUE]
     IN  \/ /\ w \in fresh
            /\ plan[w] # "idle"
            /\ WriteOwn(w, protected)
            /\ pc' = [pc EXCEPT ![w] = plan[w]]
            /\ plan' = [plan EXCEPT ![w] = "idle"]
         \/ w \in fresh /\ plan[w] = "idle" /\ Write(protected) /\ Stop(w)
         \/ Conflict(w)
  /\ UNCHANGED <<kind, allowed, cache, world, secret, sources, budget>>

\* external-create-pending is written, and must be, before Create is called.
\* (Mutant: it is written without regard to the resourceVersion.)
ClaimBlindly(w) ==
  /\ pc[w] = "claim"
  /\ WriteOwn(w, [cr EXCEPT !.mark = "pending"])
  /\ pc' = [pc EXCEPT ![w] = "create"]
  /\ UNCHANGED <<kind, allowed, cache, plan, world, secret, sources, budget>>

Claim(w) ==
  /\ pc[w] = "claim"
  /\ \/ /\ w \in fresh
        /\ WriteOwn(w, [cr EXCEPT !.mark = "pending"])
        /\ pc' = [pc EXCEPT ![w] = "create"]
        /\ plan' = plan
     \/ Conflict(w)
  /\ UNCHANGED <<kind, allowed, cache, world, secret, sources, budget>>

\* A GUID not seen before; which one is of no consequence.
NewId == CHOOSE i \in Ids : dip[i] = "unborn"

Born(w) ==
  /\ \E i \in Ids : dip[i] = "unborn"
  /\ dip' = [dip EXCEPT ![NewId] = "live"]
  /\ remote' = [remote EXCEPT ![NewId] = Request(mem[w].spec, kind.creates)]

SecretsReadable(sends) == sources \/ kind.secrets \cap sends = {}

\* Create puts the GUID of the answer into the external name of its copy.
\* (Mutants: it does not; or it takes what is no GUID.)
Unnamed(w, id) == mem
OddlyNamed(w, id) == [mem EXCEPT ![w].name = Unset]

Named(w, id) == [mem EXCEPT ![w].name = id]

CreateSucceeds(w) ==
  /\ pc[w] = "create"
  /\ SecretsReadable(kind.creates)
  /\ Born(w)
  /\ mem' = Named(w, NewId)
  /\ pc' = [pc EXCEPT ![w] = "persist"]
  /\ UNCHANGED <<kind, allowed, api, cache, fresh, plan, lost, secret, sources, budget>>

\* A Secret is missing, or DIP refuses: Create returns an error, nothing is made.
CreateFails(w) ==
  /\ pc[w] = "create"
  /\ \/ ~SecretsReadable(kind.creates) /\ UNCHANGED budget
     \/ Spend("refuse")
  /\ Goto(w, "record")
  /\ UNCHANGED <<kind, allowed, api, cache, world, secret, sources>>

\* DIP made the object and the answer never arrived: Create returns an error.
CreateReplyLost(w) ==
  /\ pc[w] = "create"
  /\ SecretsReadable(kind.creates)
  /\ Spend("lostReply")
  /\ Born(w)
  /\ lost' = lost \cup {NewId}
  /\ Goto(w, "record")
  /\ UNCHANGED <<kind, allowed, api, cache, secret, sources>>

\* UpdateCriticalAnnotations: on a conflict it re-reads, re-applies and retries.
Annotated(w, mark) == [cr EXCEPT !.name = mem[w].name, !.mark = mark]

RecordFailure(w) ==
  /\ pc[w] = "record"
  /\ \/ cr.exists /\ Write(Annotated(w, "failed")) /\ Stop(w)
     \/ ~cr.exists /\ End(w) /\ UNCHANGED api
  /\ UNCHANGED <<kind, allowed, cache, world, secret, sources, budget>>

PersistName(w) ==
  /\ pc[w] = "persist"
  /\ \/ /\ cr.exists
        /\ WriteOwn(w, Annotated(w, "succeeded"))
        /\ pc' = [pc EXCEPT ![w] = "publish"]
        /\ plan' = plan
     \/ ~cr.exists /\ End(w) /\ UNCHANGED api
  /\ UNCHANGED <<kind, allowed, cache, world, secret, sources, budget>>

\* (Mutant: Create returns no connection details.)
PublishNothing(w) ==
  /\ pc[w] = "publish"
  /\ End(w)
  /\ UNCHANGED <<kind, allowed, api, cache, world, secret, sources, budget>>

Publish(w) ==
  /\ pc[w] = "publish"
  /\ secret' = IF kind.publishes = {} THEN secret ELSE mem[w].name
  /\ End(w)
  /\ UNCHANGED <<kind, allowed, api, cache, world, sources, budget>>

\* DIP may keep or clear a parameter that the request leaves out.
Applied(request, old, clears) ==
  [f \in kind.fields |->
     IF request[f] # Unset \/ clears THEN request[f] ELSE old[f]]

UpdateReaches(w) ==
  /\ kind.updates # {}
  /\ SecretsReadable(kind.updates)
  /\ Alive(mem[w].name)

Update(w) ==
  /\ pc[w] = "update"
  /\ \/ /\ UpdateReaches(w)
        /\ \E clears \in BOOLEAN :
             remote' = [remote EXCEPT ![mem[w].name] =
                          Applied(Request(mem[w].spec, kind.updates), @, clears)]
     \/ ~UpdateReaches(w) /\ remote' = remote
  /\ End(w)
  /\ UNCHANGED <<kind, allowed, api, cache, dip, lost, secret, sources, budget>>

\* DIP removes the object at once or takes its time; the runtime looks again.
\* (Mutant: it returns without calling DIP.)
DeleteNothing(w) ==
  /\ pc[w] = "delete"
  /\ End(w)
  /\ UNCHANGED <<kind, allowed, api, cache, world, secret, sources, budget>>

Delete(w) ==
  /\ pc[w] = "delete"
  /\ LET reaches == kind.deletes /\ mem[w].name \in Ids /\ dip[mem[w].name] = "live"
     IN  \/ /\ reaches
            /\ \E end \in {"terminating", "gone"} :
                 dip' = [dip EXCEPT ![mem[w].name] = end]
         \/ ~reaches /\ dip' = dip
  /\ End(w)
  /\ UNCHANGED <<kind, allowed, api, cache, remote, lost, secret, sources, budget>>

\* The error paths of Update and Delete when DIP did nothing.
CallFails(w) ==
  /\ pc[w] \in {"update", "delete"}
  /\ Spend("refuse")
  /\ End(w)
  /\ UNCHANGED <<kind, allowed, api, cache, world, secret, sources>>

\* Observe found nothing: without its finalizer the resource disappears.
RemoveFinalizer(w) ==
  /\ pc[w] = "finalize"
  /\ \/ /\ w \in fresh
        /\ Write([cr EXCEPT !.exists = FALSE, !.finalizer = FALSE])
        /\ Stop(w)
     \/ Conflict(w)
  /\ UNCHANGED <<kind, allowed, cache, world, secret, sources, budget>>

\* The process dies, or a write to the API server fails for good.
Interrupt(w) ==
  /\ pc[w] # "idle"
  /\ Spend("interrupt")
  /\ End(w)
  /\ UNCHANGED <<kind, allowed, api, cache, world, secret, sources>>

-----------------------------------------------------------------------------
(* Users, operators and DIP. *)

\* kubectl apply; a frozen parameter is kept by its CEL rule.  A reference whose
\* value is taken away, or that is to be resolved anew, is unresolved again.
Edit ==
  /\ cr.exists
  /\ Spend("edit")
  /\ \/ \E f \in kind.fields \ kind.frozen, v \in Values \cup {Unset} :
          /\ v # cr.spec[f]
          /\ v = Unset => f \in kind.optional
          /\ Write([cr EXCEPT !.spec[f] = v])
     \/ kind.reference # "none" /\ cr.resolved /\ Write([cr EXCEPT !.resolved = FALSE])
  /\ UNCHANGED <<kind, allowed, cache, mem, pc, plan, world, secret, sources>>

\* kubectl delete; without a finalizer the resource is gone at once.
Remove ==
  /\ cr.exists
  /\ ~cr.deleting
  /\ Spend("remove")
  /\ IF cr.finalizer
     THEN Write([cr EXCEPT !.deleting = TRUE]) /\ lost' = lost
     ELSE /\ Write([cr EXCEPT !.exists = FALSE])
          /\ lost' = lost \cup ({cr.name} \cap Ids)
  /\ UNCHANGED <<kind, allowed, cache, mem, pc, plan, dip, remote, secret, sources>>

\* The operator removes external-create-pending from a creation nobody works on.
ClearPending ==
  /\ cr.exists
  /\ cr.mark = "pending"
  /\ \A w \in Workers : pc[w] \notin {"create", "record", "persist"}
  /\ Spend("clear")
  /\ Write([cr EXCEPT !.mark = "none"])
  /\ lost' = lost \cup {i \in Ids : Alive(i) /\ i # cr.name}
  /\ UNCHANGED <<kind, allowed, cache, mem, pc, plan, dip, remote, secret, sources>>

\* Somebody changes the object in the DIP console.
Drift ==
  /\ Spend("drift")
  /\ \E i \in Ids, f \in kind.fields, v \in Values :
       /\ dip[i] = "live"
       /\ v # remote[i][f]
       /\ remote' = [remote EXCEPT ![i][f] = v]
  /\ UNCHANGED <<kind, allowed, api, cache, run, dip, lost, secret, sources>>

\* Somebody deletes the object in the DIP console.
Vanish ==
  /\ Spend("vanish")
  /\ \E i \in Ids : dip[i] = "live" /\ dip' = [dip EXCEPT ![i] = "gone"]
  /\ UNCHANGED <<kind, allowed, api, cache, run, remote, lost, secret, sources>>

\* DIP completes a deletion it had accepted.
FinishTermination ==
  /\ \E i \in Ids : dip[i] = "terminating" /\ dip' = [dip EXCEPT ![i] = "gone"]
  /\ UNCHANGED <<kind, allowed, api, cache, run, remote, lost, secret, sources, budget>>

SecretsMissing ==
  /\ sources
  /\ Spend("secretGone")
  /\ sources' = FALSE
  /\ UNCHANGED <<kind, allowed, api, cache, run, world, secret>>

SecretsReturn ==
  /\ ~sources
  /\ sources' = TRUE
  /\ UNCHANGED <<kind, allowed, api, cache, run, world, secret, budget>>

-----------------------------------------------------------------------------
Reconcile(w) ==
  \/ Begin(w) \/ Resolve(w) \/ ObserveUnnamed(w) \/ Observe(w)
  \/ AddFinalizer(w) \/ Claim(w)
  \/ CreateSucceeds(w) \/ CreateFails(w) \/ CreateReplyLost(w)
  \/ RecordFailure(w) \/ PersistName(w) \/ Publish(w) \/ Update(w)
  \/ Delete(w) \/ CallFails(w) \/ RemoveFinalizer(w)

Environment ==
  \/ Edit \/ Remove \/ ClearPending \/ Drift \/ Vanish \/ FinishTermination
  \/ SecretsMissing \/ SecretsReturn

Next ==
  \/ \E w \in Workers : Reconcile(w) \/ Sync(w) \/ Interrupt(w)
  \/ Environment

Spec == Init /\ [][Next]_vars

\* The work queue retries errors and polls, the informer catches up, DIP
\* finishes what it accepted, and a missing Secret is eventually put back.
Fairness ==
  /\ \A w \in Workers : WF_vars(Reconcile(w)) /\ WF_vars(Sync(w))
  /\ WF_vars(FinishTermination)
  /\ WF_vars(SecretsReturn)

FairSpec == Spec /\ Fairness

-----------------------------------------------------------------------------
(* Properties. *)

TypeOK ==
  /\ kind \in Kinds
  /\ allowed \in Budgets
  /\ cr \in CustomResource
  /\ cache \in [Workers -> CustomResource]
  /\ mem \in [Workers -> CustomResource]
  /\ synced \subseteq Workers
  /\ fresh \subseteq Workers
  /\ pc \in [Workers -> Phases]
  /\ plan \in [Workers -> {"idle", "claim", "update"}]
  /\ dip \in [Ids -> {"unborn", "live", "terminating", "gone"}]
  /\ remote \in [Ids -> Parameters]
  /\ secret \in Ids \cup {NoName, BadName}
  /\ sources \in BOOLEAN
  /\ budget \in [Faults -> Nat]
  /\ lost \subseteq Ids

Creating(w) == pc[w] \in {"create", "record", "persist"}

\* Objects in DIP that the provider made or took over and has to account for.
Owned == {i \in Ids : Alive(i)} \ lost

Spent(fault) == allowed[fault] - budget[fault]

\* A resolution from an old copy has gone past a creation that was under way.
Overtaken == Spent("overtake") > 0

AllNamed == \A i \in Owned : cr.exists /\ (cr.name = i \/ cr.mark = "pending")

AtMostOneObject == \A i, j \in Owned : i = j

\* An owned object is named by a resource that still exists, or that resource
\* is marked create-pending, which stops every reconcile until somebody looks.
\* So an interruption at any point of a creation, a stale cache or a second
\* process never leaves an object nobody knows of, and the resource never
\* disappears before its object (Create's SetExternalName, Observe, Delete);
\* unless a resolution overtook the creation.
NothingStray == Overtaken \/ AllNamed

\* However reconciles interleave, one resource never owns two DIP objects, unless
\* a resolution overtook a creation.
OneObject == Overtaken \/ AtMostOneObject

\* Two processes are inside a creation of the same resource only if a resolution
\* overtook the first, and each such resolution lets at most one more in: the
\* update that writes create-pending lets through one copy and the reconciler
\* turns away those that show it (SetExternalCreatePending before Create).
CreatorsAreFew == Cardinality({w \in Workers : Creating(w)}) <= 1 + Spent("overtake")

\* However often a creation is refused, cut short, raced or retried, the objects in
\* DIP are never more than one and one for each reply of a Create that got
\* lost, each 400 or 404 for an object that was there, each pending creation that
\* an operator cleared and each resolution that overtook a creation: no single
\* mishap makes two, and nothing else makes any (IsNotFoundOrInvalidID, Create's
\* error path, the annotations around it).
StraysAreFew ==
  Cardinality({i \in Ids : Alive(i)}) <=
    1 + Spent("lostReply") + Spent("wrong4xx") + Spent("clear") + Spent("overtake")

\* A resource whose creation succeeded has in its connection secret the
\* credentials of the very object it names: DIP returns a Service's private key
\* once, in the answer to Create.
CredentialsKept ==
  /\ kind.publishes # {}
  /\ cr.exists /\ cr.mark = "succeeded"
  /\ \A w \in Workers : pc[w] # "publish"
  => secret = cr.name

\* That is so as long as a single process serves the resource and was never cut
\* short: whatever is refused, lost, deleted, declared absent or made anew, the
\* secret follows the external name.
CredentialsMatch ==
  /\ \A v, w \in Workers : v = w
  /\ Spent("interrupt") = 0
  => CredentialsKept

\* A call of Update or Delete acts on the object the resource names at that
\* moment, and a Delete only on one whose resource is being deleted, although
\* the caller decided on a copy that may be old; unless a resolution overtook a
\* creation, of whose objects the resource names only the last.
TouchesOnlyNamed ==
  [][~Overtaken => \A w \in Workers, i \in Owned :
       /\ Update(w) /\ remote'[i] # remote[i] => cr.exists /\ cr.name = i
       /\ Delete(w) /\ dip'[i] # dip[i] => cr.exists /\ cr.deleting /\ cr.name = i]_vars

\* The creation of the resource was cut short; only an operator goes on.
Halted == cr.mark = "pending" /\ \A w \in Workers : ~Creating(w)

\* A resource being deleted disappears in the end, after its object.
DeletionCompletes == cr.deleting ~> ~cr.exists \/ Halted

\* The object exists and agrees with the resource in the parameters of fs.
AgreesOn(fs) ==
  /\ Alive(cr.name)
  /\ \A f \in fs \cap kind.fields :
       (f \in kind.optional /\ cr.spec[f] = Unset) \/ cr.spec[f] = remote[cr.name][f]

Settled(fs) == ~cr.exists \/ cr.deleting \/ Halted \/ AgreesOn(fs)

\* One Update that was decided on the newest resource and reaches the object is
\* enough: whatever its request leaves out and DIP keeps or clears, the object then
\* agrees with the resource in all that is compared and sent, so that the next
\* Observe asks for no other (isUpToDate against the request that Update builds).
UpdatesSettle ==
  [][\A w \in fresh :
       Update(w) /\ UpdateReaches(w) => AgreesOn(kind.compares \cap kind.updates)']_vars

\* What Observe compares and Update sends agrees with DIP in the end, whatever
\* was edited, drifted, refused or raced on the way.
Converges == <>[]Settled(kind.compares \cap kind.updates)

\* What Observe compares agrees with DIP in the end.
ComparedConverges == <>[]Settled(kind.compares)

\* What Update sends agrees with DIP in the end.
SentConverges == <>[]Settled(kind.updates)
=============================================================================
