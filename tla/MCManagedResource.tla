-------------------------- MODULE MCManagedResource --------------------------
(***************************************************************************)
(* Instances of ManagedResource for TLC: the kinds of DipKinds with a few  *)
(* of their parameters in focus, and the budgets of the runs.              *)
(***************************************************************************)
EXTENDS LifecycleRefinement, DipConnections, TLC

\* What ResolveReferences of the kind has to resolve.
Refers(k) == \E ref \in AllReferences : ref.of = k

\* The kind with only the parameters fs; the others never change.
Focus(k, fs) ==
  "reference" :> (IF Refers(k) THEN "required" ELSE "none") @@
    [k EXCEPT !.fields = fs, !.optional = @ \cap fs, !.frozen = @ \cap fs]

\* Parameters of one class are treated alike, so one of each class is enough.
Class(k, f) ==
  <<f \in k.compares, f \in k.creates, f \in k.updates, f \in k.frozen, f \in k.optional>>

Representatives(k) ==
  {CHOOSE f \in k.fields : Class(k, f) = c : c \in {Class(k, f) : f \in k.fields}}

Pairs(k) ==
  {{f, g} : f \in Representatives(k) \cap k.compares, g \in Representatives(k)}

FocusedKinds == UNION {{Focus(k, p) : p \in Pairs(k)} : k \in AllKinds}

\* All that ManagedResource can tell of a kind: one kind stands for its likes.
Signature(k) ==
  <<{Class(k, f) : f \in k.fields}, Cardinality(k.fields), k.deletes, k.reference,
    k.updates = {}, k.secrets = {}, k.secrets \cap k.updates = {}, k.publishes = {}>>

EveryKind ==
  {CHOOSE k \in FocusedKinds : Signature(k) = s : s \in {Signature(k) : k \in FocusedKinds}}

\* A reference whose resolution is Optional; everywhere else it is Required.
GroupOptionally ==
  [Focus(Group, {"Description"}) EXCEPT !.reference = "optional"]

DeletingKinds ==
  {k \in EveryKind : k.deletes /\ Cardinality(k.fields) = 1} \cup {GroupOptionally}
UpdatedKinds  == {k \in EveryKind : k.updates # {}}

ServiceOnly        == {Focus(Service, {"Description"})}
RoleOnly           == {Focus(Role, {"Description"})}
ClientOnly         == {Focus(Client, {"Description", "Scopes"})}
SecretReaders      == {Focus(AuthenticationMethod, {"Name", "Description"})}
MDMApplicationOnly == {Focus(MDMApplication, {"Name"})}

Allow(faults) == [f \in Faults |-> IF f \in faults THEN 1 ELSE 0]

\* Two processes: what an operator clears, and what a resolution overtakes.
RaceBudgets ==
  {Allow({"edit", "remove", "vanish", "interrupt", "clear"}),
   Allow({"remove", "interrupt", "overtake"})}
FaultBudgets   == {Allow(Faults \ {"drift", "secretGone"})}
DriftBudgets   == {Allow({"edit", "drift", "vanish", "lostReply"})}
TroubleBudgets == {Allow({"edit", "drift", "refuse", "secretGone"})}
EditBudgets    == {Allow({"edit"})}
RemoveBudgets  == {Allow({"remove"})}
CrashBudgets   == {Allow({"interrupt"})}
DeleteBudgets  == {Allow({"remove", "vanish", "lostReply", "interrupt", "wrong4xx",
                          "secretGone"})}

CONSTANTS i1, i2, i3, i4, i5, i6, w1, w2, v1, v2

\* Only for runs without liveness.
RaceSymmetry == Permutations(Workers) \cup Permutations(Values)
=============================================================================
