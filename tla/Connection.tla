------------------------------ MODULE Connection ------------------------------
(***************************************************************************)
(* How the controllers connect to DIP.  Every reconcile of a resource      *)
(* records that it uses the ProviderConfig (Track), reads it, reads the    *)
(* Secret it names, makes a configuration of the two, logs in, and throws  *)
(* the client away when it ends.  The controller of ProviderConfigs keeps  *)
(* a deleted one while its informer shows usages.  In the meantime         *)
(* administrators edit the one and the other, rotate keys, revoke old      *)
(* ones, and delete things in whatever order.                              *)
(*                                                                         *)
(* DIP is a set of installations, one per region and environment; a        *)
(* service identity is known in one of them, and some of them lack MDM or  *)
(* Provisioning.  What happens to an object once it can be reached is the  *)
(* subject of ManagedResource: here a call and the writes it is framed by  *)
(* are one step.  The ProviderConfig and the Secret are read as they are,  *)
(* one step before anything is done with them; for the usages the informer *)
(* matters and is modelled.                                                *)
(***************************************************************************)
EXTENDS Integers, FiniteSets, KeyFormat

CONSTANTS
  Resources, \* resources of one namespace that name one ProviderConfig
  ServiceOf, \* the client the controller of each resource calls
  AbsentFor, \* the statuses each controller takes for absence
  Accounts,  \* service identities
  KeyOf,     \* the private key of each, on one line
  Installations,
  Place,     \* the region and environment of each installation
  Offers,    \* the services it has besides IAM
  Home,      \* the installation that knows an account
  Specs,     \* what a ProviderConfig may say
  Secrets,   \* what its Secret may say
  Guids,     \* the GUIDs DIP can hand out
  Scenarios  \* a ProviderConfig and a Secret to begin with, and how often each
             \* disturbance may happen

Unset  == "unset"
NoName == "no external name"

Disturbances == {"spec", "secret", "noSecret", "revoke", "config", "removeConfig", "remove"}
Steps == {"idle", "config", "secret", "call"}
Services == {"IAM", "MDM", "Provisioning"}

ASSUME ResourcesAssumption ==
  /\ ServiceOf \in [Resources -> Services]
  /\ \A r \in Resources : AbsentFor[r] \subseteq {400, 404}
ASSUME NamesAssumption == NoName \notin Guids
ASSUME AccountsAssumption == Unset \notin Accounts /\ Home \in [Accounts -> Installations]
ASSUME InstallationsAssumption ==
  /\ Offers \in [Installations -> SUBSET Services]
  /\ Place \in [Installations -> [region : STRING \ {Unset}, environment : STRING \ {Unset}]]
  /\ \A i, j \in Installations : Place[i] = Place[j] => i = j
  /\ {"unborn", "gone"} \cap Installations = {}
ASSUME SecretsAssumption ==
  \A s \in Secrets : s.account \in Accounts \cup {Unset} /\ s.key \in Seq(STRING)
ASSUME ScenariosAssumption ==
  Scenarios \subseteq [spec : Specs, secret : Secrets, budget : [Disturbances -> Nat]]

VARIABLES
  pc,       \* the ProviderConfig at the API server
  pcWork,   \* the copy the ProviderConfig controller is about to write
  secret,   \* the Secret
  usages,   \* the resources that have a ProviderConfigUsage
  usagesSeen, \* those the informer shows
  res,      \* the resources
  step,     \* what the reconcile of each resource does next
  held,     \* what it has got hold of
  dip,      \* each object: unborn, gone, or the installation it lives in
  revoked,  \* accounts DIP no longer accepts
  budget,   \* disturbances still allowed
  issued,   \* (ghost) accounts the Secret has held
  early     \* (ghost) resources with an object when the deletion was asked for

configs == <<pc, pcWork>>
creds  == <<secret, issued, revoked>>
usage  == <<usages, usagesSeen>>
local  == <<step, held>>
vars   == <<configs, creds, usage, res, local, dip, budget, early>>

NoPlace == [region |-> Unset, environment |-> Unset]

Present(s) == [exists |-> TRUE, is |-> s]

NoConfig ==
  [uid |-> 0, exists |-> FALSE, deleting |-> FALSE, finalizer |-> FALSE, spec |-> NoPlace]

NewConfig(uid, spec) == [NoConfig EXCEPT !.uid = uid, !.exists = TRUE, !.spec = spec]

Gone(config) ==
  [config EXCEPT !.exists = FALSE, !.deleting = FALSE, !.finalizer = FALSE]

\* Before the login: what the ProviderConfig says of region and environment; then:
\* those that the clients were made with and the account whose token they use.
Nothing == [place |-> NoPlace, account |-> Unset]

Init ==
  /\ \E s \in Scenarios :
       /\ pc = NewConfig(1, s.spec)
       /\ secret = Present(s.secret)
       /\ issued = {s.secret.account} \ {Unset}
       /\ budget = s.budget
  /\ pcWork = NoConfig
  /\ usages = {} /\ usagesSeen = {} /\ early = {}
  /\ res = [r \in Resources |-> [life |-> "present", finalizer |-> FALSE, name |-> NoName]]
  /\ step = [r \in Resources |-> "idle"]
  /\ held = [r \in Resources |-> Nothing]
  /\ dip = [g \in Guids |-> "unborn"]
  /\ revoked = {}

Exists(r) == res[r].life \in {"present", "deleting"}

Spend(what) ==
  /\ budget[what] > 0
  /\ budget' = [budget EXCEPT ![what] = @ - 1]

\* A reconcile goes on with what it holds, or ends and drops it.
Continue(r, next, with) ==
  /\ step' = [step EXCEPT ![r] = next]
  /\ held' = [held EXCEPT ![r] = with]

\* (Mutant: the client is kept for the next reconcile.)
EndKeepingClient(r) == step' = [step EXCEPT ![r] = "idle"] /\ held' = held

End(r) == Continue(r, "idle", Nothing)

-----------------------------------------------------------------------------
(* Connect. *)

\* The usage is named by the UID of the resource and owned by it.
\* (Mutant: no use is recorded.)
TrackNothing(r) ==
  /\ step[r] = "idle"
  /\ Exists(r)
  /\ Continue(r, "config", Nothing)
  /\ UNCHANGED <<configs, creds, usage, res, dip, budget, early>>

Track(r) ==
  /\ step[r] = "idle"
  /\ Exists(r)
  /\ usages' = usages \cup {r}
  /\ Continue(r, "config", Nothing)
  /\ UNCHANGED <<configs, creds, usagesSeen, res, dip, budget, early>>

GetConfig(r) ==
  /\ step[r] = "config"
  /\ IF pc.exists
     THEN Continue(r, "secret", [Nothing EXCEPT !.place = pc.spec])
     ELSE End(r)
  /\ UNCHANGED <<configs, creds, usage, res, dip, budget, early>>

Or(value, default) == IF value # Unset THEN value ELSE default

\* Functions, which are evaluated once.
StoredKeys == {s.key : s \in Secrets}
Formatted  == [key \in StoredKeys |-> formatPrivateKey(key)]

\* ConfigFromSecret: region and environment of the Secret come first.
\* (Mutant: those of the ProviderConfig do.)
FromSecretLast(spec, s) ==
  [region |-> Or(spec.region, s.region),
   environment |-> Or(spec.environment, s.environment),
   account |-> s.account, key |-> Formatted[s.key]]

FromSecret(spec, s) ==
  [region |-> Or(s.region, spec.region),
   environment |-> Or(s.environment, spec.environment),
   account |-> s.account, key |-> Formatted[s.key]]

Complete(c) ==
  c.region # Unset /\ c.environment # Unset /\ c.account # Unset /\ c.key # <<>>

\* The library reads a key only if its header is a line of its own.
Readable(key) == Len(key) > 1 /\ key[1] = Header /\ key[2] = Newline

Accepted ==
  [a \in Accounts |->
     {key \in {Formatted[k] : k \in StoredKeys} : Readable(key) /\ Text(key) = KeyOf[a]}]

\* The region and environment that every client is made with.
Configured(c) == [region |-> c.region, environment |-> c.environment]

\* The service login, at the installation of the configuration.
LoggedIn(c) ==
  /\ c.key \in Accepted[c.account]
  /\ Place[Home[c.account]] = Configured(c)
  /\ c.account \notin revoked

\* NewClient: where the region and the environment have no endpoint for them, the
\* MDM and Provisioning clients are nil.
Clients(c) ==
  {"IAM"} \cup UNION {Offers[i] : i \in {j \in Installations : Place[j] = Configured(c)}}

\* Connect fails unless it has the client its controller calls.
\* (Mutants: it does not look; the error of the login is dropped as that of MDM is.)
ConnectsAnyway(r, c) == Complete(c) /\ LoggedIn(c)

ConnectsUnchecked(r, c) == Complete(c) /\ ServiceOf[r] \in Clients(c)

Connects(r, c) == Complete(c) /\ LoggedIn(c) /\ ServiceOf[r] \in Clients(c)

\* The Secret is read, its JSON made into a configuration, and a client of it.
Login(r) ==
  /\ step[r] = "secret"
  /\ \/ /\ secret.exists
        /\ LET c == FromSecret(held[r].place, secret.is)
           IN  /\ Connects(r, c)
               /\ Continue(r, "call", [place |-> Configured(c), account |-> c.account])
     \/ /\ secret.exists => ~Connects(r, FromSecret(held[r].place, secret.is))
        /\ End(r)
  /\ UNCHANGED <<configs, creds, usage, res, dip, budget, early>>

-----------------------------------------------------------------------------
(* The calls made with a client. *)

\* The installation at the endpoints of the clients.
There(r) == CHOOSE i \in Installations : Place[i] = held[r].place

Found(r) == \E g \in Guids : g = res[r].name /\ dip[g] = There(r)

\* Of the GET by external name; a token of a revoked account is refused.
Status(r) ==
  IF held[r].account \in revoked THEN 401 ELSE IF Found(r) THEN 200 ELSE 404

\* IsNotFoundOrInvalidID.  (Mutant: every error means absence.)
ObservedAbsentOnError(r) == res[r].name = NoName \/ Status(r) # 200

ObservedAbsent(r) == res[r].name = NoName \/ Status(r) \in AbsentFor[r]

Observed(r) == Status(r) = 200

NewGuid == CHOOSE g \in Guids : dip[g] = "unborn"

\* Observe finds nothing: finalizer, Create, external name.
Create(r) ==
  /\ step[r] = "call"
  /\ res[r].life = "present" /\ ObservedAbsent(r)
  /\ held[r].account \notin revoked
  /\ \E g \in Guids : dip[g] = "unborn"
  /\ dip' = [dip EXCEPT ![NewGuid] = There(r)]
  /\ res' = [res EXCEPT ![r].name = NewGuid, ![r].finalizer = TRUE]
  /\ End(r)
  /\ UNCHANGED <<configs, creds, usage, budget, early>>

\* Observe finds the object of a resource being deleted: Delete.
Delete(r) ==
  /\ step[r] = "call"
  /\ res[r].life = "deleting" /\ Observed(r)
  /\ dip' = [dip EXCEPT ![res[r].name] = "gone"]
  /\ End(r)
  /\ UNCHANGED <<configs, creds, usage, res, budget, early>>

\* Observe finds nothing of a resource being deleted: the finalizer goes.
Finalize(r) ==
  /\ step[r] = "call"
  /\ res[r].life = "deleting" /\ ObservedAbsent(r)
  /\ res' = [res EXCEPT ![r].life = "gone"]
  /\ End(r)
  /\ UNCHANGED <<configs, creds, usage, dip, budget, early>>

\* Nothing to do, an error, a refusal, or the resource has gone.
Leave(r) ==
  /\ step[r] = "call"
  /\ \/ res[r].life = "gone"
     \/ res[r].life = "present" /\ ~ObservedAbsent(r)
     \/ res[r].life = "present" /\ held[r].account \in revoked
     \/ res[r].life = "deleting" /\ ~ObservedAbsent(r) /\ ~Observed(r)
  /\ End(r)
  /\ UNCHANGED <<configs, creds, usage, res, dip, budget, early>>

-----------------------------------------------------------------------------
(* The ProviderConfig controller and Kubernetes. *)

\* Get the ProviderConfig and list its usages; one that is being deleted and
\* still in use is left for later.
ConfigRead ==
  /\ pcWork = NoConfig
  /\ pc.exists
  /\ IF pc.deleting THEN usagesSeen = {} ELSE ~pc.finalizer
  /\ pcWork' = pc
  /\ UNCHANGED <<pc, creds, usage, res, local, dip, budget, early>>

\* Add the finalizer, or remove it and with it the ProviderConfig; a copy that is
\* not the newest meets a conflict.
ConfigWrite ==
  /\ pcWork # NoConfig
  /\ pc' = IF pc # pcWork THEN pc
           ELSE IF pc.deleting THEN Gone(pc)
           ELSE [pc EXCEPT !.finalizer = TRUE]
  /\ pcWork' = NoConfig
  /\ UNCHANGED <<creds, usage, res, local, dip, budget, early>>

SyncUsages ==
  /\ usagesSeen # usages
  /\ usagesSeen' = usages
  /\ UNCHANGED <<configs, creds, usages, res, local, dip, budget, early>>

\* Kubernetes collects the usage of a resource that is gone.
CollectUsage(r) ==
  /\ r \in usages /\ res[r].life = "gone"
  /\ usages' = usages \ {r}
  /\ UNCHANGED <<configs, creds, usagesSeen, res, local, dip, budget, early>>

-----------------------------------------------------------------------------
(* Users and administrators. *)

\* Without a finalizer the resource is gone at once.
Remove(r) ==
  /\ res[r].life = "present"
  /\ Spend("remove")
  /\ res' = [res EXCEPT ![r].life = IF res[r].finalizer THEN "deleting" ELSE "gone"]
  /\ UNCHANGED <<configs, creds, usage, local, dip, early>>

CreateConfig ==
  /\ ~pc.exists
  /\ Spend("config")
  /\ \E s \in Specs : pc' = NewConfig(pc.uid + 1, s)
  /\ early' = {}
  /\ UNCHANGED <<pcWork, creds, usage, res, local, dip>>

EditSpec ==
  /\ pc.exists
  /\ Spend("spec")
  /\ \E s \in Specs \ {pc.spec} : pc' = [pc EXCEPT !.spec = s]
  /\ UNCHANGED <<pcWork, creds, usage, res, local, dip, early>>

HasObject(r) == Exists(r) /\ res[r].finalizer

RemoveConfig ==
  /\ pc.exists /\ ~pc.deleting
  /\ Spend("removeConfig")
  /\ IF pc.finalizer
     THEN /\ pc' = [pc EXCEPT !.deleting = TRUE]
          /\ early' = IF usagesSeen = usages THEN {r \in Resources : HasObject(r)} ELSE {}
     ELSE pc' = Gone(pc) /\ early' = {}
  /\ UNCHANGED <<pcWork, creds, usage, res, local, dip>>

\* A rotation of the key, a correction, or the Secret is created anew.
PutSecret ==
  /\ Spend("secret")
  /\ \E s \in Secrets :
       /\ secret # Present(s)
       /\ secret' = Present(s)
       /\ issued' = issued \cup ({s.account} \ {Unset})
  /\ UNCHANGED <<configs, revoked, usage, res, local, dip, early>>

RemoveSecret ==
  /\ secret.exists
  /\ Spend("noSecret")
  /\ secret' = [secret EXCEPT !.exists = FALSE]
  /\ UNCHANGED <<configs, issued, revoked, usage, res, local, dip, early>>

\* After a rotation the old key is revoked.
Revoke ==
  /\ Spend("revoke")
  /\ \E a \in issued \ revoked :
       /\ secret.exists => secret.is.account # a
       /\ revoked' = revoked \cup {a}
  /\ UNCHANGED <<configs, secret, issued, usage, res, local, dip, early>>

-----------------------------------------------------------------------------
Reconcile(r) ==
  \/ Track(r) \/ GetConfig(r) \/ Login(r)
  \/ Create(r) \/ Delete(r) \/ Finalize(r) \/ Leave(r)

ConfigReconcile == ConfigRead \/ ConfigWrite

Next ==
  \/ \E r \in Resources : Reconcile(r) \/ CollectUsage(r) \/ Remove(r)
  \/ ConfigReconcile \/ SyncUsages
  \/ CreateConfig \/ EditSpec \/ RemoveConfig \/ PutSecret \/ RemoveSecret \/ Revoke

Spec == Init /\ [][Next]_vars

\* Errors are retried, resources polled, informers and the collector get there.
Fairness ==
  /\ \A r \in Resources : WF_vars(Reconcile(r)) /\ WF_vars(CollectUsage(r))
  /\ WF_vars(ConfigReconcile)
  /\ WF_vars(SyncUsages)

FairSpec == Spec /\ Fairness

-----------------------------------------------------------------------------
(* Properties. *)

Sites == {Place[i] : i \in Installations}

TypeOK ==
  /\ {pc, pcWork} \subseteq
       [uid : Nat, exists : BOOLEAN, deleting : BOOLEAN, finalizer : BOOLEAN,
        spec : Specs \cup {NoPlace}]
  /\ secret \in [exists : BOOLEAN, is : Secrets]
  /\ usages \cup usagesSeen \cup early \subseteq Resources
  /\ step \in [Resources -> Steps]
  /\ held \in [Resources -> [place : Specs \cup Sites \cup {NoPlace},
                             account : Accounts \cup {Unset}]]
  /\ \A r \in Resources :
       /\ step[r] = "secret" => held[r].place \in Specs /\ held[r].account = Unset
       /\ step[r] = "call" => held[r].account \in Accounts
       /\ step[r] \in {"idle", "config"} => held[r] = Nothing
  /\ res \in [Resources -> [life : {"present", "deleting", "gone"},
                            finalizer : BOOLEAN, name : Guids \cup {NoName}]]
  /\ dip \in [Guids -> {"unborn", "gone"} \cup Installations]
  /\ revoked \subseteq issued /\ issued \subseteq Accounts
  /\ budget \in [Disturbances -> Nat]

\* A ProviderConfig whose deletion is asked for while the informer has caught up
\* with its usages stays until every resource that had an object then is gone,
\* since they need it to be deleted from DIP (Track in Connect, the controller of
\* ProviderConfigs in config.go); only resources that first connect during the
\* deletion may lose it.
EarlyUsersKeepConfig == \A r \in early : Exists(r) => pc.exists

\* A controller never calls a client that is nil, and the region and environment
\* its clients were made with are always those that know the account whose token
\* they use, although either may come from the ProviderConfig or from the Secret,
\* and these are read one after the other and edited in between (the checks of
\* the login and of nil clients in Connect and NewClient).
ClientsAreWhole ==
  \A r \in Resources : step[r] = "call" =>
    /\ held[r].account \in issued
    /\ held[r].place = Place[Home[held[r].account]]
    /\ ServiceOf[r] \in {"IAM"} \cup Offers[There(r)]

\* Whatever the Secret holds as the key keeps its text when it is formatted, also
\* when its length is at or next to a multiple of the line width, and formatting
\* it again, in the next reconcile or after it was stored as formatted, changes
\* nothing (formatPrivateKey).
KeepingTheirText  == {key \in StoredKeys : KeepsItsText(key)}
KeysKeepTheirText == secret.is.key \in KeepingTheirText

\* The accounts the Secret has held were all of one installation.
NeverMoved == \A a, b \in issued : Home[a] = Home[b]

Living(g) == dip[g] \notin {"unborn", "gone"}

\* As long as the Secret is only given accounts of one installation, nothing that
\* is edited, rotated, revoked, removed or misconfigured makes a controller take
\* an object of DIP for absent: each is named by a resource that exists, and no
\* two by the same.
NothingAstray ==
  NeverMoved =>
    \A g \in Guids : Living(g) => \E r \in Resources : Exists(r) /\ res[r].name = g

\* What an account's key may look like in the Secret.
KeysOf ==
  [a \in Accounts |->
     {key \in StoredKeys : Text(key) = KeyOf[a] /\ (IsOneLine(key) \/ Readable(key))}]

\* The Secret, alone or together with the ProviderConfig, leads to the home of
\* its account, and there is what the resource needs.
Suits(r) ==
  /\ secret.exists
  /\ secret.is.account \in Accounts \ revoked
  /\ secret.is.key \in KeysOf[secret.is.account]
  /\ LET inst == Home[secret.is.account]
         there == Place[inst]
     IN  /\ \A f \in {"region", "environment"} :
              \/ secret.is[f] = there[f]
              \/ secret.is[f] = Unset /\ pc.spec[f] = there[f]
         /\ ServiceOf[r] \in {"IAM"} \cup Offers[inst]

\* A controller connects through every configuration that suits its resource: the
\* key may have been stored without its line breaks, region and environment may
\* stand in the Secret or in the ProviderConfig, and what the ProviderConfig says
\* of them does not matter if the Secret does (ConfigFromSecret, NewClient).
WhatSuitsConnects ==
  \A r \in Resources :
    pc.exists /\ Suits(r) => Connects(r, FromSecret(pc.spec, secret.is))

Served(r) ==
  \/ res[r].life = "gone"
  \/ /\ res[r].life = "present" /\ res[r].name # NoName
     /\ secret.is.account \in Accounts
     /\ dip[res[r].name] = Home[secret.is.account]

\* With a configuration that suits it a resource is served in the end, created or
\* deleted, whatever was wrong before; a Secret that gives region and environment
\* suits whatever the ProviderConfig says, its key may have lost its line breaks,
\* and an installation without MDM suits the resources that do not need it.
ServedInTheEnd ==
  \A r \in Resources : (<>[](pc.exists /\ Suits(r))) => <>[]Served(r)

\* Every resource is leaving and the ProviderConfig, if it leaves too, knew them all.
Leaving ==
  /\ \A r \in Resources : Exists(r) => res[r].life = "deleting" /\ Suits(r)
  /\ \/ pc.exists /\ ~pc.deleting
     \/ \A r \in Resources : Exists(r) => r \in early

\* Resources and the ProviderConfig they connected through may be deleted in any
\* order or at once: all of them go, the ProviderConfig last.
LeaveInOrder ==
  <>[]Leaving => <>[](/\ \A r \in Resources : ~Exists(r)
                      /\ ~pc.deleting)
=============================================================================
