--------------------------- MODULE ConnectionProofs ---------------------------
(***************************************************************************)
(* Safety of Connection, for every set of resources, accounts,             *)
(* installations, configurations and secrets.                              *)
(*                                                                         *)
(* A ProviderConfig outlives its early users because a resource that has   *)
(* an object has a usage (UsesAreTracked), because the informer keeps      *)
(* showing a usage it has shown while the resource exists (EarlyAreSeen),  *)
(* and because the copy that the controller is about to finalize was read  *)
(* when no usage was shown (WorkIsOld): deletion, edits and a new          *)
(* ProviderConfig of the same name in between do not matter.               *)
(*                                                                         *)
(* No object goes astray because an object lives where an account that was *)
(* issued is at home (LivesAtHome), which, as long as all of them are at   *)
(* home in one installation, is where every client looks.                  *)
(***************************************************************************)
EXTENDS Connection, KeyFormatProofs

ConfigType ==
  [uid : Nat, exists : BOOLEAN, deleting : BOOLEAN, finalizer : BOOLEAN,
   spec : Specs \cup {NoPlace}]

ResourceType ==
  [life : {"present", "deleting", "gone"}, finalizer : BOOLEAN,
   name : Guids \cup {NoName}]

\* What exists says something, and the Secret is among those that were issued.
SaysSomething ==
  /\ pc.exists => pc.spec \in Specs
  /\ secret.is.account \in issued \cup {Unset}

UsesAreTracked ==
  \A r \in Resources : Exists(r) /\ (step[r] # "idle" \/ res[r].finalizer) => r \in usages

EarlyAreSeen ==
  \A r \in early : Exists(r) => r \in usages /\ r \in usagesSeen

WorkIsOld ==
  /\ pcWork.uid <= pc.uid
  /\ pcWork.deleting /\ pcWork.uid = pc.uid =>
       /\ pc.deleting \/ ~pc.exists
       /\ \A r \in early : ~Exists(r)

LivesAtHome ==
  /\ \A g \in Guids : Living(g) => \E a \in issued : dip[g] = Home[a]
  /\ \A r \in Resources : ~res[r].finalizer => res[r].name = NoName

Inductive ==
  /\ TypeOK
  /\ SaysSomething
  /\ UsesAreTracked
  /\ EarlyAreSeen
  /\ WorkIsOld
  /\ EarlyUsersKeepConfig
  /\ ClientsAreWhole
  /\ LivesAtHome
  /\ NothingAstray

-----------------------------------------------------------------------------
(* What the steps have in common. *)

Holding == [place : Specs \cup Sites \cup {NoPlace}, account : Accounts \cup {Unset}]

\* What a reconcile has before it has read anything.
LEMMA NothingHeld == Nothing \in Holding /\ Nothing.account = Unset
  BY DEF Nothing, Holding

\* A reconcile that goes on, or ends, touches its own step and holdings only.
LEMMA Continued ==
  ASSUME TypeOK, NEW r \in Resources, NEW next \in Steps, NEW with \in Holding,
         Continue(r, next, with)
  PROVE  /\ step' \in [Resources -> Steps]
         /\ held' \in [Resources -> Holding]
         /\ step'[r] = next /\ held'[r] = with
         /\ \A q \in Resources \ {r} : step'[q] = step[q] /\ held'[q] = held[q]
  BY DEF Continue, TypeOK, Holding

\* The same of a reconcile that ends.
LEMMA Ended ==
  ASSUME TypeOK, NEW r \in Resources, End(r)
  PROVE  /\ step' \in [Resources -> Steps]
         /\ held' \in [Resources -> Holding]
         /\ step'[r] = "idle" /\ held'[r] = Nothing
         /\ \A q \in Resources \ {r} : step'[q] = step[q] /\ held'[q] = held[q]
  BY Continued, NothingHeld DEF End, Steps

\* There is one installation with a region and environment.
LEMMA OnePlace ==
  ASSUME NEW i \in Installations
  PROVE  (CHOOSE j \in Installations : Place[j] = Place[i]) = i
  BY InstallationsAssumption

\* A configuration with which a controller connects is of an account that was
\* issued, leads to its home, and gives the controller the client it calls.
LEMMA ConnectedWhole ==
  ASSUME SaysSomething, TypeOK, NEW r \in Resources, NEW s, NEW c,
         c = FromSecret(s, secret.is), Connects(r, c)
  PROVE  /\ c.account \in issued /\ c.account \in Accounts
         /\ Home[c.account] \in Installations
         /\ Configured(c) = Place[Home[c.account]]
         /\ ServiceOf[r] \in {"IAM"} \cup Offers[Home[c.account]]
<1>1. c.account \in issued /\ c.account \in Accounts
  <2>1. c.account = secret.is.account
    BY DEF FromSecret
  <2>2. QED
    BY <2>1 DEF Connects, Complete, SaysSomething, TypeOK
<1>2. Home[c.account] \in Installations /\ Configured(c) = Place[Home[c.account]]
  BY <1>1, AccountsAssumption DEF Connects, LoggedIn
<1>3. {j \in Installations : Place[j] = Configured(c)} = {Home[c.account]}
  BY <1>2, InstallationsAssumption
<1>4. QED
  BY <1>1, <1>2, <1>3 DEF Connects, Clients

\* The installation that a client calls is the home of its account.
LEMMA CallsHome ==
  ASSUME TypeOK, ClientsAreWhole, NEW r \in Resources, step[r] = "call"
  PROVE  There(r) = Home[held[r].account] /\ There(r) \in Installations
<1>1. Home[held[r].account] \in Installations
  BY AccountsAssumption DEF TypeOK
<1>2. held[r].place = Place[Home[held[r].account]]
  BY DEF ClientsAreWhole
<1>3. QED
  BY <1>1, <1>2, OnePlace DEF There

\* A GUID that DIP has not handed out.
LEMMA NewGuidUnborn ==
  ASSUME \E g \in Guids : dip[g] = "unborn"
  PROVE  NewGuid \in Guids /\ dip[NewGuid] = "unborn"
  BY DEF NewGuid

\* A new ProviderConfig, and one that is gone, are ProviderConfigs.
LEMMA ConfigsTyped ==
  /\ NoConfig \in ConfigType /\ ~NoConfig.deleting /\ NoConfig.uid = 0
  /\ \A uid \in Nat, s \in Specs :
       /\ NewConfig(uid, s) \in ConfigType
       /\ NewConfig(uid, s).uid = uid /\ NewConfig(uid, s).spec = s
       /\ NewConfig(uid, s).exists /\ ~NewConfig(uid, s).deleting
  /\ \A c \in ConfigType :
       Gone(c) \in ConfigType /\ Gone(c).uid = c.uid /\ ~Gone(c).exists /\ ~Gone(c).deleting
<1>1. NoConfig \in ConfigType
  BY DEF NoConfig, ConfigType
<1>2. QED
  BY <1>1 DEF NoConfig, NewConfig, Gone, ConfigType

-----------------------------------------------------------------------------
(* Types. *)

\* What the reconcile of a resource does keeps the types.
LEMMA ReconcileTyped ==
  ASSUME TypeOK, SaysSomething, ClientsAreWhole, NEW r \in Resources, Reconcile(r)
  PROVE  TypeOK'
<1>1. CASE Track(r) \/ GetConfig(r) \/ Login(r) \/ Leave(r)
  <2>1. /\ UNCHANGED <<configs, creds, usagesSeen, res, dip, budget, early>>
        /\ usages' = usages \/ usages' = usages \cup {r}
    BY <1>1 DEF Track, GetConfig, Login, Leave, usage
  <2>2. PICK next \in Steps, with \in Holding :
          /\ Continue(r, next, with)
          /\ next = "secret" => with.place \in Specs /\ with.account = Unset
          /\ next = "call" => with.account \in Accounts
          /\ next \in {"idle", "config"} => with = Nothing
    <3>1. CASE Track(r) \/ Leave(r)
      BY <3>1, NothingHeld DEF Track, Leave, End, Steps
    <3>2. CASE GetConfig(r)
      <4>1. CASE pc.exists
        <5>1. [Nothing EXCEPT !.place = pc.spec] \in Holding
          BY <4>1 DEF SaysSomething, Nothing, Holding
        <5>2. /\ [Nothing EXCEPT !.place = pc.spec].place = pc.spec
              /\ [Nothing EXCEPT !.place = pc.spec].account = Unset
          BY DEF Nothing
        <5>3. QED
          BY <3>2, <4>1, <5>1, <5>2 DEF GetConfig, SaysSomething, Steps
      <4>2. CASE ~pc.exists
        BY <3>2, <4>2, NothingHeld DEF GetConfig, End, Steps
      <4>3. QED
        BY <4>1, <4>2
    <3>3. CASE Login(r)
      <4>1. CASE End(r)
        BY <4>1, NothingHeld DEF End, Steps
      <4> DEFINE c == FromSecret(held[r].place, secret.is)
      <4>2. CASE /\ Connects(r, c)
                 /\ Continue(r, "call", [place |-> Configured(c), account |-> c.account])
        <5>1. c.account \in Accounts /\ Configured(c) \in Sites
          BY <4>2, ConnectedWhole DEF Sites
        <5> HIDE DEF c
        <5>2. [place |-> Configured(c), account |-> c.account] \in Holding
          BY <5>1 DEF Holding
        <5>3. QED
          BY <4>2, <5>1, <5>2 DEF Steps
      <4>3. QED
        BY <3>3, <4>1, <4>2 DEF Login
    <3>4. QED
      BY <1>1, <3>1, <3>2, <3>3
  <2>3. /\ step' \in [Resources -> Steps]
        /\ held' \in [Resources -> Holding]
        /\ step'[r] = next /\ held'[r] = with
        /\ \A q \in Resources \ {r} : step'[q] = step[q] /\ held'[q] = held[q]
    BY <2>2, Continued
  <2>4. QED
    BY <2>1, <2>2, <2>3 DEF TypeOK, configs, creds, Holding
<1>2. CASE Create(r) \/ Delete(r) \/ Finalize(r)
  <2>1. End(r) /\ UNCHANGED <<configs, creds, usage, budget, early>>
    BY <1>2 DEF Create, Delete, Finalize
  <2>2. /\ res' \in [Resources -> ResourceType]
        /\ dip' \in [Guids -> {"unborn", "gone"} \cup Installations]
    <3>0. res \in [Resources -> ResourceType]
      BY DEF TypeOK, ResourceType
    <3>1. CASE Create(r)
      <4>1. NewGuid \in Guids
        BY <3>1, NewGuidUnborn DEF Create
      <4>2. There(r) \in Installations
        BY <3>1, CallsHome DEF Create
      <4>3. \A g \in Guids :
              [res[r] EXCEPT !.name = g, !.finalizer = TRUE] \in ResourceType
        BY <3>0 DEF ResourceType
      <4>4. res' = [res EXCEPT ![r] = [res[r] EXCEPT !.name = NewGuid, !.finalizer = TRUE]]
        BY <3>0, <3>1 DEF Create
      <4>5. QED
        BY <3>0, <3>1, <4>1, <4>2, <4>3, <4>4 DEF Create, TypeOK
    <3>2. CASE Delete(r)
      BY <3>0, <3>2 DEF Delete, TypeOK
    <3>3. CASE Finalize(r)
      <4>1. [res[r] EXCEPT !.life = "gone"] \in ResourceType
        BY <3>0 DEF ResourceType
      <4>2. res' = [res EXCEPT ![r] = [res[r] EXCEPT !.life = "gone"]]
        BY <3>0, <3>3 DEF Finalize
      <4>3. QED
        BY <3>0, <3>3, <4>1, <4>2 DEF Finalize, TypeOK
    <3>4. QED
      BY <1>2, <3>1, <3>2, <3>3
  <2>3. /\ step' \in [Resources -> Steps]
        /\ held' \in [Resources -> Holding]
        /\ step'[r] = "idle" /\ held'[r] = Nothing
        /\ \A q \in Resources \ {r} : step'[q] = step[q] /\ held'[q] = held[q]
    BY <2>1, Ended
  <2>4. QED
    BY <2>1, <2>2, <2>3 DEF TypeOK, configs, creds, usage, ResourceType, Holding
<1>3. QED
  BY <1>1, <1>2 DEF Reconcile

\* What the ProviderConfig controller, Kubernetes and people do keeps the types.
LEMMA EnvironmentTyped ==
  ASSUME TypeOK,
         \/ \E r \in Resources : CollectUsage(r) \/ Remove(r)
         \/ ConfigReconcile \/ SyncUsages \/ CreateConfig \/ EditSpec \/ RemoveConfig
         \/ PutSecret \/ RemoveSecret \/ Revoke
         \/ UNCHANGED vars
  PROVE  TypeOK'
<1>0. /\ pc \in ConfigType /\ pcWork \in ConfigType
      /\ \A what \in Disturbances : Spend(what) => budget' \in [Disturbances -> Nat]
  BY DEF TypeOK, ConfigType, Spend
<1>1. CASE ConfigReconcile \/ CreateConfig \/ EditSpec \/ RemoveConfig
  <2>1. pc' \in ConfigType /\ pcWork' \in ConfigType
    <3>1. /\ [pc EXCEPT !.finalizer = TRUE] \in ConfigType
          /\ [pc EXCEPT !.deleting = TRUE] \in ConfigType
          /\ \A s \in Specs : [pc EXCEPT !.spec = s] \in ConfigType
      BY <1>0 DEF ConfigType
    <3>2. pc.uid + 1 \in Nat
      BY <1>0 DEF ConfigType
    <3>3. CASE ConfigReconcile
      <4>1. pcWork' \in {pc, NoConfig}
        BY <3>3 DEF ConfigReconcile, ConfigRead, ConfigWrite
      <4>2. pc' \in {pc, Gone(pc), [pc EXCEPT !.finalizer = TRUE]}
        BY <3>3 DEF ConfigReconcile, ConfigRead, ConfigWrite
      <4>3. NoConfig \in ConfigType /\ Gone(pc) \in ConfigType
        BY <1>0, ConfigsTyped
      <4>4. QED
        BY <1>0, <3>1, <4>1, <4>2, <4>3
    <3>4. CASE CreateConfig
      BY <1>0, <3>2, <3>4, ConfigsTyped DEF CreateConfig
    <3>5. CASE EditSpec \/ RemoveConfig
      <4>1. \/ pc' \in {Gone(pc), [pc EXCEPT !.deleting = TRUE]}
            \/ \E s \in Specs : pc' = [pc EXCEPT !.spec = s]
        BY <3>5 DEF EditSpec, RemoveConfig
      <4>2. Gone(pc) \in ConfigType /\ pcWork' = pcWork
        BY <1>0, <3>5, ConfigsTyped DEF EditSpec, RemoveConfig
      <4>3. QED
        BY <1>0, <3>1, <4>1, <4>2
    <3>6. QED
      BY <1>1, <3>3, <3>4, <3>5
  <2>2. /\ UNCHANGED <<creds, usage, res, local, dip>>
        /\ early' \subseteq Resources
        /\ budget' \in [Disturbances -> Nat]
    BY <1>0, <1>1 DEF ConfigReconcile, ConfigRead, ConfigWrite, CreateConfig, EditSpec,
       RemoveConfig, TypeOK, Disturbances
  <2>3. QED
    BY <2>1, <2>2 DEF TypeOK, ConfigType, creds, usage, local
<1>2. CASE PutSecret \/ RemoveSecret \/ Revoke
  <2>1. /\ UNCHANGED <<configs, usage, res, local, dip, early>>
        /\ budget' \in [Disturbances -> Nat]
    BY <1>0, <1>2 DEF PutSecret, RemoveSecret, Revoke, Disturbances
  <2>2. /\ secret' \in [exists : BOOLEAN, is : Secrets]
        /\ revoked' \subseteq issued' /\ issued' \subseteq Accounts
    <3>0. secret \in [exists : BOOLEAN, is : Secrets] /\ revoked \subseteq issued
          /\ issued \subseteq Accounts
      BY DEF TypeOK
    <3>1. CASE PutSecret
      <4>1. PICK s \in Secrets :
              /\ secret' = Present(s)
              /\ issued' = issued \cup ({s.account} \ {Unset})
              /\ revoked' = revoked
        BY <3>1 DEF PutSecret
      <4>2. s.account \in Accounts \cup {Unset}
        BY SecretsAssumption
      <4>3. QED
        BY <3>0, <4>1, <4>2 DEF Present
    <3>2. CASE RemoveSecret
      BY <3>0, <3>2 DEF RemoveSecret
    <3>3. CASE Revoke
      BY <3>0, <3>3 DEF Revoke
    <3>4. QED
      BY <1>2, <3>1, <3>2, <3>3
  <2>3. QED
    BY <2>1, <2>2 DEF TypeOK, configs, usage, local
<1>3. ASSUME NEW r \in Resources, Remove(r)
      PROVE  TypeOK'
  <2>1. /\ UNCHANGED <<configs, creds, usage, local, dip, early>>
        /\ budget' \in [Disturbances -> Nat]
    BY <1>0, <1>3 DEF Remove, Disturbances
  <2>2. res' \in [Resources -> ResourceType]
    <3>0. res[r] \in ResourceType
      BY DEF TypeOK, ResourceType
    <3>1. \A life \in {"deleting", "gone"} : [res[r] EXCEPT !.life = life] \in ResourceType
      BY <3>0 DEF ResourceType
    <3>2. \E life \in {"deleting", "gone"} :
            res' = [res EXCEPT ![r] = [res[r] EXCEPT !.life = life]]
      BY <1>3 DEF Remove, TypeOK
    <3>3. QED
      BY <3>1, <3>2 DEF TypeOK, ResourceType
  <2>3. QED
    BY <2>1, <2>2 DEF TypeOK, ResourceType, configs, creds, usage, local
<1>4. CASE SyncUsages \/ (\E r \in Resources : CollectUsage(r)) \/ UNCHANGED vars
  BY <1>4 DEF SyncUsages, CollectUsage, vars, TypeOK, configs, creds, usage, local
<1>5. QED
  BY <1>1, <1>2, <1>3, <1>4

\* Every step keeps the types.
LEMMA TypeStep == TypeOK /\ SaysSomething /\ ClientsAreWhole /\ [Next]_vars => TypeOK'
  BY ReconcileTyped, EnvironmentTyped, Zenon DEF Next

-----------------------------------------------------------------------------
(* The ProviderConfig and its users. *)

\* What a reconcile does to usages, resources and configurations.
LEMMA ReconcileEffects ==
  ASSUME TypeOK, NEW r \in Resources, Reconcile(r)
  PROVE  /\ UNCHANGED <<configs, creds, usagesSeen, budget, early>>
         /\ \A q \in Resources \ {r} : res'[q] = res[q] /\ step'[q] = step[q]
                                       /\ held'[q] = held[q]
         /\ usages \subseteq usages'
         /\ Exists(r)' => Exists(r)
         /\ (step'[r] # "idle" => step[r] # "idle" \/ r \in usages')
         /\ (res'[r].finalizer => res[r].finalizer \/ step[r] # "idle")
<1>1. CASE Track(r) \/ GetConfig(r) \/ Login(r) \/ Leave(r)
  <2>1. /\ UNCHANGED <<configs, creds, usagesSeen, res, dip, budget, early>>
        /\ \E next, with : Continue(r, next, with)
        /\ step[r] = "idle" => usages' = usages \cup {r}
        /\ step[r] # "idle" => usages' = usages
    BY <1>1 DEF Track, GetConfig, Login, Leave, usage, End
  <2>2. \A q \in Resources \ {r} : step'[q] = step[q] /\ held'[q] = held[q]
    BY <2>1 DEF Continue, TypeOK
  <2>3. QED
    BY <2>1, <2>2 DEF Exists
<1>2. CASE Create(r) \/ Delete(r) \/ Finalize(r)
  <2>1. /\ UNCHANGED <<configs, creds, usage, budget, early>> /\ step[r] = "call"
        /\ End(r)
    BY <1>2 DEF Create, Delete, Finalize
  <2>2. /\ \A q \in Resources \ {r} : res'[q] = res[q]
        /\ Exists(r)' => Exists(r)
    BY <1>2 DEF Create, Delete, Finalize, Exists, TypeOK
  <2>3. /\ step'[r] = "idle"
        /\ \A q \in Resources \ {r} : step'[q] = step[q] /\ held'[q] = held[q]
    BY <2>1, Ended
  <2>4. QED
    BY <2>1, <2>2, <2>3 DEF usage
<1>3. QED
  BY <1>1, <1>2 DEF Reconcile

\* Every step keeps a resource that connected, or has an object, in use.
LEMMA UsageStep ==
  ASSUME TypeOK, UsesAreTracked, EarlyAreSeen, [Next]_vars
  PROVE  UsesAreTracked' /\ EarlyAreSeen'
<1>0. early \subseteq Resources
  BY DEF TypeOK
<1>1. ASSUME NEW r \in Resources, Reconcile(r) PROVE UsesAreTracked' /\ EarlyAreSeen'
  BY <1>0, <1>1, ReconcileEffects DEF UsesAreTracked, EarlyAreSeen, Exists, configs, usage
<1>2. ASSUME NEW r \in Resources, CollectUsage(r) PROVE UsesAreTracked' /\ EarlyAreSeen'
  BY <1>2 DEF CollectUsage, UsesAreTracked, EarlyAreSeen, Exists, local
<1>3. ASSUME NEW r \in Resources, Remove(r) PROVE UsesAreTracked' /\ EarlyAreSeen'
  <2>1. /\ UNCHANGED <<usage, local, early>>
        /\ \A q \in Resources : res'[q].finalizer = res[q].finalizer /\ (Exists(q)' => Exists(q))
    BY <1>3 DEF Remove, TypeOK, Exists
  <2>2. QED
    BY <1>0, <2>1 DEF UsesAreTracked, EarlyAreSeen, usage, local
<1>4. CASE SyncUsages
  BY <1>0, <1>4 DEF SyncUsages, UsesAreTracked, EarlyAreSeen, Exists, local
<1>5. CASE RemoveConfig
  BY <1>5 DEF RemoveConfig, UsesAreTracked, EarlyAreSeen, Exists, HasObject, usage, local
<1>6. CASE CreateConfig
  BY <1>6 DEF CreateConfig, UsesAreTracked, EarlyAreSeen, Exists, usage, local
<1>7. CASE UNCHANGED <<usage, res, local, early>>
  BY <1>0, <1>7 DEF UsesAreTracked, EarlyAreSeen, Exists, usage, local
<1>8. QED
  BY <1>1, <1>2, <1>3, <1>4, <1>5, <1>6, <1>7
     DEF Next, ConfigReconcile, ConfigRead, ConfigWrite, EditSpec, PutSecret, RemoveSecret,
         Revoke, vars

\* Every step keeps the ProviderConfig for its early users.
LEMMA ConfigStep ==
  ASSUME TypeOK, EarlyAreSeen, WorkIsOld, EarlyUsersKeepConfig, [Next]_vars
  PROVE  WorkIsOld' /\ EarlyUsersKeepConfig'
<1>0. /\ early \subseteq Resources /\ pc \in ConfigType /\ pcWork \in ConfigType
      /\ pc.uid \in Nat /\ pcWork.uid \in Nat
  BY DEF TypeOK, ConfigType
<1>1. ASSUME UNCHANGED <<configs, early>>, \A r \in Resources : Exists(r)' => Exists(r)
      PROVE  WorkIsOld' /\ EarlyUsersKeepConfig'
  BY <1>0, <1>1 DEF WorkIsOld, EarlyUsersKeepConfig, configs
<1>2. ASSUME NEW r \in Resources, Reconcile(r) PROVE WorkIsOld' /\ EarlyUsersKeepConfig'
  <2>1. \A q \in Resources : Exists(q)' => Exists(q)
    BY <1>2, ReconcileEffects DEF Exists
  <2>2. QED
    BY <1>1, <1>2, <2>1, ReconcileEffects
<1>3. ASSUME NEW r \in Resources, Remove(r) PROVE WorkIsOld' /\ EarlyUsersKeepConfig'
  <2>1. \A q \in Resources : Exists(q)' => Exists(q)
    BY <1>3 DEF Remove, Exists, TypeOK
  <2>2. QED
    BY <1>1, <1>3, <2>1 DEF Remove
<1>4. CASE ConfigRead
  <2>1. pcWork' = pc /\ UNCHANGED <<pc, res, early>> /\ pc.exists
    BY <1>4 DEF ConfigRead
  <2>2. pc.deleting => \A r \in early : ~Exists(r)
    BY <1>4 DEF ConfigRead, EarlyAreSeen
  <2>3. QED
    BY <1>0, <2>1, <2>2 DEF WorkIsOld, EarlyUsersKeepConfig, Exists
<1>5. CASE ConfigWrite
  <2>1. pcWork' = NoConfig /\ UNCHANGED <<res, early>>
    BY <1>5 DEF ConfigWrite
  <2>2. pc'.uid \in Nat
    BY <1>0, <1>5, ConfigsTyped DEF ConfigWrite, ConfigType
  <2>3. WorkIsOld'
    BY <2>1, <2>2, ConfigsTyped DEF WorkIsOld
  <2>4. pc'.exists = pc.exists \/ (pc = pcWork /\ pc.deleting)
    BY <1>0, <1>5 DEF ConfigWrite, ConfigType
  <2>5. EarlyUsersKeepConfig'
    BY <1>0, <2>1, <2>4 DEF WorkIsOld, EarlyUsersKeepConfig, Exists
  <2>6. QED
    BY <2>3, <2>5
<1>6. CASE CreateConfig
  <2>1. pc'.uid = pc.uid + 1 /\ pcWork' = pcWork /\ early' = {}
    BY <1>0, <1>6, ConfigsTyped DEF CreateConfig
  <2>2. QED
    BY <1>0, <2>1 DEF WorkIsOld, EarlyUsersKeepConfig
<1>7. CASE EditSpec
  <2>1. /\ pc'.uid = pc.uid /\ pc'.deleting = pc.deleting /\ pc'.exists = pc.exists
        /\ UNCHANGED <<pcWork, res, early>>
    BY <1>0, <1>7 DEF EditSpec, ConfigType
  <2>2. QED
    BY <1>0, <2>1 DEF WorkIsOld, EarlyUsersKeepConfig, Exists
<1>8. CASE RemoveConfig
  <2>1. /\ pc'.uid = pc.uid /\ UNCHANGED <<pcWork, res>> /\ pc.exists /\ ~pc.deleting
        /\ \/ pc'.exists
           \/ early' = {}
        /\ early' \subseteq Resources
    BY <1>0, <1>8, ConfigsTyped DEF RemoveConfig, ConfigType
  <2>2. ~(pcWork.deleting /\ pcWork.uid = pc.uid)
    BY <2>1 DEF WorkIsOld
  <2>3. QED
    BY <1>0, <2>1, <2>2 DEF WorkIsOld, EarlyUsersKeepConfig, Exists
<1>9. CASE UNCHANGED <<configs, res, early>>
  BY <1>1, <1>9 DEF Exists
<1>10. QED
  BY <1>2, <1>3, <1>4, <1>5, <1>6, <1>7, <1>8, <1>9
     DEF Next, ConfigReconcile, CollectUsage, SyncUsages, PutSecret, RemoveSecret, Revoke, vars

-----------------------------------------------------------------------------
(* Clients and objects. *)

\* Every step keeps what is said and issued, and what every client is good for.
LEMMA ClientStep ==
  ASSUME TypeOK, SaysSomething, ClientsAreWhole, [Next]_vars
  PROVE  SaysSomething' /\ ClientsAreWhole' /\ issued \subseteq issued'
<1>0. pc \in ConfigType
  BY DEF TypeOK, ConfigType
<1>1. CASE UNCHANGED <<configs, creds, local>>
  BY <1>1 DEF SaysSomething, ClientsAreWhole, There, configs, creds, local
<1>2. ASSUME NEW r \in Resources, Reconcile(r)
      PROVE  SaysSomething' /\ ClientsAreWhole' /\ issued \subseteq issued'
  <2>1. /\ UNCHANGED <<configs, creds>>
        /\ \A q \in Resources \ {r} : step'[q] = step[q] /\ held'[q] = held[q]
    BY <1>2, ReconcileEffects
  <2>2. CASE step'[r] # "call"
    BY <2>1, <2>2 DEF SaysSomething, ClientsAreWhole, There, configs, creds
  <2>3. CASE step'[r] = "call"
    <3>1. Login(r) /\ ~End(r)
      <4>1. ~End(r)
        BY <2>3, Ended
      <4>2. ~Track(r)
        BY <2>3, Continued, NothingHeld DEF Track, Steps
      <4>3. ~GetConfig(r)
        BY <2>3, <4>1 DEF GetConfig, Continue, TypeOK
      <4>4. QED
        BY <1>2, <4>1, <4>2, <4>3 DEF Reconcile, Create, Delete, Finalize, Leave
    <3> DEFINE c == FromSecret(held[r].place, secret.is)
    <3>2. /\ Connects(r, c)
          /\ Continue(r, "call", [place |-> Configured(c), account |-> c.account])
      BY <3>1 DEF Login
    <3>3. /\ c.account \in issued
          /\ Configured(c) = Place[Home[c.account]]
          /\ ServiceOf[r] \in {"IAM"} \cup Offers[Home[c.account]]
          /\ Home[c.account] \in Installations
      BY <3>2, ConnectedWhole
    <3> HIDE DEF c
    <3>4. held'[r].place = Configured(c) /\ held'[r].account = c.account
      BY <3>2 DEF Continue, TypeOK
    <3>5. There(r)' = Home[c.account]
      BY <3>3, <3>4, OnePlace DEF There
    <3>6. \A q \in Resources \ {r} : There(q)' = There(q)
      BY <2>1 DEF There
    <3>7. QED
      BY <2>1, <3>3, <3>4, <3>5, <3>6 DEF SaysSomething, ClientsAreWhole, configs, creds
  <2>4. QED
    BY <2>2, <2>3
<1>3. CASE PutSecret \/ RemoveSecret \/ Revoke
  <2>1. /\ UNCHANGED <<configs, local>> /\ issued \subseteq issued'
        /\ secret'.is.account \in issued' \cup {Unset}
    BY <1>3 DEF PutSecret, RemoveSecret, Revoke, Present, SaysSomething, TypeOK
  <2>2. QED
    BY <2>1 DEF SaysSomething, ClientsAreWhole, There, configs, local
<1>4. CASE ConfigReconcile \/ CreateConfig \/ EditSpec \/ RemoveConfig
  <2>1. UNCHANGED <<creds, local>>
    BY <1>4 DEF ConfigReconcile, ConfigRead, ConfigWrite, CreateConfig, EditSpec, RemoveConfig
  <2>2. pc'.exists => pc'.spec \in Specs
    BY <1>0, <1>4, ConfigsTyped
       DEF ConfigReconcile, ConfigRead, ConfigWrite, CreateConfig, EditSpec, RemoveConfig,
           SaysSomething, ConfigType
  <2>3. QED
    BY <2>1, <2>2 DEF SaysSomething, ClientsAreWhole, There, creds, local
<1>5. QED
  BY <1>1, <1>2, <1>3, <1>4 DEF Next, CollectUsage, Remove, SyncUsages, vars

\* Where all accounts are at home in one installation, an object that a client
\* does not find is not there.
LEMMA AbsentIsAbsent ==
  ASSUME TypeOK, ClientsAreWhole, LivesAtHome, NeverMoved,
         NEW r \in Resources, step[r] = "call", ObservedAbsent(r)
  PROVE  \A g \in Guids : g = res[r].name => ~Living(g)
<1> SUFFICES ASSUME NEW g \in Guids, g = res[r].name, Living(g)
             PROVE  FALSE
  OBVIOUS
<1>1. PICK a \in issued : dip[g] = Home[a]
  BY DEF LivesAtHome
<1>2. held[r].account \in issued
  BY DEF ClientsAreWhole
<1>3. dip[g] = There(r)
  BY <1>1, <1>2, CallsHome DEF NeverMoved
<1>4. Status(r) \in {200, 401}
  BY <1>3 DEF Status, Found
<1>5. Status(r) \notin AbsentFor[r]
  BY <1>4, ResourcesAssumption
<1>6. QED
  BY <1>5, NamesAssumption DEF ObservedAbsent

\* Every step keeps objects at home and named.
LEMMA AstrayStep ==
  ASSUME Inductive, [Next]_vars, issued \subseteq issued'
  PROVE  LivesAtHome' /\ NothingAstray'
<1>0. TypeOK /\ LivesAtHome /\ NothingAstray /\ ClientsAreWhole /\ res \in [Resources -> ResourceType]
  BY DEF Inductive, TypeOK, ResourceType
<1>1. NeverMoved' => NeverMoved
  BY DEF NeverMoved
<1>2. CASE UNCHANGED <<res, dip>>
  BY <1>0, <1>1, <1>2 DEF LivesAtHome, NothingAstray, Living, Exists
<1>3. ASSUME NEW r \in Resources, Create(r) PROVE LivesAtHome' /\ NothingAstray'
  <2>1. NewGuid \in Guids /\ dip[NewGuid] = "unborn"
    BY <1>3, NewGuidUnborn DEF Create
  <2>2. /\ dip'[NewGuid] = There(r) /\ issued' = issued
        /\ \A g \in Guids \ {NewGuid} : dip'[g] = dip[g]
    BY <1>0, <1>3, <2>1 DEF Create, TypeOK, creds
  <2>3. /\ res'[r].name = NewGuid /\ res'[r].finalizer /\ res'[r].life = "present"
        /\ \A q \in Resources \ {r} : res'[q] = res[q]
    BY <1>0, <1>3 DEF Create, ResourceType
  <2>4. There(r) = Home[held[r].account] /\ held[r].account \in issued
    BY <1>0, <1>3, CallsHome DEF ClientsAreWhole, Create
  <2>5. LivesAtHome'
    BY <1>0, <2>1, <2>2, <2>3, <2>4 DEF LivesAtHome, Living
  <2>6. ASSUME NeverMoved', NEW g \in Guids, Living(g)'
        PROVE  \E q \in Resources : Exists(q)' /\ res'[q].name = g
    <3>1. CASE g = NewGuid
      BY <2>3, <3>1 DEF Exists
    <3>2. CASE g # NewGuid
      <4>1. Living(g)
        BY <2>2, <2>6, <3>2 DEF Living
      <4>2. PICK q \in Resources : Exists(q) /\ res[q].name = g
        BY <1>0, <1>1, <2>6, <4>1 DEF NothingAstray
      <4>3. q # r
        BY <1>0, <1>1, <1>3, <2>6, <4>1, <4>2, AbsentIsAbsent DEF Create
      <4>4. QED
        BY <2>3, <4>2, <4>3 DEF Exists
    <3>3. QED
      BY <3>1, <3>2
  <2>7. QED
    BY <2>5, <2>6 DEF NothingAstray
<1>4. ASSUME NEW r \in Resources, Delete(r) PROVE LivesAtHome' /\ NothingAstray'
  <2>1. res' = res /\ \A g \in Guids : dip'[g] = dip[g] \/ dip'[g] = "gone"
    BY <1>0, <1>4 DEF Delete, TypeOK
  <2>2. QED
    BY <1>0, <1>1, <2>1 DEF LivesAtHome, NothingAstray, Living, Exists
<1>5. ASSUME NEW r \in Resources, Finalize(r) \/ Remove(r), dip' = dip,
             res'[r].name = res[r].name, res'[r].finalizer = res[r].finalizer,
             \A q \in Resources \ {r} : res'[q] = res[q],
             NeverMoved => Exists(r)' \/ \A g \in Guids : g = res[r].name => ~Living(g)
      PROVE  LivesAtHome' /\ NothingAstray'
  BY <1>0, <1>1, <1>5 DEF LivesAtHome, NothingAstray, Living, Exists
<1>6. ASSUME NEW r \in Resources, Finalize(r) PROVE LivesAtHome' /\ NothingAstray'
  <2>1. /\ dip' = dip /\ res'[r].name = res[r].name /\ res'[r].finalizer = res[r].finalizer
        /\ \A q \in Resources \ {r} : res'[q] = res[q]
    BY <1>0, <1>6 DEF Finalize, ResourceType
  <2>2. NeverMoved => \A g \in Guids : g = res[r].name => ~Living(g)
    BY <1>0, <1>6, AbsentIsAbsent DEF Finalize
  <2>3. QED
    BY <1>5, <1>6, <2>1, <2>2
<1>7. ASSUME NEW r \in Resources, Remove(r) PROVE LivesAtHome' /\ NothingAstray'
  <2>1. /\ dip' = dip /\ res'[r].name = res[r].name /\ res'[r].finalizer = res[r].finalizer
        /\ \A q \in Resources \ {r} : res'[q] = res[q]
        /\ res[r].finalizer => res'[r].life = "deleting"
    BY <1>0, <1>7 DEF Remove, ResourceType
  <2>2. Exists(r)' \/ \A g \in Guids : g = res[r].name => ~Living(g)
    BY <1>0, <2>1, NamesAssumption DEF LivesAtHome, Exists
  <2>3. QED
    BY <1>5, <1>7, <2>1, <2>2
<1>8. QED
  BY <1>2, <1>3, <1>4, <1>6, <1>7
     DEF Next, Reconcile, Track, GetConfig, Login, Leave, CollectUsage, ConfigReconcile,
         ConfigRead, ConfigWrite, SyncUsages, CreateConfig, EditSpec, RemoveConfig,
         PutSecret, RemoveSecret, Revoke, vars

-----------------------------------------------------------------------------
(* The invariant. *)

\* Every step keeps the invariant.
LEMMA InductiveStep == Inductive /\ [Next]_vars => Inductive'
<1> SUFFICES ASSUME Inductive, [Next]_vars
             PROVE  Inductive'
  OBVIOUS
<1>1. TypeOK' /\ UsesAreTracked' /\ EarlyAreSeen' /\ WorkIsOld' /\ EarlyUsersKeepConfig'
  BY TypeStep, UsageStep, ConfigStep DEF Inductive
<1>2. SaysSomething' /\ ClientsAreWhole' /\ issued \subseteq issued'
  BY ClientStep DEF Inductive
<1>3. LivesAtHome' /\ NothingAstray'
  BY <1>2, AstrayStep
<1>4. QED
  BY <1>1, <1>2, <1>3 DEF Inductive

\* It holds at first.
LEMMA InductiveInit == Init => Inductive
<1> SUFFICES ASSUME Init
             PROVE  Inductive
  OBVIOUS
<1>1. PICK s \in Scenarios :
        /\ pc = NewConfig(1, s.spec)
        /\ secret = Present(s.secret)
        /\ issued = {s.secret.account} \ {Unset}
        /\ budget = s.budget
  BY DEF Init
<1>2. /\ s.spec \in Specs /\ s.secret \in Secrets /\ s.budget \in [Disturbances -> Nat]
      /\ s.secret.account \in Accounts \cup {Unset}
  BY ScenariosAssumption, SecretsAssumption
<1>3. /\ pc \in ConfigType /\ pc.uid = 1 /\ pc.spec = s.spec
      /\ pcWork \in ConfigType /\ pcWork.uid = 0 /\ ~pcWork.deleting
  BY <1>1, <1>2, ConfigsTyped DEF Init
<1>4. TypeOK
  <2>1. /\ step \in [Resources -> Steps] /\ held \in [Resources -> Holding]
        /\ \A r \in Resources : step[r] = "idle" /\ held[r] = Nothing
    BY NothingHeld DEF Init, Steps
  <2>2. /\ secret \in [exists : BOOLEAN, is : Secrets]
        /\ revoked \subseteq issued /\ issued \subseteq Accounts
    BY <1>1, <1>2 DEF Init, Present
  <2>3. QED
    BY <1>1, <1>2, <1>3, <2>1, <2>2 DEF Init, TypeOK, ConfigType, Holding
<1>5. SaysSomething
  BY <1>1, <1>2, <1>3 DEF SaysSomething, Present
<1>6. UsesAreTracked /\ EarlyAreSeen /\ EarlyUsersKeepConfig /\ ClientsAreWhole
  BY DEF Init, UsesAreTracked, EarlyAreSeen, EarlyUsersKeepConfig, ClientsAreWhole
<1>7. WorkIsOld
  BY <1>3 DEF WorkIsOld
<1>8. LivesAtHome /\ NothingAstray
  BY DEF Init, LivesAtHome, NothingAstray, Living
<1>9. QED
  BY <1>4, <1>5, <1>6, <1>7, <1>8 DEF Inductive

\* The invariant holds of every behaviour.
THEOREM ConnectionInvariant == Spec => []Inductive
<1>1. Init => Inductive
  BY InductiveInit
<1>2. Inductive /\ [Next]_vars => Inductive'
  BY InductiveStep
<1>3. QED
  BY <1>1, <1>2, PTL DEF Spec

\* The variables keep their types, whatever is edited, rotated and removed.
THEOREM ConnectionTyped == Spec => []TypeOK
<1>1. Inductive => TypeOK
  BY DEF Inductive
<1>2. QED
  BY <1>1, ConnectionInvariant, PTL

\* A ProviderConfig that is deleted outlives the resources that had an object
\* when its deletion was asked for, provided the informer had caught up then:
\* Track in Connect and the check for usages before the finalizer goes.
THEOREM EarlyUsersKeepConfigAlways == Spec => []EarlyUsersKeepConfig
<1>1. Inductive => EarlyUsersKeepConfig
  BY DEF Inductive
<1>2. QED
  BY <1>1, ConnectionInvariant, PTL

\* Connect never hands out a client without the service its controller calls, and
\* none that joins the region and environment of one edit with the key of another:
\* those of every client are of the installation that knows its account.
THEOREM ClientsAreWholeAlways == Spec => []ClientsAreWhole
<1>1. Inductive => ClientsAreWhole
  BY DEF Inductive
<1>2. QED
  BY <1>1, ConnectionInvariant, PTL

\* While the Secret only ever held accounts of one installation, no object is
\* lost by its resource: ConfigFromSecret, the login and Observe's reading of
\* errors are enough for that, in whatever order people edit and revoke.
THEOREM NothingAstrayAlways == Spec => []NothingAstray
<1>1. Inductive => NothingAstray
  BY DEF Inductive
<1>2. QED
  BY <1>1, ConnectionInvariant, PTL

\* Whatever key the Secret holds, of whatever length, loses nothing by being
\* formatted and is not changed by being formatted again: formatPrivateKey.
THEOREM KeysKeepTheirTextAlways == Spec => []KeysKeepTheirText
<1>1. TypeOK => KeysKeepTheirText
  <2> SUFFICES ASSUME TypeOK
               PROVE  KeysKeepTheirText
    OBVIOUS
  <2>1. secret.is \in Secrets
    BY DEF TypeOK
  <2>2. secret.is.key \in Seq(STRING) /\ secret.is.key \in StoredKeys
    BY <2>1, SecretsAssumption DEF StoredKeys
  <2>3. KeepsItsText(secret.is.key)
    BY <2>2, FormatKeepsTheText
  <2>4. QED
    BY <2>2, <2>3 DEF KeysKeepTheirText, KeepingTheirText
<1>2. QED
  BY <1>1, ConnectionTyped, PTL

\* A key of an account, in a form it may be stored in, is accepted once formatted.
LEMMA KeysAreAccepted ==
  ASSUME NEW a \in Accounts, NEW key \in KeysOf[a]
  PROVE  key \in StoredKeys /\ Formatted[key] \in Accepted[a] /\ Readable(Formatted[key])
<1>1. key \in StoredKeys /\ Text(key) = KeyOf[a] /\ (IsOneLine(key) \/ Readable(key))
  BY DEF KeysOf
<1>2. key \in Seq(STRING)
  BY <1>1, SecretsAssumption DEF StoredKeys
<1>3. Formatted[key] = formatPrivateKey(key)
  BY <1>1 DEF Formatted
<1>4. Readable(formatPrivateKey(key)) /\ Text(formatPrivateKey(key)) = Text(key)
  <2>1. CASE IsOneLine(key)
    <3>1. Readable(formatPrivateKey(key))
      BY <1>2, <2>1, FormattedHeader DEF Readable
    <3>2. Text(formatPrivateKey(key)) = key
      BY <1>2, <2>1, FormatKeepsTheText DEF KeepsItsText
    <3>3. \A i \in 1..Len(key) : key[i] # Newline
      <4> SUFFICES ASSUME NEW i \in 1..Len(key)
                   PROVE  key[i] # Newline
        OBVIOUS
      <4>1. i = 1 \/ i = Len(key) \/ i \in 2..(Len(key) - 1)
        BY <1>2
      <4>2. QED
        BY <2>1, <4>1 DEF IsOneLine, Header, Footer, Newline
    <3>4. Text(key) = key
      BY <1>2, <3>3, TextOfPlain
    <3>5. QED
      BY <3>1, <3>2, <3>4
  <2>2. CASE Readable(key)
    <3>1. 2 \in 1..Len(key) /\ key[2] = Newline
      BY <1>2, <2>2 DEF Readable
    <3>2. formatPrivateKey(key) = key
      BY <3>1 DEF formatPrivateKey, IsOneOf
    <3>3. QED
      BY <2>2, <3>2
  <2>3. QED
    BY <1>1, <2>1, <2>2
<1>5. QED
  BY <1>1, <1>3, <1>4 DEF Accepted

\* What is enough by the documentation is enough for Connect: a configuration
\* that suits a resource, with its key on one line or formatted, of any length,
\* is complete, logs in at the home of its account, and has the client that the
\* controller needs (ConfigFromSecret, NewClient).
THEOREM WhatSuitsConnectsAlways == Spec => []WhatSuitsConnects
<1>1. TypeOK => WhatSuitsConnects
  <2> SUFFICES ASSUME TypeOK, NEW r \in Resources, pc.exists, Suits(r)
               PROVE  Connects(r, FromSecret(pc.spec, secret.is))
    BY DEF WhatSuitsConnects
  <2> DEFINE s == secret.is
             c == FromSecret(pc.spec, s)
             inst == Home[s.account]
  <2>1. /\ s.account \in Accounts /\ s.account \notin revoked
        /\ s.key \in KeysOf[s.account]
        /\ ServiceOf[r] \in {"IAM"} \cup Offers[inst]
    BY DEF Suits
  <2>2. /\ \/ s.region = Place[inst].region
           \/ s.region = Unset /\ pc.spec.region = Place[inst].region
        /\ \/ s.environment = Place[inst].environment
           \/ s.environment = Unset /\ pc.spec.environment = Place[inst].environment
    BY DEF Suits
  <2>3. /\ Place[inst] = [region |-> Place[inst].region, environment |-> Place[inst].environment]
        /\ Place[inst].region # Unset /\ Place[inst].environment # Unset
    BY <2>1, AccountsAssumption, InstallationsAssumption
  <2>4. s.account # Unset
    BY <2>1, AccountsAssumption
  <2>5. Formatted[s.key] \in Accepted[s.account] /\ Readable(Formatted[s.key])
    BY <2>1, KeysAreAccepted
  <2>6. /\ c.region = Place[inst].region /\ c.environment = Place[inst].environment
        /\ c.account = s.account /\ c.key = Formatted[s.key]
    BY <2>2, <2>3 DEF FromSecret, Or
  <2> HIDE DEF c
  <2>7. Formatted[s.key] # <<>>
    BY <2>5 DEF Readable
  <2>8. Complete(c)
    BY <2>3, <2>4, <2>6, <2>7 DEF Complete
  <2>9. LoggedIn(c)
    BY <2>1, <2>3, <2>5, <2>6 DEF LoggedIn, Configured
  <2>10. ServiceOf[r] \in Clients(c)
    <3>1. inst \in {j \in Installations : Place[j] = Configured(c)}
      BY <2>1, <2>3, <2>6, AccountsAssumption DEF Configured
    <3>2. QED
      BY <2>1, <3>1 DEF Clients
  <2>11. QED
    BY <2>8, <2>9, <2>10 DEF Connects, c
<1>2. QED
  BY <1>1, ConnectionTyped, PTL
=============================================================================
