---------------------------- MODULE DipConnections ----------------------------
(***************************************************************************)
(* How the controller of each kind reaches DIP and what its resources      *)
(* refer to.  The control flow is the same for all of them (modules        *)
(* Connection and ReferenceChain); what differs is written down here, one  *)
(* definition per source file:                                             *)
(*                                                                         *)
(*   XExternal   Connect and Observe: the DIP client that is called, and   *)
(*               that Connect therefore insists on; the statuses of the    *)
(*               GET by external name that mean the object is absent; and  *)
(*               if the external client is handed the Kubernetes client,   *)
(*               to read Secrets with.                                     *)
(*   XReference  ResolveReferences: the parameter that is filled and the   *)
(*               kind its reference or selector points at.                 *)
(***************************************************************************)
EXTENDS DipKinds

\* IsNotFoundOrInvalidID
NotFoundOrInvalidID == {400, 404}

External(of, client, absent, readsSecrets) ==
  [of |-> of, client |-> client, absent |-> absent, readsSecrets |-> readsSecrets]

(************************************ IAM **********************************)
\* Every region has IAM: Connect checks nothing.

OrganizationExternal   == External(Organization, "IAM", NotFoundOrInvalidID, FALSE)
GroupExternal          == External(Group, "IAM", NotFoundOrInvalidID, FALSE)
RoleExternal           == External(Role, "IAM", NotFoundOrInvalidID, FALSE)
PropositionExternal    == External(Proposition, "IAM", NotFoundOrInvalidID, FALSE)
ApplicationExternal    == External(Application, "IAM", NotFoundOrInvalidID, FALSE)
ClientExternal         == External(Client, "IAM", NotFoundOrInvalidID, TRUE)
ServiceExternal        == External(Service, "IAM", NotFoundOrInvalidID, FALSE)
UserExternal           == External(User, "IAM", NotFoundOrInvalidID, FALSE)
EmailTemplateExternal  == External(EmailTemplate, "IAM", NotFoundOrInvalidID, FALSE)
PasswordPolicyExternal == External(PasswordPolicy, "IAM", NotFoundOrInvalidID, FALSE)

(*************************** MDM and Provisioning **************************)
\* Connect refuses to go on without the client.

MDMPropositionExternal  == External(MDMProposition, "MDM", NotFoundOrInvalidID, FALSE)
MDMApplicationExternal  == External(MDMApplication, "MDM", NotFoundOrInvalidID, FALSE)
StandardServiceExternal == External(StandardService, "MDM", NotFoundOrInvalidID, FALSE)
DeviceGroupExternal     == External(DeviceGroup, "MDM", NotFoundOrInvalidID, FALSE)
DeviceTypeExternal      == External(DeviceType, "MDM", NotFoundOrInvalidID, FALSE)
AuthenticationMethodExternal ==
  External(AuthenticationMethod, "MDM", NotFoundOrInvalidID, TRUE)
OrgConfigurationExternal ==
  External(OrgConfiguration, "Provisioning", NotFoundOrInvalidID, TRUE)

AllExternals ==
  {OrganizationExternal, GroupExternal, RoleExternal, PropositionExternal,
   ApplicationExternal, ClientExternal, ServiceExternal, UserExternal,
   EmailTemplateExternal, PasswordPolicyExternal, MDMPropositionExternal,
   MDMApplicationExternal, StandardServiceExternal, DeviceGroupExternal,
   DeviceTypeExternal, AuthenticationMethodExternal, OrgConfigurationExternal}

(******************************** References *******************************)

Reference(of, field, to) == [of |-> of, field |-> field, to |-> to]

OrganizationReference   == Reference(Organization, "ParentOrgID", Organization)
GroupReference          == Reference(Group, "ManagingOrganizationID", Organization)
RoleReference           == Reference(Role, "ManagingOrganizationID", Organization)
UserReference           == Reference(User, "OrganizationID", Organization)
EmailTemplateReference  == Reference(EmailTemplate, "ManagingOrganizationID", Organization)
PasswordPolicyReference == Reference(PasswordPolicy, "ManagingOrganizationID", Organization)
PropositionReference    == Reference(Proposition, "OrganizationID", Organization)
ApplicationReference    == Reference(Application, "PropositionID", Proposition)
ClientReference         == Reference(Client, "ApplicationID", Application)
ServiceReference        == Reference(Service, "ApplicationID", Application)

MDMApplicationReference == Reference(MDMApplication, "PropositionID", MDMProposition)
DeviceGroupReference    == Reference(DeviceGroup, "ApplicationID", MDMApplication)
DeviceTypeReference     == Reference(DeviceType, "DeviceGroupID", DeviceGroup)
\* One for every element of ServiceURLs.
StandardServiceReference ==
  Reference(StandardService, "ServiceURLs", AuthenticationMethod)

AllReferences ==
  {OrganizationReference, GroupReference, RoleReference, UserReference,
   EmailTemplateReference, PasswordPolicyReference, PropositionReference,
   ApplicationReference, ClientReference, ServiceReference,
   MDMApplicationReference, DeviceGroupReference, DeviceTypeReference,
   StandardServiceReference}
=============================================================================
