------------------------------ MODULE DipKinds ------------------------------
(***************************************************************************)
(* The seventeen managed resource kinds of the provider.  Their            *)
(* controllers share one skeleton (module ManagedResource) and differ only *)
(* in data, and that data is written down here, one definition per source  *)
(* file:                                                                   *)
(*                                                                         *)
(*   XSchema  the ForProvider struct of the kind: its parameters, which of *)
(*            them may be left unset (pointers and slices), which a CEL    *)
(*            rule keeps from changing, which point at a Secret.  A        *)
(*            parameter filled by a cross-resource reference (the          *)
(*            ...Ref and ...Selector siblings) is listed once, by the      *)
(*            field the reference resolves into.                           *)
(*   X        the controller of the kind: which parameters isUpToDate      *)
(*            compares, which Create and Update put in their request, if   *)
(*            Delete calls DIP, and which connection details Create        *)
(*            returns.                                                     *)
(*                                                                         *)
(* A set written for a field of the struct uses the field's Go name.       *)
(***************************************************************************)
EXTENDS FiniteSets

Schema(required, optional, frozen, secrets) ==
  [parameters |-> required \cup optional, optional |-> optional,
   frozen |-> frozen, secrets |-> secrets]

Controller(name, schema, compares, creates, updates, deletes, publishes) ==
  [name |-> name, fields |-> schema.parameters, optional |-> schema.optional,
   frozen |-> schema.frozen, secrets |-> schema.secrets \cap creates,
   compares |-> compares, creates |-> creates, updates |-> updates,
   deletes |-> deletes, publishes |-> publishes]

(************************************ IAM **********************************)

OrganizationSchema ==
  Schema({"Name"}, {"DisplayName", "Description", "ParentOrgID", "Type", "ExternalID"},
         {"Name"}, {})

Organization ==
  Controller("Organization", OrganizationSchema,
             {"Name", "Description", "DisplayName"},
             OrganizationSchema.parameters,
             {"Name", "Description", "DisplayName"}, TRUE, {})

GroupSchema ==
  Schema({"Name"}, {"Description", "ManagingOrganizationID"}, {"Name"}, {})

Group ==
  Controller("Group", GroupSchema, {"Name", "Description"},
             GroupSchema.parameters, {"Name", "Description"}, TRUE, {})

RoleSchema ==
  Schema({"Name"}, {"Description", "ManagingOrganizationID", "Permissions"}, {"Name"}, {})

\* Update sends nothing; Permissions are never read.
Role ==
  Controller("Role", RoleSchema, {"Name", "Description"},
             {"Name", "Description", "ManagingOrganizationID"}, {}, TRUE, {})

PropositionSchema ==
  Schema({"Name", "GlobalReferenceID"}, {"Description", "OrganizationID"},
         {"Name", "GlobalReferenceID"}, {})

Proposition ==
  Controller("Proposition", PropositionSchema, {"Name", "Description"},
             PropositionSchema.parameters, {}, TRUE, {})

ApplicationSchema ==
  Schema({"Name", "GlobalReferenceID"}, {"Description", "PropositionID"},
         {"Name", "GlobalReferenceID"}, {})

Application ==
  Controller("Application", ApplicationSchema, {"Name", "Description"},
             ApplicationSchema.parameters, {}, TRUE, {})

ClientSchema ==
  Schema({"Name", "Type", "ClientID", "PasswordSecretRef", "Description",
          "GlobalReferenceID"},
         {"ApplicationID", "RedirectionURIs", "ResponseTypes", "Scopes",
          "DefaultScopes", "ConsentImplied", "AccessTokenLifetime",
          "RefreshTokenLifetime", "IDTokenLifetime"},
         {"Name", "Type", "ClientID", "GlobalReferenceID"},
         {"PasswordSecretRef"})

Client ==
  Controller("Client", ClientSchema, {"Name", "Description"},
             ClientSchema.parameters,
             ClientSchema.parameters \ {"Type", "ClientID", "PasswordSecretRef"},
             TRUE, {})

ServiceSchema ==
  Schema({"Name"},
         {"Description", "ApplicationID", "PrivateKeySecretRef", "Scopes",
          "DefaultScopes", "AccessTokenLifetime", "RefreshTokenLifetime",
          "TokenEndpointAuthMethod"},
         {"Name"}, {"PrivateKeySecretRef"})

ServiceRequest ==
  {"Name", "Description", "ApplicationID", "Scopes", "DefaultScopes",
   "AccessTokenLifetime"}

Service ==
  Controller("Service", ServiceSchema, {"Name", "Description"},
             ServiceRequest, ServiceRequest, TRUE,
             {"serviceId", "privateKey", "organizationId", "expiresOn"})

UserSchema ==
  Schema({"LoginID", "Email"},
         {"FirstName", "LastName", "OrganizationID", "PreferredLanguage",
          "PreferredCommunicationChannel", "IsAgeValidated", "PasswordSecretRef"},
         {"LoginID"}, {"PasswordSecretRef"})

User ==
  Controller("User", UserSchema, {"LoginID", "Email", "FirstName", "LastName"},
             UserSchema.parameters \ {"PasswordSecretRef"}, {}, TRUE, {})

EmailTemplateSchema ==
  Schema({"Type"},
         {"ManagingOrganizationID", "Format", "Locale", "Subject", "From",
          "Message", "Link"},
         {"Type"}, {})

EmailTemplate ==
  Controller("EmailTemplate", EmailTemplateSchema, {"Type", "Subject", "Message"},
             EmailTemplateSchema.parameters, {}, TRUE, {})

PasswordPolicySchema ==
  Schema({},
         {"ManagingOrganizationID", "ExpiryPeriodInDays", "HistoryCount",
          "MinLength", "MaxLength", "MinLowercase", "MinUppercase", "MinNumeric",
          "MinSpecialChars", "ChallengesEnabled", "ChallengePolicy",
          "ChallengePolicy.MinAnswerLength"},
         {}, {})

PasswordComplexity ==
  {"MinLength", "MaxLength", "MinLowercase", "MinUppercase", "MinNumeric",
   "MinSpecialChars"}

PolicyFields ==
  PasswordComplexity \cup
  {"ManagingOrganizationID", "ExpiryPeriodInDays", "HistoryCount",
   "ChallengesEnabled", "ChallengePolicy"}

PasswordPolicy ==
  Controller("PasswordPolicy", PasswordPolicySchema, PasswordComplexity,
             PolicyFields, PolicyFields, TRUE, {})

(************************************ MDM **********************************)

MDMPropositionSchema ==
  Schema({"Name", "OrganizationID", "GlobalReferenceID"},
         {"Description", "PropositionGUID", "Status"}, {}, {})

\* Delete returns success without calling DIP.
MDMProposition ==
  Controller("MDMProposition", MDMPropositionSchema, {"Name", "Description"},
             MDMPropositionSchema.parameters, MDMPropositionSchema.parameters,
             FALSE, {})

MDMApplicationSchema ==
  Schema({"Name", "GlobalReferenceID"},
         {"Description", "PropositionID", "ApplicationGUID", "DefaultGroupGUID"}, {}, {})

\* Delete returns success without calling DIP.
MDMApplication ==
  Controller("MDMApplication", MDMApplicationSchema, {"Name", "Description"},
             MDMApplicationSchema.parameters, MDMApplicationSchema.parameters,
             FALSE, {})

StandardServiceSchema ==
  Schema({"Name", "Tags", "ServiceURLs"},
         {"Description", "Trusted", "OrganizationID"}, {}, {})

StandardService ==
  Controller("StandardService", StandardServiceSchema, {"Name", "Description"},
             StandardServiceSchema.parameters, StandardServiceSchema.parameters,
             TRUE, {})

DeviceGroupSchema ==
  Schema({"Name"}, {"Description", "ApplicationID", "DefaultGroupGUID"}, {}, {})

DeviceGroup ==
  Controller("DeviceGroup", DeviceGroupSchema, {"Name", "Description"},
             DeviceGroupSchema.parameters, DeviceGroupSchema.parameters, TRUE, {})

DeviceTypeSchema ==
  Schema({"Name", "CTN"},
         {"Description", "DeviceGroupID", "DefaultGroupGUID", "CustomTypeAttributes"},
         {}, {})

DeviceType ==
  Controller("DeviceType", DeviceTypeSchema, {"Name", "Description", "CTN"},
             DeviceTypeSchema.parameters, DeviceTypeSchema.parameters, TRUE, {})

AuthenticationMethodSchema ==
  Schema({"Name", "LoginName", "PasswordSecretRef", "ClientID", "ClientSecretRef"},
         {"Description", "AuthURL", "AuthMethod", "APIVersion", "OrganizationID"},
         {}, {"PasswordSecretRef", "ClientSecretRef"})

AuthenticationMethod ==
  Controller("AuthenticationMethod", AuthenticationMethodSchema,
             {"Name", "Description", "LoginName", "ClientID"},
             AuthenticationMethodSchema.parameters,
             AuthenticationMethodSchema.parameters, TRUE, {})

(******************************** Provisioning *****************************)

OrgConfigurationSchema ==
  Schema({"OrganizationID", "ServiceAccountID", "ServiceAccountKeySecretRef",
          "PublicKeySecretRef", "Algorithm"},
         {"Config.Type", "Config.Padding", "Config.SaltLength"},
         {}, {"ServiceAccountKeySecretRef", "PublicKeySecretRef"})

OrgConfiguration ==
  Controller("OrgConfiguration", OrgConfigurationSchema,
             {"OrganizationID", "ServiceAccountID", "Algorithm"},
             OrgConfigurationSchema.parameters, OrgConfigurationSchema.parameters,
             TRUE, {})

(***************************************************************************)
(* What SetupGated registers, besides the ProviderConfig controller.       *)
(***************************************************************************)
AllKinds ==
  {Organization, Group, Role, Proposition, Application, Client, Service, User,
   EmailTemplate, PasswordPolicy, MDMProposition, MDMApplication,
   StandardService, DeviceGroup, DeviceType, AuthenticationMethod,
   OrgConfiguration}
=============================================================================
