------------------------------ MODULE Tenancy ------------------------------
(***************************************************************************)
(* On whose behalf a request runs and which jobs it may see: the tenant    *)
(* its headers select among the memberships of its caller, the roles that  *)
(* count there and the scope of its reads (plugins/auth.ts), and what the  *)
(* stores let through for a scope (visible, scopeWhere).                   *)
(*                                                                         *)
(* A membership is [role, organization, provider], either of which may be  *)
(* NoTenant; a job is [organization, holders], the providers that have or  *)
(* had an assignment on it.                                                *)
(***************************************************************************)
EXTENDS FiniteSets, Naturals

CONSTANT
  NoTenant   \* null: no organisation, no provider; no header

CustomerRoles == {"CUSTOMER_ADMIN", "CUSTOMER_MEMBER"}
ProviderRoles == {"PROVIDER_ADMIN", "PROVIDER_DRIVER"}
StaffRoles    == {"DISPATCHER", "COMPLIANCE", "ADMIN"}
UserRoles     == CustomerRoles \cup ProviderRoles \cup StaffRoles

-------------------------------------------------------------------------------
(* The tenant *)

Organizations(memberships) == {m.organization : m \in memberships} \ {NoTenant}
ProvidersOf(memberships)   == {m.provider : m \in memberships} \ {NoTenant}

\* resolveOrganization and resolveProvider: a header selects among what the
\* caller holds; without one, a caller who holds several must say which.
Resolves(held, requested) ==
  IF requested # NoTenant THEN requested \in held ELSE Cardinality(held) <= 1

Resolved(held, requested) ==
  IF requested # NoTenant THEN requested
  ELSE IF held = {} THEN NoTenant ELSE CHOOSE tenant \in held : TRUE

-------------------------------------------------------------------------------
(* Roles and scope: buildAuthContext *)

\* The memberships that count: a staff role counts everywhere, any other in
\* the tenant the request runs in.
Counts(m, organization, provider) ==
  \/ m.role \in StaffRoles
  \/ m.organization # NoTenant /\ m.organization = organization
  \/ m.provider # NoTenant /\ m.provider = provider

Roles(memberships, organization, provider) ==
  {m.role : m \in {n \in memberships : Counts(n, organization, provider)}}

Scope(memberships, organization, provider) ==
  IF Roles(memberships, organization, provider) \cap StaffRoles # {}
  THEN [kind |-> "staff", tenant |-> NoTenant]
  ELSE IF organization # NoTenant THEN [kind |-> "organization", tenant |-> organization]
  ELSE IF provider # NoTenant THEN [kind |-> "provider", tenant |-> provider]
  ELSE [kind |-> "organization", tenant |-> NoTenant]

ProviderScope(provider) == [kind |-> "provider", tenant |-> provider]

\* visible and scopeWhere: what a scope lets through.
InScope(job, scope) ==
  \/ scope.kind = "staff"
  \/ scope.kind = "organization" /\ job.organization = scope.tenant
  \/ scope.kind = "provider" /\ scope.tenant \in job.holders

\* requireProvider: acting for a provider, with one of its roles.
ActsForProvider(memberships, organization, provider) ==
  /\ provider # NoTenant
  /\ Roles(memberships, organization, provider) \cap ProviderRoles # {}
=============================================================================
