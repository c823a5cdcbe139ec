------------------------------ MODULE Platform ------------------------------
(***************************************************************************)
(* What stands beside the jobs: grants of connected applications,          *)
(* membership, sign-in, what a restore brings back, the registry of        *)
(* runners, reminders, webhooks, and the report on one file; and what is   *)
(* kept and shown: packages of evidence, reports and their readers, the    *)
(* dashboard, an old installation that is moved.  They write               *)
(* disjoint rows and files and share no memory, so a step of one commutes  *)
(* with every step of another: they are explored one in each part of the   *)
(* state space, with the others at rest.                                   *)
(***************************************************************************)
EXTENDS OAuthGrants, Members, SignIn, RestoreReconcile,
        TenantRegistry, Reminder, WebhookDelivery, ClientFile,
        UkscHistory, ReportReads, DataHealth, RuntimeMigration

VARIABLE part   \* the module that moves

accessVars == <<oauthVars, memberVars, signInVars, restoreVars>>
serviceVars == <<tenantVars, reminderVars, webhookVars, fileVars>>
recordVars == <<evidenceVars, reportVars, healthVars, migrationVars>>
platformVars == <<part, accessVars, serviceVars, recordVars>>

Parts == {"grants", "members", "sign_in", "restore", "registry", "reminder", "webhooks",
          "file", "evidence", "reports", "health", "migration"}

\* What a module starts with where it is at rest.
MembersAtRest == org = "founded" /\ keys = [m \in Makers |-> 0]
RestoreAtRest ==
    cur = [org |-> TRUE, user |-> People, role |-> [p \in People |-> "owner"],
           row |-> [r \in Rows |-> "absent"]] /\ pre = cur
ReminderAtRest == plan = [on |-> FALSE, phase |-> CHOOSE p \in Phases : TRUE, next |-> Never]
WebhooksAtRest == process = [paused |-> TRUE, key |-> NoKey]
FileAtRest == file = CHOOSE f \in Files : TRUE
HealthAtRest ==
    /\ zone = (CHOOSE z \in TimeZones : TRUE) /\ asked = (CHOOSE t \in Nows : TRUE)
    /\ setting = (CHOOSE s \in Situations : TRUE) /\ events = {}
MigrationAtRest == given = {} /\ target = [t \in Items |-> "none"]

PlatformInit ==
    /\ part \in Parts
    /\ part = "members" \/ MembersAtRest
    /\ OAuthInit /\ MembersInit /\ SignInInit /\ TenantInit
    /\ part = "restore" \/ RestoreAtRest
    /\ part = "reminder" \/ ReminderAtRest
    /\ part = "webhooks" \/ WebhooksAtRest
    /\ part = "file" \/ FileAtRest
    /\ RestoreInit /\ ReminderInit /\ WebhookInit /\ ClientFileInit
    /\ EvidenceInit /\ ReportInit
    /\ part = "health" \/ HealthAtRest
    /\ part = "migration" \/ MigrationAtRest
    /\ HealthInit /\ MigrationInit

AccessNext ==
    \/ part = "grants" /\ OAuthNext /\ UNCHANGED <<memberVars, signInVars, restoreVars>>
    \/ part = "members" /\ MembersNext /\ UNCHANGED <<oauthVars, signInVars, restoreVars>>
    \/ part = "sign_in" /\ SignInNext /\ UNCHANGED <<oauthVars, memberVars, restoreVars>>
    \/ part = "restore" /\ RestoreNext /\ UNCHANGED <<oauthVars, memberVars, signInVars>>

ServiceNext ==
    \/ part = "registry" /\ TenantNext /\ UNCHANGED <<reminderVars, webhookVars, fileVars>>
    \/ part = "reminder" /\ ReminderNext /\ UNCHANGED <<tenantVars, webhookVars, fileVars>>
    \/ part = "webhooks" /\ WebhookNext /\ UNCHANGED <<tenantVars, reminderVars, fileVars>>
    \/ part = "file" /\ ClientFileNext /\ UNCHANGED <<tenantVars, reminderVars, webhookVars>>

RecordNext ==
    \/ part = "evidence" /\ EvidenceNext /\ UNCHANGED <<reportVars, healthVars, migrationVars>>
    \/ part = "reports" /\ ReportNext /\ UNCHANGED <<evidenceVars, healthVars, migrationVars>>
    \/ part = "health" /\ HealthNext /\ UNCHANGED <<evidenceVars, reportVars, migrationVars>>
    \/ part = "migration" /\ MigrationNext /\ UNCHANGED <<evidenceVars, reportVars, healthVars>>

PlatformNext ==
    /\ UNCHANGED part
    /\ \/ AccessNext /\ UNCHANGED <<serviceVars, recordVars>>
       \/ ServiceNext /\ UNCHANGED <<accessVars, recordVars>>
       \/ RecordNext /\ UNCHANGED <<accessVars, serviceVars>>

PlatformSpec == PlatformInit /\ [][PlatformNext]_platformVars

PlatformTypeOK ==
    /\ OAuthTypeOK /\ MembersTypeOK /\ SignInTypeOK /\ RestoreTypeOK
    /\ TenantTypeOK /\ ReminderTypeOK /\ WebhookTypeOK /\ ClientFileTypeOK
    /\ EvidenceTypeOK /\ ReportTypeOK /\ HealthTypeOK /\ MigrationTypeOK
=============================================================================
