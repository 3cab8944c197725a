------------------------------ MODULE FrontDoor -----------------------------
(***************************************************************************)
(* The requests of people and agents who have an account, from the door to *)
(* the answer: REST (app/api/v2), MCP (mcp/server) and the web.            *)
(*                                                                         *)
(* A request is let in - by a token whose key TokenTrust looks up, or by a *)
(* web session - is given a principal by AccountAccess, and then does what *)
(* it asks for, one await after the other, while keys are rotated, the     *)
(* runner of RunnerHealth breaks down and the tenant is deleted.  A start  *)
(* resolves its source first and is admitted before it may reserve a case. *)
(***************************************************************************)
EXTENDS TokenTrust, RunnerHealth, AccountAccess

CONSTANTS
    Requests,  \* what may be asked: see RequestShape
    FlagSets,  \* values of the feature flags
    NoRequest

VARIABLES
    services, \* the services of the process: made on first use, once
    flags,    \* feature flags, fixed for the process
    calls     \* [Callers -> the request under way]

doorOnlyVars == <<services, flags, calls>>
doorVars == <<trustVars, runnerVars, accountVars, doorOnlyVars>>

\* Reads of one case differ in their scope only; "health" needs no account.
Reads == {"list", "read", "bundle"}
Kinds == Reads \cup {"start", "cancel", "account export", "account deletion", "health"}

RequestShape ==
    [route : {"rest", "mcp", "web"}, kind : Kinds, subject : Subjects,
     token : {"good", "narrow", "foreign", "expired", "malformed", "none"},
     key : ExportKeys \cup {"start"}, command : {1, 2}]

ASSUME DoorAssumption ==
    /\ Requests \subseteq RequestShape
    /\ Askers = Callers
    /\ Probes = {"health", "admission"}
    /\ FlagSets \subseteq {"none", "starts", "private", "profile"}

\* The awaits of the handlers, and what they answer.
Stages == {"idle", "services", "session", "token", "verifying", "principal", "source",
           "lookup", "flags", "runner", "reserve", "publish", "operate", "consume",
           "archive", "audit", "health", "answered"}

Refusals == {"AUTHENTICATION_REQUIRED", "INSUFFICIENT_SCOPE", "AUTHORIZATION_UNAVAILABLE",
             "UNAVAILABLE", "INTERNAL_ERROR", "NOT_FOUND", "IDEMPOTENCY_CONFLICT",
             "REPOSITORY_STARTS_DISABLED", "PRIVATE_REPOSITORIES_DISABLED",
             "EXECUTION_PROFILE_DISABLED", "RUNNER_UNAVAILABLE", "BUNDLE_NOT_READY",
             "EXPORT_QUOTA_EXCEEDED", "unavailable"}
Answers == Refusals \cup {"none", "created", "reused", "found", "scheduled", "exported", "ready"}

Call == [stage : Stages, request : Requests \cup {NoRequest}, answer : Answers,
         private : BOOLEAN, created : BOOLEAN, day : 0..MaxDays]

\* A call of which nothing is known but the request, and perhaps the answer.
CallAt(stage, request, answer) ==
    [stage |-> stage, request |-> request, answer |-> answer,
     private |-> FALSE, created |-> FALSE, day |-> 0]

NoCall == CallAt("idle", NoRequest, "none")

DoorTypeOK ==
    /\ TrustTypeOK /\ RunnerTypeOK /\ AccountTypeOK
    /\ services \in {"unset", "ready", "rejected"}
    /\ flags \in FlagSets
    /\ calls \in [Callers -> Call]

DoorInit ==
    /\ TrustInit /\ RunnerInit /\ AccountInit
    /\ services = "unset"
    /\ flags \in FlagSets
    /\ calls = [c \in Callers |-> NoCall]

----------------------------------------------------------------------------
Asked(c) == calls[c].request
At(c, stage) == calls[c].stage = stage

To(c, stage) == calls' = [calls EXCEPT ![c].stage = stage]

\* The answer, as its code, which the web shows as one word only; what the call has
\* read is forgotten.
Answer(c, code) ==
    calls' = [calls EXCEPT ![c] = CallAt("answered", Asked(c), code)]

Elsewhere == UNCHANGED <<trustVars, runnerVars, accountVars, services, flags>>

Begin(c, r) ==
    /\ At(c, "idle") /\ r \in Requests
    /\ IF r.kind = "health"
       THEN /\ Check(c, "health")
            /\ calls' = [calls EXCEPT ![c] = CallAt("health", r, "none")]
            /\ UNCHANGED <<trustVars, accountVars, services, flags>>
       ELSE /\ calls' = [calls EXCEPT ![c] = CallAt("services", r, "none")]
            /\ Elsewhere

Forget(c) == At(c, "answered") /\ calls' = [calls EXCEPT ![c] = NoCall] /\ Elsewhere

\* createGitHubServiceRegistry keeps the promise, also one that was rejected.
MakeServices ==
    /\ services = "unset"
    /\ \E c \in Callers : At(c, "services")
    /\ services' \in {"ready", "rejected"}
    /\ UNCHANGED <<trustVars, runnerVars, accountVars, flags, calls>>

\* Without services MCP has no authorization, and then asks the trusted sample service
\* for the case; oauthConfigUnavailable throws for the other tools.
ServicesDown(r) ==
    CASE r.route = "rest" -> "AUTHORIZATION_UNAVAILABLE"
      [] r.route = "mcp" /\ r.kind \in {"read", "bundle"} -> "NOT_FOUND"
      [] r.route = "mcp" /\ r.kind \notin {"read", "bundle"} -> "INTERNAL_ERROR"
      [] OTHER -> "UNAVAILABLE"

SignedOut(r) == r.route = "web" /\ r.token = "none"

\* The account routes look at the session before they ask for the services.
ServicesResolved(c) ==
    /\ At(c, "services") /\ services # "unset"
    /\ CASE SignedOut(Asked(c)) /\ (services = "ready" \/ Asked(c).kind # "start") ->
                Answer(c, "AUTHENTICATION_REQUIRED")
         [] ~SignedOut(Asked(c)) /\ services = "ready" ->
                To(c, IF Asked(c).route = "web" THEN "session" ELSE "token")
         [] OTHER -> Answer(c, ServicesDown(Asked(c)))
    /\ Elsewhere

----------------------------------------------------------------------------
(* Authorization.                                                          *)

\* denied of the REST authorizer.
RestDenial(reason) ==
    CASE reason = "insufficient" -> "INSUFFICIENT_SCOPE"
      [] reason = "unavailable" -> "AUTHORIZATION_UNAVAILABLE"
      [] reason = "invalid" -> "AUTHENTICATION_REQUIRED"

\* authenticationError of the MCP server: unavailable or not, link your account.
McpDenial(reason) ==
    IF reason = "insufficient" THEN "INSUFFICIENT_SCOPE" ELSE "AUTHENTICATION_REQUIRED"

Denial(r, reason) == IF r.route = "rest" THEN RestDenial(reason) ELSE McpDenial(reason)

\* verify: without a well-formed bearer token no key is looked for.
PresentToken(c) ==
    /\ At(c, "token")
    /\ IF Asked(c).token \in {"none", "malformed"}
       THEN Answer(c, Denial(Asked(c), "invalid")) /\ UNCHANGED trustVars
       ELSE To(c, "verifying") /\ \E k \in Keys : BeginVerification(c, k)
    /\ UNCHANGED <<runnerVars, accountVars, services, flags>>

\* jwtVerify and toVerifiedIdentity judge the claims when the key is found.
Verified(c) ==
    /\ At(c, "verifying")
    /\ ~Asking(c)
    /\ CASE verifications[c].pc = "trusted" /\ Asked(c).token # "expired" ->
                To(c, "principal")
         [] verifications[c].pc = "unavailable" -> Answer(c, Denial(Asked(c), "unavailable"))
         [] OTHER -> Answer(c, Denial(Asked(c), "invalid"))
    /\ verifications' = [verifications EXCEPT ![c] = NoVerification]
    /\ UNCHANGED <<published, retired, cached, runnerVars, accountVars, services, flags>>

FirstStage(r) ==
    CASE r.kind = "start" -> "source"
      [] r.kind = "account export" -> "consume"
      [] OTHER -> "operate"

\* Where the work of the request begins: exportAccountData notes the day.
Admit(c) ==
    calls' = [calls EXCEPT ![c] = [@ EXCEPT !.stage = FirstStage(Asked(c)), !.day = today]]

ReadPrincipal(c) ==
    /\ At(c, "principal")
    /\ \/ /\ Linked(Asked(c).subject, Asked(c).token # "foreign")
          /\ IF Asked(c).token = "narrow" THEN Answer(c, Denial(Asked(c), "insufficient"))
                                          ELSE Admit(c)
       \/ /\ ~Linked(Asked(c).subject, Asked(c).token # "foreign")
          /\ Answer(c, Denial(Asked(c), "invalid"))
       \/ Answer(c, Denial(Asked(c), "unavailable"))
    /\ Elsewhere

OpenSession(c) ==
    /\ At(c, "session")
    /\ \/ LogIn(Asked(c).subject) /\ Admit(c)
       \/ Answer(c, "UNAVAILABLE") /\ UNCHANGED accountVars
    /\ UNCHANGED <<trustVars, runnerVars, services, flags>>

----------------------------------------------------------------------------
(* startRepositoryReproduction.                                            *)

\* The provider authorizes the source against GitHub (GitHubAuthorization).
ResolveSource(c) ==
    /\ At(c, "source")
    /\ \/ \E private \in BOOLEAN :
             calls' = [calls EXCEPT ![c] = [@ EXCEPT !.stage = "lookup", !.private = private]]
       \/ \E code \in {"NOT_FOUND", "INTERNAL_ERROR"} : Answer(c, code)
    /\ Elsewhere

\* The hash covers the request and the repository as GitHub shows it now.
CommandOf(c) == <<Asked(c).key, Asked(c).command, calls[c].private>>

\* What a case found under the key means for the start.
Reuse(c) ==
    IF CommandOf(c) \in cases
    THEN \/ calls' = [calls EXCEPT ![c] = [@ EXCEPT !.stage = "publish", !.created = FALSE]]
         \/ Answer(c, "reused")  \* the job has ended
    ELSE Answer(c, "IDEMPOTENCY_CONFLICT")

KeyTaken(c) == \E row \in cases : row[1] = Asked(c).key

LookUp(c) ==
    /\ At(c, "lookup")
    /\ IF KeyTaken(c) THEN Reuse(c) ELSE To(c, "flags")
    /\ Elsewhere

\* FeatureFlagRepositoryStartAdmission.denialCode.
FlagDenial(c) ==
    CASE flags = "starts" -> "REPOSITORY_STARTS_DISABLED"
      [] flags = "private" /\ calls[c].private -> "PRIVATE_REPOSITORIES_DISABLED"
      [] flags = "profile" -> "EXECUTION_PROFILE_DISABLED"
      [] OTHER -> "none"

\* The first admission of the chain, and the beginning of the second.
CheckFlags(c) ==
    /\ At(c, "flags")
    /\ IF FlagDenial(c) # "none"
       THEN Answer(c, FlagDenial(c)) /\ UNCHANGED runnerVars
       ELSE To(c, "runner") /\ Check(c, "admission")
    /\ UNCHANGED <<trustVars, accountVars, services, flags>>

\* SandboxRunnerStartAdmission.assertAllowed: anything but "ready" is a refusal.
CheckRunner(c) ==
    /\ At(c, "runner")
    /\ checks[c].pc \in {"ready", "unavailable"}
    /\ IF checks[c].pc = "ready" THEN To(c, "reserve") ELSE Answer(c, "RUNNER_UNAVAILABLE")
    /\ CheckUsed(c)
    /\ UNCHANGED <<runner, probes, findings, trustVars, accountVars, services, flags>>

\* reserveDurableStart: the transaction may find a case that was reserved meanwhile,
\* may fail, and does not commit for a tenant that is no longer ACTIVE.
Reserve(c) ==
    /\ At(c, "reserve")
    /\ \/ /\ MayReserve /\ KeyTaken(c)
          /\ Reuse(c)
          /\ UNCHANGED accountVars
       \/ /\ ~KeyTaken(c) /\ ReserveCase(CommandOf(c))
          /\ calls' = [calls EXCEPT ![c] = [@ EXCEPT !.stage = "publish", !.created = TRUE]]
       \/ Answer(c, "INTERNAL_ERROR") /\ UNCHANGED accountVars
    /\ UNCHANGED <<trustVars, runnerVars, services, flags>>

\* publishAndMaybeConsume in queued mode: a batch that failed in part, or in which the
\* event of a new case was not delivered because another publisher had it, is an error
\* although the case stays; else the record is read again.
Publish(c) ==
    /\ At(c, "publish")
    /\ \/ Answer(c, "INTERNAL_ERROR")
       \/ Answer(c, IF CommandOf(c) \notin cases THEN "NOT_FOUND"
                    ELSE IF calls[c].created THEN "created" ELSE "reused")
    /\ Elsewhere
----------------------------------------------------------------------------
(* The other requests.                                                     *)

\* The repositories are listed from the installation's rows (GitHubAuthorization).
ListRepositories(c) ==
    /\ Asked(c).kind = "list"
    /\ \E code \in {"found", "INTERNAL_ERROR"} : Answer(c, code)
    /\ UNCHANGED accountVars

\* Rows are looked up in the principal's tenant, which may be deleted by now; whether
\* the one asked for is there is left open.
Lookups == {"NOT_FOUND"} \cup (IF cases = {} THEN {} ELSE {"found"})

ReadCase(c) ==
    /\ Asked(c).kind = "read"
    /\ \E code \in Lookups : Answer(c, code)
    /\ UNCHANGED accountVars

\* A case without a stored bundle that equals the proof's has none to export.
ExportBundle(c) ==
    /\ Asked(c).kind = "bundle"
    /\ \E code \in Lookups \cup (IF cases = {} THEN {} ELSE {"BUNDLE_NOT_READY"}) : Answer(c, code)
    /\ UNCHANGED accountVars

\* What a cancellation does to the job is DurableJobs' RequestCancellation.
CancelCase(c) ==
    /\ Asked(c).kind = "cancel"
    /\ \E code \in Lookups : Answer(c, code)
    /\ UNCHANGED accountVars

DeleteAccount(c) ==
    /\ Asked(c).kind = "account deletion"
    /\ \/ RequestDeletion /\ Answer(c, "scheduled")
       \/ Answer(c, "UNAVAILABLE") /\ UNCHANGED accountVars

Operate(c) ==
    /\ At(c, "operate")
    /\ \/ ListRepositories(c) \/ ReadCase(c) \/ ExportBundle(c) \/ CancelCase(c)
       \/ DeleteAccount(c)
    /\ UNCHANGED <<trustVars, runnerVars, services, flags>>

\* exportAccountData: charge, ...
ConsumeQuota(c) ==
    /\ At(c, "consume")
    /\ \/ Consume(Asked(c).subject, Asked(c).key, calls[c].day) /\ To(c, "archive")
       \/ /\ MayConsume(Asked(c).subject) /\ ~QuotaAllows(Asked(c).key, calls[c].day)
          /\ Answer(c, "EXPORT_QUOTA_EXCEEDED") /\ UNCHANGED accountVars
       \/ Answer(c, "UNAVAILABLE") /\ UNCHANGED accountVars
    /\ UNCHANGED <<trustVars, runnerVars, services, flags>>

\* ... pack (TenantBackup, for an ACTIVE tenant only), ...
Archive(c) ==
    /\ At(c, "archive")
    /\ \/ tenant = "ACTIVE" /\ To(c, "audit")
       \/ Answer(c, "UNAVAILABLE")
    /\ Elsewhere

\* ... record, and only then hand over.
RecordExport(c) ==
    /\ At(c, "audit")
    /\ \/ AppendExportAudit(Asked(c).key) /\ Answer(c, "exported")
       \/ Answer(c, "UNAVAILABLE") /\ UNCHANGED accountVars
    /\ UNCHANGED <<trustVars, runnerVars, services, flags>>

\* GET /health/runner.
ReportHealth(c) ==
    /\ At(c, "health")
    /\ checks[c].pc # "waiting"
    /\ Answer(c, IF checks[c].pc = "ready" THEN "ready" ELSE "unavailable")
    /\ CheckUsed(c)
    /\ UNCHANGED <<runner, probes, findings, trustVars, accountVars, services, flags>>

----------------------------------------------------------------------------
Handle(c) ==
    \/ ServicesResolved(c) \/ PresentToken(c) \/ Verified(c)
    \/ ReadPrincipal(c) \/ OpenSession(c)
    \/ ResolveSource(c) \/ LookUp(c) \/ CheckFlags(c) \/ CheckRunner(c)
    \/ Reserve(c) \/ Publish(c) \/ Operate(c)
    \/ ConsumeQuota(c) \/ Archive(c) \/ RecordExport(c) \/ ReportHealth(c)

Trust ==
    /\ \/ \E k \in Keys : PublishKey(k) \/ RetireKey(k)
       \/ \E c \in Callers : \/ ProviderAnswers(c) \/ KeySetArrives(c)
                             \/ FetchFails(c) \/ FetchThrows(c)
    /\ UNCHANGED <<runnerVars, accountVars, doorOnlyVars>>

Probing ==
    /\ \/ RunnerChanges
       \/ \E p \in Probes : ProbeStep(p)
       \/ \E c \in Callers : CheckTimesOut(c)
    /\ UNCHANGED <<trustVars, accountVars, doorOnlyVars>>

Accounts == AccountEnvironment /\ UNCHANGED <<trustVars, runnerVars, doorOnlyVars>>

DoorTick == TrustTick /\ RunnerTick /\ UNCHANGED <<accountVars, doorOnlyVars>>

DoorNext ==
    \/ \E c \in Callers, r \in Requests : Begin(c, r)
    \/ \E c \in Callers : Handle(c) \/ Forget(c)
    \/ MakeServices
    \/ Trust
    \/ Probing
    \/ Accounts
    \/ DoorTick

DoorSpec == DoorInit /\ [][DoorNext]_doorVars

----------------------------------------------------------------------------
\* An export that is handed over has been charged and recorded, and no day is charged
\* for more than the limit, however many requests run at once and across midnight -
\* unless the tenant has been deleted meanwhile, its ledger with it.
ExportIsCharged ==
    /\ \A day \in 0..MaxDays : UsedOn(day) <= ExportsPerDay
    /\ \A c \in Callers :
          calls[c].answer = "exported" /\ tenant # "DELETED" =>
              Charged(Asked(c).key) /\ Asked(c).key \in audited
=============================================================================
