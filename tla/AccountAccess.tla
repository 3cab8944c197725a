---------------------------- MODULE AccountAccess ---------------------------
(***************************************************************************)
(* Who a request acts for, and what an account owner may ask of the data.  *)
(*                                                                         *)
(* A web session names a person; the first one of a tenant creates the     *)
(* tenant and the principal.  A token names a person whose principal must  *)
(* exist.  Both are read once, at the beginning of a request, while the    *)
(* retention executor may suspend and delete the tenant under it.  One     *)
(* tenant, its rows, and the transactions that read its status.            *)
(***************************************************************************)
EXTENDS Naturals, FiniteSets

CONSTANTS
    Subjects,       \* people, as the identity provider names them
    ExportKeys,     \* Idempotency-Keys of account exports, each one person's
    ExportsPerDay,  \* the limit of the export quota
    MaxDays,        \* how many UTC days are looked at
    MaxDeletions    \* how many deletion requests are made

ASSUME AccountAssumption ==
    ExportsPerDay \in Nat \ {0} /\ MaxDays \in Nat /\ MaxDeletions \in Nat

VARIABLES
    tenant,     \* tenants.status, "NONE" before the first login
    principals, \* people with a principal row
    cases,      \* start commands with a case, a job, an outbox event and a reservation
    ledger,     \* committed export reservations: key and day
    audited,    \* keys with an account.data-exported row
    deletion,   \* the last deletion request, and how many there were
    today       \* the UTC day

accountVars == <<tenant, principals, cases, ledger, audited, deletion, today>>

NoDeletionYet == [state |-> "NONE", count |-> 0]

AccountTypeOK ==
    /\ tenant \in {"NONE", "ACTIVE", "SUSPENDED", "DELETING", "DELETED"}
    /\ principals \subseteq Subjects
    /\ ledger \subseteq ExportKeys \X (0..MaxDays)
    /\ audited \subseteq ExportKeys
    /\ deletion \in [state : {"NONE", "SCHEDULED", "RUNNING", "FAILED", "COMPLETED"},
                     count : 0..MaxDeletions]
    /\ today \in 0..MaxDays

AccountInit ==
    /\ tenant = "NONE"
    /\ principals = {} /\ cases = {} /\ ledger = {} /\ audited = {}
    /\ deletion = NoDeletionYet
    /\ today = 0

----------------------------------------------------------------------------
(* Identity.                                                               *)

\* PostgresWebPrincipalSession.resolve, one transaction: it fails, and leaves nothing,
\* unless the tenant is ACTIVE in the end.
CanLogIn == tenant \in {"NONE", "ACTIVE"}

LogIn(s) ==
    /\ CanLogIn
    /\ tenant' = "ACTIVE"
    /\ principals' = principals \cup {s}
    /\ UNCHANGED <<cases, ledger, audited, deletion, today>>

\* PostgresPrincipalDirectory.resolve and resolveAuthorizedPrincipal.  A token has
\* claims: whom it names, whether its tenant is the principal's, and its scopes.
Linked(s, sameTenant) == s \in principals /\ tenant = "ACTIVE" /\ sameTenant

----------------------------------------------------------------------------
(* What the transactions of a request do when they are allowed to.         *)

\* The principal that was resolved is enough.
MayReserveMutant == TRUE

\* DurableReproductionRepository.reserve: the tenant's status is read under its lock.
MayReserve == tenant = "ACTIVE"

ReserveCase(k) ==
    /\ MayReserve
    /\ cases' = cases \cup {k}
    /\ UNCHANGED <<tenant, principals, ledger, audited, deletion, today>>

\* PostgresAccountExportQuota.consume: a key once charged is not charged again, on
\* whatever day; a new one counts for the day its request began.
Charged(k) == \E day \in 0..MaxDays : <<k, day>> \in ledger

UsedOn(day) == Cardinality({row \in ledger : row[2] = day})

MayConsume(s) == tenant = "ACTIVE" /\ s \in principals

QuotaAllowsMutant(k, day) == Charged(k) \/ UsedOn(day) <= ExportsPerDay

QuotaAllows(k, day) == Charged(k) \/ UsedOn(day) < ExportsPerDay

Consume(s, k, day) ==
    /\ MayConsume(s) /\ QuotaAllows(k, day)
    /\ ledger' = IF Charged(k) THEN ledger ELSE ledger \cup {<<k, day>>}
    /\ UNCHANGED <<tenant, principals, cases, audited, deletion, today>>

\* The audit row is written outside of any transaction that knows the tenant's status.
AppendExportAudit(k) ==
    /\ audited' = audited \cup {k}
    /\ UNCHANGED <<tenant, principals, cases, ledger, deletion, today>>

----------------------------------------------------------------------------
(* Deletion, as TenantRetention models it in full.                         *)

Requested == deletion.state \in {"SCHEDULED", "RUNNING"}

\* requestAccountDeletion: a request while another is active changes nothing and is
\* still answered "scheduled".
RequestDeletion ==
    IF tenant # "DELETED" /\ ~Requested /\ deletion.count < MaxDeletions
    THEN /\ deletion' = [state |-> "SCHEDULED", count |-> deletion.count + 1]
         /\ tenant' = IF tenant = "ACTIVE" THEN "SUSPENDED" ELSE tenant
         /\ UNCHANGED <<principals, cases, ledger, audited, today>>
    ELSE UNCHANGED accountVars

ClaimDeletion ==
    /\ deletion.state = "SCHEDULED" /\ tenant \in {"ACTIVE", "SUSPENDED"}
    /\ deletion' = [deletion EXCEPT !.state = "RUNNING"]
    /\ tenant' = "DELETING"
    /\ UNCHANGED <<principals, cases, ledger, audited, today>>

DeletionFails ==
    /\ deletion.state = "RUNNING"
    /\ deletion' = [deletion EXCEPT !.state = "FAILED"]
    /\ tenant' = "SUSPENDED"
    /\ UNCHANGED <<principals, cases, ledger, audited, today>>

DeletionCompletes ==
    /\ deletion.state = "RUNNING"
    /\ deletion' = [deletion EXCEPT !.state = "COMPLETED"]
    /\ tenant' = "DELETED"
    /\ principals' = {} /\ cases' = {} /\ ledger' = {} /\ audited' = {}
    /\ UNCHANGED today

Midnight ==
    /\ today < MaxDays
    /\ today' = today + 1
    /\ UNCHANGED <<tenant, principals, cases, ledger, audited, deletion>>

AccountEnvironment ==
    \/ ClaimDeletion \/ DeletionFails \/ DeletionCompletes \/ Midnight

----------------------------------------------------------------------------
\* A deleted tenant stays empty: requests that were let in while it was ACTIVE still
\* run, sign-ins are tried again, and yet no principal, case or reservation comes back.
\* (Audit rows are left out: they are appended without a look at the tenant.)
DeletedStaysEmpty ==
    tenant = "DELETED" => principals = {} /\ cases = {} /\ ledger = {}
=============================================================================
