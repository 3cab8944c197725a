------------------------ MODULE GitHubAuthorization ------------------------
(***************************************************************************)
(* Which repositories of one GitHub App installation a tenant may use.     *)
(*                                                                         *)
(* GitHub owns the truth and changes it; the store keeps a copy that three *)
(* handlers write: the callback of the set-up flow, which binds a snapshot *)
(* to the actor who began the flow, installation webhooks, which pass      *)
(* through a reducer, and repository webhooks, which first read a fresh    *)
(* snapshot and then replace the repositories with it.  A snapshot takes   *)
(* two calls and is applied in a third step, so anything may overtake it;  *)
(* deliveries come in any order, repeatedly, or never.  A request for a    *)
(* repository asks the store and then GitHub itself.                       *)
(***************************************************************************)
EXTENDS Integers, FiniteSets, Sequences

CONSTANTS
    Actors,       \* pairs of a tenant and a principal, one for each tenant
    Owners,       \* actors whose GitHub user can access the installation
    States,       \* installation states that may be created
    Callbacks,    \* processes that handle a callback
    Hooks,        \* processes that handle a webhook delivery
    Requests,     \* processes that resolve a revision or lease a credential
    Repositories, \* the provider's repositories of the installation
    MaxChanges,   \* bound on the changes GitHub makes
    NoActor,      \* a state that was not created; an installation not bound
    NoState,      \* a callback that consumed nothing
    NoRepository  \* a request that is not under way

ASSUME GitHubAssumption ==
    /\ Owners \subseteq Actors
    /\ MaxChanges \in Nat
    /\ NoActor \notin Actors
    /\ NoState \notin States
    /\ NoRepository \notin Repositories

VARIABLES
    github,       \* the installation at GitHub
    sent,         \* the webhooks GitHub has sent; the index is the delivery id
    deliveries,   \* ids in table github_webhook_deliveries
    states,       \* states[s]: the row of table github_installation_states
    installation, \* the row of table github_installations
    repositories, \* repositories[r]: the row of table github_repositories
    callbacks,    \* callbacks[c]: the local state of a callback
    hooks,        \* hooks[h]: the local state of a webhook handler
    requests,     \* requests[q]: the local state of a request
    overtaken     \* history: a snapshot was applied after a later webhook

storeRows == <<installation, repositories>>
handlers == <<callbacks, hooks>>
vars == <<github, sent, deliveries, states, storeRows, handlers, requests, overtaken>>

Statuses == {"ACTIVE", "SUSPENDED", "REMOVED"}

\* provider_updated_at: NULL is before every time.
NoTime == 0
Times == 0..(MaxChanges + 1)

\* What readInstallation returns, and how many webhooks had been sent by then.
Snapshot == [at: Times, repositories: SUBSET Repositories, taken: 0..MaxChanges]
NoSnapshot == [at |-> NoTime, repositories |-> {}, taken |-> 0]

IdleCallback == [pc |-> "idle", actor |-> NoActor, state |-> NoState, snapshot |-> NoSnapshot]
IdleHook == [pc |-> "idle", delivery |-> 0, snapshot |-> NoSnapshot]
IdleRequest == [pc |-> "idle", repository |-> NoRepository, revoked |-> FALSE]

Delivery == [event: {"installation", "installation_repositories"},
             action: {"deleted", "suspended", "unsuspended",
                      "new_permissions_accepted", "repositories"},
             at: Times, exact: BOOLEAN]

\* The installation at GitHub, and the rows and local states of the copy.
Installation == [status: Statuses, at: Times, exact: BOOLEAN, repositories: SUBSET Repositories]
StateRow == [actor: Actors \cup {NoActor}, consumed: BOOLEAN, expired: BOOLEAN]
InstallationRow == [actor: Actors \cup {NoActor}, status: Statuses, at: Times]
CallbackState == [pc: {"idle", "exchanging", "reading", "listing", "binding"},
                  actor: Actors \cup {NoActor}, state: States \cup {NoState}, snapshot: Snapshot]
HookState == [pc: {"idle", "reading", "listing", "processing"}, delivery: Nat, snapshot: Snapshot]
RequestState == [pc: {"idle", "checking", "minting", "using", "granted", "denied"},
                 repository: Repositories \cup {NoRepository}, revoked: BOOLEAN]

TypeOK ==
    /\ github \in Installation
    /\ sent \in Seq(Delivery)
    /\ deliveries \subseteq DOMAIN sent
    /\ states \in [States -> StateRow]
    /\ installation \in InstallationRow
    /\ repositories \in [Repositories -> {"NONE", "ACTIVE", "REMOVED"}]
    /\ callbacks \in [Callbacks -> CallbackState]
    /\ hooks \in [Hooks -> HookState]
    /\ requests \in [Requests -> RequestState]
    /\ overtaken \in BOOLEAN

Init ==
    /\ \E status \in {"ACTIVE", "SUSPENDED"} :
          github = [status |-> status, at |-> 1, exact |-> TRUE, repositories |-> Repositories]
    /\ sent = <<>>
    /\ deliveries = {}
    /\ states = [s \in States |-> [actor |-> NoActor, consumed |-> FALSE, expired |-> FALSE]]
    /\ installation = [actor |-> NoActor, status |-> "ACTIVE", at |-> NoTime]
    /\ repositories = [r \in Repositories |-> "NONE"]
    /\ callbacks = [c \in Callbacks |-> IdleCallback]
    /\ hooks = [h \in Hooks |-> IdleHook]
    /\ requests = [q \in Requests |-> IdleRequest]
    /\ overtaken = FALSE

Callback(c, state) == callbacks' = [callbacks EXCEPT ![c] = state]
Hook(h, state) == hooks' = [hooks EXCEPT ![h] = state]

\* A handler goes on to its next await, with what it has read so far.
ContinueCallback(c, pc, snapshot) ==
    Callback(c, [pc |-> pc, actor |-> callbacks[c].actor, state |-> callbacks[c].state,
                 snapshot |-> snapshot])

ContinueHook(h, pc, snapshot) ==
    Hook(h, [pc |-> pc, delivery |-> hooks[h].delivery, snapshot |-> snapshot])

ContinueRequest(q, pc) ==
    requests' = [requests EXCEPT ![q] = [pc |-> pc, repository |-> requests[q].repository,
                                         revoked |-> requests[q].revoked]]

\* The first of the two calls of a snapshot knows no repositories, the second does.
FirstCall(at) == [at |-> at, repositories |-> {}, taken |-> Len(sent)]
SecondCall(snapshot) ==
    [at |-> snapshot.at, repositories |-> github.repositories, taken |-> snapshot.taken]

----------------------------------------------------------------------------
(* GitHub.                                                                 *)

\* The installation answers and grants exactly the permissions asked for.
Available(g) == g.status = "ACTIVE" /\ g.exact

Accessible(g, r) == Available(g) /\ r \in g.repositories

\* GitHub changes the installation and sends a webhook.  Two changes may fall
\* into the same second.  A request counts as revoked as long as its repository
\* has not been accessible since it began.
Change(event, action, status, exact, selection) ==
    /\ Len(sent) < MaxChanges
    /\ \E at \in {github.at, github.at + 1} :
          /\ github' = [status |-> status, at |-> at, exact |-> exact, repositories |-> selection]
          /\ sent' = Append(sent, [event |-> event, action |-> action, at |-> at, exact |-> exact])
    /\ requests' = [q \in Requests |->
          [pc |-> requests[q].pc, repository |-> requests[q].repository,
           revoked |-> /\ requests[q].revoked
                       /\ ~Accessible(github', requests[q].repository)]]
    /\ UNCHANGED <<deliveries, states, storeRows, handlers, overtaken>>

\* Deletion is final: a new installation has another identity.
Delete ==
    /\ github.status # "REMOVED"
    /\ Change("installation", "deleted", "REMOVED", github.exact, github.repositories)

Suspend ==
    /\ github.status = "ACTIVE"
    /\ Change("installation", "suspended", "SUSPENDED", github.exact, github.repositories)

Unsuspend ==
    /\ github.status = "SUSPENDED"
    /\ Change("installation", "unsuspended", "ACTIVE", github.exact, github.repositories)

ChangePermissions ==
    /\ github.status = "ACTIVE"
    /\ \E exact \in BOOLEAN \ {github.exact} :
          Change("installation", "new_permissions_accepted", "ACTIVE", exact, github.repositories)

SelectRepositories(R) ==
    /\ github.status = "ACTIVE"
    /\ R # github.repositories
    /\ Change("installation_repositories", "repositories", "ACTIVE", github.exact, R)

\* getLiveInstallation succeeds: found, not suspended, exact permissions, and
\* normally with a time.
LiveInstallation == Available(github)

LiveTimes == {NoTime, github.at}

----------------------------------------------------------------------------
(* The set-up flow: one row per state, consumed by one UPDATE.             *)

\* create: the row of a fresh state.
Created(actor) == [actor |-> actor, consumed |-> FALSE, expired |-> FALSE]

\* createGitHubInstallationAuthorization
BeginInstallation(s, actor) ==
    /\ states[s].actor = NoActor
    /\ states' = [states EXCEPT ![s] = Created(actor)]
    /\ UNCHANGED <<github, sent, deliveries, storeRows, handlers, requests, overtaken>>

\* Ten minutes have passed.
StateExpires(s) ==
    /\ states[s].actor # NoActor
    /\ ~states[s].expired
    /\ states' = [states EXCEPT ![s] = [actor |-> @.actor, consumed |-> @.consumed, expired |-> TRUE]]
    /\ UNCHANGED <<github, sent, deliveries, storeRows, handlers, requests, overtaken>>

\* The WHERE clause forgets consumed_at IS NULL.
ConsumableMutant(s, actor) == states[s].actor = actor /\ ~states[s].expired

\* The WHERE clause of consume.
Consumable(s, actor) ==
    /\ states[s].actor = actor
    /\ ~states[s].consumed
    /\ ~states[s].expired

\* A signed-in actor returns with a state that is its own.  The state is spent
\* whatever comes after.
Consume(c, s, actor) ==
    /\ callbacks[c].pc = "idle"
    /\ Consumable(s, actor)
    /\ states' = [states EXCEPT ![s] = [actor |-> @.actor, consumed |-> TRUE, expired |-> @.expired]]
    /\ Callback(c, [pc |-> "exchanging", actor |-> actor, state |-> s, snapshot |-> NoSnapshot])
    /\ UNCHANGED <<github, sent, deliveries, storeRows, hooks, requests, overtaken>>

\* Any GitHub user's code passes.
MayLinkMutant(actor) == TRUE

\* userCanAccessInstallation, asked with the token the code was exchanged for.
MayLink(actor) == actor \in Owners

ExchangeCode(c) ==
    /\ callbacks[c].pc = "exchanging"
    /\ MayLink(callbacks[c].actor)
    /\ ContinueCallback(c, "reading", NoSnapshot)
    /\ UNCHANGED <<github, sent, deliveries, states, storeRows, hooks, requests, overtaken>>

\* readInstallation, first call: the installation.
ReadForCallback(c) ==
    /\ callbacks[c].pc = "reading"
    /\ LiveInstallation
    /\ \E at \in LiveTimes : ContinueCallback(c, "listing", FirstCall(at))
    /\ UNCHANGED <<github, sent, deliveries, states, storeRows, hooks, requests, overtaken>>

\* readInstallation, then: a token is minted and the repositories are listed.
ListForCallback(c) ==
    /\ callbacks[c].pc = "listing"
    /\ LiveInstallation
    /\ ContinueCallback(c, "binding", SecondCall(callbacks[c].snapshot))
    /\ UNCHANGED <<github, sent, deliveries, states, storeRows, hooks, requests, overtaken>>

\* Any of these calls fails: the callback answers "invalid".
CallbackFails(c) ==
    /\ callbacks[c].pc # "idle"
    /\ Callback(c, IdleCallback)
    /\ UNCHANGED <<github, sent, deliveries, states, storeRows, hooks, requests, overtaken>>

\* Every repository of the snapshot is ACTIVE, every other known one REMOVED.
Reconciled(R) ==
    [r \in Repositories |-> IF r \in R THEN "ACTIVE"
                            ELSE IF repositories[r] = "NONE" THEN "NONE" ELSE "REMOVED"]

\* A later webhook than the snapshot has been processed already.
Overtakes(snapshot) == overtaken' = (overtaken \/ \E d \in deliveries : d > snapshot.taken)

\* bind: github_installations_global_id_unique lets no second tenant have the
\* installation; for its own tenant the snapshot is taken as it is.
Bind(c) ==
    LET callback == callbacks[c] IN
    /\ callback.pc = "binding"
    /\ installation.actor \in {NoActor, callback.actor}
    /\ installation' = [actor |-> callback.actor, status |-> "ACTIVE", at |-> callback.snapshot.at]
    /\ repositories' = Reconciled(callback.snapshot.repositories)
    /\ Overtakes(callback.snapshot)
    /\ Callback(c, IdleCallback)
    /\ UNCHANGED <<github, sent, deliveries, states, hooks, requests>>

----------------------------------------------------------------------------
(* Webhooks.                                                               *)

\* The route reads the installation before it processes a repository webhook.
Receive(h, d) ==
    /\ hooks[h].pc = "idle"
    /\ Hook(h, [pc |-> IF sent[d].event = "installation" THEN "processing" ELSE "reading",
                delivery |-> d, snapshot |-> NoSnapshot])
    /\ UNCHANGED <<github, sent, deliveries, states, storeRows, callbacks, requests, overtaken>>

ReadForHook(h) ==
    /\ hooks[h].pc = "reading"
    /\ LiveInstallation
    /\ \E at \in LiveTimes : ContinueHook(h, "listing", FirstCall(at))
    /\ UNCHANGED <<github, sent, deliveries, states, storeRows, callbacks, requests, overtaken>>

ListForHook(h) ==
    /\ hooks[h].pc = "listing"
    /\ LiveInstallation
    /\ ContinueHook(h, "processing", SecondCall(hooks[h].snapshot))
    /\ UNCHANGED <<github, sent, deliveries, states, storeRows, callbacks, requests, overtaken>>

\* 503: nothing was written, and GitHub delivers again only when asked to.
HookFails(h) ==
    /\ hooks[h].pc # "idle"
    /\ Hook(h, IdleHook)
    /\ UNCHANGED <<github, sent, deliveries, states, storeRows, callbacks, requests, overtaken>>

Precedence == [ACTIVE |-> 0, SUSPENDED |-> 1, REMOVED |-> 2]

\* Equal times: the later call wins.
ReduceMutant(current, transition) ==
    IF transition.at >= current.at THEN transition ELSE current

\* reduceGitHubAuthorizationState: removal is terminal and needs no time, the
\* newer time wins, and of equal times the more restrictive status.
Reduce(current, transition) ==
    LET newer == transition.at > current.at IN
    IF \/ /\ current.status = "REMOVED"
          /\ transition.status = "REMOVED" /\ newer
       \/ /\ current.status # "REMOVED"
          /\ \/ transition.status = "REMOVED"
             \/ current.at = NoTime
             \/ newer
             \/ /\ transition.at = current.at
                /\ Precedence[transition.status] > Precedence[current.status]
    THEN transition
    ELSE current

\* applyInstallationWebhook: the status that an event asks for.
Desired(event) ==
    IF event.action = "deleted" THEN "REMOVED"
    ELSE IF event.action = "suspended" \/ ~event.exact THEN "SUSPENDED"
    ELSE "ACTIVE"

ApplyInstallation(event) ==
    LET current == [status |-> installation.status, at |-> installation.at]
        next == Reduce(current, [status |-> Desired(event), at |-> event.at])
    IN /\ installation' = [actor |-> installation.actor, status |-> next.status, at |-> next.at]
       /\ repositories' = IF next # current /\ next.status = "REMOVED"
                          THEN Reconciled({}) ELSE repositories

\* applyRepositoryWebhook with a snapshot: the time may go back, the status stays.
ApplySnapshot(snapshot) ==
    /\ installation' = [actor |-> installation.actor, status |-> installation.status,
                        at |-> IF snapshot.at = NoTime THEN installation.at ELSE snapshot.at]
    /\ repositories' = Reconciled(snapshot.repositories)

\* processWebhook, one transaction.  A repeated delivery of an installation event
\* changes nothing; a repeated repository event applies its fresh snapshot.
ProcessInstallation(h) ==
    LET d == hooks[h].delivery IN
    /\ hooks[h].pc = "processing"
    /\ sent[d].event = "installation"
    /\ IF d \in deliveries \/ installation.actor = NoActor
       THEN UNCHANGED storeRows
       ELSE ApplyInstallation(sent[d])
    /\ deliveries' = deliveries \cup {d}
    /\ Hook(h, IdleHook)
    /\ UNCHANGED <<github, sent, states, callbacks, requests, overtaken>>

ProcessRepositories(h) ==
    LET d == hooks[h].delivery IN
    /\ hooks[h].pc = "processing"
    /\ sent[d].event = "installation_repositories"
    /\ IF installation.actor = NoActor
       THEN UNCHANGED <<storeRows, overtaken>>
       ELSE /\ ApplySnapshot(hooks[h].snapshot)
            /\ Overtakes(hooks[h].snapshot)
    /\ deliveries' = deliveries \cup {d}
    /\ Hook(h, IdleHook)
    /\ UNCHANGED <<github, sent, states, callbacks, requests>>

----------------------------------------------------------------------------
(* Use: resolveRevision when a case is started, withArchiveCredential when it *)
(* is executed.  Both ask the store and then GitHub.                       *)

\* SELECT_REPOSITORY: the installation's status covers the repository's.
EffectiveStatus(r) ==
    IF installation.status = "SUSPENDED" THEN "SUSPENDED"
    ELSE IF installation.status = "REMOVED" \/ repositories[r] = "REMOVED" THEN "REMOVED"
    ELSE "ACTIVE"

\* findRepository has a row to return, for the tenant that has the installation.
FindRepository(r) == installation.actor # NoActor /\ repositories[r] # "NONE"

Ask(q, r) ==
    /\ requests[q].pc = "idle"
    /\ FindRepository(r)
    /\ requests' = [requests EXCEPT ![q] =
          [pc |-> IF EffectiveStatus(r) = "ACTIVE" THEN "checking" ELSE "denied",
           repository |-> r, revoked |-> ~Accessible(github, r)]]
    /\ UNCHANGED <<github, sent, deliveries, states, storeRows, handlers, overtaken>>

\* getLiveInstallation
CheckInstallation(q) ==
    /\ requests[q].pc = "checking"
    /\ ContinueRequest(q, IF LiveInstallation THEN "minting" ELSE "denied")
    /\ UNCHANGED <<github, sent, deliveries, states, storeRows, handlers, overtaken>>

\* The token is minted for the installation, not for the repository.
MintTokenMutant(q) ==
    /\ requests[q].pc = "minting"
    /\ ContinueRequest(q, IF Available(github) THEN "using" ELSE "denied")
    /\ UNCHANGED <<github, sent, deliveries, states, storeRows, handlers, overtaken>>

\* mintInstallationToken for this repository only: GitHub refuses a repository
\* that is not selected.
MintToken(q) ==
    /\ requests[q].pc = "minting"
    /\ ContinueRequest(q, IF Accessible(github, requests[q].repository) THEN "using" ELSE "denied")
    /\ UNCHANGED <<github, sent, deliveries, states, storeRows, handlers, overtaken>>

\* The commit is found with the token, or the source is fetched with it; GitHub
\* may refuse either.
UseToken(q) ==
    /\ requests[q].pc = "using"
    /\ \E pc \in {"granted", "denied"} : ContinueRequest(q, pc)
    /\ UNCHANGED <<github, sent, deliveries, states, storeRows, handlers, overtaken>>

Answer(q) ==
    /\ requests[q].pc \in {"granted", "denied"}
    /\ requests' = [requests EXCEPT ![q] = IdleRequest]
    /\ UNCHANGED <<github, sent, deliveries, states, storeRows, handlers, overtaken>>

----------------------------------------------------------------------------
GitHubChanges ==
    \/ Delete
    \/ Suspend
    \/ Unsuspend
    \/ ChangePermissions
    \/ \E R \in SUBSET Repositories : SelectRepositories(R)

CallbackStep(c) ==
    \/ \E s \in States, actor \in Actors : Consume(c, s, actor)
    \/ ExchangeCode(c)
    \/ ReadForCallback(c)
    \/ ListForCallback(c)
    \/ Bind(c)
    \/ CallbackFails(c)

HookStep(h) ==
    \/ \E d \in DOMAIN sent : Receive(h, d)
    \/ ReadForHook(h)
    \/ ListForHook(h)
    \/ ProcessInstallation(h)
    \/ ProcessRepositories(h)
    \/ HookFails(h)

RequestStep(q) ==
    \/ \E r \in Repositories : Ask(q, r)
    \/ CheckInstallation(q)
    \/ MintToken(q)
    \/ UseToken(q)
    \/ Answer(q)

Next ==
    \/ GitHubChanges
    \/ \E s \in States : StateExpires(s) \/ \E actor \in Actors : BeginInstallation(s, actor)
    \/ \E c \in Callbacks : CallbackStep(c)
    \/ \E h \in Hooks : HookStep(h)
    \/ \E q \in Requests : RequestStep(q)

Spec == Init /\ [][Next]_vars

----------------------------------------------------------------------------
\* A state authorizes one callback at most, the one of the actor it was made for,
\* however often and by whomever the callback is replayed.
OneCallbackPerState ==
    \A c \in Callbacks : callbacks[c].pc # "idle" =>
        LET s == callbacks[c].state IN
        /\ states[s].consumed
        /\ states[s].actor = callbacks[c].actor
        /\ \A e \in Callbacks \ {c} : callbacks[e].pc # "idle" => callbacks[e].state # s

\* The tenant that has the installation was linked by a principal who can access
\* it on GitHub; with the identifier alone nobody gets it.
BoundByItsOwner == installation.actor \in Owners \cup {NoActor}

\* Whatever the store believes, a repository that has not been accessible on
\* GitHub since a request began is not used by it.
NoUseAfterRevocation ==
    \A q \in Requests : requests[q].pc \in {"using", "granted"} => ~requests[q].revoked

\* No handler is at work and every webhook has been processed.
Processed ==
    /\ deliveries = DOMAIN sent
    /\ \A c \in Callbacks : callbacks[c].pc = "idle"
    /\ \A h \in Hooks : hooks[h].pc = "idle"

\* Once every webhook was processed, in whatever order and however often, the store
\* grants no more than GitHub does, unless a snapshot was applied after a webhook
\* that was sent later than it was read.
NeverMoreThanGitHub ==
    Processed /\ ~overtaken /\ installation.actor # NoActor
    => (installation.status = "ACTIVE" => Available(github))

\* Removal and suspension revoke authorization
\* (docs/specs/milestone-8b-identity-and-github.md, lines 87-88).
RevocationHolds ==
    Processed /\ installation.actor # NoActor
    => (installation.status = "ACTIVE" => github.status = "ACTIVE")
=============================================================================
