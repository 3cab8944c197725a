---------------------------- MODULE GitHubProofs ----------------------------
(***************************************************************************)
(* What the GitHub authorization store keeps for any number of actors,     *)
(* states, callbacks, deliveries, requests and changes at GitHub.          *)
(***************************************************************************)
EXTENDS GitHubAuthorization, TLAPS

\* No time that is written down is ahead of GitHub's, and no snapshot knows of
\* a webhook that was not sent.
Dated(snapshot) == snapshot.at <= github.at /\ snapshot.taken <= Len(sent)

Clocks ==
    /\ github.at \in 1..(Len(sent) + 1)
    /\ Len(sent) <= MaxChanges
    /\ \A d \in DOMAIN sent : sent[d].at \in 1..github.at
    /\ installation.at <= github.at
    /\ \A c \in Callbacks : Dated(callbacks[c].snapshot)
    /\ \A h \in Hooks : Dated(hooks[h].snapshot)
    /\ \A h \in Hooks : hooks[h].pc # "idle" => hooks[h].delivery \in DOMAIN sent

TypeInv == TypeOK /\ Clocks

\* A callback carries an actor, and is past the exchange only for an owner.
CallbacksActed ==
    \A c \in Callbacks :
        /\ callbacks[c].pc # "idle" =>
              callbacks[c].actor \in Actors /\ callbacks[c].state \in States
        /\ callbacks[c].pc \in {"reading", "listing", "binding"} => callbacks[c].actor \in Owners

LinkInv == CallbacksActed /\ OneCallbackPerState /\ BoundByItsOwner

\* A request that counts as revoked is one GitHub does not serve now.
UseInv ==
    /\ \A q \in Requests :
          requests[q].revoked => ~Accessible(github, requests[q].repository)
    /\ NoUseAfterRevocation

\* An installation that was not available since GitHub's first word of it: nobody
\* can have read or bound it.
NeverAvailable ==
    /\ installation.actor = NoActor
    /\ \A c \in Callbacks : callbacks[c].pc \notin {"listing", "binding"}

\* The webhook e says that the installation is not available, and nothing that
\* says otherwise is newer: no event, no snapshot under way, not the row.  Once
\* e was processed the row says so too, unless a snapshot overtook it.
Blocking(e) ==
    /\ sent[e].event = "installation"
    /\ Desired(sent[e]) # "ACTIVE"
    /\ \A d \in DOMAIN sent :
          sent[d].event = "installation" /\ Desired(sent[d]) = "ACTIVE" => sent[d].at <= sent[e].at
    /\ \A c \in Callbacks :
          callbacks[c].snapshot.at <= sent[e].at /\ callbacks[c].snapshot.taken < e
    /\ \A h \in Hooks : hooks[h].snapshot.at <= sent[e].at /\ hooks[h].snapshot.taken < e
    /\ installation.status = "ACTIVE" => installation.at <= sent[e].at
    /\ e \in deliveries /\ ~overtaken /\ installation.actor # NoActor =>
          \/ installation.status = "REMOVED"
          \/ installation.status = "SUSPENDED" /\ installation.at >= sent[e].at

Blocked == Available(github) \/ NeverAvailable \/ \E e \in DOMAIN sent : Blocking(e)

----------------------------------------------------------------------------
(* Types.                                                                  *)

\* A change at GitHub keeps the types, whatever it is about.
LEMMA ChangeKeepsTypes ==
    ASSUME TypeInv, NEW event, NEW action, NEW status, NEW exact, NEW selection,
           event \in {"installation", "installation_repositories"},
           action \in {"deleted", "suspended", "unsuspended",
                       "new_permissions_accepted", "repositories"},
           status \in Statuses, exact \in BOOLEAN, selection \in SUBSET Repositories,
           Change(event, action, status, exact, selection)
    PROVE  TypeInv'
<1> USE GitHubAssumption DEF TypeInv, TypeOK, Clocks, Dated
<1>1. PICK at \in {github.at, github.at + 1} :
         /\ github' = [status |-> status, at |-> at, exact |-> exact, repositories |-> selection]
         /\ sent' = Append(sent, [event |-> event, action |-> action, at |-> at, exact |-> exact])
  BY DEF Change
<1>2. /\ UNCHANGED <<deliveries, states, installation, repositories, callbacks, hooks, overtaken>>
      /\ Len(sent) < MaxChanges
      /\ requests' = [q \in Requests |->
            [pc |-> requests[q].pc, repository |-> requests[q].repository,
             revoked |-> requests[q].revoked /\ ~Accessible(github', requests[q].repository)]]
  BY DEF Change, storeRows, handlers
<1>3. at \in Times /\ at \in 1..(Len(sent) + 2) /\ github.at <= at
  BY <1>2 DEF Times
<1>4. sent' \in Seq(Delivery) /\ Len(sent') = Len(sent) + 1 /\ github' \in Installation
  BY <1>1, <1>3 DEF Delivery, Installation
<1>5. /\ DOMAIN sent \subseteq DOMAIN sent'
      /\ \A d \in DOMAIN sent' : sent'[d].at \in 1..github'.at
  BY <1>1, <1>3
<1>6. requests' \in [Requests -> RequestState]
  BY <1>2 DEF RequestState
<1>7. TypeOK'
  BY <1>2, <1>4, <1>5, <1>6
<1>8. \A snapshot \in Snapshot : Dated(snapshot) => Dated(snapshot)'
  BY <1>1, <1>3, <1>4 DEF Snapshot, Times, Installation
<1>9. Clocks'
  BY <1>1, <1>2, <1>3, <1>4, <1>5, <1>8 DEF CallbackState, HookState, InstallationRow, Installation, Times
<1> QED  BY <1>7, <1>9

\* A snapshot that is being read is typed and dated.
LEMMA CallsAreDated ==
    ASSUME TypeInv
    PROVE  /\ \A at \in LiveTimes : FirstCall(at) \in Snapshot /\ Dated(FirstCall(at))
           /\ \A snapshot \in Snapshot :
                 Dated(snapshot) => SecondCall(snapshot) \in Snapshot /\ Dated(SecondCall(snapshot))
           /\ NoSnapshot \in Snapshot /\ Dated(NoSnapshot)
  BY GitHubAssumption
     DEF TypeInv, TypeOK, Clocks, LiveTimes, FirstCall, SecondCall, NoSnapshot, NoTime,
         Snapshot, Dated, Times, Installation

\* A callback that goes on keeps the types.
LEMMA CallbacksKeepTypes ==
    ASSUME TypeInv, UNCHANGED <<github, sent>>,
           NEW c \in Callbacks, NEW state \in CallbackState, Callback(c, state), Dated(state.snapshot)
    PROVE  /\ callbacks' \in [Callbacks -> CallbackState]
           /\ \A e \in Callbacks : Dated(callbacks[e].snapshot)'
  BY DEF TypeInv, TypeOK, Clocks, Dated, Callback

\* A hook that goes on keeps the types.
LEMMA HooksKeepTypes ==
    ASSUME TypeInv, UNCHANGED <<github, sent>>,
           NEW h \in Hooks, NEW state \in HookState, Hook(h, state), Dated(state.snapshot),
           state.pc # "idle" => state.delivery \in DOMAIN sent
    PROVE  /\ hooks' \in [Hooks -> HookState]
           /\ \A e \in Hooks : Dated(hooks[e].snapshot)'
           /\ \A e \in Hooks : (hooks[e].pc # "idle" => hooks[e].delivery \in DOMAIN sent)'
  BY DEF TypeInv, TypeOK, Clocks, Dated, Hook

\* One step keeps the types and the clocks.
LEMMA TypeStep ==
    ASSUME TypeInv, [Next]_vars
    PROVE  TypeInv'
<1>1. CASE GitHubChanges
  <2>1. /\ github.exact \in BOOLEAN
        /\ github.repositories \in SUBSET Repositories
        /\ {"ACTIVE", "SUSPENDED", "REMOVED"} \subseteq Statuses
    BY DEF TypeInv, TypeOK, Installation, Statuses
  <2>2. CASE Delete \/ Suspend \/ Unsuspend
    BY <2>1, <2>2, ChangeKeepsTypes DEF Delete, Suspend, Unsuspend
  <2>3. CASE ChangePermissions
    BY <2>1, <2>3, ChangeKeepsTypes DEF ChangePermissions
  <2>4. ASSUME NEW R \in SUBSET Repositories, SelectRepositories(R)
        PROVE  TypeInv'
    BY <2>1, <2>4, ChangeKeepsTypes DEF SelectRepositories
  <2> QED  BY <1>1, <2>2, <2>3, <2>4 DEF GitHubChanges
<1> USE DEF TypeInv, TypeOK, Clocks, storeRows, handlers
<1>2. ASSUME NEW s \in States,
             StateExpires(s) \/ \E actor \in Actors : BeginInstallation(s, actor)
      PROVE  TypeInv'
  <2>1. /\ \A actor \in Actors : Created(actor) \in StateRow
        /\ [actor |-> states[s].actor, consumed |-> states[s].consumed, expired |-> TRUE] \in StateRow
    BY DEF Created, StateRow
  <2>2. states' \in [States -> StateRow]
    BY <1>2, <2>1 DEF StateExpires, BeginInstallation
  <2> QED  BY <1>2, <2>2 DEF StateExpires, BeginInstallation, Dated
<1>3. ASSUME NEW c \in Callbacks, CallbackStep(c)
      PROVE  TypeInv'
  <2> USE CallsAreDated, CallbacksKeepTypes DEF ContinueCallback, Dated
  <2>1. ASSUME NEW s \in States, NEW actor \in Actors, Consume(c, s, actor)
        PROVE  TypeInv'
    <3>1. states' \in [States -> StateRow]
      BY <2>1 DEF Consume, StateRow
    <3>2. [pc |-> "exchanging", actor |-> actor, state |-> s, snapshot |-> NoSnapshot] \in CallbackState
      BY DEF CallbackState
    <3> QED  BY <2>1, <3>1, <3>2 DEF Consume
  <2>2. \A pc \in {"reading", "listing", "binding"}, snapshot \in Snapshot :
           [pc |-> pc, actor |-> callbacks[c].actor, state |-> callbacks[c].state,
            snapshot |-> snapshot] \in CallbackState
    BY DEF CallbackState
  <2>3. IdleCallback \in CallbackState /\ IdleCallback.snapshot = NoSnapshot
        /\ callbacks[c].snapshot \in Snapshot
    BY DEF IdleCallback, CallbackState
  <2>4. CASE ExchangeCode(c) \/ CallbackFails(c)
    BY <2>2, <2>3, <2>4 DEF ExchangeCode, CallbackFails
  <2>5. CASE ReadForCallback(c)
    BY <2>2, <2>5 DEF ReadForCallback
  <2>6. CASE ListForCallback(c)
    BY <2>2, <2>3, <2>6 DEF ListForCallback
  <2>7. CASE Bind(c)
    <3>1. installation' \in InstallationRow /\ installation'.at = callbacks[c].snapshot.at
      BY <2>7 DEF Bind, InstallationRow, CallbackState, Snapshot, Statuses
    <3>2. repositories' \in [Repositories -> {"NONE", "ACTIVE", "REMOVED"}] /\ overtaken' \in BOOLEAN
      BY <2>7 DEF Bind, Reconciled, Overtakes
    <3> QED  BY <2>3, <2>7, <3>1, <3>2 DEF Bind
  <2> QED  BY <1>3, <2>1, <2>4, <2>5, <2>6, <2>7 DEF CallbackStep
<1>4. ASSUME NEW h \in Hooks, HookStep(h)
      PROVE  TypeInv'
  <2> USE CallsAreDated, HooksKeepTypes DEF ContinueHook, Dated
  <2>1. ASSUME NEW d \in DOMAIN sent, Receive(h, d)
        PROVE  TypeInv'
    <3>1. \A pc \in {"processing", "reading"} :
             [pc |-> pc, delivery |-> d, snapshot |-> NoSnapshot] \in HookState
      BY DEF HookState
    <3> QED  BY <2>1, <3>1 DEF Receive
  <2>2. \A pc \in {"processing", "listing"}, snapshot \in Snapshot :
           [pc |-> pc, delivery |-> hooks[h].delivery, snapshot |-> snapshot] \in HookState
    BY DEF HookState
  <2>3. IdleHook \in HookState /\ IdleHook.snapshot = NoSnapshot /\ IdleHook.pc = "idle"
        /\ hooks[h].snapshot \in Snapshot
    BY DEF IdleHook, HookState
  <2>4. CASE ReadForHook(h)
    BY <2>2, <2>4 DEF ReadForHook
  <2>5. CASE ListForHook(h)
    BY <2>2, <2>3, <2>5 DEF ListForHook
  <2>6. CASE HookFails(h)
    BY <2>3, <2>6 DEF HookFails
  <2>7. CASE ProcessInstallation(h)
    <3>1. sent[hooks[h].delivery] \in Delivery /\ sent[hooks[h].delivery].at <= github.at
      BY <2>7, SMTT(60) DEF ProcessInstallation
    <3>2. installation' \in InstallationRow /\ installation'.at <= github.at
      BY <2>7, <3>1, SMTT(60) DEF ProcessInstallation, ApplyInstallation, Reduce, Desired,
                                  InstallationRow, Statuses, Delivery
    <3>3. repositories' \in [Repositories -> {"NONE", "ACTIVE", "REMOVED"}]
      BY <2>7 DEF ProcessInstallation, ApplyInstallation, Reconciled
    <3> QED  BY <2>3, <2>7, <3>2, <3>3 DEF ProcessInstallation
  <2>8. CASE ProcessRepositories(h)
    <3>1. installation' \in InstallationRow /\ installation'.at <= github.at
      BY <2>8, <2>3 DEF ProcessRepositories, ApplySnapshot, InstallationRow, Snapshot
    <3>2. repositories' \in [Repositories -> {"NONE", "ACTIVE", "REMOVED"}] /\ overtaken' \in BOOLEAN
      BY <2>8 DEF ProcessRepositories, ApplySnapshot, Reconciled, Overtakes
    <3> QED  BY <2>3, <2>8, <3>1, <3>2 DEF ProcessRepositories
  <2> QED  BY <1>4, <2>1, <2>4, <2>5, <2>6, <2>7, <2>8 DEF HookStep
<1>5. ASSUME NEW q \in Requests, RequestStep(q)
      PROVE  TypeInv'
  <2>1. requests' \in [Requests -> RequestState]
    <3>1. \A pc \in {"minting", "using", "granted", "denied"} :
             ContinueRequest(q, pc) => requests' \in [Requests -> RequestState]
      BY DEF ContinueRequest, RequestState
    <3>2. ASSUME NEW r \in Repositories, Ask(q, r)
          PROVE  requests' \in [Requests -> RequestState]
      <4>1. \A pc \in {"checking", "denied"} :
               [pc |-> pc, repository |-> r, revoked |-> ~Accessible(github, r)] \in RequestState
        BY DEF RequestState, Accessible
      <4> QED  BY <3>2, <4>1 DEF Ask
    <3>3. IdleRequest \in RequestState
      BY DEF IdleRequest, RequestState
    <3>4. CASE CheckInstallation(q) \/ MintToken(q)
      BY <3>1, <3>4 DEF CheckInstallation, MintToken
    <3>5. CASE UseToken(q) \/ Answer(q)
      BY <3>1, <3>3, <3>5 DEF UseToken, Answer
    <3> QED  BY <1>5, <3>2, <3>4, <3>5 DEF RequestStep
  <2>2. UNCHANGED <<github, sent, deliveries, states, storeRows, handlers, overtaken>>
    BY <1>5 DEF RequestStep, Ask, CheckInstallation, MintToken, UseToken, Answer
  <2> QED  BY <2>1, <2>2 DEF Dated
<1>6. CASE UNCHANGED vars
  BY <1>6 DEF vars, Dated
<1> QED  BY <1>1, <1>2, <1>3, <1>4, <1>5, <1>6 DEF Next

\* The initial states are typed.
LEMMA InitTyped ==
    ASSUME Init
    PROVE  TypeInv
<1> USE GitHubAssumption DEF Init, NoTime
<1>1. NoSnapshot \in Snapshot /\ 1 \in Times /\ 0 \in Times
  BY DEF NoSnapshot, Snapshot, Times
<1>2. github \in Installation /\ github.at = 1 /\ installation \in InstallationRow /\ installation.at = 0
  BY <1>1 DEF Installation, InstallationRow, Statuses
<1>3. states \in [States -> StateRow] /\ requests \in [Requests -> RequestState]
  BY DEF StateRow, RequestState, IdleRequest
<1>4. callbacks \in [Callbacks -> CallbackState] /\ hooks \in [Hooks -> HookState]
  BY <1>1 DEF CallbackState, HookState, IdleCallback, IdleHook
<1>5. sent \in Seq(Delivery) /\ Len(sent) = 0 /\ DOMAIN sent = {}
  OBVIOUS
<1>6. TypeOK
  BY <1>2, <1>3, <1>4, <1>5 DEF TypeOK
<1>7. Clocks
  BY <1>2, <1>5 DEF Clocks, Dated, IdleCallback, IdleHook, NoSnapshot
<1> QED  BY <1>6, <1>7 DEF TypeInv

\* Every row and every local state keeps its type, and no recorded time is ahead
\* of GitHub's, for any number of handlers, deliveries and changes.
THEOREM AuthorizationTypeCorrect == Spec => []TypeOK
<1>1. Init => TypeInv
  BY InitTyped
<1>2. TypeInv => TypeOK
  BY DEF TypeInv
<1> QED  BY <1>1, <1>2, TypeStep, PTL DEF Spec

----------------------------------------------------------------------------
(* The set-up flow.                                                        *)

\* A step that is none of a callback's and touches no state and no owner.
LEMMA LinkFrame ==
    ASSUME LinkInv, UNCHANGED <<states, callbacks>>, installation'.actor = installation.actor
    PROVE  LinkInv'
  BY DEF LinkInv, CallbacksActed, OneCallbackPerState, BoundByItsOwner

\* One step keeps states spent once, and the installation with its owner.
LEMMA LinkStep ==
    ASSUME TypeInv, LinkInv, [Next]_vars
    PROVE  LinkInv'
<1> USE DEF storeRows, handlers
<1>1. CASE GitHubChanges
  BY <1>1, LinkFrame
     DEF GitHubChanges, Delete, Suspend, Unsuspend, ChangePermissions, SelectRepositories, Change
<1>2. ASSUME NEW s \in States,
             StateExpires(s) \/ \E actor \in Actors : BeginInstallation(s, actor)
      PROVE  LinkInv'
  <2>1. \A c \in Callbacks : callbacks[c].pc # "idle" => states[callbacks[c].state].actor # NoActor
    BY GitHubAssumption DEF LinkInv, CallbacksActed, OneCallbackPerState
  <2>2. \A t \in States : states[t].actor # NoActor =>
           states'[t].actor = states[t].actor /\ states'[t].consumed = states[t].consumed
    BY <1>2 DEF StateExpires, BeginInstallation, TypeInv, TypeOK
  <2> QED  BY <1>2, <2>1, <2>2
           DEF LinkInv, CallbacksActed, OneCallbackPerState, BoundByItsOwner, StateExpires,
               BeginInstallation
<1>3. ASSUME NEW c \in Callbacks, CallbackStep(c)
      PROVE  LinkInv'
  <2> USE GitHubAssumption
      DEF LinkInv, CallbacksActed, OneCallbackPerState, BoundByItsOwner, TypeInv, TypeOK,
          Callback, ContinueCallback, IdleCallback
  <2>1. ASSUME NEW s \in States, NEW actor \in Actors, Consume(c, s, actor)
        PROVE  LinkInv'
    BY <2>1 DEF Consume, Consumable
  <2>2. CASE ExchangeCode(c) \/ CallbackFails(c)
    BY <2>2 DEF ExchangeCode, CallbackFails, MayLink
  <2>3. CASE ReadForCallback(c) \/ ListForCallback(c)
    BY <2>3, SMTT(60) DEF ReadForCallback, ListForCallback
  <2>4. CASE Bind(c)
    BY <2>4 DEF Bind
  <2> QED  BY <1>3, <2>1, <2>2, <2>3, <2>4 DEF CallbackStep
<1>4. ASSUME NEW h \in Hooks, HookStep(h)
      PROVE  LinkInv'
  <2>1. CASE ProcessInstallation(h) \/ ProcessRepositories(h)
    BY <2>1, LinkFrame
       DEF ProcessInstallation, ProcessRepositories, ApplyInstallation, ApplySnapshot
  <2>2. CASE (\E d \in DOMAIN sent : Receive(h, d)) \/ ReadForHook(h) \/ ListForHook(h) \/ HookFails(h)
    BY <2>2, LinkFrame DEF Receive, ReadForHook, ListForHook, HookFails
  <2> QED  BY <1>4, <2>1, <2>2 DEF HookStep
<1>5. ASSUME NEW q \in Requests, RequestStep(q)
      PROVE  LinkInv'
  BY <1>5, LinkFrame DEF RequestStep, Ask, CheckInstallation, MintToken, UseToken, Answer
<1>6. CASE UNCHANGED vars
  BY <1>6, LinkFrame DEF vars
<1> QED  BY <1>1, <1>2, <1>3, <1>4, <1>5, <1>6 DEF Next

----------------------------------------------------------------------------
(* Use.                                                                    *)

\* A change at GitHub reopens the requests it makes accessible.
LEMMA ChangeKeepsUse ==
    ASSUME TypeInv, UseInv, NEW event, NEW action, NEW status, NEW exact, NEW selection,
           Change(event, action, status, exact, selection)
    PROVE  UseInv'
<1>1. requests' = [q \in Requests |->
            [pc |-> requests[q].pc, repository |-> requests[q].repository,
             revoked |-> requests[q].revoked /\ ~Accessible(github', requests[q].repository)]]
  BY DEF Change
<1> QED  BY <1>1 DEF UseInv, NoUseAfterRevocation, Accessible

\* One step keeps revoked repositories out of use.
LEMMA UseStep ==
    ASSUME TypeInv, UseInv, [Next]_vars
    PROVE  UseInv'
<1>1. CASE GitHubChanges
  BY <1>1, ChangeKeepsUse
     DEF GitHubChanges, Delete, Suspend, Unsuspend, ChangePermissions, SelectRepositories
<1>2. ASSUME NEW q \in Requests, RequestStep(q)
      PROVE  UseInv'
  <2> USE DEF UseInv, NoUseAfterRevocation, TypeInv, TypeOK, ContinueRequest
  <2>1. github' = github
    BY <1>2 DEF RequestStep, Ask, CheckInstallation, MintToken, UseToken, Answer
  <2>2. ASSUME NEW r \in Repositories, Ask(q, r)
        PROVE  UseInv'
    BY <2>1, <2>2 DEF Ask, Accessible
  <2>3. CASE CheckInstallation(q)
    BY <2>1, <2>3 DEF CheckInstallation
  <2>4. CASE MintToken(q)
    BY <2>1, <2>4 DEF MintToken
  <2>5. CASE UseToken(q)
    BY <2>1, <2>5 DEF UseToken
  <2>6. CASE Answer(q)
    BY <2>1, <2>6 DEF Answer, IdleRequest
  <2> QED  BY <1>2, <2>2, <2>3, <2>4, <2>5, <2>6 DEF RequestStep
<1>3. CASE UNCHANGED <<github, requests>>
  BY <1>3 DEF UseInv, NoUseAfterRevocation
<1>4. ASSUME NEW s \in States,
             StateExpires(s) \/ \E actor \in Actors : BeginInstallation(s, actor)
      PROVE  UNCHANGED <<github, requests>>
  BY <1>4 DEF StateExpires, BeginInstallation
<1>5. ASSUME NEW c \in Callbacks, CallbackStep(c)
      PROVE  UNCHANGED <<github, requests>>
  BY <1>5 DEF CallbackStep, Consume, ExchangeCode, ReadForCallback, ListForCallback, Bind,
              CallbackFails
<1>6. ASSUME NEW h \in Hooks, HookStep(h)
      PROVE  UNCHANGED <<github, requests>>
  BY <1>6 DEF HookStep, Receive, ReadForHook, ListForHook, ProcessInstallation,
              ProcessRepositories, HookFails
<1>7. CASE UNCHANGED vars
  BY <1>3, <1>7 DEF vars
<1> QED  BY <1>1, <1>2, <1>3, <1>4, <1>5, <1>6, <1>7 DEF Next

----------------------------------------------------------------------------
(* Never more than GitHub.                                                 *)

\* The reducer never brings back what a webhook has taken away: neither an event
\* that is not newer, nor that webhook itself.
LEMMA ReduceHoldsBack ==
    ASSUME NEW time \in Nat \ {0}, NEW current, NEW transition,
           current \in [status: Statuses, at: Nat], transition \in [status: Statuses, at: Nat],
           transition.status = "ACTIVE" => transition.at <= time
    PROVE  LET next == Reduce(current, transition) IN
           /\ next.status = "ACTIVE" /\ (current.status = "ACTIVE" => current.at <= time)
              => next.at <= time
           /\ \/ current.status = "REMOVED"
              \/ current.status = "SUSPENDED" /\ current.at >= time
              \/ transition.status # "ACTIVE" /\ transition.at = time
                 /\ (current.status = "ACTIVE" => current.at <= time)
              => \/ next.status = "REMOVED"
                 \/ next.status = "SUSPENDED" /\ next.at >= time
  BY DEF Reduce, Precedence, Statuses, NoTime

\* Delivery identifiers and times of webhooks are positive.
LEMMA WebhookDated ==
    ASSUME TypeInv, NEW d \in DOMAIN sent
    PROVE  d \in Nat \ {0} /\ sent[d].at \in Nat \ {0}
<1>1. sent[d].at \in 1..github.at /\ github.at \in Nat
  BY GitHubAssumption DEF TypeInv, Clocks, TypeOK, Installation, Times
<1>2. d \in Nat \ {0}
  BY DEF TypeInv, TypeOK
<1> QED  BY <1>1, <1>2

\* An event that makes the installation unavailable blocks it.
LEMMA NewBlock ==
    ASSUME TypeInv, NEW action, NEW status, NEW exact \in BOOLEAN,
           Change("installation", action, status, exact, github.repositories),
           action \in {"deleted", "suspended"} \/ ~exact
    PROVE  Blocked'
<1> PICK e \in Nat : e = Len(sent) + 1
  BY DEF TypeInv, TypeOK
<1>1. PICK at \in {github.at, github.at + 1} :
         sent' = Append(sent, [event |-> "installation", action |-> action, at |-> at, exact |-> exact])
  BY DEF Change
<1>2. UNCHANGED <<deliveries, installation, callbacks, hooks, overtaken>>
  BY DEF Change, storeRows, handlers
<1> USE DEF TypeInv, TypeOK, Clocks
<1>3. /\ e \in DOMAIN sent' /\ sent'[e].event = "installation" /\ sent'[e].at = at
      /\ e \notin deliveries /\ github.at <= at
      /\ \A d \in DOMAIN sent' : sent'[d].at <= at
  BY <1>1 DEF Installation, Times
<1>4. Desired(sent'[e]) # "ACTIVE"
  BY <1>1 DEF Desired
<1>5. \A snapshot \in Snapshot : Dated(snapshot) => snapshot.at <= at /\ snapshot.taken < e
  BY <1>3 DEF Dated, Snapshot, Installation, Times
<1>6. \A c \in Callbacks : callbacks[c].snapshot.at <= at /\ callbacks[c].snapshot.taken < e
  BY <1>5 DEF CallbackState
<1>7. \A h \in Hooks : hooks[h].snapshot.at <= at /\ hooks[h].snapshot.taken < e
  BY <1>5 DEF HookState
<1>8. installation.at <= at
  BY <1>3 DEF Installation, InstallationRow, Times
<1>9. Blocking(e)'
  BY <1>2, <1>3, <1>4, <1>6, <1>7, <1>8 DEF Blocking
<1> QED  BY <1>3, <1>9 DEF Blocked

\* What blocked goes on blocking when GitHub sends an event that does not say
\* ACTIVE of the installation.
LEMMA StillBlocked ==
    ASSUME TypeInv, NeverAvailable \/ \E e \in DOMAIN sent : Blocking(e),
           UNCHANGED <<deliveries, installation, callbacks, hooks, overtaken>>,
           NEW event, sent' = Append(sent, event),
           event.event = "installation" => Desired(event) # "ACTIVE"
    PROVE  Blocked'
<1>1. CASE NeverAvailable
  BY <1>1 DEF Blocked, NeverAvailable
<1>2. ASSUME NEW e \in DOMAIN sent, Blocking(e)
      PROVE  Blocked'
  <2>1. /\ e \in DOMAIN sent' /\ sent'[e] = sent[e]
        /\ \A d \in DOMAIN sent' : (d \in DOMAIN sent /\ sent'[d] = sent[d]) \/ sent'[d] = event
    BY DEF TypeInv, TypeOK
  <2>2. Blocking(e)'
    BY <1>2, <2>1 DEF Blocking
  <2> QED  BY <2>1, <2>2 DEF Blocked
<1> QED  BY <1>1, <1>2

\* A change at GitHub either leaves the installation available, or blocks it, or
\* leaves it blocked.
LEMMA ChangeBlocks ==
    ASSUME TypeInv, Blocked, GitHubChanges
    PROVE  Blocked'
<1> USE DEF Statuses
<1>1. CASE Delete \/ Suspend
  BY <1>1, NewBlock DEF Delete, Suspend, TypeInv, TypeOK, Installation
<1>2. ASSUME NEW exact \in BOOLEAN,
             Change("installation", "new_permissions_accepted", "ACTIVE", exact, github.repositories)
      PROVE  Blocked'
  <2>1. CASE exact
    BY <1>2, <2>1 DEF Change, Blocked, Available
  <2>2. CASE ~exact
    BY <1>2, <2>2, NewBlock
  <2> QED  BY <2>1, <2>2
<1>3. CASE Unsuspend
  <2>1. CASE github.exact
    BY <1>3, <2>1 DEF Unsuspend, Change, Blocked, Available
  <2>2. CASE ~github.exact
    BY <1>3, <2>2, NewBlock DEF Unsuspend, TypeInv, TypeOK, Installation
  <2> QED  BY <2>1, <2>2
<1>4. ASSUME NEW R \in SUBSET Repositories, SelectRepositories(R)
      PROVE  Blocked'
  <2>1. CASE Available(github)
    BY <1>4, <2>1 DEF SelectRepositories, Change, Blocked, Available
  <2>2. CASE ~Available(github)
    BY <1>4, <2>2, StillBlocked DEF SelectRepositories, Change, Blocked, storeRows, handlers
  <2> QED  BY <2>1, <2>2
<1> QED  BY <1>1, <1>2, <1>3, <1>4 DEF GitHubChanges, ChangePermissions

\* What blocked goes on blocking when callbacks and hooks drop what they have read.
LEMMA DroppedBlocked ==
    ASSUME Blocked,
           UNCHANGED <<github, sent, deliveries, installation, overtaken>>,
           \A c \in Callbacks :
               \/ callbacks'[c] = callbacks[c]
               \/ /\ callbacks'[c].snapshot = NoSnapshot
                  /\ callbacks'[c].pc \notin {"listing", "binding"},
           \A h \in Hooks : hooks'[h] = hooks[h] \/ hooks'[h].snapshot = NoSnapshot,
           TypeInv
    PROVE  Blocked'
<1>1. CASE Available(github)
  BY <1>1 DEF Blocked
<1>2. CASE NeverAvailable
  BY <1>2 DEF Blocked, NeverAvailable
<1>3. ASSUME NEW e \in DOMAIN sent, Blocking(e)
      PROVE  Blocked'
  <2>1. sent[e].at \in Nat /\ e \in Nat \ {0}
    BY WebhookDated
  <2>2. NoSnapshot.at <= sent[e].at /\ NoSnapshot.taken < e
    BY <2>1 DEF NoSnapshot, NoTime
  <2>3. \A c \in Callbacks :
           callbacks'[c].snapshot.at <= sent[e].at /\ callbacks'[c].snapshot.taken < e
    BY <1>3, <2>2 DEF Blocking
  <2>4. \A h \in Hooks : hooks'[h].snapshot.at <= sent[e].at /\ hooks'[h].snapshot.taken < e
    BY <1>3, <2>2 DEF Blocking
  <2>5. Blocking(e)'
    BY <1>3, <2>3, <2>4 DEF Blocking
  <2> QED  BY <2>5 DEF Blocked
<1> QED  BY <1>1, <1>2, <1>3 DEF Blocked

\* A snapshot that is bound while the installation is blocked is older than the
\* webhook that blocks it.
LEMMA BindStaysBlocked ==
    ASSUME TypeInv, NEW c \in Callbacks, Bind(c), NEW e \in DOMAIN sent, Blocking(e)
    PROVE  Blocking(e)'
<1>1. /\ installation' = [actor |-> callbacks[c].actor, status |-> "ACTIVE",
                          at |-> callbacks[c].snapshot.at]
      /\ callbacks' = [callbacks EXCEPT ![c] = IdleCallback]
      /\ overtaken' = (overtaken \/ \E d \in deliveries : d > callbacks[c].snapshot.taken)
      /\ UNCHANGED <<sent, deliveries, hooks>>
  BY DEF Bind, Overtakes, Callback
<1>2. callbacks[c].snapshot.at <= sent[e].at /\ callbacks[c].snapshot.taken < e
      /\ callbacks[c].snapshot.taken \in Nat /\ e \in Nat \ {0} /\ sent[e].at \in Nat
  BY GitHubAssumption, WebhookDated
     DEF Blocking, TypeInv, TypeOK, CallbackState, Snapshot
<1>3. e \in deliveries => overtaken'
  BY <1>1, <1>2
<1>4. IdleCallback.snapshot.at <= sent[e].at /\ IdleCallback.snapshot.taken < e
  BY <1>2 DEF IdleCallback, NoSnapshot, NoTime
<1>5. \A b \in Callbacks :
         callbacks'[b].snapshot.at <= sent[e].at /\ callbacks'[b].snapshot.taken < e
  BY <1>1, <1>4 DEF Blocking, TypeInv, TypeOK
<1> QED  BY <1>1, <1>2, <1>3, <1>5 DEF Blocking

\* An installation webhook leaves the row blocked, or blocks it.
LEMMA InstallationStaysBlocked ==
    ASSUME TypeInv, NEW h \in Hooks, ProcessInstallation(h), NEW e \in DOMAIN sent, Blocking(e)
    PROVE  Blocking(e)'
<1> DEFINE d == hooks[h].delivery
           current == [status |-> installation.status, at |-> installation.at]
           transition == [status |-> Desired(sent[d]), at |-> sent[d].at]
<1> USE DEF TypeInv, TypeOK
<1>1. /\ d \in DOMAIN sent /\ sent[d].event = "installation"
      /\ deliveries' = deliveries \cup {d}
      /\ hooks' = [hooks EXCEPT ![h] = IdleHook]
      /\ UNCHANGED <<sent, callbacks, overtaken>>
  BY DEF ProcessInstallation, Clocks, Hook
<1>2. sent[e].at \in Nat \ {0} /\ e \in Nat \ {0} /\ sent[d].at \in Nat
  BY <1>1, WebhookDated
<1>3. current \in [status: Statuses, at: Nat] /\ transition \in [status: Statuses, at: Nat]
  BY <1>2 DEF Desired, Statuses, InstallationRow, Times
<1>4. transition.status = "ACTIVE" => transition.at <= sent[e].at
  BY <1>1 DEF Blocking
<1>5. CASE d \in deliveries \/ installation.actor = NoActor
  <2>1. installation' = installation
    BY <1>5 DEF ProcessInstallation, storeRows
  <2> QED  BY <1>1, <1>2, <1>5, <2>1 DEF Blocking, IdleHook, NoSnapshot, NoTime
<1>6. CASE d \notin deliveries /\ installation.actor # NoActor
  <2> DEFINE next == Reduce(current, transition)
  <2>1. installation' = [actor |-> installation.actor, status |-> next.status, at |-> next.at]
    BY <1>6 DEF ProcessInstallation, ApplyInstallation
  <2>2. d = e => transition.status # "ACTIVE" /\ transition.at = sent[e].at
    BY DEF Blocking
  <2>3. /\ next.status = "ACTIVE" /\ (current.status = "ACTIVE" => current.at <= sent[e].at)
           => next.at <= sent[e].at
        /\ \/ current.status = "REMOVED"
           \/ current.status = "SUSPENDED" /\ current.at >= sent[e].at
           \/ transition.status # "ACTIVE" /\ transition.at = sent[e].at
              /\ (current.status = "ACTIVE" => current.at <= sent[e].at)
           => \/ next.status = "REMOVED"
              \/ next.status = "SUSPENDED" /\ next.at >= sent[e].at
    BY <1>2, <1>3, <1>4, ReduceHoldsBack, SMTT(60)
  <2>4. next.status = "ACTIVE" => next.at <= sent[e].at
    BY <2>3 DEF Blocking
  <2>5. e \in deliveries' /\ ~overtaken => \/ next.status = "REMOVED"
                                           \/ next.status = "SUSPENDED" /\ next.at >= sent[e].at
    BY <1>1, <1>6, <2>2, <2>3 DEF Blocking
  <2> HIDE DEF d, current, transition, next
  <2>6. \A g \in Hooks : hooks'[g].snapshot.at <= sent[e].at /\ hooks'[g].snapshot.taken < e
    BY <1>1, <1>2 DEF Blocking, IdleHook, NoSnapshot, NoTime
  <2> QED  BY <1>1, <2>1, <2>4, <2>5, <2>6 DEF Blocking
<1> QED  BY <1>5, <1>6

\* A repository webhook applies a snapshot that is older than what blocks.
LEMMA RepositoriesStayBlocked ==
    ASSUME TypeInv, NEW h \in Hooks, ProcessRepositories(h), NEW e \in DOMAIN sent, Blocking(e)
    PROVE  Blocking(e)'
<1> USE DEF TypeInv, TypeOK
<1>1. /\ deliveries' = deliveries \cup {hooks[h].delivery}
      /\ e # hooks[h].delivery
      /\ hooks' = [hooks EXCEPT ![h] = IdleHook]
      /\ UNCHANGED <<sent, callbacks>>
  BY DEF ProcessRepositories, Hook, Blocking
<1>2. /\ hooks[h].snapshot.at <= sent[e].at /\ hooks[h].snapshot.taken < e
      /\ hooks[h].snapshot.taken \in Nat /\ e \in Nat \ {0} /\ sent[e].at \in Nat
  BY GitHubAssumption, WebhookDated DEF Blocking, HookState, Snapshot
<1>3. \A g \in Hooks : hooks'[g].snapshot.at <= sent[e].at /\ hooks'[g].snapshot.taken < e
  <2>1. IdleHook.snapshot.at <= sent[e].at /\ IdleHook.snapshot.taken < e
    BY <1>2 DEF IdleHook, NoSnapshot, NoTime
  <2> QED  BY <1>1, <2>1 DEF Blocking
<1>4. CASE installation.actor = NoActor
  BY <1>1, <1>3, <1>4 DEF ProcessRepositories, storeRows, Blocking
<1>5. CASE installation.actor # NoActor
  <2>1. /\ overtaken' = (overtaken \/ \E d \in deliveries : d > hooks[h].snapshot.taken)
        /\ installation' = [actor |-> installation.actor, status |-> installation.status,
                            at |-> IF hooks[h].snapshot.at = NoTime
                                   THEN installation.at ELSE hooks[h].snapshot.at]
    BY <1>5 DEF ProcessRepositories, ApplySnapshot, Overtakes
  <2>2. e \in deliveries => overtaken'
    BY <1>2, <2>1
  <2> QED  BY <1>1, <1>2, <1>3, <2>1, <2>2 DEF Blocking
<1> QED  BY <1>4, <1>5

\* One step leaves what is not available blocked.
LEMMA BlockStep ==
    ASSUME TypeInv, Blocked, [Next]_vars
    PROVE  Blocked'
<1>1. CASE GitHubChanges
  BY <1>1, ChangeBlocks
<1>2. CASE UNCHANGED <<github, sent, deliveries, installation, callbacks, hooks, overtaken>>
  BY <1>2 DEF Blocked, NeverAvailable, Blocking, Available
<1>3. ASSUME NEW s \in States,
             StateExpires(s) \/ \E actor \in Actors : BeginInstallation(s, actor)
      PROVE  Blocked'
  BY <1>2, <1>3 DEF StateExpires, BeginInstallation, storeRows, handlers
<1>4. ASSUME NEW q \in Requests, RequestStep(q)
      PROVE  Blocked'
  BY <1>2, <1>4 DEF RequestStep, Ask, CheckInstallation, MintToken, UseToken, Answer, storeRows, handlers
<1>5. ASSUME Available(github), github' = github
      PROVE  Blocked'
  BY <1>5 DEF Blocked, Available
<1>6. ASSUME NEW c \in Callbacks, CallbackStep(c)
      PROVE  Blocked'
  <2>1. github' = github
    BY <1>6 DEF CallbackStep, Consume, ExchangeCode, ReadForCallback, ListForCallback, Bind, CallbackFails
  <2>2. CASE ReadForCallback(c) \/ ListForCallback(c)
    BY <1>5, <2>1, <2>2 DEF ReadForCallback, ListForCallback, LiveInstallation
  <2>3. CASE (\E s \in States, actor \in Actors : Consume(c, s, actor)) \/ ExchangeCode(c) \/ CallbackFails(c)
    <3>1. \A b \in Callbacks : \/ callbacks'[b] = callbacks[b]
                               \/ /\ callbacks'[b].snapshot = NoSnapshot
                                  /\ callbacks'[b].pc \notin {"listing", "binding"}
      BY <2>3 DEF Consume, ExchangeCode, CallbackFails, Callback, ContinueCallback, IdleCallback,
                  TypeInv, TypeOK
    <3>2. UNCHANGED <<github, sent, deliveries, installation, overtaken, hooks>>
      BY <2>3 DEF Consume, ExchangeCode, CallbackFails, storeRows
    <3> QED  BY <2>1, <3>1, <3>2, DroppedBlocked
  <2>4. CASE Bind(c)
    <3>1. ~NeverAvailable
      BY <2>4 DEF NeverAvailable, Bind
    <3>2. UNCHANGED sent
      BY <2>4 DEF Bind
    <3> QED  BY <1>5, <2>1, <2>4, <3>1, <3>2, BindStaysBlocked DEF Blocked
  <2> QED  BY <1>6, <2>2, <2>3, <2>4 DEF CallbackStep
<1>7. ASSUME NEW h \in Hooks, HookStep(h)
      PROVE  Blocked'
  <2>1. UNCHANGED <<github, sent, callbacks>>
    BY <1>7 DEF HookStep, Receive, ReadForHook, ListForHook, ProcessInstallation,
                ProcessRepositories, HookFails
  <2>2. CASE ReadForHook(h) \/ ListForHook(h)
    BY <1>5, <2>1, <2>2 DEF ReadForHook, ListForHook, LiveInstallation
  <2>3. CASE (\E d \in DOMAIN sent : Receive(h, d)) \/ HookFails(h)
    <3>1. \A g \in Hooks : hooks'[g] = hooks[g] \/ hooks'[g].snapshot = NoSnapshot
      BY <2>3 DEF Receive, HookFails, Hook, IdleHook, TypeInv, TypeOK
    <3>2. UNCHANGED <<deliveries, installation, overtaken>>
      BY <2>3 DEF Receive, HookFails, storeRows
    <3> QED  BY <2>1, <3>1, <3>2, DroppedBlocked
  <2>4. CASE ProcessInstallation(h) \/ ProcessRepositories(h)
    <3>1. CASE NeverAvailable
      BY <2>1, <2>4, <3>1 DEF Blocked, NeverAvailable, ProcessInstallation, ProcessRepositories, storeRows
    <3>2. ASSUME NEW e \in DOMAIN sent, Blocking(e)
          PROVE  Blocked'
      BY <2>1, <2>4, <3>2, InstallationStaysBlocked, RepositoriesStayBlocked DEF Blocked
    <3> QED  BY <1>5, <2>1, <3>1, <3>2 DEF Blocked
  <2> QED  BY <1>7, <2>2, <2>3, <2>4 DEF HookStep
<1>8. CASE UNCHANGED vars
  BY <1>2, <1>8 DEF vars, storeRows, handlers
<1> QED  BY <1>1, <1>3, <1>4, <1>6, <1>7, <1>8 DEF Next

\* What is blocked is not granted by the store once every webhook is in.
LEMMA BlockedIsNotGranted == TypeInv /\ Blocked => NeverMoreThanGitHub
  BY DEF Blocked, NeverAvailable, Blocking, NeverMoreThanGitHub, Processed

----------------------------------------------------------------------------
(* The theorems.                                                           *)

\* Installation events reduce to the same state in either order and however often
\* each of them is delivered (reduceGitHubAuthorizationState).
THEOREM ReductionIgnoresOrder ==
    ASSUME NEW current, current \in [status: Statuses, at: Nat],
           NEW first, first \in [status: Statuses, at: Nat \ {0}],
           NEW second, second \in [status: Statuses, at: Nat \ {0}]
    PROVE  /\ Reduce(Reduce(current, first), second) = Reduce(Reduce(current, second), first)
           /\ Reduce(Reduce(current, first), first) = Reduce(current, first)
  BY DEF Reduce, Precedence, Statuses, NoTime

\* The inductive invariant of the store, the set-up flow and its users.
AuthorizationInv == TypeInv /\ LinkInv /\ UseInv /\ Blocked

LEMMA InitAuthorized == Init => LinkInv /\ UseInv /\ Blocked
<1> SUFFICES ASSUME Init
             PROVE  LinkInv /\ UseInv /\ Blocked
  OBVIOUS
<1>1. LinkInv
  BY DEF Init, LinkInv, CallbacksActed, OneCallbackPerState, BoundByItsOwner, IdleCallback
<1>2. UseInv
  BY DEF Init, UseInv, NoUseAfterRevocation, IdleRequest
<1>3. Blocked
  BY DEF Init, Blocked, NeverAvailable, IdleCallback
<1> QED  BY <1>1, <1>2, <1>3

\* Links, uses and the effects of revocations stay in step in every reachable state.
THEOREM AuthorizationInvariant == Spec => []AuthorizationInv
<1>1. Init => TypeInv
  BY InitTyped
<1>2. AuthorizationInv /\ [Next]_vars => AuthorizationInv'
  BY TypeStep, LinkStep, UseStep, BlockStep DEF AuthorizationInv
<1> QED  BY <1>1, <1>2, InitAuthorized, PTL DEF Spec, AuthorizationInv

\* A one-time state is consumed by one callback, of the actor it was made for.
THEOREM StatesSpentOnce == Spec => []OneCallbackPerState
<1>1. AuthorizationInv => OneCallbackPerState
  BY DEF AuthorizationInv, LinkInv
<1> QED  BY <1>1, AuthorizationInvariant, PTL

\* Only a principal who can access the installation on GitHub binds it (bind).
THEOREM OwnersBind == Spec => []BoundByItsOwner
<1>1. AuthorizationInv => BoundByItsOwner
  BY DEF AuthorizationInv, LinkInv
<1> QED  BY <1>1, AuthorizationInvariant, PTL

\* No request uses a repository that was not accessible since it began
\* (resolveRevision, withArchiveCredential).
THEOREM RevokedIsNotUsed == Spec => []NoUseAfterRevocation
<1>1. AuthorizationInv => NoUseAfterRevocation
  BY DEF AuthorizationInv, UseInv
<1> QED  BY <1>1, AuthorizationInvariant, PTL

\* When all webhooks are in, in any order and number, the store grants no more
\* than GitHub, unless a snapshot overtook a later webhook (processWebhook).
THEOREM StoreFollowsGitHub == Spec => []NeverMoreThanGitHub
<1>1. AuthorizationInv => NeverMoreThanGitHub
  BY BlockedIsNotGranted DEF AuthorizationInv
<1> QED  BY <1>1, AuthorizationInvariant, PTL
=============================================================================
