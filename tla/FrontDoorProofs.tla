--------------------------- MODULE FrontDoorProofs ---------------------------
(***************************************************************************)
(* What the front door promises, proved for every value of the constants.  *)
(*                                                                         *)
(* The door composes three parts that share no state.  The first lemmas    *)
(* say what a step of the door may be for each part; the invariants of the *)
(* parts then follow from the parts' own steps.  Only the charging of      *)
(* exports relates the requests under way to the rows of the tenant.       *)
(***************************************************************************)
EXTENDS FrontDoor, TLAPS, FiniteSetTheorems

----------------------------------------------------------------------------
(* The door's steps, as each part sees them.                               *)

FinishVerification(c) ==
    /\ verifications' = [verifications EXCEPT ![c] = NoVerification]
    /\ UNCHANGED <<published, retired, cached>>

TrustNext ==
    \/ \E k \in Keys : PublishKey(k) \/ RetireKey(k)
    \/ \E c \in Callers :
          \/ \E k \in Keys : BeginVerification(c, k)
          \/ ProviderAnswers(c) \/ KeySetArrives(c) \/ FetchFails(c) \/ FetchThrows(c)
          \/ FinishVerification(c)
    \/ TrustTick

FinishCheck(a) == CheckUsed(a) /\ UNCHANGED <<runner, probes, findings>>

RunnerNext ==
    \/ RunnerChanges
    \/ \E p \in Probes : ProbeStep(p)
    \/ \E a \in Askers :
          \/ \E p \in Probes : Check(a, p)
          \/ CheckTimesOut(a)
          \/ FinishCheck(a)
    \/ RunnerTick

AccountNext ==
    \/ \E c \in Callers : LogIn(Asked(c).subject)
    \/ \E c \in Callers : ReserveCase(CommandOf(c))
    \/ \E c \in Callers : \E day \in 0..MaxDays : Consume(Asked(c).subject, Asked(c).key, day)
    \/ \E c \in Callers : AppendExportAudit(Asked(c).key)
    \/ RequestDeletion
    \/ AccountEnvironment

\* Verifications are begun by requests that show a token, and end with the answer.
LEMMA TrustProjection == [DoorNext]_doorVars => [TrustNext]_trustVars
<1> SUFFICES ASSUME [DoorNext]_doorVars PROVE [TrustNext]_trustVars
  OBVIOUS
<1>1. ASSUME NEW c \in Callers, Handle(c) PROVE [TrustNext]_trustVars
  <2>1. CASE ServicesResolved(c) BY <2>1 DEF ServicesResolved, Elsewhere
  <2>2. CASE PresentToken(c) BY <2>2 DEF PresentToken, TrustNext
  <2>3. CASE Verified(c) BY <2>3 DEF Verified, TrustNext, FinishVerification
  <2>4. CASE ReadPrincipal(c) BY <2>4 DEF ReadPrincipal, Elsewhere
  <2>5. CASE OpenSession(c) BY <2>5 DEF OpenSession
  <2>6. CASE ResolveSource(c) \/ LookUp(c) \/ Publish(c) \/ Archive(c)
    BY <2>6 DEF ResolveSource, LookUp, Publish, Archive, Elsewhere
  <2>7. CASE CheckFlags(c) BY <2>7 DEF CheckFlags
  <2>8. CASE CheckRunner(c) BY <2>8 DEF CheckRunner
  <2>9. CASE Reserve(c) BY <2>9 DEF Reserve
  <2>10. CASE Operate(c) BY <2>10 DEF Operate
  <2>11. CASE ConsumeQuota(c) BY <2>11 DEF ConsumeQuota
  <2>12. CASE RecordExport(c) BY <2>12 DEF RecordExport
  <2>13. CASE ReportHealth(c) BY <2>13 DEF ReportHealth
  <2> QED
    BY <1>1, <2>1, <2>2, <2>3, <2>4, <2>5, <2>6, <2>7, <2>8, <2>9, <2>10, <2>11, <2>12, <2>13
    DEF Handle
<1>2. ASSUME NEW c \in Callers, NEW r \in Requests, Begin(c, r) PROVE [TrustNext]_trustVars
  BY <1>2 DEF Begin, Elsewhere
<1>3. ASSUME NEW c \in Callers, Forget(c) PROVE [TrustNext]_trustVars
  BY <1>3 DEF Forget, Elsewhere
<1>4. CASE MakeServices BY <1>4 DEF MakeServices
<1>5. CASE Trust BY <1>5 DEF Trust, TrustNext
<1>6. CASE Probing \/ Accounts BY <1>6 DEF Probing, Accounts
<1>7. CASE DoorTick BY <1>7 DEF DoorTick, TrustNext
<1>8. CASE UNCHANGED doorVars BY <1>8 DEF doorVars
<1> QED BY <1>1, <1>2, <1>3, <1>4, <1>5, <1>6, <1>7, <1>8 DEF DoorNext

\* Whoever asks for the runner's state is a request, and forgets it with the answer.
LEMMA RunnerProjection == [DoorNext]_doorVars => [RunnerNext]_runnerVars
<1> SUFFICES ASSUME [DoorNext]_doorVars PROVE [RunnerNext]_runnerVars
  OBVIOUS
<1> USE DoorAssumption
<1>1. ASSUME NEW c \in Callers, Handle(c) PROVE [RunnerNext]_runnerVars
  <2>1. CASE ServicesResolved(c) BY <2>1 DEF ServicesResolved, Elsewhere
  <2>2. CASE PresentToken(c) BY <2>2 DEF PresentToken
  <2>3. CASE Verified(c) BY <2>3 DEF Verified
  <2>4. CASE ReadPrincipal(c) BY <2>4 DEF ReadPrincipal, Elsewhere
  <2>5. CASE OpenSession(c) BY <2>5 DEF OpenSession
  <2>6. CASE ResolveSource(c) \/ LookUp(c) \/ Publish(c) \/ Archive(c)
    BY <2>6 DEF ResolveSource, LookUp, Publish, Archive, Elsewhere
  <2>7. CASE CheckFlags(c) BY <2>7 DEF CheckFlags, RunnerNext
  <2>8. CASE CheckRunner(c) BY <2>8 DEF CheckRunner, RunnerNext, FinishCheck
  <2>9. CASE Reserve(c) BY <2>9 DEF Reserve
  <2>10. CASE Operate(c) BY <2>10 DEF Operate
  <2>11. CASE ConsumeQuota(c) BY <2>11 DEF ConsumeQuota
  <2>12. CASE RecordExport(c) BY <2>12 DEF RecordExport
  <2>13. CASE ReportHealth(c) BY <2>13 DEF ReportHealth, RunnerNext, FinishCheck
  <2> QED
    BY <1>1, <2>1, <2>2, <2>3, <2>4, <2>5, <2>6, <2>7, <2>8, <2>9, <2>10, <2>11, <2>12, <2>13
    DEF Handle
<1>2. ASSUME NEW c \in Callers, NEW r \in Requests, Begin(c, r) PROVE [RunnerNext]_runnerVars
  BY <1>2 DEF Begin, Elsewhere, RunnerNext
<1>3. ASSUME NEW c \in Callers, Forget(c) PROVE [RunnerNext]_runnerVars
  BY <1>3 DEF Forget, Elsewhere
<1>4. CASE MakeServices BY <1>4 DEF MakeServices
<1>5. CASE Trust \/ Accounts BY <1>5 DEF Trust, Accounts
<1>6. CASE Probing BY <1>6 DEF Probing, RunnerNext
<1>7. CASE DoorTick BY <1>7 DEF DoorTick, RunnerNext
<1>8. CASE UNCHANGED doorVars BY <1>8 DEF doorVars
<1> QED BY <1>1, <1>2, <1>3, <1>4, <1>5, <1>6, <1>7, <1>8 DEF DoorNext

----------------------------------------------------------------------------
(* Keys.                                                                   *)

\* A key is at most so many ticks out of date.
Recent(k, ticks) == k \in published \/ retired[k] <= ticks

\* What a request has read is as old as the request, what is kept as old as that and
\* the request that brought it together; a second request lacks no key that was
\* published all along.
KeysInv ==
    /\ published \subseteq Keys
    /\ retired \in [Keys -> 0..RetiredBound]
    /\ \A k \in published : retired[k] = 0
    /\ verifications \in [Callers -> Verification]
    /\ \A c \in Callers :
          /\ verifications[c].steady => verifications[c].key \in published
          /\ verifications[c].keys # NoMaterial /\ verifications[c].steady
                => verifications[c].key \in verifications[c].keys
          /\ verifications[c].keys # NoMaterial =>
                Asking(c) /\ \A k \in verifications[c].keys : Recent(k, verifications[c].age)
    /\ cached # NoMaterial =>
          /\ cached \in [keys : SUBSET Keys, age : 0..CacheTicks]
          /\ cached.age < CacheTicks
                => \A k \in cached.keys : Recent(k, FetchTicks + cached.age)

\* What signingKey makes of a set: nothing read is left, and only a second look may
\* find that the key is unknown.
LEMMA FoundKey ==
    ASSUME NEW v \in Verification, NEW keys, NEW how
    PROVE  /\ FindKey(v, keys, how) \in Verification
           /\ FindKey(v, keys, how).key = v.key
           /\ FindKey(v, keys, how).steady = v.steady
           /\ FindKey(v, keys, how).keys = NoMaterial
           /\ FindKey(v, keys, how).pc = "trusted" => v.key \in keys
           /\ FindKey(v, keys, how).pc = "unknown" => how = "forced" /\ v.key \notin keys
<1> USE TrustAssumption
<1>1. \A pc \in {"trusted", "unknown", "forced"} :
         /\ Became(v, pc) \in Verification
         /\ Became(v, pc).pc = pc /\ Became(v, pc).key = v.key
         /\ Became(v, pc).steady = v.steady /\ Became(v, pc).keys = NoMaterial
  BY DEF Became, Verification
<1>2. CASE v.key \in keys BY <1>1, <1>2 DEF FindKey
<1>3. CASE v.key \notin keys /\ how # "forced" BY <1>1, <1>3 DEF FindKey
<1>4. CASE v.key \notin keys /\ how = "forced" BY <1>1, <1>4 DEF FindKey
<1> QED BY <1>2, <1>3, <1>4

\* A withdrawal and a tick change one field of a verification each.
LEMMA Unsteady ==
    ASSUME NEW v \in Verification
    PROVE  LET w == [v EXCEPT !.steady = FALSE] IN
           w \in Verification /\ w.key = v.key /\ w.keys = v.keys /\ w.age = v.age /\ ~w.steady
  BY DEF Verification

LEMMA Older ==
    ASSUME NEW v \in Verification, v.age + 1 \in 0..FetchTicks
    PROVE  LET w == [v EXCEPT !.age = v.age + 1] IN
           /\ w \in Verification /\ w.pc = v.pc /\ w.key = v.key /\ w.keys = v.keys
           /\ w.steady = v.steady /\ w.age = v.age + 1
  BY DEF Verification

LEMMA InitKeys == TrustInit => KeysInv
<1> SUFFICES ASSUME TrustInit PROVE KeysInv
  OBVIOUS
<1> USE TrustAssumption
<1>1. RetiredBound \in Nat BY DEF RetiredBound
<1>2. NoVerification \in Verification /\ ~NoVerification.steady /\ NoVerification.keys = NoMaterial
  BY DEF NoVerification, Verification
<1>3. retired \in [Keys -> 0..RetiredBound] /\ \A k \in published : retired[k] = 0
  BY <1>1 DEF TrustInit
<1> QED BY <1>2, <1>3 DEF TrustInit, KeysInv

LEMMA KeysStep == KeysInv /\ [TrustNext]_trustVars => KeysInv'
<1> SUFFICES ASSUME KeysInv, [TrustNext]_trustVars PROVE KeysInv'
  OBVIOUS
<1> USE TrustAssumption DEF Asking
<1>0. RetiredBound \in Nat /\ RetiredBound = CacheTicks + FetchTicks BY DEF RetiredBound
<1>1. ASSUME NEW k \in Keys, PublishKey(k) PROVE KeysInv'
  BY <1>0, <1>1 DEF PublishKey, KeysInv, Recent
<1>2. ASSUME NEW k \in Keys, RetireKey(k) PROVE KeysInv'
  <2>1. \A c \in Callers :
           /\ verifications'[c] \in Verification
           /\ verifications'[c].key = verifications[c].key
           /\ verifications'[c].keys = verifications[c].keys
           /\ verifications'[c].age = verifications[c].age
           /\ verifications'[c].steady => verifications[c].steady /\ verifications[c].key # k
    <3> TAKE c \in Callers
    <3>1. verifications[c] \in Verification /\ verifications[c].steady \in BOOLEAN
      BY DEF KeysInv, Verification
    <3>2. verifications'[c] = IF verifications[c].key = k
                              THEN [verifications[c] EXCEPT !.steady = FALSE]
                              ELSE verifications[c]
      BY <1>2 DEF RetireKey
    <3>3. CASE verifications[c].key = k BY <3>1, <3>2, <3>3, Unsteady
    <3>4. CASE verifications[c].key # k BY <3>1, <3>2, <3>4
    <3> QED BY <3>3, <3>4
  <2>2. verifications' \in [Callers -> Verification]
    BY <1>2, <2>1 DEF RetireKey
  <2>3. \A j \in Keys, n \in Nat : Recent(j, n) => Recent(j, n)'
    BY <1>2 DEF RetireKey, KeysInv, Recent
  <2> QED BY <1>2, <2>1, <2>2, <2>3 DEF RetireKey, KeysInv, Verification
<1>3. ASSUME NEW c \in Callers, NEW k \in Keys, BeginVerification(c, k) PROVE KeysInv'
  <2> DEFINE v == [pc |-> "first", key |-> k, keys |-> NoMaterial, age |-> 0,
                   steady |-> k \in published]
  <2>0. v \in Verification BY DEF Verification
  <2>1. /\ verifications'[c] \in Verification
        /\ verifications'[c].key = k /\ verifications'[c].steady = (k \in published)
        /\ verifications'[c].keys = NoMaterial
    BY <1>3, <2>0, FoundKey DEF BeginVerification, KeysInv
  <2> QED BY <1>3, <2>1 DEF BeginVerification, KeysInv, Recent
<1>4. ASSUME NEW c \in Callers, ProviderAnswers(c) PROVE KeysInv'
  BY <1>4 DEF ProviderAnswers, KeysInv, Verification, Recent
<1>5. ASSUME NEW c \in Callers, KeySetArrives(c) PROVE KeysInv'
  <2> DEFINE v == verifications[c]
  <2>1. v \in Verification /\ v.keys \in SUBSET Keys /\ v.age \in 0..FetchTicks
    BY <1>5 DEF KeySetArrives, KeysInv, Verification
  <2>2. verifications' = [verifications EXCEPT ![c] = FindKey(v, v.keys, v.pc)]
    BY <1>5 DEF KeySetArrives, KeysInv
  <2>3. /\ verifications' \in [Callers -> Verification]
        /\ \A d \in Callers :
              d # c => verifications'[d] = verifications[d]
        /\ verifications'[c].key = v.key /\ verifications'[c].steady = v.steady
        /\ verifications'[c].keys = NoMaterial
    BY <2>1, <2>2, FoundKey DEF KeysInv
  <2>4. /\ cached' = [keys |-> v.keys, age |-> 0]
        /\ \A k \in v.keys : Recent(k, v.age)
        /\ UNCHANGED <<published, retired>>
    BY <1>5 DEF KeySetArrives, KeysInv
  <2>5. /\ cached' \in [keys : SUBSET Keys, age : 0..CacheTicks]
        /\ cached'.keys = v.keys /\ cached'.age = 0
    BY <2>1, <2>4
  <2>6. \A k \in v.keys : Recent(k, FetchTicks + 0)'
    BY <2>1, <2>4, <1>0 DEF Recent, KeysInv
  <2>7. \A d \in Callers :
           /\ verifications'[d].steady => verifications'[d].key \in published'
           /\ verifications'[d].keys # NoMaterial =>
                 /\ Asking(d)'
                 /\ verifications'[d].steady => verifications'[d].key \in verifications'[d].keys
                 /\ \A k \in verifications'[d].keys : Recent(k, verifications[d].age)'
    BY <2>3, <2>4 DEF KeysInv, Recent, Asking
  <2> QED BY <2>3, <2>4, <2>5, <2>6, <2>7 DEF KeysInv, Recent
<1>6. ASSUME NEW c \in Callers, FetchFails(c) \/ FetchThrows(c) PROVE KeysInv'
  <2>1. /\ verifications[c] \in Verification
        /\ \E pc \in {"unavailable", "unread"} :
              verifications' = [verifications EXCEPT ![c] = Became(verifications[c], pc)]
    BY <1>6 DEF FetchFails, FetchThrows, KeysInv
  <2>2. \A pc \in {"unavailable", "unread"} :
           /\ Became(verifications[c], pc) \in Verification
           /\ Became(verifications[c], pc).key = verifications[c].key
           /\ Became(verifications[c], pc).steady = verifications[c].steady
           /\ Became(verifications[c], pc).keys = NoMaterial
    BY <2>1 DEF Became, Verification
  <2> QED BY <1>6, <2>1, <2>2 DEF FetchFails, FetchThrows, KeysInv, Recent
<1>7. ASSUME NEW c \in Callers, FinishVerification(c) PROVE KeysInv'
  BY <1>7 DEF FinishVerification, NoVerification, KeysInv, Verification, Recent
<1>8. CASE TrustTick
  <2>1. /\ retired' \in [Keys -> 0..RetiredBound] /\ published' = published
        /\ \A k \in Keys : retired'[k] <= retired[k] + 1
        /\ \A k \in published : retired'[k] = 0
    BY <1>0, <1>8 DEF TrustTick, KeysInv
  <2>2. \A k \in Keys, n \in Nat : Recent(k, n) => Recent(k, n + 1)'
    BY <1>0, <2>1 DEF KeysInv, Recent
  <2>3. \A c \in Callers :
           /\ verifications'[c] \in Verification
           /\ verifications'[c].key = verifications[c].key
           /\ verifications'[c].keys = verifications[c].keys
           /\ verifications'[c].steady = verifications[c].steady
           /\ verifications'[c].pc = verifications[c].pc
           /\ IF Asking(c) THEN verifications'[c].age = verifications[c].age + 1
                           ELSE verifications'[c] = verifications[c]
    <3> TAKE c \in Callers
    <3>1. verifications[c] \in Verification /\ verifications[c].age \in 0..FetchTicks
      BY DEF KeysInv, Verification
    <3>2. CASE Asking(c)
      <4>1. verifications'[c] = [verifications[c] EXCEPT !.age = verifications[c].age + 1]
        BY <1>8, <3>2 DEF TrustTick
      <4>2. verifications[c].age + 1 \in 0..FetchTicks BY <1>8, <3>1, <3>2 DEF TrustTick
      <4> QED BY <3>1, <3>2, <4>1, <4>2, Older
    <3>3. CASE ~Asking(c) BY <1>8, <3>1, <3>3 DEF TrustTick
    <3> QED BY <3>2, <3>3
  <2>4. verifications' \in [Callers -> Verification]
    BY <1>8, <2>3, Zenon DEF TrustTick
  <2>5. \A c \in Callers : verifications'[c].keys # NoMaterial =>
           Asking(c)' /\ \A k \in verifications'[c].keys : Recent(k, verifications[c].age)'
    <3> SUFFICES ASSUME NEW c \in Callers, verifications'[c].keys # NoMaterial
                 PROVE  Asking(c)' /\ \A k \in verifications'[c].keys :
                                         Recent(k, verifications[c].age)'
      OBVIOUS
    <3>1. /\ Asking(c) /\ verifications'[c].pc = verifications[c].pc
          /\ verifications'[c].age = verifications[c].age + 1 /\ verifications[c].age \in Nat
          /\ verifications[c].keys \in SUBSET Keys
      BY <2>3 DEF KeysInv, Verification
    <3>2. \A k \in verifications[c].keys : Recent(k, verifications[c].age)
      BY <2>3 DEF KeysInv
    <3> QED BY <2>2, <2>3, <3>1, <3>2
  <2>6. cached' # NoMaterial =>
          /\ cached' \in [keys : SUBSET Keys, age : 0..CacheTicks]
          /\ cached'.age < CacheTicks
                => \A k \in cached'.keys : Recent(k, FetchTicks + cached.age)'
    <3>1. CASE ~Fresh
      BY <1>0, <1>8, <3>1 DEF TrustTick, KeysInv, Fresh
    <3>2. CASE Fresh
      <4>1. /\ cached \in [keys : SUBSET Keys, age : 0..CacheTicks] /\ cached.age < CacheTicks
            /\ \A k \in cached.keys : Recent(k, FetchTicks + cached.age)
        BY <3>2 DEF Fresh, KeysInv
      <4>2. /\ cached' \in [keys : SUBSET Keys, age : 0..CacheTicks]
            /\ cached'.keys = cached.keys /\ cached'.age = cached.age + 1
        BY <1>8, <3>2, <4>1 DEF TrustTick
      <4>3. /\ cached.age \in Nat /\ FetchTicks + cached.age \in Nat
            /\ FetchTicks + (cached.age + 1) = (FetchTicks + cached.age) + 1
        BY <4>1
      <4> QED BY <2>2, <4>1, <4>2, <4>3
    <3> QED BY <3>1, <3>2
  <2> QED BY <1>8, <2>1, <2>3, <2>4, <2>5, <2>6 DEF TrustTick, KeysInv
<1>9. CASE UNCHANGED trustVars BY <1>9 DEF trustVars, KeysInv, Recent
<1> QED BY <1>1, <1>2, <1>3, <1>4, <1>5, <1>6, <1>7, <1>8, <1>9 DEF TrustNext

\* What the property asks of one verification.
Followed(c) ==
    verifications'[c].pc # verifications[c].pc =>
        /\ verifications'[c].pc = "unknown" => ~verifications'[c].steady
        /\ verifications'[c].pc = "trusted" /\ verifications'[c].key \notin published' =>
              retired'[verifications'[c].key] < RetiredBound

LEMMA TrustStep ==
    ASSUME KeysInv, [TrustNext]_trustVars, NEW c \in Callers
    PROVE  Followed(c)
<1> USE TrustAssumption DEF Asking
<1>0. RetiredBound = CacheTicks + FetchTicks BY DEF RetiredBound
<1> DEFINE v == verifications[c]
<1>1. v \in Verification BY DEF KeysInv
<1>2. CASE verifications'[c].pc = v.pc \/ verifications'[c].pc \notin {"trusted", "unknown"}
  BY <1>2 DEF Followed
<1>3. ASSUME verifications'[c].pc # v.pc, verifications'[c].pc \in {"trusted", "unknown"}
      PROVE  \/ KeySetArrives(c)
             \/ \E k \in Keys : BeginVerification(c, k)
  <2>1. ASSUME NEW k \in Keys, PublishKey(k) \/ RetireKey(k) PROVE FALSE
    <3>1. \/ verifications'[c] = verifications[c]
          \/ verifications'[c] = [verifications[c] EXCEPT !.steady = FALSE]
      BY <2>1 DEF PublishKey, RetireKey
    <3> QED BY <1>1, <1>3, <3>1 DEF Verification
  <2>2. ASSUME NEW d \in Callers, ProviderAnswers(d) PROVE FALSE
    BY <1>3, <2>2 DEF ProviderAnswers, KeysInv, Verification
  <2>3. ASSUME NEW d \in Callers, FetchFails(d) \/ FetchThrows(d) PROVE FALSE
    BY <1>3, <2>3 DEF FetchFails, FetchThrows, Became, KeysInv
  <2>4. ASSUME NEW d \in Callers, FinishVerification(d) PROVE FALSE
    BY <1>3, <2>4 DEF FinishVerification, NoVerification, KeysInv
  <2>5. CASE TrustTick
    <3>1. \/ verifications'[c] = verifications[c]
          \/ verifications'[c] = [verifications[c] EXCEPT !.age = verifications[c].age + 1]
      BY <2>5 DEF TrustTick
    <3> QED BY <1>1, <1>3, <3>1 DEF Verification
  <2>6. ASSUME NEW d \in Callers, KeySetArrives(d), d # c PROVE FALSE
    BY <1>3, <2>6 DEF KeySetArrives, KeysInv
  <2>7. ASSUME NEW d \in Callers, NEW k \in Keys, BeginVerification(d, k), d # c PROVE FALSE
    BY <1>3, <2>7 DEF BeginVerification, KeysInv
  <2>8. CASE UNCHANGED trustVars BY <1>3, <2>8 DEF trustVars
  <2> QED BY <2>1, <2>2, <2>3, <2>4, <2>5, <2>6, <2>7, <2>8 DEF TrustNext
<1>4. CASE KeySetArrives(c)
  <2>1. /\ v.keys # NoMaterial /\ v.keys \in SUBSET Keys /\ v.age \in 0..FetchTicks
        /\ verifications'[c] = FindKey(v, v.keys, v.pc)
        /\ published' = published /\ retired' = retired
    BY <1>1, <1>4 DEF KeySetArrives, KeysInv, Verification
  <2>2. /\ v.steady => v.key \in v.keys
        /\ \A k \in v.keys : Recent(k, v.age)
    BY <2>1 DEF KeysInv
  <2>3. v.key \in v.keys /\ v.key \notin published => retired[v.key] < RetiredBound
    BY <1>0, <2>1, <2>2 DEF Recent, KeysInv
  <2>4. verifications'[c].key = v.key /\ verifications'[c].steady = v.steady
    BY <1>1, <2>1, FoundKey
  <2> QED BY <1>1, <2>1, <2>2, <2>3, <2>4, FoundKey DEF Followed
<1>5. ASSUME NEW k \in Keys, BeginVerification(c, k) PROVE Followed(c)
  <2> DEFINE new == [pc |-> "first", key |-> k, keys |-> NoMaterial, age |-> 0,
                     steady |-> k \in published]
  <2>1. /\ new \in Verification /\ new.key = k
        /\ published' = published /\ retired' = retired
    BY <1>5 DEF Verification, BeginVerification
  <2>2. CASE ~Fresh
    BY <1>5, <2>2 DEF BeginVerification, KeysInv, Followed
  <2>3. CASE Fresh
    <3>1. verifications'[c] = FindKey(new, cached.keys, "first")
      BY <1>5, <2>3 DEF BeginVerification, KeysInv
    <3>2. k \in cached.keys /\ k \notin published => retired[k] < RetiredBound
      BY <1>0, <2>3 DEF Fresh, KeysInv, Recent
    <3> QED BY <2>1, <3>1, <3>2, FoundKey DEF Followed
  <2> QED BY <2>2, <2>3
<1> QED BY <1>2, <1>3, <1>4, <1>5

----------------------------------------------------------------------------
(* The runner.                                                             *)

\* Sandboxes could be made and run at some moment of so many ticks.
UpWithin(ticks) == runner.up \/ runner.down <= ticks

\* A marker that was read back, and a finding that says "ready" and still counts, are
\* from a time within the probe, and within the probe and the time since.
RunnerInv ==
    /\ runner \in [up : BOOLEAN, down : 0..DownBound]
    /\ probes \in [Probes -> Probe]
    /\ DOMAIN findings = Probes /\ DOMAIN checks = Askers
    /\ \A p \in Probes :
          /\ probes[p].marker => probes[p].pc = "stopping" /\ UpWithin(probes[p].age)
          /\ findings[p] # NoFinding =>
                /\ findings[p] \in Finding
                /\ findings[p].ready /\ findings[p].age < KnownTicks
                      => UpWithin(ProbeTicks + findings[p].age)

LEMMA InitRunner == RunnerInit => RunnerInv
<1> SUFFICES ASSUME RunnerInit PROVE RunnerInv
  OBVIOUS
<1>1. DownBound \in Nat BY RunnerAssumption DEF DownBound
<1>2. NoProbe \in Probe /\ ~NoProbe.marker BY RunnerAssumption DEF NoProbe, Probe
<1> QED BY <1>1, <1>2 DEF RunnerInit, RunnerInv

LEMMA RunnerStep == RunnerInv /\ [RunnerNext]_runnerVars => RunnerInv'
<1> SUFFICES ASSUME RunnerInv, [RunnerNext]_runnerVars PROVE RunnerInv'
  OBVIOUS
<1> USE RunnerAssumption
<1>0. DownBound \in Nat /\ DownBound = KnownTicks + ProbeTicks BY DEF DownBound
<1>1. CASE RunnerChanges
  <2>1. runner' \in [up : BOOLEAN, down : 0..DownBound] /\ runner'.down = 0
    BY <1>0, <1>1 DEF RunnerChanges, RunnerInv
  <2>2. \A n \in Nat : UpWithin(n)' BY <2>1 DEF UpWithin
  <2> QED BY <1>1, <2>1, <2>2 DEF RunnerChanges, RunnerInv, Probe, Finding
<1>2. ASSUME NEW p \in Probes, NEW ready \in BOOLEAN, EndProbe(p, ready),
             ready => UpWithin(ProbeTicks)
      PROVE  RunnerInv'
  <2>1. NoProbe \in Probe /\ ~NoProbe.marker BY DEF NoProbe, Probe
  <2>2. [ready |-> ready, age |-> 0] \in Finding BY DEF Finding
  <2> QED BY <1>2, <2>1, <2>2 DEF EndProbe, RunnerInv, UpWithin
<1>3. ASSUME NEW p \in Probes, ProbeStep(p) PROVE RunnerInv'
  <2> DEFINE probe == probes[p]
  <2>1. probe \in Probe /\ probe.marker \in BOOLEAN /\ probe.age \in 0..ProbeTicks
    BY DEF RunnerInv, Probe
  <2>2. CASE ProbeCreated(p) \/ ProbeRunFailed(p)
    <3>1. \A pc \in {"running", "stopping"} :
             LET after == [pc |-> pc, marker |-> FALSE, age |-> probe.age] IN
             after \in Probe /\ ~after.marker
      BY <2>1 DEF Probe
    <3>2. \E pc \in {"running", "stopping"} : Advance(p, pc, FALSE)
      BY <2>2 DEF ProbeCreated, ProbeRunFailed
    <3> QED BY <3>1, <3>2, ZenonT(60) DEF Advance, RunnerInv, UpWithin
  <2>3. CASE ProbeRan(p)
    <3> DEFINE after == [pc |-> "stopping", marker |-> TRUE, age |-> probe.age]
    <3>1. after \in Probe /\ after.pc = "stopping"
      BY <2>1 DEF Probe
    <3>2. runner.up /\ Advance(p, "stopping", TRUE)
      BY <2>3 DEF ProbeRan
    <3> QED BY <3>1, <3>2 DEF Advance, RunnerInv, UpWithin
  <2>4. CASE ProbeNotCreated(p) \/ ProbeStopFailed(p)
    BY <1>2, <2>4 DEF ProbeNotCreated, ProbeStopFailed
  <2>5. CASE ProbeStopped(p)
    <3>1. probe.marker => UpWithin(ProbeTicks)
      BY <1>0, <2>1 DEF UpWithin, RunnerInv
    <3> QED BY <1>2, <2>1, <2>5, <3>1 DEF ProbeStopped
  <2> QED BY <1>3, <2>2, <2>3, <2>4, <2>5 DEF ProbeStep
<1>4. ASSUME NEW a \in Askers, NEW p \in Probes, Check(a, p) PROVE RunnerInv'
  <2> DEFINE first == [pc |-> "creating", marker |-> FALSE, age |-> 0]
  <2>1. first \in Probe /\ ~first.marker BY DEF Probe
  <2>2. /\ probes' = probes \/ probes' = [probes EXCEPT ![p] = first]
        /\ DOMAIN checks' = Askers /\ UNCHANGED <<runner, findings>>
    BY <1>4 DEF Check, RunnerInv
  <2> QED BY <2>1, <2>2 DEF RunnerInv, UpWithin
<1>5. ASSUME NEW a \in Askers, CheckTimesOut(a) \/ FinishCheck(a) PROVE RunnerInv'
  BY <1>5 DEF CheckTimesOut, FinishCheck, CheckUsed, RunnerInv, UpWithin
<1>6. CASE RunnerTick
  <2>1. /\ runner' \in [up : BOOLEAN, down : 0..DownBound]
        /\ \A n \in Nat : UpWithin(n) => UpWithin(n + 1)'
    BY <1>0, <1>6 DEF RunnerTick, RunnerInv, UpWithin
  <2>2. ASSUME NEW p \in Probes
        PROVE  /\ probes'[p] \in Probe
               /\ probes'[p].marker => probes'[p].pc = "stopping" /\ UpWithin(probes[p].age)'
    <3>1. probes[p] \in Probe /\ probes[p].age \in 0..ProbeTicks
      BY DEF RunnerInv, Probe
    <3>2. CASE probes[p].pc = "none"
      BY <1>6, <3>1, <3>2 DEF RunnerTick, RunnerInv
    <3>3. CASE probes[p].pc # "none"
      <4>1. probes'[p] = [probes[p] EXCEPT !.age = probes[p].age + 1]
        BY <1>6, <3>3 DEF RunnerTick
      <4>2. probes[p].age + 1 \in 0..ProbeTicks BY <1>6, <3>1, <3>3 DEF RunnerTick
      <4>3. /\ probes'[p] \in Probe /\ probes'[p].age = probes[p].age + 1
            /\ probes'[p].pc = probes[p].pc /\ probes'[p].marker = probes[p].marker
        BY <3>1, <4>1, <4>2 DEF Probe
      <4> QED BY <2>1, <3>1, <4>3 DEF RunnerInv
    <3> QED BY <3>2, <3>3
  <2>3. ASSUME NEW p \in Probes, findings'[p] # NoFinding
        PROVE  /\ findings'[p] \in Finding
               /\ findings'[p].ready /\ findings'[p].age < KnownTicks
                     => UpWithin(ProbeTicks + findings[p].age)'
    <3>1. CASE ~Known(p)
      BY <1>6, <2>3, <3>1 DEF RunnerTick, RunnerInv, Known
    <3>2. CASE Known(p)
      <4>1. /\ findings[p] \in Finding /\ findings[p].age \in Nat
            /\ findings[p].age < KnownTicks
            /\ findings[p].ready => UpWithin(ProbeTicks + findings[p].age)
        BY <3>2 DEF RunnerInv, Known, Finding
      <4>2. findings'[p] = [findings[p] EXCEPT !.age = findings[p].age + 1]
        BY <1>6, <3>2 DEF RunnerTick
      <4>3. /\ findings'[p] \in Finding /\ findings'[p].age = findings[p].age + 1
            /\ findings'[p].ready = findings[p].ready
        BY <4>1, <4>2 DEF Finding
      <4>4. /\ ProbeTicks + findings[p].age \in Nat
            /\ ProbeTicks + (findings[p].age + 1) = (ProbeTicks + findings[p].age) + 1
        BY <4>1
      <4> QED BY <2>1, <4>1, <4>3, <4>4
    <3> QED BY <3>1, <3>2
  <2>4. probes' \in [Probes -> Probe] /\ DOMAIN findings' = Probes /\ checks' = checks
    BY <1>6, <2>2 DEF RunnerTick
  <2> QED BY <2>1, <2>2, <2>3, <2>4 DEF RunnerInv
<1>7. CASE UNCHANGED runnerVars BY <1>7 DEF runnerVars, RunnerInv, UpWithin
<1> QED BY <1>1, <1>3, <1>4, <1>5, <1>6, <1>7 DEF RunnerNext

\* An asker learns that the runner is ready from a finding that counts, or from the
\* probe that has just ended.
LEMMA ReadyStep ==
    ASSUME RunnerInv, [RunnerNext]_runnerVars, NEW a \in Askers,
           checks'[a].pc = "ready", checks[a].pc # "ready"
    PROVE  runner'.up \/ runner'.down < DownBound
<1> USE RunnerAssumption
<1>0. DownBound = KnownTicks + ProbeTicks BY DEF DownBound
<1>1. ASSUME NEW p \in Probes, Known(p), findings[p].ready, UNCHANGED runner
      PROVE  runner'.up \/ runner'.down < DownBound
  <2>1. findings[p].age \in Nat /\ findings[p].age < KnownTicks
        /\ UpWithin(ProbeTicks + findings[p].age)
    BY <1>1 DEF RunnerInv, Known, Finding
  <2> QED BY <1>0, <1>1, <2>1 DEF UpWithin, RunnerInv
<1>2. ASSUME NEW p \in Probes, ProbeStopped(p), probes[p].marker
      PROVE  runner'.up \/ runner'.down < DownBound
  <2>1. UpWithin(probes[p].age) /\ probes[p].age \in 0..ProbeTicks /\ UNCHANGED runner
    BY <1>2 DEF RunnerInv, Probe, ProbeStopped, EndProbe
  <2> QED BY <1>0, <2>1 DEF UpWithin, RunnerInv
<1>3. CASE RunnerChanges \/ RunnerTick \/ UNCHANGED runnerVars
  BY <1>3 DEF RunnerChanges, RunnerTick, runnerVars
<1>4. ASSUME NEW p \in Probes, ProbeStep(p)
      PROVE  ProbeStopped(p) /\ probes[p].marker
  <2>1. CASE ProbeCreated(p) \/ ProbeRan(p) \/ ProbeRunFailed(p)
    BY <2>1 DEF ProbeCreated, ProbeRan, ProbeRunFailed, Advance
  <2>2. ASSUME NEW ready \in BOOLEAN, EndProbe(p, ready) PROVE ready
    BY <2>2 DEF EndProbe, Answered
  <2>3. probes[p].marker \in BOOLEAN BY DEF RunnerInv, Probe
  <2> QED BY <1>4, <2>1, <2>2, <2>3 DEF ProbeStep, ProbeNotCreated, ProbeStopped, ProbeStopFailed
<1>5. ASSUME NEW b \in Askers, NEW p \in Probes, Check(b, p)
      PROVE  Known(p) /\ findings[p].ready /\ UNCHANGED runner
  <2>1. b = a BY <1>5 DEF Check, RunnerInv
  <2> QED BY <1>5, <2>1 DEF Check, Answered, RunnerInv
<1>6. ASSUME NEW b \in Askers, CheckTimesOut(b) \/ FinishCheck(b) PROVE FALSE
  BY <1>6 DEF CheckTimesOut, FinishCheck, CheckUsed, NoCheck, RunnerInv
<1> QED BY <1>1, <1>2, <1>3, <1>4, <1>5, <1>6 DEF RunnerNext

----------------------------------------------------------------------------
(* The tenant and its exports.                                             *)

\* A deletion is not undone; the ledger is finite and within its limit.
TenantInv ==
    /\ tenant = "DELETED" =>
          deletion.state = "COMPLETED" /\ principals = {} /\ cases = {} /\ ledger = {}
    /\ DOMAIN deletion = {"state", "count"}
    /\ today \in 0..MaxDays
    /\ IsFiniteSet(ledger)
    /\ \A day \in 0..MaxDays : UsedOn(day) <= ExportsPerDay

LEMMA InitTenant == AccountInit => TenantInv
<1> SUFFICES ASSUME AccountInit PROVE TenantInv
  OBVIOUS
<1>1. \A day \in 0..MaxDays : UsedOn(day) = 0
  <2>1. \A day \in 0..MaxDays : {row \in ledger : row[2] = day} = {} BY DEF AccountInit
  <2> QED BY <2>1, FS_EmptySet DEF UsedOn
<1> QED BY <1>1, FS_EmptySet, AccountAssumption DEF AccountInit, TenantInv, NoDeletionYet

\* One more row raises the count of its own day by one at most.
LEMMA OneMoreRow ==
    ASSUME IsFiniteSet(ledger), NEW row, NEW day \in 0..MaxDays,
           ledger' = ledger \cup {row}
    PROVE  /\ UsedOn(day)' \in Nat /\ UsedOn(day) \in Nat
           /\ UsedOn(day)' <= UsedOn(day) + 1
           /\ row[2] # day => UsedOn(day)' = UsedOn(day)
<1> DEFINE Rows == {r \in ledger : r[2] = day}
<1>1. IsFiniteSet(Rows) /\ Cardinality(Rows) \in Nat
  BY FS_Subset, FS_CardinalityType
<1>2. /\ Cardinality(Rows \cup {row}) \in Nat
      /\ Cardinality(Rows \cup {row}) <= Cardinality(Rows) + 1
  <2> HIDE DEF Rows
  <2>1. Cardinality(Rows \cup {row})
          = IF row \in Rows THEN Cardinality(Rows) ELSE Cardinality(Rows) + 1
    BY <1>1, FS_AddElement
  <2> QED BY <1>1, <2>1
<1>3. UsedOn(day) = Cardinality(Rows) /\ UsedOn(day)' = Cardinality({r \in ledger' : r[2] = day})
  BY DEF UsedOn
<1>4. CASE row[2] = day
  <2>1. {r \in ledger' : r[2] = day} = Rows \cup {row} BY <1>4
  <2> QED BY <1>1, <1>2, <1>3, <1>4, <2>1
<1>5. CASE row[2] # day
  <2>1. {r \in ledger' : r[2] = day} = Rows BY <1>5
  <2> QED BY <1>1, <1>3, <2>1
<1> QED BY <1>4, <1>5

LEMMA TenantStep == TenantInv /\ [AccountNext]_accountVars => TenantInv'
<1> SUFFICES ASSUME TenantInv, [AccountNext]_accountVars PROVE TenantInv'
  OBVIOUS
<1> USE AccountAssumption
<1>1. ASSUME UNCHANGED ledger PROVE \A day \in 0..MaxDays : UsedOn(day)' = UsedOn(day)
  BY <1>1 DEF UsedOn
<1>2. ASSUME NEW c \in Callers, LogIn(Asked(c).subject) PROVE TenantInv'
  BY <1>1, <1>2 DEF LogIn, CanLogIn, TenantInv
<1>3. ASSUME NEW c \in Callers, ReserveCase(CommandOf(c)) PROVE TenantInv'
  BY <1>1, <1>3 DEF ReserveCase, MayReserve, TenantInv
<1>4. ASSUME NEW c \in Callers, NEW day \in 0..MaxDays, Consume(Asked(c).subject, Asked(c).key, day)
      PROVE  TenantInv'
  <2> DEFINE row == <<Asked(c).key, day>>
  <2>1. /\ tenant = "ACTIVE" /\ QuotaAllows(Asked(c).key, day)
        /\ ledger' = ledger \/ (UsedOn(day) < ExportsPerDay /\ ledger' = ledger \cup {row})
        /\ UNCHANGED <<tenant, principals, cases, deletion, today>>
    BY <1>4 DEF Consume, MayConsume, QuotaAllows
  <2>2. CASE ledger' = ledger BY <1>1, <2>1, <2>2 DEF TenantInv
  <2>3. CASE UsedOn(day) < ExportsPerDay /\ ledger' = ledger \cup {row}
    <3>1. IsFiniteSet(ledger') BY <2>3, FS_AddElement DEF TenantInv
    <3>2. \A d \in 0..MaxDays : UsedOn(d)' <= ExportsPerDay
      <4> TAKE d \in 0..MaxDays
      <4>1. /\ UsedOn(d)' \in Nat /\ UsedOn(d) \in Nat /\ UsedOn(d)' <= UsedOn(d) + 1
            /\ row[2] # d => UsedOn(d)' = UsedOn(d)
        BY <2>3, OneMoreRow DEF TenantInv
      <4>2. row[2] = day OBVIOUS
      <4> QED BY <2>3, <4>1, <4>2 DEF TenantInv
    <3> QED BY <2>1, <3>1, <3>2 DEF TenantInv
  <2> QED BY <2>1, <2>2, <2>3
<1>5. ASSUME NEW c \in Callers, AppendExportAudit(Asked(c).key) PROVE TenantInv'
  BY <1>1, <1>5 DEF AppendExportAudit, TenantInv
<1>6. CASE RequestDeletion
  BY <1>1, <1>6 DEF RequestDeletion, Requested, accountVars, TenantInv
<1>7. CASE AccountEnvironment
  <2>1. CASE DeletionCompletes
    <3>1. \A day \in 0..MaxDays : {row \in ledger' : row[2] = day} = {}
      BY <2>1 DEF DeletionCompletes
    <3>2. \A day \in 0..MaxDays : UsedOn(day)' = 0 BY <3>1, FS_EmptySet DEF UsedOn
    <3> QED BY <2>1, <3>2, FS_EmptySet DEF DeletionCompletes, TenantInv
  <2>2. CASE ClaimDeletion BY <1>1, <2>2 DEF ClaimDeletion, TenantInv
  <2>3. CASE DeletionFails BY <1>1, <2>3 DEF DeletionFails, TenantInv
  <2>4. CASE Midnight BY <1>1, <2>4 DEF Midnight, TenantInv
  <2> QED BY <1>7, <2>1, <2>2, <2>3, <2>4 DEF AccountEnvironment
<1>8. CASE UNCHANGED accountVars
  BY <1>1, <1>8 DEF accountVars, TenantInv
<1> QED BY <1>2, <1>3, <1>4, <1>5, <1>6, <1>7, <1>8 DEF AccountNext

\* A call that hands nothing over: it is on its way, or was refused or answered.
Ordinary(w) ==
    \/ w.answer = "none" /\ w.stage \notin {"archive", "audit"}
    \/ w.stage = "answered" /\ w.answer # "exported"

\* A call that is past the charge has its row, and one that was handed over its record.
Accounted(w) ==
    \/ Ordinary(w)
    \/ /\ w.stage \in {"archive", "audit"} /\ w.answer = "none"
       /\ tenant = "DELETED" \/ Charged(w.request.key)
    \/ /\ w.stage = "answered" /\ w.answer = "exported"
       /\ tenant = "DELETED" \/ (Charged(w.request.key) /\ w.request.key \in audited)

CallsInv ==
    /\ calls \in [Callers -> Call]
    /\ \A c \in Callers : Accounted(calls[c])

\* The ledger and the record only grow until the deletion completes.
LEMMA RowsStay ==
    ASSUME TenantInv, [AccountNext]_accountVars, NEW k
    PROVE  /\ tenant = "DELETED" => tenant' = "DELETED"
           /\ Charged(k) => Charged(k)' \/ tenant' = "DELETED"
           /\ k \in audited => k \in audited' \/ tenant' = "DELETED"
<1>1. CASE DeletionCompletes BY <1>1 DEF DeletionCompletes
<1>2. CASE RequestDeletion
  BY <1>2 DEF RequestDeletion, accountVars, Charged
<1>3. CASE ClaimDeletion \/ DeletionFails \/ Midnight \/ UNCHANGED accountVars
  BY <1>3 DEF ClaimDeletion, DeletionFails, Midnight, accountVars, TenantInv, Charged
<1>4. ASSUME NEW c \in Callers, LogIn(Asked(c).subject)
      PROVE  /\ tenant # "DELETED" /\ UNCHANGED <<ledger, audited>>
  BY <1>4 DEF LogIn, CanLogIn
<1>5. ASSUME NEW c \in Callers, ReserveCase(CommandOf(c))
      PROVE  /\ tenant # "DELETED" /\ UNCHANGED <<ledger, audited>>
  BY <1>5 DEF ReserveCase, MayReserve
<1>6. ASSUME NEW c \in Callers, NEW day \in 0..MaxDays, Consume(Asked(c).subject, Asked(c).key, day)
      PROVE  tenant # "DELETED" /\ ledger \subseteq ledger' /\ audited' = audited
  BY <1>6 DEF Consume, MayConsume
<1>7. ASSUME NEW c \in Callers, AppendExportAudit(Asked(c).key)
      PROVE  ledger' = ledger /\ audited \subseteq audited' /\ tenant' = tenant
  BY <1>7 DEF AppendExportAudit
<1> QED BY <1>1, <1>2, <1>3, <1>4, <1>5, <1>6, <1>7 DEF AccountNext, AccountEnvironment, Charged

\* What a handler may do to its call.
Step(c, w) == w \in Call /\ w.request = Asked(c) /\ calls' = [calls EXCEPT ![c] = w]

LEMMA AnswerStep ==
    ASSUME CallsInv, NEW c \in Callers, NEW code \in Answers, Answer(c, code)
    PROVE  /\ Step(c, CallAt("answered", Asked(c), code))
           /\ CallAt("answered", Asked(c), code).stage = "answered"
           /\ CallAt("answered", Asked(c), code).answer = code
<1>1. calls[c] \in Call /\ Asked(c) \in Requests \cup {NoRequest} BY DEF CallsInv, Call, Asked
<1>2. CallAt("answered", Asked(c), code) \in Call
  BY <1>1, AccountAssumption DEF CallAt, Call, Stages
<1> QED BY <1>2 DEF Answer, CallAt, Step

LEMMA ToStep ==
    ASSUME CallsInv, NEW c \in Callers, NEW stage \in Stages, To(c, stage)
    PROVE  \E w : /\ Step(c, w) /\ w.stage = stage /\ w.answer = calls[c].answer
                  /\ w.private = calls[c].private /\ w.created = calls[c].created
                  /\ w.day = calls[c].day
<1> DEFINE w == [stage |-> stage, request |-> calls[c].request, answer |-> calls[c].answer,
                 private |-> calls[c].private, created |-> calls[c].created,
                 day |-> calls[c].day]
<1>1. calls[c] \in Call BY DEF CallsInv
<1>2. calls' = [calls EXCEPT ![c] = w]
  <2>1. [calls[c] EXCEPT !.stage = stage] = w BY <1>1 DEF Call
  <2>2. calls' = [calls EXCEPT ![c] = [calls[c] EXCEPT !.stage = stage]] BY DEF To
  <2> QED BY <2>1, <2>2
<1>3. Step(c, w) BY <1>1, <1>2 DEF Call, Step, Asked
<1> QED BY <1>3

\* Handlers touch the tenant's rows with the transactions of AccountAccess only.
LEMMA AccountProjection ==
    CallsInv /\ [DoorNext]_doorVars => [AccountNext]_accountVars
<1> SUFFICES ASSUME CallsInv, [DoorNext]_doorVars PROVE [AccountNext]_accountVars
  OBVIOUS
<1>0. \A c \in Callers : calls[c].day \in 0..MaxDays BY DEF CallsInv, Call
<1>1. ASSUME NEW c \in Callers, Handle(c) PROVE [AccountNext]_accountVars
  <2>1. CASE ServicesResolved(c) \/ ReadPrincipal(c)
    BY <2>1 DEF ServicesResolved, ReadPrincipal, Elsewhere
  <2>2. CASE PresentToken(c) BY <2>2 DEF PresentToken
  <2>3. CASE Verified(c) BY <2>3 DEF Verified
  <2>4. CASE OpenSession(c) BY <2>4 DEF OpenSession, AccountNext
  <2>5. CASE ResolveSource(c) \/ LookUp(c) \/ Publish(c) \/ Archive(c)
    BY <2>5 DEF ResolveSource, LookUp, Publish, Archive, Elsewhere
  <2>6. CASE CheckFlags(c) BY <2>6 DEF CheckFlags
  <2>7. CASE CheckRunner(c) BY <2>7 DEF CheckRunner
  <2>8. CASE Reserve(c) BY <2>8 DEF Reserve, AccountNext
  <2>9. CASE Operate(c)
    BY <2>9 DEF Operate, ListRepositories, ReadCase, ExportBundle, CancelCase, DeleteAccount,
                AccountNext
  <2>10. CASE ConsumeQuota(c) BY <1>0, <2>10 DEF ConsumeQuota, AccountNext
  <2>11. CASE RecordExport(c) BY <2>11 DEF RecordExport, AccountNext
  <2>12. CASE ReportHealth(c) BY <2>12 DEF ReportHealth
  <2> QED
    BY <1>1, <2>1, <2>2, <2>3, <2>4, <2>5, <2>6, <2>7, <2>8, <2>9, <2>10, <2>11, <2>12
    DEF Handle
<1>2. ASSUME NEW c \in Callers, NEW r \in Requests, Begin(c, r) PROVE [AccountNext]_accountVars
  BY <1>2 DEF Begin, Elsewhere
<1>3. ASSUME NEW c \in Callers, Forget(c) PROVE [AccountNext]_accountVars
  BY <1>3 DEF Forget, Elsewhere
<1>4. CASE MakeServices BY <1>4 DEF MakeServices
<1>5. CASE Trust \/ Probing \/ DoorTick BY <1>5 DEF Trust, Probing, DoorTick
<1>6. CASE Accounts BY <1>6 DEF Accounts, AccountNext
<1>7. CASE UNCHANGED doorVars BY <1>7 DEF doorVars
<1> QED BY <1>1, <1>2, <1>3, <1>4, <1>5, <1>6, <1>7 DEF DoorNext

\* The calls that do not move stay accounted for; so it is enough to look at the one
\* that does.
LEMMA StaysAccounted ==
    ASSUME TenantInv, [AccountNext]_accountVars, NEW v, Accounted(v)
    PROVE  Accounted(v)'
<1>1. /\ tenant = "DELETED" => tenant' = "DELETED"
      /\ Charged(v.request.key) => Charged(v.request.key)' \/ tenant' = "DELETED"
      /\ v.request.key \in audited => v.request.key \in audited' \/ tenant' = "DELETED"
  BY RowsStay
<1> QED BY <1>1 DEF Accounted, Ordinary

LEMMA OneCallMoves ==
    ASSUME TenantInv, CallsInv, [AccountNext]_accountVars, NEW c \in Callers, NEW w \in Call,
           calls' = [calls EXCEPT ![c] = w], Accounted(w)'
    PROVE  CallsInv'
<1>1. calls' \in [Callers -> Call] BY DEF CallsInv
<1>2. ASSUME NEW d \in Callers PROVE Accounted(calls[d])'
  <2>1. CASE d = c BY <2>1 DEF CallsInv
  <2>2. CASE d # c
    <3>1. calls'[d] = calls[d] BY <2>2 DEF CallsInv
    <3>2. Accounted(calls[d]) BY DEF CallsInv
    <3>3. \A v : Accounted(v) => Accounted(v)' BY StaysAccounted
    <3> QED BY <3>1, <3>2, <3>3
  <2> QED BY <2>1, <2>2
<1> QED BY <1>1, <1>2 DEF CallsInv

LEMMA NoCallMoves ==
    TenantInv /\ CallsInv /\ [AccountNext]_accountVars /\ UNCHANGED calls => CallsInv'
  BY StaysAccounted DEF CallsInv

\* A request that has not been answered, and whose call is not past the charge, may go
\* on to any other stage, or be answered in any way but by handing an export over.
LEMMA MovesOn ==
    ASSUME TenantInv, CallsInv, [AccountNext]_accountVars, NEW c \in Callers,
           calls[c].stage # "answered",
           NEW w \in Call, w.stage \notin {"archive", "audit"}, w.answer = calls[c].answer,
           calls' = [calls EXCEPT ![c] = w]
    PROVE  CallsInv'
<1>1. w.answer = "none" BY DEF CallsInv, Accounted, Ordinary
<1>2. Accounted(w)' BY <1>1 DEF Accounted, Ordinary
<1> QED BY <1>2, OneCallMoves

LEMMA GoesTo ==
    ASSUME TenantInv, CallsInv, [AccountNext]_accountVars, NEW c \in Callers,
           calls[c].stage # "answered",
           NEW stage \in Stages \ {"archive", "audit"}, To(c, stage)
    PROVE  CallsInv'
<1>1. PICK w : Step(c, w) /\ w.stage = stage /\ w.answer = calls[c].answer BY ToStep
<1> QED BY <1>1, MovesOn DEF Step

LEMMA IsAnswered ==
    ASSUME TenantInv, CallsInv, [AccountNext]_accountVars, NEW c \in Callers,
           NEW code \in Answers \ {"exported"}, Answer(c, code)
    PROVE  CallsInv'
<1>1. PICK w : Step(c, w) /\ w.stage = "answered" /\ w.answer = code
  <2>1. code \in Answers OBVIOUS
  <2> QED BY <2>1, AnswerStep
<1>2. Accounted(w)' BY <1>1 DEF Accounted, Ordinary
<1> QED BY <1>1, <1>2, OneCallMoves DEF Step

\* Denials never hand anything over.
LEMMA DenialsRefuse ==
    /\ \A r : \A reason \in {"insufficient", "unavailable", "invalid"} :
          Denial(r, reason) \in Answers \ {"exported"}
    /\ \A r : ServicesDown(r) \in Answers \ {"exported"}
    /\ \A c : FlagDenial(c) \in Answers \ {"exported"}
  BY DEF Denial, RestDenial, McpDenial, ServicesDown, FlagDenial, Answers, Refusals

LEMMA HandlerStep ==
    ASSUME TenantInv, CallsInv, [AccountNext]_accountVars, NEW c \in Callers, Handle(c)
    PROVE  CallsInv'
<1> USE DEF At, Stages, Answers, Refusals
<1>0. calls[c] \in Call /\ Accounted(calls[c]) BY DEF CallsInv
<1>1. CASE ServicesResolved(c)
  BY <1>1, GoesTo, IsAnswered, DenialsRefuse DEF ServicesResolved
<1>2. CASE PresentToken(c)
  BY <1>2, GoesTo, IsAnswered, DenialsRefuse DEF PresentToken
<1>3. CASE Verified(c)
  BY <1>3, GoesTo, IsAnswered, DenialsRefuse DEF Verified
<1>4. ASSUME calls[c].stage # "answered", Admit(c) PROVE CallsInv'
  <2> DEFINE v == calls[c]
             w == [v EXCEPT !.stage = FirstStage(Asked(c)), !.day = today]
  <2>1. FirstStage(Asked(c)) \in {"source", "consume", "operate"} /\ today \in 0..MaxDays
    BY DEF FirstStage, TenantInv
  <2>2. \A x : x = w => /\ x \in Call /\ x.stage \notin {"archive", "audit"}
                        /\ x.answer = v.answer
    BY <1>0, <2>1, ZenonT(60) DEF Call
  <2>3. PICK x : x = w OBVIOUS
  <2>4. calls' = [calls EXCEPT ![c] = x] BY <1>4, <2>3, Zenon DEF Admit
  <2> QED BY <1>4, <2>2, <2>3, <2>4, MovesOn
<1>5. CASE ReadPrincipal(c)
  BY <1>4, <1>5, IsAnswered, DenialsRefuse DEF ReadPrincipal
<1>6. CASE OpenSession(c)
  BY <1>4, <1>6, IsAnswered DEF OpenSession
<1>7. CASE ResolveSource(c)
  <2>1. CASE \E code \in {"NOT_FOUND", "INTERNAL_ERROR"} : Answer(c, code)
    BY <2>1, IsAnswered
  <2>2. ASSUME NEW private \in BOOLEAN,
               calls' = [calls EXCEPT ![c] = [calls[c] EXCEPT !.stage = "lookup",
                                                              !.private = private]]
        PROVE  CallsInv'
    <3>1. PICK w : w = [calls[c] EXCEPT !.stage = "lookup", !.private = private] OBVIOUS
    <3>2. w \in Call /\ w.stage = "lookup" /\ w.answer = calls[c].answer
      BY <1>0, <3>1 DEF Call
    <3> QED BY <1>7, <2>2, <3>1, <3>2, MovesOn DEF ResolveSource
  <2> QED BY <1>7, <2>1, <2>2 DEF ResolveSource
<1>8. ASSUME calls[c].stage # "answered", Reuse(c) PROVE CallsInv'
  <2>1. CASE Answer(c, "reused") \/ Answer(c, "IDEMPOTENCY_CONFLICT") BY <2>1, IsAnswered
  <2>2. CASE calls' = [calls EXCEPT ![c] = [calls[c] EXCEPT !.stage = "publish",
                                                            !.created = FALSE]]
    <3>1. PICK w : w = [calls[c] EXCEPT !.stage = "publish", !.created = FALSE] OBVIOUS
    <3>2. w \in Call /\ w.stage = "publish" /\ w.answer = calls[c].answer
      BY <1>0, <3>1 DEF Call
    <3> QED BY <1>8, <2>2, <3>1, <3>2, MovesOn
  <2> QED BY <1>8, <2>1, <2>2 DEF Reuse
<1>9. CASE LookUp(c)
  BY <1>8, <1>9, GoesTo DEF LookUp
<1>10. CASE CheckFlags(c)
  BY <1>10, GoesTo, IsAnswered, DenialsRefuse DEF CheckFlags
<1>11. CASE CheckRunner(c)
  BY <1>11, GoesTo, IsAnswered DEF CheckRunner
<1>12. CASE Reserve(c)
  <2>1. CASE Answer(c, "INTERNAL_ERROR") BY <2>1, IsAnswered
  <2>2. CASE Reuse(c) BY <1>8, <1>12, <2>2 DEF Reserve
  <2>3. CASE calls' = [calls EXCEPT ![c] = [calls[c] EXCEPT !.stage = "publish",
                                                            !.created = TRUE]]
    <3>1. PICK w : w = [calls[c] EXCEPT !.stage = "publish", !.created = TRUE] OBVIOUS
    <3>2. w \in Call /\ w.stage = "publish" /\ w.answer = calls[c].answer
      BY <1>0, <3>1 DEF Call
    <3> QED BY <1>12, <2>3, <3>1, <3>2, MovesOn DEF Reserve
  <2> QED BY <1>12, <2>1, <2>2, <2>3 DEF Reserve
<1>13. CASE Publish(c)
  BY <1>13, IsAnswered DEF Publish
<1>14. CASE Operate(c)
  <2>1. \E code \in Answers \ {"exported"} : Answer(c, code)
    BY <1>14 DEF Operate, ListRepositories, ReadCase, ExportBundle, CancelCase, DeleteAccount,
                 Lookups
  <2> QED BY <2>1, IsAnswered
<1>15. CASE ConsumeQuota(c)
  <2>1. CASE Answer(c, "EXPORT_QUOTA_EXCEEDED") \/ Answer(c, "UNAVAILABLE")
    BY <2>1, IsAnswered
  <2>2. CASE Consume(Asked(c).subject, Asked(c).key, calls[c].day) /\ To(c, "archive")
    <3>1. PICK w : Step(c, w) /\ w.stage = "archive" /\ w.answer = calls[c].answer
      BY <2>2, ToStep
    <3>2. w.answer = "none" BY <1>0, <1>15, <3>1 DEF ConsumeQuota, Accounted, Ordinary
    <3>3. Charged(w.request.key)'
      <4>1. calls[c].day \in 0..MaxDays BY <1>0 DEF Call
      <4>2. w.request.key = Asked(c).key BY <3>1 DEF Step
      <4>3. \E day \in 0..MaxDays : <<Asked(c).key, day>> \in ledger'
        BY <2>2, <4>1 DEF Consume, Charged
      <4> QED BY <4>2, <4>3 DEF Charged
    <3>4. Accounted(w)' BY <3>1, <3>2, <3>3 DEF Accounted
    <3> QED BY <3>1, <3>4, OneCallMoves DEF Step
  <2> QED BY <1>15, <2>1, <2>2 DEF ConsumeQuota
<1>16. CASE Archive(c)
  <2>1. CASE Answer(c, "UNAVAILABLE") BY <2>1, IsAnswered
  <2>2. CASE tenant = "ACTIVE" /\ To(c, "audit")
    <3>1. PICK w : Step(c, w) /\ w.stage = "audit" /\ w.answer = calls[c].answer
      BY <2>2, ToStep
    <3>2. calls[c].answer = "none" /\ Charged(Asked(c).key)
      BY <1>0, <1>16, <2>2 DEF Archive, Accounted, Ordinary, Asked
    <3>3. w.request.key = Asked(c).key BY <3>1 DEF Step
    <3>4. Accounted(w) BY <3>1, <3>2, <3>3 DEF Accounted
    <3>5. Accounted(w)' BY <3>4, StaysAccounted
    <3> QED BY <3>1, <3>5, OneCallMoves DEF Step
  <2> QED BY <1>16, <2>1, <2>2 DEF Archive
<1>17. CASE RecordExport(c)
  <2>1. CASE Answer(c, "UNAVAILABLE") BY <2>1, IsAnswered
  <2>2. CASE AppendExportAudit(Asked(c).key) /\ Answer(c, "exported")
    <3>1. PICK w : Step(c, w) /\ w.stage = "answered" /\ w.answer = "exported"
      BY <2>2, AnswerStep
    <3>2. w.request.key = Asked(c).key BY <3>1 DEF Step
    <3>3. tenant = "DELETED" \/ Charged(w.request.key)
      BY <1>0, <1>17, <3>2 DEF RecordExport, Accounted, Ordinary, Asked
    <3>4. tenant' = tenant /\ ledger' = ledger /\ w.request.key \in audited'
      BY <2>2, <3>2 DEF AppendExportAudit
    <3>5. Accounted(w)' BY <3>1, <3>3, <3>4 DEF Accounted, Charged
    <3> QED BY <3>1, <3>5, OneCallMoves DEF Step
  <2> QED BY <1>17, <2>1, <2>2 DEF RecordExport
<1>18. CASE ReportHealth(c)
  BY <1>18, IsAnswered DEF ReportHealth
<1> QED
  BY <1>1, <1>2, <1>3, <1>5, <1>6, <1>7, <1>9, <1>10, <1>11, <1>12, <1>13, <1>14, <1>15,
     <1>16, <1>17, <1>18
  DEF Handle

LEMMA CallsStep == TenantInv /\ CallsInv /\ [DoorNext]_doorVars => CallsInv'
<1> SUFFICES ASSUME TenantInv, CallsInv, [DoorNext]_doorVars PROVE CallsInv'
  OBVIOUS
<1>0. [AccountNext]_accountVars BY AccountProjection
<1>1. ASSUME NEW c \in Callers, Handle(c) PROVE CallsInv'
  BY <1>0, <1>1, HandlerStep
<1>2. ASSUME NEW c \in Callers, NEW stage \in {"health", "services", "idle"},
             NEW r \in Requests \cup {NoRequest},
             calls' = [calls EXCEPT ![c] = CallAt(stage, r, "none")]
      PROVE  CallsInv'
  <2>1. PICK w : w = CallAt(stage, r, "none") OBVIOUS
  <2>2. w \in Call /\ w.stage = stage /\ w.answer = "none"
    BY <2>1, AccountAssumption DEF CallAt, Call, Stages, Answers
  <2>3. Accounted(w)' BY <2>2 DEF Accounted, Ordinary
  <2> QED BY <1>0, <1>2, <2>1, <2>2, <2>3, OneCallMoves
<1>3. ASSUME NEW c \in Callers, NEW r \in Requests, Begin(c, r) PROVE CallsInv'
  BY <1>2, <1>3 DEF Begin
<1>4. ASSUME NEW c \in Callers, Forget(c) PROVE CallsInv'
  BY <1>2, <1>4 DEF Forget, NoCall
<1>5. CASE MakeServices BY <1>0, <1>5, NoCallMoves DEF MakeServices
<1>6. CASE Trust \/ Probing \/ Accounts \/ DoorTick
  BY <1>0, <1>6, NoCallMoves DEF Trust, Probing, Accounts, DoorTick, doorOnlyVars
<1>7. CASE UNCHANGED doorVars BY <1>0, <1>7, NoCallMoves DEF doorVars, doorOnlyVars
<1> QED BY <1>1, <1>3, <1>4, <1>5, <1>6, <1>7 DEF DoorNext

----------------------------------------------------------------------------
(* The theorems.                                                           *)

DoorInv == KeysInv /\ RunnerInv /\ TenantInv /\ CallsInv

LEMMA InitDoor == DoorInit => DoorInv
<1> SUFFICES ASSUME DoorInit PROVE DoorInv
  OBVIOUS
<1>1. KeysInv /\ RunnerInv /\ TenantInv
  BY InitKeys, InitRunner, InitTenant DEF DoorInit
<1>2. NoCall \in Call /\ NoCall.stage = "idle" /\ NoCall.answer = "none"
  BY AccountAssumption DEF NoCall, CallAt, Call, Stages, Answers
<1>3. CallsInv BY <1>2 DEF DoorInit, CallsInv, Accounted, Ordinary
<1> QED BY <1>1, <1>3 DEF DoorInv

\* Every state of the front door keeps what is known of its keys, of the runner, of the
\* tenant's rows and of the calls under way.
THEOREM DoorInvariant == DoorSpec => []DoorInv
<1>1. DoorInv /\ [DoorNext]_doorVars => DoorInv'
  <2> SUFFICES ASSUME DoorInv, [DoorNext]_doorVars PROVE DoorInv'
    OBVIOUS
  <2>1. KeysInv' BY TrustProjection, KeysStep DEF DoorInv
  <2>2. RunnerInv' BY RunnerProjection, RunnerStep DEF DoorInv
  <2>3. TenantInv' BY AccountProjection, TenantStep DEF DoorInv
  <2>4. CallsInv' BY CallsStep DEF DoorInv
  <2> QED BY <2>1, <2>2, <2>3, <2>4 DEF DoorInv
<1> QED BY InitDoor, <1>1, PTL DEF DoorSpec

\* No request, however long it has been under way, brings a principal, a case or a
\* charge back into a tenant that was deleted.
THEOREM DeletionIsFinal == DoorSpec => []DeletedStaysEmpty
<1>1. DoorInv => DeletedStaysEmpty BY DEF DoorInv, TenantInv, DeletedStaysEmpty
<1> QED BY <1>1, DoorInvariant, PTL

\* An export handed over has been charged and recorded, and no day is charged beyond
\* the limit, for any number of requests, keys and days.
THEOREM ExportsAreCharged == DoorSpec => []ExportIsCharged
<1>1. DoorInv => ExportIsCharged
  <2> SUFFICES ASSUME DoorInv PROVE ExportIsCharged
    OBVIOUS
  <2>1. ASSUME NEW c \in Callers, calls[c].answer = "exported", tenant # "DELETED"
        PROVE  Charged(Asked(c).key) /\ Asked(c).key \in audited
    <3>1. Accounted(calls[c]) BY DEF DoorInv, CallsInv
    <3> QED BY <2>1, <3>1 DEF Accounted, Ordinary, Asked
  <2> QED BY <2>1 DEF DoorInv, TenantInv, ExportIsCharged
<1> QED BY <1>1, DoorInvariant, PTL

\* A token's key is found while the provider publishes it, and not for longer after its
\* withdrawal than the cache and one request last, for any lengths of either.
THEOREM VerifierFollowsProvider == DoorSpec => TrustFollowsProvider
<1>1. DoorInv /\ [DoorNext]_doorVars => \A c \in Callers : Followed(c)
  BY TrustProjection, TrustStep DEF DoorInv
<1>2. DoorInv /\ [DoorNext]_doorVars =>
        [\A c \in Callers :
            verifications'[c].pc # verifications[c].pc =>
                /\ verifications'[c].pc = "unknown" => ~verifications'[c].steady
                /\ verifications'[c].pc = "trusted" /\ verifications'[c].key \notin published' =>
                      retired'[verifications'[c].key] < RetiredBound]_trustVars
  BY <1>1 DEF Followed
<1> QED BY <1>2, DoorInvariant, PTL DEF DoorSpec, TrustFollowsProvider

\* "Ready" is never older than a probe and the cache together last, for any lengths.
THEOREM ReadyIsNews == DoorSpec => ReadyIsRecent
<1>1. DoorInv /\ [DoorNext]_doorVars =>
        [\A a \in Askers :
            checks'[a].pc = "ready" /\ checks[a].pc # "ready" =>
                runner'.up \/ runner'.down < DownBound]_runnerVars
  BY RunnerProjection, ReadyStep DEF DoorInv
<1> QED BY <1>1, DoorInvariant, PTL DEF DoorSpec, ReadyIsRecent
=============================================================================
