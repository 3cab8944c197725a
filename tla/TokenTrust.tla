----------------------------- MODULE TokenTrust -----------------------------
(***************************************************************************)
(* Signing keys of the authorization server, as one process sees them.     *)
(*                                                                         *)
(* The verifier keeps the provider's key set for cacheTtlMs and asks again *)
(* when the set is stale or lacks the key a token names.  Every            *)
(* verification that asks makes requests of its own; what comes back last  *)
(* is what is kept, whenever it was read at the provider.                  *)
(***************************************************************************)
EXTENDS Naturals, FiniteSets

CONSTANTS
    Callers,     \* verifications that may be under way at once
    Keys,        \* signing keys
    CacheTicks,  \* cacheTtlMs
    FetchTicks,  \* a bound on the time a request for the key set takes
    NoMaterial

ASSUME TrustAssumption == CacheTicks \in Nat \ {0} /\ FetchTicks \in Nat

VARIABLES
    published,     \* the keys the provider publishes
    retired,       \* [Keys -> ticks since the key was withdrawn, up to a bound]
    cached,        \* the key set kept, and its age
    verifications  \* [Callers -> a verification]

trustVars == <<published, retired, cached, verifications>>

RetiredBound == CacheTicks + FetchTicks

NoVerification ==
    [pc |-> "idle", key |-> NoMaterial, keys |-> NoMaterial, age |-> 0, steady |-> FALSE]

Verification ==
    [pc : {"idle", "first", "forced", "trusted", "unknown", "unread", "unavailable"},
     key : Keys \cup {NoMaterial}, keys : (SUBSET Keys) \cup {NoMaterial},
     age : 0..FetchTicks, steady : BOOLEAN]

TrustTypeOK ==
    /\ published \subseteq Keys
    /\ retired \in [Keys -> 0..RetiredBound]
    /\ cached = NoMaterial \/ cached \in [keys : SUBSET Keys, age : 0..CacheTicks]
    /\ verifications \in [Callers -> Verification]

TrustInit ==
    /\ published \in (SUBSET Keys) \ {{}}
    /\ retired = [k \in Keys |-> IF k \in published THEN 0 ELSE RetiredBound]
    /\ cached = NoMaterial
    /\ verifications = [c \in Callers |-> NoVerification]

\* A set once kept is kept for good.
FreshMutant == cached # NoMaterial

Fresh == cached # NoMaterial /\ cached.age < CacheTicks

----------------------------------------------------------------------------
(* The provider.                                                           *)

\* A rotation: a key appears, or is withdrawn; the set is never empty.
PublishKey(k) ==
    /\ k \notin published
    /\ published' = published \cup {k}
    /\ retired' = [retired EXCEPT ![k] = 0]
    /\ UNCHANGED <<cached, verifications>>

RetireKey(k) ==
    /\ k \in published /\ published # {k}
    /\ published' = published \ {k}
    /\ verifications' = [c \in Callers |->
          IF verifications[c].key = k THEN [verifications[c] EXCEPT !.steady = FALSE]
                                      ELSE verifications[c]]
    /\ UNCHANGED <<retired, cached>>

----------------------------------------------------------------------------
(* The verifier.                                                           *)

\* A verification goes on, or ends, without a key set.
Became(v, pc) ==
    [pc |-> pc, key |-> v.key, keys |-> NoMaterial, age |-> 0, steady |-> v.steady]

\* What signingKey does with the set it has just been given.
FindKey(v, keys, how) ==
    CASE v.key \in keys -> Became(v, "trusted")
      [] v.key \notin keys /\ how # "forced" -> Became(v, "forced")
      [] OTHER -> Became(v, "unknown")

BeginVerification(c, k) ==
    LET v == [pc |-> "first", key |-> k, keys |-> NoMaterial, age |-> 0,
              steady |-> k \in published] IN
    /\ verifications' = [verifications EXCEPT ![c] =
          IF Fresh THEN FindKey(v, cached.keys, "first") ELSE v]
    /\ UNCHANGED <<published, retired, cached>>

Asking(c) == verifications[c].pc \in {"first", "forced"}

\* The provider answers the request with the set it publishes now ...
ProviderAnswers(c) ==
    /\ Asking(c) /\ verifications[c].keys = NoMaterial
    /\ verifications' = [verifications EXCEPT ![c].keys = published]
    /\ UNCHANGED <<published, retired, cached>>

\* ... which arrives later, replaces what is kept and counts as new.
KeySetArrives(c) ==
    /\ Asking(c) /\ verifications[c].keys # NoMaterial
    /\ cached' = [keys |-> verifications[c].keys, age |-> 0]
    /\ verifications' = [verifications EXCEPT ![c] = FindKey(@, @.keys, @.pc)]
    /\ UNCHANGED <<published, retired>>

\* The provider answers with an error, or with metadata that is not accepted.
FetchFails(c) ==
    /\ Asking(c)
    /\ verifications' = [verifications EXCEPT ![c] = Became(@, "unavailable")]
    /\ UNCHANGED <<published, retired, cached>>

\* The request itself fails, or what it brings is no JSON: no OAuthVerificationError,
\* so the catch of verify calls the token invalid.
FetchThrows(c) ==
    /\ Asking(c)
    /\ verifications' = [verifications EXCEPT ![c] = Became(@, "unread")]
    /\ UNCHANGED <<published, retired, cached>>

\* Time passes for the set that is kept and for the requests under way.
TrustTick ==
    /\ \A c \in Callers : Asking(c) => verifications[c].age < FetchTicks
    /\ retired' = [k \in Keys |->
          IF k \in published \/ retired[k] = RetiredBound THEN retired[k] ELSE retired[k] + 1]
    /\ cached' = IF Fresh THEN [cached EXCEPT !.age = @ + 1] ELSE cached
    /\ verifications' = [c \in Callers |->
          IF Asking(c) THEN [verifications[c] EXCEPT !.age = @ + 1] ELSE verifications[c]]
    /\ UNCHANGED published

----------------------------------------------------------------------------
\* A rotation reaches the verifier in time: no token is refused for its key while
\* the provider has published that key ever since the verification began, and none is
\* trusted for a key that was withdrawn longer ago than the cache and one request
\* together can last - although requests overlap and the set read first may be kept last.
TrustFollowsProvider ==
    [][\A c \in Callers :
          verifications'[c].pc # verifications[c].pc =>
              /\ verifications'[c].pc = "unknown" => ~verifications'[c].steady
              /\ verifications'[c].pc = "trusted" /\ verifications'[c].key \notin published' =>
                    retired'[verifications'[c].key] < RetiredBound]_trustVars
=============================================================================
