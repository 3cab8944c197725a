----------------------------- MODULE MCServices -----------------------------
(***************************************************************************)
(* One run for the parts that answer requests and judge runs.  They share  *)
(* no state, so they are not interleaved: "part" says which one moves, and *)
(* the others stay as they are.  The front door is looked at three times,  *)
(* each time with the requests and the disturbances that belong together.  *)
(***************************************************************************)
EXTENDS Oracles, CaseService, FrontDoor, TLC

CONSTANTS k1, k2, s1, e1, e2

VARIABLE part

servicesVars == <<part, proofVars, sampleVars, doorVars>>

\* Streams: words, and what they parse to.
Words(words) == [words |-> words, document |-> NoDocument]
Json(document) == [words |-> <<"json">>, document |-> document]
Output(exitCode, stdout, stderr) == [exitCode |-> exitCode, stdout |-> stdout, stderr |-> stderr]

Nothing == Words(<<>>)
Nested == Object("error" :> Object("code" :> Atom("ENOENT")))
Leaking == Object("error" :> Object("code" :> Atom("token")))

MCOutputs ==
    {Output(0, Nothing, Nothing),
     Output(1, Words(<<"ENOENT">>), Words(<<"token", "ENOENT">>)),
     Output(1, Words(<<"trace", "ENOENT">>), Words(<<"ENOENT">>)),
     Output(1, Json(Nested), Nothing),
     Output(0, Json(Leaking), Nothing)}

Exit(expected) == [type |-> "exit_code", expected |-> expected]
Prints(stream, value) == [type |-> "output_contains", stream |-> stream, value |-> value]
Regex(stream, pattern) == [type |-> "output_regex", stream |-> stream, pattern |-> pattern]
Field(path, equals) ==
    [type |-> "json_field", stream |-> "stdout", path |-> path, equals |-> equals]
All(children) == [type |-> "all", children |-> children]
Some(children) == [type |-> "any", children |-> children]
Not(child) == [type |-> "not", child |-> child]
Oracle(root) == [id |-> "oracle", version |-> 1, root |-> root]

MCOracles ==
    {Oracle(All(<<Exit(1), Prints("stderr", "ENOENT")>>)),
     Oracle(Some(<<Prints("stderr", "token"), Field(<<"error", "code">>, Atom("ENOENT"))>>)),
     Oracle(Not(Regex("stdout", {"json", "trace"}))),
     Oracle(Field(<<"error", "name">>, Undefined)),
     Oracle(Prints("stderr", Marker))}

Passing == Output(0, Words(<<"loaded">>), Nothing)
Failing == Output(1, Nothing, Words(<<"ENOENT">>))

MCSampleOracle == Oracle(All(<<Exit(1), Prints("stderr", "ENOENT")>>))

Proposal(id, removed, control, last) ==
    [id |-> id, removedInputs |-> removed, control |-> Run(control),
     candidates |-> <<Run(Failing), Run(Failing), Run(last)>>]

SomeProposals ==
    {Proposal(id, removed, control, last) :
        id \in 1..2, removed \in {{"a"}, {"b"}, {"a", "b"}},
        control \in {Passing, Failing}, last \in {Passing, Failing}}

MCProposals ==
    {<<>>} \cup {<<p>> : p \in SomeProposals}
    \cup {<<p, q>> : p \in SomeProposals, q \in SomeProposals}

----------------------------------------------------------------------------
(* Requests.                                                               *)

Asks(route, kind, token, key, command) ==
    [route |-> route, kind |-> kind, subject |-> s1, token |-> token, key |-> key,
     command |-> command]

\* Callers with a token, while keys are rotated.
TokenRequests ==
    {Asks("rest", "start", "good", "start", 1), Asks("mcp", "bundle", "narrow", "start", 1),
     Asks("mcp", "start", "expired", "start", 1), Asks("rest", "cancel", "malformed", "start", 1),
     Asks("rest", "read", "foreign", "start", 1), Asks("web", "list", "good", "start", 1)}

\* Starts, while the runner breaks down.
RunnerRequests ==
    {Asks("web", "start", "good", "start", 1), Asks("rest", "health", "none", "start", 1)}

\* Account owners, while the account is deleted and days pass.
AccountRequests ==
    {Asks("web", "start", "good", "start", 2), Asks("web", "start", "none", "start", 1),
     Asks("web", "account export", "good", e1, 1), Asks("web", "account export", "good", e2, 1),
     Asks("web", "account deletion", "good", e1, 1)}

MCRequests == TokenRequests \cup RunnerRequests \cup AccountRequests

Parts == {"proof", "samples", "tokens", "runner", "accounts"}
DoorParts == {"tokens", "runner", "accounts"}

Workload ==
    CASE part = "tokens" -> TokenRequests
      [] part = "runner" -> RunnerRequests
      [] part = "accounts" -> AccountRequests
      [] OTHER -> {}

----------------------------------------------------------------------------
ProofIdle ==
    /\ input = ProofInput("sample", SampleOracle, 3, {}, <<>>)
    /\ runs = <<>> /\ stage = "idle" /\ result = NoResult /\ stored = {} /\ record = NoResult

DoorIdle == DoorInit /\ published = {k1} /\ flags = "none"

ServicesInit ==
    /\ part \in Parts
    /\ IF part = "proof" THEN ProofInit ELSE ProofIdle
    /\ SampleInit /\ (part # "samples" => mode = "offline")
    /\ CASE part \notin DoorParts -> DoorIdle
         [] part = "tokens" -> DoorInit /\ flags = "starts"
         [] part = "runner" -> DoorInit /\ published = {k1} /\ flags \in {"private", "profile"}
         [] part = "accounts" -> DoorInit /\ published = {k1} /\ flags = "none"

DoorMoves == part \in DoorParts /\ DoorNext /\ UNCHANGED <<proofVars, sampleVars>>

ServicesNext ==
    /\ UNCHANGED part
    /\ \/ part = "proof" /\ ProofNext /\ UNCHANGED <<sampleVars, doorVars>>
       \/ part = "samples" /\ SampleNext /\ UNCHANGED <<proofVars, doorVars>>
       \/ DoorMoves

ServicesSpec == ServicesInit /\ [][ServicesNext]_servicesVars

\* Who asks for what, and what may go wrong meanwhile.
Confined ==
    /\ \A c \in Callers : calls'[c].request \in Workload \cup {NoRequest}
    /\ part = "tokens" => UNCHANGED <<runner, deletion, today>>
    /\ part = "runner" => UNCHANGED <<published, deletion, today>>
    /\ part = "accounts" => UNCHANGED <<published, runner>>

Symmetry == Permutations(Callers) \cup Permutations(Keys)
=============================================================================
