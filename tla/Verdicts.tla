------------------------------ MODULE Verdicts ------------------------------
(***************************************************************************)
(* The pure rules by which runs become a verdict: verification,            *)
(* minimization, the states of a case, and what a bundle must be, for any  *)
(* language of oracles and any redaction (those of the program are in      *)
(* Oracles).  A stream is the sequence of its words, and the document      *)
(* JSON.parse makes of it, if any.  Wording, hashes and durations are left *)
(* out.                                                                    *)
(***************************************************************************)
EXTENDS Integers, Sequences, FiniteSets, SequencesExt

CONSTANTS
    NoDocument,     \* the stream is not JSON
    Undefined,      \* a field that is not there, or an oracle that expects none
    Redacted(_, _), \* a stream without the secrets
    Matched(_, _),  \* whether an oracle matches a run
    WellFormed(_)   \* whether an expression passes its schema

----------------------------------------------------------------------------
(* Runs and redaction.                                                     *)

\* captureBoundedOutput: the first maxWords of a stream; what is cut is no JSON.
Capture(stream, maxWords) ==
    IF Len(stream.words) <= maxWords THEN stream
    ELSE [words |-> SubSeq(stream.words, 1, maxWords), document |-> NoDocument]

\* persistedRun: what is kept of a run.
PersistedRun(run, secrets) ==
    [run EXCEPT !.stdout = Redacted(@, secrets), !.stderr = Redacted(@, secrets)]

----------------------------------------------------------------------------
(* Verification.                                                           *)

\* A control that matches is not looked at.
StatusMutant(controlMatched, environments, matches, total, required) ==
    IF Cardinality(environments) # 1 THEN "BLOCKED"
    ELSE IF total >= required /\ matches = total THEN "VERIFIED"
    ELSE IF matches > 0 THEN "UNSTABLE"
    ELSE "NOT_REPRODUCED"

\* The order of the branches is the code's.
Status(controlMatched, environments, matches, total, required) ==
    IF controlMatched THEN "BLOCKED"
    ELSE IF Cardinality(environments) # 1 THEN "BLOCKED"
    ELSE IF total >= required /\ matches = total THEN "VERIFIED"
    ELSE IF matches > 0 THEN "UNSTABLE"
    ELSE "NOT_REPRODUCED"

VerifyReproduction(oracle, control, candidates, required) ==
    LET controlMatched == Matched(oracle, control)
        matches == Cardinality({i \in DOMAIN candidates : Matched(oracle, candidates[i])})
        environments == {control.environment} \cup {run.environment : run \in ToSet(candidates)}
    IN [status |-> Status(controlMatched, environments, matches, Len(candidates), required),
        controlMatched |-> controlMatched, candidateMatches |-> matches,
        totalCandidateRuns |-> Len(candidates), requiredRuns |-> required,
        oracle |-> [id |-> oracle.id, version |-> oracle.version]]

----------------------------------------------------------------------------
(* Minimization.                                                           *)

Evaluations(oracle, proposals, required) ==
    [i \in DOMAIN proposals |->
        [id |-> proposals[i].id, removedInputs |-> proposals[i].removedInputs,
         summary |-> VerifyReproduction(oracle, proposals[i].control,
                                        proposals[i].candidates, required)]]

\* Identifiers only.
BetterMutant(left, right) == left.id < right.id

\* The comparison of sort; an identifier is a number here.
Better(left, right) ==
    \/ Cardinality(left.removedInputs) > Cardinality(right.removedInputs)
    \/ /\ Cardinality(left.removedInputs) = Cardinality(right.removedInputs)
       /\ left.id < right.id

VerifiedOnes(evaluations) ==
    {i \in DOMAIN evaluations : evaluations[i].summary.status = "VERIFIED"}

\* sort is stable.
Before(evaluations, i, j) ==
    \/ Better(evaluations[i], evaluations[j])
    \/ ~Better(evaluations[j], evaluations[i]) /\ i < j

\* The first of the sorted list of verified evaluations.
Accepted(evaluations) ==
    {i \in VerifiedOnes(evaluations) :
        \A j \in VerifiedOnes(evaluations) \ {i} : Before(evaluations, i, j)}

NoReduction == 0

\* Minimization requires a verified baseline, and throws without one.
Minimizable(oracle, baseline, required) ==
    VerifyReproduction(oracle, Head(baseline), Tail(baseline), required).status = "VERIFIED"

MinimizeReproduction(oracle, proposals, required) ==
    LET evaluations == Evaluations(oracle, proposals, required)
        accepted == Accepted(evaluations)
    IN [acceptedReductionId |-> IF accepted = {} THEN NoReduction
                                ELSE evaluations[CHOOSE i \in accepted : TRUE].id,
        acceptedRemovedInputs |-> UNION {evaluations[i].removedInputs : i \in accepted},
        claim |-> IF accepted = {} THEN "baseline-retained" ELSE "locally-minimized",
        evaluations |-> evaluations]

\* minimizationResultSchema: find returns the first with the identifier, and nothing
\* keeps identifiers apart.
ValidMinimization(result) ==
    IF result.acceptedReductionId = NoReduction
    THEN result.claim = "baseline-retained" /\ result.acceptedRemovedInputs = {}
    ELSE /\ result.claim = "locally-minimized"
         /\ \E i \in DOMAIN result.evaluations :
               /\ result.evaluations[i].id = result.acceptedReductionId
               /\ result.evaluations[i].summary.status = "VERIFIED"
               /\ \A j \in 1..(i - 1) : result.evaluations[j].id # result.acceptedReductionId

----------------------------------------------------------------------------
(* Cases and hypotheses.                                                   *)

AllowedTransitions(from) ==
    CASE from = "DRAFT" -> {"INGESTING", "CANCELLED"}
      [] from = "INGESTING" -> {"INSPECTING", "BLOCKED", "CANCELLED"}
      [] from = "INSPECTING" -> {"HYPOTHESIZING", "BLOCKED", "CANCELLED"}
      [] from = "HYPOTHESIZING" -> {"EXPERIMENTING", "BLOCKED", "CANCELLED"}
      [] from = "EXPERIMENTING" -> {"VERIFYING", "BLOCKED", "CANCELLED"}
      [] from = "VERIFYING" ->
            {"MINIMIZING", "UNSTABLE", "NOT_REPRODUCED", "BLOCKED", "CANCELLED"}
      [] from = "MINIMIZING" -> {"PACKAGING", "BLOCKED", "CANCELLED"}
      [] from = "PACKAGING" -> {"VERIFIED", "BLOCKED", "CANCELLED"}
      [] OTHER -> {}

CanTransition(from, to) == to \in AllowedTransitions(from)

Throws == "THROWS"

\* transitionCase, along a path; the history is the path itself.
TransitionCase(state, path) ==
    IF \A i \in DOMAIN path : CanTransition(IF i = 1 THEN state ELSE path[i - 1], path[i])
    THEN Last(path) ELSE Throws

ToVerifying == <<"INGESTING", "INSPECTING", "HYPOTHESIZING", "EXPERIMENTING", "VERIFYING">>

\* terminalCase; the trusted sample's transitionPath is the VERIFIED one.
TerminalPath(status) ==
    ToVerifying \o IF status = "VERIFIED" THEN <<"MINIMIZING", "PACKAGING", "VERIFIED">>
                   ELSE <<status>>

\* hypothesisSchema: the last entry of the history is the status, and the
\* sequence numbers grow.
ValidHypothesis(hypothesis) ==
    /\ Last(hypothesis.statusHistory).status = hypothesis.status
    /\ \A i \in 2..Len(hypothesis.statusHistory) :
          hypothesis.statusHistory[i - 1].sequence < hypothesis.statusHistory[i].sequence

ProofHypothesis(status) ==
    LET verdict == CASE status = "VERIFIED" -> "supported"
                     [] status = "NOT_REPRODUCED" -> "contradicted"
                     [] OTHER -> "inconclusive"
    IN [status |-> verdict,
        evidence |-> {"request", "source-provenance", "clean-runs"},
        statusHistory |-> <<[sequence |-> 0, status |-> "proposed"],
                            [sequence |-> 1, status |-> verdict]>>]

----------------------------------------------------------------------------
(* Bundles.                                                                *)

\* createBundle: the hash stands for its argument.
CreateBundle(caseId, oracle, minimization, runLog, summary, hypotheses) ==
    [caseId |-> caseId, oracle |-> oracle, minimization |-> minimization, runLog |-> runLog,
     summary |-> summary, hypothesisLedger |-> hypotheses,
     lock |-> [oracle |-> [id |-> oracle.id, version |-> oracle.version]]]

\* reproBundleSchema
ValidBundle(bundle) ==
    /\ bundle.summary.status = "VERIFIED"
    /\ bundle.summary.oracle = [id |-> bundle.oracle.id, version |-> bundle.oracle.version]
    /\ bundle.lock.oracle = bundle.summary.oracle
    /\ ValidMinimization(bundle.minimization)

RequiredBundleFiles ==
    {"repro", "lock", "failure-signature", "patch", "run-log", "hypothesis-ledger",
     "minimization", "verification-summary"}

\* materializeBundle: one file for each part.
MaterializeBundle(bundle) ==
    [file \in RequiredBundleFiles |->
        CASE file = "failure-signature" -> bundle.oracle
          [] file = "lock" -> bundle.lock
          [] file = "run-log" -> bundle.runLog
          [] file = "hypothesis-ledger" -> bundle.hypothesisLedger
          [] file = "minimization" -> bundle.minimization
          [] file = "verification-summary" -> bundle.summary
          [] OTHER -> Undefined]

\* validateMaterializedBundle: each part is valid by itself; that the parts agree
\* is not looked at here.
ValidMaterialized(files) ==
    /\ RequiredBundleFiles \subseteq DOMAIN files
    /\ WellFormed(files["failure-signature"].root)
    /\ \A i \in DOMAIN files["hypothesis-ledger"] : ValidHypothesis(files["hypothesis-ledger"][i])
    /\ ValidMinimization(files["minimization"])
=============================================================================
