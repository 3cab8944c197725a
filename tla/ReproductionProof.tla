-------------------------- MODULE ReproductionProof --------------------------
(***************************************************************************)
(* From runs to a verdict that is recorded: one attempt of the worker.     *)
(*                                                                         *)
(* For a repository the control and the required candidates run one after  *)
(* the other, each with any output or with an error that ends the attempt; *)
(* assembleRepositoryProof redacts them, evaluates the oracle on what is   *)
(* left, walks the case to its final state and, if it is verified, packs   *)
(* the bundle; the worker checks all of it again, stores the bundle and    *)
(* ends the job.  A trusted sample has fixed runs and one proposal to      *)
(* minimize.  minimizeReproduction is also applied to any proposals, as    *)
(* its callers may one day do.                                             *)
(***************************************************************************)
EXTENDS Verdicts

CONSTANTS
    Outputs,      \* the outputs a run may have: exit code and streams
    Oracles,      \* failure oracles a start command may carry
    SecretSets,   \* what is redacted
    RequiredRuns, \* budgets
    MaxWords,     \* maxOutputBytes
    SampleOracle, SampleControl, SampleCandidate, \* the fixture of the trusted sample
    Proposals     \* sequences of proposals for minimizeReproduction

Run(output) ==
    [exitCode |-> output.exitCode, stdout |-> output.stdout, stderr |-> output.stderr,
     environment |-> "environment"]

ASSUME ProofAssumption ==
    /\ RequiredRuns \subseteq Nat \ {0}
    /\ \A oracle \in Oracles \cup {SampleOracle} : WellFormed(oracle.root)

\* The fixture does what it was written for.
ASSUME FixtureAssumption ==
    /\ ~Matched(SampleOracle, Run(SampleControl))
    /\ Matched(SampleOracle, Run(SampleCandidate))

\* minimizationProposalSchema
ASSUME ProposalAssumption ==
    \A proposals \in Proposals :
        /\ proposals \in Seq(ToSet(proposals))
        /\ \A p \in ToSet(proposals) : p.id \in Nat \ {NoReduction} /\ IsFiniteSet(p.removedInputs)

VARIABLES
    input,  \* what the attempt was started with
    runs,   \* the runs so far, the control first
    stage,  \* where the attempt stands
    result, \* the proof
    stored, \* bundles in the artifact store
    record  \* the record the worker returns: states of case and job

proofVars == <<input, runs, stage, result, stored, record>>

NoResult == [status |-> "none"]

ProofInput(kind, oracle, required, secrets, proposals) ==
    [kind |-> kind, oracle |-> oracle, required |-> required, secrets |-> secrets,
     proposals |-> proposals]

ProofInit ==
    /\ \E required \in RequiredRuns :
          \/ \E oracle \in Oracles, secrets \in SecretSets :
                input = ProofInput("repository", oracle, required, secrets, <<>>)
          \/ input = ProofInput("sample", SampleOracle, required, {}, <<>>)
          \/ \E proposals \in Proposals :
                input = ProofInput("minimization", SampleOracle, required, {}, proposals)
    /\ runs = <<>>
    /\ stage = IF input.kind = "repository" THEN "running" ELSE "assembling"
    /\ result = NoResult
    /\ stored = {}
    /\ record = NoResult

----------------------------------------------------------------------------
(* The runs.                                                               *)

\* executeRun returns: the streams are cut, and redacted for the first time.
ObserveRun(output) ==
    /\ stage = "running"
    /\ Len(runs) < input.required + 1
    /\ runs' = Append(runs,
          PersistedRun([Run(output) EXCEPT !.stdout = Capture(@, MaxWords),
                                           !.stderr = Capture(@, MaxWords)], input.secrets))
    /\ stage' = IF Len(runs') = input.required + 1 THEN "assembling" ELSE "running"
    /\ UNCHANGED <<input, result, stored, record>>

\* mapTermination: a limit was exceeded, or the provider interrupted the run.
RunLimit ==
    /\ stage = "running"
    /\ stage' = "failed"
    /\ UNCHANGED <<input, runs, result, stored, record>>

----------------------------------------------------------------------------
(* The proof.                                                              *)

\* assembleRepositoryProof, up to the bundle.
Assembled(observed) ==
    LET kept == [i \in DOMAIN observed |-> PersistedRun(observed[i], input.secrets)]
        summary == VerifyReproduction(input.oracle, Head(kept), Tail(kept), input.required)
    IN [runs |-> kept, summary |-> summary, oracle |-> input.oracle,
        hypothesis |-> ProofHypothesis(summary.status),
        case |-> TransitionCase("DRAFT", TerminalPath(summary.status)),
        minimization |-> IF summary.status = "VERIFIED"
                         THEN MinimizeReproduction(input.oracle, <<>>, input.required)
                         ELSE NoResult]

\* createBundle and materializeBundle, for a verified proof only.
Bundled(proof) ==
    IF proof.summary.status = "VERIFIED"
    THEN CreateBundle("case", proof.oracle, proof.minimization, proof.runs,
                      proof.summary, <<proof.hypothesis>>)
    ELSE NoResult

Proof(observed) ==
    LET proof == Assembled(observed)
    IN [runs |-> proof.runs, summary |-> proof.summary, oracle |-> proof.oracle,
        hypothesis |-> proof.hypothesis, case |-> proof.case,
        minimization |-> proof.minimization, bundle |-> Bundled(proof)]

ProofEvidence == {"request", "source-provenance", "clean-runs"}

\* repositoryProofResultSchema, and what reproBundleSchema and
\* validateMaterializedBundle ask of the bundle.
ValidProof(proof) ==
    /\ proof.case = proof.summary.status
    /\ (proof.summary.status = "VERIFIED") = (proof.bundle # NoResult)
    /\ (proof.summary.status = "VERIFIED") = (proof.minimization # NoResult)
    /\ ValidHypothesis(proof.hypothesis)
    /\ proof.hypothesis.evidence \subseteq ProofEvidence
    /\ proof.bundle # NoResult =>
          ValidBundle(proof.bundle) /\ ValidMaterialized(MaterializeBundle(proof.bundle))

AssembleProof ==
    /\ stage = "assembling" /\ input.kind = "repository"
    /\ IF ValidProof(Proof(runs))
       THEN result' = Proof(runs) /\ stage' = "proved"
       ELSE result' = NoResult /\ stage' = "invalid"
    /\ UNCHANGED <<input, runs, stored, record>>

\* runTrustedSample: a control, the candidates, and both again with the reporter's
\* assumptions left out.  The runs kept are the second ones, the summary is that
\* of the accepted reduction.
SampleRuns == <<Run(SampleControl)>> \o [i \in 1..input.required |-> Run(SampleCandidate)]

SampleProposal ==
    [id |-> 1, removedInputs |-> {"shell assumption", "working directory"},
     control |-> Head(SampleRuns), candidates |-> Tail(SampleRuns)]

SampleProof ==
    LET baseline == VerifyReproduction(SampleOracle, Head(SampleRuns), Tail(SampleRuns),
                                       input.required)
        minimization == MinimizeReproduction(SampleOracle, <<SampleProposal>>, input.required)
        accepted == {e \in ToSet(minimization.evaluations) :
                        e.id = minimization.acceptedReductionId}
        summary == IF accepted = {} THEN baseline ELSE (CHOOSE e \in accepted : TRUE).summary
    IN [runs |-> SampleRuns, summary |-> summary, oracle |-> SampleOracle,
        hypothesis |-> ProofHypothesis("VERIFIED"),
        case |-> TransitionCase("DRAFT", TerminalPath("VERIFIED")),
        minimization |-> minimization,
        bundle |-> CreateBundle("case", SampleOracle, minimization, SampleRuns, summary,
                                <<ProofHypothesis("VERIFIED")>>)]

AssembleSample ==
    /\ stage = "assembling" /\ input.kind = "sample"
    /\ IF Minimizable(SampleOracle, SampleRuns, input.required) /\ ValidProof(SampleProof)
       THEN result' = SampleProof /\ stage' = "proved"
       ELSE result' = NoResult /\ stage' = "invalid"
    /\ UNCHANGED <<input, runs, stored, record>>

Minimize ==
    /\ stage = "assembling" /\ input.kind = "minimization"
    /\ result' = MinimizeReproduction(SampleOracle, input.proposals, input.required)
    /\ stage' = IF /\ Minimizable(SampleOracle, SampleRuns, input.required)
                   /\ ValidMinimization(result')
                THEN "minimized" ELSE "rejected"
    /\ UNCHANGED <<input, runs, stored, record>>

----------------------------------------------------------------------------
(* The worker.                                                             *)

\* A bundle is stored before the job ends; put may fail, with or without effect.
PutBundle ==
    /\ stage = "proved" /\ result.bundle # NoResult
    /\ stored' = {result.bundle}
    /\ stage' = "stored"
    /\ UNCHANGED <<input, runs, result, record>>

PutBundleFails ==
    /\ stage = "proved" /\ result.bundle # NoResult
    /\ stored' \in {{}, {result.bundle}}
    /\ stage' = "failed"
    /\ UNCHANGED <<input, runs, result, record>>

\* Whatever the verdict, the job has SUCCEEDED.
ReturnRecord ==
    /\ \/ stage = "stored"
       \/ stage = "proved" /\ result.bundle = NoResult
    /\ record' = [case |-> result.case, job |-> "SUCCEEDED", result |-> result]
    /\ stage' = "done"
    /\ UNCHANGED <<input, runs, result, stored>>

ProofNext ==
    \/ \E output \in Outputs : ObserveRun(output)
    \/ RunLimit
    \/ AssembleProof
    \/ AssembleSample
    \/ Minimize
    \/ PutBundle
    \/ PutBundleFails
    \/ ReturnRecord

ProofSpec == ProofInit /\ [][ProofNext]_proofVars

----------------------------------------------------------------------------
\* Who has nothing but the record can judge it again: of the runs that were kept,
\* redacted and cut as they are, every candidate matches and the control does not
\* exactly if the case is VERIFIED, and then the stored bundle holds those runs.  And
\* there always is a record to judge: whatever the runs showed, the case can be walked
\* to the verdict and the assembled proof passes the schemas that check it.
VerdictEarned ==
    /\ stage # "invalid"
    /\ record # NoResult =>
          LET kept == record.result.runs
              Judged(i) == Matched(record.result.oracle, kept[i]) IN
          /\ record.case = "VERIFIED" <=>
                 ~Judged(1) /\ Len(kept) > input.required /\ \A i \in 2..Len(kept) : Judged(i)
          /\ record.case = "NOT_REPRODUCED" => \A i \in DOMAIN kept : ~Judged(i)
          /\ stored = {[b EXCEPT !.runLog = kept] : b \in {record.result.bundle} \ {NoResult}}
          /\ (stored # {}) = (record.case = "VERIFIED")

\* Minimization accepts a reduction that is verified by runs of its own and none of
\* the verified ones removes more; the order of the proposals plays no part in which.
LargestReduction ==
    stage = "minimized" =>
        /\ \A p \in ToSet(input.proposals) :
              VerifyReproduction(SampleOracle, p.control, p.candidates, input.required).status
                  = "VERIFIED"
              => Cardinality(p.removedInputs) <= Cardinality(result.acceptedRemovedInputs)
        /\ result.acceptedReductionId # NoReduction =>
              \E p \in ToSet(input.proposals) :
                 /\ p.id = result.acceptedReductionId
                 /\ p.removedInputs = result.acceptedRemovedInputs
                 /\ VerifyReproduction(SampleOracle, p.control, p.candidates,
                                       input.required).status = "VERIFIED"
        /\ MinimizeReproduction(SampleOracle, Reverse(input.proposals), input.required)
              .acceptedReductionId = result.acceptedReductionId
=============================================================================
