------------------------------- MODULE Oracles -------------------------------
(***************************************************************************)
(* The language of failure oracles and the redaction of runs, by which the *)
(* operators that Verdicts leaves open are given their meaning.  A         *)
(* document is an atom or an object with named fields.                     *)
(***************************************************************************)
EXTENDS ReproductionProof

CONSTANT Marker \* "[REDACTED]"

----------------------------------------------------------------------------
(* Redaction.                                                              *)

Atom(word) == [object |-> FALSE, atom |-> word, fields |-> <<>>]
Object(fields) == [object |-> TRUE, atom |-> Undefined, fields |-> fields]

RedactWord(word, secrets) == IF word \in secrets THEN Marker ELSE word

\* redactString on the text of a document masks its atoms.
RECURSIVE RedactDocument(_, _)
RedactDocument(document, secrets) ==
    IF document = NoDocument THEN NoDocument
    ELSE IF document.object
    THEN Object([f \in DOMAIN document.fields |-> RedactDocument(document.fields[f], secrets)])
    ELSE Atom(RedactWord(document.atom, secrets))

Redact(stream, secrets) ==
    [words |-> [i \in DOMAIN stream.words |-> RedactWord(stream.words[i], secrets)],
     document |-> RedactDocument(stream.document, secrets)]

----------------------------------------------------------------------------
(* Evaluation.                                                             *)

StreamValue(run, stream) == IF stream = "stdout" THEN run.stdout ELSE run.stderr

JsonAtPath(document, path) ==
    FoldLeft(LAMBDA current, segment :
                 IF current # Undefined /\ current.object /\ segment \in DOMAIN current.fields
                 THEN current.fields[segment] ELSE Undefined,
             document, path)

\* A regular expression is the set of words it finds.
EvaluateLeaf(expression, run) ==
    CASE expression.type = "exit_code" -> run.exitCode = expression.expected
      [] expression.type = "output_contains" ->
            expression.value \in ToSet(StreamValue(run, expression.stream).words)
      [] expression.type = "output_regex" ->
            ToSet(StreamValue(run, expression.stream).words) \cap expression.pattern # {}
      [] expression.type = "json_field" ->
            LET document == StreamValue(run, expression.stream).document IN
            document # NoDocument /\ JsonAtPath(document, expression.path) = expression.equals

RECURSIVE EvaluateExpression(_, _)
EvaluateExpression(expression, run) ==
    CASE expression.type = "all" ->
            \A i \in DOMAIN expression.children : EvaluateExpression(expression.children[i], run)
      [] expression.type = "any" ->
            \E i \in DOMAIN expression.children : EvaluateExpression(expression.children[i], run)
      [] expression.type = "not" -> ~EvaluateExpression(expression.child, run)
      [] OTHER -> EvaluateLeaf(expression, run)

\* failureOracleSchema, as far as it can be violated by a typed oracle.
RECURSIVE ValidExpression(_)
ValidExpression(expression) ==
    CASE expression.type \in {"all", "any"} ->
            expression.children # <<>> /\ \A e \in ToSet(expression.children) : ValidExpression(e)
      [] expression.type = "not" -> ValidExpression(expression.child)
      [] expression.type = "json_field" -> expression.path # <<>>
      [] OTHER -> TRUE

EvaluateOracle(oracle, run) == EvaluateExpression(oracle.root, run)
=============================================================================
