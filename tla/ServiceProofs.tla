---------------------------- MODULE ServiceProofs ----------------------------
(***************************************************************************)
(* Theorems about verdicts and minimization (ReproductionProof) and about  *)
(* the starts of the trusted sample (CaseService).                         *)
(***************************************************************************)
EXTENDS ReproductionProof, CaseService, FiniteSetTheorems, TLAPS

----------------------------------------------------------------------------
(* Lemmas about numbers and sets.                                          *)

\* A set of natural numbers has a smallest element: sort has a first element because of
\* it.
LEMMA LeastNumber ==
    ASSUME NEW S, S \subseteq Nat, S # {}
    PROVE  \E n \in S : \A m \in S : n <= m
<1> DEFINE R == OpToRel(<, Nat)
<1>1. \A m, n \in Nat : m < n => <<m, n>> \in R
  BY DEF OpToRel
<1>2. IsWellFoundedOn(R, Nat)
  BY NatLessThanWellFounded, Zenon
<1> HIDE DEF R
<1>3. PICK n \in S : \A m \in S : ~(<<m, n>> \in R)
  BY <1>2, WFMin, Zenon
<1>4. \A m \in S : n <= m
  <2>1. \A m \in S : ~(m < n)
    BY <1>1, <1>3, Zenon
  <2> QED
    BY <2>1
<1> QED
  BY <1>4

\* Of a finite set all elements are in a subset exactly if it counts as many: the count
\* of matches decides for all runs.
LEMMA CountAll ==
    ASSUME NEW n \in Nat, NEW T \in SUBSET (1..n)
    PROVE  /\ Cardinality(T) \in Nat
           /\ Cardinality(T) = n <=> T = 1..n
           /\ Cardinality(T) = 0 <=> T = {}
<1>1. IsFiniteSet(1..n) /\ Cardinality(1..n) = n
  BY FS_Interval
<1>2. IsFiniteSet(T)
  BY <1>1, FS_Subset
<1>3. Cardinality(T) \in Nat /\ (Cardinality(T) = 0 <=> T = {})
  BY <1>2, FS_CardinalityType, FS_EmptySet, Zenon
<1>4. Cardinality(1..n) = Cardinality(T) => 1..n = T
  BY <1>1, FS_Subset, Zenon
<1> QED
  BY <1>1, <1>3, <1>4

----------------------------------------------------------------------------
(* Verification.                                                           *)

Verdicts4 == {"BLOCKED", "VERIFIED", "UNSTABLE", "NOT_REPRODUCED"}

\* What verifyReproduction says of runs that all come from one environment.
Judges(summary, oracle, kept, required) ==
    /\ summary.status \in Verdicts4
    /\ summary.oracle = [id |-> oracle.id, version |-> oracle.version]
    /\ summary.status = "VERIFIED" <=>
          /\ ~Matched(oracle, kept[1]) /\ Len(kept) > required
          /\ \A i \in 2..Len(kept) : Matched(oracle, kept[i])
    /\ summary.status = "NOT_REPRODUCED" => \A i \in DOMAIN kept : ~Matched(oracle, kept[i])

\* verifyReproduction, for a control and candidates from one environment.
LEMMA VerificationJudges ==
    ASSUME NEW S, \A run \in S : run.environment = "environment",
           NEW kept \in Seq(S), Len(kept) > 1, NEW oracle, NEW required \in Nat \ {0}
    PROVE  Judges(VerifyReproduction(oracle, Head(kept), Tail(kept), required),
                  oracle, kept, required)
<1> DEFINE n == Len(kept) - 1
           candidates == Tail(kept)
           matching == {i \in DOMAIN candidates : Matched(oracle, candidates[i])}
           environments == {Head(kept).environment}
                               \cup {run.environment : run \in ToSet(candidates)}
           summary == VerifyReproduction(oracle, Head(kept), candidates, required)
<1>1. /\ n \in Nat \ {0} /\ DOMAIN kept = 1..(n + 1) /\ Len(candidates) = n
      /\ DOMAIN candidates = 1..n
      /\ Head(kept) = kept[1] /\ \A i \in 1..n : candidates[i] = kept[i + 1]
      /\ \A i \in 1..(n + 1) : kept[i] \in S
  <2>1. Len(kept) \in Nat /\ kept # <<>> /\ DOMAIN kept = 1..Len(kept)
    OBVIOUS
  <2>2. n \in Nat \ {0} /\ n + 1 = Len(kept)
    BY <2>1, SMTT(60)
  <2>3. Len(candidates) = n /\ candidates \in Seq(S) /\ DOMAIN candidates = 1..n
    BY <2>1, <2>2
  <2>4. \A i \in 1..n : candidates[i] = kept[i + 1]
    BY <2>1, <2>2
  <2> QED
    BY <2>1, <2>2, <2>3, <2>4
<1>2. environments = {"environment"}
  BY <1>1 DEF ToSet
<1>3. Cardinality(environments) = 1
  BY <1>2, FS_Singleton, Zenon
<1>4. /\ Cardinality(matching) \in Nat
      /\ Cardinality(matching) = n <=> \A i \in 1..n : Matched(oracle, candidates[i])
      /\ Cardinality(matching) = 0 <=> \A i \in 1..n : ~Matched(oracle, candidates[i])
  <2>1. matching \in SUBSET (1..n)
    BY <1>1
  <2>2. matching = 1..n <=> \A i \in 1..n : Matched(oracle, candidates[i])
    BY <1>1
  <2>3. matching = {} <=> \A i \in 1..n : ~Matched(oracle, candidates[i])
    BY <1>1
  <2> HIDE DEF matching
  <2> QED
    BY <1>1, <2>1, <2>2, <2>3, CountAll, SMTT(60)
<1>5. /\ summary.status = Status(Matched(oracle, kept[1]), environments,
                                 Cardinality(matching), n, required)
      /\ summary.oracle = [id |-> oracle.id, version |-> oracle.version]
  BY <1>1 DEF VerifyReproduction
<1> HIDE DEF environments, matching, summary, candidates
<1>6. /\ (\A i \in 1..n : Matched(oracle, candidates[i]))
             <=> \A i \in 2..(n + 1) : Matched(oracle, kept[i])
      /\ (\A i \in 1..n : ~Matched(oracle, candidates[i]))
             <=> \A i \in 2..(n + 1) : ~Matched(oracle, kept[i])
  <2>1. \A i \in 2..(n + 1) : i - 1 \in 1..n /\ candidates[i - 1] = kept[i]
    BY <1>1
  <2>2. \A i \in 1..n : i + 1 \in 2..(n + 1) /\ candidates[i] = kept[i + 1]
    BY <1>1
  <2> QED
    BY <2>1, <2>2, Zenon
<1>7. summary.status = IF Matched(oracle, kept[1]) THEN "BLOCKED"
                       ELSE IF n >= required /\ Cardinality(matching) = n THEN "VERIFIED"
                       ELSE IF Cardinality(matching) > 0 THEN "UNSTABLE" ELSE "NOT_REPRODUCED"
  BY <1>3, <1>5, Zenon DEF Status
<1>8. summary.status \in Verdicts4
  BY <1>7 DEF Verdicts4
<1>9. summary.status = "VERIFIED" <=>
          /\ ~Matched(oracle, kept[1]) /\ Len(kept) > required
          /\ \A i \in 2..Len(kept) : Matched(oracle, kept[i])
  <2>1. summary.status = "VERIFIED"
            <=> ~Matched(oracle, kept[1]) /\ n >= required /\ Cardinality(matching) = n
    BY <1>7
  <2>2. n >= required <=> Len(kept) > required
    BY <1>1
  <2>3. Cardinality(matching) = n <=> \A i \in 2..Len(kept) : Matched(oracle, kept[i])
    <3>1. n + 1 = Len(kept)
      BY <1>1
    <3> QED
      BY <1>4, <1>6, <3>1
  <2> QED
    BY <2>1, <2>2, <2>3, Zenon
<1>10. summary.status = "NOT_REPRODUCED" => \A i \in DOMAIN kept : ~Matched(oracle, kept[i])
  <2>1. summary.status = "NOT_REPRODUCED"
            => ~Matched(oracle, kept[1]) /\ Cardinality(matching) = 0
    BY <1>4, <1>7
  <2>2. \A i \in DOMAIN kept : i = 1 \/ i \in 2..(n + 1)
    BY <1>1
  <2> QED
    BY <1>4, <1>6, <2>1, <2>2, Zenon
<1> QED
  BY <1>5, <1>8, <1>9, <1>10, Zenon DEF Judges, summary, candidates

----------------------------------------------------------------------------
(* Minimization.                                                           *)

Size(evaluation) == Cardinality(evaluation.removedInputs)

\* What the comparison of sort needs of its arguments.
Sortable(evaluations) ==
    /\ DOMAIN evaluations \subseteq Nat /\ IsFiniteSet(DOMAIN evaluations)
    /\ \A i \in DOMAIN evaluations :
          evaluations[i].id \in Nat /\ Size(evaluations[i]) \in Nat

\* sort is given a strict total order: two lengths, two identifiers, two places.
LEMMA BeforeIsOrder ==
    ASSUME NEW evaluations, Sortable(evaluations),
           NEW i \in DOMAIN evaluations, NEW j \in DOMAIN evaluations,
           NEW k \in DOMAIN evaluations
    PROVE  /\ ~Before(evaluations, i, i)
           /\ i = j \/ Before(evaluations, i, j) \/ Before(evaluations, j, i)
           /\ Before(evaluations, i, j) /\ Before(evaluations, j, k) => Before(evaluations, i, k)
           /\ Before(evaluations, i, j) => ~Better(evaluations[j], evaluations[i])
<1> DEFINE size(x) == Size(evaluations[x])
           id(x) == evaluations[x].id
<1>1. \A x \in {i, j, k} : x \in Nat /\ size(x) \in Nat /\ id(x) \in Nat
  BY DEF Sortable
<1>2. ASSUME NEW x \in {i, j, k}, NEW y \in {i, j, k}
      PROVE  Better(evaluations[x], evaluations[y])
                 <=> size(x) > size(y) \/ (size(x) = size(y) /\ id(x) < id(y))
  BY Zenon DEF Better, Size
<1>3. ASSUME NEW x \in {i, j, k}, NEW y \in {i, j, k}
      PROVE  Before(evaluations, x, y)
                 <=> \/ size(x) > size(y)
                     \/ size(x) = size(y) /\ id(x) < id(y)
                     \/ size(x) = size(y) /\ id(x) = id(y) /\ x < y
  <2>1. Before(evaluations, x, y)
            <=> \/ Better(evaluations[x], evaluations[y])
                \/ ~Better(evaluations[y], evaluations[x]) /\ x < y
    BY Zenon DEF Before
  <2> HIDE DEF size, id
  <2> QED
    BY <1>1, <1>2, <2>1
<1> HIDE DEF size, id
<1>4. ~Before(evaluations, i, i)
  BY <1>1, <1>3
<1>5. i = j \/ Before(evaluations, i, j) \/ Before(evaluations, j, i)
  BY <1>1, <1>3
<1>6. Before(evaluations, i, j) /\ Before(evaluations, j, k) => Before(evaluations, i, k)
  BY <1>1, <1>3
<1>7. Before(evaluations, i, j) => ~Better(evaluations[j], evaluations[i])
  BY <1>1, <1>2, <1>3
<1> QED
  BY <1>4, <1>5, <1>6, <1>7

\* Whatever is verified, the sorted list has a first element, which nothing verified is
\* better than.
LEMMA FirstOfSorted ==
    ASSUME NEW evaluations, Sortable(evaluations), VerifiedOnes(evaluations) # {}
    PROVE  \E i \in VerifiedOnes(evaluations) :
              /\ Accepted(evaluations) = {i}
              /\ \A j \in VerifiedOnes(evaluations) : ~Better(evaluations[j], evaluations[i])
<1> DEFINE V == VerifiedOnes(evaluations)
           earlier(i) == {j \in V : Before(evaluations, j, i)}
           ranks == {Cardinality(earlier(i)) : i \in V}
<1>1. V \subseteq DOMAIN evaluations /\ IsFiniteSet(V) /\ V # {}
  <2>1. V \in SUBSET DOMAIN evaluations /\ V # {}
    BY DEF VerifiedOnes
  <2> QED
    BY <2>1, FS_Subset DEF Sortable
<1>2. ASSUME NEW i \in V
      PROVE  IsFiniteSet(earlier(i)) /\ Cardinality(earlier(i)) \in Nat
  <2>1. earlier(i) \in SUBSET V
    OBVIOUS
  <2>2. IsFiniteSet(earlier(i))
    BY <1>1, <2>1, FS_Subset
  <2> QED
    BY <2>2, FS_CardinalityType
<1>3. ranks \subseteq Nat /\ ranks # {}
  BY <1>1, <1>2
<1>4. PICK i \in V : \A j \in V : Cardinality(earlier(i)) <= Cardinality(earlier(j))
  <2>1. PICK n \in ranks : \A m \in ranks : n <= m
    BY <1>3, LeastNumber
  <2> QED
    BY <2>1
<1>5. ASSUME NEW j \in V \ {i}
      PROVE  Before(evaluations, i, j)
  <2>1. SUFFICES ASSUME ~Before(evaluations, i, j) PROVE FALSE
    OBVIOUS
  <2>2. Before(evaluations, j, i)
    BY <1>1, <2>1, BeforeIsOrder
  <2>3. earlier(j) \in SUBSET earlier(i)
    BY <1>1, <2>2, BeforeIsOrder
  <2>4. j \in earlier(i) /\ j \notin earlier(j)
    BY <1>1, <2>2, BeforeIsOrder
  <2>5. /\ Cardinality(earlier(j)) <= Cardinality(earlier(i))
        /\ Cardinality(earlier(i)) = Cardinality(earlier(j)) => earlier(i) = earlier(j)
    BY <1>2, <2>3, FS_Subset
  <2>6. Cardinality(earlier(i)) \in Nat /\ Cardinality(earlier(j)) \in Nat
    BY <1>2
  <2>7. Cardinality(earlier(i)) <= Cardinality(earlier(j))
    BY <1>4
  <2>8. Cardinality(earlier(i)) = Cardinality(earlier(j))
    BY <2>5, <2>6, <2>7
  <2> QED
    BY <2>4, <2>5, <2>8
<1>6. \A j \in V \ {i} : ~Before(evaluations, j, i)
  BY <1>1, <1>5, BeforeIsOrder
<1>7. Accepted(evaluations) = {i}
  <2>1. i \in Accepted(evaluations)
    BY <1>5 DEF Accepted
  <2>2. \A j \in Accepted(evaluations) : j \in V /\ \A k \in V \ {j} : Before(evaluations, j, k)
    BY DEF Accepted
  <2>3. \A j \in Accepted(evaluations) : j = i
    BY <1>6, <2>2
  <2> QED
    BY <2>1, <2>3
<1>8. \A j \in V : ~Better(evaluations[j], evaluations[i])
  BY <1>1, <1>5, BeforeIsOrder DEF Better, Sortable, Size
<1> QED
  BY <1>7, <1>8

ProposalsOK(proposals) ==
    /\ proposals \in Seq(ToSet(proposals))
    /\ \A p \in ToSet(proposals) : p.id \in Nat \ {NoReduction} /\ IsFiniteSet(p.removedInputs)

Holds(oracle, proposal, required) ==
    VerifyReproduction(oracle, proposal.control, proposal.candidates, required).status = "VERIFIED"

\* minimizeReproduction evaluates every proposal, each with its own runs.
LEMMA EvaluationsOf ==
    ASSUME NEW oracle, NEW required, NEW proposals, ProposalsOK(proposals)
    PROVE  LET evaluations == Evaluations(oracle, proposals, required) IN
           /\ Sortable(evaluations) /\ DOMAIN evaluations = 1..Len(proposals)
           /\ \A i \in 1..Len(proposals) :
                 /\ proposals[i] \in ToSet(proposals)
                 /\ evaluations[i].id = proposals[i].id
                 /\ evaluations[i].removedInputs = proposals[i].removedInputs
                 /\ evaluations[i].summary.status = "VERIFIED"
                        <=> Holds(oracle, proposals[i], required)
<1> DEFINE evaluations == Evaluations(oracle, proposals, required)
<1>1. /\ Len(proposals) \in Nat /\ DOMAIN proposals = 1..Len(proposals)
      /\ \A i \in 1..Len(proposals) : proposals[i] \in ToSet(proposals)
  BY DEF ProposalsOK, ToSet
<1>2. DOMAIN evaluations = 1..Len(proposals)
  BY <1>1 DEF Evaluations
<1>3. ASSUME NEW i \in 1..Len(proposals)
      PROVE  /\ evaluations[i].id = proposals[i].id
             /\ evaluations[i].removedInputs = proposals[i].removedInputs
             /\ evaluations[i].summary.status = "VERIFIED"
                    <=> Holds(oracle, proposals[i], required)
  <2>1. evaluations[i] =
            [id |-> proposals[i].id, removedInputs |-> proposals[i].removedInputs,
             summary |-> VerifyReproduction(oracle, proposals[i].control,
                                            proposals[i].candidates, required)]
    BY <1>1 DEF Evaluations
  <2> QED
    BY <2>1 DEF Holds
<1>4. IsFiniteSet(1..Len(proposals)) /\ 1..Len(proposals) \subseteq Nat
  BY <1>1, FS_Interval
<1> HIDE DEF evaluations
<1>5. ASSUME NEW i \in 1..Len(proposals)
      PROVE  evaluations[i].id \in Nat /\ Size(evaluations[i]) \in Nat
  <2>1. proposals[i].id \in Nat /\ IsFiniteSet(proposals[i].removedInputs)
    BY <1>1 DEF ProposalsOK
  <2> QED
    BY <1>3, <2>1, FS_CardinalityType DEF Size
<1>6. Sortable(evaluations)
  BY <1>2, <1>4, <1>5 DEF Sortable
<1> QED
  BY <1>1, <1>2, <1>3, <1>6 DEF evaluations

\* minimizeReproduction retains the baseline, or accepts a proposal that holds and none
\* that holds is better than.
LEMMA MinimizationOf ==
    ASSUME NEW oracle, NEW required, NEW proposals, ProposalsOK(proposals)
    PROVE  LET result0 == MinimizeReproduction(oracle, proposals, required) IN
           \/ /\ \A i \in 1..Len(proposals) : ~Holds(oracle, proposals[i], required)
              /\ result0.acceptedReductionId = NoReduction
              /\ result0.acceptedRemovedInputs = {}
           \/ \E i \in 1..Len(proposals) :
                 /\ Holds(oracle, proposals[i], required)
                 /\ result0.acceptedReductionId = proposals[i].id
                 /\ result0.acceptedRemovedInputs = proposals[i].removedInputs
                 /\ \A j \in 1..Len(proposals) :
                       Holds(oracle, proposals[j], required) => ~Better(proposals[j], proposals[i])
<1> DEFINE evaluations == Evaluations(oracle, proposals, required)
           accepted == Accepted(evaluations)
           result0 == MinimizeReproduction(oracle, proposals, required)
<1>1. /\ Sortable(evaluations) /\ DOMAIN evaluations = 1..Len(proposals)
      /\ \A i \in 1..Len(proposals) :
            /\ evaluations[i].id = proposals[i].id
            /\ evaluations[i].removedInputs = proposals[i].removedInputs
            /\ evaluations[i].summary.status = "VERIFIED" <=> Holds(oracle, proposals[i], required)
  BY EvaluationsOf
<1>2. /\ result0.acceptedReductionId =
             IF accepted = {} THEN NoReduction ELSE evaluations[CHOOSE i \in accepted : TRUE].id
      /\ result0.acceptedRemovedInputs = UNION {evaluations[i].removedInputs : i \in accepted}
  BY DEF MinimizeReproduction
<1> HIDE DEF evaluations, result0
<1>3. VerifiedOnes(evaluations)
          = {i \in 1..Len(proposals) : Holds(oracle, proposals[i], required)}
  BY <1>1 DEF VerifiedOnes
<1>4. CASE VerifiedOnes(evaluations) = {}
  <2>1. accepted = {}
    BY <1>4 DEF Accepted
  <2>2. UNION {evaluations[i].removedInputs : i \in accepted} = {}
    BY <2>1
  <2> QED
    BY <1>2, <1>3, <1>4, <2>1, <2>2 DEF result0
<1>5. CASE VerifiedOnes(evaluations) # {}
  <2>1. PICK i \in VerifiedOnes(evaluations) :
            /\ accepted = {i}
            /\ \A j \in VerifiedOnes(evaluations) : ~Better(evaluations[j], evaluations[i])
    BY <1>1, <1>5, FirstOfSorted
  <2>2. i \in 1..Len(proposals) /\ Holds(oracle, proposals[i], required)
    BY <1>3
  <2> HIDE DEF accepted
  <2>3. (CHOOSE x \in accepted : TRUE) = i
    BY <2>1
  <2>4. UNION {evaluations[x].removedInputs : x \in accepted} = evaluations[i].removedInputs
    BY <2>1
  <2>5. /\ result0.acceptedReductionId = proposals[i].id
        /\ result0.acceptedRemovedInputs = proposals[i].removedInputs
    BY <1>1, <1>2, <2>1, <2>2, <2>3, <2>4
  <2>6. ASSUME NEW j \in 1..Len(proposals), Holds(oracle, proposals[j], required)
        PROVE  ~Better(proposals[j], proposals[i])
    <3>1. ~Better(evaluations[j], evaluations[i])
      BY <1>3, <2>1, <2>6
    <3> QED
      BY <1>1, <2>2, <3>1 DEF Better
  <2> QED
    BY <2>2, <2>5, <2>6 DEF result0
<1> QED
  BY <1>4, <1>5

\* The same proposals in the opposite order are proposals.
LEMMA ReverseOf ==
    ASSUME NEW proposals, ProposalsOK(proposals)
    PROVE  LET backwards == Reverse(proposals)
               n == Len(proposals) IN
           /\ ProposalsOK(backwards) /\ Len(backwards) = n /\ n \in Nat
           /\ \A i \in 1..n : n - i + 1 \in 1..n /\ backwards[i] = proposals[n - i + 1]
           /\ \A i \in 1..n : backwards[n - i + 1] = proposals[i]
<1> DEFINE n == Len(proposals)
           S == ToSet(proposals)
           backwards == Reverse(proposals)
<1>1. /\ n \in Nat /\ DOMAIN proposals = 1..n /\ proposals \in Seq(S)
      /\ \A i \in 1..n : n - i + 1 \in 1..n /\ n - (n - i + 1) + 1 = i
  BY DEF ProposalsOK
<1>2. \A i \in 1..n : proposals[i] \in S
  BY <1>1 DEF ToSet
<1>3. backwards = [i \in 1..n |-> proposals[n - i + 1]]
  BY DEF Reverse
<1> HIDE DEF backwards, S
<1>4. backwards \in Seq(S) /\ Len(backwards) = n /\ DOMAIN backwards = 1..n
  BY <1>1, <1>2, <1>3
<1>5. \A i \in 1..n : backwards[i] = proposals[n - i + 1]
  BY <1>3
<1>6. \A i \in 1..n : backwards[n - i + 1] = proposals[i]
  BY <1>1, <1>5
<1>7. ToSet(backwards) = S
  <2>1. \A p \in ToSet(backwards) : p \in S
    BY <1>1, <1>2, <1>4, <1>5 DEF ToSet
  <2>2. ASSUME NEW p \in S PROVE p \in ToSet(backwards)
    <3>1. PICK i \in 1..n : p = proposals[i]
      BY <1>1 DEF S, ToSet
    <3> QED
      BY <1>1, <1>4, <1>6, <3>1 DEF ToSet
  <2> QED
    BY <2>1, <2>2
<1>8. ProposalsOK(backwards)
  BY <1>4, <1>7, Zenon DEF ProposalsOK, S
<1> QED
  BY <1>1, <1>4, <1>5, <1>6, <1>8 DEF backwards

\* What minimizeReproduction accepts holds, is largest, and is what it accepts of the
\* opposite order.
LEMMA LargestOf ==
    ASSUME NEW oracle, NEW required, NEW proposals, ProposalsOK(proposals)
    PROVE  LET result0 == MinimizeReproduction(oracle, proposals, required) IN
           /\ \A p \in ToSet(proposals) :
                 Holds(oracle, p, required)
                 => Cardinality(p.removedInputs) <= Cardinality(result0.acceptedRemovedInputs)
           /\ result0.acceptedReductionId # NoReduction =>
                 \E p \in ToSet(proposals) :
                    /\ p.id = result0.acceptedReductionId
                    /\ p.removedInputs = result0.acceptedRemovedInputs
                    /\ Holds(oracle, p, required)
           /\ MinimizeReproduction(oracle, Reverse(proposals), required).acceptedReductionId
                 = result0.acceptedReductionId
<1> DEFINE n == Len(proposals)
           backwards == Reverse(proposals)
           result0 == MinimizeReproduction(oracle, proposals, required)
           result1 == MinimizeReproduction(oracle, backwards, required)
           holds(p) == Holds(oracle, p, required)
<1>1. /\ n \in Nat /\ Len(backwards) = n /\ ProposalsOK(backwards)
      /\ \A i \in 1..n : n - i + 1 \in 1..n /\ backwards[i] = proposals[n - i + 1]
      /\ \A i \in 1..n : backwards[n - i + 1] = proposals[i]
  BY ReverseOf
<1>2. /\ \A p \in ToSet(proposals) : \E i \in 1..n : p = proposals[i]
      /\ \A i \in 1..n : proposals[i] \in ToSet(proposals)
  BY DEF ProposalsOK, ToSet
<1>3. \A p \in ToSet(proposals) :
          p.id \in Nat \ {NoReduction} /\ Cardinality(p.removedInputs) \in Nat
  BY FS_CardinalityType DEF ProposalsOK
<1>4. \/ /\ \A i \in 1..n : ~holds(proposals[i])
         /\ result0.acceptedReductionId = NoReduction
      \/ \E i \in 1..n :
            /\ holds(proposals[i])
            /\ result0.acceptedReductionId = proposals[i].id
            /\ result0.acceptedRemovedInputs = proposals[i].removedInputs
            /\ \A j \in 1..n : holds(proposals[j]) => ~Better(proposals[j], proposals[i])
  BY MinimizationOf
<1>5. \/ /\ \A i \in 1..n : ~holds(backwards[i])
         /\ result1.acceptedReductionId = NoReduction
      \/ \E i \in 1..n :
            /\ holds(backwards[i])
            /\ result1.acceptedReductionId = backwards[i].id
            /\ \A j \in 1..n : holds(backwards[j]) => ~Better(backwards[j], backwards[i])
  <2> HIDE DEF backwards, holds, result1
  <2>1. \/ /\ \A i \in 1..Len(backwards) : ~holds(backwards[i])
           /\ result1.acceptedReductionId = NoReduction
        \/ \E i \in 1..Len(backwards) :
              /\ holds(backwards[i])
              /\ result1.acceptedReductionId = backwards[i].id
              /\ \A j \in 1..Len(backwards) :
                    holds(backwards[j]) => ~Better(backwards[j], backwards[i])
    BY <1>1, MinimizationOf DEF holds, result1
  <2> QED
    BY <1>1, <2>1
<1> HIDE DEF backwards, result0, result1, holds
<1>6. CASE \A i \in 1..n : ~holds(proposals[i])
  <2>1. result0.acceptedReductionId = NoReduction
    BY <1>4, <1>6
  <2>2. \A i \in 1..n : ~holds(backwards[i])
    BY <1>1, <1>6
  <2>3. result1.acceptedReductionId = NoReduction
    BY <1>5, <2>2
  <2> QED
    BY <1>2, <1>6, <2>1, <2>3, Zenon DEF holds, result0, result1, backwards
<1>7. CASE \E i \in 1..n : holds(proposals[i])
  <2>1. PICK i \in 1..n :
            /\ holds(proposals[i])
            /\ result0.acceptedReductionId = proposals[i].id
            /\ result0.acceptedRemovedInputs = proposals[i].removedInputs
            /\ \A j \in 1..n : holds(proposals[j]) => ~Better(proposals[j], proposals[i])
    BY <1>4, <1>7
  <2>2. holds(backwards[n - i + 1]) /\ n - i + 1 \in 1..n
    BY <1>1, <2>1
  <2>3. PICK k \in 1..n :
            /\ holds(backwards[k])
            /\ result1.acceptedReductionId = backwards[k].id
            /\ \A j \in 1..n : holds(backwards[j]) => ~Better(backwards[j], backwards[k])
    BY <1>5, <2>2
  <2>4. /\ holds(proposals[n - k + 1]) /\ result1.acceptedReductionId = proposals[n - k + 1].id
        /\ n - k + 1 \in 1..n /\ ~Better(proposals[i], proposals[n - k + 1])
        /\ ~Better(proposals[n - k + 1], proposals[i])
    <3>1. backwards[k] = proposals[n - k + 1] /\ n - k + 1 \in 1..n
      BY <1>1
    <3>2. backwards[n - i + 1] = proposals[i]
      BY <1>1
    <3> QED
      BY <2>1, <2>2, <2>3, <3>1, <3>2
  <2>5. result1.acceptedReductionId = result0.acceptedReductionId
    <3>1. /\ proposals[i].id \in Nat /\ Size(proposals[i]) \in Nat
          /\ proposals[n - k + 1].id \in Nat /\ Size(proposals[n - k + 1]) \in Nat
      BY <1>2, <1>3, <2>4 DEF Size
    <3>2. \/ Size(proposals[i]) # Size(proposals[n - k + 1])
          \/ proposals[i].id = proposals[n - k + 1].id
      BY <2>4, <3>1 DEF Better, Size
    <3>3. Size(proposals[i]) = Size(proposals[n - k + 1])
      BY <2>4, <3>1 DEF Better, Size
    <3> QED
      BY <2>1, <2>4, <3>2, <3>3
  <2>6. ASSUME NEW p \in ToSet(proposals), holds(p)
        PROVE  Cardinality(p.removedInputs) <= Cardinality(result0.acceptedRemovedInputs)
    <3>1. ~Better(p, proposals[i])
      BY <1>2, <2>1, <2>6
    <3> QED
      BY <1>2, <1>3, <2>1, <3>1 DEF Better
  <2>7. \E p \in ToSet(proposals) :
            /\ p.id = result0.acceptedReductionId
            /\ p.removedInputs = result0.acceptedRemovedInputs
            /\ holds(p)
    BY <1>2, <2>1
  <2> QED
    BY <2>5, <2>6, <2>7, Zenon DEF holds, result0, result1, backwards
<1> QED
  BY <1>6, <1>7

----------------------------------------------------------------------------
(* Cases, hypotheses and bundles.                                          *)

\* Where the elements of a path come from.
LEMMA Joined ==
    ASSUME NEW S, NEW s \in Seq(S), NEW t \in Seq(S)
    PROVE  /\ s \o t \in Seq(S) /\ Len(s \o t) = Len(s) + Len(t)
           /\ \A i \in 1..Len(s) : (s \o t)[i] = s[i]
           /\ \A i \in (Len(s) + 1)..(Len(s) + Len(t)) : (s \o t)[i] = t[i - Len(s)]
<1>1. s \o t \in Seq(S) /\ Len(s \o t) = Len(s) + Len(t)
  OBVIOUS
<1>2. \A i \in 1..Len(s) : (s \o t)[i] = s[i]
  OBVIOUS
<1>3. \A i \in (Len(s) + 1)..(Len(s) + Len(t)) : (s \o t)[i] = t[i - Len(s)]
  OBVIOUS
<1> QED
  BY <1>1, <1>2, <1>3

CaseStates == Verdicts4 \cup {"INGESTING", "INSPECTING", "HYPOTHESIZING", "EXPERIMENTING",
                              "VERIFYING", "MINIMIZING", "PACKAGING"}

\* terminalCase: from a draft the case can be walked to every verdict.
LEMMA CaseWalks ==
    ASSUME NEW status \in Verdicts4
    PROVE  TransitionCase("DRAFT", TerminalPath(status)) = status
<1>1. ASSUME NEW path \in Seq(CaseStates), path # <<>>, CanTransition("DRAFT", path[1]),
             \A i \in 2..Len(path) : CanTransition(path[i - 1], path[i])
      PROVE  TransitionCase("DRAFT", path) = path[Len(path)]
  <2>1. DOMAIN path = 1..Len(path) /\ Len(path) \in Nat
    OBVIOUS
  <2>2. \A i \in 1..Len(path) : CanTransition(IF i = 1 THEN "DRAFT" ELSE path[i - 1], path[i])
    BY <1>1, <2>1
  <2> QED
    BY <2>1, <2>2 DEF TransitionCase, Last
<1>2. /\ CanTransition("DRAFT", "INGESTING") /\ CanTransition("INGESTING", "INSPECTING")
      /\ CanTransition("INSPECTING", "HYPOTHESIZING")
      /\ CanTransition("HYPOTHESIZING", "EXPERIMENTING")
      /\ CanTransition("EXPERIMENTING", "VERIFYING")
      /\ CanTransition("VERIFYING", "MINIMIZING")
      /\ CanTransition("MINIMIZING", "PACKAGING") /\ CanTransition("PACKAGING", "VERIFIED")
      /\ status # "VERIFIED" => CanTransition("VERIFYING", status)
  BY DEF CanTransition, AllowedTransitions, Verdicts4
<1>3. /\ ToVerifying \in Seq(CaseStates) /\ Len(ToVerifying) = 5
      /\ ToVerifying[1] = "INGESTING" /\ ToVerifying[2] = "INSPECTING"
      /\ ToVerifying[3] = "HYPOTHESIZING" /\ ToVerifying[4] = "EXPERIMENTING"
      /\ ToVerifying[5] = "VERIFYING"
  BY DEF ToVerifying, CaseStates
<1>4. ASSUME NEW rest \in Seq(CaseStates)
      PROVE  LET path == ToVerifying \o rest IN
             /\ path \in Seq(CaseStates) /\ Len(path) = 5 + Len(rest)
             /\ path[1] = "INGESTING" /\ path[2] = "INSPECTING" /\ path[3] = "HYPOTHESIZING"
             /\ path[4] = "EXPERIMENTING" /\ path[5] = "VERIFYING"
             /\ \A i \in 6..(5 + Len(rest)) : path[i] = rest[i - 5]
  <2> DEFINE path == ToVerifying \o rest
  <2>1. /\ path \in Seq(CaseStates) /\ Len(path) = 5 + Len(rest)
        /\ \A i \in 1..5 : path[i] = ToVerifying[i]
        /\ \A i \in 6..(5 + Len(rest)) : path[i] = rest[i - 5]
    <3>1. /\ path \in Seq(CaseStates) /\ Len(path) = Len(ToVerifying) + Len(rest)
          /\ \A i \in 1..Len(ToVerifying) : path[i] = ToVerifying[i]
          /\ \A i \in (Len(ToVerifying) + 1)..(Len(ToVerifying) + Len(rest)) :
                path[i] = rest[i - Len(ToVerifying)]
      BY <1>3, Joined, ZenonT(60)
    <3> HIDE DEF path
    <3> QED
      BY <1>3, <3>1
  <2> HIDE DEF path
  <2>2. /\ path[1] = ToVerifying[1] /\ path[2] = ToVerifying[2] /\ path[3] = ToVerifying[3]
        /\ path[4] = ToVerifying[4] /\ path[5] = ToVerifying[5]
    BY <2>1
  <2> QED
    BY <1>3, <2>1, <2>2 DEF path
<1>5. CASE status = "VERIFIED"
  <2> DEFINE rest == <<"MINIMIZING", "PACKAGING", "VERIFIED">>
             path == ToVerifying \o rest
  <2>1. TerminalPath(status) = path
    BY <1>5 DEF TerminalPath
  <2>2. /\ rest \in Seq(CaseStates) /\ Len(rest) = 3
        /\ rest[1] = "MINIMIZING" /\ rest[2] = "PACKAGING" /\ rest[3] = "VERIFIED"
    BY DEF CaseStates, Verdicts4
  <2> HIDE DEF rest
  <2>3. /\ path \in Seq(CaseStates) /\ Len(path) = 8
        /\ path[1] = "INGESTING" /\ path[2] = "INSPECTING" /\ path[3] = "HYPOTHESIZING"
        /\ path[4] = "EXPERIMENTING" /\ path[5] = "VERIFYING" /\ path[6] = "MINIMIZING"
        /\ path[7] = "PACKAGING" /\ path[8] = "VERIFIED"
    <3>1. /\ path \in Seq(CaseStates) /\ Len(path) = 5 + Len(rest)
          /\ path[1] = "INGESTING" /\ path[2] = "INSPECTING" /\ path[3] = "HYPOTHESIZING"
          /\ path[4] = "EXPERIMENTING" /\ path[5] = "VERIFYING"
          /\ \A i \in 6..(5 + Len(rest)) : path[i] = rest[i - 5]
      BY <1>4, <2>2, Zenon
    <3> HIDE DEF path
    <3> QED
      BY <2>2, <3>1
  <2> HIDE DEF path
  <2>4. \A i \in 2..8 : CanTransition(path[i - 1], path[i])
    BY <1>2, <2>3
  <2>5. path # <<>> /\ CanTransition("DRAFT", path[1]) /\ 2..Len(path) = 2..8
    BY <1>2, <2>3
  <2>6. TransitionCase("DRAFT", path) = path[Len(path)]
    BY <1>1, <2>3, <2>4, <2>5, Zenon
  <2> QED
    BY <1>5, <2>1, <2>3, <2>6
<1>6. CASE status # "VERIFIED"
  <2> DEFINE rest == <<status>>
             path == ToVerifying \o rest
  <2>1. TerminalPath(status) = path
    BY <1>6 DEF TerminalPath
  <2>2. rest \in Seq(CaseStates) /\ Len(rest) = 1 /\ rest[1] = status
    BY DEF CaseStates
  <2> HIDE DEF rest
  <2>3. /\ path \in Seq(CaseStates) /\ Len(path) = 6
        /\ path[1] = "INGESTING" /\ path[2] = "INSPECTING" /\ path[3] = "HYPOTHESIZING"
        /\ path[4] = "EXPERIMENTING" /\ path[5] = "VERIFYING" /\ path[6] = status
    <3>1. /\ path \in Seq(CaseStates) /\ Len(path) = 5 + Len(rest)
          /\ path[1] = "INGESTING" /\ path[2] = "INSPECTING" /\ path[3] = "HYPOTHESIZING"
          /\ path[4] = "EXPERIMENTING" /\ path[5] = "VERIFYING"
          /\ \A i \in 6..(5 + Len(rest)) : path[i] = rest[i - 5]
      BY <1>4, <2>2, Zenon
    <3> HIDE DEF path
    <3> QED
      BY <2>2, <3>1
  <2> HIDE DEF path
  <2>4. \A i \in 2..6 : CanTransition(path[i - 1], path[i])
    BY <1>2, <1>6, <2>3
  <2>5. path # <<>> /\ CanTransition("DRAFT", path[1]) /\ 2..Len(path) = 2..6
    BY <1>2, <2>3
  <2>6. TransitionCase("DRAFT", path) = path[Len(path)]
    BY <1>1, <2>3, <2>4, <2>5, Zenon
  <2> QED
    BY <1>6, <2>1, <2>3, <2>6
<1> QED
  BY <1>5, <1>6

\* proofHypothesis: the hypothesis has the history its schema wants.
LEMMA HypothesesHold ==
    ASSUME NEW status
    PROVE  ValidHypothesis(ProofHypothesis(status))
           /\ ProofHypothesis(status).evidence \subseteq ProofEvidence
<1> DEFINE hypothesis == ProofHypothesis(status)
           history == hypothesis.statusHistory
<1>1. PICK verdict :
          hypothesis = [status |-> verdict,
                        evidence |-> {"request", "source-provenance", "clean-runs"},
                        statusHistory |-> <<[sequence |-> 0, status |-> "proposed"],
                                            [sequence |-> 1, status |-> verdict]>>]
  BY Zenon DEF ProofHypothesis
<1>2. /\ history = <<[sequence |-> 0, status |-> "proposed"], [sequence |-> 1, status |-> verdict]>>
      /\ hypothesis.status = verdict
      /\ hypothesis.evidence = {"request", "source-provenance", "clean-runs"}
  BY <1>1
<1>3. /\ Len(history) = 2 /\ history[1].sequence = 0 /\ history[2].sequence = 1
      /\ history[2].status = verdict
  BY <1>2
<1> HIDE DEF hypothesis
<1>4. ValidHypothesis(hypothesis)
  BY <1>2, <1>3 DEF ValidHypothesis, Last
<1>5. hypothesis.evidence \subseteq ProofEvidence
  BY <1>2 DEF ProofEvidence
<1> QED
  BY <1>4, <1>5 DEF hypothesis

\* A bundle is a result, and holds the runs it was made of.
LEMMA BundleIsResult ==
    ASSUME NEW oracle, NEW minimization, NEW log, NEW summary, NEW hypotheses
    PROVE  CreateBundle("case", oracle, minimization, log, summary, hypotheses) # NoResult
<1> DEFINE bundle == CreateBundle("case", oracle, minimization, log, summary, hypotheses)
<1>1. DOMAIN bundle
          = {"caseId", "oracle", "minimization", "runLog", "summary", "hypothesisLedger", "lock"}
  BY DEF CreateBundle
<1>2. DOMAIN NoResult = {"status"}
  BY DEF NoResult
<1> HIDE DEF bundle
<1>3. bundle # NoResult
  BY <1>1, <1>2
<1> QED
  BY <1>3 DEF bundle

LEMMA BundleKeepsLog ==
    ASSUME NEW oracle, NEW minimization, NEW log, NEW summary, NEW hypotheses, NEW bundle,
           bundle = CreateBundle("case", oracle, minimization, log, summary, hypotheses)
    PROVE  [bundle EXCEPT !.runLog = log] = bundle
  BY DEF CreateBundle

LEMMA MinimizationIsResult ==
    ASSUME NEW oracle, NEW proposals, NEW required
    PROVE  MinimizeReproduction(oracle, proposals, required) # NoResult
<1> DEFINE result0 == MinimizeReproduction(oracle, proposals, required)
<1>1. DOMAIN result0 = {"acceptedReductionId", "acceptedRemovedInputs", "claim", "evaluations"}
  BY DEF MinimizeReproduction
<1>2. DOMAIN NoResult = {"status"}
  BY DEF NoResult
<1> QED
  BY <1>1, <1>2

\* createBundle and materializeBundle: what is verified passes every schema.
LEMMA BundleIsValid ==
    ASSUME NEW oracle, NEW minimization, NEW log, NEW summary, NEW status,
           summary.status = "VERIFIED", ValidMinimization(minimization),
           summary.oracle = [id |-> oracle.id, version |-> oracle.version],
           WellFormed(oracle.root)
    PROVE  LET bundle == CreateBundle("case", oracle, minimization, log, summary,
                                      <<ProofHypothesis(status)>>) IN
           ValidBundle(bundle) /\ ValidMaterialized(MaterializeBundle(bundle))
<1> DEFINE ledger == <<ProofHypothesis(status)>>
           bundle == CreateBundle("case", oracle, minimization, log, summary, ledger)
           files == MaterializeBundle(bundle)
<1>1. /\ bundle.oracle = oracle /\ bundle.minimization = minimization
      /\ bundle.summary = summary /\ bundle.hypothesisLedger = ledger
      /\ bundle.lock.oracle = [id |-> oracle.id, version |-> oracle.version]
  BY DEF CreateBundle
<1>2. DOMAIN ledger = {1} /\ ledger[1] = ProofHypothesis(status)
  OBVIOUS
<1> HIDE DEF bundle, ledger
<1>3. /\ DOMAIN files = RequiredBundleFiles
      /\ files["failure-signature"] = oracle
      /\ files["hypothesis-ledger"] = ledger
      /\ files["minimization"] = minimization
  BY <1>1 DEF MaterializeBundle, RequiredBundleFiles
<1> HIDE DEF files
<1>4. ValidMaterialized(files)
  BY <1>2, <1>3, HypothesesHold DEF ValidMaterialized
<1>5. ValidBundle(bundle)
  BY <1>1 DEF ValidBundle
<1> QED
  BY <1>4, <1>5 DEF files, bundle, ledger

----------------------------------------------------------------------------
(* The invariant of an attempt.                                            *)

\* The runs an attempt may have observed.
Observation(output, secrets) ==
    PersistedRun([Run(output) EXCEPT !.stdout = Capture(@, MaxWords),
                                     !.stderr = Capture(@, MaxWords)], secrets)

Observed == {Observation(output, secrets) : output \in Outputs, secrets \in SecretSets}

InputOK ==
    /\ input.required \in Nat \ {0}
    /\ input.kind \in {"repository", "sample", "minimization"}
    /\ input.kind = "repository" => input.oracle \in Oracles /\ input.secrets \in SecretSets
    /\ input.kind = "minimization" => input.proposals \in Proposals

\* A proof whose verdict follows from the runs it keeps, and whose bundle holds those.
Sound(proof) ==
    /\ proof.case = "VERIFIED" <=>
          /\ ~Matched(proof.oracle, proof.runs[1]) /\ Len(proof.runs) > input.required
          /\ \A i \in 2..Len(proof.runs) : Matched(proof.oracle, proof.runs[i])
    /\ proof.case = "NOT_REPRODUCED" =>
          \A i \in DOMAIN proof.runs : ~Matched(proof.oracle, proof.runs[i])
    /\ (proof.bundle # NoResult) = (proof.case = "VERIFIED")
    /\ proof.bundle # NoResult => [proof.bundle EXCEPT !.runLog = proof.runs] = proof.bundle

ProofInv ==
    /\ InputOK
    /\ runs \in Seq(Observed)
    /\ stage \in {"running", "assembling", "proved", "stored", "done", "failed", "minimized",
                  "rejected"}
    /\ stage = "running" => input.kind = "repository"
    /\ stage = "assembling" /\ input.kind = "repository" => Len(runs) = input.required + 1
    /\ stage \in {"proved", "stored", "done"} => Sound(result)
    /\ stage \in {"running", "assembling", "proved"} => stored = {}
    /\ stage = "stored" => stored = {result.bundle} /\ result.bundle # NoResult
    /\ stage = "done" =>
          /\ record.case = result.case /\ record.result = result
          /\ stored = {result.bundle} \ {NoResult}
    /\ stage # "done" => record = NoResult
    /\ stage = "minimized" =>
          /\ input.proposals \in Proposals
          /\ result = MinimizeReproduction(SampleOracle, input.proposals, input.required)

\* Runs come from one environment, also when they are redacted once more.
LEMMA OneEnvironment ==
    ASSUME NEW run \in Observed, NEW secrets
    PROVE  PersistedRun(run, secrets).environment = "environment"
<1>1. PICK output \in Outputs, some \in SecretSets : run = Observation(output, some)
  BY DEF Observed
<1> DEFINE first == [Run(output) EXCEPT !.stdout = Capture(@, MaxWords),
                                        !.stderr = Capture(@, MaxWords)]
<1>2. /\ DOMAIN first = {"exitCode", "stdout", "stderr", "environment"}
      /\ first.environment = "environment"
  BY DEF Run
<1> HIDE DEF first
<1>3. /\ DOMAIN run = {"exitCode", "stdout", "stderr", "environment"}
      /\ run.environment = "environment"
  BY <1>1, <1>2 DEF Observation, PersistedRun, first
<1> QED
  BY <1>3 DEF PersistedRun

\* minimizeReproduction without proposals retains the baseline.
LEMMA BaselineRetained ==
    ASSUME NEW oracle, NEW required
    PROVE  ValidMinimization(MinimizeReproduction(oracle, <<>>, required))
<1> DEFINE evaluations == Evaluations(oracle, <<>>, required)
           result0 == MinimizeReproduction(oracle, <<>>, required)
<1>1. DOMAIN evaluations = {}
  BY DEF Evaluations
<1> HIDE DEF evaluations
<1>2. Accepted(evaluations) = {}
  BY <1>1 DEF Accepted, VerifiedOnes
<1>3. /\ result0.acceptedReductionId = NoReduction
      /\ result0.acceptedRemovedInputs = {}
      /\ result0.claim = "baseline-retained"
  BY <1>2 DEF MinimizeReproduction, evaluations
<1> QED
  BY <1>3 DEF ValidMinimization

\* assembleRepositoryProof: whatever the runs showed, the proof is valid and sound.
LEMMA RepositoryProof ==
    ASSUME InputOK, input.kind = "repository", runs \in Seq(Observed),
           Len(runs) = input.required + 1
    PROVE  ValidProof(Proof(runs)) /\ Sound(Proof(runs))
<1> DEFINE kept == [i \in DOMAIN runs |-> PersistedRun(runs[i], input.secrets)]
           summary == VerifyReproduction(input.oracle, Head(kept), Tail(kept), input.required)
           minimization == IF summary.status = "VERIFIED"
                           THEN MinimizeReproduction(input.oracle, <<>>, input.required)
                           ELSE NoResult
           hypothesis == ProofHypothesis(summary.status)
           bundle == IF summary.status = "VERIFIED"
                     THEN CreateBundle("case", input.oracle, minimization, kept, summary,
                                       <<hypothesis>>)
                     ELSE NoResult
           proof == Proof(runs)
           S == {PersistedRun(run, input.secrets) : run \in Observed}
<1>1. input.required \in Nat \ {0} /\ input.oracle \in Oracles /\ WellFormed(input.oracle.root)
  BY ProofAssumption DEF InputOK
<1>2. kept \in Seq(S) /\ Len(kept) = input.required + 1
  OBVIOUS
<1>3. \A run \in S : run.environment = "environment"
  BY OneEnvironment
<1> HIDE DEF kept, S
<1>4. Judges(summary, input.oracle, kept, input.required)
  <2>1. Len(kept) > 1
    BY <1>1, <1>2
  <2> QED
    BY <1>1, <1>2, <1>3, <2>1, VerificationJudges, Zenon
<1> HIDE DEF summary
<1>5. summary.status \in Verdicts4
  BY <1>4 DEF Judges
<1>6. proof = [runs |-> kept, summary |-> summary, oracle |-> input.oracle,
               hypothesis |-> hypothesis, case |-> summary.status,
               minimization |-> minimization, bundle |-> bundle]
  BY <1>5, CaseWalks DEF Proof, Assembled, Bundled, kept, summary
<1>7. /\ (summary.status = "VERIFIED") = (minimization # NoResult)
      /\ (summary.status = "VERIFIED") = (bundle # NoResult)
      /\ bundle # NoResult => [bundle EXCEPT !.runLog = kept] = bundle
  <2>1. CASE summary.status = "VERIFIED"
    <3>1. /\ minimization = MinimizeReproduction(input.oracle, <<>>, input.required)
          /\ bundle = CreateBundle("case", input.oracle, minimization, kept, summary, <<hypothesis>>)
      BY <2>1
    <3> HIDE DEF minimization, bundle, hypothesis
    <3>2. minimization # NoResult
      BY <3>1, MinimizationIsResult
    <3>3. bundle # NoResult
      BY <3>1, BundleIsResult, Zenon
    <3>4. [bundle EXCEPT !.runLog = kept] = bundle
      BY <3>1, BundleKeepsLog
    <3> QED
      BY <2>1, <3>2, <3>3, <3>4
  <2>2. CASE summary.status # "VERIFIED"
    <3>1. minimization = NoResult /\ bundle = NoResult
      BY <2>2
    <3> HIDE DEF minimization, bundle
    <3> QED
      BY <2>2, <3>1
  <2> QED
    BY <2>1, <2>2
<1>8. bundle # NoResult => ValidBundle(bundle) /\ ValidMaterialized(MaterializeBundle(bundle))
  BY <1>1, <1>4, BaselineRetained, BundleIsValid DEF Judges
<1>9. ValidHypothesis(hypothesis) /\ hypothesis.evidence \subseteq ProofEvidence
  BY HypothesesHold
<1> HIDE DEF minimization, hypothesis, bundle, proof
<1>10. ValidProof(proof)
  BY <1>6, <1>7, <1>8, <1>9 DEF ValidProof
<1>11. Sound(proof)
  BY <1>4, <1>6, <1>7 DEF Sound, Judges
<1> QED
  BY <1>10, <1>11 DEF proof

\* TrustedFixtureRunner: the fixture reproduces whatever the budget.
LEMMA SampleReproduces ==
    ASSUME InputOK
    PROVE  LET summary == VerifyReproduction(SampleOracle, Head(SampleRuns), Tail(SampleRuns),
                                             input.required) IN
           summary.status = "VERIFIED" /\ Judges(summary, SampleOracle, SampleRuns, input.required)
<1> DEFINE S == {Run(SampleControl), Run(SampleCandidate)}
           control == <<Run(SampleControl)>>
           candidates == [i \in 1..input.required |-> Run(SampleCandidate)]
           kept == control \o candidates
           summary == VerifyReproduction(SampleOracle, Head(SampleRuns), Tail(SampleRuns),
                                         input.required)
<1>1. input.required \in Nat \ {0}
  BY DEF InputOK
<1>2. control \in Seq(S) /\ Len(control) = 1 /\ control[1] = Run(SampleControl)
  OBVIOUS
<1>3. candidates \in Seq(S) /\ Len(candidates) = input.required
  BY <1>1
<1>4. \A i \in 1..input.required : candidates[i] = Run(SampleCandidate)
  OBVIOUS
<1>5. \A run \in S : run.environment = "environment"
  BY DEF Run
<1>6. SampleRuns = kept
  BY DEF SampleRuns
<1> HIDE DEF S, control, candidates
<1>7. /\ kept \in Seq(S) /\ Len(kept) = Len(control) + Len(candidates)
      /\ \A i \in 1..Len(control) : kept[i] = control[i]
      /\ \A i \in (Len(control) + 1)..(Len(control) + Len(candidates)) :
            kept[i] = candidates[i - Len(control)]
  BY <1>2, <1>3, Joined
<1> HIDE DEF kept
<1>8. /\ kept \in Seq(S) /\ Len(kept) = input.required + 1 /\ Len(kept) > 1
      /\ kept[1] = Run(SampleControl)
      /\ \A i \in 2..Len(kept) : kept[i] = Run(SampleCandidate)
  <2>1. Len(control) + 1 = 2 /\ Len(kept) = input.required + 1 /\ Len(kept) > 1
    BY <1>1, <1>2, <1>3, <1>7
  <2>2. kept[1] = Run(SampleControl)
    BY <1>2, <1>7
  <2>3. ASSUME NEW i \in 2..Len(kept) PROVE kept[i] = Run(SampleCandidate)
    <3>1. i - 1 \in 1..input.required
      BY <1>1, <2>1
    <3>2. kept[i] = candidates[i - 1]
      BY <1>1, <1>2, <1>3, <1>7, <2>1
    <3> QED
      BY <1>4, <3>1, <3>2
  <2> QED
    BY <1>7, <2>1, <2>2, <2>3
<1>9. Judges(summary, SampleOracle, SampleRuns, input.required)
  BY <1>1, <1>5, <1>6, <1>8, VerificationJudges, Zenon
<1> HIDE DEF summary
<1>10. summary.status = "VERIFIED"
  <2>1. ~Matched(SampleOracle, SampleRuns[1])
    BY <1>6, <1>8, FixtureAssumption
  <2>2. \A i \in 2..Len(SampleRuns) : Matched(SampleOracle, SampleRuns[i])
    BY <1>6, <1>8, FixtureAssumption
  <2>3. Len(SampleRuns) > input.required
    BY <1>1, <1>6, <1>8
  <2> QED
    BY <1>9, <2>1, <2>2, <2>3, Zenon DEF Judges
<1> QED
  BY <1>9, <1>10 DEF summary

\* runTrustedSample: the sample passes its schemas, and its verdict follows from its runs.
LEMMA SampleIsSound ==
    ASSUME InputOK
    PROVE  /\ Minimizable(SampleOracle, SampleRuns, input.required)
           /\ ValidProof(SampleProof) /\ Sound(SampleProof)
<1> DEFINE summary == VerifyReproduction(SampleOracle, Head(SampleRuns), Tail(SampleRuns),
                                         input.required)
           proposals == <<SampleProposal>>
           evaluations == Evaluations(SampleOracle, proposals, input.required)
           minimization == MinimizeReproduction(SampleOracle, proposals, input.required)
           accepted == {e \in ToSet(minimization.evaluations) :
                           e.id = minimization.acceptedReductionId}
           hypothesis == ProofHypothesis("VERIFIED")
           bundle == CreateBundle("case", SampleOracle, minimization, SampleRuns, summary,
                                  <<hypothesis>>)
           proof == SampleProof
<1>1. summary.status = "VERIFIED" /\ Judges(summary, SampleOracle, SampleRuns, input.required)
  BY SampleReproduces
<1>2. /\ proposals[1].id = 1 /\ DOMAIN proposals = {1}
      /\ VerifyReproduction(SampleOracle, proposals[1].control, proposals[1].candidates,
                            input.required) = summary
  <2>1. /\ SampleProposal.id = 1 /\ SampleProposal.control = Head(SampleRuns)
        /\ SampleProposal.candidates = Tail(SampleRuns)
    BY DEF SampleProposal
  <2>2. proposals[1] = SampleProposal /\ DOMAIN proposals = {1}
    OBVIOUS
  <2> HIDE DEF proposals
  <2> QED
    BY <2>1, <2>2
<1> HIDE DEF summary, proposals
<1>3. /\ DOMAIN evaluations = {1} /\ evaluations[1].id = 1
      /\ evaluations[1].summary = summary /\ ToSet(evaluations) = {evaluations[1]}
  BY <1>2 DEF Evaluations, ToSet
<1> HIDE DEF evaluations
<1>4. Accepted(evaluations) = {1}
  BY <1>1, <1>3 DEF Accepted, VerifiedOnes
<1>5. /\ minimization.acceptedReductionId = 1 /\ minimization.claim = "locally-minimized"
      /\ minimization.evaluations = evaluations
  BY <1>3, <1>4 DEF MinimizeReproduction, evaluations
<1>6. minimization # NoResult
  BY MinimizationIsResult
<1> HIDE DEF minimization
<1>7. ValidMinimization(minimization)
  BY <1>1, <1>3, <1>5 DEF ValidMinimization, NoReduction
<1>8. accepted = {evaluations[1]}
  BY <1>3, <1>5
<1> HIDE DEF accepted
<1>9. (CHOOSE e \in accepted : TRUE).summary = summary /\ accepted # {}
  BY <1>3, <1>8
<1>10. proof = [runs |-> SampleRuns, summary |-> summary, oracle |-> SampleOracle,
                hypothesis |-> hypothesis, case |-> "VERIFIED",
                minimization |-> minimization, bundle |-> bundle]
  <2>1. TransitionCase("DRAFT", TerminalPath("VERIFIED")) = "VERIFIED"
    BY CaseWalks DEF Verdicts4
  <2> QED
    BY <1>9, <2>1 DEF SampleProof, accepted, minimization, summary, proposals
<1>11. bundle # NoResult
  BY BundleIsResult, Zenon
<1>12. [bundle EXCEPT !.runLog = SampleRuns] = bundle
  BY BundleKeepsLog
<1>13. ValidBundle(bundle) /\ ValidMaterialized(MaterializeBundle(bundle))
  <2>1. WellFormed(SampleOracle.root)
    BY ProofAssumption
  <2>2. summary.oracle = [id |-> SampleOracle.id, version |-> SampleOracle.version]
    BY <1>1 DEF Judges
  <2> QED
    BY <1>1, <1>7, <2>1, <2>2, BundleIsValid
<1>14. ValidHypothesis(hypothesis) /\ hypothesis.evidence \subseteq ProofEvidence
  BY HypothesesHold
<1> HIDE DEF hypothesis, bundle, proof
<1>15. ValidProof(proof)
  BY <1>1, <1>6, <1>10, <1>11, <1>13, <1>14 DEF ValidProof
<1>16. Sound(proof)
  BY <1>1, <1>10, <1>11, <1>12 DEF Sound, Judges
<1>17. Minimizable(SampleOracle, SampleRuns, input.required)
  BY <1>1 DEF Minimizable, summary
<1> QED
  BY <1>15, <1>16, <1>17 DEF proof

\* The first state of an attempt.
LEMMA ProofInvInit == ProofInit => ProofInv
<1> SUFFICES ASSUME ProofInit PROVE ProofInv
  OBVIOUS
<1>1. /\ InputOK /\ runs = <<>> /\ result = NoResult /\ stored = {} /\ record = NoResult
      /\ stage = IF input.kind = "repository" THEN "running" ELSE "assembling"
  <2>1. ASSUME NEW required \in RequiredRuns, NEW oracle \in Oracles, NEW secrets \in SecretSets,
               input = ProofInput("repository", oracle, required, secrets, <<>>)
        PROVE  InputOK
    BY <2>1, ProofAssumption DEF InputOK, ProofInput
  <2>2. ASSUME NEW required \in RequiredRuns,
               input = ProofInput("sample", SampleOracle, required, {}, <<>>)
        PROVE  InputOK
    BY <2>2, ProofAssumption DEF InputOK, ProofInput
  <2>3. ASSUME NEW required \in RequiredRuns, NEW proposals \in Proposals,
               input = ProofInput("minimization", SampleOracle, required, {}, proposals)
        PROVE  InputOK
    BY <2>3, ProofAssumption DEF InputOK, ProofInput
  <2> QED
    BY <2>1, <2>2, <2>3, Zenon DEF ProofInit
<1> QED
  BY <1>1 DEF ProofInv, InputOK

\* Every step of an attempt.
LEMMA ProofInvNext == ProofInv /\ [ProofNext]_proofVars => ProofInv'
<1> SUFFICES ASSUME ProofInv, [ProofNext]_proofVars PROVE ProofInv'
  OBVIOUS
<1>1. ASSUME NEW output \in Outputs, ObserveRun(output) PROVE ProofInv'
  <2>1. /\ input' = input /\ result' = result /\ stored' = stored /\ record' = record
        /\ stage = "running" /\ input.kind = "repository" /\ Len(runs) < input.required + 1
        /\ stage' = IF Len(runs') = input.required + 1 THEN "assembling" ELSE "running"
    BY <1>1 DEF ObserveRun, ProofInv
  <2>2. runs' = Append(runs, Observation(output, input.secrets))
    BY <1>1, Zenon DEF ObserveRun, Observation
  <2>3. Observation(output, input.secrets) \in Observed
    BY <2>1 DEF ProofInv, InputOK, Observed
  <2>4. runs' \in Seq(Observed)
    BY <2>2, <2>3 DEF ProofInv
  <2>5. InputOK'
    BY <2>1 DEF ProofInv, InputOK
  <2> QED
    BY <2>1, <2>4, <2>5 DEF ProofInv
<1>2. CASE RunLimit
  BY <1>2 DEF RunLimit, ProofInv, InputOK
<1>3. CASE AssembleProof
  <2>1. ValidProof(Proof(runs)) /\ Sound(Proof(runs))
    BY <1>3, RepositoryProof DEF AssembleProof, ProofInv
  <2>2. /\ input' = input /\ runs' = runs /\ stored' = stored /\ record' = record
        /\ stage = "assembling" /\ stage' = "proved" /\ result' = Proof(runs)
    BY <1>3, <2>1 DEF AssembleProof
  <2>3. Sound(result)'
    BY <2>1, <2>2 DEF Sound
  <2> QED
    BY <2>2, <2>3 DEF ProofInv, InputOK
<1>4. CASE AssembleSample
  <2>1. /\ Minimizable(SampleOracle, SampleRuns, input.required)
        /\ ValidProof(SampleProof) /\ Sound(SampleProof)
    BY SampleIsSound DEF ProofInv
  <2>2. /\ input' = input /\ runs' = runs /\ stored' = stored /\ record' = record
        /\ stage = "assembling" /\ stage' = "proved" /\ result' = SampleProof
    BY <1>4, <2>1 DEF AssembleSample
  <2>3. Sound(result)'
    BY <2>1, <2>2 DEF Sound
  <2> QED
    BY <2>2, <2>3 DEF ProofInv, InputOK
<1>5. CASE Minimize
  <2>1. /\ input' = input /\ runs' = runs /\ stored' = stored /\ record' = record
        /\ stage = "assembling" /\ stage' \in {"minimized", "rejected"}
        /\ input.kind = "minimization"
        /\ result' = MinimizeReproduction(SampleOracle, input.proposals, input.required)
    BY <1>5 DEF Minimize
  <2> QED
    BY <2>1 DEF ProofInv, InputOK
<1>6. CASE PutBundle
  BY <1>6 DEF PutBundle, ProofInv, InputOK, Sound
<1>7. CASE PutBundleFails
  BY <1>7 DEF PutBundleFails, ProofInv, InputOK
<1>8. CASE ReturnRecord
  <2>1. /\ input' = input /\ runs' = runs /\ stored' = stored /\ result' = result
        /\ stage' = "done" /\ record' = [case |-> result.case, job |-> "SUCCEEDED", result |-> result]
        /\ stage \in {"stored", "proved"} /\ (stage = "proved" => result.bundle = NoResult)
    BY <1>8 DEF ReturnRecord
  <2>2. record'.case = result.case /\ record'.result = result
    BY <2>1
  <2>3. Sound(result)'
    BY <2>1 DEF ProofInv, Sound
  <2>4. stored = {result.bundle} \ {NoResult}
    BY <2>1 DEF ProofInv
  <2> QED
    BY <2>1, <2>2, <2>3, <2>4 DEF ProofInv, InputOK
<1>9. CASE UNCHANGED proofVars
  BY <1>9 DEF proofVars, ProofInv, InputOK, Sound
<1> QED
  BY <1>1, <1>2, <1>3, <1>4, <1>5, <1>6, <1>7, <1>8, <1>9 DEF ProofNext

\* The invariant of an attempt, from a start command to the record.
THEOREM AttemptJudges == ProofSpec => []ProofInv
<1>1. ProofInit => ProofInv
  BY ProofInvInit
<1>2. ProofInv /\ [ProofNext]_proofVars => ProofInv'
  BY ProofInvNext
<1> QED
  BY <1>1, <1>2, PTL DEF ProofSpec

\* Whoever has the record can judge it again and comes to its verdict, and the bundle
\* that is stored holds the runs of the record: for any outputs, oracles, budgets and
\* secrets, and whatever an oracle matches and redaction leaves.
THEOREM VerdictsAreEarned == ProofSpec => []VerdictEarned
<1>1. ProofInv => VerdictEarned
  <2> SUFFICES ASSUME ProofInv PROVE VerdictEarned
    OBVIOUS
  <2>1. stage # "invalid"
    BY DEF ProofInv
  <2>2. ASSUME record # NoResult
        PROVE  LET kept == record.result.runs
                   Judged(i) == Matched(record.result.oracle, kept[i]) IN
               /\ record.case = "VERIFIED" <=>
                      /\ ~Judged(1) /\ Len(kept) > input.required
                      /\ \A i \in 2..Len(kept) : Judged(i)
               /\ record.case = "NOT_REPRODUCED" => \A i \in DOMAIN kept : ~Judged(i)
               /\ stored = {[b EXCEPT !.runLog = kept] : b \in {record.result.bundle} \ {NoResult}}
               /\ (stored # {}) = (record.case = "VERIFIED")
    <3>1. /\ stage = "done" /\ record.case = result.case /\ record.result = result
          /\ stored = {result.bundle} \ {NoResult}
      BY <2>2 DEF ProofInv
    <3>2. Sound(result)
      BY <3>1 DEF ProofInv
    <3>3. stored = {[b EXCEPT !.runLog = result.runs] : b \in {result.bundle} \ {NoResult}}
      <4>1. CASE result.bundle = NoResult
        BY <3>1, <4>1
      <4>2. CASE result.bundle # NoResult
        <5>1. [result.bundle EXCEPT !.runLog = result.runs] = result.bundle
          BY <3>2, <4>2 DEF Sound
        <5>2. {result.bundle} \ {NoResult} = {result.bundle}
          BY <4>2
        <5>3. {[b EXCEPT !.runLog = result.runs] : b \in {result.bundle}} = {result.bundle}
          <6>1. ASSUME NEW c PROVE c \in {[b EXCEPT !.runLog = result.runs] : b \in {result.bundle}}
                                      <=> c = [result.bundle EXCEPT !.runLog = result.runs]
            BY Zenon
          <6> QED
            BY <5>1, <6>1, Zenon
        <5> QED
          BY <3>1, <5>2, <5>3
      <4> QED
        BY <4>1, <4>2
    <3>4. (stored # {}) = (record.case = "VERIFIED")
      BY <3>1, <3>2 DEF Sound
    <3>5. record.case = "VERIFIED" <=>
              /\ ~Matched(result.oracle, result.runs[1]) /\ Len(result.runs) > input.required
              /\ \A i \in 2..Len(result.runs) : Matched(result.oracle, result.runs[i])
      BY <3>1, <3>2 DEF Sound
    <3>6. record.case = "NOT_REPRODUCED" =>
              \A i \in DOMAIN result.runs : ~Matched(result.oracle, result.runs[i])
      BY <3>1, <3>2 DEF Sound
    <3> QED
      BY <3>1, <3>3, <3>4, <3>5, <3>6
  <2> QED
    BY <2>1, <2>2, Zenon DEF VerdictEarned
<1> QED
  BY <1>1, AttemptJudges, PTL

\* Minimization accepts a verified proposal that removes as much as any, and the same for
\* the opposite order: for any number of proposals, with the same identifiers or not.
THEOREM ReductionIsLargest == ProofSpec => []LargestReduction
<1>1. ProofInv => LargestReduction
  <2> SUFFICES ASSUME ProofInv, stage = "minimized"
               PROVE  LargestReduction
    BY Zenon DEF LargestReduction
  <2>1. result = MinimizeReproduction(SampleOracle, input.proposals, input.required)
    BY DEF ProofInv
  <2>2. ProposalsOK(input.proposals)
    BY ProposalAssumption DEF ProofInv, ProposalsOK
  <2>3. \A p \in ToSet(input.proposals) :
            Holds(SampleOracle, p, input.required)
            => Cardinality(p.removedInputs) <= Cardinality(result.acceptedRemovedInputs)
    BY <2>1, <2>2, LargestOf
  <2>4. result.acceptedReductionId # NoReduction =>
            \E p \in ToSet(input.proposals) :
               /\ p.id = result.acceptedReductionId
               /\ p.removedInputs = result.acceptedRemovedInputs
               /\ Holds(SampleOracle, p, input.required)
    BY <2>1, <2>2, LargestOf
  <2>5. MinimizeReproduction(SampleOracle, Reverse(input.proposals), input.required)
            .acceptedReductionId = result.acceptedReductionId
    BY <2>1, <2>2, LargestOf
  <2> QED
    BY <2>3, <2>4, <2>5, Zenon DEF LargestReduction, Holds
<1> QED
  BY <1>1, AttemptJudges, PTL

----------------------------------------------------------------------------
(* The invariant of the trusted sample's starts.                           *)

Jobs == {"QUEUED", "RUNNING", "SUCCEEDED", "FAILED"}
StartStages == {"idle", "start", "get", "export", "reserve", "run", "running", "publish",
                "consume", "consuming", "read", "told"}
StartAnswers == {"none", "INTERNAL_ERROR", "IDEMPOTENCY_CONFLICT", "NOT_FOUND",
                 "BUNDLE_NOT_READY",
                  "created", "reused", "found", "exported"}
SomeKey == SampleKeys \cup {NoKey}
SomeBudget == Budgets \cup {NoKey}

Row == [case : Nat, budget : SomeBudget, job : Jobs, holder : Consumers \cup {NoKey},
        attempt : Nat, ready : BOOLEAN, event : {"pending", "delivered"}]
Shown == [case : Nat, budget : SomeBudget, job : Jobs]
Start == [stage : StartStages, key : SomeKey, budget : SomeBudget, created : BOOLEAN,
          answer : StartAnswers]
Lease == [pc : {"idle", "executing", "completing", "failing"}, key : SomeKey, attempt : Nat]

SampleTypeOK ==
    /\ mode \in {"offline", "hosted"} /\ issued \in Nat
    /\ rows \in [SampleKeys -> Row \cup {NoRow}]
    /\ told \in [SampleKeys -> Shown \cup {NoRow}]
    /\ starts \in [Clients -> Start]
    /\ consumers \in [Consumers -> Lease]

Executes(c) == starts[c].stage \in {"run", "running"}

\* Where a start stands: offline it has its row for itself, hosted the row is there.
StageInv(c) ==
    LET key == starts[c].key IN
    /\ starts[c].stage \notin {"idle", "told"} => key \in SampleKeys
    /\ starts[c].stage = "run" => mode = "offline" /\ rows[key].job = "QUEUED"
    /\ starts[c].stage = "running" => mode = "offline" /\ rows[key].job = "RUNNING"
    /\ starts[c].stage \in {"publish", "consume", "consuming", "read"} =>
          mode = "hosted" /\ rows[key] # NoRow

AloneInv ==
    \A c, d \in Clients : Executes(c) /\ Executes(d) /\ starts[c].key = starts[d].key => c = d

LeaseInv ==
    \A w \in Consumers : consumers[w].pc # "idle" =>
        mode = "hosted" /\ (w # Platform => starts[w].stage = "consuming")

\* A result that is recorded has its bundle.
ResultInv == \A k \in SampleKeys : rows[k].job = "SUCCEEDED" => rows[k].case \in bundles

\* Nothing is published offline.
QuietInv == mode = "offline" => \A k \in SampleKeys : rows[k] # NoRow => rows[k].event = "pending"

\* What was told is still so, or was not the end.
ToldInv ==
    \A k \in SampleKeys : told[k] # NoRow =>
        /\ rows[k] # NoRow /\ rows[k].case = told[k].case /\ rows[k].budget = told[k].budget
        /\ IsTerminal(told[k]) => rows[k].job = told[k].job

SampleInv ==
    /\ SampleTypeOK /\ AloneInv /\ LeaseInv /\ ResultInv /\ QuietInv /\ ToldInv
    /\ \A c \in Clients : StageInv(c)

----------------------------------------------------------------------------
(* Lemmas about rows.                                                      *)

LEMMA RowIsNoNoRow ==
    /\ \A row \in Row \cup {NoRow} : row # NoRow <=> row \in Row
    /\ \A row \in Row \cup {NoRow} : row # NoRow <=> row.job \in Jobs
    /\ \A row \in Row : row.job \in Jobs /\ row # NoRow
    /\ \A snapshot \in Shown : snapshot # NoRow
    /\ NoRow.job = "none"
<1>1. NoRow.job = "none" /\ "none" \notin Jobs
  BY DEF NoRow, Jobs
<1>2. \A row \in Row : row.job \in Jobs
  BY DEF Row
<1>3. \A snapshot \in Shown : snapshot.job \in Jobs
  BY DEF Shown
<1> QED
  BY <1>1, <1>2, <1>3

\* Each of the ways a row is changed, and what it leaves.
LEMMA NewRowIs ==
    ASSUME NEW case \in Nat, NEW budget \in SomeBudget
    PROVE  /\ NewRow(case, budget) \in Row /\ NewRow(case, budget).job = "QUEUED"
           /\ NewRow(case, budget).event = "pending"
  BY DEF NewRow, Row, Jobs

Keeps(new, row) == new \in Row /\ new.case = row.case /\ new.budget = row.budget

LEMMA SetJobIs ==
    ASSUME NEW row \in Row, NEW job \in Jobs, NEW new, new = [row EXCEPT !.job = job]
    PROVE  Keeps(new, row) /\ new.job = job /\ new.event = row.event
  BY DEF Row, Keeps

LEMMA SetEventIs ==
    ASSUME NEW row \in Row, NEW new, new = [row EXCEPT !.event = "delivered"]
    PROVE  Keeps(new, row) /\ new.job = row.job
  BY DEF Row, Keeps

LEMMA SetReadyIs ==
    ASSUME NEW row \in Row, NEW new, new = [row EXCEPT !.ready = TRUE]
    PROVE  Keeps(new, row) /\ new.job = row.job
  BY DEF Row, Keeps

LEMMA ClaimIs ==
    ASSUME NEW row \in Row, NEW w \in Consumers, NEW new,
           new = [row EXCEPT !.job = "RUNNING", !.holder = w, !.attempt = row.attempt + 1,
                             !.ready = FALSE]
    PROVE  Keeps(new, row) /\ new.job = "RUNNING"
<1>1. new = [case |-> row.case, budget |-> row.budget, job |-> "RUNNING", holder |-> w,
             attempt |-> row.attempt + 1, ready |-> FALSE, event |-> row.event]
  <2>1. /\ DOMAIN row = {"case", "budget", "job", "holder", "attempt", "ready", "event"}
        /\ row = [f \in DOMAIN row |-> row[f]]
    BY DEF Row
  <2>2. new = [f \in DOMAIN row |->
                  IF f = "job" THEN "RUNNING" ELSE IF f = "holder" THEN w
                  ELSE IF f = "attempt" THEN row.attempt + 1 ELSE IF f = "ready" THEN FALSE
                  ELSE row[f]]
    BY <2>1
  <2> QED
    BY <2>1, <2>2
<1>2. /\ row.case \in Nat /\ row.budget \in SomeBudget /\ row.event \in {"pending", "delivered"}
      /\ row.attempt + 1 \in Nat /\ "RUNNING" \in Jobs
  BY DEF Row, Jobs
<1>3. new \in Row
  BY <1>1, <1>2 DEF Row
<1> QED
  BY <1>1, <1>3 DEF Keeps

LEMMA RetriedIs ==
    ASSUME NEW row \in Row
    PROVE  Keeps(Retried(row), row) /\ Retried(row).job \in {"QUEUED", "FAILED"}
<1>1. CASE row.attempt < MaxTries
  <2>1. Retried(row) = [case |-> row.case, budget |-> row.budget, job |-> "QUEUED",
                        holder |-> NoKey, attempt |-> row.attempt, ready |-> FALSE,
                        event |-> "pending"]
    BY <1>1 DEF Row, Retried
  <2> QED
    BY <2>1 DEF Row, Keeps, Jobs
<1>2. CASE ~(row.attempt < MaxTries)
  <2>1. Retried(row) = [case |-> row.case, budget |-> row.budget, job |-> "FAILED",
                        holder |-> NoKey, attempt |-> row.attempt, ready |-> row.ready,
                        event |-> row.event]
    BY <1>2 DEF Row, Retried
  <2> QED
    BY <2>1 DEF Row, Keeps, Jobs
<1> QED
  BY <1>1, <1>2

\* A job that is not over may go on.
RowStep(k) ==
    /\ rows'[k] \in Row \cup {NoRow}
    /\ rows[k] # NoRow =>
          /\ rows'[k] # NoRow
          /\ rows'[k].case = rows[k].case /\ rows'[k].budget = rows[k].budget
          /\ IsTerminal(rows[k]) => rows'[k].job = rows[k].job
    /\ rows'[k].job = "SUCCEEDED" => rows'[k].case \in bundles'
    /\ mode = "offline" /\ rows'[k] # NoRow => rows'[k].event = "pending"

LEMMA RowStays ==
    ASSUME SampleInv, bundles \subseteq bundles', NEW k \in SampleKeys, rows'[k] = rows[k]
    PROVE  RowStep(k)
<1>1. rows[k] \in Row \cup {NoRow}
  BY DEF SampleInv, SampleTypeOK
<1>2. rows[k].job = "SUCCEEDED" => rows[k].case \in bundles'
  BY DEF SampleInv, ResultInv
<1>3. mode = "offline" /\ rows[k] # NoRow => rows[k].event = "pending"
  BY DEF SampleInv, QuietInv
<1> QED
  BY <1>1, <1>2, <1>3 DEF RowStep

\* A hosted job that is not over is changed by whoever may.
LEMMA RowGoesOn ==
    ASSUME SampleInv, bundles \subseteq bundles', NEW k \in SampleKeys, mode = "hosted",
           Keeps(rows'[k], rows[k]), IsTerminal(rows[k]) => rows'[k].job = rows[k].job,
           rows[k] # NoRow,
           rows'[k].job = "SUCCEEDED" => rows[k].case \in bundles'
    PROVE  RowStep(k)
  BY RowIsNoNoRow DEF RowStep, Keeps

ToldStep(k) == told'[k] = told[k] \/ (rows'[k] # NoRow /\ told'[k] = Snapshot(rows'[k]))

LEMMA SnapshotIs ==
    ASSUME NEW row \in Row
    PROVE  /\ Snapshot(row) \in Shown /\ Snapshot(row).case = row.case
           /\ Snapshot(row).budget = row.budget /\ Snapshot(row).job = row.job
  BY DEF Snapshot, Row, Shown

\* One step of AnswersAgree.
Agree ==
    \A k \in SampleKeys :
        told[k] # NoRow \/ told'[k] # NoRow =>
            LET now == told'[k] IN
            /\ told[k] # NoRow =>
                  /\ now.case = told[k].case /\ now.budget = told[k].budget
                  /\ IsTerminal(told[k]) => now.job = told[k].job
            /\ now.job = "SUCCEEDED" => now.case \in bundles'

----------------------------------------------------------------------------
(* Lemmas about starts.                                                    *)

\* One start goes on.
StartMove(c, stage0, key) ==
    /\ starts' \in [Clients -> Start]
    /\ starts'[c].stage = stage0 /\ starts'[c].key = key
    /\ \A d \in Clients \ {c} : starts'[d] = starts[d]

LEMMA StageIs ==
    ASSUME NEW start \in Start, NEW stage0 \in StartStages, NEW new,
           new = [start EXCEPT !.stage = stage0]
    PROVE  new \in Start /\ new.stage = stage0 /\ new.key = start.key
  BY DEF Start

LEMMA CreatedIs ==
    ASSUME NEW start \in Start, NEW created \in BOOLEAN, NEW new,
           new = [start EXCEPT !.created = created]
    PROVE  new \in Start /\ new.stage = start.stage /\ new.key = start.key
  BY DEF Start

LEMMA StartIs ==
    ASSUME NEW stage0 \in StartStages, NEW key \in SomeKey, NEW budget \in SomeBudget,
           NEW answer \in StartAnswers
    PROVE  [stage |-> stage0, key |-> key, budget |-> budget, created |-> FALSE,
            answer |-> answer] \in Start
  BY DEF Start

Asked(stage0, key, budget) == [NoStart EXCEPT !.stage = stage0, !.key = key, !.budget = budget]

LEMMA AskedIs ==
    ASSUME NEW stage0 \in StartStages, NEW key \in SomeKey, NEW budget \in SomeBudget
    PROVE  /\ Asked(stage0, key, budget) \in Start /\ Asked(stage0, key, budget).stage = stage0
           /\ Asked(stage0, key, budget).key = key
<1> DEFINE new == Asked(stage0, key, budget)
<1>1. /\ DOMAIN NoStart = {"stage", "key", "budget", "created", "answer"}
      /\ NoStart.created = FALSE /\ NoStart.answer = "none"
  BY DEF NoStart
<1>2. new = [f \in DOMAIN NoStart |->
                IF f = "stage" THEN stage0 ELSE IF f = "key" THEN key
                ELSE IF f = "budget" THEN budget ELSE NoStart[f]]
  BY DEF NoStart, Asked
<1> HIDE DEF new
<1>3. new = [stage |-> stage0, key |-> key, budget |-> budget, created |-> FALSE,
             answer |-> "none"]
  BY <1>1, <1>2
<1>4. [stage |-> stage0, key |-> key, budget |-> budget, created |-> FALSE, answer |-> "none"]
          \in Start
  <2>1. "none" \in StartAnswers
    BY DEF StartAnswers
  <2> QED
    BY <2>1, StartIs
<1>5. new \in Start
  BY <1>3, <1>4, Zenon
<1> QED
  BY <1>3, <1>5 DEF new

LEMMA AnswerIs ==
    ASSUME NEW code \in StartAnswers, NEW new,
           new = [NoStart EXCEPT !.stage = "told", !.answer = code]
    PROVE  new \in Start /\ new.stage = "told" /\ new.key = NoKey
<1>1. new = [stage |-> "told", key |-> NoKey, budget |-> NoKey, created |-> FALSE,
             answer |-> code]
  BY DEF NoStart
<1>2. "told" \in StartStages /\ NoKey \in SomeKey /\ NoKey \in SomeBudget
  BY DEF StartStages, SomeKey, SomeBudget
<1>3. [stage |-> "told", key |-> NoKey, budget |-> NoKey, created |-> FALSE,
       answer |-> code] \in Start
  BY <1>2, StartIs
<1>4. new \in Start
  BY <1>1, <1>3, Zenon
<1> QED
  BY <1>1, <1>4 DEF NoStart

LEMMA GoToIs ==
    ASSUME SampleTypeOK, NEW c \in Clients, NEW stage0 \in StartStages, GoTo(c, stage0)
    PROVE  StartMove(c, stage0, starts[c].key)
<1> DEFINE new == [starts[c] EXCEPT !.stage = stage0]
<1>1. starts' = [starts EXCEPT ![c] = new] /\ starts \in [Clients -> Start]
  BY DEF GoTo, SampleTypeOK
<1>2. new \in Start /\ new.stage = stage0 /\ new.key = starts[c].key
  BY <1>1, StageIs
<1> HIDE DEF new
<1> QED
  BY <1>1, <1>2 DEF StartMove

LEMMA GoToCreatedIs ==
    ASSUME SampleTypeOK, NEW c \in Clients, NEW stage0 \in StartStages, NEW created \in BOOLEAN,
           starts' = [starts EXCEPT ![c].stage = stage0, ![c].created = created]
    PROVE  StartMove(c, stage0, starts[c].key)
<1> DEFINE first == [starts[c] EXCEPT !.stage = stage0]
           new == [first EXCEPT !.created = created]
<1>1. starts' = [starts EXCEPT ![c] = new] /\ starts \in [Clients -> Start]
  BY DEF SampleTypeOK
<1>2. first \in Start /\ first.stage = stage0 /\ first.key = starts[c].key
  BY <1>1, StageIs
<1> HIDE DEF first
<1>3. new \in Start /\ new.stage = stage0 /\ new.key = starts[c].key
  BY <1>2, CreatedIs
<1> HIDE DEF new
<1> QED
  BY <1>1, <1>3, ZenonT(60) DEF StartMove

LEMMA RefuseIs ==
    ASSUME SampleTypeOK, NEW c \in Clients, NEW code \in StartAnswers, Refuse(c, code)
    PROVE  StartMove(c, "told", NoKey) /\ told' = told
<1> DEFINE new == [NoStart EXCEPT !.stage = "told", !.answer = code]
<1>1. starts' = [starts EXCEPT ![c] = new] /\ starts \in [Clients -> Start] /\ told' = told
  BY DEF Refuse, SampleTypeOK
<1>2. new \in Start /\ new.stage = "told" /\ new.key = NoKey
  BY AnswerIs
<1> HIDE DEF new
<1> QED
  BY <1>1, <1>2 DEF StartMove

LEMMA TellIs ==
    ASSUME SampleTypeOK, NEW c \in Clients, NEW answer \in StartAnswers, NEW row,
           Tell(c, row, answer)
    PROVE  /\ StartMove(c, "told", NoKey)
           /\ \A k \in SampleKeys :
                 told'[k] = told[k] \/ (k = starts[c].key /\ told'[k] = Snapshot(row))
           /\ told' = [told EXCEPT ![starts[c].key] = Snapshot(row)]
<1> DEFINE new == [NoStart EXCEPT !.stage = "told", !.answer = answer]
<1>1. /\ starts' = [starts EXCEPT ![c] = new] /\ starts \in [Clients -> Start]
      /\ told' = [told EXCEPT ![starts[c].key] = Snapshot(row)]
      /\ told \in [SampleKeys -> Shown \cup {NoRow}]
  BY DEF Tell, SampleTypeOK
<1>2. new \in Start /\ new.stage = "told" /\ new.key = NoKey
  BY AnswerIs
<1> HIDE DEF new
<1>3. StartMove(c, "told", NoKey)
  BY <1>1, <1>2 DEF StartMove
<1>4. ASSUME NEW k \in SampleKeys
      PROVE  told'[k] = told[k] \/ (k = starts[c].key /\ told'[k] = Snapshot(row))
  BY <1>1
<1> QED
  BY <1>1, <1>3, <1>4

----------------------------------------------------------------------------
(* A step of some starts, and of rows that go on, keeps the invariant.     *)

\* What has to be shown of a step.
LEMMA StepKeeps ==
    ASSUME SampleInv, mode' = mode, bundles \subseteq bundles',
           issued' \in Nat, rows' \in [SampleKeys -> Row \cup {NoRow}],
           told' \in [SampleKeys -> Shown \cup {NoRow}],
           starts' \in [Clients -> Start], consumers' \in [Consumers -> Lease],
           NEW M \in SUBSET Clients,
           \A d \in Clients \ M :
              /\ starts'[d] = starts[d]
              /\ Executes(d) => rows'[starts[d].key].job = rows[starts[d].key].job,
           \A c \in M :
              /\ StageInv(c)'
              /\ Executes(c)' => \A d \in Clients :
                    Executes(d)' /\ starts'[d].key = starts'[c].key => d = c,
           LeaseInv',
           \A k \in SampleKeys : RowStep(k),
           \A k \in SampleKeys : ToldStep(k)
    PROVE  SampleInv' /\ Agree
<1>1. SampleTypeOK'
  BY DEF SampleInv, SampleTypeOK
<1>2. ResultInv'
  BY DEF RowStep, ResultInv
<1>3. QuietInv'
  BY DEF RowStep, QuietInv
<1>4. ASSUME NEW c \in Clients PROVE StageInv(c)'
  <2>1. CASE c \in M
    BY <2>1
  <2>2. CASE c \notin M
    <3>1. starts'[c] = starts[c] /\ StageInv(c)
      BY <2>2 DEF SampleInv
    <3>2. starts[c].key \in SampleKeys /\ rows[starts[c].key] # NoRow
              => rows'[starts[c].key] # NoRow
      BY DEF RowStep
    <3>3. Executes(c) => rows'[starts[c].key].job = rows[starts[c].key].job
      BY <2>2
    <3> QED
      BY <3>1, <3>2, <3>3 DEF StageInv, Executes
  <2> QED
    BY <2>1, <2>2
<1>5. AloneInv'
  <2> SUFFICES ASSUME NEW c \in Clients, NEW d \in Clients, Executes(c)', Executes(d)',
                      starts'[c].key = starts'[d].key
               PROVE  c = d
    BY Zenon DEF AloneInv
  <2>1. CASE c \in M \/ d \in M
    BY <2>1
  <2>2. CASE c \notin M /\ d \notin M
    <3>1. starts'[c] = starts[c] /\ starts'[d] = starts[d]
      BY <2>2
    <3>2. Executes(c) /\ Executes(d)
      BY <3>1 DEF Executes
    <3> QED
      BY <3>1, <3>2 DEF SampleInv, AloneInv
  <2> QED
    BY <2>1, <2>2
<1>6. ASSUME NEW k \in SampleKeys
      PROVE  /\ told'[k] # NoRow =>
                   /\ rows'[k] # NoRow
                   /\ rows'[k].case = told'[k].case /\ rows'[k].budget = told'[k].budget
                   /\ IsTerminal(told'[k]) => rows'[k].job = told'[k].job
             /\ told[k] # NoRow =>
                   /\ told'[k].case = told[k].case /\ told'[k].budget = told[k].budget
                   /\ IsTerminal(told[k]) => told'[k].job = told[k].job
             /\ told'[k] # NoRow /\ told'[k].job = "SUCCEEDED" => told'[k].case \in bundles'
  <2>1. RowStep(k)
    OBVIOUS
  <2>2. told[k] # NoRow =>
            /\ rows'[k] # NoRow /\ rows'[k].case = told[k].case
            /\ rows'[k].budget = told[k].budget
            /\ IsTerminal(told[k]) => rows'[k].job = told[k].job
    <3>1. SUFFICES ASSUME told[k] # NoRow
                   PROVE  /\ rows'[k] # NoRow /\ rows'[k].case = told[k].case
                          /\ rows'[k].budget = told[k].budget
                          /\ IsTerminal(told[k]) => rows'[k].job = told[k].job
      OBVIOUS
    <3>2. /\ rows[k] # NoRow /\ rows[k].case = told[k].case /\ rows[k].budget = told[k].budget
          /\ IsTerminal(told[k]) => rows[k].job = told[k].job
      BY <3>1 DEF SampleInv, ToldInv
    <3>3. IsTerminal(told[k]) => IsTerminal(rows[k])
      BY <3>2 DEF IsTerminal
    <3> QED
      BY <2>1, <3>2, <3>3 DEF RowStep
  <2>3. CASE told'[k] = told[k]
    <3>1. told'[k] # NoRow /\ told'[k].job = "SUCCEEDED" => told'[k].case \in bundles'
      BY <2>1, <2>2, <2>3 DEF RowStep, IsTerminal
    <3> QED
      BY <2>2, <2>3, <3>1
  <2>4. CASE rows'[k] # NoRow /\ told'[k] = Snapshot(rows'[k])
    <3>1. rows'[k] \in Row
      BY <2>1, <2>4, RowIsNoNoRow DEF RowStep
    <3>2. /\ told'[k].case = rows'[k].case /\ told'[k].budget = rows'[k].budget
          /\ told'[k].job = rows'[k].job
      BY <2>4, <3>1, SnapshotIs
    <3>3. rows'[k].job = "SUCCEEDED" => rows'[k].case \in bundles'
      BY <2>1 DEF RowStep
    <3> QED
      BY <2>2, <2>4, <3>2, <3>3
  <2> QED
    BY <2>3, <2>4 DEF ToldStep
<1>7. ToldInv'
  BY <1>6, Zenon DEF ToldInv
<1>8. Agree
  BY <1>6, RowIsNoNoRow DEF Agree
<1> QED
  BY <1>1, <1>2, <1>3, <1>4, <1>5, <1>7, <1>8 DEF SampleInv

\* Nothing changes of what the invariant is about.
LEMMA StutterStep ==
    ASSUME SampleInv, UNCHANGED <<mode, rows, issued, bundles, consumers, starts, told>>
    PROVE  SampleInv' /\ Agree
<1>1. \A k \in SampleKeys : RowStep(k)
  BY RowStays
<1>2. \A k \in SampleKeys : ToldStep(k)
  BY DEF ToldStep
<1>3. LeaseInv'
  BY DEF SampleInv, LeaseInv
<1>4. /\ {} \in SUBSET Clients /\ issued' \in Nat /\ rows' \in [SampleKeys -> Row \cup {NoRow}]
      /\ told' \in [SampleKeys -> Shown \cup {NoRow}]
      /\ starts' \in [Clients -> Start] /\ consumers' \in [Consumers -> Lease]
  BY DEF SampleInv, SampleTypeOK
<1>5. \A d \in Clients \ {} :
          /\ starts'[d] = starts[d]
          /\ Executes(d) => rows'[starts[d].key].job = rows[starts[d].key].job
  OBVIOUS
<1>6. \A c \in {} :
          /\ StageInv(c)'
          /\ Executes(c)' => \A d \in Clients :
                Executes(d)' /\ starts'[d].key = starts'[c].key => d = c
  OBVIOUS
<1>7. mode' = mode /\ bundles \subseteq bundles'
  OBVIOUS
<1> QED
  BY <1>1, <1>2, <1>3, <1>4, <1>5, <1>6, <1>7, StepKeeps, Zenon

----------------------------------------------------------------------------
(* Steps that leave the rows alone.                                        *)

RowsAlone ==
    mode' = mode /\ rows' = rows /\ bundles' = bundles /\ consumers' = consumers /\ issued' \in Nat

LEMMA StoreAlone == SampleInv /\ StoreUnchanged => RowsAlone
  BY DEF SampleInv, SampleTypeOK, StoreUnchanged, RowsAlone

LEMMA AloneStep ==
    ASSUME SampleInv, RowsAlone, NEW c \in Clients, starts[c].stage # "consuming",
           NEW stage0, NEW key, StartMove(c, stage0, key), stage0 \notin {"run", "running"},
           StageInv(c)', told' \in [SampleKeys -> Shown \cup {NoRow}],
           \A k \in SampleKeys : ToldStep(k)
    PROVE  SampleInv' /\ Agree
<1>1. \A k \in SampleKeys : RowStep(k)
  BY RowStays DEF RowsAlone
<1>2. LeaseInv'
  <2> SUFFICES ASSUME NEW w \in Consumers, consumers'[w].pc # "idle"
               PROVE  mode' = "hosted" /\ (w # Platform => starts'[w].stage = "consuming")
    BY Zenon DEF LeaseInv
  <2>1. mode = "hosted" /\ (w # Platform => starts[w].stage = "consuming")
    BY DEF RowsAlone, SampleInv, LeaseInv
  <2>2. w # Platform => w \in Clients
    BY DEF Consumers
  <2> QED
    BY <2>1, <2>2 DEF RowsAlone, StartMove
<1>3. \A d \in Clients \ {c} :
          /\ starts'[d] = starts[d]
          /\ Executes(d) => rows'[starts[d].key].job = rows[starts[d].key].job
  BY DEF RowsAlone, StartMove
<1>4. ~Executes(c)'
  BY DEF Executes, StartMove
<1>5. /\ rows' \in [SampleKeys -> Row \cup {NoRow}] /\ consumers' \in [Consumers -> Lease]
      /\ mode' = mode /\ bundles \subseteq bundles' /\ issued' \in Nat
      /\ starts' \in [Clients -> Start]
  BY DEF RowsAlone, StartMove, SampleInv, SampleTypeOK
<1>6. \A d \in {c} : /\ StageInv(d)'
                     /\ Executes(d)' => \A e \in Clients :
                           Executes(e)' /\ starts'[e].key = starts'[d].key => e = d
  BY <1>4
<1>7. {c} \in SUBSET Clients
  OBVIOUS
<1> HIDE DEF RowsAlone, StartMove
<1> QED
  BY <1>1, <1>2, <1>3, <1>5, <1>6, <1>7, StepKeeps

\* A start goes on, is refused, or is told of the row that is there.
LEMMA AloneGoesOn ==
    ASSUME SampleInv, RowsAlone, NEW c \in Clients, starts[c].stage # "consuming",
           NEW stage0 \in StartStages \ {"run", "running"}, NEW key,
           StartMove(c, stage0, key), stage0 \notin {"idle", "told"} => key \in SampleKeys,
           stage0 \in {"publish", "consume", "consuming", "read"} =>
               mode = "hosted" /\ rows[key] # NoRow,
           told' = told
    PROVE  SampleInv' /\ Agree
<1>1. StageInv(c)'
  BY DEF StageInv, StartMove, RowsAlone
<1>2. (\A k \in SampleKeys : ToldStep(k)) /\ told' \in [SampleKeys -> Shown \cup {NoRow}]
  BY DEF ToldStep, SampleInv, SampleTypeOK
<1> QED
  BY <1>1, <1>2, AloneStep

LEMMA AloneRefused ==
    ASSUME SampleInv, RowsAlone, NEW c \in Clients, starts[c].stage # "consuming",
           NEW code \in StartAnswers, Refuse(c, code)
    PROVE  SampleInv' /\ Agree
<1>1. StartMove(c, "told", NoKey) /\ told' = told
  BY RefuseIs DEF SampleInv
<1>2. "told" \in StartStages \ {"run", "running"}
  BY DEF StartStages
<1> QED
  BY <1>1, <1>2, AloneGoesOn

LEMMA AloneTold ==
    ASSUME SampleInv, RowsAlone, NEW c \in Clients, starts[c].stage \notin {"idle", "consuming", "told"},
           RowOf(c) # NoRow, NEW answer \in StartAnswers, Tell(c, RowOf(c), answer)
    PROVE  SampleInv' /\ Agree
<1>1. starts[c].key \in SampleKeys
  BY DEF SampleInv, StageInv
<1>2. RowOf(c) \in Row
  BY <1>1, RowIsNoNoRow DEF SampleInv, SampleTypeOK, RowOf
<1>3. Snapshot(RowOf(c)) \in Shown
  BY <1>2, SnapshotIs
<1>4. /\ StartMove(c, "told", NoKey)
      /\ \A k \in SampleKeys :
            told'[k] = told[k] \/ (k = starts[c].key /\ told'[k] = Snapshot(RowOf(c)))
      /\ told' = [told EXCEPT ![starts[c].key] = Snapshot(RowOf(c))]
  BY TellIs DEF SampleInv
<1>5. told' \in [SampleKeys -> Shown \cup {NoRow}]
  BY <1>3, <1>4 DEF SampleInv, SampleTypeOK
<1>6. \A k \in SampleKeys : ToldStep(k)
  BY <1>4 DEF ToldStep, RowOf, RowsAlone
<1>7. StageInv(c)'
  BY <1>4 DEF StageInv, StartMove
<1>8. starts[c].stage # "consuming" /\ "told" \notin {"run", "running"}
  OBVIOUS
<1> QED
  BY <1>4, <1>5, <1>6, <1>7, <1>8, AloneStep

LEMMA AloneFound ==
    ASSUME SampleInv, RowsAlone, NEW c \in Clients, starts[c].stage \in {"start", "reserve"},
           RowOf(c) # NoRow, Found(c, RowOf(c))
    PROVE  SampleInv' /\ Agree
<1>1. CASE Refuse(c, "IDEMPOTENCY_CONFLICT")
  <2>1. "IDEMPOTENCY_CONFLICT" \in StartAnswers
    BY DEF StartAnswers
  <2> QED
    BY <1>1, <2>1, AloneRefused
<1>2. CASE Tell(c, RowOf(c), "reused")
  <2>1. "reused" \in StartAnswers
    BY DEF StartAnswers
  <2> QED
    BY <1>2, <2>1, AloneTold
<1>3. CASE /\ mode # "offline" /\ told' = told
           /\ starts' = [starts EXCEPT ![c].stage = "publish", ![c].created = FALSE]
  <2>1. "publish" \in StartStages \ {"run", "running"} /\ FALSE \in BOOLEAN
    BY DEF StartStages
  <2>2. StartMove(c, "publish", starts[c].key)
    BY <1>3, <2>1, GoToCreatedIs DEF SampleInv
  <2>3. starts[c].key \in SampleKeys /\ rows[starts[c].key] # NoRow /\ mode = "hosted"
    BY <1>3 DEF SampleInv, SampleTypeOK, StageInv, RowOf
  <2> QED
    BY <1>3, <2>1, <2>2, <2>3, AloneGoesOn
<1>4. \/ Refuse(c, "IDEMPOTENCY_CONFLICT")
      \/ Tell(c, RowOf(c), "reused")
      \/ /\ mode # "offline" /\ told' = told
         /\ starts' = [starts EXCEPT ![c].stage = "publish", ![c].created = FALSE]
  BY Zenon DEF Found
<1> QED
  BY <1>1, <1>2, <1>3, <1>4

----------------------------------------------------------------------------
(* Hosted steps that change a row or a lease.                              *)

\* Rows change only as a job goes on.
RowsGoOn ==
    /\ rows' \in [SampleKeys -> Row \cup {NoRow}]
    /\ \A k \in SampleKeys :
          \/ rows'[k] = rows[k]
          \/ /\ rows[k] # NoRow /\ Keeps(rows'[k], rows[k])
             /\ IsTerminal(rows[k]) => rows'[k].job = rows[k].job
             /\ rows'[k].job = "SUCCEEDED" => rows[k].case \in bundles'

LEMMA RowsSame == SampleTypeOK /\ rows' = rows => RowsGoOn
  BY DEF SampleTypeOK, RowsGoOn

LEMMA OneGoesOn ==
    ASSUME SampleTypeOK, NEW key, NEW new, rows' = [rows EXCEPT ![key] = new],
           key \in SampleKeys =>
              /\ rows[key] # NoRow /\ Keeps(new, rows[key])
              /\ IsTerminal(rows[key]) => new.job = rows[key].job
              /\ new.job = "SUCCEEDED" => rows[key].case \in bundles'
    PROVE  RowsGoOn
<1>1. rows \in [SampleKeys -> Row \cup {NoRow}]
  BY DEF SampleTypeOK
<1>2. \A k \in SampleKeys : rows'[k] = IF k = key THEN new ELSE rows[k]
  BY <1>1
<1>3. key \in SampleKeys => new \in Row
  BY DEF Keeps
<1>4. rows' \in [SampleKeys -> Row \cup {NoRow}]
  BY <1>1, <1>3
<1>5. ASSUME NEW k \in SampleKeys
      PROVE  \/ rows'[k] = rows[k]
             \/ /\ rows[k] # NoRow /\ Keeps(rows'[k], rows[k])
                /\ IsTerminal(rows[k]) => rows'[k].job = rows[k].job
                /\ rows'[k].job = "SUCCEEDED" => rows[k].case \in bundles'
  <2>1. CASE k # key
    BY <1>2, <2>1
  <2>2. CASE k = key
    <3>1. rows'[k] = new
      BY <1>2, <2>2
    <3> QED
      BY <2>2, <3>1, Zenon
  <2> QED
    BY <2>1, <2>2
<1> QED
  BY <1>4, <1>5, Zenon DEF RowsGoOn

LEMMA HostedStep ==
    ASSUME SampleInv, mode = "hosted", mode' = mode, bundles \subseteq bundles',
           issued' = issued, told' = told, RowsGoOn,
           consumers' \in [Consumers -> Lease], LeaseInv',
           starts' \in [Clients -> Start], NEW M \in SUBSET Clients,
           \A d \in Clients \ M : starts'[d] = starts[d],
           \A c \in M : StageInv(c)' /\ ~Executes(c)'
    PROVE  SampleInv' /\ Agree
<1>1. ASSUME NEW k \in SampleKeys PROVE RowStep(k)
  <2>1. CASE rows'[k] = rows[k]
    BY <2>1, RowStays
  <2>2. CASE /\ rows[k] # NoRow /\ Keeps(rows'[k], rows[k])
             /\ IsTerminal(rows[k]) => rows'[k].job = rows[k].job
             /\ rows'[k].job = "SUCCEEDED" => rows[k].case \in bundles'
    BY <2>2, RowGoesOn
  <2> QED
    BY <2>1, <2>2 DEF RowsGoOn
<1>2. \A k \in SampleKeys : ToldStep(k)
  BY DEF ToldStep
<1>3. \A d \in Clients : ~Executes(d)
  BY DEF SampleInv, StageInv, Executes
<1>4. \A d \in Clients \ M :
          /\ starts'[d] = starts[d]
          /\ Executes(d) => rows'[starts[d].key].job = rows[starts[d].key].job
  BY <1>3
<1>5. \A c \in M : /\ StageInv(c)'
                   /\ Executes(c)' => \A d \in Clients :
                         Executes(d)' /\ starts'[d].key = starts'[c].key => d = c
  OBVIOUS
<1>6. /\ issued' \in Nat /\ rows' \in [SampleKeys -> Row \cup {NoRow}]
      /\ told' \in [SampleKeys -> Shown \cup {NoRow}]
  BY DEF SampleInv, SampleTypeOK, RowsGoOn
<1> QED
  BY <1>1, <1>2, <1>4, <1>5, <1>6, StepKeeps

\* The platform's own steps.
LEMMA PlatformStep ==
    ASSUME SampleInv, mode = "hosted", mode' = mode, bundles \subseteq bundles',
           issued' = issued, told' = told, starts' = starts, RowsGoOn,
           consumers' \in [Consumers -> Lease],
           \A w \in Consumers : consumers'[w].pc # "idle" => consumers[w].pc # "idle" \/ w = Platform
    PROVE  SampleInv' /\ Agree
<1>1. LeaseInv'
  BY DEF SampleInv, LeaseInv
<1>2. starts' \in [Clients -> Start]
  BY DEF SampleInv, SampleTypeOK
<1>3. /\ {} \in SUBSET Clients /\ \A d \in Clients \ {} : starts'[d] = starts[d]
      /\ \A c \in {} : StageInv(c)' /\ ~Executes(c)'
  OBVIOUS
<1> QED
  BY <1>1, <1>2, <1>3, HostedStep, Zenon

\* A consumer returns.
LEMMA ReturnStep ==
    ASSUME SampleInv, mode' = mode, bundles \subseteq bundles', issued' = issued, RowsGoOn,
           NEW w \in Consumers, consumers[w].pc # "idle", NEW outcome, Return(w, outcome)
    PROVE  SampleInv' /\ Agree
<1>1. mode = "hosted" /\ (w # Platform => w \in Clients /\ starts[w].stage = "consuming")
  BY DEF SampleInv, LeaseInv, Consumers
<1>2. consumers' = [consumers EXCEPT ![w] = NoLease]
  BY Zenon DEF Return
<1>3. NoLease \in Lease /\ NoLease.pc = "idle"
  BY DEF NoLease, Lease, SomeKey
<1>4. /\ consumers' \in [Consumers -> Lease] /\ consumers'[w].pc = "idle"
      /\ \A v \in Consumers \ {w} : consumers'[v] = consumers[v]
  BY <1>2, <1>3 DEF SampleInv, SampleTypeOK
<1>5. CASE w = Platform
  <2>1. starts' = starts /\ told' = told
    BY <1>5, Zenon DEF Return
  <2> QED
    BY <1>1, <1>4, <2>1, PlatformStep
<1>6. CASE w # Platform
  <2>1. \/ GoTo(w, "read") /\ told' = told
        \/ Refuse(w, "INTERNAL_ERROR")
    BY <1>6, Zenon DEF Return
  <2>2. PICK stage0, key :
            /\ stage0 \in {"read", "told"} /\ StartMove(w, stage0, key) /\ told' = told
            /\ stage0 = "read" => key = starts[w].key
    <3>1. "read" \in StartStages /\ "INTERNAL_ERROR" \in StartAnswers
      BY DEF StartStages, StartAnswers
    <3>2. CASE GoTo(w, "read") /\ told' = told
      <4>1. StartMove(w, "read", starts[w].key)
        BY <1>1, <1>6, <3>1, <3>2, GoToIs DEF SampleInv
      <4> QED
        BY <3>2, <4>1
    <3>3. CASE Refuse(w, "INTERNAL_ERROR")
      <4>1. StartMove(w, "told", NoKey) /\ told' = told
        BY <1>1, <1>6, <3>1, <3>3, RefuseIs DEF SampleInv
      <4> QED
        BY <4>1
    <3> QED
      BY <2>1, <3>2, <3>3
  <2>3. starts[w].key \in SampleKeys /\ rows[starts[w].key] # NoRow
    BY <1>1, <1>6 DEF SampleInv, StageInv
  <2>4. rows'[starts[w].key] # NoRow
    BY <2>3, RowIsNoNoRow DEF RowsGoOn, Keeps
  <2>5. StageInv(w)' /\ ~Executes(w)'
    BY <1>1, <2>2, <2>3, <2>4 DEF StageInv, Executes, StartMove
  <2>6. LeaseInv'
    <3> SUFFICES ASSUME NEW v \in Consumers, consumers'[v].pc # "idle"
                 PROVE  mode' = "hosted" /\ (v # Platform => starts'[v].stage = "consuming")
      BY Zenon DEF LeaseInv
    <3>1. v # w /\ consumers[v].pc # "idle"
      BY <1>4
    <3>2. v # Platform => v \in Clients \ {w} /\ starts[v].stage = "consuming"
      BY <3>1 DEF SampleInv, LeaseInv, Consumers
    <3> QED
      BY <1>1, <2>2, <3>2 DEF StartMove
  <2>7. starts' \in [Clients -> Start] /\ \A d \in Clients \ {w} : starts'[d] = starts[d]
    BY <2>2 DEF StartMove
  <2>8. {w} \in SUBSET Clients
    BY <1>1, <1>6
  <2> QED
    BY <1>1, <1>4, <2>2, <2>5, <2>6, <2>7, <2>8, HostedStep
<1> QED
  BY <1>5, <1>6

----------------------------------------------------------------------------
(* The start and the readers.                                              *)

LEMMA StartSampleStep ==
    ASSUME SampleInv, NEW c \in Clients, NEW k \in SampleKeys, NEW b \in Budgets,
           StartSample(c, k, b)
    PROVE  SampleInv' /\ Agree
<1>1. /\ starts' = [starts EXCEPT ![c] = Asked("start", k, b)] /\ starts[c].stage = "idle"
      /\ told' = told /\ RowsAlone /\ starts \in [Clients -> Start]
  BY StoreAlone DEF StartSample, SampleInv, SampleTypeOK, Asked
<1>2. "start" \in StartStages /\ k \in SomeKey /\ b \in SomeBudget
  BY DEF StartStages, SomeKey, SomeBudget
<1>3. StartMove(c, "start", k)
  BY <1>1, <1>2, AskedIs DEF StartMove
<1> QED
  BY <1>1, <1>2, <1>3, AloneGoesOn

LEMMA ReadSampleStep ==
    ASSUME SampleInv, NEW c \in Clients, NEW k \in SampleKeys, NEW what \in {"get", "export"},
           ReadSample(c, k, what)
    PROVE  SampleInv' /\ Agree
<1>1. /\ starts' = [starts EXCEPT ![c] = Asked(what, k, NoKey)] /\ starts[c].stage = "idle"
      /\ told' = told /\ RowsAlone /\ starts \in [Clients -> Start]
  <2>1. [NoStart EXCEPT !.stage = what, !.key = k] = Asked(what, k, NoKey)
    <3>1. [NoStart EXCEPT !.stage = what, !.key = k]
              = [f \in DOMAIN NoStart |->
                    IF f = "stage" THEN what ELSE IF f = "key" THEN k ELSE NoStart[f]]
      BY DEF NoStart
    <3>2. Asked(what, k, NoKey)
              = [f \in DOMAIN NoStart |->
                    IF f = "stage" THEN what ELSE IF f = "key" THEN k
                    ELSE IF f = "budget" THEN NoKey ELSE NoStart[f]]
      BY DEF NoStart, Asked
    <3>3. NoStart["budget"] = NoKey
      BY DEF NoStart
    <3> QED
      BY <3>1, <3>2, <3>3
  <2> QED
    BY <2>1, StoreAlone DEF ReadSample, SampleInv, SampleTypeOK
<1>2. what \in StartStages \ {"run", "running"} /\ k \in SomeKey /\ NoKey \in SomeBudget
  BY DEF StartStages, SomeKey, SomeBudget
<1>3. StartMove(c, what, k)
  BY <1>1, <1>2, AskedIs DEF StartMove
<1>4. what \notin {"publish", "consume", "consuming", "read"}
  OBVIOUS
<1> QED
  BY <1>1, <1>2, <1>3, <1>4, AloneGoesOn

\* Steps that answer or go on without a change of the store.
LEMMA AskingSteps ==
    ASSUME SampleInv, NEW c \in Clients,
           \/ OperationsDown(c) \/ FindByIdempotencyKey(c) \/ ReservationFails(c)
           \/ PublishSampleFails(c) \/ PublishOthers(c) \/ ReadAgain(c) \/ GetSample(c)
           \/ ExportSample(c) \/ Leave(c)
    PROVE  SampleInv' /\ Agree
<1> USE DEF StartAnswers, StartStages
<1>1. StoreUnchanged => RowsAlone
  BY StoreAlone
<1>2. CASE OperationsDown(c)
  <2>1. RowsAlone /\ Refuse(c, "INTERNAL_ERROR") /\ starts[c].stage # "consuming"
    BY <1>1, <1>2 DEF OperationsDown
  <2> QED
    BY <2>1, AloneRefused
<1>3. CASE FindByIdempotencyKey(c)
  <2>1. RowsAlone /\ starts[c].stage = "start"
    BY <1>1, <1>3 DEF FindByIdempotencyKey
  <2>2. CASE RowOf(c) # NoRow
    <3>1. Found(c, RowOf(c))
      BY <1>3, <2>2 DEF FindByIdempotencyKey
    <3> QED
      BY <2>1, <2>2, <3>1, AloneFound
  <2>3. CASE RowOf(c) = NoRow
    <3>1. GoTo(c, "reserve") /\ told' = told
      BY <1>3, <2>3 DEF FindByIdempotencyKey
    <3>2. StartMove(c, "reserve", starts[c].key)
      BY <3>1, GoToIs DEF SampleInv
    <3>3. starts[c].key \in SampleKeys
      BY <2>1 DEF SampleInv, StageInv
    <3> QED
      BY <2>1, <3>1, <3>2, <3>3, AloneGoesOn
  <2> QED
    BY <2>2, <2>3
<1>4. CASE ReservationFails(c)
  <2>1. RowsAlone /\ Refuse(c, "INTERNAL_ERROR") /\ starts[c].stage # "consuming"
    BY <1>1, <1>4 DEF ReservationFails
  <2> QED
    BY <2>1, AloneRefused
<1>5. CASE PublishSampleFails(c)
  <2>1. RowsAlone /\ Refuse(c, "INTERNAL_ERROR") /\ starts[c].stage # "consuming"
    BY <1>1, <1>5 DEF PublishSampleFails
  <2> QED
    BY <2>1, AloneRefused
<1>6. CASE PublishOthers(c)
  <2>1. RowsAlone /\ GoTo(c, "consume") /\ told' = told /\ starts[c].stage = "publish"
    BY <1>1, <1>6 DEF PublishOthers
  <2>2. StartMove(c, "consume", starts[c].key)
    BY <2>1, GoToIs DEF SampleInv
  <2>3. starts[c].key \in SampleKeys /\ mode = "hosted" /\ rows[starts[c].key] # NoRow
    BY <2>1 DEF SampleInv, StageInv
  <2> QED
    BY <2>1, <2>2, <2>3, AloneGoesOn
<1>7. CASE ReadAgain(c)
  <2>1. /\ RowsAlone /\ starts[c].stage = "read"
        /\ Tell(c, RowOf(c), "created") \/ Tell(c, RowOf(c), "reused")
    BY <1>1, <1>7 DEF ReadAgain
  <2>2. RowOf(c) # NoRow
    BY <2>1 DEF SampleInv, StageInv, RowOf
  <2> QED
    BY <2>1, <2>2, AloneTold
<1>8. CASE GetSample(c)
  <2>1. RowsAlone /\ starts[c].stage = "get"
    BY <1>1, <1>8 DEF GetSample
  <2>2. CASE RowOf(c) = NoRow
    <3>1. Refuse(c, "NOT_FOUND")
      BY <1>8, <2>2 DEF GetSample
    <3> QED
      BY <2>1, <3>1, AloneRefused
  <2>3. CASE RowOf(c) # NoRow
    <3>1. Tell(c, RowOf(c), "found")
      BY <1>8, <2>3 DEF GetSample
    <3> QED
      BY <2>1, <2>3, <3>1, AloneTold
  <2> QED
    BY <2>2, <2>3
<1>9. CASE ExportSample(c)
  <2>1. /\ RowsAlone /\ starts[c].stage = "export"
        /\ \/ Refuse(c, "NOT_FOUND") \/ Refuse(c, "BUNDLE_NOT_READY")
           \/ RowOf(c) # NoRow /\ Tell(c, RowOf(c), "exported")
    BY <1>1, <1>9, Zenon DEF ExportSample
  <2> QED
    BY <2>1, AloneRefused, AloneTold
<1>10. CASE Leave(c)
  <2>1. /\ RowsAlone /\ told' = told /\ starts[c].stage = "told"
        /\ starts' = [starts EXCEPT ![c] = NoStart] /\ starts \in [Clients -> Start]
    BY <1>1, <1>10 DEF Leave, SampleInv, SampleTypeOK
  <2>2. NoStart \in Start /\ NoStart.stage = "idle" /\ NoStart.key = NoKey
    BY DEF NoStart, Start, SomeKey, SomeBudget
  <2>3. StartMove(c, "idle", NoKey)
    BY <2>1, <2>2 DEF StartMove
  <2> QED
    BY <2>1, <2>3, AloneGoesOn
<1> QED
  BY <1>2, <1>3, <1>4, <1>5, <1>6, <1>7, <1>8, <1>9, <1>10

----------------------------------------------------------------------------
(* Hosted: consumers, and the platform.                                    *)

\* A row is claimed.
LEMMA ClaimGoesOn ==
    ASSUME SampleInv, bundles' = bundles, NEW w \in Consumers, NEW k \in SampleKeys,
           ClaimSample(w, k)
    PROVE  /\ RowsGoOn /\ consumers' \in [Consumers -> Lease]
           /\ \A v \in Consumers \ {w} : consumers'[v] = consumers[v]
<1> DEFINE new == [rows[k] EXCEPT !.job = "RUNNING", !.holder = w,
                                  !.attempt = rows[k].attempt + 1, !.ready = FALSE]
           lease == [pc |-> "executing", key |-> k, attempt |-> rows[k].attempt + 1]
<1>1. /\ rows[k] # NoRow /\ rows[k].job \in {"QUEUED", "RUNNING"}
      /\ rows' = [rows EXCEPT ![k] = new] /\ consumers' = [consumers EXCEPT ![w] = lease]
  BY DEF ClaimSample, Claimable, SampleInv, SampleTypeOK
<1>2. rows[k] \in Row
  BY <1>1 DEF SampleInv, SampleTypeOK
<1>3. Keeps(new, rows[k]) /\ new.job = "RUNNING"
  BY <1>2, ClaimIs
<1>4. lease \in Lease
  BY <1>2 DEF Row, Lease, SomeKey
<1> HIDE DEF new, lease
<1>5. RowsGoOn
  <2>1. SampleTypeOK /\ ~IsTerminal(rows[k]) /\ new.job # "SUCCEEDED"
    BY <1>1, <1>3 DEF SampleInv, IsTerminal
  <2> QED
    BY <1>1, <1>3, <2>1, OneGoesOn
<1> QED
  BY <1>1, <1>4, <1>5 DEF SampleInv, SampleTypeOK

LEMMA PlatformConsumesStep ==
    ASSUME SampleInv, NEW k \in SampleKeys, PlatformConsumes(k)
    PROVE  SampleInv' /\ Agree
<1>1. /\ rows[k] # NoRow /\ rows[k].event = "delivered" /\ ClaimSample(Platform, k)
      /\ mode' = mode /\ issued' = issued /\ bundles' = bundles /\ starts' = starts
      /\ told' = told
  BY DEF PlatformConsumes
<1>2. mode = "hosted"
  BY <1>1 DEF SampleInv, SampleTypeOK, QuietInv
<1>3. Platform \in Consumers
  BY DEF Consumers
<1>4. /\ RowsGoOn /\ consumers' \in [Consumers -> Lease]
      /\ \A v \in Consumers \ {Platform} : consumers'[v] = consumers[v]
  BY <1>1, <1>3, ClaimGoesOn
<1> QED
  BY <1>1, <1>2, <1>4, PlatformStep

LEMMA ConsumeOwnStep ==
    ASSUME SampleInv, NEW c \in Clients, ConsumeOwn(c)
    PROVE  SampleInv' /\ Agree
<1>1. /\ starts[c].stage = "consume" /\ told' = told /\ mode' = mode /\ issued' = issued
      /\ bundles' = bundles
  BY DEF ConsumeOwn
<1>2. starts[c].key \in SampleKeys /\ mode = "hosted" /\ rows[starts[c].key] # NoRow
  BY <1>1 DEF SampleInv, StageInv
<1>3. {"read", "consuming"} \subseteq StartStages
  BY DEF StartStages
<1>4. CASE Claimable(RowOf(c))
  <2>1. ClaimSample(c, starts[c].key) /\ GoTo(c, "consuming")
    BY <1>4 DEF ConsumeOwn
  <2>2. c \in Consumers
    BY DEF Consumers
  <2>3. /\ RowsGoOn /\ consumers' \in [Consumers -> Lease]
        /\ \A v \in Consumers \ {c} : consumers'[v] = consumers[v]
    BY <1>1, <1>2, <2>1, <2>2, ClaimGoesOn
  <2>4. StartMove(c, "consuming", starts[c].key)
    BY <1>3, <2>1, GoToIs DEF SampleInv
  <2>5. LeaseInv'
    <3> SUFFICES ASSUME NEW w \in Consumers, consumers'[w].pc # "idle", w # Platform, w # c
                 PROVE  starts'[w].stage = "consuming"
      BY <1>1, <1>2, <2>4 DEF LeaseInv, StartMove
    <3>1. w \in Clients \ {c} /\ consumers[w].pc # "idle"
      BY <2>3 DEF Consumers
    <3> QED
      BY <2>4, <3>1 DEF StartMove, SampleInv, LeaseInv
  <2>6. rows'[starts[c].key] # NoRow
    BY <1>2, <2>3, RowIsNoNoRow DEF RowsGoOn, Keeps
  <2>7. StageInv(c)' /\ ~Executes(c)'
    BY <1>1, <1>2, <2>4, <2>6 DEF StageInv, Executes, StartMove
  <2>8. /\ starts' \in [Clients -> Start] /\ \A d \in Clients \ {c} : starts'[d] = starts[d]
        /\ {c} \in SUBSET Clients
    BY <2>4 DEF StartMove
  <2> QED
    BY <1>1, <1>2, <2>3, <2>5, <2>7, <2>8, HostedStep
<1>5. CASE ~Claimable(RowOf(c))
  <2>1. /\ RowsAlone /\ GoTo(c, "read")
        /\ "read" \in StartStages \ {"run", "running"}
    BY <1>1, <1>3, <1>5 DEF ConsumeOwn, RowsAlone, SampleInv, SampleTypeOK
  <2>2. StartMove(c, "read", starts[c].key)
    BY <1>3, <2>1, GoToIs DEF SampleInv
  <2> QED
    BY <1>1, <1>2, <2>1, <2>2, AloneGoesOn
<1> QED
  BY <1>4, <1>5

\* The bundle is stored, or not, and the lease is kept.
LEMMA StoringSteps ==
    ASSUME SampleInv, NEW w \in Consumers, PutSampleBundle(w) \/ SampleThrows(w)
    PROVE  SampleInv' /\ Agree
<1>1. PICK pc \in {"completing", "failing"} : consumers' = [consumers EXCEPT ![w].pc = pc]
  BY DEF PutSampleBundle, SampleThrows
<1>2. /\ mode' = mode /\ issued' = issued /\ rows' = rows /\ starts' = starts /\ told' = told
      /\ bundles \subseteq bundles' /\ consumers[w].pc # "idle"
  BY DEF PutSampleBundle, SampleThrows
<1>3. mode = "hosted" /\ RowsGoOn
  BY <1>2, RowsSame DEF SampleInv, LeaseInv
<1>4. consumers \in [Consumers -> Lease]
  BY DEF SampleInv, SampleTypeOK
<1>5. [consumers[w] EXCEPT !.pc = pc] \in Lease
  BY <1>4 DEF Lease
<1>6. consumers' \in [Consumers -> Lease] /\ \A v \in Consumers \ {w} : consumers'[v] = consumers[v]
  BY <1>1, <1>4, <1>5
<1> QED
  BY <1>2, <1>3, <1>6, PlatformStep

LEMMA ReturningSteps ==
    ASSUME SampleInv, NEW w \in Consumers,
           CompleteSample(w) \/ FailSample(w) \/ LoseConsumer(w)
    PROVE  SampleInv' /\ Agree
<1> DEFINE key == consumers[w].key
<1>1. /\ mode' = mode /\ issued' = issued /\ bundles' = bundles /\ consumers[w].pc # "idle"
      /\ Return(w, "completed") \/ Return(w, "thrown")
  BY DEF CompleteSample, FailSample, LoseConsumer
<1>2. rows \in [SampleKeys -> Row \cup {NoRow}] /\ SampleTypeOK
  BY DEF SampleInv, SampleTypeOK
<1>3. CASE rows' = rows
  BY <1>1, <1>2, <1>3, RowsSame, ReturnStep
<1>4. ASSUME key \in SampleKeys, rows[key].job = "RUNNING"
      PROVE  rows[key] \in Row /\ rows[key] # NoRow /\ ~IsTerminal(rows[key])
  BY <1>2, <1>4, RowIsNoNoRow DEF Jobs, IsTerminal
<1>5. CASE /\ rows[key].job = "RUNNING" /\ rows[key].case \in bundles
           /\ rows' = [rows EXCEPT ![key].job = "SUCCEEDED"]
  <2> DEFINE new == [rows[key] EXCEPT !.job = "SUCCEEDED"]
  <2>1. rows' = [rows EXCEPT ![key] = new] /\ "SUCCEEDED" \in Jobs
    BY <1>2, <1>5 DEF Jobs
  <2>2. key \in SampleKeys => Keeps(new, rows[key])
    BY <1>4, <1>5, <2>1, SetJobIs
  <2> HIDE DEF new
  <2>3. RowsGoOn
    BY <1>1, <1>2, <1>4, <1>5, <2>1, <2>2, OneGoesOn
  <2> QED
    BY <1>1, <2>3, ReturnStep
<1>6. CASE rows[key].job = "RUNNING" /\ rows' = [rows EXCEPT ![key] = Retried(@)]
  <2> DEFINE new == Retried(rows[key])
  <2>1. rows' = [rows EXCEPT ![key] = new]
    BY <1>6
  <2>2. key \in SampleKeys => Keeps(new, rows[key]) /\ new.job # "SUCCEEDED"
    BY <1>4, <1>6, RetriedIs
  <2> HIDE DEF new
  <2>3. RowsGoOn
    BY <1>1, <1>2, <1>4, <1>6, <2>1, <2>2, OneGoesOn
  <2> QED
    BY <1>1, <2>3, ReturnStep
<1> QED
  <2>1. HoldsLease(w) => rows[key].job = "RUNNING"
    BY Zenon DEF HoldsLease
  <2> HIDE DEF key
  <2> QED
    BY <1>3, <1>5, <1>6, <2>1 DEF CompleteSample, FailSample, LoseConsumer, SetJob, key

\* A row is published, is due again, or its lapsed lease is recovered.
LEMMA PlatformSteps ==
    ASSUME SampleInv, NEW k \in SampleKeys,
           TimePasses(k) \/ PlatformPublishes(k) \/ RecoverSample(k)
    PROVE  SampleInv' /\ Agree
<1>1. /\ mode = "hosted" /\ rows[k] # NoRow /\ mode' = mode /\ issued' = issued
      /\ bundles' = bundles /\ consumers' = consumers /\ starts' = starts /\ told' = told
  BY DEF TimePasses, PlatformPublishes, RecoverSample
<1>2. rows[k] \in Row /\ SampleTypeOK
  BY <1>1 DEF SampleInv, SampleTypeOK
<1>3. PICK new : /\ rows' = [rows EXCEPT ![k] = new] /\ Keeps(new, rows[k])
                 /\ new.job = rows[k].job \/ (~IsTerminal(rows[k]) /\ new.job # "SUCCEEDED")
  <2>1. CASE TimePasses(k)
    <3>1. rows' = [rows EXCEPT ![k] = [rows[k] EXCEPT !.ready = TRUE]]
      BY <2>1 DEF TimePasses
    <3> QED
      BY <1>2, <3>1, SetReadyIs
  <2>2. CASE PlatformPublishes(k)
    <3>1. rows' = [rows EXCEPT ![k] = [rows[k] EXCEPT !.event = "delivered"]]
      BY <2>2 DEF PlatformPublishes
    <3> QED
      BY <1>2, <3>1, SetEventIs
  <2>3. CASE RecoverSample(k)
    <3> DEFINE mid == Retried(rows[k])
    <3>1. ~IsTerminal(rows[k])
      BY <2>3 DEF RecoverSample, IsTerminal
    <3>2. Keeps(mid, rows[k]) /\ mid.job # "SUCCEEDED" /\ mid \in Row
      BY <1>2, RetriedIs DEF Keeps
    <3>3. \/ rows' = [rows EXCEPT ![k] = mid]
          \/ rows' = [rows EXCEPT ![k] = [mid EXCEPT !.ready = TRUE]]
      BY <2>3 DEF RecoverSample
    <3> HIDE DEF mid
    <3>4. ASSUME NEW new, new = [mid EXCEPT !.ready = TRUE]
          PROVE  Keeps(new, rows[k]) /\ new.job # "SUCCEEDED"
      BY <3>2, <3>4, SetReadyIs DEF Keeps
    <3> QED
      BY <3>1, <3>2, <3>3, <3>4
  <2> QED
    BY <2>1, <2>2, <2>3
<1>4. RowsGoOn
  <2>1. new.job = "SUCCEEDED" => rows[k].case \in bundles'
    BY <1>1, <1>3 DEF SampleInv, ResultInv
  <2>2. IsTerminal(rows[k]) => new.job = rows[k].job
    BY <1>3
  <2> QED
    BY <1>1, <1>2, <1>3, <2>1, <2>2, OneGoesOn
<1>5. /\ consumers' \in [Consumers -> Lease] /\ bundles \subseteq bundles'
      /\ \A w \in Consumers : consumers'[w].pc # "idle" => consumers[w].pc # "idle" \/ w = Platform
  BY <1>1 DEF SampleInv, SampleTypeOK
<1> QED
  BY <1>1, <1>4, <1>5, PlatformStep

LEMMA PublishSampleStep ==
    ASSUME SampleInv, NEW c \in Clients, PublishSample(c)
    PROVE  SampleInv' /\ Agree
<1> DEFINE key == starts[c].key
           new == [rows[key] EXCEPT !.event = "delivered"]
<1>1. /\ starts[c].stage = "publish" /\ GoTo(c, "consume")
      /\ mode' = mode /\ issued' = issued /\ bundles' = bundles /\ consumers' = consumers
      /\ told' = told /\ rows' = [rows EXCEPT ![key] = new]
  BY DEF PublishSample
<1>2. key \in SampleKeys /\ mode = "hosted" /\ rows[key] # NoRow
  BY <1>1 DEF SampleInv, StageInv
<1>3. rows[key] \in Row /\ SampleTypeOK
  BY <1>2 DEF SampleInv, SampleTypeOK
<1>4. Keeps(new, rows[key]) /\ new.job = rows[key].job
  BY <1>3, SetEventIs
<1>5. new.job = "SUCCEEDED" => rows[key].case \in bundles'
  BY <1>1, <1>2, <1>4 DEF SampleInv, ResultInv
<1>6. StartMove(c, "consume", key)
  <2>1. "consume" \in StartStages
    BY DEF StartStages
  <2> QED
    BY <1>1, <1>3, <2>1, GoToIs
<1> HIDE DEF key, new
<1>7. RowsGoOn
  BY <1>1, <1>2, <1>3, <1>4, <1>5, OneGoesOn
<1>8. rows'[key] # NoRow
  BY <1>2, <1>7, RowIsNoNoRow DEF RowsGoOn, Keeps
<1>9. StageInv(c)' /\ ~Executes(c)'
  BY <1>1, <1>2, <1>6, <1>8 DEF StageInv, Executes, StartMove
<1>10. LeaseInv'
  <2> SUFFICES ASSUME NEW w \in Consumers, consumers'[w].pc # "idle", w # Platform
               PROVE  starts'[w].stage = "consuming"
    BY <1>1, <1>2 DEF LeaseInv
  <2>1. w \in Clients /\ starts[w].stage = "consuming"
    BY <1>1 DEF SampleInv, LeaseInv, Consumers
  <2>2. w # c
    BY <1>1, <2>1
  <2> QED
    BY <1>6, <2>1, <2>2 DEF StartMove
<1>11. /\ starts' \in [Clients -> Start] /\ \A d \in Clients \ {c} : starts'[d] = starts[d]
       /\ {c} \in SUBSET Clients /\ bundles \subseteq bundles'
       /\ consumers' \in [Consumers -> Lease]
  BY <1>1, <1>6 DEF StartMove, SampleInv, SampleTypeOK
<1> QED
  BY <1>1, <1>2, <1>7, <1>9, <1>10, <1>11, HostedStep

LEMMA ResolveStep == SampleInv /\ ResolveOperations => SampleInv' /\ Agree
<1> SUFFICES ASSUME SampleInv, ResolveOperations PROVE SampleInv' /\ Agree
  OBVIOUS
<1>1. UNCHANGED <<mode, rows, issued, bundles, consumers, starts, told>>
  BY DEF ResolveOperations
<1> QED
  BY <1>1, StutterStep

----------------------------------------------------------------------------
(* The reservation, and the sample that runs offline.                      *)

\* A start gives its key another row, which nobody executes but itself.
LEMMA OwnRowStep ==
    ASSUME SampleInv, NEW c \in Clients, starts[c].key \in SampleKeys,
           starts[c].stage \in {"reserve", "run", "running"},
           mode' = mode, bundles \subseteq bundles', issued' \in Nat, consumers' = consumers,
           NEW new \in Row, rows' = [rows EXCEPT ![starts[c].key] = new],
           \A d \in Clients \ {c} : Executes(d) => starts[d].key # starts[c].key,
           RowOf(c) # NoRow => Keeps(new, RowOf(c)) /\ ~IsTerminal(RowOf(c)),
           new.job = "SUCCEEDED" => new.case \in bundles',
           mode = "offline" => new.event = "pending",
           NEW stage0 \in StartStages \ {"idle"}, NEW key, StartMove(c, stage0, key), StageInv(c)',
           Executes(c)' => key = starts[c].key,
           told' = told \/ told' = [told EXCEPT ![starts[c].key] = Snapshot(new)]
    PROVE  SampleInv' /\ Agree
<1>1. /\ rows \in [SampleKeys -> Row \cup {NoRow}] /\ told \in [SampleKeys -> Shown \cup {NoRow}]
      /\ consumers' \in [Consumers -> Lease]
  BY DEF SampleInv, SampleTypeOK
<1>2. /\ rows' \in [SampleKeys -> Row \cup {NoRow}] /\ rows'[starts[c].key] = new
      /\ \A k \in SampleKeys \ {starts[c].key} : rows'[k] = rows[k]
  BY <1>1
<1>3. ASSUME NEW k \in SampleKeys PROVE RowStep(k)
  <2>1. CASE k # starts[c].key
    BY <1>2, <2>1, RowStays
  <2>2. CASE k = starts[c].key
    <3>1. new # NoRow
      BY RowIsNoNoRow
    <3> QED
      BY <1>2, <2>2, <3>1, Zenon DEF RowStep, RowOf, Keeps
  <2> QED
    BY <2>1, <2>2
<1>4. Snapshot(new) \in Shown /\ new # NoRow
  BY SnapshotIs, RowIsNoNoRow
<1>5. told' \in [SampleKeys -> Shown \cup {NoRow}]
  BY <1>1, <1>4
<1>6. ASSUME NEW k \in SampleKeys PROVE ToldStep(k)
  BY <1>1, <1>2, <1>4 DEF ToldStep
<1>7. LeaseInv'
  <2> SUFFICES ASSUME NEW w \in Consumers, consumers'[w].pc # "idle"
               PROVE  mode' = "hosted" /\ (w # Platform => starts'[w].stage = "consuming")
    BY Zenon DEF LeaseInv
  <2>1. mode = "hosted" /\ (w # Platform => w \in Clients /\ starts[w].stage = "consuming")
    BY DEF SampleInv, LeaseInv, Consumers
  <2> QED
    BY <2>1 DEF StartMove
<1>8. \A d \in Clients \ {c} :
          /\ starts'[d] = starts[d]
          /\ Executes(d) => rows'[starts[d].key].job = rows[starts[d].key].job
  <2> SUFFICES ASSUME NEW d \in Clients \ {c}
               PROVE  /\ starts'[d] = starts[d]
                      /\ Executes(d) => rows'[starts[d].key].job = rows[starts[d].key].job
    OBVIOUS
  <2>1. Executes(d) => starts[d].key \in SampleKeys \ {starts[c].key}
    BY DEF SampleInv, StageInv, Executes
  <2> QED
    BY <1>2, <2>1 DEF StartMove
<1>9. \A d \in {c} :
          /\ StageInv(d)'
          /\ Executes(d)' => \A e \in Clients :
                Executes(e)' /\ starts'[e].key = starts'[d].key => e = d
  <2> SUFFICES ASSUME Executes(c)', NEW e \in Clients, Executes(e)', e # c
               PROVE  starts'[e].key # starts'[c].key
    OBVIOUS
  <2>1. starts'[e] = starts[e]
    BY DEF StartMove
  <2>2. Executes(e)
    BY <2>1 DEF Executes
  <2> QED
    BY <2>1, <2>2 DEF StartMove
<1>10. starts' \in [Clients -> Start] /\ {c} \in SUBSET Clients
  BY DEF StartMove
<1> QED
  BY <1>2, <1>3, <1>5, <1>6, <1>7, <1>8, <1>9, <1>10, <1>1, StepKeeps, Zenon

LEMMA ReserveSampleStep ==
    ASSUME SampleInv, NEW c \in Clients, ReserveSample(c)
    PROVE  SampleInv' /\ Agree
<1>1. /\ starts[c].stage = "reserve" /\ issued' = issued + 1 /\ issued \in Nat
      /\ mode' = mode /\ bundles' = bundles /\ consumers' = consumers
      /\ starts[c].key \in SampleKeys /\ starts[c].budget \in SomeBudget
  BY DEF ReserveSample, SampleInv, SampleTypeOK, StageInv, Start
<1>2. CASE RowOf(c) # NoRow
  <2>1. RowsAlone /\ Found(c, RowOf(c))
    BY <1>1, <1>2 DEF ReserveSample, RowsAlone
  <2> QED
    BY <1>1, <1>2, <2>1, AloneFound
<1>3. CASE RowOf(c) = NoRow
  <2> DEFINE new == NewRow(issued + 1, starts[c].budget)
             stage0 == IF mode = "offline" THEN "run" ELSE "publish"
  <2>1. /\ rows' = [rows EXCEPT ![starts[c].key] = new] /\ told' = told
        /\ starts' = [starts EXCEPT ![c].stage = stage0, ![c].created = TRUE]
    BY <1>3 DEF ReserveSample
  <2>2. new \in Row /\ new.job = "QUEUED" /\ new.event = "pending" /\ new # NoRow
    BY <1>1, NewRowIs, RowIsNoNoRow
  <2>3. stage0 \in StartStages \ {"idle"} /\ TRUE \in BOOLEAN
    BY DEF StartStages
  <2>4. StartMove(c, stage0, starts[c].key)
    BY <2>1, <2>3, GoToCreatedIs DEF SampleInv
  <2>5. (stage0 = "run" /\ mode = "offline") \/ (stage0 = "publish" /\ mode = "hosted")
    BY DEF SampleInv, SampleTypeOK
  <2>6. rows'[starts[c].key] = new
    BY <1>1, <2>1 DEF SampleInv, SampleTypeOK
  <2> HIDE DEF new, stage0
  <2>7. StageInv(c)'
    BY <1>1, <2>2, <2>4, <2>5, <2>6 DEF StageInv, StartMove
  <2>8. \A d \in Clients \ {c} : Executes(d) => starts[d].key # starts[c].key
    BY <1>3 DEF SampleInv, StageInv, Executes, RowOf, NoRow
  <2>9. /\ starts[c].stage \in {"reserve", "run", "running"} /\ issued' \in Nat
        /\ bundles \subseteq bundles' /\ new.job # "SUCCEEDED"
    BY <1>1, <2>2
  <2> QED
    BY <1>1, <1>3, <2>1, <2>2, <2>3, <2>4, <2>7, <2>8, <2>9, OwnRowStep
<1> QED
  BY <1>2, <1>3

LEMMA SavingSteps ==
    ASSUME SampleInv, NEW c \in Clients, SaveRunning(c) \/ SaveSucceeded(c) \/ SaveFailed(c)
    PROVE  SampleInv' /\ Agree
<1> DEFINE key == starts[c].key
<1>1. /\ starts[c].stage \in {"run", "running"} /\ mode' = mode /\ issued' = issued
      /\ consumers' = consumers /\ bundles \subseteq bundles'
  BY DEF SaveRunning, SaveSucceeded, SaveFailed
<1>2. key \in SampleKeys /\ mode = "offline" /\ rows[key].job \in {"QUEUED", "RUNNING"}
  BY <1>1 DEF SampleInv, StageInv
<1>3. SampleTypeOK /\ rows \in [SampleKeys -> Row \cup {NoRow}] /\ issued' \in Nat
  BY <1>1 DEF SampleInv, SampleTypeOK
<1>4. rows[key] \in Row /\ rows[key] # NoRow /\ ~IsTerminal(rows[key])
  BY <1>2, <1>3, RowIsNoNoRow DEF Jobs, IsTerminal
<1>5. rows[key].event = "pending"
  BY <1>2, <1>4 DEF SampleInv, QuietInv
<1>6. \A d \in Clients \ {c} : Executes(d) => starts[d].key # key
  BY <1>1 DEF SampleInv, AloneInv, Executes
<1>7. ASSUME NEW job \in Jobs, SetJob(key, job), NEW stage0 \in {"running", "told"}, NEW key0,
             StartMove(c, stage0, key0), stage0 = "running" => key0 = key /\ job = "RUNNING",
             job = "SUCCEEDED" => rows[key].case \in bundles',
             told' = told \/ told' = [told EXCEPT ![key] = Snapshot(rows'[key])]
      PROVE  SampleInv' /\ Agree
  <2> DEFINE new == [rows[key] EXCEPT !.job = job]
  <2>1. rows' = [rows EXCEPT ![key] = new] /\ rows'[key] = new
    BY <1>2, <1>3, <1>7 DEF SetJob
  <2>2. Keeps(new, rows[key]) /\ new.job = job /\ new.event = rows[key].event
    BY <1>4, SetJobIs
  <2> HIDE DEF new
  <2>3. StageInv(c)'
    BY <1>1, <1>2, <1>7, <2>1, <2>2 DEF StageInv, StartMove
  <2>4. Executes(c)' => key0 = key
    BY <1>7 DEF Executes, StartMove
  <2>5. new \in Row /\ (new.job = "SUCCEEDED" => new.case \in bundles')
    BY <1>7, <2>2 DEF Keeps
  <2>6. stage0 \in StartStages \ {"idle"} /\ starts[c].stage \in {"reserve", "run", "running"}
    BY <1>1 DEF StartStages
  <2>7. told' = told \/ told' = [told EXCEPT ![key] = Snapshot(new)]
    BY <1>7, <2>1
  <2>8. RowOf(c) = rows[key] /\ new.event = "pending"
    BY <1>5, <2>2 DEF RowOf
  <2> QED
    BY <1>1, <1>2, <1>3, <1>4, <1>6, <1>7, <2>1, <2>2, <2>3, <2>4, <2>5, <2>6, <2>7, <2>8,
       OwnRowStep
<1>8. CASE SaveRunning(c)
  <2>1. "RUNNING" \in Jobs /\ "running" \in StartStages
    BY DEF Jobs, StartStages
  <2>2. SetJob(key, "RUNNING") /\ StartMove(c, "running", key) /\ told' = told
    BY <1>3, <1>8, <2>1, GoToIs DEF SaveRunning
  <2> QED
    BY <1>7, <2>1, <2>2
<1>9. CASE SaveSucceeded(c)
  <2>1. "SUCCEEDED" \in Jobs /\ "created" \in StartAnswers
    BY DEF Jobs, StartAnswers
  <2>2. SetJob(key, "SUCCEEDED") /\ Tell(c, rows'[key], "created") /\ rows[key].case \in bundles'
    BY <1>9 DEF SaveSucceeded, RowOf
  <2>3. StartMove(c, "told", NoKey) /\ told' = [told EXCEPT ![key] = Snapshot(rows'[key])]
    BY <1>3, <2>1, <2>2, TellIs
  <2> QED
    BY <1>7, <2>1, <2>2, <2>3
<1>10. CASE SaveFailed(c)
  <2>1. "FAILED" \in Jobs /\ "INTERNAL_ERROR" \in StartAnswers
    BY DEF Jobs, StartAnswers
  <2>2. SetJob(key, "FAILED") /\ StartMove(c, "told", NoKey) /\ told' = told
    BY <1>3, <1>10, <2>1, RefuseIs DEF SaveFailed
  <2> QED
    BY <1>7, <2>1, <2>2
<1> QED
  BY <1>8, <1>9, <1>10

----------------------------------------------------------------------------
(* The theorems of the trusted sample.                                     *)

LEMMA SampleInvInit == SampleInit => SampleInv
<1> SUFFICES ASSUME SampleInit PROVE SampleInv
  OBVIOUS
<1>1. NoStart \in Start /\ NoStart.stage = "idle" /\ NoLease \in Lease /\ NoLease.pc = "idle"
  <2>1. /\ "idle" \in StartStages /\ "none" \in StartAnswers /\ NoKey \in SomeKey
        /\ NoKey \in SomeBudget
    BY DEF StartStages, StartAnswers, SomeKey, SomeBudget
  <2> QED
    BY <2>1, StartIs DEF NoStart, NoLease, Lease
<1>2. /\ \A k \in SampleKeys : rows[k] = NoRow /\ told[k] = NoRow
      /\ \A c \in Clients : starts[c] = NoStart
      /\ \A w \in Consumers : consumers[w] = NoLease
  BY DEF SampleInit
<1>3. SampleTypeOK
  BY <1>1 DEF SampleInit, SampleTypeOK
<1>4. \A c \in Clients : StageInv(c)
  BY <1>1, <1>2 DEF StageInv
<1>5. AloneInv /\ LeaseInv /\ ResultInv /\ QuietInv /\ ToldInv
  BY <1>1, <1>2, RowIsNoNoRow DEF AloneInv, Executes, LeaseInv, ResultInv, QuietInv, ToldInv
<1> QED
  BY <1>3, <1>4, <1>5 DEF SampleInv

\* Every step of the starts, the consumers and the platform.
LEMMA SampleInvNext == SampleInv /\ [SampleNext]_sampleVars => SampleInv' /\ Agree
<1> SUFFICES ASSUME SampleInv, [SampleNext]_sampleVars PROVE SampleInv' /\ Agree
  OBVIOUS
<1>1. CASE ResolveOperations
  BY <1>1, ResolveStep
<1>2. ASSUME NEW c \in Clients, NEW k \in SampleKeys,
             \/ \E b \in Budgets : StartSample(c, k, b)
             \/ \E what \in {"get", "export"} : ReadSample(c, k, what)
      PROVE  SampleInv' /\ Agree
  BY <1>2, StartSampleStep, ReadSampleStep
<1>3. ASSUME NEW c \in Clients,
             \/ OperationsDown(c) \/ FindByIdempotencyKey(c) \/ ReserveSample(c)
             \/ ReservationFails(c)
             \/ SaveRunning(c) \/ SaveSucceeded(c) \/ SaveFailed(c)
             \/ PublishSample(c) \/ PublishSampleFails(c) \/ PublishOthers(c) \/ ConsumeOwn(c)
             \/ ReadAgain(c) \/ GetSample(c) \/ ExportSample(c) \/ Leave(c)
      PROVE  SampleInv' /\ Agree
  BY <1>3, AskingSteps, ReserveSampleStep, SavingSteps, PublishSampleStep, ConsumeOwnStep
<1>4. ASSUME NEW w \in Consumers,
             \/ PutSampleBundle(w) \/ SampleThrows(w) \/ CompleteSample(w) \/ FailSample(w)
             \/ LoseConsumer(w)
      PROVE  SampleInv' /\ Agree
  BY <1>4, StoringSteps, ReturningSteps
<1>5. ASSUME NEW k \in SampleKeys,
             PlatformConsumes(k) \/ TimePasses(k) \/ PlatformPublishes(k) \/ RecoverSample(k)
      PROVE  SampleInv' /\ Agree
  BY <1>5, PlatformConsumesStep, PlatformSteps
<1>6. CASE UNCHANGED sampleVars
  BY <1>6, StutterStep DEF sampleVars
<1> QED
  BY <1>1, <1>2, <1>3, <1>4, <1>5, <1>6 DEF SampleNext

\* Offline nobody but the start that reserved a row runs it, and hosted nobody but a start
\* that waits for it, or the platform, has a lease; what was told is still in the row, and
\* a result that is recorded has its bundle.
THEOREM StartsAreConsistent == SampleSpec => []SampleInv
<1>1. SampleInv /\ [SampleNext]_sampleVars => SampleInv'
  BY SampleInvNext
<1> QED
  BY <1>1, SampleInvInit, PTL DEF SampleSpec

\* Everybody who uses a key is told of one case and one end, and what is told as a result
\* is there: for any number of starts, keys, budgets and attempts.
THEOREM EverybodyIsToldTheSame == SampleSpec => AnswersAgree
<1>1. SampleInv /\ [SampleNext]_sampleVars => [Agree]_sampleVars
  BY SampleInvNext
<1>2. SampleSpec => [][Agree]_sampleVars
  BY <1>1, StartsAreConsistent, PTL DEF SampleSpec
<1>3. [Agree]_sampleVars
      => [\A k \in SampleKeys :
             told[k] # NoRow \/ told'[k] # NoRow =>
                 LET now == told'[k] IN
                 /\ told[k] # NoRow =>
                       /\ now.case = told[k].case /\ now.budget = told[k].budget
                       /\ IsTerminal(told[k]) => now.job = told[k].job
                 /\ now.job = "SUCCEEDED" => now.case \in bundles']_sampleVars
  BY DEF Agree
<1> QED
  BY <1>2, <1>3, PTL DEF AnswersAgree
=============================================================================
