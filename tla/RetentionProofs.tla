-------------------------- MODULE RetentionProofs ---------------------------
(***************************************************************************)
(* Theorems about TenantRetention, and with it about the artifact store it *)
(* is composed with, for any number of artifacts, processes, executors and *)
(* requests and for any bounds.                                            *)
(*                                                                         *)
(* A row's version grows with every change, so a call that read or wrote a *)
(* version still owns its row if the version is still there.  A step of    *)
(* the store is first cut down to what it does to the row and the object   *)
(* of one artifact; the executors' invariant needs no more than that.      *)
(***************************************************************************)
EXTENDS TenantRetention, TLAPS

Rows == [status: {"NONE", "PENDING", "AVAILABLE", "FAILED", "DELETING", "DELETED"}, version: Nat]

PutCall == [pc: {"idle", "conflict", "reclaiming", "uploading", "finalizing", "compensating",
                 "failing"},
            artifact: Artifacts \cup {NoArtifact}, version: Nat]
DeleteCall == [pc: {"idle", "removing", "finalizing", "reverting"},
               artifact: Artifacts \cup {NoArtifact}, version: Nat]
Claim == [state: {"NONE", "SCHEDULED", "RUNNING", "FAILED", "COMPLETED"}, version: Nat,
          owner: Executors \cup {NoExecutor}, lapsed: BOOLEAN]
Execution == [pc: {"idle", "removing", "failing"}, deletion: Deletions \cup {NoDeletion},
              version: Nat, snapshot: [Artifacts -> Rows], todo: SUBSET Artifacts]

\* The state of a put or a delete after a step that sets it.
WriterIs(w, pc, a, n) ==
    /\ writers' \in [Writers -> PutCall]
    /\ writers'[w].pc = pc /\ writers'[w].artifact = a /\ writers'[w].version = n
    /\ \A v \in Writers : v # w => writers'[v] = writers[v]

DeleterIs(d, pc, a, n) ==
    /\ deleters' \in [Deleters -> DeleteCall]
    /\ deleters'[d].pc = pc /\ deleters'[d].artifact = a /\ deleters'[d].version = n
    /\ \A e \in Deleters : e # d => deleters'[e] = deleters[e]

\* The types, with those of the executors' snapshots; a row that is not there has no
\* version.
StoreShaped ==
    /\ tenant \in {"ACTIVE", "SUSPENDED", "DELETING", "DELETED"}
    /\ rows \in [Artifacts -> Rows]
    /\ objects \subseteq Artifacts
    /\ writers \in [Writers -> PutCall]
    /\ deleters \in [Deleters -> DeleteCall]
    /\ calls \in 0..MaxCalls
    /\ faults \in 0..MaxFaults
    /\ \A a \in Artifacts : rows[a].status = "NONE" => rows[a].version = 0

Shaped ==
    /\ StoreShaped
    /\ deletions \in [Deletions -> Claim]
    /\ executors \in [Executors -> Execution]
    /\ running \in BOOLEAN
    /\ providerFaults \in 0..MaxProviderFaults

\* Row a takes a status and its next version; the others stay as they are.
RowIs(a, status) ==
    /\ rows' \in [Artifacts -> Rows]
    /\ rows'[a].status = status /\ rows'[a].version = rows[a].version + 1
    /\ \A b \in Artifacts : b # a => rows'[b] = rows[b]

\* What a step of a put does to its call, its row and its object.
PutClaims(w) ==
    /\ writers[w].pc \in {"idle", "conflict", "reclaiming"}
    /\ \E b \in Artifacts :
          /\ rows[b].status \in {"NONE", "FAILED"}
          /\ rows[b].status = "NONE" => tenant = "ACTIVE"
          /\ RowIs(b, "PENDING")
          /\ WriterIs(w, "uploading", b, rows[b].version + 1)
    /\ objects' = objects

PutWaits(w) ==
    /\ \E b \in Artifacts, m \in Nat, pc \in {"conflict", "reclaiming"} : WriterIs(w, pc, b, m)
    /\ rows' = rows /\ objects' = objects

PutLeaves(w) ==
    /\ WriterIs(w, "idle", NoArtifact, 0)
    /\ rows' = rows /\ objects' = objects

PutStores(w) ==
    /\ writers[w].pc = "uploading"
    /\ objects' \in {objects, objects \cup {writers[w].artifact}}
    /\ \/ WriterIs(w, "compensating", writers[w].artifact, writers[w].version)
       \/ /\ writers[w].artifact \in objects'
          /\ WriterIs(w, "finalizing", writers[w].artifact, writers[w].version)
    /\ rows' = rows

PutPublishes(w) ==
    /\ writers[w].pc = "finalizing"
    /\ Matches(writers[w].artifact, "PENDING", writers[w].version)
    /\ RowIs(writers[w].artifact, "AVAILABLE")
    /\ \/ WriterIs(w, "idle", NoArtifact, 0)
       \/ /\ WriterIs(w, "compensating", writers[w].artifact, writers[w].version)
          /\ faults' # 0
    /\ objects' = objects

PutIsRefused(w) ==
    /\ writers[w].pc = "finalizing"
    /\ WriterIs(w, "compensating", writers[w].artifact, writers[w].version)
    /\ rows' = rows /\ objects' = objects

PutRemoves(w) ==
    /\ writers[w].pc = "compensating"
    /\ objects' \in {objects, objects \ {writers[w].artifact}}
    /\ WriterIs(w, "failing", writers[w].artifact, writers[w].version)
    /\ rows' = rows

PutReleases(w) ==
    /\ writers[w].pc = "failing"
    /\ Matches(writers[w].artifact, "PENDING", writers[w].version)
    /\ RowIs(writers[w].artifact, "FAILED")
    /\ WriterIs(w, "idle", NoArtifact, 0)
    /\ objects' = objects

PutStep(w) ==
    \/ PutClaims(w) \/ PutWaits(w) \/ PutLeaves(w) \/ PutStores(w)
    \/ PutPublishes(w) \/ PutIsRefused(w) \/ PutRemoves(w) \/ PutReleases(w)

\* The same of a delete.
DeleteMarks(d) ==
    /\ \E b \in Artifacts :
          /\ rows[b].status = "AVAILABLE" /\ RowIs(b, "DELETING")
          /\ DeleterIs(d, "removing", b, rows[b].version + 1)
    /\ objects' = objects

DeleteLeaves(d) ==
    /\ DeleterIs(d, "idle", NoArtifact, 0)
    /\ rows' = rows /\ objects' = objects

DeleteRemoves(d) ==
    /\ deleters[d].pc = "removing"
    /\ objects' = objects \ {deleters[d].artifact}
    /\ \/ DeleterIs(d, "finalizing", deleters[d].artifact, deleters[d].version)
       \/ DeleterIs(d, "reverting", deleters[d].artifact, deleters[d].version) /\ faults' # 0
    /\ rows' = rows

DeleteIsRefused(d) ==
    /\ \/ deleters[d].pc = "removing"
       \/ /\ deleters[d].pc = "finalizing"
          /\ Matches(deleters[d].artifact, "DELETING", deleters[d].version) => faults' # 0
    /\ DeleterIs(d, "reverting", deleters[d].artifact, deleters[d].version)
    /\ rows' = rows /\ objects' = objects

DeleteEnds(d) ==
    /\ deleters[d].pc = "finalizing"
    /\ Matches(deleters[d].artifact, "DELETING", deleters[d].version)
    /\ RowIs(deleters[d].artifact, "DELETED")
    /\ \/ DeleterIs(d, "idle", NoArtifact, 0)
       \/ DeleterIs(d, "reverting", deleters[d].artifact, deleters[d].version) /\ faults' # 0
    /\ objects' = objects

DeleteReverts(d) ==
    /\ deleters[d].pc = "reverting"
    /\ Matches(deleters[d].artifact, "DELETING", deleters[d].version)
    /\ RowIs(deleters[d].artifact, "AVAILABLE")
    /\ DeleterIs(d, "idle", NoArtifact, 0)
    /\ objects' = objects

DeleteStep(d) ==
    \/ DeleteMarks(d) \/ DeleteLeaves(d) \/ DeleteRemoves(d)
    \/ DeleteIsRefused(d) \/ DeleteEnds(d) \/ DeleteReverts(d)

\* Who is in a call is in it for an artifact.
CallsNamed ==
    /\ \A w \in Writers : writers[w].pc # "idle" => writers[w].artifact \in Artifacts
    /\ \A d \in Deleters : deleters[d].pc # "idle" => deleters[d].artifact \in Artifacts

LEMMA PutSteps ==
    ASSUME StoreShaped, CallsNamed, PutNext
    PROVE  /\ UNCHANGED <<tenant, deleters>>
           /\ calls' \in 0..MaxCalls /\ faults' \in 0..MaxFaults /\ faults <= faults'
           /\ \E w \in Writers : PutStep(w)
<1>1. PICK w \in Writers :
          \/ \E a \in Artifacts : PutInsert(w, a)
          \/ PutFind(w) \/ PutReclaim(w)
          \/ PutUpload(w) \/ PutUploadFails(w)
          \/ PutFinalize(w) \/ PutFinalizeThrows(w)
          \/ PutCompensate(w) \/ PutGiveUp(w)
          \/ WriterCrash(w)
  BY DEF PutNext
<1>2. /\ UNCHANGED <<tenant, deleters>>
      /\ calls' \in 0..MaxCalls /\ faults' \in 0..MaxFaults /\ faults <= faults'
  <2>1. ASSUME NEW a \in Artifacts, PutInsert(w, a) 
        PROVE  /\ UNCHANGED <<tenant, deleters>>
               /\ calls' \in 0..MaxCalls /\ faults' \in 0..MaxFaults /\ faults <= faults'
    BY <2>1, StoreAssumption DEF PutInsert, NewCall, StoreShaped
  <2>2. CASE PutFinalizeThrows(w)
    BY <2>2, StoreAssumption DEF PutFinalizeThrows, Fault, StoreShaped
  <2>3. CASE PutFind(w) \/ PutReclaim(w) \/ PutUpload(w) \/ PutUploadFails(w) \/ WriterCrash(w)
    BY <2>3 DEF PutFind, PutReclaim, PutUpload, PutUploadFails, WriterCrash, StoreShaped
  <2>4. CASE PutFinalize(w) \/ PutCompensate(w) \/ PutGiveUp(w)
    BY <2>4 DEF PutFinalize, PutCompensate, PutGiveUp, StoreShaped
  <2> QED  BY <1>1, <2>1, <2>2, <2>3, <2>4
<1> SUFFICES PutStep(w)
  BY <1>2
<1> USE StoreAssumption
    DEF StoreShaped, CallsNamed, Rows, PutCall, RowIs, WriterIs, Moved, Matches, Writer,
        WriterGoto, IdleCall, PutStep
<1>3. ASSUME NEW b \in Artifacts, PutInsert(w, b) PROVE PutClaims(w) \/ PutWaits(w)
  <2>1. CASE rows[b].status = "NONE"
    <3>1. /\ rows' = [rows EXCEPT ![b] = [status |-> "PENDING", version |-> 1]]
          /\ Writer(w, [pc |-> "uploading", artifact |-> b, version |-> 1])
          /\ rows[b].version = 0
      BY <1>3, <2>1 DEF PutInsert
    <3>2. RowIs(b, "PENDING") /\ WriterIs(w, "uploading", b, rows[b].version + 1)
      BY <3>1
    <3> QED  BY <1>3, <2>1, <3>2 DEF PutInsert, PutClaims
  <2>2. CASE rows[b].status # "NONE"
    BY <1>3, <2>2 DEF PutInsert, PutWaits
  <2> QED  BY <2>1, <2>2
<1>4. CASE PutFind(w)
  <2>1. CASE rows[writers[w].artifact].status = "FAILED"
    BY <1>4, <2>1 DEF PutFind, PutWaits
  <2>2. CASE rows[writers[w].artifact].status # "FAILED"
    BY <1>4, <2>2 DEF PutFind, PutLeaves
  <2> QED  BY <2>1, <2>2
<1>5. CASE PutReclaim(w)
  <2>1. CASE Matches(writers[w].artifact, "FAILED", writers[w].version)
    <3> DEFINE a == writers[w].artifact
    <3>1. /\ objects' = objects /\ writers[w].pc = "reclaiming" /\ rows[a].status = "FAILED"
          /\ rows' = Moved(a, "PENDING") /\ a \in Artifacts
          /\ Writer(w, [pc |-> "uploading", artifact |-> a, version |-> rows[a].version + 1])
      BY <1>5, <2>1 DEF PutReclaim
    <3>2. RowIs(a, "PENDING")
      BY <3>1
    <3>3. WriterIs(w, "uploading", a, rows[a].version + 1)
      BY <3>1
    <3> HIDE DEF a, RowIs, WriterIs, Moved, Writer
    <3> QED  BY <3>1, <3>2, <3>3 DEF PutClaims
  <2>2. CASE ~Matches(writers[w].artifact, "FAILED", writers[w].version)
    BY <1>5, <2>2, SMTT(60) DEF PutReclaim, PutLeaves
  <2> QED  BY <2>1, <2>2
<1>6. CASE PutUpload(w) \/ PutUploadFails(w)
  <2>1. PutStores(w)
    BY <1>6, SMTT(60) DEF PutUpload, PutUploadFails, PutStores
  <2> QED  BY <2>1
<1>7. CASE PutFinalize(w)
  <2>1. CASE Matches(writers[w].artifact, "PENDING", writers[w].version)
    <3>1. /\ objects' = objects /\ writers[w].pc = "finalizing"
          /\ rows' = Moved(writers[w].artifact, "AVAILABLE") /\ Writer(w, IdleCall)
      BY <1>7, <2>1 DEF PutFinalize
    <3>2. RowIs(writers[w].artifact, "AVAILABLE")
      BY <3>1
    <3>3. WriterIs(w, "idle", NoArtifact, 0)
      BY <3>1
    <3> HIDE DEF RowIs, WriterIs, Moved, Writer
    <3> QED  BY <2>1, <3>1, <3>2, <3>3 DEF PutPublishes
  <2>2. CASE ~Matches(writers[w].artifact, "PENDING", writers[w].version)
    BY <1>7, <2>2, SMTT(60) DEF PutFinalize, PutIsRefused
  <2> QED  BY <2>1, <2>2
<1>8. CASE PutFinalizeThrows(w)
  <2>1. CASE rows' = rows
    BY <1>8, <2>1 DEF PutFinalizeThrows, PutIsRefused
  <2>2. CASE rows' # rows
    <3>1. Matches(writers[w].artifact, "PENDING", writers[w].version)
          /\ rows' = Moved(writers[w].artifact, "AVAILABLE")
      BY <1>8, <2>2 DEF PutFinalizeThrows, CommittedAnyway
    <3>2. RowIs(writers[w].artifact, "AVAILABLE")
      BY <1>8, <3>1 DEF PutFinalizeThrows
    <3>3. WriterIs(w, "compensating", writers[w].artifact, writers[w].version) /\ faults' # 0
      BY <1>8 DEF PutFinalizeThrows, Fault
    <3> QED  BY <1>8, <3>1, <3>2, <3>3 DEF PutFinalizeThrows, PutPublishes
  <2> QED  BY <2>1, <2>2
<1>9. CASE PutCompensate(w)
  <2>1. PutRemoves(w)
    BY <1>9 DEF PutCompensate, PutRemoves
  <2> QED  BY <2>1
<1>10. CASE PutGiveUp(w)
  <2>1. CASE Matches(writers[w].artifact, "PENDING", writers[w].version)
    BY <1>10, <2>1 DEF PutGiveUp, PutReleases
  <2>2. CASE ~Matches(writers[w].artifact, "PENDING", writers[w].version)
    BY <1>10, <2>2 DEF PutGiveUp, PutLeaves
  <2> QED  BY <2>1, <2>2
<1>11. CASE WriterCrash(w)
  <2>1. PutLeaves(w)
    BY <1>11 DEF WriterCrash, PutLeaves
  <2> QED  BY <2>1
<1> QED
  BY <1>1, <1>2, <1>3, <1>4, <1>5, <1>6, <1>7, <1>8, <1>9, <1>10, <1>11

LEMMA DeleteSteps ==
    ASSUME StoreShaped, CallsNamed, DeleteNext
    PROVE  /\ UNCHANGED <<tenant, writers>>
           /\ calls' \in 0..MaxCalls /\ faults' \in 0..MaxFaults /\ faults <= faults'
           /\ \E d \in Deleters : DeleteStep(d)
<1>1. PICK d \in Deleters :
          \/ \E a \in Artifacts : DeleteMark(d, a)
          \/ DeleteRemove(d) \/ DeleteRemoveFails(d) \/ DeleteRemoveThrows(d)
          \/ DeleteFinalize(d) \/ DeleteFinalizeThrows(d) \/ DeleteRevert(d)
          \/ DeleterCrash(d)
  BY DEF DeleteNext
<1>2. /\ UNCHANGED <<tenant, writers>>
      /\ calls' \in 0..MaxCalls /\ faults' \in 0..MaxFaults /\ faults <= faults'
  <2>1. ASSUME NEW a \in Artifacts, DeleteMark(d, a)
        PROVE  /\ UNCHANGED <<tenant, writers>>
               /\ calls' \in 0..MaxCalls /\ faults' \in 0..MaxFaults /\ faults <= faults'
    BY <2>1, StoreAssumption DEF DeleteMark, NewCall, StoreShaped
  <2>2. CASE DeleteFinalizeThrows(d) \/ DeleteRemoveThrows(d)
    BY <2>2, StoreAssumption DEF DeleteFinalizeThrows, DeleteRemoveThrows, Fault, StoreShaped
  <2>3. CASE DeleteRemove(d) \/ DeleteRemoveFails(d) \/ DeleterCrash(d)
    BY <2>3 DEF DeleteRemove, DeleteRemoveFails, DeleterCrash, StoreShaped
  <2>4. CASE DeleteFinalize(d) \/ DeleteRevert(d)
    BY <2>4 DEF DeleteFinalize, DeleteRevert, StoreShaped
  <2> QED  BY <1>1, <2>1, <2>2, <2>3, <2>4
<1> SUFFICES DeleteStep(d)
  BY <1>2
<1> DEFINE b == deleters[d].artifact
           n == deleters[d].version
<1> USE StoreAssumption
    DEF StoreShaped, CallsNamed, Rows, DeleteCall, RowIs, DeleterIs, Moved, Matches, Deleter,
        IdleCall, DeleteStep
<1>3. ASSUME NEW a \in Artifacts, DeleteMark(d, a) PROVE DeleteMarks(d)
  <2>1. /\ rows' = Moved(a, "DELETING") /\ rows[a].status = "AVAILABLE" /\ objects' = objects
        /\ Deleter(d, [pc |-> "removing", artifact |-> a, version |-> rows[a].version + 1])
    BY <1>3 DEF DeleteMark
  <2>2. RowIs(a, "DELETING")
    BY <2>1
  <2>3. DeleterIs(d, "removing", a, rows[a].version + 1)
    BY <2>1
  <2> HIDE DEF RowIs, DeleterIs, Moved, Deleter
  <2> QED  BY <2>1, <2>2, <2>3 DEF DeleteMarks
<1>4. CASE DeleteRemove(d) \/ DeleteRemoveThrows(d)
  <2>1. DeleteRemoves(d)
    BY <1>4, SMTT(60) DEF DeleteRemove, DeleteRemoveThrows, Fault, DeleteRemoves
  <2> QED  BY <2>1
<1>5. CASE DeleteRemoveFails(d)
  <2>1. DeleteIsRefused(d)
    BY <1>5 DEF DeleteRemoveFails, DeleteIsRefused
  <2> QED  BY <2>1
<1>6. CASE DeleteFinalize(d)
  <2>1. CASE Matches(b, "DELETING", n)
    <3>1. /\ objects' = objects /\ deleters[d].pc = "finalizing"
          /\ rows' = Moved(b, "DELETED") /\ Deleter(d, IdleCall)
      BY <1>6, <2>1 DEF DeleteFinalize
    <3>2. RowIs(b, "DELETED")
      BY <3>1
    <3>3. DeleterIs(d, "idle", NoArtifact, 0)
      BY <3>1
    <3> HIDE DEF RowIs, DeleterIs, Moved, Deleter
    <3> QED  BY <2>1, <3>1, <3>2, <3>3 DEF DeleteEnds
  <2>2. CASE ~Matches(b, "DELETING", n)
    BY <1>6, <2>2 DEF DeleteFinalize, DeleteIsRefused
  <2> QED  BY <2>1, <2>2
<1>7. CASE DeleteFinalizeThrows(d)
  <2>1. CASE rows' = rows
    BY <1>7, <2>1 DEF DeleteFinalizeThrows, Fault, DeleteIsRefused
  <2>2. CASE rows' # rows
    <3>1. Matches(b, "DELETING", n) /\ rows' = Moved(b, "DELETED")
      BY <1>7, <2>2 DEF DeleteFinalizeThrows, CommittedAnyway
    <3>2. RowIs(b, "DELETED")
      BY <1>7, <3>1 DEF DeleteFinalizeThrows
    <3>3. DeleterIs(d, "reverting", b, n) /\ faults' # 0
      BY <1>7 DEF DeleteFinalizeThrows, Fault
    <3> QED  BY <1>7, <3>1, <3>2, <3>3 DEF DeleteFinalizeThrows, DeleteEnds
  <2> QED  BY <2>1, <2>2
<1>8. CASE DeleteRevert(d)
  <2>1. CASE Matches(b, "DELETING", n)
    <3>1. /\ objects' = objects /\ deleters[d].pc = "reverting"
          /\ rows' = Moved(b, "AVAILABLE") /\ Deleter(d, IdleCall)
      BY <1>8, <2>1 DEF DeleteRevert
    <3>2. RowIs(b, "AVAILABLE")
      BY <3>1
    <3>3. DeleterIs(d, "idle", NoArtifact, 0)
      BY <3>1
    <3> HIDE DEF RowIs, DeleterIs, Moved, Deleter
    <3> QED  BY <2>1, <3>1, <3>2, <3>3 DEF DeleteReverts
  <2>2. CASE ~Matches(b, "DELETING", n)
    BY <1>8, <2>2 DEF DeleteRevert, DeleteLeaves
  <2> QED  BY <2>1, <2>2
<1>9. CASE DeleterCrash(d)
  <2>1. DeleteLeaves(d)
    BY <1>9 DEF DeleterCrash, DeleteLeaves
  <2> QED  BY <2>1
<1> QED
  BY <1>1, <1>3, <1>4, <1>5, <1>6, <1>7, <1>8, <1>9

----------------------------------------------------------------------------
(* The invariant of the store.                                             *)

\* A put past its claim knows a version its row has had; between its claim and
\* its finalizing UPDATE the row is still the one it claimed.
PutInv ==
    /\ \A w \in Writers : Busy(w) =>
          /\ rows[writers[w].artifact].status # "NONE"
          /\ writers[w].version <= rows[writers[w].artifact].version
          /\ writers[w].pc \in {"uploading", "finalizing"}
                => Matches(writers[w].artifact, "PENDING", writers[w].version)
    /\ \A v, w \in Writers :
          /\ Busy(v) /\ Busy(w)
          /\ writers[v].artifact = writers[w].artifact
          /\ writers[v].version = writers[w].version
          => v = w

\* The same of a delete, until its own finalizing UPDATE.
Deleting(d) == deleters[d].pc # "idle"

DeleteInv ==
    /\ \A d \in Deleters : Deleting(d) =>
          /\ rows[deleters[d].artifact].status # "NONE"
          /\ deleters[d].version <= rows[deleters[d].artifact].version
          /\ deleters[d].pc \in {"removing", "finalizing"}
                => Matches(deleters[d].artifact, "DELETING", deleters[d].version)
          /\ deleters[d].pc = "finalizing" => deleters[d].artifact \notin objects
    /\ \A d, e \in Deleters :
          /\ Deleting(d) /\ Deleting(e)
          /\ deleters[d].artifact = deleters[e].artifact
          /\ deleters[d].version = deleters[e].version
          => d = e

\* Objects belong to rows, and those of deleted rows are gone.
ObjectInv ==
    \A a \in Artifacts : rows[a].status \in {"NONE", "DELETED"} => a \notin objects

\* Without a call that took effect and threw, every call owns its row to its end,
\* and while the tenant is ACTIVE what is stored stays until its delete.
FaultlessInv ==
    faults = 0 =>
        /\ \A w \in Writers : Busy(w) =>
              Matches(writers[w].artifact, "PENDING", writers[w].version)
        /\ \A d \in Deleters : Deleting(d) =>
              Matches(deleters[d].artifact, "DELETING", deleters[d].version)
        /\ tenant = "ACTIVE" =>
              /\ \A a \in Artifacts : rows[a].status = "AVAILABLE" => a \in objects
              /\ \A w \in Writers : writers[w].pc = "finalizing" => writers[w].artifact \in objects
              /\ \A d \in Deleters : deleters[d].pc \in {"removing", "reverting"}
                    => deleters[d].artifact \in objects

LEMMA StoreTypes ==
    ASSUME StoreShaped, CallsNamed, StoreNext PROVE StoreShaped' /\ CallsNamed'
<1>1. CASE PutNext
  <2>1. /\ UNCHANGED <<tenant, deleters>> /\ calls' \in 0..MaxCalls /\ faults' \in 0..MaxFaults
    BY <1>1, PutSteps
  <2>2. PICK w \in Writers : PutStep(w)
    BY <1>1, PutSteps
  <2> USE DEF StoreShaped, CallsNamed, WriterIs, RowIs
  <2>3. CASE PutClaims(w)
    BY <2>1, <2>3, SMTT(60) DEF PutClaims, Rows
  <2>4. CASE PutWaits(w) \/ PutLeaves(w)
    BY <2>1, <2>4 DEF PutWaits, PutLeaves
  <2>5. CASE PutStores(w) \/ PutRemoves(w) \/ PutIsRefused(w)
    BY <2>1, <2>5 DEF PutStores, PutRemoves, PutIsRefused
  <2>6. CASE PutPublishes(w) \/ PutReleases(w)
    BY <2>1, <2>6 DEF PutPublishes, PutReleases, Rows
  <2> QED  BY <2>2, <2>3, <2>4, <2>5, <2>6 DEF PutStep
<1>2. CASE DeleteNext
  <2>1. /\ UNCHANGED <<tenant, writers>> /\ calls' \in 0..MaxCalls /\ faults' \in 0..MaxFaults
    BY <1>2, DeleteSteps
  <2>2. PICK d \in Deleters : DeleteStep(d)
    BY <1>2, DeleteSteps
  <2> USE DEF StoreShaped, CallsNamed, DeleterIs, RowIs
  <2>3. CASE DeleteMarks(d)
    BY <2>1, <2>3, ZenonT(60) DEF DeleteMarks, Rows
  <2>4. CASE DeleteLeaves(d)
    BY <2>1, <2>4 DEF DeleteLeaves
  <2>5. CASE DeleteRemoves(d) \/ DeleteIsRefused(d)
    BY <2>1, <2>5 DEF DeleteRemoves, DeleteIsRefused
  <2>6. CASE DeleteEnds(d) \/ DeleteReverts(d)
    BY <2>1, <2>6 DEF DeleteEnds, DeleteReverts, Rows
  <2> QED  BY <2>2, <2>3, <2>4, <2>5, <2>6 DEF DeleteStep
<1> QED
  BY <1>1, <1>2 DEF StoreNext

\* What a put does to rows and objects, as far as deletes are concerned, and
\* what a delete does, as far as puts are.
LEMMA PutRows ==
    ASSUME StoreShaped, CallsNamed, PutInv, NEW w \in Writers, PutStep(w), NEW a \in Artifacts
    PROVE  /\ \/ rows'[a] = rows[a]
              \/ /\ rows'[a].version = rows[a].version + 1
                 /\ rows[a].status = "PENDING" => /\ Busy(w) /\ a = writers[w].artifact
                                                  /\ Matches(a, "PENDING", writers[w].version)
                 /\ rows[a].status \in {"NONE", "FAILED", "PENDING"}
                 /\ rows'[a].status \notin {"NONE", "DELETING", "DELETED"}
           /\ a \in objects' => \/ a \in objects
                                \/ rows[a].status = "PENDING" /\ rows'[a] = rows[a]
<1>1. CASE PutClaims(w)
  <2>1. PICK b \in Artifacts : rows[b].status \in {"NONE", "FAILED"} /\ RowIs(b, "PENDING")
    BY <1>1 DEF PutClaims
  <2>2. objects' = objects
    BY <1>1 DEF PutClaims
  <2> QED  BY <2>1, <2>2 DEF RowIs
<1>2. CASE PutWaits(w) \/ PutLeaves(w) \/ PutIsRefused(w) \/ PutRemoves(w)
  BY <1>2 DEF PutWaits, PutLeaves, PutIsRefused, PutRemoves
<1>3. CASE PutStores(w)
  BY <1>3 DEF PutStores, PutInv, Busy, Matches
<1>4. CASE PutPublishes(w) \/ PutReleases(w)
  <2>1. PICK status \in {"AVAILABLE", "FAILED"} : RowIs(writers[w].artifact, status)
    BY <1>4 DEF PutPublishes, PutReleases
  <2>2. /\ Busy(w) /\ objects' = objects
        /\ Matches(writers[w].artifact, "PENDING", writers[w].version)
    BY <1>4 DEF PutPublishes, PutReleases, Busy
  <2> QED  BY <2>1, <2>2 DEF RowIs, Matches
<1> QED
  BY <1>1, <1>2, <1>3, <1>4 DEF PutStep

LEMMA DeleteRows ==
    ASSUME StoreShaped, CallsNamed, NEW d \in Deleters, DeleteStep(d), NEW a \in Artifacts
    PROVE  /\ \/ rows'[a] = rows[a]
              \/ /\ rows'[a].version = rows[a].version + 1
                 /\ rows[a].status = "DELETING" => /\ Deleting(d) /\ a = deleters[d].artifact
                                                   /\ Matches(a, "DELETING", deleters[d].version)
                 /\ rows[a].status \in {"AVAILABLE", "DELETING"}
                 /\ rows'[a].status \notin {"NONE", "PENDING"}
           /\ a \in objects' => a \in objects
<1> USE DEF StoreShaped, CallsNamed, Rows, DeleteCall, Deleting, Matches, RowIs
<1>1. CASE DeleteMarks(d)
  BY <1>1 DEF DeleteMarks
<1>2. CASE DeleteLeaves(d) \/ DeleteRemoves(d) \/ DeleteIsRefused(d)
  BY <1>2 DEF DeleteLeaves, DeleteRemoves, DeleteIsRefused
<1>3. CASE DeleteEnds(d)
  BY <1>3 DEF DeleteEnds
<1>4. CASE DeleteReverts(d)
  BY <1>4 DEF DeleteReverts
<1> QED
  BY <1>1, <1>2, <1>3, <1>4 DEF DeleteStep

LEMMA PutKeepsStore ==
    ASSUME StoreShaped, CallsNamed, StoreShaped', CallsNamed', PutInv, DeleteInv, ObjectInv,
           UNCHANGED deleters, NEW w \in Writers, PutStep(w)
    PROVE  PutInv' /\ DeleteInv' /\ ObjectInv'
<1> USE DEF CallsNamed
<1>1. DeleteInv' /\ ObjectInv'
  BY PutRows DEF StoreShaped, Rows, DeleteCall, DeleteInv, ObjectInv, Deleting, Matches
<1>2. ASSUME NEW v \in Writers, Busy(v)'
      PROVE  /\ rows'[writers'[v].artifact].status # "NONE"
             /\ writers'[v].version <= rows'[writers'[v].artifact].version
             /\ writers'[v].pc \in {"uploading", "finalizing"}
                   => Matches(writers[v].artifact, "PENDING", writers[v].version)'
  <2>1. CASE v # w
    <3>1. writers'[v] = writers[v]
      BY <2>1 DEF PutStep, PutClaims, PutWaits, PutLeaves, PutStores, PutPublishes, PutIsRefused,
                  PutRemoves, PutReleases, WriterIs
    <3> DEFINE a == writers[v].artifact
    <3>2. Busy(v) /\ a \in Artifacts
      BY <1>2, <3>1 DEF Busy
    <3>3. CASE rows'[a] = rows[a]
      BY <1>2, <3>1, <3>2, <3>3 DEF PutInv, Busy, Matches
    <3>4. CASE rows'[a] # rows[a]
      <4>1. /\ rows'[a].version = rows[a].version + 1 /\ rows'[a].status # "NONE"
            /\ rows[a].status = "PENDING" => /\ Busy(w) /\ a = writers[w].artifact
                                             /\ Matches(a, "PENDING", writers[w].version)
        BY <3>2, <3>4, PutRows
      <4>2. writers[v].pc \notin {"uploading", "finalizing"}
        BY <2>1, <3>2, <4>1 DEF PutInv, Matches
      <4> QED  BY <3>1, <3>2, <4>1, <4>2 DEF PutInv, StoreShaped, Rows, PutCall
    <3> QED  BY <3>3, <3>4
  <2>2. CASE v = w
    <3> USE DEF StoreShaped, Rows, PutCall, PutInv, Busy, Matches, WriterIs
    <3>1. CASE PutClaims(w)
      <4>1. PICK b \in Artifacts : RowIs(b, "PENDING") /\ WriterIs(w, "uploading", b, rows[b].version + 1)
        BY <3>1 DEF PutClaims
      <4> QED  BY <2>2, <4>1 DEF RowIs
    <3>2. CASE PutWaits(w) \/ PutLeaves(w) \/ PutReleases(w)
      BY <1>2, <2>2, <3>2 DEF PutWaits, PutLeaves, PutReleases
    <3>3. CASE PutStores(w)
      BY <2>2, <3>3 DEF PutStores
    <3>4. CASE PutIsRefused(w) \/ PutRemoves(w)
      BY <2>2, <3>4 DEF PutIsRefused, PutRemoves
    <3>5. CASE PutPublishes(w)
      BY <1>2, <2>2, <3>5 DEF PutPublishes, RowIs
    <3> QED  BY <3>1, <3>2, <3>3, <3>4, <3>5 DEF PutStep
  <2> QED  BY <2>1, <2>2
<1>3. ASSUME NEW u \in Writers, NEW v \in Writers, Busy(u)', Busy(v)',
             writers'[u].artifact = writers'[v].artifact,
             writers'[u].version = writers'[v].version
      PROVE  u = v
  <2>1. CASE PutClaims(w)
    <3>1. PICK b \in Artifacts : WriterIs(w, "uploading", b, rows[b].version + 1)
      BY <2>1 DEF PutClaims
    <3> QED
      BY <1>3, <3>1 DEF StoreShaped, Rows, PutCall, PutInv, Busy, WriterIs
  <2>2. CASE ~PutClaims(w)
    <3>1. \A x \in Writers : Busy(x)' => Busy(x) /\ writers'[x].artifact = writers[x].artifact
                                                 /\ writers'[x].version = writers[x].version
      BY <2>2 DEF PutStep, PutWaits, PutLeaves, PutStores, PutPublishes, PutIsRefused,
                  PutRemoves, PutReleases, WriterIs, Busy
    <3> QED  BY <1>3, <3>1 DEF PutInv
  <2> QED  BY <2>1, <2>2
<1> QED
  BY <1>1, <1>2, <1>3 DEF PutInv

LEMMA DeleteKeepsStore ==
    ASSUME StoreShaped, CallsNamed, StoreShaped', CallsNamed', PutInv, DeleteInv, ObjectInv,
           UNCHANGED writers, NEW d \in Deleters, DeleteStep(d)
    PROVE  PutInv' /\ DeleteInv' /\ ObjectInv'
<1> USE DEF CallsNamed
<1>1. PutInv'
  BY DeleteRows DEF StoreShaped, Rows, PutCall, PutInv, Busy, Matches
<1>2. ObjectInv'
  <2>1. SUFFICES ASSUME NEW a \in Artifacts, rows'[a].status \in {"NONE", "DELETED"}
                 PROVE  a \notin objects'
    BY DEF ObjectInv
  <2>2. CASE rows'[a] = rows[a]
    BY <2>1, <2>2, DeleteRows, SMTT(60) DEF ObjectInv
  <2>3. CASE rows'[a] # rows[a]
    BY <2>1, <2>3, DeleteRows
       DEF DeleteStep, DeleteMarks, DeleteLeaves, DeleteRemoves, DeleteIsRefused, DeleteEnds,
           DeleteReverts, RowIs, DeleteInv, Deleting
  <2> QED  BY <2>2, <2>3
<1>3. ASSUME NEW e \in Deleters, Deleting(e)'
      PROVE  /\ rows'[deleters'[e].artifact].status # "NONE"
             /\ deleters'[e].version <= rows'[deleters'[e].artifact].version
             /\ deleters'[e].pc \in {"removing", "finalizing"}
                   => Matches(deleters[e].artifact, "DELETING", deleters[e].version)'
             /\ deleters'[e].pc = "finalizing" => deleters'[e].artifact \notin objects'
  <2>1. CASE e # d
    <3>1. deleters'[e] = deleters[e]
      BY <2>1 DEF DeleteStep, DeleteMarks, DeleteLeaves, DeleteRemoves, DeleteIsRefused, DeleteEnds,
                  DeleteReverts, DeleterIs
    <3> DEFINE a == deleters[e].artifact
    <3>2. Deleting(e) /\ a \in Artifacts
      BY <1>3, <3>1 DEF Deleting
    <3>3. CASE rows'[a] = rows[a]
      BY <1>3, <3>1, <3>2, <3>3, DeleteRows DEF DeleteInv, Deleting, Matches
    <3>4. CASE rows'[a] # rows[a]
      <4>1. /\ rows'[a].version = rows[a].version + 1 /\ rows'[a].status # "NONE"
            /\ rows[a].status = "DELETING" => /\ Deleting(d) /\ a = deleters[d].artifact
                                              /\ Matches(a, "DELETING", deleters[d].version)
        BY <3>2, <3>4, DeleteRows
      <4>2. deleters[e].pc \notin {"removing", "finalizing"}
        BY <2>1, <3>2, <4>1 DEF DeleteInv, Matches
      <4> QED  BY <3>1, <3>2, <4>1, <4>2 DEF DeleteInv, StoreShaped, Rows, DeleteCall
    <3> QED  BY <3>3, <3>4
  <2>2. CASE e = d
    <3> USE DEF StoreShaped, Rows, DeleteCall, DeleteInv, Deleting, Matches, DeleterIs
    <3>1. CASE DeleteMarks(d)
      <4>1. PICK b \in Artifacts : /\ RowIs(b, "DELETING")
                                   /\ DeleterIs(d, "removing", b, rows[b].version + 1)
        BY <3>1 DEF DeleteMarks
      <4> QED  BY <2>2, <4>1 DEF RowIs
    <3>2. CASE DeleteLeaves(d) \/ DeleteReverts(d)
      BY <1>3, <2>2, <3>2 DEF DeleteLeaves, DeleteReverts
    <3>3. CASE DeleteRemoves(d)
      BY <2>2, <3>3 DEF DeleteRemoves
    <3>4. CASE DeleteIsRefused(d)
      BY <2>2, <3>4 DEF DeleteIsRefused
    <3>5. CASE DeleteEnds(d)
      BY <1>3, <2>2, <3>5 DEF DeleteEnds, RowIs
    <3> QED  BY <3>1, <3>2, <3>3, <3>4, <3>5 DEF DeleteStep
  <2> QED  BY <2>1, <2>2
<1>4. ASSUME NEW e \in Deleters, NEW f \in Deleters, Deleting(e)', Deleting(f)',
             deleters'[e].artifact = deleters'[f].artifact,
             deleters'[e].version = deleters'[f].version
      PROVE  e = f
  <2>1. CASE DeleteMarks(d)
    <3>1. PICK b \in Artifacts : DeleterIs(d, "removing", b, rows[b].version + 1)
      BY <2>1 DEF DeleteMarks
    <3>2. rows[b].version \in Nat /\ deleters'[d].artifact = b
          /\ deleters'[d].version = rows[b].version + 1
      BY <3>1 DEF StoreShaped, Rows, DeleterIs
    <3>3. ASSUME NEW x \in Deleters, x # d, Deleting(x)'
          PROVE  /\ Deleting(x) /\ deleters'[x] = deleters[x]
                 /\ ~(deleters[x].artifact = b /\ deleters[x].version = rows[b].version + 1)
      <4>1. deleters'[x] = deleters[x] /\ Deleting(x)
        BY <3>1, <3>3 DEF DeleterIs, Deleting
      <4>2. deleters[x].version <= rows[deleters[x].artifact].version
        BY <4>1 DEF DeleteInv
      <4>3. deleters[x].version \in Nat
        BY DEF StoreShaped, DeleteCall
      <4> QED  BY <3>2, <4>1, <4>2, <4>3
    <3>4. CASE e = d \/ f = d
      BY <1>4, <3>2, <3>3, <3>4
    <3>5. CASE e # d /\ f # d
      BY <1>4, <3>3, <3>5 DEF DeleteInv
    <3> QED  BY <3>4, <3>5
  <2>2. CASE ~DeleteMarks(d)
    <3>1. \A x \in Deleters : Deleting(x)' => Deleting(x) /\ deleters'[x].artifact = deleters[x].artifact
                                                          /\ deleters'[x].version = deleters[x].version
      BY <2>2 DEF DeleteStep, DeleteLeaves, DeleteRemoves, DeleteIsRefused, DeleteEnds,
                  DeleteReverts, DeleterIs, Deleting
    <3> QED  BY <1>4, <3>1 DEF DeleteInv
  <2> QED  BY <2>1, <2>2
<1> QED
  BY <1>1, <1>2, <1>3, <1>4 DEF DeleteInv

LEMMA PutKeepsFaultless ==
    ASSUME StoreShaped, CallsNamed, PutInv, DeleteInv, FaultlessInv, UNCHANGED <<tenant, deleters>>,
           faults \in Nat, faults' \in Nat, faults <= faults', NEW w \in Writers, PutStep(w)
    PROVE  FaultlessInv'
<1> SUFFICES ASSUME faults' = 0 PROVE FaultlessInv'
  BY DEF FaultlessInv
<1>1. /\ faults = 0
      /\ \A v \in Writers : Busy(v) => Matches(writers[v].artifact, "PENDING", writers[v].version)
      /\ \A d \in Deleters : Deleting(d) => Matches(deleters[d].artifact, "DELETING", deleters[d].version)
  BY DEF FaultlessInv
<1>2. \A d \in Deleters : Deleting(d) =>
          rows'[deleters[d].artifact] = rows[deleters[d].artifact]
  BY <1>1, PutRows DEF CallsNamed, Deleting, Matches
<1>3. ASSUME NEW v \in Writers, v # w, Busy(v)
      PROVE  rows'[writers[v].artifact] = rows[writers[v].artifact]
  <2>1. writers[v].artifact \in Artifacts /\ Matches(writers[v].artifact, "PENDING", writers[v].version)
    BY <1>1, <1>3 DEF CallsNamed, Busy
  <2> QED  BY <1>3, <2>1, PutRows DEF PutInv, Matches
<1>4. \A v \in Writers : v # w => writers'[v] = writers[v]
  BY DEF PutStep, PutClaims, PutWaits, PutLeaves, PutStores, PutPublishes, PutIsRefused,
         PutRemoves, PutReleases, WriterIs
<1>5. \A v \in Writers : Busy(v)' => Matches(writers[v].artifact, "PENDING", writers[v].version)'
  <2>1. ASSUME NEW v \in Writers, v # w, Busy(v)'
        PROVE  Matches(writers[v].artifact, "PENDING", writers[v].version)'
    BY <1>1, <1>3, <1>4, <2>1 DEF Busy, Matches
  <2>2. ASSUME Busy(w)' PROVE Matches(writers[w].artifact, "PENDING", writers[w].version)'
    <3>1. CASE PutClaims(w)
      BY <3>1 DEF PutClaims, RowIs, WriterIs, Matches
    <3>2. CASE PutWaits(w) \/ PutLeaves(w) \/ PutReleases(w)
      BY <2>2, <3>2 DEF PutWaits, PutLeaves, PutReleases, WriterIs, Busy
    <3>3. CASE PutStores(w) \/ PutIsRefused(w) \/ PutRemoves(w)
      BY <1>1, <3>3 DEF PutStores, PutIsRefused, PutRemoves, WriterIs, Matches, Busy
    <3>4. CASE PutPublishes(w)
      BY <2>2, <3>4 DEF PutPublishes, WriterIs, Busy
    <3> QED  BY <3>1, <3>2, <3>3, <3>4 DEF PutStep
  <2> QED  BY <2>1, <2>2
<1>6. \A d \in Deleters : Deleting(d)' => Matches(deleters[d].artifact, "DELETING", deleters[d].version)'
  BY <1>1, <1>2 DEF Deleting, Matches
<1>7. ASSUME tenant' = "ACTIVE"
      PROVE  /\ \A a \in Artifacts : rows'[a].status = "AVAILABLE" => a \in objects'
             /\ \A v \in Writers : writers'[v].pc = "finalizing" => writers'[v].artifact \in objects'
             /\ \A d \in Deleters : deleters'[d].pc \in {"removing", "reverting"}
                   => deleters'[d].artifact \in objects'
  <2>1. /\ \A a \in Artifacts : rows[a].status = "AVAILABLE" => a \in objects
        /\ \A v \in Writers : writers[v].pc = "finalizing" => writers[v].artifact \in objects
        /\ \A d \in Deleters : deleters[d].pc \in {"removing", "reverting"}
              => deleters[d].artifact \in objects
    BY <1>1, <1>7 DEF FaultlessInv
  <2>2. CASE ~PutRemoves(w)
    <3>1. objects \subseteq objects'
      BY <2>2 DEF PutStep, PutClaims, PutWaits, PutLeaves, PutStores, PutPublishes, PutIsRefused,
                  PutReleases
    <3>2. ASSUME NEW a \in Artifacts, rows'[a].status = "AVAILABLE", rows'[a] # rows[a]
          PROVE  writers[w].pc = "finalizing" /\ a = writers[w].artifact
      BY <3>2 DEF PutStep, PutClaims, PutWaits, PutLeaves, PutStores, PutPublishes, PutIsRefused,
                  PutRemoves, PutReleases, RowIs
    <3>3. writers'[w].pc = "finalizing" => writers'[w].artifact \in objects'
      BY DEF PutStep, PutClaims, PutWaits, PutLeaves, PutStores, PutPublishes, PutIsRefused,
             PutRemoves, PutReleases, WriterIs
    <3> QED  BY <1>4, <2>1, <3>1, <3>2, <3>3
  <2>3. CASE PutRemoves(w)
    <3> DEFINE a == writers[w].artifact
    <3>1. /\ objects \ {a} \subseteq objects' /\ rows' = rows /\ writers'[w].pc = "failing" /\ Busy(w)
      BY <2>3 DEF PutRemoves, WriterIs, Busy
    <3>2. a \in Artifacts /\ Matches(a, "PENDING", writers[w].version)
      BY <1>1, <3>1 DEF CallsNamed, Busy
    <3>3. \A v \in Writers : v # w /\ Busy(v) => writers[v].artifact # a
      BY <1>1, <3>1, <3>2 DEF PutInv, Matches
    <3>4. \A d \in Deleters : Deleting(d) => deleters[d].artifact # a
      BY <1>1, <3>2 DEF Matches
    <3> QED  BY <1>4, <2>1, <3>1, <3>2, <3>3, <3>4 DEF Busy, Deleting, Matches
  <2> QED  BY <2>2, <2>3
<1> QED
  BY <1>5, <1>6, <1>7 DEF FaultlessInv

LEMMA DeleteKeepsFaultless ==
    ASSUME StoreShaped, CallsNamed, DeleteInv, FaultlessInv, UNCHANGED <<tenant, writers>>,
           faults \in Nat, faults' \in Nat, faults <= faults', NEW d \in Deleters, DeleteStep(d)
    PROVE  FaultlessInv'
<1> SUFFICES ASSUME faults' = 0 PROVE FaultlessInv'
  BY DEF FaultlessInv
<1>1. /\ faults = 0
      /\ \A v \in Writers : Busy(v) => Matches(writers[v].artifact, "PENDING", writers[v].version)
      /\ \A e \in Deleters : Deleting(e) => Matches(deleters[e].artifact, "DELETING", deleters[e].version)
  BY DEF FaultlessInv
<1>2. \A v \in Writers : Busy(v) => rows'[writers[v].artifact] = rows[writers[v].artifact]
  BY <1>1, DeleteRows DEF CallsNamed, Busy, Matches
<1>3. ASSUME NEW e \in Deleters, e # d, Deleting(e)
      PROVE  rows'[deleters[e].artifact] = rows[deleters[e].artifact]
  <2>1. deleters[e].artifact \in Artifacts /\ Matches(deleters[e].artifact, "DELETING", deleters[e].version)
    BY <1>1, <1>3 DEF CallsNamed, Deleting
  <2> QED  BY <1>3, <2>1, DeleteRows DEF DeleteInv, Matches
<1>4. \A e \in Deleters : e # d => deleters'[e] = deleters[e]
  BY DEF DeleteStep, DeleteMarks, DeleteLeaves, DeleteRemoves, DeleteIsRefused, DeleteEnds,
         DeleteReverts, DeleterIs
<1>5. \A v \in Writers : Busy(v)' => Matches(writers[v].artifact, "PENDING", writers[v].version)'
  BY <1>1, <1>2 DEF Busy, Matches
<1>6. \A e \in Deleters : Deleting(e)' => Matches(deleters[e].artifact, "DELETING", deleters[e].version)'
  <2>1. ASSUME NEW e \in Deleters, e # d, Deleting(e)'
        PROVE  Matches(deleters[e].artifact, "DELETING", deleters[e].version)'
    BY <1>1, <1>3, <1>4, <2>1 DEF Deleting, Matches
  <2>2. ASSUME Deleting(d)' PROVE Matches(deleters[d].artifact, "DELETING", deleters[d].version)'
    <3>1. CASE DeleteMarks(d)
      BY <3>1 DEF DeleteMarks, RowIs, DeleterIs, Matches
    <3>2. CASE DeleteLeaves(d) \/ DeleteReverts(d) \/ DeleteEnds(d)
      BY <2>2, <3>2 DEF DeleteLeaves, DeleteReverts, DeleteEnds, DeleterIs, Deleting
    <3>3. CASE DeleteRemoves(d) \/ DeleteIsRefused(d)
      BY <1>1, <3>3 DEF DeleteRemoves, DeleteIsRefused, DeleterIs, Matches, Deleting
    <3> QED  BY <3>1, <3>2, <3>3 DEF DeleteStep
  <2> QED  BY <2>1, <2>2
<1>7. ASSUME tenant' = "ACTIVE"
      PROVE  /\ \A a \in Artifacts : rows'[a].status = "AVAILABLE" => a \in objects'
             /\ \A v \in Writers : writers'[v].pc = "finalizing" => writers'[v].artifact \in objects'
             /\ \A e \in Deleters : deleters'[e].pc \in {"removing", "reverting"}
                   => deleters'[e].artifact \in objects'
  <2>1. /\ \A a \in Artifacts : rows[a].status = "AVAILABLE" => a \in objects
        /\ \A v \in Writers : writers[v].pc = "finalizing" => writers[v].artifact \in objects
        /\ \A e \in Deleters : deleters[e].pc \in {"removing", "reverting"}
              => deleters[e].artifact \in objects
    BY <1>1, <1>7 DEF FaultlessInv
  <2>2. CASE ~DeleteRemoves(d)
    <3>1. objects' = objects
      BY <2>2 DEF DeleteStep, DeleteMarks, DeleteLeaves, DeleteIsRefused, DeleteEnds, DeleteReverts
    <3>2. ASSUME NEW a \in Artifacts, rows'[a].status = "AVAILABLE", rows'[a] # rows[a]
          PROVE  a \in objects
      BY <2>1, <3>2 DEF DeleteStep, DeleteMarks, DeleteLeaves, DeleteRemoves, DeleteIsRefused,
                        DeleteEnds, DeleteReverts, RowIs
    <3>3. deleters'[d].pc \in {"removing", "reverting"} => deleters'[d].artifact \in objects
      BY <1>1, <2>1, <2>2
         DEF DeleteStep, DeleteMarks, DeleteLeaves, DeleteIsRefused, DeleteEnds, DeleteReverts,
             DeleterIs, Deleting
    <3> QED  BY <1>4, <2>1, <3>1, <3>2, <3>3
  <2>3. CASE DeleteRemoves(d)
    <3> DEFINE a == deleters[d].artifact
    <3>1. /\ objects' = objects \ {a} /\ rows' = rows /\ deleters'[d].pc = "finalizing"
          /\ Deleting(d)
      BY <2>3 DEF DeleteRemoves, DeleterIs, Deleting
    <3>2. a \in Artifacts /\ Matches(a, "DELETING", deleters[d].version)
      BY <1>1, <3>1 DEF CallsNamed, Deleting
    <3>3. \A e \in Deleters : e # d /\ Deleting(e) => deleters[e].artifact # a
      BY <1>1, <3>1, <3>2 DEF DeleteInv, Matches
    <3>4. \A v \in Writers : Busy(v) => writers[v].artifact # a
      BY <1>1, <3>2 DEF Matches
    <3> QED  BY <1>4, <2>1, <3>1, <3>2, <3>3, <3>4 DEF Busy, Deleting, Matches
  <2> QED  BY <2>2, <2>3
<1> QED
  BY <1>5, <1>6, <1>7 DEF FaultlessInv

----------------------------------------------------------------------------
(* The requests and their executors.                                       *)

OneRequest == \A d, e \in Deletions : Active(d) /\ Active(e) => d = e

\* An artifact that is still as the snapshot saw it and that the executor is through
\* with has no object: whoever stores one changes the row first, or had done so
\* before the snapshot, which then is not settled.
Through(x) ==
    \A a \in Artifacts :
        /\ executors[x].snapshot[a].version <= rows[a].version
        /\ executors[x].snapshot[a].version = rows[a].version => executors[x].snapshot[a] = rows[a]
        /\ a \notin executors[x].todo /\ rows[a] = executors[x].snapshot[a]
              => Settled(rows[a]) /\ a \notin objects

ExecutorInv ==
    \A x \in Executors : executors[x].pc # "idle" =>
        /\ tenant # "ACTIVE"
        /\ executors[x].deletion \in Deletions
        /\ executors[x].pc = "removing" /\ tenant # "DELETED" => Through(x)

StoreInv ==
    /\ CallsNamed
    /\ tenant # "DELETED" => PutInv /\ DeleteInv /\ ObjectInv /\ FaultlessInv

RetentionInv == Shaped /\ StoreInv /\ OneRequest /\ ExecutorInv /\ PurgedStaysPurged

LEMMA IdleShaped == IdleExecutor \in Execution /\ NoRow \in Rows /\ NoClaim \in Claim
<1>1. NoRow \in Rows
  BY DEF NoRow, Rows
<1>2. [a \in Artifacts |-> NoRow] \in [Artifacts -> Rows]
  BY <1>1
<1> QED
  BY <1>1, <1>2 DEF IdleExecutor, Execution, NoClaim, Claim

LEMMA RetentionInitInv == RetentionInit => RetentionInv
<1> SUFFICES ASSUME RetentionInit PROVE RetentionInv
  OBVIOUS
<1> USE StoreAssumption, RetentionAssumption DEF RetentionInit, StoreInit
<1>1. StoreShaped
  BY DEF StoreShaped, Rows, NoRow, PutCall, DeleteCall, IdleCall
<1>2. Shaped
  <2>1. deletions \in [Deletions -> Claim]
    BY IdleShaped
  <2>2. executors \in [Executors -> Execution]
    BY IdleShaped
  <2>3. running \in BOOLEAN
    OBVIOUS
  <2>4. providerFaults \in 0..MaxProviderFaults
    OBVIOUS
  <2> HIDE DEF RetentionInit
  <2> QED  BY <1>1, <2>1, <2>2, <2>3, <2>4 DEF Shaped
<1>3. StoreInv
  BY DEF StoreInv, CallsNamed, PutInv, DeleteInv, ObjectInv, FaultlessInv, Busy, Deleting, IdleCall,
         NoRow
<1>4. OneRequest /\ ExecutorInv /\ PurgedStaysPurged
  BY DEF OneRequest, Active, NoClaim, ExecutorInv, IdleExecutor, PurgedStaysPurged
<1> QED
  BY <1>2, <1>3, <1>4 DEF RetentionInv

\* A step of the store.
LEMMA StoreKeeps ==
    ASSUME RetentionInv, Store PROVE RetentionInv'
<1>1. /\ StoreShaped /\ CallsNamed /\ StoreNext
      /\ UNCHANGED <<running, deletions, executors, providerFaults>>
  BY DEF RetentionInv, Shaped, StoreInv, Store
<1>2. StoreShaped' /\ CallsNamed'
  BY <1>1, StoreTypes
<1>3. tenant' = tenant /\ faults \in Nat /\ faults' \in Nat /\ faults <= faults'
  BY <1>1, PutSteps, DeleteSteps, StoreAssumption DEF StoreNext, StoreShaped
<1>4. ASSUME tenant # "DELETED" PROVE PutInv' /\ DeleteInv' /\ ObjectInv' /\ FaultlessInv'
  <2>1. PutInv /\ DeleteInv /\ ObjectInv /\ FaultlessInv
    BY <1>4 DEF RetentionInv, StoreInv
  <2>2. CASE PutNext
    <3>1. PICK w \in Writers : PutStep(w)
      BY <1>1, <2>2, PutSteps
    <3>2. UNCHANGED deleters
      BY <1>1, <2>2, PutSteps
    <3> QED  BY <1>1, <1>2, <1>3, <2>1, <3>1, <3>2, PutKeepsStore, PutKeepsFaultless
  <2>3. CASE DeleteNext
    <3>1. PICK d \in Deleters : DeleteStep(d)
      BY <1>1, <2>3, DeleteSteps
    <3>2. UNCHANGED writers
      BY <1>1, <2>3, DeleteSteps
    <3> QED  BY <1>1, <1>2, <1>3, <2>1, <3>1, <3>2, DeleteKeepsStore, DeleteKeepsFaultless
  <2> QED  BY <1>1, <2>2, <2>3 DEF StoreNext
<1>5. ASSUME NEW a \in Artifacts, tenant # "DELETED"
      PROVE  /\ rows'[a] = rows[a] \/ rows'[a].version = rows[a].version + 1
             /\ \/ a \notin objects'
                \/ a \in objects
                \/ rows[a].status = "PENDING" /\ rows'[a] = rows[a]
  <2>1. PutInv
    BY <1>5 DEF RetentionInv, StoreInv
  <2>2. CASE PutNext
    <3>1. PICK w \in Writers : PutStep(w)
      BY <1>1, <2>2, PutSteps
    <3> QED  BY <1>1, <2>1, <3>1, PutRows
  <2>3. CASE DeleteNext
    <3>1. PICK d \in Deleters : DeleteStep(d)
      BY <1>1, <2>3, DeleteSteps
    <3> QED  BY <1>1, <3>1, DeleteRows
  <2> QED  BY <1>1, <2>2, <2>3 DEF StoreNext
<1>6. ExecutorInv'
  <2>1. SUFFICES ASSUME NEW x \in Executors, executors[x].pc = "removing", tenant # "DELETED",
                        NEW a \in Artifacts
                 PROVE  /\ executors[x].snapshot[a].version <= rows'[a].version
                        /\ executors[x].snapshot[a].version = rows'[a].version
                              => executors[x].snapshot[a] = rows'[a]
                        /\ a \notin executors[x].todo /\ rows'[a] = executors[x].snapshot[a]
                              => Settled(rows'[a]) /\ a \notin objects'
    BY <1>1, <1>3 DEF RetentionInv, ExecutorInv, Through, Settled
  <2>2. /\ executors[x].snapshot[a].version <= rows[a].version
        /\ executors[x].snapshot[a].version = rows[a].version => executors[x].snapshot[a] = rows[a]
        /\ a \notin executors[x].todo /\ rows[a] = executors[x].snapshot[a]
              => Settled(rows[a]) /\ a \notin objects
        /\ executors[x].snapshot[a] \in Rows /\ rows[a] \in Rows
    BY <2>1 DEF RetentionInv, ExecutorInv, Through, Shaped, StoreShaped, Execution
  <2>3. CASE rows'[a] = rows[a]
    BY <1>5, <2>1, <2>2, <2>3 DEF Settled
  <2>4. CASE rows'[a].version = rows[a].version + 1
    BY <2>2, <2>4 DEF Rows
  <2> QED  BY <1>5, <2>1, <2>3, <2>4
<1>7. PurgedStaysPurged'
  <2>1. SUFFICES ASSUME tenant = "DELETED" PROVE rows' = rows
    BY <1>3 DEF RetentionInv, PurgedStaysPurged
  <2>2. \A a \in Artifacts : rows[a].status = "NONE"
    <3>1. \A a \in Artifacts : rows[a] = NoRow
      BY <2>1 DEF RetentionInv, PurgedStaysPurged
    <3>2. NoRow.status = "NONE"
      BY DEF NoRow
    <3> QED  BY <3>1, <3>2
  <2>3. CASE PutNext
    <3>1. PICK w \in Writers : PutStep(w)
      BY <1>1, <2>3, PutSteps
    <3> QED  BY <1>1, <2>1, <2>2, <3>1
                DEF PutStep, PutClaims, PutWaits, PutLeaves, PutStores, PutPublishes,
                    PutIsRefused, PutRemoves, PutReleases, Matches, CallsNamed
  <2>4. CASE DeleteNext
    <3>1. PICK d \in Deleters : DeleteStep(d)
      BY <1>1, <2>4, DeleteSteps
    <3> QED  BY <1>1, <2>2, <3>1
                DEF DeleteStep, DeleteMarks, DeleteLeaves, DeleteRemoves, DeleteIsRefused,
                    DeleteEnds, DeleteReverts, Matches, CallsNamed
  <2> QED  BY <1>1, <2>3, <2>4 DEF StoreNext
<1> QED
  BY <1>1, <1>2, <1>3, <1>4, <1>6, <1>7 DEF RetentionInv, Shaped, StoreInv, OneRequest, Active

\* The tenant is neither deleted nor brought back to life.
TenantAsBefore ==
    /\ (tenant' = "DELETED") <=> (tenant = "DELETED")
    /\ tenant' = "ACTIVE" => tenant = "ACTIVE"

\* A step that leaves rows and calls alone and removes objects at most, of a
\* tenant that is not ACTIVE.
LEMMA StoreInvFrame ==
    ASSUME RetentionInv, UNCHANGED <<rows, writers, deleters, faults>>,
           objects' \subseteq objects, tenant = "ACTIVE" => objects' = objects,
           TenantAsBefore
    PROVE  StoreInv' /\ PurgedStaysPurged'
<1>1. CallsNamed' /\ PurgedStaysPurged'
  BY DEF RetentionInv, StoreInv, CallsNamed, PurgedStaysPurged, TenantAsBefore
<1>2. ASSUME tenant' # "DELETED", tenant # "DELETED"
      PROVE  PutInv' /\ DeleteInv' /\ ObjectInv' /\ FaultlessInv'
  <2>1. PutInv /\ DeleteInv /\ ObjectInv /\ FaultlessInv
    BY <1>2 DEF RetentionInv, StoreInv
  <2>2. PutInv' /\ DeleteInv'
    BY <2>1 DEF PutInv, DeleteInv, Busy, Deleting, Matches
  <2>3. ObjectInv'
    BY <2>1 DEF ObjectInv
  <2>4. FaultlessInv'
    BY <2>1 DEF FaultlessInv, Busy, Deleting, Matches, TenantAsBefore
  <2> QED  BY <2>2, <2>3, <2>4
<1> QED
  BY <1>1, <1>2 DEF StoreInv, TenantAsBefore

\* A step that no executor takes and that leaves the store alone.
LEMMA ExecutorsFrame ==
    ASSUME RetentionInv, UNCHANGED <<rows, objects, executors>>,
           TenantAsBefore
    PROVE  ExecutorInv'
BY DEF RetentionInv, ExecutorInv, Through, Settled, TenantAsBefore

\* An executor comes to rest, or goes on to report a failure.
LEMMA ExecutorStops ==
    ASSUME RetentionInv, NEW x \in Executors, UNCHANGED rows, objects' \subseteq objects,
           \/ executors' = [executors EXCEPT ![x] = IdleExecutor]
           \/ /\ executors[x].pc # "idle"
              /\ executors' = [executors EXCEPT ![x] = [executors[x] EXCEPT !.pc = "failing"]],
           TenantAsBefore
    PROVE  executors' \in [Executors -> Execution] /\ ExecutorInv'
<1>1. executors \in [Executors -> Execution] /\ ExecutorInv
  BY DEF RetentionInv, Shaped
<1>2. executors' \in [Executors -> Execution]
  <2>1. [executors[x] EXCEPT !.pc = "failing"] \in Execution
    BY <1>1, SMTT(60) DEF Execution
  <2> QED  BY <1>1, <2>1, IdleShaped
<1>3. \A y \in Executors : y # x => executors'[y] = executors[y]
  BY <1>1
<1>4. \/ executors'[x].pc = "idle"
      \/ /\ executors'[x].pc = "failing" /\ executors[x].pc # "idle"
         /\ executors'[x].deletion = executors[x].deletion
  BY <1>1 DEF Execution, IdleExecutor
<1>5. \A y \in Executors : y # x /\ executors'[y].pc # "idle"
          => /\ tenant' # "ACTIVE" /\ executors'[y].deletion \in Deletions
             /\ executors'[y].pc = "removing" /\ tenant' # "DELETED" => Through(y)'
  BY <1>1, <1>3 DEF ExecutorInv, Through, TenantAsBefore
<1> QED
  BY <1>1, <1>2, <1>4, <1>5 DEF ExecutorInv, TenantAsBefore

LEMMA QuietStep ==
    ASSUME RetentionInv, JobRuns \/ JobEnds \/ (\E d \in Deletions : ClaimLapses(d))
                         \/ UNCHANGED retentionVars
    PROVE  RetentionInv'
<1>1. UNCHANGED <<storeVars, executors, providerFaults>>
  BY DEF JobRuns, JobEnds, ClaimLapses, retentionVars
<1>2. running' \in BOOLEAN
  BY DEF RetentionInv, Shaped, JobRuns, JobEnds, ClaimLapses, retentionVars
<1>3. deletions' \in [Deletions -> Claim] /\ \A d \in Deletions : deletions'[d].state = deletions[d].state
  <2>1. deletions \in [Deletions -> Claim]
    BY DEF RetentionInv, Shaped
  <2>2. ASSUME NEW d \in Deletions, ClaimLapses(d) 
        PROVE  /\ deletions' \in [Deletions -> Claim]
               /\ \A e \in Deletions : deletions'[e].state = deletions[e].state
    BY <2>1, <2>2 DEF ClaimLapses, Claim
  <2>3. CASE deletions' = deletions
    BY <2>1, <2>3
  <2> QED  BY <2>2, <2>3 DEF JobRuns, JobEnds, retentionVars
<1>4. StoreInv' /\ PurgedStaysPurged'
  BY <1>1, StoreInvFrame DEF storeVars, TenantAsBefore
<1>5. ExecutorInv'
  BY <1>1, ExecutorsFrame DEF storeVars, TenantAsBefore
<1>6. Shaped'
  BY <1>1, <1>2, <1>3 DEF RetentionInv, Shaped, StoreShaped, storeVars
<1>7. OneRequest'
  BY <1>3 DEF RetentionInv, OneRequest, Active
<1> QED
  BY <1>4, <1>5, <1>6, <1>7 DEF RetentionInv

LEMMA ScheduleStep ==
    ASSUME RetentionInv, NEW d \in Deletions, Request(d) \/ ScheduleDue(d)
    PROVE  RetentionInv'
<1>1. Schedule(d) /\ tenant # "DELETED"
  BY DEF Request, ScheduleDue
<1>2. /\ UNCHANGED <<rows, objects, writers, deleters, calls, faults, running, executors, providerFaults>>
      /\ tenant' \in {"SUSPENDED", tenant}
      /\ tenant' # "ACTIVE"
  BY <1>1 DEF Schedule
<1>3. TenantAsBefore /\ tenant' \in {"ACTIVE", "SUSPENDED", "DELETING", "DELETED"}
  BY <1>1, <1>2 DEF TenantAsBefore, RetentionInv, Shaped, StoreShaped
<1>4. /\ deletions' \in [Deletions -> Claim]
      /\ \A e \in Deletions : e # d => deletions'[e] = deletions[e]
      /\ \A e \in Deletions : ~Active(e)
  BY <1>1 DEF Schedule, NoClaim, RetentionInv, Shaped, Claim
<1>5. OneRequest'
  BY <1>4 DEF OneRequest, Active
<1>6. Shaped'
  BY <1>2, <1>3, <1>4 DEF RetentionInv, Shaped, StoreShaped
<1>7. StoreInv' /\ PurgedStaysPurged'
  BY <1>2, <1>3, StoreInvFrame
<1>8. ExecutorInv'
  BY <1>2, <1>3, ExecutorsFrame
<1> QED
  BY <1>5, <1>6, <1>7, <1>8 DEF RetentionInv

LEMMA ClaimStep ==
    ASSUME RetentionInv, NEW x \in Executors, NEW d \in Deletions, ClaimNext(x, d)
    PROVE  RetentionInv'
<1> DEFINE state == [pc |-> "removing", deletion |-> d, version |-> deletions[d].version + 1,
                     snapshot |-> rows,
                     todo |-> {a \in Artifacts : rows[a].status # "NONE"}]
<1>1. /\ UNCHANGED <<rows, objects, writers, deleters, calls, faults, running, providerFaults>>
      /\ tenant' = "DELETING" /\ tenant # "DELETED" /\ Active(d)
      /\ executors' = [executors EXCEPT ![x] = state]
      /\ deletions' = [deletions EXCEPT ![d] = [state |-> "RUNNING", version |-> deletions[d].version + 1,
                                                owner |-> x, lapsed |-> FALSE]]
  BY DEF ClaimNext, Executor, Active
<1>2. /\ executors \in [Executors -> Execution] /\ deletions \in [Deletions -> Claim]
      /\ rows \in [Artifacts -> Rows] /\ StoreShaped
  BY DEF RetentionInv, Shaped, StoreShaped
<1>3. deletions[d].version + 1 \in Nat
  BY <1>2 DEF Claim
<1>4. state \in Execution
  BY <1>2, <1>3 DEF Execution
<1>5. /\ state.pc = "removing" /\ state.deletion = d /\ state.snapshot = rows
      /\ \A a \in Artifacts : a \notin state.todo => rows[a].status = "NONE"
  OBVIOUS
<1> HIDE DEF state
<1>6. /\ executors' \in [Executors -> Execution] /\ executors'[x] = state
      /\ \A y \in Executors : y # x => executors'[y] = executors[y]
  BY <1>1, <1>2, <1>4
<1>7. /\ deletions' \in [Deletions -> Claim]
      /\ \A e \in Deletions : e # d => deletions'[e] = deletions[e]
  BY <1>1, <1>2, <1>3 DEF Claim
<1>8. Shaped'
  BY <1>1, <1>6, <1>7 DEF RetentionInv, Shaped, StoreShaped
<1>9. OneRequest'
  BY <1>1, <1>7 DEF RetentionInv, OneRequest, Active
<1>10. StoreInv' /\ PurgedStaysPurged'
  BY <1>1, StoreInvFrame DEF TenantAsBefore
<1>11. Through(x)'
  <2>1. \A a \in Artifacts : rows[a].status = "NONE" => a \notin objects
    BY <1>1 DEF RetentionInv, StoreInv, ObjectInv
  <2>2. \A a \in Artifacts : rows[a].version \in Nat
    BY <1>2 DEF Rows
  <2> QED  BY <1>1, <1>5, <1>6, <2>1, <2>2 DEF Through, Settled
<1>12. ASSUME NEW y \in Executors, executors'[y].pc # "idle"
       PROVE  executors'[y].deletion \in Deletions /\ (executors'[y].pc = "removing" => Through(y)')
  <2>1. CASE y = x
    BY <1>5, <1>6, <1>11, <2>1
  <2>2. CASE y # x
    BY <1>1, <1>6, <1>12, <2>2 DEF RetentionInv, ExecutorInv, Through
  <2> QED  BY <2>1, <2>2
<1>13. ExecutorInv'
  BY <1>1, <1>12 DEF ExecutorInv
<1> QED
  BY <1>8, <1>9, <1>10, <1>13 DEF RetentionInv

LEMMA RemoveStep ==
    ASSUME RetentionInv, NEW x \in Executors, NEW a \in Artifacts, RemoveObject(x, a)
    PROVE  RetentionInv'
<1>1. /\ UNCHANGED <<tenant, rows, writers, deleters, calls, faults, running, deletions, providerFaults>>
      /\ executors[x].pc = "removing" /\ objects' = objects \ {a}
      /\ executors' = [executors EXCEPT ![x] = [executors[x] EXCEPT !.todo = @ \ {a}]]
      /\ Settled(executors[x].snapshot[a])
  BY DEF RemoveObject, Executor
<1>2. executors \in [Executors -> Execution]
  BY DEF RetentionInv, Shaped
<1>3. /\ executors' \in [Executors -> Execution]
      /\ executors'[x].pc = "removing" /\ executors'[x].deletion = executors[x].deletion
      /\ executors'[x].snapshot = executors[x].snapshot
      /\ executors'[x].todo = executors[x].todo \ {a}
      /\ \A y \in Executors : y # x => executors'[y] = executors[y]
  BY <1>1, <1>2 DEF Execution
<1>4. tenant # "ACTIVE"
  BY <1>1 DEF RetentionInv, ExecutorInv
<1>5. StoreInv' /\ PurgedStaysPurged'
  BY <1>1, <1>4, StoreInvFrame DEF TenantAsBefore
<1>6. Shaped' /\ OneRequest'
  BY <1>1, <1>3 DEF RetentionInv, Shaped, StoreShaped, OneRequest, Active
<1>7. ASSUME Through(x) PROVE Through(x)'
  BY <1>1, <1>3, <1>7 DEF Through, Settled
<1>8. ASSUME NEW y \in Executors, y # x, Through(y) PROVE Through(y)'
  BY <1>1, <1>3, <1>8 DEF Through, Settled
<1>9. ExecutorInv'
  BY <1>1, <1>3, <1>7, <1>8 DEF RetentionInv, ExecutorInv
<1> QED
  BY <1>5, <1>6, <1>9 DEF RetentionInv

LEMMA StopStep ==
    ASSUME RetentionInv, NEW x \in Executors,
           \/ ExecutorCrash(x)
           \/ \E a \in Artifacts : FindUnsettled(x, a) \/ RemoveFails(x, a)
    PROVE  RetentionInv'
<1>1. /\ UNCHANGED <<tenant, rows, writers, deleters, calls, faults, running, deletions>>
      /\ objects' \subseteq objects /\ executors[x].pc # "idle"
      /\ \/ executors' = [executors EXCEPT ![x] = IdleExecutor]
         \/ executors' = [executors EXCEPT ![x] = [executors[x] EXCEPT !.pc = "failing"]]
  BY DEF ExecutorCrash, FindUnsettled, RemoveFails, Executor, storeVars
<1>2. providerFaults' \in 0..MaxProviderFaults
  BY RetentionAssumption DEF RetentionInv, Shaped, ExecutorCrash, FindUnsettled, RemoveFails
<1>3. executors' \in [Executors -> Execution] /\ ExecutorInv'
  BY <1>1, ExecutorStops DEF TenantAsBefore
<1>4. tenant # "ACTIVE"
  BY <1>1 DEF RetentionInv, ExecutorInv
<1>5. StoreInv' /\ PurgedStaysPurged'
  BY <1>1, <1>4, StoreInvFrame DEF TenantAsBefore
<1>6. Shaped' /\ OneRequest'
  BY <1>1, <1>2, <1>3 DEF RetentionInv, Shaped, StoreShaped, OneRequest, Active
<1> QED
  BY <1>3, <1>5, <1>6 DEF RetentionInv

\* The claim an executor holds is a request's row after it is ended.
LEMMA EndedRequest ==
    ASSUME RetentionInv, NEW d \in Deletions, NEW state \in {"FAILED", "COMPLETED"},
           deletions' = [deletions EXCEPT ![d] = [state |-> state, version |-> @.version + 1,
                                                 owner |-> NoExecutor, lapsed |-> FALSE]]
    PROVE  deletions' \in [Deletions -> Claim] /\ OneRequest'
<1>1. deletions \in [Deletions -> Claim] /\ deletions[d].version + 1 \in Nat
  BY DEF RetentionInv, Shaped, Claim
<1>2. /\ deletions' \in [Deletions -> Claim] /\ deletions'[d].state = state
      /\ \A e \in Deletions : e # d => deletions'[e] = deletions[e]
  BY <1>1 DEF Claim
<1> QED
  BY <1>2 DEF RetentionInv, OneRequest, Active

LEMMA MarkFailedStep ==
    ASSUME RetentionInv, NEW x \in Executors, MarkFailed(x)
    PROVE  RetentionInv'
<1>1. /\ UNCHANGED <<rows, objects, writers, deleters, calls, faults, running, providerFaults>>
      /\ executors[x].pc = "failing" /\ executors' = [executors EXCEPT ![x] = IdleExecutor]
      /\ tenant' \in {tenant, IF tenant = "DELETING" THEN "SUSPENDED" ELSE tenant}
  BY DEF MarkFailed, Executor
<1>2. TenantAsBefore /\ tenant' \in {"ACTIVE", "SUSPENDED", "DELETING", "DELETED"}
  BY <1>1 DEF TenantAsBefore, RetentionInv, Shaped, StoreShaped
<1>3. executors' \in [Executors -> Execution] /\ ExecutorInv'
  BY <1>1, <1>2, ExecutorStops
<1>4. StoreInv' /\ PurgedStaysPurged'
  BY <1>1, <1>2, StoreInvFrame
<1>5. deletions' \in [Deletions -> Claim] /\ OneRequest'
  <2>1. CASE HoldsClaim(x)
    <3>1. executors[x].deletion \in Deletions
      BY <1>1 DEF RetentionInv, ExecutorInv
    <3> QED  BY <2>1, <3>1, EndedRequest DEF MarkFailed
  <2>2. CASE ~HoldsClaim(x)
    BY <2>2 DEF MarkFailed, RetentionInv, Shaped, OneRequest, Active
  <2> QED  BY <2>1, <2>2
<1>6. Shaped'
  BY <1>1, <1>2, <1>3, <1>5 DEF RetentionInv, Shaped, StoreShaped
<1> QED
  BY <1>3, <1>4, <1>5, <1>6 DEF RetentionInv

LEMMA CompleteStep ==
    ASSUME RetentionInv, NEW x \in Executors, Complete(x)
    PROVE  RetentionInv'
<1>1. /\ UNCHANGED <<objects, writers, deleters, calls, faults, running, providerFaults>>
      /\ executors[x].pc = "removing" /\ executors' = [executors EXCEPT ![x] = IdleExecutor]
  BY DEF Complete, Executor
<1>2. CASE HoldsClaim(x) /\ tenant = "DELETING"
  <2>1. /\ rows' = [a \in Artifacts |-> NoRow] /\ tenant' = "DELETED"
        /\ deletions' = [deletions EXCEPT ![executors[x].deletion] =
                            [state |-> "COMPLETED", version |-> @.version + 1,
                             owner |-> NoExecutor, lapsed |-> FALSE]]
    BY <1>2 DEF Complete
  <2>2. executors[x].deletion \in Deletions
    BY <1>1 DEF RetentionInv, ExecutorInv
  <2>3. deletions' \in [Deletions -> Claim] /\ OneRequest'
    BY <2>1, <2>2, EndedRequest
  <2>4. executors' \in [Executors -> Execution]
    BY <1>1, IdleShaped DEF RetentionInv, Shaped
  <2>5. rows' \in [Artifacts -> Rows] /\ \A a \in Artifacts : rows'[a] = NoRow
    BY <2>1, IdleShaped
  <2>6. \A a \in Artifacts : rows'[a].version = 0
    BY <2>5 DEF NoRow
  <2>7. Shaped'
    BY <1>1, <2>1, <2>3, <2>4, <2>5, <2>6 DEF RetentionInv, Shaped, StoreShaped
  <2>8. StoreInv' /\ PurgedStaysPurged'
    BY <1>1, <2>1, <2>5 DEF RetentionInv, StoreInv, CallsNamed, PurgedStaysPurged
  <2>9. ASSUME NEW y \in Executors, executors'[y].pc # "idle" PROVE executors'[y] = executors[y]
    BY <1>1, <2>9 DEF RetentionInv, Shaped, IdleExecutor
  <2>10. ExecutorInv'
    BY <2>1, <2>9 DEF RetentionInv, ExecutorInv
  <2> QED  BY <2>3, <2>7, <2>8, <2>10 DEF RetentionInv
<1>3. CASE ~(HoldsClaim(x) /\ tenant = "DELETING")
  <2>1. UNCHANGED <<rows, deletions, tenant>>
    BY <1>3 DEF Complete
  <2>2. executors' \in [Executors -> Execution] /\ ExecutorInv'
    BY <1>1, <2>1, ExecutorStops DEF TenantAsBefore
  <2>3. StoreInv' /\ PurgedStaysPurged'
    BY <1>1, <2>1, StoreInvFrame DEF TenantAsBefore
  <2>4. Shaped' /\ OneRequest'
    BY <1>1, <2>1, <2>2 DEF RetentionInv, Shaped, StoreShaped, OneRequest, Active
  <2> QED  BY <2>2, <2>3, <2>4 DEF RetentionInv
<1> QED
  BY <1>2, <1>3

LEMMA RetentionStep ==
    ASSUME RetentionInv, [RetentionNext]_retentionVars PROVE RetentionInv'
<1>1. ASSUME NEW x \in Executors, ExecuteNext(x) PROVE RetentionInv'
  BY <1>1, ClaimStep, RemoveStep, StopStep, MarkFailedStep, CompleteStep DEF ExecuteNext
<1>2. ASSUME NEW x \in Executors, NEW a \in Artifacts, RemoveFails(x, a) PROVE RetentionInv'
  BY <1>2, StopStep
<1> QED
  BY <1>1, <1>2, StoreKeeps, QuietStep, ScheduleStep, StopStep DEF RetentionNext

----------------------------------------------------------------------------
(* The theorems.                                                           *)

\* The inductive invariant of deletion and of the store under it.
THEOREM RetentionInvariant == RetentionSpec => []RetentionInv
BY RetentionInitInv, RetentionStep, PTL DEF RetentionSpec

\* Rows, calls, requests and executors keep their types.
THEOREM RetentionTyped == RetentionSpec => []RetentionTypeOK
<1>1. RetentionInv => RetentionTypeOK
  <2>1. SUFFICES ASSUME RetentionInv PROVE RetentionTypeOK
    OBVIOUS
  <2>2. StoreTypeOK
    BY <2>1 DEF RetentionInv, Shaped, StoreShaped, StoreTypeOK, Rows, PutCall, DeleteCall
  <2>3. \A x \in Executors :
          /\ executors[x].pc \in {"idle", "removing", "failing"}
          /\ executors[x].deletion \in Deletions \cup {NoDeletion}
          /\ executors[x].todo \subseteq Artifacts
    BY <2>1 DEF RetentionInv, Shaped, Execution
  <2> QED  BY <2>1, <2>2, <2>3 DEF RetentionInv, Shaped, RetentionTypeOK, Claim
<1> QED
  BY <1>1, RetentionInvariant, PTL

\* While its tenant is ACTIVE and no call that took effect has thrown, an AVAILABLE
\* artifact has its object: no put, delete or deletion takes another one's away.
THEOREM ContentIsThere == RetentionSpec => []AvailableHasObject
<1>1. RetentionInv => AvailableHasObject
  BY DEF RetentionInv, StoreInv, FaultlessInv, AvailableHasObject
<1> QED
  BY <1>1, RetentionInvariant, PTL

\* A finished delete leaves no object behind, whatever fails and whoever crashes.
THEOREM DeletesAreComplete == RetentionSpec => []DeletedHasNoObject
<1>1. RetentionInv => DeletedHasNoObject
  <2>1. SUFFICES ASSUME RetentionInv, NEW a \in Artifacts, rows[a].status = "DELETED"
                 PROVE  a \notin objects
    BY DEF DeletedHasNoObject
  <2>2. tenant # "DELETED"
    BY <2>1 DEF RetentionInv, PurgedStaysPurged, NoRow
  <2> QED  BY <2>1, <2>2 DEF RetentionInv, StoreInv, ObjectInv
<1> QED
  BY <1>1, RetentionInvariant, PTL

\* A deleted tenant never owns an artifact row again, whatever puts and deletes of
\* its own were half-way.
THEOREM PurgeIsFinal == RetentionSpec => []PurgedStaysPurged
<1>1. RetentionInv => PurgedStaysPurged
  BY DEF RetentionInv
<1> QED
  BY <1>1, RetentionInvariant, PTL

\* Rows are purged only after the objects the executor saw behind them are gone,
\* by whichever executor holds the claim.
THEOREM ObjectsGoFirst == RetentionSpec => ProviderFirst
<1> DEFINE Purge == \A x \in Executors, a \in Artifacts :
                /\ tenant # "DELETED" /\ tenant' = "DELETED"
                /\ executors[x].pc = "removing" /\ HoldsClaim(x)
                /\ rows[a] = executors[x].snapshot[a]
                => a \notin objects
<1>1. ASSUME RetentionInv, RetentionNext, NEW x \in Executors, NEW a \in Artifacts,
             tenant # "DELETED", tenant' = "DELETED",
             executors[x].pc = "removing", HoldsClaim(x), rows[a] = executors[x].snapshot[a]
      PROVE  a \notin objects
  <2>1. PICK y \in Executors : Complete(y)
    <3>1. ASSUME Store PROVE FALSE
      BY <1>1, <3>1, PutSteps, DeleteSteps DEF Store, StoreNext, RetentionInv, Shaped, StoreInv
    <3> QED
      BY <1>1, <3>1
         DEF RetentionNext, ExecuteNext, JobRuns, JobEnds, Request, ScheduleDue, Schedule, ClaimLapses,
             ClaimNext, RemoveObject, FindUnsettled, RemoveFails, MarkFailed, ExecutorCrash, storeVars
  <2>2. executors[y].pc = "removing" /\ executors[y].todo = {} /\ HoldsClaim(y)
    BY <1>1, <2>1 DEF Complete
  <2>3. executors[x].deletion \in Deletions /\ executors[y].deletion \in Deletions
    BY <1>1, <2>2 DEF RetentionInv, ExecutorInv
  <2>4. executors[x].deletion = executors[y].deletion
    BY <1>1, <2>2, <2>3 DEF RetentionInv, OneRequest, Active, HoldsClaim
  <2>5. x = y
    BY <1>1, <2>2, <2>4 DEF HoldsClaim
  <2> QED
    BY <1>1, <2>2, <2>5 DEF RetentionInv, ExecutorInv, Through
<1>2. RetentionInv /\ [RetentionNext]_retentionVars => [Purge]_retentionVars
  BY <1>1
<1> QED
  BY <1>2, RetentionInvariant, PTL DEF RetentionSpec, ProviderFirst
=============================================================================
