--------------------------- MODULE ArtifactStore ----------------------------
(***************************************************************************)
(* The content-addressed artifact store: rows of table artifacts in        *)
(* PostgreSQL beside objects in a private blob store, with no transaction  *)
(* across the two.  A put claims the row, uploads, and finalizes the row;  *)
(* a delete marks the row, removes the object, and finalizes.  Each step   *)
(* is a separate call that may fail or be the last one before a crash.     *)
(*                                                                         *)
(* The object key contains the digest of the bytes and every upload is of  *)
(* the bytes of its key, so an object is either there or not.              *)
(***************************************************************************)
EXTENDS Integers

CONSTANTS
    Artifacts,      \* artifact identities (case, kind, digest) of one tenant
    Writers,        \* processes that execute put
    Deleters,       \* processes that execute delete
    MaxCalls,       \* bound on the put and delete calls of one behaviour
    MaxFaults,      \* bound on the faults of one behaviour: a call whose effect
                    \* and whose answer disagree
    NoArtifact      \* a process that is not in a call

ASSUME StoreAssumption ==
    /\ MaxCalls \in Nat
    /\ MaxFaults \in Nat
    /\ NoArtifact \notin Artifacts

VARIABLES
    tenant,   \* tenants.status
    rows,     \* rows[a]: the row of table artifacts
    objects,  \* artifacts whose object the blob provider holds
    writers,  \* writers[w]: the local state of a put
    deleters, \* deleters[d]: the local state of a delete
    calls,    \* put and delete calls begun so far
    faults    \* calls that threw although they may have taken effect

storeVars == <<tenant, rows, objects, writers, deleters, calls, faults>>

NoRow == [status |-> "NONE", version |-> 0]
IdleCall == [pc |-> "idle", artifact |-> NoArtifact, version |-> 0]

StoreTypeOK ==
    /\ tenant \in {"ACTIVE", "SUSPENDED", "DELETING", "DELETED"}
    /\ rows \in [Artifacts -> [status: {"NONE", "PENDING", "AVAILABLE", "FAILED", "DELETING", "DELETED"},
                               version: Nat]]
    /\ objects \subseteq Artifacts
    /\ writers \in [Writers -> [pc: {"idle", "conflict", "reclaiming", "uploading",
                                     "finalizing", "compensating", "failing"},
                                artifact: Artifacts \cup {NoArtifact}, version: Nat]]
    /\ deleters \in [Deleters -> [pc: {"idle", "removing", "finalizing", "reverting"},
                                  artifact: Artifacts \cup {NoArtifact}, version: Nat]]
    /\ calls \in 0..MaxCalls
    /\ faults \in 0..MaxFaults

StoreInit ==
    /\ tenant = "ACTIVE"
    /\ rows = [a \in Artifacts |-> NoRow]
    /\ objects = {}
    /\ writers = [w \in Writers |-> IdleCall]
    /\ deleters = [d \in Deleters |-> IdleCall]
    /\ calls = 0
    /\ faults = 0

\* An UPDATE ... WHERE status = expected AND version = $version.
Matches(a, status, version) == rows[a].status = status /\ rows[a].version = version

Moved(a, status) == [rows EXCEPT ![a] = [status |-> status, version |-> @.version + 1]]

Writer(w, state) == writers' = [writers EXCEPT ![w] = state]
WriterGoto(w, pc) == Writer(w, [writers[w] EXCEPT !.pc = pc])
Deleter(d, state) == deleters' = [deleters EXCEPT ![d] = state]

\* What a conditional UPDATE whose answer was lost may have left behind.
CommittedAnyway(call, from, to) ==
    {Moved(a, to) : a \in {a \in {call.artifact} : Matches(a, from, call.version)}}

NewCall == calls < MaxCalls /\ calls' = calls + 1
Fault == faults < MaxFaults /\ faults' = faults + 1

----------------------------------------------------------------------------
(* put                                                                     *)

\* The insert does not look at the tenant.
PutInsertMutant(w, a) ==
    /\ writers[w].pc = "idle"
    /\ NewCall
    /\ IF rows[a].status = "NONE"
       THEN /\ rows' = [rows EXCEPT ![a] = [status |-> "PENDING", version |-> 1]]
            /\ Writer(w, [pc |-> "uploading", artifact |-> a, version |-> 1])
       ELSE /\ Writer(w, [pc |-> "conflict", artifact |-> a, version |-> 0])
            /\ UNCHANGED rows
    /\ UNCHANGED <<tenant, objects, deleters, faults>>

\* The first transaction of put: only an ACTIVE tenant may write.  A new row is
\* PENDING and owned by this call; an existing one is a conflict.  For any
\* other tenant the call throws at once, which changes nothing.
PutInsert(w, a) ==
    /\ writers[w].pc = "idle"
    /\ tenant = "ACTIVE"
    /\ NewCall
    /\ IF rows[a].status = "NONE"
       THEN /\ rows' = [rows EXCEPT ![a] = [status |-> "PENDING", version |-> 1]]
            /\ Writer(w, [pc |-> "uploading", artifact |-> a, version |-> 1])
       ELSE /\ Writer(w, [pc |-> "conflict", artifact |-> a, version |-> 0])
            /\ UNCHANGED rows
    /\ UNCHANGED <<tenant, objects, deleters, faults>>

\* findByIdentity after the conflict.  An AVAILABLE row is the answer (or an
\* integrity error), a FAILED one may be taken over, any other status throws.
PutFind(w) ==
    LET a == writers[w].artifact IN
    /\ writers[w].pc = "conflict"
    /\ Writer(w, IF rows[a].status = "FAILED"
                 THEN [pc |-> "reclaiming", artifact |-> a, version |-> rows[a].version]
                 ELSE IdleCall)
    /\ UNCHANGED <<tenant, rows, objects, deleters, calls, faults>>

\* Taking a FAILED row over compares nothing.
PutReclaimMutant(w) ==
    LET a == writers[w].artifact IN
    /\ writers[w].pc = "reclaiming"
    /\ rows' = Moved(a, "PENDING")
    /\ Writer(w, [pc |-> "uploading", artifact |-> a, version |-> rows[a].version + 1])
    /\ UNCHANGED <<tenant, objects, deleters, calls, faults>>

\* The conditional UPDATE from FAILED back to PENDING.  It does not look at the
\* tenant again.
PutReclaim(w) ==
    LET a == writers[w].artifact IN
    /\ writers[w].pc = "reclaiming"
    /\ IF Matches(a, "FAILED", writers[w].version)
       THEN /\ rows' = Moved(a, "PENDING")
            /\ Writer(w, [pc |-> "uploading", artifact |-> a, version |-> rows[a].version + 1])
       ELSE Writer(w, IdleCall) /\ UNCHANGED rows
    /\ UNCHANGED <<tenant, objects, deleters, calls, faults>>

\* The upload succeeds, or it fails and the object turns out to be there: one
\* left by an earlier call (allowOverwrite is false) or by this one.
PutUpload(w) ==
    /\ writers[w].pc = "uploading"
    /\ objects' = objects \cup {writers[w].artifact}
    /\ WriterGoto(w, "finalizing")
    /\ UNCHANGED <<tenant, rows, deleters, calls, faults>>

\* The upload throws and the object cannot be read back.
PutUploadFails(w) ==
    /\ writers[w].pc = "uploading"
    /\ objects' \in {objects, objects \cup {writers[w].artifact}}
    /\ WriterGoto(w, "compensating")
    /\ UNCHANGED <<tenant, rows, deleters, calls, faults>>

PutFinalize(w) ==
    LET a == writers[w].artifact IN
    /\ writers[w].pc = "finalizing"
    /\ IF Matches(a, "PENDING", writers[w].version)
       THEN rows' = Moved(a, "AVAILABLE") /\ Writer(w, IdleCall)
       ELSE WriterGoto(w, "compensating") /\ UNCHANGED rows
    /\ UNCHANGED <<tenant, objects, deleters, calls, faults>>

\* The finalizing UPDATE throws; it may have committed.
PutFinalizeThrows(w) ==
    /\ Fault
    /\ writers[w].pc = "finalizing"
    /\ rows' \in {rows} \cup CommittedAnyway(writers[w], "PENDING", "AVAILABLE")
    /\ WriterGoto(w, "compensating")
    /\ UNCHANGED <<tenant, objects, deleters, calls>>

\* The catch block removes the object, ignoring whether it could.
PutCompensate(w) ==
    /\ writers[w].pc = "compensating"
    /\ objects' \in {objects, objects \ {writers[w].artifact}}
    /\ WriterGoto(w, "failing")
    /\ UNCHANGED <<tenant, rows, deleters, calls, faults>>

\* ... and then gives the row up.
PutGiveUp(w) ==
    LET a == writers[w].artifact IN
    /\ writers[w].pc = "failing"
    /\ rows' = IF Matches(a, "PENDING", writers[w].version) THEN Moved(a, "FAILED") ELSE rows
    /\ Writer(w, IdleCall)
    /\ UNCHANGED <<tenant, objects, deleters, calls, faults>>

WriterCrash(w) ==
    /\ writers[w].pc # "idle"
    /\ Writer(w, IdleCall)
    /\ UNCHANGED <<tenant, rows, objects, deleters, calls, faults>>

----------------------------------------------------------------------------
(* delete                                                                  *)

\* An AVAILABLE row becomes DELETING, if it still has the version just read.
DeleteMark(d, a) ==
    /\ deleters[d].pc = "idle"
    /\ rows[a].status = "AVAILABLE"
    /\ NewCall
    /\ rows' = Moved(a, "DELETING")
    /\ Deleter(d, [pc |-> "removing", artifact |-> a, version |-> rows[a].version + 1])
    /\ UNCHANGED <<tenant, objects, writers, faults>>

\* A refusal of the provider is taken for a removal.
DeleteRemoveMutant(d) ==
    /\ deleters[d].pc = "removing"
    /\ objects' \in {objects, objects \ {deleters[d].artifact}}
    /\ Deleter(d, [deleters[d] EXCEPT !.pc = "finalizing"])
    /\ UNCHANGED <<tenant, rows, writers, calls, faults>>

\* The object is removed, or was gone already.
DeleteRemove(d) ==
    /\ deleters[d].pc = "removing"
    /\ objects' = objects \ {deleters[d].artifact}
    /\ Deleter(d, [deleters[d] EXCEPT !.pc = "finalizing"])
    /\ UNCHANGED <<tenant, rows, writers, calls, faults>>

\* The provider refuses, and the object is still there.
DeleteRemoveFails(d) ==
    /\ deleters[d].pc = "removing"
    /\ Deleter(d, [deleters[d] EXCEPT !.pc = "reverting"])
    /\ UNCHANGED <<tenant, rows, objects, writers, calls, faults>>

\* The removal takes effect, but its answer or the head request after it throws.
DeleteRemoveThrows(d) ==
    /\ Fault
    /\ deleters[d].pc = "removing"
    /\ objects' = objects \ {deleters[d].artifact}
    /\ Deleter(d, [deleters[d] EXCEPT !.pc = "reverting"])
    /\ UNCHANGED <<tenant, rows, writers, calls>>

DeleteFinalize(d) ==
    LET a == deleters[d].artifact IN
    /\ deleters[d].pc = "finalizing"
    /\ IF Matches(a, "DELETING", deleters[d].version)
       THEN rows' = Moved(a, "DELETED") /\ Deleter(d, IdleCall)
       ELSE Deleter(d, [deleters[d] EXCEPT !.pc = "reverting"]) /\ UNCHANGED rows
    /\ UNCHANGED <<tenant, objects, writers, calls, faults>>

\* The finalizing UPDATE throws with the object removed already; it may have
\* committed.
DeleteFinalizeThrows(d) ==
    /\ Fault
    /\ deleters[d].pc = "finalizing"
    /\ rows' \in {rows} \cup CommittedAnyway(deleters[d], "DELETING", "DELETED")
    /\ Deleter(d, [deleters[d] EXCEPT !.pc = "reverting"])
    /\ UNCHANGED <<tenant, objects, writers, calls>>

\* The catch block makes the row AVAILABLE again.
DeleteRevert(d) ==
    LET a == deleters[d].artifact IN
    /\ deleters[d].pc = "reverting"
    /\ rows' = IF Matches(a, "DELETING", deleters[d].version) THEN Moved(a, "AVAILABLE") ELSE rows
    /\ Deleter(d, IdleCall)
    /\ UNCHANGED <<tenant, objects, writers, calls, faults>>

DeleterCrash(d) ==
    /\ deleters[d].pc # "idle"
    /\ Deleter(d, IdleCall)
    /\ UNCHANGED <<tenant, rows, objects, writers, calls, faults>>

----------------------------------------------------------------------------
PutNext ==
    \E w \in Writers :
        \/ \E a \in Artifacts : PutInsert(w, a)
        \/ PutFind(w) \/ PutReclaim(w)
        \/ PutUpload(w) \/ PutUploadFails(w)
        \/ PutFinalize(w) \/ PutFinalizeThrows(w)
        \/ PutCompensate(w) \/ PutGiveUp(w)
        \/ WriterCrash(w)

DeleteNext ==
    \E d \in Deleters :
        \/ \E a \in Artifacts : DeleteMark(d, a)
        \/ DeleteRemove(d) \/ DeleteRemoveFails(d) \/ DeleteRemoveThrows(d)
        \/ DeleteFinalize(d) \/ DeleteFinalizeThrows(d) \/ DeleteRevert(d)
        \/ DeleterCrash(d)

StoreNext == PutNext \/ DeleteNext

StoreSpec == StoreInit /\ [][StoreNext]_storeVars

----------------------------------------------------------------------------
Busy(w) == writers[w].pc \in {"uploading", "finalizing", "compensating", "failing"}

\* While its tenant is ACTIVE and no call that took effect has thrown, an AVAILABLE
\* artifact has its object, so a read cannot fail its integrity check and a
\* repeated put returns the first one.
AvailableHasObject ==
    tenant = "ACTIVE" /\ faults = 0 =>
        \A a \in Artifacts : rows[a].status = "AVAILABLE" => a \in objects

\* At most one put of an artifact is past its claim, so no put removes the
\* object another one has just stored.
OneUploader ==
    \A v, w \in Writers :
        Busy(v) /\ Busy(w) /\ writers[v].artifact = writers[w].artifact => v = w

\* Nothing is left behind by a finished delete.
DeletedHasNoObject ==
    \A a \in Artifacts : rows[a].status = "DELETED" => a \notin objects
=============================================================================
