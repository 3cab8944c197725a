---------------------------- MODULE TenantBackup ----------------------------
(***************************************************************************)
(* Export of a tenant to a portable file, and its restoration after the    *)
(* database was lost.  A behaviour begins with a tenant that is still      *)
(* empty, or after the loss, with the files that were exported before it.  *)
(*                                                                         *)
(* An export reads tenant, counts, reproductions, artifacts and objects    *)
(* one after the other, with no transaction around them, while the tenant  *)
(* goes on working.  A restore uploads the objects first, writes all rows  *)
(* in one transaction and then exports the result again to compare it;     *)
(* when the transaction fails it removes the objects it created, unless a  *)
(* row refers to them by then.  Several operators may run commands at the  *)
(* same time, and a command may die at any point.                          *)
(***************************************************************************)
EXTENDS Naturals

CONSTANTS
    Cases,        \* the tenant's cases; each has at most one artifact, its bundle
    Kept,         \* sets of archives that may have been kept when the database was lost
    Restorers,    \* runs of backup:restore
    Exporter,     \* one run of backup:export, or of an account export
    MaxExports,   \* bound on exports; none is made after a loss of the database
    MaxIncidents, \* bound on damaged files, failing calls of a restore and
                  \* commands that die, together
    NoFile        \* a command that has no file

ASSUME BackupAssumption ==
    /\ Exporter \notin Restorers
    /\ {MaxExports, MaxIncidents} \subseteq Nat

VARIABLES
    tenant,    \* status of the row in table tenants
    cases,     \* cases[c]: state of case, job and idempotency key together
    artifacts, \* artifacts[c]: status of the row in table artifacts, PENDING
               \* standing for FAILED too
    objects,   \* the cases whose bundle is in the blob store
    started,   \* the cases that were started in this database, and have a consumer
    files,     \* the portable files that operators keep
    exported,  \* history: the manifests an export has sealed
    session,   \* the row of table tenant_restore_sessions
    builders,  \* builders[b]: local state of buildArchive
    restorers, \* restorers[r]: local state of restoreTenant
    survivors, \* history: objects that outlived the loss of the database
    counted    \* how often each bounded event happened

tenantRows == <<tenant, cases, artifacts, session>>
history == <<exported, survivors>>
vars == <<tenantRows, objects, started, files, history, builders, restorers, counted>>

Builders == Restorers \cup {Exporter}

\* The states of a case, NOT_REPRODUCED standing for UNSTABLE too, and BLOCKED for
\* CANCELLED; the job of a BLOCKED case has FAILED or was CANCELLED, that of the
\* other two final states has SUCCEEDED.
CaseStates == {"NONE", "RUNNING", "VERIFIED", "NOT_REPRODUCED", "BLOCKED"}
Terminal == {"VERIFIED", "NOT_REPRODUCED", "BLOCKED"}
Succeeded == {"VERIFIED", "NOT_REPRODUCED"}

Manifest == [records: [Cases -> CaseStates], bundles: SUBSET Cases]
File == [manifest: Manifest, sha256: Manifest, objects: SUBSET Cases]
NoManifest == [records |-> [c \in Cases |-> "NONE"], bundles |-> {}]

IdleBuilder ==
    [pc |-> "idle", began |-> NoManifest, manifest |-> NoManifest, fetched |-> {}]
IdleRestorer == [pc |-> "idle", file |-> NoFile, uploaded |-> {}, created |-> {}]

TypeOK ==
    /\ tenant \in {"ABSENT", "ACTIVE", "DELETING", "DELETED"}
    /\ cases \in [Cases -> CaseStates]
    /\ artifacts \in [Cases -> {"NONE", "PENDING", "AVAILABLE"}]
    /\ objects \subseteq Cases
    /\ started \subseteq Cases
    /\ files \subseteq File
    /\ exported \subseteq Manifest
    /\ session \in [state: {"NONE", "RESTORED", "VERIFIED"}, sha256: Manifest]
    /\ builders \in [Builders ->
          [pc: {"idle", "tenant", "counts", "records", "artifacts", "objects", "corrupt", "sealed"},
           began: Manifest, manifest: Manifest, fetched: SUBSET Cases]]
    /\ restorers \in [Restorers ->
          [pc: {"idle", "inspecting", "uploading", "abandoning", "writing", "cleaning",
                "removing", "checking", "comparing"},
           file: File \cup {NoFile}, uploaded: SUBSET Cases, created: SUBSET Cases]]
    /\ survivors \subseteq Cases
    /\ counted \in [exports: 0..MaxExports, damages: 0..MaxIncidents,
                    faults: 0..MaxIncidents, crashes: 0..MaxIncidents]

Incident(event) ==
    /\ counted.damages + counted.faults + counted.crashes < MaxIncidents
    /\ counted' = [counted EXCEPT ![event] = @ + 1]

----------------------------------------------------------------------------
(* What happens meanwhile: the engine, the artifact store and retention, as *)
(* far as an export can tell.  They have modules of their own.             *)

Engine(c) ==
    /\ tenant = "ACTIVE"
    /\ UNCHANGED <<tenant, session, files, history, builders, restorers, counted>>

\* Case, job and key are written in one transaction; identifiers are not used twice.
StartCase(c) ==
    /\ Engine(c)
    /\ c \notin started \cup survivors
    /\ \A m \in exported : m.records[c] = "NONE"
    /\ started' = started \cup {c}
    /\ cases' = [cases EXCEPT ![c] = "RUNNING"]
    /\ UNCHANGED <<artifacts, objects>>

\* A consumer stores a bundle, even when it lost its lease.
PutBegins(c) ==
    /\ Engine(c)
    /\ c \in started
    /\ cases[c] # "NONE" /\ artifacts[c] = "NONE"
    /\ artifacts' = [artifacts EXCEPT ![c] = "PENDING"]
    /\ UNCHANGED <<cases, objects, started>>

PutEnds(c) ==
    /\ Engine(c)
    /\ artifacts[c] = "PENDING"
    /\ objects' = objects \cup {c}
    /\ artifacts' = [artifacts EXCEPT ![c] = "AVAILABLE"]
    /\ UNCHANGED <<cases, started>>

\* Case and job end together; a VERIFIED case has its bundle.
EndCase(c, state) ==
    /\ Engine(c)
    /\ cases[c] = "RUNNING"
    /\ state = "VERIFIED" => artifacts[c] = "AVAILABLE"
    /\ cases' = [cases EXCEPT ![c] = state]
    /\ UNCHANGED <<artifacts, objects, started>>

\* A deletion request suspends the tenant and its jobs are cancelled.
RequestDeletion ==
    /\ tenant = "ACTIVE"
    /\ tenant' = "DELETING"
    /\ cases' = [c \in Cases |-> IF cases[c] = "RUNNING" THEN "BLOCKED" ELSE cases[c]]
    /\ UNCHANGED <<artifacts, session, objects, started, files, history,
                   builders, restorers, counted>>

\* Objects go first, then the rows in one transaction.
PurgeTenant ==
    /\ tenant = "DELETING"
    /\ IF \E c \in objects : artifacts[c] = "AVAILABLE"
       THEN /\ \E c \in objects : artifacts[c] = "AVAILABLE" /\ objects' = objects \ {c}
            /\ UNCHANGED <<tenant, cases, artifacts>>
       ELSE /\ tenant' = "DELETED"
            /\ cases' = [c \in Cases |-> "NONE"]
            /\ artifacts' = [c \in Cases |-> "NONE"]
            /\ UNCHANGED objects
    /\ UNCHANGED <<session, started, files, history, builders, restorers, counted>>

----------------------------------------------------------------------------
(* The archive.                                                            *)

\* A case that is still at work may be exported.
ValidMutant(m) ==
    /\ \A c \in Cases : m.records[c] \in Succeeded => m.records[c] = "VERIFIED"
    /\ \A c \in Cases : m.records[c] = "VERIFIED" => c \in m.bundles
    /\ \A c \in m.bundles : m.records[c] # "NONE"

\* A record agrees with itself: a terminal case, and a VERIFIED one for a job
\* that has SUCCEEDED.
ValidRecord(state) ==
    /\ state \in Terminal \cup {"NONE"}
    /\ state \in Succeeded => state = "VERIFIED"

\* tenantBackupManifestSchema: the records are valid, an artifact belongs to one
\* of them, and a success has its bundle.
Valid(m) ==
    /\ \A c \in Cases : ValidRecord(m.records[c])
    /\ \A c \in m.bundles : m.records[c] # "NONE"
    /\ \A c \in Cases : m.records[c] \in Succeeded => c \in m.bundles

\* tenantBackupManifestSha256: equal for equal manifests only.
Sha256(m) == m

\* sealTenantBackupArchive and serializePortableTenantBackup
Seal(m, bodies) == [manifest |-> m, sha256 |-> Sha256(m), objects |-> bodies]

\* The digest in the file is not compared.
VerifiedMutant(file) == Valid(file.manifest) /\ file.objects = file.manifest.bundles

\* parsePortableTenantBackup: exactly the bodies the manifest names, in full.
Complete(file) == file.objects = file.manifest.bundles

\* verifyTenantBackupArchive: schema, digest and bodies.
Verified(file) ==
    /\ Valid(file.manifest)
    /\ file.sha256 = Sha256(file.manifest)
    /\ Complete(file)

\* A kept file is altered: a record, or a body that is missing or another one.
Damage(file, c) ==
    /\ Incident("damages")
    /\ \/ \E state \in CaseStates \ {file.manifest.records[c]} :
             files' = (files \ {file}) \cup {[file EXCEPT !.manifest.records[c] = state]}
       \/ /\ c \in file.objects
          /\ files' = (files \ {file}) \cup {[file EXCEPT !.objects = @ \ {c}]}
    /\ UNCHANGED <<tenantRows, objects, started, history, builders, restorers>>

\* Archives of one tenant do not contradict each other: a case ends once, and its
\* bundle stays.
OneHistory(archives) ==
    \A m, n \in archives, c \in Cases :
        /\ "NONE" \in {m.records[c], n.records[c]} \/ m.records[c] = n.records[c]
        /\ m.bundles \subseteq n.bundles \/ n.bundles \subseteq m.bundles

ASSUME KeptAssumption ==
    \A archives \in Kept :
        /\ archives \subseteq {m \in Manifest : Valid(m)}
        /\ OneHistory(archives)

----------------------------------------------------------------------------
\* A tenant that has nothing yet.
NewTenant ==
    /\ tenant = "ACTIVE"
    /\ objects = {}
    /\ exported = {}

\* The database was lost, and with it any of the objects; what was exported before
\* is kept elsewhere.
LostDatabase ==
    /\ tenant = "ABSENT"
    /\ objects \in SUBSET Cases
    /\ exported \in Kept

Init ==
    /\ NewTenant \/ LostDatabase
    /\ cases = [c \in Cases |-> "NONE"]
    /\ artifacts = [c \in Cases |-> "NONE"]
    /\ started = {}
    /\ files = {Seal(m, m.bundles) : m \in exported}
    /\ session = [state |-> "NONE", sha256 |-> NoManifest]
    /\ builders = [b \in Builders |-> IdleBuilder]
    /\ restorers = [r \in Restorers |-> IdleRestorer]
    /\ survivors = objects
    /\ counted = [exports |-> IF tenant = "ABSENT" THEN MaxExports ELSE 0, damages |-> 0, faults |-> 0, crashes |-> 0]

----------------------------------------------------------------------------
(* buildArchive: one query after the other.                                *)

Builder(b, state) == builders' = [builders EXCEPT ![b] = state]

Reads ==
    UNCHANGED <<tenantRows, objects, started, files, history, restorers, counted>>

\* Any error ends the build; a restorer's verification fails with it.
Refused(b) == Builder(b, IdleBuilder)

\* exportTenant
BeginExport ==
    /\ builders[Exporter].pc = "idle"
    /\ counted.exports < MaxExports
    /\ counted' = [counted EXCEPT !.exports = @ + 1]
    /\ Builder(Exporter, [IdleBuilder EXCEPT !.pc = "tenant"])
    /\ UNCHANGED <<tenantRows, objects, started, files, history, restorers>>

ReadTenant(b) ==
    /\ builders[b].pc = "tenant"
    /\ IF tenant = "ACTIVE"
       THEN Builder(b, [builders[b] EXCEPT !.pc = "counts", !.began =
               [records |-> cases, bundles |-> {c \in Cases : artifacts[c] # "NONE"}]])
       ELSE Refused(b)
    /\ Reads

\* Terminal cases and jobs only, as many keys as cases, every artifact AVAILABLE.
Quiescent ==
    /\ \A c \in Cases : cases[c] \in Terminal \cup {"NONE"}
    /\ \A c \in Cases : artifacts[c] \in {"NONE", "AVAILABLE"}

ReadCounts(b) ==
    /\ builders[b].pc = "counts"
    /\ IF Quiescent
       THEN Builder(b, [builders[b] EXCEPT !.pc = "records"])
       ELSE Refused(b)
    /\ Reads

\* The join of keys, cases and jobs, each row mapped to a record.
Reproductions == [c \in Cases |-> cases[c]]

ReadReproductions(b) ==
    /\ builders[b].pc = "records"
    /\ Builder(b, [builders[b] EXCEPT !.pc = "artifacts", !.manifest.records = Reproductions])
    /\ Reads

AvailableArtifacts == {c \in Cases : artifacts[c] = "AVAILABLE"}

ReadArtifacts(b) ==
    /\ builders[b].pc = "artifacts"
    /\ Builder(b, [builders[b] EXCEPT !.pc = "objects", !.manifest.bundles = AvailableArtifacts])
    /\ Reads

ReadObject(b, c) ==
    /\ builders[b].pc = "objects"
    /\ c \in builders[b].manifest.bundles \ builders[b].fetched
    /\ IF c \in objects
       THEN Builder(b, [builders[b] EXCEPT !.fetched = @ \cup {c}])
       ELSE Builder(b, [builders[b] EXCEPT !.pc = "corrupt"])
    /\ Reads

SealArchive(b) ==
    /\ builders[b].pc = "objects"
    /\ builders[b].manifest.bundles = builders[b].fetched
    /\ Builder(b, [builders[b] EXCEPT !.pc =
                      IF Valid(builders[b].manifest) THEN "sealed" ELSE "corrupt"])
    /\ Reads

\* backup:export writes the file, and never over another one.
WriteFile ==
    LET b == builders[Exporter] IN
    /\ b.pc = "sealed"
    /\ files' = files \cup {Seal(b.manifest, b.fetched)}
    /\ exported' = exported \cup {b.manifest}
    /\ Builder(Exporter, IdleBuilder)
    /\ UNCHANGED <<tenantRows, objects, started, survivors, restorers, counted>>

ExportFails ==
    /\ builders[Exporter].pc = "corrupt"
    /\ Builder(Exporter, IdleBuilder)
    /\ Reads

----------------------------------------------------------------------------
(* restoreTenant                                                           *)

Restorer(r, state) == restorers' = [restorers EXCEPT ![r] = state]

Of(r) == restorers[r].file.manifest

BeginRestore(r, file) ==
    /\ restorers[r].pc = "idle"
    /\ Verified(file)
    /\ Restorer(r, [IdleRestorer EXCEPT !.pc = "inspecting", !.file = file])
    /\ UNCHANGED <<tenantRows, objects, started, files, history, builders, counted>>

\* The tenant was restored from this archive before.
RestoredAlready(r) == session.state # "NONE" /\ session.sha256 = Sha256(Of(r))

\* findRestore: nothing there, this very archive, or something else.
InspectTarget(r) ==
    /\ restorers[r].pc = "inspecting"
    /\ Restorer(r, IF tenant = "ABSENT" THEN [restorers[r] EXCEPT !.pc = "uploading"]
                   ELSE IF RestoredAlready(r) THEN [restorers[r] EXCEPT !.pc = "checking"]
                   ELSE IdleRestorer)
    /\ UNCHANGED <<tenantRows, objects, started, files, history, builders, counted>>

\* put never overwrites: an object that is there is read and compared instead,
\* and is not this command's to remove.
UploadObject(r, c) ==
    /\ restorers[r].pc = "uploading"
    /\ c \in Of(r).bundles \ restorers[r].uploaded
    /\ objects' = objects \cup {c}
    /\ Restorer(r, [restorers[r] EXCEPT !.uploaded = @ \cup {c},
                                        !.created = IF c \in objects THEN @ ELSE @ \cup {c}])
    /\ UNCHANGED <<tenantRows, started, files, history, builders, counted>>

\* put takes effect and throws, and get finds what it wrote: the upload goes on with
\* an object that it takes for somebody else's.
UploadAnswerLost(r, c) ==
    /\ restorers[r].pc = "uploading"
    /\ c \in Of(r).bundles \ (restorers[r].uploaded \cup objects)
    /\ Incident("faults")
    /\ objects' = objects \cup {c}
    /\ Restorer(r, [restorers[r] EXCEPT !.uploaded = @ \cup {c}])
    /\ UNCHANGED <<tenantRows, started, files, history, builders>>

\* Neither put nor get answers, and put may have taken effect; or the object that
\* put met is gone when get looks, which counts as a failed call, too.
UploadFails(r, c) ==
    /\ restorers[r].pc = "uploading"
    /\ c \in Of(r).bundles \ restorers[r].uploaded
    /\ Incident("faults")
    /\ objects' \in {objects, objects \cup {c}}
    /\ Restorer(r, [restorers[r] EXCEPT !.pc = "abandoning"])
    /\ UNCHANGED <<tenantRows, started, files, history, builders>>

\* The objects created so far are removed, whoever refers to them.
AbandonUpload(r) ==
    /\ restorers[r].pc = "abandoning"
    /\ objects' = objects \ restorers[r].created
    /\ Restorer(r, IdleRestorer)
    /\ UNCHANGED <<tenantRows, started, files, history, builders, counted>>

UploadEnds(r) ==
    /\ restorers[r].pc = "uploading"
    /\ restorers[r].uploaded = Of(r).bundles
    /\ Restorer(r, [restorers[r] EXCEPT !.pc = "writing"])
    /\ UNCHANGED <<tenantRows, objects, started, files, history, builders, counted>>

\* What one transaction writes: case, job and key of every record, a row for every
\* uploaded object, and the tenant with its session.
RestoredRecords(r) == Of(r).records

RestoredArtifacts(r) ==
    [c \in Cases |-> IF c \in Of(r).bundles THEN "AVAILABLE" ELSE "NONE"]

RestoredRows(r) ==
    /\ tenant' = "ACTIVE"
    /\ cases' = RestoredRecords(r)
    /\ artifacts' = RestoredArtifacts(r)
    /\ session' = [state |-> "RESTORED", sha256 |-> Sha256(Of(r))]

\* Existing state is not looked at again.
RestoreTransactionMutant(r) ==
    /\ restorers[r].pc = "writing"
    /\ RestoredRows(r)
    /\ Restorer(r, [restorers[r] EXCEPT !.pc = "checking"])
    /\ UNCHANGED <<objects, started, files, history, builders, counted>>

\* restoreTransaction: under the tenant's advisory lock the target is looked at
\* again.
RestoreTransaction(r) ==
    /\ restorers[r].pc = "writing"
    /\ IF tenant = "ABSENT"
       THEN RestoredRows(r) /\ Restorer(r, [restorers[r] EXCEPT !.pc = "checking"])
       ELSE /\ UNCHANGED tenantRows
            /\ Restorer(r, [restorers[r] EXCEPT !.pc =
                               IF RestoredAlready(r) THEN "checking" ELSE "cleaning"])
    /\ UNCHANGED <<objects, started, files, history, builders, counted>>

\* The transaction fails, or commits and its answer is lost.
TransactionFails(r) ==
    /\ restorers[r].pc = "writing"
    /\ Incident("faults")
    /\ \/ tenant = "ABSENT" /\ RestoredRows(r)
       \/ UNCHANGED tenantRows
    /\ Restorer(r, [restorers[r] EXCEPT !.pc = "cleaning"])
    /\ UNCHANGED <<objects, started, files, history, builders>>

\* The reference is not looked for.
FindReferenceMutant(r) ==
    /\ restorers[r].pc = "cleaning"
    /\ IF restorers[r].created = {} THEN Restorer(r, IdleRestorer)
       ELSE \E c \in restorers[r].created :
               Restorer(r, [restorers[r] EXCEPT !.pc = "removing", !.uploaded = {c}])
    /\ UNCHANGED <<tenantRows, objects, started, files, history, builders, counted>>

\* cleanupUnreferenced: one query for each object this command created ...
FindReference(r) ==
    /\ restorers[r].pc = "cleaning"
    /\ IF restorers[r].created = {} THEN Restorer(r, IdleRestorer)
       ELSE \E c \in restorers[r].created :
               Restorer(r, IF artifacts[c] # "NONE"
                           THEN [restorers[r] EXCEPT !.created = @ \ {c}]
                           ELSE [restorers[r] EXCEPT !.pc = "removing", !.uploaded = {c}])
    /\ UNCHANGED <<tenantRows, objects, started, files, history, builders, counted>>

\* Nothing is removed.
RemoveUnreferencedMutant(r) ==
    /\ restorers[r].pc = "removing"
    /\ Restorer(r, [restorers[r] EXCEPT !.pc = "cleaning",
                                        !.created = @ \ restorers[r].uploaded])
    /\ UNCHANGED <<tenantRows, objects, started, files, history, builders, counted>>

\* ... and then its removal, if no row was found.
RemoveUnreferenced(r) ==
    /\ restorers[r].pc = "removing"
    /\ objects' = objects \ restorers[r].uploaded
    /\ Restorer(r, [restorers[r] EXCEPT !.pc = "cleaning",
                                        !.created = @ \ restorers[r].uploaded])
    /\ UNCHANGED <<tenantRows, started, files, history, builders, counted>>

\* verifyRestore: the session is that of the archive, which is then built again.
CheckSession(r) ==
    /\ restorers[r].pc = "checking"
    /\ IF RestoredAlready(r)
       THEN /\ Restorer(r, [restorers[r] EXCEPT !.pc = "comparing"])
            /\ Builder(r, [IdleBuilder EXCEPT !.pc = "tenant"])
       ELSE Restorer(r, IdleRestorer) /\ UNCHANGED builders
    /\ UNCHANGED <<tenantRows, objects, started, files, history, counted>>

\* The archive built again is not compared.
SameArchiveMutant(r) == TRUE

SameArchive(r) == Sha256(builders[r].manifest) = restorers[r].file.sha256

\* The digests agree: VERIFIED, if the session is still there.
MarkVerified(r) ==
    /\ restorers[r].pc = "comparing"
    /\ builders[r].pc = "sealed"
    /\ SameArchive(r)
    /\ session' = IF RestoredAlready(r) THEN [session EXCEPT !.state = "VERIFIED"] ELSE session
    /\ Restorer(r, IdleRestorer)
    /\ Builder(r, IdleBuilder)
    /\ UNCHANGED <<tenant, cases, artifacts, objects, started, files, history, counted>>

VerificationFails(r) ==
    /\ restorers[r].pc = "comparing"
    /\ \/ builders[r].pc \in {"idle", "corrupt"}
       \/ builders[r].pc = "sealed" /\ ~SameArchive(r)
    /\ Restorer(r, IdleRestorer)
    /\ Builder(r, IdleBuilder)
    /\ UNCHANGED <<tenantRows, objects, started, files, history, counted>>

\* The command dies.
Crash(r) ==
    /\ restorers[r].pc # "idle"
    /\ Incident("crashes")
    /\ Restorer(r, IdleRestorer)
    /\ Builder(r, IdleBuilder)
    /\ UNCHANGED <<tenantRows, objects, started, files, history>>

----------------------------------------------------------------------------
Meanwhile ==
    \/ \E c \in Cases :
          \/ StartCase(c)
          \/ PutBegins(c)
          \/ PutEnds(c)
          \/ \E state \in Terminal : EndCase(c, state)
    \/ RequestDeletion
    \/ PurgeTenant
    \/ \E file \in files, c \in Cases : Damage(file, c)

Build(b) ==
    \/ ReadTenant(b)
    \/ ReadCounts(b)
    \/ ReadReproductions(b)
    \/ ReadArtifacts(b)
    \/ \E c \in Cases : ReadObject(b, c)
    \/ SealArchive(b)

Restore(r) ==
    \/ \E file \in files : BeginRestore(r, file)
    \/ InspectTarget(r)
    \/ \E c \in Cases : UploadObject(r, c) \/ UploadAnswerLost(r, c) \/ UploadFails(r, c)
    \/ AbandonUpload(r)
    \/ UploadEnds(r)
    \/ RestoreTransaction(r)
    \/ TransactionFails(r)
    \/ FindReference(r)
    \/ RemoveUnreferenced(r)
    \/ CheckSession(r)
    \/ MarkVerified(r)
    \/ VerificationFails(r)
    \/ Crash(r)

Next ==
    \/ Meanwhile
    \/ BeginExport
    \/ WriteFile
    \/ ExportFails
    \/ \E b \in Builders : Build(b)
    \/ \E r \in Restorers : Restore(r)

Spec == Init /\ [][Next]_vars

----------------------------------------------------------------------------
\* However an export interleaves with the tenant's work, it never says of a case
\* anything but how that case ended, before a loss of the database or after.
ArchivesAgree ==
    \A m \in exported, c \in Cases :
        m.records[c] # "NONE" /\ cases[c] # "NONE" => m.records[c] = cases[c]

\* What was restored is what an export once sealed, whatever happened to the files.
OnlyExportedIsRestored == session.state # "NONE" => session.sha256 \in exported

\* As long as no call failed, a restored tenant keeps every record of the archive,
\* and every bundle has its row and its object, whoever else was restoring.
RestoredIsComplete ==
    session.state # "NONE" /\ tenant = "ACTIVE" /\ counted.faults = 0 =>
        /\ \A c \in Cases : session.sha256.records[c] \in {"NONE", cases[c]}
        /\ \A c \in session.sha256.bundles : artifacts[c] = "AVAILABLE" /\ c \in objects

\* When no call failed and no command died, commands that lost leave no object
\* behind that is not the tenant's: only what outlived the database may be.  (A
\* whole deletion can overtake a restore between its look at the target and its
\* transaction; the objects it uploads then stay behind.)
FailedRestoreLeavesNothing ==
    /\ counted.faults = 0 /\ counted.crashes = 0 /\ tenant # "DELETED"
    /\ \A r \in Restorers : restorers[r].pc = "idle"
    => objects \subseteq survivors \cup {c \in Cases : artifacts[c] # "NONE"}

\* A tenant that is there is never overwritten: its cases only go with a deletion or
\* with the database, although a restore looks at the target before it uploads.
RestoreOverwritesNothing ==
    [][\A c \in Cases : cases[c] # "NONE" /\ cases'[c] = "NONE"
          => tenant' \in {"DELETED", "ABSENT"}]_vars

\* VERIFIED says that the tenant was the archive, no more and no less, when the
\* verification began, although it reads in several steps while the tenant works;
\* only a deletion of the tenant meanwhile can hide what is there.
VerifiedWasEqual ==
    [][session'.state = "VERIFIED" /\ session.state # "VERIFIED" /\ tenant = "ACTIVE"
          => \E r \in Restorers : builders[r].began = session.sha256]_vars

\* "Backup export requires one active, quiescent tenant" (docs/operations.md, line
\* 137): of such a tenant, with all its objects, an export is not refused as corrupt.
QuiescentTenantExports ==
    /\ builders[Exporter].pc = "corrupt"
    /\ tenant = "ACTIVE" /\ Quiescent
    /\ builders[Exporter].began =
          [records |-> cases, bundles |-> AvailableArtifacts]
    => \E c \in Cases : artifacts[c] = "AVAILABLE" /\ c \notin objects
=============================================================================
