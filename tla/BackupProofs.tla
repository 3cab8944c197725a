---------------------------- MODULE BackupProofs ----------------------------
(***************************************************************************)
(* Theorems about TenantBackup, for any number of cases, kept archives,    *)
(* restoring commands, exports and incidents.                              *)
(***************************************************************************)
EXTENDS TenantBackup, TLAPS

----------------------------------------------------------------------------
(* Types.                                                                  *)

BuilderState ==
    [pc: {"idle", "tenant", "counts", "records", "artifacts", "objects", "corrupt", "sealed"},
     began: Manifest, manifest: Manifest, fetched: SUBSET Cases]

RestorerState ==
    [pc: {"idle", "inspecting", "uploading", "abandoning", "writing", "cleaning",
          "removing", "checking", "comparing"},
     file: File \cup {NoFile}, uploaded: SUBSET Cases, created: SUBSET Cases]

CountedState ==
    [exports: 0..MaxExports, damages: 0..MaxIncidents,
     faults: 0..MaxIncidents, crashes: 0..MaxIncidents]

LEMMA IdleTypes ==
    NoManifest \in Manifest /\ IdleBuilder \in BuilderState /\ IdleRestorer \in RestorerState
<1>1. NoManifest \in Manifest
  BY DEF NoManifest, Manifest, CaseStates
<1> QED
  BY <1>1 DEF IdleBuilder, BuilderState, IdleRestorer, RestorerState

\* The record of a command with one field of it changed, or with two.
LEMMA RestorerField ==
    ASSUME NEW me \in RestorerState, NEW x
    PROVE  /\ [me EXCEPT !.pc = x] =
                 [pc |-> x, file |-> me.file, uploaded |-> me.uploaded, created |-> me.created]
           /\ [me EXCEPT !.uploaded = x] =
                 [pc |-> me.pc, file |-> me.file, uploaded |-> x, created |-> me.created]
           /\ [me EXCEPT !.created = x] =
                 [pc |-> me.pc, file |-> me.file, uploaded |-> me.uploaded, created |-> x]
<1> DEFINE Pcs == {"idle", "inspecting", "uploading", "abandoning", "writing", "cleaning",
                   "removing", "checking", "comparing"}
           Paths == File \cup {NoFile}
<1>1. me \in [pc: Pcs, file: Paths, uploaded: SUBSET Cases, created: SUBSET Cases]
  BY DEF RestorerState
<1> HIDE DEF Pcs, Paths
<1>2. [me EXCEPT !.pc = x] =
         [pc |-> x, file |-> me.file, uploaded |-> me.uploaded, created |-> me.created]
  BY <1>1
<1>3. [me EXCEPT !.uploaded = x] =
         [pc |-> me.pc, file |-> me.file, uploaded |-> x, created |-> me.created]
  BY <1>1
<1>4. [me EXCEPT !.created = x] =
         [pc |-> me.pc, file |-> me.file, uploaded |-> me.uploaded, created |-> x]
  BY <1>1
<1> QED
  BY <1>2, <1>3, <1>4

LEMMA RestorerPcFile ==
    ASSUME NEW me \in RestorerState, NEW x, NEW y
    PROVE  [me EXCEPT !.pc = x, !.file = y] =
              [pc |-> x, file |-> y, uploaded |-> me.uploaded, created |-> me.created]
<1> DEFINE n == [pc |-> x, file |-> me.file, uploaded |-> me.uploaded, created |-> me.created]
<1>1. [me EXCEPT !.pc = x] = n
  BY RestorerField
<1>2. [n EXCEPT !.file = y] =
         [pc |-> x, file |-> y, uploaded |-> me.uploaded, created |-> me.created]
  OBVIOUS
<1> HIDE DEF n
<1> QED
  BY <1>1, <1>2

LEMMA RestorerPcUploaded ==
    ASSUME NEW me \in RestorerState, NEW x, NEW y
    PROVE  [me EXCEPT !.pc = x, !.uploaded = y] =
              [pc |-> x, file |-> me.file, uploaded |-> y, created |-> me.created]
<1> DEFINE n == [pc |-> x, file |-> me.file, uploaded |-> me.uploaded, created |-> me.created]
<1>1. [me EXCEPT !.pc = x] = n
  BY RestorerField
<1>2. [n EXCEPT !.uploaded = y] =
         [pc |-> x, file |-> me.file, uploaded |-> y, created |-> me.created]
  OBVIOUS
<1> HIDE DEF n
<1> QED
  BY <1>1, <1>2

LEMMA RestorerPcCreated ==
    ASSUME NEW me \in RestorerState, NEW x, NEW y
    PROVE  [me EXCEPT !.pc = x, !.created = y] =
              [pc |-> x, file |-> me.file, uploaded |-> me.uploaded, created |-> y]
<1> DEFINE n == [pc |-> x, file |-> me.file, uploaded |-> me.uploaded, created |-> me.created]
<1>1. [me EXCEPT !.pc = x] = n
  BY RestorerField
<1>2. [n EXCEPT !.created = y] =
         [pc |-> x, file |-> me.file, uploaded |-> me.uploaded, created |-> y]
  OBVIOUS
<1> HIDE DEF n
<1> QED
  BY <1>1, <1>2

LEMMA RestorerObjects ==
    ASSUME NEW me \in RestorerState, NEW x, NEW y
    PROVE  [me EXCEPT !.uploaded = x, !.created = y] =
              [pc |-> me.pc, file |-> me.file, uploaded |-> x, created |-> y]
<1> DEFINE n == [pc |-> me.pc, file |-> me.file, uploaded |-> x, created |-> me.created]
<1>1. [me EXCEPT !.uploaded = x] = n
  BY RestorerField
<1>2. [n EXCEPT !.created = y] =
         [pc |-> me.pc, file |-> me.file, uploaded |-> x, created |-> y]
  OBVIOUS
<1> HIDE DEF n
<1> QED
  BY <1>1, <1>2

\* The record of a build with its progress, and what one query found.
LEMMA BuilderField ==
    ASSUME NEW me \in BuilderState, NEW x
    PROVE  /\ [me EXCEPT !.pc = x] =
                 [pc |-> x, began |-> me.began, manifest |-> me.manifest, fetched |-> me.fetched]
           /\ [me EXCEPT !.fetched = x] =
                 [pc |-> me.pc, began |-> me.began, manifest |-> me.manifest, fetched |-> x]
<1> DEFINE Pcs == {"idle", "tenant", "counts", "records", "artifacts", "objects", "corrupt", "sealed"}
<1>1. me \in [pc: Pcs, began: Manifest, manifest: Manifest, fetched: SUBSET Cases]
  BY DEF BuilderState
<1> HIDE DEF Pcs
<1>2. [me EXCEPT !.pc = x] =
         [pc |-> x, began |-> me.began, manifest |-> me.manifest, fetched |-> me.fetched]
  BY <1>1
<1>3. [me EXCEPT !.fetched = x] =
         [pc |-> me.pc, began |-> me.began, manifest |-> me.manifest, fetched |-> x]
  BY <1>1
<1> QED
  BY <1>2, <1>3

LEMMA BuilderBegan ==
    ASSUME NEW me \in BuilderState, NEW x, NEW y
    PROVE  [me EXCEPT !.pc = x, !.began = y] =
              [pc |-> x, began |-> y, manifest |-> me.manifest, fetched |-> me.fetched]
<1> DEFINE n == [pc |-> x, began |-> me.began, manifest |-> me.manifest, fetched |-> me.fetched]
<1>1. [me EXCEPT !.pc = x] = n
  BY BuilderField
<1>2. [n EXCEPT !.began = y] =
         [pc |-> x, began |-> y, manifest |-> me.manifest, fetched |-> me.fetched]
  OBVIOUS
<1> HIDE DEF n
<1> QED
  BY <1>1, <1>2

LEMMA BuilderRecords ==
    ASSUME NEW me \in BuilderState, NEW x, NEW y
    PROVE  [me EXCEPT !.pc = x, !.manifest.records = y] =
              [pc |-> x, began |-> me.began, fetched |-> me.fetched,
               manifest |-> [records |-> y, bundles |-> me.manifest.bundles]]
<1> DEFINE n == [pc |-> x, began |-> me.began, manifest |-> me.manifest, fetched |-> me.fetched]
           h == [records |-> y, bundles |-> me.manifest.bundles]
<1>1. [me EXCEPT !.pc = x] = n
  BY BuilderField
<1>2. /\ me.manifest \in [records: [Cases -> CaseStates], bundles: SUBSET Cases]
      /\ n.manifest = me.manifest
  BY DEF BuilderState, Manifest
<1>3. [n.manifest EXCEPT !.records = y] = h
  BY <1>2
<1>4. [n EXCEPT !.manifest = h] =
         [pc |-> x, began |-> me.began, fetched |-> me.fetched, manifest |-> h]
  OBVIOUS
<1> HIDE DEF n, h
<1>5. [me EXCEPT !.pc = x, !.manifest.records = y] =
         [pc |-> x, began |-> me.began, fetched |-> me.fetched, manifest |-> h]
  BY <1>1, <1>3, <1>4
<1> QED
  BY <1>5 DEF h

LEMMA BuilderBundles ==
    ASSUME NEW me \in BuilderState, NEW x, NEW y
    PROVE  [me EXCEPT !.pc = x, !.manifest.bundles = y] =
              [pc |-> x, began |-> me.began, fetched |-> me.fetched,
               manifest |-> [records |-> me.manifest.records, bundles |-> y]]
<1> DEFINE n == [pc |-> x, began |-> me.began, manifest |-> me.manifest, fetched |-> me.fetched]
           h == [records |-> me.manifest.records, bundles |-> y]
<1>1. [me EXCEPT !.pc = x] = n
  BY BuilderField
<1>2. /\ me.manifest \in [records: [Cases -> CaseStates], bundles: SUBSET Cases]
      /\ n.manifest = me.manifest
  BY DEF BuilderState, Manifest
<1>3. [n.manifest EXCEPT !.bundles = y] = h
  BY <1>2
<1>4. [n EXCEPT !.manifest = h] =
         [pc |-> x, began |-> me.began, fetched |-> me.fetched, manifest |-> h]
  OBVIOUS
<1> HIDE DEF n, h
<1>5. [me EXCEPT !.pc = x, !.manifest.bundles = y] =
         [pc |-> x, began |-> me.began, fetched |-> me.fetched, manifest |-> h]
  BY <1>1, <1>3, <1>4
<1> QED
  BY <1>5 DEF h

\* A damaged file keeps its digest.
LEMMA DamagedFile ==
    ASSUME NEW file \in File, NEW c \in Cases, NEW state \in CaseStates, NEW S \in SUBSET Cases
    PROVE  /\ [file EXCEPT !.manifest.records[c] = state] \in File
           /\ [file EXCEPT !.manifest.records[c] = state].sha256 = file.sha256
           /\ [file EXCEPT !.objects = S] \in File
           /\ [file EXCEPT !.objects = S].sha256 = file.sha256
<1> DEFINE y == [file.manifest.records EXCEPT ![c] = state]
           z == [records |-> y, bundles |-> file.manifest.bundles]
<1>1. /\ file.manifest \in [records: [Cases -> CaseStates], bundles: SUBSET Cases]
      /\ file.sha256 \in Manifest /\ file.objects \in SUBSET Cases
  BY DEF File, Manifest
<1>2. y \in [Cases -> CaseStates]
  BY <1>1
<1>3. [file.manifest EXCEPT !.records = y] = z
  <2> HIDE DEF y
  <2> QED
    BY <1>1
<1>4. z \in Manifest
  <2> HIDE DEF y
  <2> QED
    BY <1>1, <1>2 DEF Manifest
<1>5. [file EXCEPT !.manifest = z] =
         [manifest |-> z, sha256 |-> file.sha256, objects |-> file.objects]
  <2> HIDE DEF z
  <2> QED
    BY DEF File
<1>6. [manifest |-> z, sha256 |-> file.sha256, objects |-> file.objects] \in File
  <2> HIDE DEF z
  <2> QED
    BY <1>1, <1>4 DEF File
<1>7. [file EXCEPT !.manifest.records[c] = state] =
         [manifest |-> z, sha256 |-> file.sha256, objects |-> file.objects]
  <2> HIDE DEF z
  <2>1. [file EXCEPT !.manifest = [file.manifest EXCEPT !.records = y]] =
           [manifest |-> z, sha256 |-> file.sha256, objects |-> file.objects]
    BY <1>3, <1>5
  <2> QED
    BY <2>1
<1>8. [file EXCEPT !.objects = S] =
         [manifest |-> file.manifest, sha256 |-> file.sha256, objects |-> S]
  BY DEF File
<1>9. [manifest |-> file.manifest, sha256 |-> file.sha256, objects |-> S] \in File
  BY <1>1 DEF File, Manifest
<1> HIDE DEF z
<1> QED
  BY <1>6, <1>7, <1>8, <1>9

\* An incident is counted once, under its kind.
LEMMA IncidentCounts ==
    ASSUME counted \in CountedState, NEW event \in {"damages", "faults", "crashes"}, Incident(event)
    PROVE  /\ counted' \in CountedState
           /\ counted'.exports = counted.exports
           /\ event # "faults" => counted'.faults = counted.faults
           /\ event = "faults" => counted'.faults > 0
           /\ event # "crashes" => counted'.crashes = counted.crashes
           /\ event = "crashes" => counted'.crashes > 0
BY BackupAssumption DEF Incident, CountedState

----------------------------------------------------------------------------
(* The inductive invariant.                                                *)

\* The database was lost once.  From then on nothing is exported, and what was
\* exported before is all that is ever restored.
Lost == tenant = "ABSENT" \/ session.state # "NONE"

Restored == session.sha256

FilesInv == \A file \in files : file.sha256 \in exported

ModeInv ==
    /\ session.state # "NONE" => tenant # "ABSENT" /\ Restored \in exported
    /\ Lost =>
          /\ counted.exports = MaxExports
          /\ builders[Exporter].pc = "idle"
          /\ OneHistory(exported)
    /\ tenant = "ABSENT" => \A c \in Cases : cases[c] = "NONE" /\ artifacts[c] = "NONE"
    /\ \A c \in Cases : cases[c] # "NONE" =>
          c \in started \/ (session.state # "NONE" /\ Restored.records[c] # "NONE")

ExportedInv(m) ==
    /\ Valid(m)
    /\ \A c \in Cases : m.records[c] # "NONE" /\ cases[c] # "NONE" => m.records[c] = cases[c]

\* What the export has read of a case is how that case ends, once it has ended.
ExporterInv ==
    LET b == builders[Exporter] IN
    /\ b.pc = "idle" => b = IdleBuilder
    /\ b.pc = "sealed" => Valid(b.manifest)
    /\ \A c \in Cases :
          /\ b.manifest.records[c] # "NONE" => c \in started
          /\ b.manifest.records[c] \in Terminal /\ cases[c] # "NONE" =>
                b.manifest.records[c] = cases[c]

RestoredInv ==
    session.state # "NONE" =>
       /\ tenant \in {"ACTIVE", "DELETING"} =>
             \A c \in Restored.bundles : artifacts[c] = "AVAILABLE"
       /\ tenant = "ACTIVE" => \A c \in Cases : Restored.records[c] \in {"NONE", cases[c]}
       /\ tenant = "ACTIVE" /\ counted.faults = 0 => Restored.bundles \subseteq objects

\* A command restores one verified file, and removes objects of that file only.
RestorerInv(r) ==
    LET me == restorers[r] IN
    /\ me.pc = "idle" => me.created = {}
    /\ me.pc # "idle" =>
          /\ me.file \in File
          /\ me.file.sha256 = Of(r)
          /\ Of(r) \in exported
          /\ me.created \subseteq Of(r).bundles
    /\ me.pc = "inspecting" => me.created = {} /\ me.uploaded = {}
    /\ me.pc # "comparing" => builders[r].pc = "idle"
    /\ me.pc \in {"uploading", "abandoning", "writing", "cleaning", "removing"} => Lost
    /\ me.pc \in {"checking", "comparing"} => session.state # "NONE"
    /\ me.pc = "writing" => me.uploaded = Of(r).bundles
    /\ me.pc = "removing" => me.uploaded \subseteq me.created

\* While no call fails, no object goes that the rows of the tenant refer to, or are
\* about to.
FaultlessInv(r) ==
    LET me == restorers[r] IN
    counted.faults = 0 =>
       /\ me.pc # "abandoning"
       /\ me.pc \in {"cleaning", "removing"} => tenant # "ABSENT"
       /\ me.pc \in {"uploading", "writing"} /\ tenant = "ABSENT" => me.uploaded \subseteq objects
       /\ me.pc = "removing" /\ tenant = "ACTIVE" => me.uploaded \cap Restored.bundles = {}
       /\ me.pc \in {"checking", "comparing"} /\ tenant # "DELETED" =>
             \A c \in me.created : artifacts[c] # "NONE"

\* What a verification found when it began is still there, and what it reads
\* afterwards is no less.
BeganInv(r) ==
    LET b == builders[r] IN
    tenant = "ACTIVE" /\ b.pc \notin {"idle", "tenant", "corrupt"} =>
       /\ \A c \in Cases :
             /\ b.began.records[c] # "NONE" => cases[c] # "NONE"
             /\ Restored.records[c] \in {"NONE", b.began.records[c]}
             /\ b.pc \in {"artifacts", "objects", "sealed"} /\ b.began.records[c] # "NONE" =>
                   b.manifest.records[c] # "NONE"
       /\ Restored.bundles \subseteq b.began.bundles
       /\ \A c \in b.began.bundles :
             /\ artifacts[c] # "NONE"
             /\ b.pc # "counts" => artifacts[c] = "AVAILABLE"
             /\ b.pc \in {"objects", "sealed"} => c \in b.manifest.bundles

\* Every object has a reason to be there.
Accounted(c) ==
    \/ c \in survivors
    \/ artifacts[c] # "NONE"
    \/ \E r \in Restorers : c \in restorers[r].created

ObjectsInv ==
    counted.faults = 0 /\ counted.crashes = 0 /\ tenant # "DELETED" =>
       \A c \in objects : Accounted(c)

BackupInv ==
    /\ TypeOK
    /\ FilesInv
    /\ ModeInv
    /\ \A m \in exported : ExportedInv(m)
    /\ ExporterInv
    /\ RestoredInv
    /\ \A r \in Restorers : RestorerInv(r)
    /\ \A r \in Restorers : FaultlessInv(r)
    /\ \A r \in Restorers : BeganInv(r)
    /\ ObjectsInv

\* The type of each variable, as the steps below use it.
LEMMA BackupTypes ==
    ASSUME TypeOK
    PROVE  /\ tenant \in {"ABSENT", "ACTIVE", "DELETING", "DELETED"}
           /\ cases \in [Cases -> CaseStates]
           /\ artifacts \in [Cases -> {"NONE", "PENDING", "AVAILABLE"}]
           /\ objects \in SUBSET Cases /\ started \in SUBSET Cases /\ survivors \in SUBSET Cases
           /\ files \in SUBSET File /\ exported \in SUBSET Manifest
           /\ session \in [state: {"NONE", "RESTORED", "VERIFIED"}, sha256: Manifest]
           /\ builders \in [Builders -> BuilderState]
           /\ restorers \in [Restorers -> RestorerState]
           /\ counted \in CountedState
BY DEF TypeOK, BuilderState, RestorerState, CountedState

LEMMA TypesBackup ==
    ASSUME tenant \in {"ABSENT", "ACTIVE", "DELETING", "DELETED"},
           cases \in [Cases -> CaseStates],
           artifacts \in [Cases -> {"NONE", "PENDING", "AVAILABLE"}],
           objects \subseteq Cases, started \subseteq Cases, survivors \subseteq Cases,
           files \subseteq File, exported \subseteq Manifest,
           session \in [state: {"NONE", "RESTORED", "VERIFIED"}, sha256: Manifest],
           builders \in [Builders -> BuilderState],
           restorers \in [Restorers -> RestorerState],
           counted \in CountedState
    PROVE  TypeOK
BY DEF TypeOK, BuilderState, RestorerState, CountedState

LEMMA BackupInit == Init => BackupInv
<1> SUFFICES ASSUME Init PROVE BackupInv
  OBVIOUS
<1>1. /\ tenant \in {"ABSENT", "ACTIVE"}
      /\ tenant = "ACTIVE" => exported = {} /\ objects = {}
      /\ tenant = "ABSENT" => exported \in Kept
      /\ objects \subseteq Cases
  BY DEF Init, NewTenant, LostDatabase
<1>2. /\ cases = [c \in Cases |-> "NONE"]
      /\ artifacts = [c \in Cases |-> "NONE"]
      /\ started = {}
      /\ files = {Seal(m, m.bundles) : m \in exported}
      /\ session = [state |-> "NONE", sha256 |-> NoManifest]
      /\ builders = [b \in Builders |-> IdleBuilder]
      /\ restorers = [r \in Restorers |-> IdleRestorer]
      /\ survivors = objects
      /\ counted = [exports |-> IF tenant = "ABSENT" THEN MaxExports ELSE 0,
                    damages |-> 0, faults |-> 0, crashes |-> 0]
  BY DEF Init
<1>3. /\ \A m \in exported : m \in Manifest /\ Valid(m)
      /\ OneHistory(exported)
  <2>1. CASE tenant = "ABSENT"
    BY <1>1, <2>1, KeptAssumption
  <2>2. CASE tenant = "ACTIVE"
    BY <1>1, <2>2 DEF OneHistory
  <2> QED
    BY <1>1, <2>1, <2>2
<1>4. \A m \in exported : Seal(m, m.bundles) \in File /\ Seal(m, m.bundles).sha256 = m
  <2> TAKE m \in exported
  <2>1. m \in Manifest /\ m.bundles \in SUBSET Cases
    BY <1>3 DEF Manifest
  <2> QED
    BY <2>1 DEF Seal, Sha256, File
<1>5. counted \in CountedState /\ counted.exports = IF tenant = "ABSENT" THEN MaxExports ELSE 0
  BY <1>2, BackupAssumption DEF CountedState
<1>6. TypeOK
  <2>1. session \in [state: {"NONE", "RESTORED", "VERIFIED"}, sha256: Manifest]
    BY <1>2, IdleTypes
  <2>2. builders \in [Builders -> BuilderState] /\ restorers \in [Restorers -> RestorerState]
    BY <1>2, IdleTypes
  <2>3. cases \in [Cases -> CaseStates] /\ artifacts \in [Cases -> {"NONE", "PENDING", "AVAILABLE"}]
    BY <1>2 DEF CaseStates
  <2>4. files \subseteq File /\ exported \subseteq Manifest
    BY <1>2, <1>3, <1>4
  <2> QED
    BY <1>1, <1>2, <1>5, <2>1, <2>2, <2>3, <2>4, TypesBackup
<1>7. FilesInv
  BY <1>2, <1>4 DEF FilesInv
<1>8. Exporter \in Builders /\ Restorers \subseteq Builders
  BY DEF Builders
<1>9. ModeInv
  BY <1>1, <1>2, <1>3, <1>5, <1>8 DEF ModeInv, Lost, IdleBuilder
<1>10. \A m \in exported : ExportedInv(m)
  BY <1>2, <1>3 DEF ExportedInv
<1>11. ExporterInv
  BY <1>2, <1>8 DEF ExporterInv, IdleBuilder, NoManifest, Terminal
<1>12. RestoredInv
  BY <1>2 DEF RestoredInv
<1>13. \A r \in Restorers : RestorerInv(r) /\ FaultlessInv(r) /\ BeganInv(r)
  BY <1>2, <1>8 DEF RestorerInv, FaultlessInv, BeganInv, IdleRestorer, IdleBuilder
<1>14. ObjectsInv
  BY <1>2 DEF ObjectsInv, Accounted
<1> QED
  BY <1>6, <1>7, <1>9, <1>10, <1>11, <1>12, <1>13, <1>14 DEF BackupInv

----------------------------------------------------------------------------
(* What happens meanwhile.                                                 *)

\* A step of the engine or the artifact store, as far as it shows here.
EngineMove ==
    /\ tenant = "ACTIVE"
    /\ UNCHANGED <<tenant, session, files, exported, survivors, builders, restorers, counted>>
    /\ cases' \in [Cases -> CaseStates]
    /\ artifacts' \in [Cases -> {"NONE", "PENDING", "AVAILABLE"}]
    /\ objects' \subseteq Cases /\ objects \subseteq objects'
    /\ started' \subseteq Cases /\ started \subseteq started'
    /\ \A c \in objects' : c \notin objects => artifacts'[c] # "NONE"
    /\ \A c \in Cases :
          \/ cases'[c] = cases[c]
          \/ cases[c] = "RUNNING" /\ cases'[c] # "NONE"
          \/ /\ cases[c] = "NONE" /\ c \notin started
             /\ cases'[c] = "RUNNING" /\ c \in started'
             /\ \A m \in exported : m.records[c] = "NONE"
    /\ \A c \in Cases :
          /\ artifacts[c] # "NONE" => artifacts'[c] # "NONE"
          /\ artifacts[c] = "AVAILABLE" => artifacts'[c] = "AVAILABLE"

\* No archive has a case that is still at work.
LEMMA NoneIsRunning ==
    ASSUME NEW m, Valid(m), NEW c \in Cases
    PROVE  m.records[c] # "RUNNING"
BY DEF Valid, ValidRecord, Terminal

LEMMA EngineMoves ==
    ASSUME BackupInv, NEW c \in Cases,
           \/ StartCase(c)
           \/ PutBegins(c)
           \/ PutEnds(c)
           \/ \E state \in Terminal : EndCase(c, state)
    PROVE  EngineMove
<1> USE DEF BackupInv
<1>1. CASE StartCase(c)
  <2>1. /\ tenant = "ACTIVE" /\ c \notin started
        /\ \A m \in exported : m.records[c] = "NONE"
        /\ started' = started \cup {c}
        /\ cases' = [cases EXCEPT ![c] = "RUNNING"]
        /\ UNCHANGED <<artifacts, objects, tenant, session, files, exported, survivors,
                       builders, restorers, counted>>
    BY <1>1 DEF StartCase, Engine, history
  <2>2. cases[c] = "NONE"
    BY <2>1 DEF ModeInv, Restored
  <2> QED
    BY <2>1, <2>2, BackupTypes DEF EngineMove, CaseStates
<1>2. CASE PutBegins(c)
  BY <1>2, BackupTypes DEF PutBegins, Engine, EngineMove, history
<1>3. CASE PutEnds(c)
  BY <1>3, BackupTypes DEF PutEnds, Engine, EngineMove, history
<1>4. CASE \E state \in Terminal : EndCase(c, state)
  <2> PICK state \in Terminal : EndCase(c, state)
    BY <1>4
  <2>1. state \in CaseStates /\ state # "NONE"
    BY DEF Terminal, CaseStates
  <2> QED
    BY <2>1, BackupTypes DEF EndCase, Engine, EngineMove, history
<1> QED
  BY <1>1, <1>2, <1>3, <1>4

LEMMA EngineKeeps ==
    ASSUME BackupInv, EngineMove
    PROVE  BackupInv'
<1>1. TypeOK'
  <2>1. TypeOK
    BY DEF BackupInv
  <2> QED
    BY <2>1, BackupTypes DEF EngineMove, TypeOK
<1>2. FilesInv'
  BY DEF BackupInv, FilesInv, EngineMove
<1>3. ModeInv'
  BY DEF BackupInv, ModeInv, Lost, Restored, EngineMove
<1>4. \A m \in exported' : ExportedInv(m)'
  <2> TAKE m \in exported'
  <2>1. ExportedInv(m) /\ m \in exported
    BY DEF BackupInv, EngineMove
  <2>2. ASSUME NEW c \in Cases, m.records[c] # "NONE", cases'[c] # "NONE"
        PROVE  m.records[c] = cases'[c]
    <3>1. m.records[c] # "RUNNING"
      BY <2>1, NoneIsRunning DEF ExportedInv
    <3> QED
      BY <2>1, <2>2, <3>1 DEF ExportedInv, EngineMove
  <2> QED
    BY <2>1, <2>2 DEF ExportedInv
<1>5. ExporterInv'
  BY DEF BackupInv, ExporterInv, EngineMove, Terminal
<1>6. RestoredInv'
  <2> SUFFICES ASSUME session'.state # "NONE" PROVE RestoredInv'
    BY DEF RestoredInv
  <2>1. session.state # "NONE" /\ Restored' = Restored
    BY DEF EngineMove, Restored
  <2>2. Restored \in exported /\ ExportedInv(Restored)
    BY <2>1 DEF BackupInv, ModeInv
  <2>3. /\ \A c \in Restored.bundles : artifacts[c] = "AVAILABLE"
        /\ \A c \in Cases : Restored.records[c] \in {"NONE", cases[c]}
        /\ counted.faults = 0 => Restored.bundles \subseteq objects
    BY <2>1 DEF BackupInv, RestoredInv, EngineMove
  <2>4. Restored.bundles \subseteq Cases
    BY <2>2, BackupTypes DEF BackupInv, Manifest
  <2>5. \A c \in Restored'.bundles : artifacts'[c] = "AVAILABLE"
    BY <2>1, <2>3, <2>4 DEF EngineMove
  <2>6. ASSUME NEW c \in Cases PROVE Restored'.records[c] \in {"NONE", cases'[c]}
    <3>1. Restored.records[c] # "RUNNING"
      BY <2>2, NoneIsRunning DEF ExportedInv
    <3> QED
      BY <2>1, <2>2, <2>3, <3>1 DEF EngineMove
  <2>7. counted'.faults = 0 => Restored'.bundles \subseteq objects'
    BY <2>1, <2>3 DEF EngineMove
  <2> QED
    BY <2>5, <2>6, <2>7 DEF RestoredInv
<1>7. \A r \in Restorers : RestorerInv(r)'
  BY DEF BackupInv, RestorerInv, Lost, Of, EngineMove
<1>8. \A r \in Restorers : FaultlessInv(r)'
  <2> TAKE r \in Restorers
  <2>1. restorers[r].created \subseteq Cases
    BY BackupTypes DEF BackupInv, RestorerState
  <2> QED
    BY <2>1 DEF BackupInv, FaultlessInv, Restored, EngineMove
<1>9. \A r \in Restorers : BeganInv(r)'
  <2> TAKE r \in Restorers
  <2>1. builders[r].began.bundles \subseteq Cases
    BY BackupTypes DEF BackupInv, Builders, BuilderState, Manifest
  <2>2. \A c \in Cases : cases[c] # "NONE" => cases'[c] # "NONE"
    BY DEF EngineMove
  <2> QED
    BY <2>1, <2>2 DEF BackupInv, BeganInv, Restored, EngineMove
<1>10. ObjectsInv'
  <2> SUFFICES ASSUME counted.faults = 0, counted.crashes = 0, NEW c \in objects'
               PROVE  Accounted(c)'
    BY DEF ObjectsInv, EngineMove
  <2>1. CASE c \in objects
    <3>1. Accounted(c) /\ c \in Cases
      BY <2>1, BackupTypes DEF BackupInv, ObjectsInv, EngineMove
    <3> QED
      BY <3>1 DEF Accounted, EngineMove
  <2>2. CASE c \notin objects
    BY <2>2 DEF Accounted, EngineMove
  <2> QED
    BY <2>1, <2>2
<1> QED
  BY <1>1, <1>2, <1>3, <1>4, <1>5, <1>6, <1>7, <1>8, <1>9, <1>10 DEF BackupInv

\* The request for the tenant's deletion, and each step of the purge.
LEMMA DeletionKeeps ==
    ASSUME BackupInv, RequestDeletion \/ PurgeTenant
    PROVE  BackupInv'
<1>1. /\ tenant \in {"ACTIVE", "DELETING"}
      /\ tenant' \in {"DELETING", "DELETED"}
      /\ UNCHANGED <<session, files, exported, survivors, builders, restorers, counted, started>>
      /\ objects' \subseteq objects
      /\ cases' \in [Cases -> CaseStates]
      /\ \A c \in Cases :
            \/ cases'[c] = cases[c]
            \/ cases[c] = "RUNNING" /\ cases'[c] = "BLOCKED"
            \/ cases'[c] = "NONE"
      /\ artifacts' \in [Cases -> {"NONE", "PENDING", "AVAILABLE"}]
      /\ tenant' # "DELETED" => artifacts' = artifacts
  <2>1. CASE RequestDeletion
    BY <2>1, BackupTypes DEF BackupInv, RequestDeletion, history, CaseStates
  <2>2. CASE PurgeTenant
    <3>1. CASE \E c \in objects : artifacts[c] = "AVAILABLE"
      BY <2>2, <3>1, BackupTypes DEF BackupInv, PurgeTenant, history, CaseStates
    <3>2. CASE ~\E c \in objects : artifacts[c] = "AVAILABLE"
      BY <2>2, <3>2, BackupTypes DEF BackupInv, PurgeTenant, history, CaseStates
    <3> QED
      BY <3>1, <3>2
  <2> QED
    BY <2>1, <2>2
<1> USE DEF BackupInv
<1>2. TypeOK'
  BY <1>1, BackupTypes DEF TypeOK
<1>3. FilesInv'
  BY <1>1 DEF FilesInv
<1>4. ModeInv'
  BY <1>1 DEF ModeInv, Lost, Restored
<1>5. \A m \in exported' : ExportedInv(m)'
  <2> TAKE m \in exported'
  <2>1. ExportedInv(m) /\ m \in exported
    BY <1>1
  <2>2. ASSUME NEW c \in Cases, m.records[c] # "NONE", cases'[c] # "NONE"
        PROVE  m.records[c] = cases'[c]
    <3>1. m.records[c] # "RUNNING"
      BY <2>1, NoneIsRunning DEF ExportedInv
    <3> QED
      BY <1>1, <2>1, <2>2, <3>1 DEF ExportedInv
  <2> QED
    BY <2>1, <2>2 DEF ExportedInv
<1>6. ExporterInv'
  BY <1>1 DEF ExporterInv, Terminal
<1>7. RestoredInv'
  BY <1>1 DEF RestoredInv, Restored
<1>8. \A r \in Restorers : RestorerInv(r)'
  BY <1>1 DEF RestorerInv, Lost, Of
<1>9. \A r \in Restorers : FaultlessInv(r)'
  BY <1>1 DEF FaultlessInv, Restored
<1>10. \A r \in Restorers : BeganInv(r)'
  BY <1>1 DEF BeganInv, Restored
<1>11. ObjectsInv'
  BY <1>1 DEF ObjectsInv, Accounted
<1> QED
  BY <1>2, <1>3, <1>4, <1>5, <1>6, <1>7, <1>8, <1>9, <1>10, <1>11

\* A damaged file is still a file, under the digest of an archive that was exported.
LEMMA DamageKeeps ==
    ASSUME BackupInv, NEW file \in files, NEW c \in Cases, Damage(file, c)
    PROVE  BackupInv'
<1> USE DEF BackupInv
<1>1. /\ UNCHANGED <<tenant, cases, artifacts, session, objects, started, exported, survivors,
                     builders, restorers>>
      /\ Incident("damages")
  BY DEF Damage, tenantRows, history
<1>2. /\ counted' \in CountedState
      /\ counted'.exports = counted.exports
      /\ counted'.faults = counted.faults
      /\ counted'.crashes = counted.crashes
  BY <1>1, IncidentCounts, BackupTypes
<1>3. file \in File /\ files \subseteq File /\ file.objects \subseteq Cases
  BY BackupTypes DEF File
<1>4. files' \subseteq File /\ \A f \in files' : f \in files \/ f.sha256 = file.sha256
  <2>1. CASE \E state \in CaseStates :
                files' = (files \ {file}) \cup {[file EXCEPT !.manifest.records[c] = state]}
    <3> PICK state \in CaseStates :
                files' = (files \ {file}) \cup {[file EXCEPT !.manifest.records[c] = state]}
      BY <2>1
    <3> DEFINE g == [file EXCEPT !.manifest.records[c] = state]
    <3>1. g \in File /\ g.sha256 = file.sha256
      BY <1>3, DamagedFile
    <3>2. files' = (files \ {file}) \cup {g}
      OBVIOUS
    <3> HIDE DEF g
    <3> QED
      BY <1>3, <3>1, <3>2
  <2>2. CASE files' = (files \ {file}) \cup {[file EXCEPT !.objects = file.objects \ {c}]}
    <3> DEFINE g == [file EXCEPT !.objects = file.objects \ {c}]
    <3>1. file.objects \ {c} \in SUBSET Cases /\ "NONE" \in CaseStates
      BY <1>3 DEF CaseStates
    <3>2. g \in File /\ g.sha256 = file.sha256
      BY <1>3, <3>1, DamagedFile
    <3>3. files' = (files \ {file}) \cup {g}
      BY <2>2
    <3> HIDE DEF g
    <3> QED
      BY <1>3, <3>2, <3>3
  <2> QED
    BY <2>1, <2>2, Zenon DEF Damage
<1>5. TypeOK'
  BY <1>1, <1>2, <1>4 DEF TypeOK, CountedState
<1>6. FilesInv'
  BY <1>1, <1>4 DEF FilesInv
<1>7. ModeInv'
  BY <1>1, <1>2 DEF ModeInv, Lost, Restored
<1>8. \A m \in exported' : ExportedInv(m)'
  BY <1>1 DEF ExportedInv
<1>9. ExporterInv'
  BY <1>1 DEF ExporterInv
<1>10. RestoredInv'
  BY <1>1, <1>2 DEF RestoredInv, Restored
<1>11. \A r \in Restorers : RestorerInv(r)'
  BY <1>1 DEF RestorerInv, Lost, Of
<1>12. \A r \in Restorers : FaultlessInv(r)'
  BY <1>1, <1>2 DEF FaultlessInv, Restored
<1>13. \A r \in Restorers : BeganInv(r)'
  BY <1>1 DEF BeganInv, Restored
<1>14. ObjectsInv'
  BY <1>1, <1>2 DEF ObjectsInv, Accounted
<1> QED
  BY <1>5, <1>6, <1>7, <1>8, <1>9, <1>10, <1>11, <1>12, <1>13, <1>14

----------------------------------------------------------------------------
(* Building an archive, for an export and for a verification.              *)

\* A builder moves, and nothing else does but the count of exports.
LEMMA BuilderMoves ==
    ASSUME BackupInv, NEW b \in Builders, NEW state \in BuilderState,
           builders' = [builders EXCEPT ![b] = state],
           UNCHANGED <<tenantRows, objects, started, files, history, restorers>>,
           counted' \in CountedState,
           counted'.faults = counted.faults, counted'.crashes = counted.crashes,
           Lost => counted'.exports = counted.exports,
           b = Exporter => ExporterInv' /\ (Lost => state.pc = "idle"),
           b \in Restorers => BeganInv(b)' /\ restorers[b].pc = "comparing"
    PROVE  BackupInv'
<1> USE DEF BackupInv
<1>1. UNCHANGED <<tenant, cases, artifacts, session, objects, started, files, exported, survivors,
                  restorers>>
  BY DEF tenantRows, history
<1>2. /\ builders \in [Builders -> BuilderState] /\ Exporter \in Builders /\ Restorers \subseteq Builders
      /\ builders'[b] = state
      /\ \A o \in Builders : o # b => builders'[o] = builders[o]
      /\ builders' \in [Builders -> BuilderState]
  BY BackupTypes DEF Builders
<1>3. TypeOK'
  BY <1>1, <1>2 DEF TypeOK, CountedState, BuilderState
<1>4. FilesInv'
  BY <1>1 DEF FilesInv
<1>5. ModeInv'
  BY <1>1, <1>2 DEF ModeInv, Lost, Restored
<1>6. \A m \in exported' : ExportedInv(m)'
  BY <1>1 DEF ExportedInv
<1>7. ExporterInv'
  <2>1. CASE b = Exporter
    BY <2>1
  <2>2. CASE b # Exporter
    BY <1>1, <1>2, <2>2 DEF ExporterInv
  <2> QED
    BY <2>1, <2>2
<1>8. RestoredInv'
  BY <1>1 DEF RestoredInv, Restored
<1>9. \A r \in Restorers : RestorerInv(r)'
  BY <1>1, <1>2 DEF RestorerInv, Lost, Of
<1>10. \A r \in Restorers : FaultlessInv(r)'
  BY <1>1 DEF FaultlessInv, Restored
<1>11. \A r \in Restorers : BeganInv(r)'
  <2> TAKE r \in Restorers
  <2>1. CASE r = b
    BY <2>1
  <2>2. CASE r # b
    BY <1>1, <1>2, <2>2 DEF BeganInv, Restored
  <2> QED
    BY <2>1, <2>2
<1>12. ObjectsInv'
  BY <1>1 DEF ObjectsInv, Accounted
<1> QED
  BY <1>3, <1>4, <1>5, <1>6, <1>7, <1>8, <1>9, <1>10, <1>11, <1>12

\* What one query adds to an archive that is being built.
BuildStep(b, state) ==
    LET me == builders[b] IN
    \/ state = IdleBuilder
    \/ /\ me.pc = "tenant" /\ state.pc = "counts"
       /\ state.began = [records |-> cases, bundles |-> {c \in Cases : artifacts[c] # "NONE"}]
       /\ state.manifest = me.manifest
    \/ /\ me.pc = "counts" /\ state.pc = "records" /\ Quiescent
       /\ state.began = me.began /\ state.manifest = me.manifest
    \/ /\ me.pc = "records" /\ state.pc = "artifacts"
       /\ state.began = me.began /\ state.manifest.records = cases
    \/ /\ me.pc = "artifacts" /\ state.pc = "objects"
       /\ state.began = me.began /\ state.manifest.records = me.manifest.records
       /\ state.manifest.bundles = AvailableArtifacts
    \/ /\ me.pc = "objects" /\ state.pc \in {"objects", "corrupt", "sealed"}
       /\ state.began = me.began /\ state.manifest = me.manifest
       /\ state.pc = "sealed" => Valid(state.manifest)

LEMMA BuildSteps ==
    ASSUME TypeOK, NEW b \in Builders, Build(b)
    PROVE  /\ builders[b].pc # "idle"
           /\ Reads
           /\ \E state \in BuilderState :
                 builders' = [builders EXCEPT ![b] = state] /\ BuildStep(b, state)
<1> DEFINE me == builders[b]
           Pcs == {"idle", "tenant", "counts", "records", "artifacts", "objects", "corrupt", "sealed"}
<1> SUFFICES /\ me.pc # "idle"
             /\ Reads
             /\ \E state \in BuilderState : Builder(b, state) /\ BuildStep(b, state)
  BY DEF Builder
<1>1. me \in BuilderState
  BY BackupTypes
<1>2. /\ me \in [pc: Pcs, began: Manifest, manifest: Manifest, fetched: SUBSET Cases]
      /\ me \in [pc: Pcs, began: Manifest, fetched: SUBSET Cases,
                 manifest: [records: [Cases -> CaseStates], bundles: SUBSET Cases]]
      /\ me.manifest.records \in [Cases -> CaseStates] /\ me.manifest.bundles \in SUBSET Cases
  BY <1>1 DEF BuilderState, Manifest
<1>3. cases \in [Cases -> CaseStates] /\ AvailableArtifacts \in SUBSET Cases
  BY BackupTypes DEF AvailableArtifacts
<1>4. CASE ReadTenant(b)
  <2> DEFINE found == [records |-> cases, bundles |-> {c \in Cases : artifacts[c] # "NONE"}]
             next == [pc |-> "counts", began |-> found, manifest |-> me.manifest,
                      fetched |-> me.fetched]
  <2>1. me.pc = "tenant" /\ Reads
    BY <1>4 DEF ReadTenant
  <2>2. Builder(b, IdleBuilder) \/ Builder(b, [me EXCEPT !.pc = "counts", !.began = found])
    BY <1>4 DEF ReadTenant, Refused
  <2>3. [me EXCEPT !.pc = "counts", !.began = found] = next
    <3> HIDE DEF found, me
    <3> QED
      BY <1>1, BuilderBegan
  <2>4. found \in Manifest
    BY <1>3 DEF Manifest
  <2>5. next \in BuilderState
    <3> HIDE DEF found, me
    <3> QED
      BY <1>2, <2>4 DEF BuilderState
  <2>6. BuildStep(b, next)
    BY <2>1 DEF BuildStep
  <2>7. BuildStep(b, IdleBuilder)
    BY DEF BuildStep
  <2> HIDE DEF found, next, me
  <2> QED
    BY <2>1, <2>2, <2>3, <2>5, <2>6, <2>7, IdleTypes
<1>5. CASE ReadCounts(b)
  <2> DEFINE next == [pc |-> "records", began |-> me.began, manifest |-> me.manifest,
                      fetched |-> me.fetched]
  <2>1. me.pc = "counts" /\ Reads
    BY <1>5 DEF ReadCounts
  <2>2. Builder(b, IdleBuilder) \/ (Quiescent /\ Builder(b, [me EXCEPT !.pc = "records"]))
    BY <1>5 DEF ReadCounts, Refused
  <2>3. [me EXCEPT !.pc = "records"] = next
    <3> HIDE DEF me
    <3> QED
      BY <1>1, BuilderField
  <2>4. next \in BuilderState
    <3> HIDE DEF me
    <3> QED
      BY <1>2 DEF BuilderState
  <2>5. Quiescent => BuildStep(b, next)
    BY <2>1 DEF BuildStep
  <2>6. BuildStep(b, IdleBuilder)
    BY DEF BuildStep
  <2> HIDE DEF next, me
  <2> QED
    BY <2>1, <2>2, <2>3, <2>4, <2>5, <2>6, IdleTypes
<1>6. CASE ReadReproductions(b)
  <2> DEFINE next == [pc |-> "artifacts", began |-> me.began, fetched |-> me.fetched,
                      manifest |-> [records |-> cases, bundles |-> me.manifest.bundles]]
  <2>1. me.pc = "records" /\ Reads
    BY <1>6 DEF ReadReproductions
  <2>2. Reproductions = cases
    BY <1>3 DEF Reproductions
  <2>3. Builder(b, [me EXCEPT !.pc = "artifacts", !.manifest.records = cases])
    BY <1>6, <2>2 DEF ReadReproductions
  <2>4. [me EXCEPT !.pc = "artifacts", !.manifest.records = cases] = next
    <3> HIDE DEF me
    <3> QED
      BY <1>1, BuilderRecords
  <2>5. next \in BuilderState
    <3> HIDE DEF me
    <3> QED
      BY <1>2, <1>3 DEF BuilderState, Manifest
  <2>6. BuildStep(b, next)
    BY <2>1 DEF BuildStep
  <2> HIDE DEF next, me
  <2> QED
    BY <2>1, <2>3, <2>4, <2>5, <2>6
<1>7. CASE ReadArtifacts(b)
  <2> DEFINE next == [pc |-> "objects", began |-> me.began, fetched |-> me.fetched,
                      manifest |-> [records |-> me.manifest.records, bundles |-> AvailableArtifacts]]
  <2>1. me.pc = "artifacts" /\ Reads
    BY <1>7 DEF ReadArtifacts
  <2>2. Builder(b, [me EXCEPT !.pc = "objects", !.manifest.bundles = AvailableArtifacts])
    BY <1>7 DEF ReadArtifacts
  <2>3. [me EXCEPT !.pc = "objects", !.manifest.bundles = AvailableArtifacts] = next
    <3> HIDE DEF me
    <3> QED
      BY <1>1, BuilderBundles
  <2>4. next \in BuilderState
    <3> HIDE DEF me
    <3> QED
      BY <1>2, <1>3 DEF BuilderState, Manifest
  <2>5. BuildStep(b, next)
    BY <2>1 DEF BuildStep
  <2> HIDE DEF next, me
  <2> QED
    BY <2>1, <2>2, <2>3, <2>4, <2>5
<1>8. CASE \E c \in Cases : ReadObject(b, c)
  <2> PICK c \in Cases : ReadObject(b, c)
    BY <1>8
  <2> DEFINE more == me.fetched \cup {c}
             next == [pc |-> me.pc, began |-> me.began, manifest |-> me.manifest, fetched |-> more]
             gone == [pc |-> "corrupt", began |-> me.began, manifest |-> me.manifest,
                      fetched |-> me.fetched]
  <2>1. me.pc = "objects" /\ Reads
    BY DEF ReadObject
  <2>2. Builder(b, [me EXCEPT !.fetched = more]) \/ Builder(b, [me EXCEPT !.pc = "corrupt"])
    BY DEF ReadObject
  <2>3. [me EXCEPT !.fetched = more] = next /\ [me EXCEPT !.pc = "corrupt"] = gone
    <3> HIDE DEF me, more
    <3> QED
      BY <1>1, BuilderField
  <2>4. next \in BuilderState /\ gone \in BuilderState
    <3> HIDE DEF me
    <3> QED
      BY <1>2 DEF BuilderState
  <2>5. BuildStep(b, next) /\ BuildStep(b, gone)
    BY <2>1 DEF BuildStep
  <2> HIDE DEF next, gone, more, me
  <2> QED
    BY <2>1, <2>2, <2>3, <2>4, <2>5
<1>9. CASE SealArchive(b)
  <2> DEFINE pc == IF Valid(me.manifest) THEN "sealed" ELSE "corrupt"
             next == [pc |-> pc, began |-> me.began, manifest |-> me.manifest,
                      fetched |-> me.fetched]
  <2>1. me.pc = "objects" /\ Reads
    BY <1>9 DEF SealArchive
  <2>2. Builder(b, [me EXCEPT !.pc = pc])
    BY <1>9 DEF SealArchive
  <2>3. [me EXCEPT !.pc = pc] = next
    <3> HIDE DEF me, pc
    <3> QED
      BY <1>1, BuilderField
  <2>4. next \in BuilderState
    <3>1. pc \in {"sealed", "corrupt"}
      OBVIOUS
    <3> HIDE DEF me, pc
    <3> QED
      BY <1>2, <3>1 DEF BuilderState
  <2>5. BuildStep(b, next)
    BY <2>1 DEF BuildStep
  <2> HIDE DEF next, pc, me
  <2> QED
    BY <2>1, <2>2, <2>3, <2>4, <2>5
<1> HIDE DEF me
<1> QED
  BY <1>4, <1>5, <1>6, <1>7, <1>8, <1>9 DEF Build

\* The export reads one query after the other, while the tenant works.
LEMMA ExporterBuilds ==
    ASSUME BackupInv, Build(Exporter)
    PROVE  BackupInv'
<1> USE DEF BackupInv
<1> DEFINE me == builders[Exporter]
<1>1. /\ Exporter \in Builders /\ Exporter \notin Restorers
      /\ me \in BuilderState
  BY BackupAssumption, BackupTypes DEF Builders
<1>2. me.pc # "idle" /\ Reads
  BY <1>1, BuildSteps
<1>3. PICK state \in BuilderState :
         builders' = [builders EXCEPT ![Exporter] = state] /\ BuildStep(Exporter, state)
  BY <1>1, BuildSteps
<1>4. /\ UNCHANGED <<tenantRows, objects, started, files, history, restorers>>
      /\ counted' = counted
  BY <1>2 DEF Reads
<1>5. builders'[Exporter] = state
  BY <1>1, <1>3, BackupTypes
<1>6. ~Lost
  BY <1>2 DEF ModeInv
<1>7. \A c \in Cases : cases[c] # "NONE" => c \in started
  BY <1>6 DEF ModeInv, Lost
<1>8. cases' = cases /\ started' = started
  BY <1>4 DEF tenantRows
<1>9. ExporterInv'
  <2>1. /\ me.pc = "sealed" => Valid(me.manifest)
        /\ \A c \in Cases :
              /\ me.manifest.records[c] # "NONE" => c \in started
              /\ me.manifest.records[c] \in Terminal /\ cases[c] # "NONE" =>
                    me.manifest.records[c] = cases[c]
    BY DEF ExporterInv
  <2>2. SUFFICES
          /\ state.pc = "idle" => state = IdleBuilder
          /\ state.pc = "sealed" => Valid(state.manifest)
          /\ \A c \in Cases :
                /\ state.manifest.records[c] # "NONE" => c \in started
                /\ state.manifest.records[c] \in Terminal /\ cases[c] # "NONE" =>
                      state.manifest.records[c] = cases[c]
    BY <1>5, <1>8 DEF ExporterInv
  <2>3. CASE state = IdleBuilder
    BY <2>3 DEF IdleBuilder, NoManifest, Terminal
  <2>4. CASE state # IdleBuilder
    <3>1. state.pc # "idle"
      BY <1>3, <2>4 DEF BuildStep
    <3>2. state.pc = "sealed" => Valid(state.manifest)
      BY <1>3, <2>4 DEF BuildStep
    <3>3. \/ state.manifest.records = me.manifest.records
          \/ state.manifest.records = cases
      BY <1>3, <2>4 DEF BuildStep
    <3> QED
      BY <2>1, <3>1, <3>2, <3>3, <1>7
  <2> QED
    BY <2>3, <2>4
<1>10. counted' \in CountedState
  BY <1>4, BackupTypes
<1> HIDE DEF me, BackupInv
<1> QED
  BY <1>1, <1>3, <1>4, <1>6, <1>9, <1>10, BuilderMoves

LEMMA BeginExportKeeps ==
    ASSUME BackupInv, BeginExport
    PROVE  BackupInv'
<1> USE DEF BackupInv
<1> DEFINE state == [pc |-> "tenant", began |-> NoManifest, manifest |-> NoManifest, fetched |-> {}]
<1>1. /\ Exporter \in Builders /\ Exporter \notin Restorers
      /\ IdleBuilder \in BuilderState
  BY BackupAssumption, IdleTypes DEF Builders
<1>2. /\ counted.exports < MaxExports
      /\ counted' = [counted EXCEPT !.exports = @ + 1]
      /\ builders' = [builders EXCEPT ![Exporter] = [IdleBuilder EXCEPT !.pc = "tenant"]]
      /\ UNCHANGED <<tenantRows, objects, started, files, history, restorers>>
  BY DEF BeginExport, Builder
<1>3. [IdleBuilder EXCEPT !.pc = "tenant"] = state
  <2>1. [IdleBuilder EXCEPT !.pc = "tenant"] =
          [pc |-> "tenant", began |-> IdleBuilder.began, manifest |-> IdleBuilder.manifest,
           fetched |-> IdleBuilder.fetched]
    BY <1>1, BuilderField
  <2> QED
    BY <2>1 DEF IdleBuilder
<1>4. state \in BuilderState
  BY IdleTypes DEF BuilderState
<1>5. ~Lost
  BY <1>2, BackupTypes, BackupAssumption DEF ModeInv, CountedState
<1>6. /\ counted' \in CountedState
      /\ counted'.faults = counted.faults /\ counted'.crashes = counted.crashes
  BY <1>2, BackupTypes, BackupAssumption DEF CountedState
<1>7. builders' = [builders EXCEPT ![Exporter] = state] /\ builders'[Exporter] = state
  BY <1>1, <1>2, <1>3, BackupTypes
<1>8. ExporterInv'
  BY <1>7 DEF ExporterInv, NoManifest, Terminal
<1> HIDE DEF BackupInv, state
<1> QED
  BY <1>1, <1>2, <1>4, <1>5, <1>6, <1>7, <1>8, BuilderMoves

LEMMA ExportFailsKeeps ==
    ASSUME BackupInv, ExportFails
    PROVE  BackupInv'
<1> USE DEF BackupInv
<1>1. /\ Exporter \in Builders /\ Exporter \notin Restorers
      /\ IdleBuilder \in BuilderState /\ IdleBuilder.pc = "idle"
  BY BackupAssumption, IdleTypes DEF Builders, IdleBuilder
<1>2. /\ builders' = [builders EXCEPT ![Exporter] = IdleBuilder]
      /\ UNCHANGED <<tenantRows, objects, started, files, history, restorers>>
      /\ counted' = counted
  BY DEF ExportFails, Builder, Reads
<1>3. builders'[Exporter] = IdleBuilder /\ counted' \in CountedState
  BY <1>1, <1>2, BackupTypes
<1>4. ExporterInv'
  BY <1>3 DEF ExporterInv, IdleBuilder, NoManifest, Terminal
<1> HIDE DEF BackupInv
<1> QED
  BY <1>1, <1>2, <1>3, <1>4, BuilderMoves

\* The archive that is written tells of every case how it ended.
LEMMA WriteFileKeeps ==
    ASSUME BackupInv, WriteFile
    PROVE  BackupInv'
<1> USE DEF BackupInv
<1> DEFINE b == builders[Exporter]
           m == b.manifest
           file == Seal(m, b.fetched)
<1>1. /\ Exporter \in Builders /\ Exporter \notin Restorers /\ Restorers \subseteq Builders
      /\ builders \in [Builders -> BuilderState]
      /\ b \in BuilderState
  BY BackupAssumption, BackupTypes DEF Builders
<1>2. /\ b.pc = "sealed"
      /\ files' = files \cup {file}
      /\ exported' = exported \cup {m}
      /\ builders' = [builders EXCEPT ![Exporter] = IdleBuilder]
      /\ UNCHANGED <<tenant, cases, artifacts, session, objects, started, survivors, restorers,
                     counted>>
  BY DEF WriteFile, Builder, tenantRows
<1>3. /\ builders'[Exporter] = IdleBuilder
      /\ \A r \in Restorers : builders'[r] = builders[r]
      /\ builders' \in [Builders -> BuilderState]
  BY <1>1, <1>2, IdleTypes
<1>4. m \in Manifest /\ b.fetched \in SUBSET Cases
  BY <1>1 DEF BuilderState
<1>5. file \in File /\ file.sha256 = m
  <2> HIDE DEF b
  <2> QED
    BY <1>4 DEF Seal, Sha256, File
<1>6. ~Lost
  BY <1>2 DEF ModeInv
<1> HIDE DEF file
<1>7. TypeOK'
  BY <1>2, <1>3, <1>4, <1>5 DEF TypeOK, BuilderState
<1>8. FilesInv'
  BY <1>2, <1>5 DEF FilesInv
<1>9. ModeInv'
  BY <1>2, <1>6 DEF ModeInv, Lost, Restored
<1>10. ExportedInv(m)
  <2>1. Valid(m)
    BY <1>2 DEF ExporterInv
  <2>2. ASSUME NEW c \in Cases, m.records[c] # "NONE", cases[c] # "NONE"
        PROVE  m.records[c] = cases[c]
    <3>1. m.records[c] \in Terminal
      BY <2>1, <2>2 DEF Valid, ValidRecord
    <3> QED
      BY <2>2, <3>1 DEF ExporterInv
  <2> QED
    BY <2>1, <2>2 DEF ExportedInv
<1>11. \A n \in exported' : ExportedInv(n)'
  <2> TAKE n \in exported'
  <2>1. n \in exported \/ n = m
    BY <1>2
  <2>2. ExportedInv(n)
    BY <1>10, <2>1
  <2> QED
    BY <1>2, <2>2 DEF ExportedInv
<1>12. ExporterInv'
  BY <1>3 DEF ExporterInv, IdleBuilder, NoManifest, Terminal
<1>13. RestoredInv'
  BY <1>2, <1>6 DEF RestoredInv, Restored, Lost
<1>14. \A r \in Restorers : RestorerInv(r)'
  BY <1>2, <1>3 DEF RestorerInv, Lost, Of
<1>15. \A r \in Restorers : FaultlessInv(r)'
  BY <1>2 DEF FaultlessInv, Restored
<1>16. \A r \in Restorers : BeganInv(r)'
  BY <1>2, <1>3 DEF BeganInv, Restored
<1>17. ObjectsInv'
  BY <1>2 DEF ObjectsInv, Accounted
<1> QED
  BY <1>7, <1>8, <1>9, <1>11, <1>12, <1>13, <1>14, <1>15, <1>16, <1>17

\* A verification builds the archive again, of a tenant that can only have more.
LEMMA VerifierBuilds ==
    ASSUME BackupInv, NEW r \in Restorers, Build(r)
    PROVE  BackupInv'
<1> USE DEF BackupInv
<1> DEFINE me == builders[r]
<1>1. /\ r \in Builders /\ r # Exporter
      /\ me \in BuilderState
  BY BackupAssumption, BackupTypes DEF Builders
<1>2. me.pc # "idle" /\ Reads
  BY <1>1, BuildSteps
<1>3. PICK state \in BuilderState :
         builders' = [builders EXCEPT ![r] = state] /\ BuildStep(r, state)
  BY <1>1, BuildSteps
<1>4. /\ UNCHANGED <<tenantRows, objects, started, files, history, restorers>>
      /\ counted' = counted
  BY <1>2 DEF Reads
<1>5. builders'[r] = state
  BY <1>1, <1>3, BackupTypes
<1>6. UNCHANGED <<tenant, cases, artifacts, session>>
  BY <1>4 DEF tenantRows
<1>7. restorers[r].pc = "comparing" /\ session.state # "NONE"
  BY <1>2 DEF RestorerInv
<1>8. BeganInv(r)'
  <2> SUFFICES ASSUME tenant = "ACTIVE", state.pc \notin {"idle", "tenant", "corrupt"}
               PROVE  /\ \A c \in Cases :
                            /\ state.began.records[c] # "NONE" => cases[c] # "NONE"
                            /\ Restored.records[c] \in {"NONE", state.began.records[c]}
                            /\ state.pc \in {"artifacts", "objects", "sealed"} /\
                               state.began.records[c] # "NONE" => state.manifest.records[c] # "NONE"
                      /\ Restored.bundles \subseteq state.began.bundles
                      /\ \A c \in state.began.bundles :
                            /\ artifacts[c] # "NONE"
                            /\ state.pc # "counts" => artifacts[c] = "AVAILABLE"
                            /\ state.pc \in {"objects", "sealed"} => c \in state.manifest.bundles
    BY <1>5, <1>6 DEF BeganInv, Restored
  <2>1. state # IdleBuilder
    BY DEF IdleBuilder
  <2>2. Restored.bundles \subseteq Cases /\ me.began.bundles \subseteq Cases
    BY <1>1, BackupTypes DEF Restored, Manifest, BuilderState
  <2>3. CASE me.pc = "tenant"
    <3>1. /\ state.pc = "counts"
          /\ state.began.records = cases
          /\ state.began.bundles = {c \in Cases : artifacts[c] # "NONE"}
      BY <1>3, <2>1, <2>3 DEF BuildStep
    <3>2. /\ \A c \in Restored.bundles : artifacts[c] = "AVAILABLE"
          /\ \A c \in Cases : Restored.records[c] \in {"NONE", cases[c]}
      BY <1>7 DEF RestoredInv
    <3> QED
      BY <2>2, <3>1, <3>2
  <2>4. CASE me.pc # "tenant"
    <3>1. me.pc \notin {"idle", "tenant", "corrupt"} /\ state.began = me.began
      BY <1>3, <2>1, <2>4 DEF BuildStep
    <3>2. BeganInv(r)
      OBVIOUS
    <3>3. \A c \in Cases :
             /\ me.began.records[c] # "NONE" => cases[c] # "NONE"
             /\ Restored.records[c] \in {"NONE", me.began.records[c]}
      BY <3>1, <3>2 DEF BeganInv
    <3>4. Restored.bundles \subseteq me.began.bundles
      BY <3>1, <3>2 DEF BeganInv
    <3>5. ASSUME NEW c \in Cases, state.pc \in {"artifacts", "objects", "sealed"},
                 me.began.records[c] # "NONE"
          PROVE  state.manifest.records[c] # "NONE"
      <4>1. \/ me.pc = "records" /\ state.manifest.records = cases
            \/ me.pc \in {"artifacts", "objects"} /\ state.manifest.records = me.manifest.records
        BY <1>3, <2>1, <2>4, <3>5 DEF BuildStep
      <4>2. CASE me.pc = "records" /\ state.manifest.records = cases
        BY <3>3, <3>5, <4>2
      <4>3. CASE me.pc \in {"artifacts", "objects"} /\ state.manifest.records = me.manifest.records
        BY <3>2, <3>5, <4>3 DEF BeganInv
      <4> QED
        BY <4>1, <4>2, <4>3
    <3>6. ASSUME NEW c \in me.began.bundles
          PROVE  /\ artifacts[c] # "NONE"
                 /\ state.pc # "counts" => artifacts[c] = "AVAILABLE"
      <4>1. artifacts[c] # "NONE" /\ (me.pc # "counts" => artifacts[c] = "AVAILABLE")
        BY <3>1, <3>2 DEF BeganInv
      <4>2. me.pc = "counts" => artifacts[c] \in {"NONE", "AVAILABLE"}
        BY <1>3, <2>1, <2>2, <2>4 DEF BuildStep, Quiescent
      <4> QED
        BY <4>1, <4>2
    <3>7. ASSUME NEW c \in me.began.bundles, state.pc \in {"objects", "sealed"}
          PROVE  c \in state.manifest.bundles
      <4>1. \/ me.pc = "artifacts" /\ state.manifest.bundles = AvailableArtifacts
            \/ me.pc = "objects" /\ state.manifest = me.manifest
        BY <1>3, <2>1, <2>4, <3>7 DEF BuildStep
      <4>2. CASE me.pc = "artifacts" /\ state.manifest.bundles = AvailableArtifacts
        BY <2>2, <3>6, <3>7, <4>2 DEF AvailableArtifacts
      <4>3. CASE me.pc = "objects" /\ state.manifest = me.manifest
        BY <3>2, <4>3 DEF BeganInv
      <4> QED
        BY <4>1, <4>2, <4>3
    <3> HIDE DEF me, BackupInv
    <3> QED
      BY <3>1, <3>3, <3>4, <3>5, <3>6, <3>7
  <2> QED
    BY <2>3, <2>4
<1>9. counted' \in CountedState
  BY <1>4, BackupTypes
<1> HIDE DEF me, BackupInv
<1> QED
  BY <1>1, <1>3, <1>4, <1>7, <1>8, <1>9, BuilderMoves

----------------------------------------------------------------------------
(* Restoring.                                                              *)

\* A restoring command moves and the rows of the tenant stay; at most its session
\* is marked, and objects come and go as far as nobody needs them.
LEMMA RestorerMoves ==
    ASSUME BackupInv, NEW r \in Restorers, NEW me \in RestorerState, NEW b \in BuilderState,
           restorers' = [restorers EXCEPT ![r] = me],
           builders' = [builders EXCEPT ![r] = b],
           UNCHANGED <<tenant, cases, artifacts, started, files, exported, survivors>>,
           session' \in [state: {"NONE", "RESTORED", "VERIFIED"}, sha256: Manifest],
           session'.sha256 = session.sha256,
           session'.state = "NONE" <=> session.state = "NONE",
           counted' \in CountedState,
           counted'.exports = counted.exports,
           counted'.faults = 0 => counted.faults = 0,
           counted'.crashes = 0 => counted.crashes = 0,
           objects' \in SUBSET Cases,
           counted'.faults = 0 /\ tenant = "ACTIVE" /\ session.state # "NONE" =>
              \A c \in Restored.bundles : c \in objects => c \in objects',
           counted'.faults = 0 /\ tenant = "ABSENT" => objects \subseteq objects',
           counted'.faults = 0 /\ counted'.crashes = 0 /\ tenant # "DELETED" =>
              \A c \in objects' : Accounted(c)',
           RestorerInv(r)', FaultlessInv(r)', BeganInv(r)'
    PROVE  BackupInv'
<1> USE DEF BackupInv
<1>1. /\ r \in Builders /\ r # Exporter /\ Exporter \in Builders /\ Restorers \subseteq Builders
      /\ builders \in [Builders -> BuilderState] /\ restorers \in [Restorers -> RestorerState]
  BY BackupAssumption, BackupTypes DEF Builders
<1>2. /\ \A o \in Builders : o # r => builders'[o] = builders[o]
      /\ \A o \in Restorers : o # r => restorers'[o] = restorers[o]
      /\ builders' \in [Builders -> BuilderState]
      /\ restorers' \in [Restorers -> RestorerState]
      /\ builders'[Exporter] = builders[Exporter]
  BY <1>1
<1>3. Restored' = Restored /\ (Lost' <=> Lost)
  BY DEF Restored, Lost
<1>4. TypeOK'
  BY <1>2 DEF TypeOK, CountedState, BuilderState, RestorerState
<1>5. FilesInv'
  BY DEF FilesInv
<1>6. ModeInv'
  BY <1>2, <1>3 DEF ModeInv
<1>7. \A m \in exported' : ExportedInv(m)'
  BY DEF ExportedInv
<1>8. ExporterInv'
  BY <1>2 DEF ExporterInv
<1>9. RestoredInv'
  <2> SUFFICES ASSUME session.state # "NONE" PROVE RestoredInv'
    BY DEF RestoredInv
  <2>1. /\ tenant \in {"ACTIVE", "DELETING"} => \A c \in Restored.bundles : artifacts[c] = "AVAILABLE"
        /\ tenant = "ACTIVE" => \A c \in Cases : Restored.records[c] \in {"NONE", cases[c]}
    BY DEF RestoredInv
  <2>2. tenant = "ACTIVE" /\ counted'.faults = 0 => Restored.bundles \subseteq objects'
    BY DEF RestoredInv
  <2> QED
    BY <1>3, <2>1, <2>2 DEF RestoredInv
<1>10. \A o \in Restorers : RestorerInv(o)'
  <2> TAKE o \in Restorers
  <2>1. CASE o = r
    BY <2>1
  <2>2. CASE o # r
    <3>1. RestorerInv(o) /\ o \in Builders
      BY <1>1
    <3> QED
      BY <1>2, <1>3, <2>2, <3>1 DEF RestorerInv, Of
  <2> QED
    BY <2>1, <2>2
<1>11. \A o \in Restorers : FaultlessInv(o)'
  <2> TAKE o \in Restorers
  <2>1. CASE o = r
    BY <2>1
  <2>2. CASE o # r
    BY <1>2, <1>3, <2>2 DEF FaultlessInv
  <2> QED
    BY <2>1, <2>2
<1>12. \A o \in Restorers : BeganInv(o)'
  <2> TAKE o \in Restorers
  <2>1. CASE o = r
    BY <2>1
  <2>2. CASE o # r
    BY <1>1, <1>2, <1>3, <2>2 DEF BeganInv
  <2> QED
    BY <2>1, <2>2
<1>13. ObjectsInv'
  BY DEF ObjectsInv
<1> QED
  BY <1>4, <1>5, <1>6, <1>7, <1>8, <1>9, <1>10, <1>11, <1>12, <1>13

\* What an object is accounted to stays, but for one command.
LEMMA StillAccounted ==
    ASSUME BackupInv, NEW r \in Restorers, NEW me \in RestorerState,
           restorers' = [restorers EXCEPT ![r] = me],
           UNCHANGED <<artifacts, survivors>>,
           NEW c, Accounted(c),
           c \in restorers[r].created => c \in me.created \/ artifacts[c] # "NONE"
    PROVE  Accounted(c)'
<1>1. restorers \in [Restorers -> RestorerState]
  BY BackupTypes DEF BackupInv
<1>2. CASE \E o \in Restorers : c \in restorers[o].created
  <2> PICK o \in Restorers : c \in restorers[o].created
    BY <1>2
  <2>1. CASE o = r
    BY <1>1, <2>1 DEF Accounted
  <2>2. CASE o # r
    BY <1>1, <2>2 DEF Accounted
  <2> QED
    BY <2>1, <2>2
<1> QED
  BY <1>2 DEF Accounted

\* A command that only moves on, with the objects as they are.
LEMMA RestorerMovesOn ==
    ASSUME BackupInv, NEW r \in Restorers, NEW me \in RestorerState, NEW b \in BuilderState,
           restorers' = [restorers EXCEPT ![r] = me],
           builders' = [builders EXCEPT ![r] = b],
           UNCHANGED <<tenant, cases, artifacts, objects, started, files, exported, survivors>>,
           session' \in [state: {"NONE", "RESTORED", "VERIFIED"}, sha256: Manifest],
           session'.sha256 = session.sha256,
           session'.state = "NONE" <=> session.state = "NONE",
           counted' \in CountedState,
           counted'.exports = counted.exports,
           counted'.faults = 0 => counted.faults = 0,
           counted'.crashes = 0 => counted.crashes = 0,
           counted'.faults = 0 /\ counted'.crashes = 0 /\ tenant # "DELETED" =>
              \A c \in restorers[r].created : c \in me.created \/ artifacts[c] # "NONE",
           RestorerInv(r)', FaultlessInv(r)', BeganInv(r)'
    PROVE  BackupInv'
<1>1. objects' \in SUBSET Cases
  BY BackupTypes DEF BackupInv
<1>2. ASSUME counted'.faults = 0, counted'.crashes = 0, tenant # "DELETED"
      PROVE  \A c \in objects' : Accounted(c)'
  <2> TAKE c \in objects'
  <2>1. Accounted(c)
    BY <1>2 DEF BackupInv, ObjectsInv
  <2> QED
    BY <1>2, <2>1, StillAccounted
<1> QED
  BY <1>1, <1>2, RestorerMoves

\* A command and its builder, before and after a step of it.
LEMMA CommandState ==
    ASSUME BackupInv, NEW r \in Restorers
    PROVE  /\ r \in Builders /\ r # Exporter
           /\ restorers[r] \in RestorerState /\ builders[r] \in BuilderState
           /\ restorers[r].uploaded \in SUBSET Cases /\ restorers[r].created \in SUBSET Cases
           /\ builders = [builders EXCEPT ![r] = builders[r]]
           /\ \A me : restorers' = [restorers EXCEPT ![r] = me] => restorers'[r] = me
           /\ \A b : builders' = [builders EXCEPT ![r] = b] => builders'[r] = b
           /\ RestorerInv(r) /\ FaultlessInv(r) /\ BeganInv(r)
<1>1. r \in Builders /\ r # Exporter
  BY BackupAssumption DEF Builders
<1>2. restorers \in [Restorers -> RestorerState] /\ builders \in [Builders -> BuilderState]
  BY BackupTypes DEF BackupInv
<1>3. restorers[r].uploaded \in SUBSET Cases /\ restorers[r].created \in SUBSET Cases
  BY <1>2 DEF RestorerState
<1> QED
  BY <1>1, <1>2, <1>3 DEF BackupInv

LEMMA IdleCommand ==
    ASSUME BackupInv, NEW r \in Restorers, NEW b, b.pc = "idle",
           restorers' = [restorers EXCEPT ![r] = IdleRestorer],
           builders' = [builders EXCEPT ![r] = b]
    PROVE  RestorerInv(r)' /\ FaultlessInv(r)' /\ BeganInv(r)'
<1>1. restorers'[r] = IdleRestorer /\ builders'[r] = b
  BY CommandState
<1>2. restorers'[r].pc = "idle" /\ restorers'[r].created = {} /\ builders'[r].pc = "idle"
  BY <1>1 DEF IdleRestorer
<1> QED
  BY <1>2 DEF RestorerInv, FaultlessInv, BeganInv

\* A command that looked at something, and goes on with the same objects.
LEMMA PcMoves ==
    ASSUME BackupInv, NEW r \in Restorers,
           NEW pc \in {"uploading", "writing", "cleaning", "checking"},
           restorers[r].pc \notin {"idle", "comparing"},
           restorers' = [restorers EXCEPT ![r] = [restorers[r] EXCEPT !.pc = pc]],
           UNCHANGED <<tenantRows, objects, started, files, history, builders>>,
           counted' \in CountedState,
           counted'.exports = counted.exports,
           counted'.faults = 0 => counted.faults = 0,
           counted'.crashes = 0 => counted.crashes = 0,
           pc # "checking" => Lost,
           pc = "uploading" => restorers[r].uploaded = {},
           pc = "writing" =>
              restorers[r].pc = "uploading" /\ restorers[r].uploaded = Of(r).bundles,
           pc = "cleaning" /\ counted'.faults = 0 => tenant # "ABSENT",
           pc = "checking" =>
              /\ session.state # "NONE"
              /\ tenant # "DELETED" => \A c \in restorers[r].created : artifacts[c] # "NONE"
    PROVE  BackupInv'
<1> DEFINE me == restorers[r]
           next == [pc |-> pc, file |-> me.file, uploaded |-> me.uploaded, created |-> me.created]
<1>1. UNCHANGED <<tenant, cases, artifacts, session, objects, started, files, exported, survivors>>
  BY DEF tenantRows, history
<1>2. /\ me \in RestorerState /\ builders[r] \in BuilderState
      /\ RestorerInv(r) /\ FaultlessInv(r)
      /\ builders' = [builders EXCEPT ![r] = builders[r]] /\ builders'[r] = builders[r]
  BY CommandState
<1>3. [me EXCEPT !.pc = pc] = next
  <2> HIDE DEF me
  <2> QED
    BY <1>2, RestorerField
<1>4. next \in RestorerState
  <2> HIDE DEF me
  <2> QED
    BY <1>2 DEF RestorerState
<1>5. restorers' = [restorers EXCEPT ![r] = next] /\ restorers'[r] = next
  BY <1>3, CommandState
<1>6. Lost' <=> Lost
  BY <1>1 DEF Lost
<1>7. RestorerInv(r)'
  BY <1>1, <1>2, <1>5, <1>6 DEF RestorerInv, Of
<1>8. FaultlessInv(r)'
  BY <1>1, <1>2, <1>5 DEF FaultlessInv, Restored
<1>9. BeganInv(r)'
  BY <1>2 DEF BeganInv, RestorerInv
<1>10. session' \in [state: {"NONE", "RESTORED", "VERIFIED"}, sha256: Manifest]
  BY <1>1, BackupTypes DEF BackupInv
<1>11. next.created = me.created
  OBVIOUS
<1> HIDE DEF next
<1> QED
  BY <1>1, <1>2, <1>4, <1>5, <1>7, <1>8, <1>9, <1>10, <1>11, RestorerMovesOn, ZenonT(60)

\* Only a verified file is restored, and so only what was exported.
LEMMA BeginRestoreKeeps ==
    ASSUME BackupInv, NEW r \in Restorers, NEW file \in files, BeginRestore(r, file)
    PROVE  BackupInv'
<1> DEFINE next == [pc |-> "inspecting", file |-> file, uploaded |-> {}, created |-> {}]
<1>1. /\ restorers[r].pc = "idle" /\ Verified(file)
      /\ restorers' = [restorers EXCEPT ![r] = [IdleRestorer EXCEPT !.pc = "inspecting", !.file = file]]
      /\ UNCHANGED <<tenant, cases, artifacts, session, objects, started, files, exported, survivors,
                     builders, counted>>
  BY DEF BeginRestore, Restorer, tenantRows, history
<1>2. file \in File /\ file.sha256 \in exported /\ file.sha256 = file.manifest
  BY <1>1, BackupTypes DEF BackupInv, FilesInv, Verified, Sha256
<1>3. [IdleRestorer EXCEPT !.pc = "inspecting", !.file = file] = next
  <2>1. [IdleRestorer EXCEPT !.pc = "inspecting", !.file = file] =
           [pc |-> "inspecting", file |-> file, uploaded |-> IdleRestorer.uploaded,
            created |-> IdleRestorer.created]
    BY IdleTypes, RestorerPcFile
  <2> QED
    BY <2>1 DEF IdleRestorer
<1>4. next \in RestorerState
  BY <1>2 DEF RestorerState
<1>5. restorers' = [restorers EXCEPT ![r] = next] /\ restorers'[r] = next
  BY <1>1, <1>3, CommandState
<1>6. /\ restorers[r].created = {} /\ builders[r].pc = "idle" /\ builders[r] \in BuilderState
      /\ builders' = [builders EXCEPT ![r] = builders[r]] /\ builders'[r] = builders[r]
  BY <1>1, CommandState DEF RestorerInv
<1>7. RestorerInv(r)'
  <2>1. /\ restorers'[r].pc = "inspecting" /\ restorers'[r].file = file
        /\ restorers'[r].uploaded = {} /\ restorers'[r].created = {}
        /\ builders'[r].pc = "idle"
    BY <1>5, <1>6
  <2>2. file \in File /\ file.sha256 = file.manifest /\ file.manifest \in exported'
    BY <1>1, <1>2
  <2> QED
    BY <2>1, <2>2 DEF RestorerInv, Of
<1>8. FaultlessInv(r)' /\ BeganInv(r)'
  BY <1>5, <1>6 DEF FaultlessInv, BeganInv
<1>9. /\ session' \in [state: {"NONE", "RESTORED", "VERIFIED"}, sha256: Manifest]
      /\ counted' \in CountedState
  BY <1>1, BackupTypes DEF BackupInv
<1> HIDE DEF next
<1> QED
  BY <1>1, <1>4, <1>5, <1>6, <1>7, <1>8, <1>9, RestorerMovesOn

\* findRestore, when the command begins.
LEMMA InspectTargetKeeps ==
    ASSUME BackupInv, NEW r \in Restorers, InspectTarget(r)
    PROVE  BackupInv'
<1>1. /\ restorers[r].pc = "inspecting"
      /\ UNCHANGED <<tenantRows, objects, started, files, history, builders, counted>>
      /\ \/ /\ tenant = "ABSENT"
            /\ restorers' = [restorers EXCEPT ![r] = [restorers[r] EXCEPT !.pc = "uploading"]]
         \/ /\ RestoredAlready(r)
            /\ restorers' = [restorers EXCEPT ![r] = [restorers[r] EXCEPT !.pc = "checking"]]
         \/ restorers' = [restorers EXCEPT ![r] = IdleRestorer]
  BY Zenon DEF InspectTarget, Restorer
<1>2. /\ restorers[r].created = {} /\ restorers[r].uploaded = {} /\ builders[r].pc = "idle"
      /\ builders[r] \in BuilderState
      /\ builders' = [builders EXCEPT ![r] = builders[r]]
  BY <1>1, CommandState DEF RestorerInv
<1>3. counted' \in CountedState /\ counted' = counted
  BY <1>1, BackupTypes DEF BackupInv
<1>4. /\ UNCHANGED <<tenant, cases, artifacts, session, objects, started, files, exported, survivors>>
      /\ session' \in [state: {"NONE", "RESTORED", "VERIFIED"}, sha256: Manifest]
  BY <1>1, BackupTypes DEF tenantRows, history, BackupInv
<1>5. CASE /\ tenant = "ABSENT"
           /\ restorers' = [restorers EXCEPT ![r] = [restorers[r] EXCEPT !.pc = "uploading"]]
  BY <1>1, <1>2, <1>3, <1>5, PcMoves DEF Lost
<1>6. CASE /\ RestoredAlready(r)
           /\ restorers' = [restorers EXCEPT ![r] = [restorers[r] EXCEPT !.pc = "checking"]]
  BY <1>1, <1>2, <1>3, <1>6, PcMoves DEF RestoredAlready
<1>7. CASE restorers' = [restorers EXCEPT ![r] = IdleRestorer]
  <2>1. RestorerInv(r)' /\ FaultlessInv(r)' /\ BeganInv(r)'
    BY <1>2, <1>7, IdleCommand
  <2> QED
    BY <1>2, <1>3, <1>4, <1>7, <2>1, IdleTypes, RestorerMovesOn
<1> QED
  BY <1>1, <1>5, <1>6, <1>7

\* An object that is there already is not this command's to remove.
LEMMA UploadObjectKeeps ==
    ASSUME BackupInv, NEW r \in Restorers, NEW c \in Cases, UploadObject(r, c)
    PROVE  BackupInv'
<1> DEFINE me == restorers[r]
           mine == IF c \in objects THEN me.created ELSE me.created \cup {c}
           more == me.uploaded \cup {c}
           next == [pc |-> "uploading", file |-> me.file, uploaded |-> more, created |-> mine]
<1>1. /\ me.pc = "uploading" /\ c \in Of(r).bundles
      /\ objects' = objects \cup {c}
      /\ UNCHANGED <<tenant, cases, artifacts, session, started, files, exported, survivors,
                     builders, counted>>
  BY DEF UploadObject, tenantRows, history
<1>2. /\ me \in RestorerState /\ builders[r] \in BuilderState
      /\ me.uploaded \in SUBSET Cases /\ me.created \in SUBSET Cases
      /\ RestorerInv(r) /\ FaultlessInv(r)
      /\ builders' = [builders EXCEPT ![r] = builders[r]] /\ builders'[r] = builders[r]
  BY <1>1, CommandState
<1>3. restorers' = [restorers EXCEPT ![r] = [me EXCEPT !.uploaded = more, !.created = mine]]
  BY Zenon DEF UploadObject, Restorer
<1>4. [me EXCEPT !.uploaded = more, !.created = mine] = next
  <2> HIDE DEF me, more, mine
  <2>1. [me EXCEPT !.uploaded = more, !.created = mine] =
           [pc |-> me.pc, file |-> me.file, uploaded |-> more, created |-> mine]
    BY <1>2, RestorerObjects
  <2> QED
    BY <1>1, <2>1
<1>5. more \in SUBSET Cases /\ mine \in SUBSET Cases
  BY <1>2
<1>6. next \in RestorerState
  <2> HIDE DEF me, more, mine
  <2> QED
    BY <1>2, <1>5 DEF RestorerState
<1>7. restorers' = [restorers EXCEPT ![r] = next] /\ restorers'[r] = next
  BY <1>3, <1>4, CommandState
<1>8. /\ restorers'[r].pc = "uploading" /\ restorers'[r].file = me.file
      /\ restorers'[r].uploaded = more /\ restorers'[r].created = mine
  BY <1>7
<1>9. RestorerInv(r)'
  <2>1. /\ me.file \in File /\ me.file.sha256 = Of(r) /\ Of(r) \in exported
        /\ me.created \subseteq Of(r).bundles
        /\ builders[r].pc = "idle" /\ Lost
    BY <1>1, <1>2 DEF RestorerInv
  <2>2. mine \subseteq Of(r).bundles /\ Of(r)' = Of(r) /\ Lost'
    BY <1>1, <1>8, <2>1 DEF Of, Lost
  <2> QED
    BY <1>1, <1>2, <1>8, <2>1, <2>2 DEF RestorerInv
<1>10. FaultlessInv(r)'
  BY <1>1, <1>2, <1>8 DEF FaultlessInv
<1>11. BeganInv(r)'
  BY <1>1, <1>2 DEF BeganInv, RestorerInv
<1>12. ASSUME counted'.faults = 0, counted'.crashes = 0, tenant # "DELETED", NEW o \in objects'
       PROVE  Accounted(o)'
  <2>1. CASE o \in objects
    <3>1. Accounted(o)
      BY <1>1, <1>12, <2>1 DEF BackupInv, ObjectsInv
    <3>2. o \in restorers[r].created => o \in next.created
      OBVIOUS
    <3> HIDE DEF next
    <3> QED
      BY <1>1, <1>6, <1>7, <3>1, <3>2, StillAccounted
  <2>2. CASE o \notin objects
    <3>1. o \in restorers'[r].created
      BY <1>1, <1>8, <2>2
    <3> QED
      BY <3>1 DEF Accounted
  <2> QED
    BY <2>1, <2>2
<1>13. /\ session' \in [state: {"NONE", "RESTORED", "VERIFIED"}, sha256: Manifest]
       /\ counted' \in CountedState /\ objects' \in SUBSET Cases
  BY <1>1, BackupTypes DEF BackupInv
<1> HIDE DEF next
<1> QED
  BY <1>1, <1>2, <1>6, <1>7, <1>9, <1>10, <1>11, <1>12, <1>13, RestorerMoves

\* An upload that fails is a fault: whatever it leaves behind is excused.
LEMMA UploadFailsKeeps ==
    ASSUME BackupInv, NEW r \in Restorers, NEW c \in Cases, UploadFails(r, c)
    PROVE  BackupInv'
<1> DEFINE me == restorers[r]
           next == [pc |-> "abandoning", file |-> me.file, uploaded |-> me.uploaded,
                    created |-> me.created]
<1>1. /\ me.pc = "uploading"
      /\ Incident("faults")
      /\ objects' \in {objects, objects \cup {c}}
      /\ restorers' = [restorers EXCEPT ![r] = [me EXCEPT !.pc = "abandoning"]]
      /\ UNCHANGED <<tenant, cases, artifacts, session, started, files, exported, survivors, builders>>
  BY Zenon DEF UploadFails, Restorer, tenantRows, history
<1>2. /\ me \in RestorerState /\ builders[r] \in BuilderState
      /\ RestorerInv(r)
      /\ builders' = [builders EXCEPT ![r] = builders[r]] /\ builders'[r] = builders[r]
  BY <1>1, CommandState
<1>3. /\ counted' \in CountedState /\ counted'.exports = counted.exports
      /\ counted'.faults # 0 /\ counted'.crashes = counted.crashes
  BY <1>1, IncidentCounts, BackupTypes DEF BackupInv
<1>4. [me EXCEPT !.pc = "abandoning"] = next
  <2> HIDE DEF me
  <2> QED
    BY <1>2, RestorerField
<1>5. next \in RestorerState
  <2> HIDE DEF me
  <2> QED
    BY <1>2 DEF RestorerState
<1>6. restorers' = [restorers EXCEPT ![r] = next] /\ restorers'[r] = next
  BY <1>1, <1>4, CommandState
<1>7. RestorerInv(r)'
  BY <1>1, <1>2, <1>6 DEF RestorerInv, Of, Lost
<1>8. FaultlessInv(r)' /\ BeganInv(r)'
  BY <1>1, <1>2, <1>3 DEF FaultlessInv, BeganInv, RestorerInv
<1>9. /\ session' \in [state: {"NONE", "RESTORED", "VERIFIED"}, sha256: Manifest]
      /\ objects' \in SUBSET Cases
  BY <1>1, BackupTypes DEF BackupInv
<1> HIDE DEF next
<1> QED
  BY <1>1, <1>2, <1>3, <1>5, <1>6, <1>7, <1>8, <1>9, RestorerMoves, ZenonT(60)

\* So is an upload whose answer is lost, although the restore goes on: the object is in
\* the store, and nobody will remove it.
LEMMA UploadAnswerLostKeeps ==
    ASSUME BackupInv, NEW r \in Restorers, NEW c \in Cases, UploadAnswerLost(r, c)
    PROVE  BackupInv'
<1> DEFINE me == restorers[r]
           more == me.uploaded \cup {c}
           next == [pc |-> "uploading", file |-> me.file, uploaded |-> more,
                    created |-> me.created]
<1>1. /\ me.pc = "uploading"
      /\ Incident("faults")
      /\ objects' = objects \cup {c}
      /\ UNCHANGED <<tenant, cases, artifacts, session, started, files, exported, survivors, builders>>
  BY DEF UploadAnswerLost, tenantRows, history
<1>2. /\ me \in RestorerState /\ builders[r] \in BuilderState
      /\ me.uploaded \in SUBSET Cases
      /\ RestorerInv(r)
      /\ builders' = [builders EXCEPT ![r] = builders[r]] /\ builders'[r] = builders[r]
  BY <1>1, CommandState
<1>3. /\ counted' \in CountedState /\ counted'.exports = counted.exports
      /\ counted'.faults # 0 /\ counted'.crashes = counted.crashes
  BY <1>1, IncidentCounts, BackupTypes DEF BackupInv
<1>4. restorers' = [restorers EXCEPT ![r] = [me EXCEPT !.uploaded = more]]
  BY Zenon DEF UploadAnswerLost, Restorer
<1>5. [me EXCEPT !.uploaded = more] = next
  <2> HIDE DEF me, more
  <2>1. [me EXCEPT !.uploaded = more] =
           [pc |-> me.pc, file |-> me.file, uploaded |-> more, created |-> me.created]
    BY <1>2, RestorerField
  <2> QED
    BY <1>1, <2>1
<1>6. next \in RestorerState
  <2>1. more \in SUBSET Cases
    BY <1>2
  <2> HIDE DEF me, more
  <2> QED
    BY <1>2, <2>1 DEF RestorerState
<1>7. restorers' = [restorers EXCEPT ![r] = next] /\ restorers'[r] = next
  BY <1>4, <1>5, CommandState
<1>8. RestorerInv(r)'
  BY <1>1, <1>2, <1>7 DEF RestorerInv, Of, Lost
<1>9. FaultlessInv(r)' /\ BeganInv(r)'
  BY <1>1, <1>2, <1>3 DEF FaultlessInv, BeganInv, RestorerInv
<1>10. /\ session' \in [state: {"NONE", "RESTORED", "VERIFIED"}, sha256: Manifest]
       /\ objects' \in SUBSET Cases
  BY <1>1, BackupTypes DEF BackupInv
<1> HIDE DEF next
<1> QED
  BY <1>1, <1>2, <1>3, <1>6, <1>7, <1>8, <1>9, <1>10, RestorerMoves, ZenonT(60)

LEMMA AbandonUploadKeeps ==
    ASSUME BackupInv, NEW r \in Restorers, AbandonUpload(r)
    PROVE  BackupInv'
<1>1. /\ restorers[r].pc = "abandoning"
      /\ objects' = objects \ restorers[r].created
      /\ restorers' = [restorers EXCEPT ![r] = IdleRestorer]
      /\ UNCHANGED <<tenant, cases, artifacts, session, started, files, exported, survivors,
                     builders, counted>>
  BY DEF AbandonUpload, Restorer, tenantRows, history
<1>2. counted.faults # 0
  BY <1>1, CommandState DEF FaultlessInv
<1>3. /\ builders[r].pc = "idle" /\ builders[r] \in BuilderState
      /\ builders' = [builders EXCEPT ![r] = builders[r]]
  BY <1>1, CommandState DEF RestorerInv
<1>4. RestorerInv(r)' /\ FaultlessInv(r)' /\ BeganInv(r)'
  BY <1>1, <1>3, IdleCommand
<1>5. /\ session' \in [state: {"NONE", "RESTORED", "VERIFIED"}, sha256: Manifest]
      /\ counted' \in CountedState /\ objects' \in SUBSET Cases
  BY <1>1, BackupTypes DEF BackupInv
<1> QED
  BY <1>1, <1>2, <1>3, <1>4, <1>5, IdleTypes, RestorerMoves

LEMMA UploadEndsKeeps ==
    ASSUME BackupInv, NEW r \in Restorers, UploadEnds(r)
    PROVE  BackupInv'
<1>1. /\ restorers[r].pc = "uploading"
      /\ restorers[r].uploaded = Of(r).bundles
      /\ restorers' = [restorers EXCEPT ![r] = [restorers[r] EXCEPT !.pc = "writing"]]
      /\ UNCHANGED <<tenantRows, objects, started, files, history, builders, counted>>
  BY Zenon DEF UploadEnds, Restorer
<1>2. Lost
  BY <1>1, CommandState DEF RestorerInv
<1>3. counted' \in CountedState /\ counted' = counted
  BY <1>1, BackupTypes DEF BackupInv
<1> QED
  BY <1>1, <1>2, <1>3, PcMoves

\* The transaction finds no tenant, and writes the one of the archive: none of the
\* commands has restored anything before, and no export has been made since.
LEMMA RowsAreWritten ==
    ASSUME BackupInv, NEW r \in Restorers, NEW pc \in {"checking", "cleaning"},
           restorers[r].pc = "writing", tenant = "ABSENT", RestoredRows(r),
           restorers' = [restorers EXCEPT ![r] = [restorers[r] EXCEPT !.pc = pc]],
           UNCHANGED <<objects, started, files, history, builders>>,
           counted' \in CountedState,
           counted'.exports = counted.exports,
           counted'.faults = 0 => counted.faults = 0,
           counted'.crashes = 0 => counted.crashes = 0,
           pc = "cleaning" => counted'.faults # 0
    PROVE  BackupInv'
<1> DEFINE me == restorers[r]
           m == Of(r)
           next == [pc |-> pc, file |-> me.file, uploaded |-> me.uploaded, created |-> me.created]
<1>1. UNCHANGED <<objects, started, files, exported, survivors, builders>>
  BY DEF history
<1>2. /\ me \in RestorerState /\ RestorerInv(r) /\ FaultlessInv(r)
      /\ restorers \in [Restorers -> RestorerState]
  BY CommandState, BackupTypes DEF BackupInv
<1>3. /\ m \in exported /\ m \in Manifest /\ Valid(m) /\ OneHistory(exported)
      /\ me.file \in File /\ me.file.sha256 = m
      /\ me.created \subseteq m.bundles /\ me.uploaded = m.bundles
      /\ builders[r].pc = "idle"
  <2>1. m \in exported
    BY <1>2 DEF RestorerInv
  <2>2. Valid(m) /\ m \in Manifest /\ OneHistory(exported)
    BY <2>1, BackupTypes DEF BackupInv, ExportedInv, ModeInv, Lost
  <2> QED
    BY <1>2, <2>1, <2>2 DEF RestorerInv
<1>4. /\ m.records \in [Cases -> CaseStates] /\ m.bundles \subseteq Cases
  BY <1>3 DEF Manifest
<1>5. /\ tenant' = "ACTIVE"
      /\ cases' = m.records
      /\ artifacts' = [c \in Cases |-> IF c \in m.bundles THEN "AVAILABLE" ELSE "NONE"]
      /\ session' = [state |-> "RESTORED", sha256 |-> m]
  BY DEF RestoredRows, RestoredRecords, RestoredArtifacts, Sha256
<1>6. /\ session.state = "NONE"
      /\ \A c \in Cases : cases[c] = "NONE" /\ artifacts[c] = "NONE"
      /\ counted.exports = MaxExports /\ builders[Exporter].pc = "idle"
  BY DEF BackupInv, ModeInv, Lost
<1>7. [me EXCEPT !.pc = pc] = next
  <2> HIDE DEF me
  <2> QED
    BY <1>2, RestorerField
<1>8. next \in RestorerState
  <2> HIDE DEF me
  <2> QED
    BY <1>2 DEF RestorerState
<1>9. /\ restorers' = [restorers EXCEPT ![r] = next] /\ restorers'[r] = next
      /\ \A o \in Restorers : o # r => restorers'[o] = restorers[o]
      /\ restorers' \in [Restorers -> RestorerState]
  BY <1>2, <1>7, <1>8
<1>10. Restored' = m /\ Lost' /\ Lost
  BY <1>5 DEF Restored, Lost
<1>11. \A o \in Restorers : builders[o].pc = "idle" /\ restorers[o].pc \notin {"checking", "comparing"}
  BY <1>6 DEF BackupInv, RestorerInv
<1> HIDE DEF m
<1>12. TypeOK'
  <2>1. /\ cases' \in [Cases -> CaseStates]
        /\ artifacts' \in [Cases -> {"NONE", "PENDING", "AVAILABLE"}]
        /\ session' \in [state: {"NONE", "RESTORED", "VERIFIED"}, sha256: Manifest]
        /\ tenant' \in {"ABSENT", "ACTIVE", "DELETING", "DELETED"}
    BY <1>3, <1>4, <1>5
  <2> QED
    BY <1>1, <1>9, <2>1, ZenonT(60) DEF BackupInv, TypeOK, CountedState, RestorerState
<1>13. FilesInv'
  BY <1>1 DEF BackupInv, FilesInv
<1>14. ModeInv'
  <2>1. /\ tenant' # "ABSENT" /\ session'.state # "NONE" /\ Restored' \in exported'
        /\ OneHistory(exported)'
        /\ counted'.exports = MaxExports /\ builders'[Exporter].pc = "idle"
    BY <1>1, <1>3, <1>5, <1>6, <1>10 DEF OneHistory
  <2>2. \A c \in Cases : cases'[c] # "NONE" => Restored'.records[c] # "NONE"
    BY <1>5, <1>10
  <2> QED
    BY <2>1, <2>2 DEF ModeInv
<1>15. \A n \in exported' : ExportedInv(n)'
  <2> TAKE n \in exported'
  <2>1. n \in exported /\ Valid(n)
    BY <1>1 DEF BackupInv, ExportedInv
  <2>2. \A c \in Cases : "NONE" \in {n.records[c], m.records[c]} \/ n.records[c] = m.records[c]
    BY <1>3, <2>1 DEF OneHistory
  <2> QED
    BY <1>5, <2>1, <2>2 DEF ExportedInv
<1>16. ExporterInv'
  <2>1. builders'[Exporter] = IdleBuilder
    BY <1>1, <1>6 DEF BackupInv, ExporterInv
  <2> QED
    BY <2>1 DEF ExporterInv, IdleBuilder, NoManifest, Terminal
<1>17. RestoredInv'
  <2>1. counted'.faults = 0 => m.bundles \subseteq objects'
    BY <1>1, <1>2, <1>3 DEF FaultlessInv
  <2>2. \A c \in m.bundles : artifacts'[c] = "AVAILABLE"
    BY <1>4, <1>5
  <2> QED
    BY <1>5, <1>10, <2>1, <2>2 DEF RestoredInv
<1>18. \A o \in Restorers : RestorerInv(o)'
  <2> TAKE o \in Restorers
  <2>1. CASE o = r
    <3>1. /\ restorers'[r].pc = pc /\ restorers'[r].file = me.file
          /\ restorers'[r].created = me.created
      BY <1>9
    <3>2. Of(r)' = m
      BY <3>1 DEF Of, m
    <3> QED
      BY <1>1, <1>3, <1>5, <1>10, <2>1, <3>1, <3>2 DEF RestorerInv
  <2>2. CASE o # r
    <3>1. RestorerInv(o)
      BY DEF BackupInv
    <3> QED
      BY <1>1, <1>5, <1>9, <1>10, <1>11, <2>2, <3>1 DEF RestorerInv, Of
  <2> QED
    BY <2>1, <2>2
<1>19. \A o \in Restorers : FaultlessInv(o)'
  <2> TAKE o \in Restorers
  <2>1. CASE o = r
    <3>1. restorers'[r].pc = pc /\ restorers'[r].created = me.created
      BY <1>9
    <3>2. \A c \in me.created : artifacts'[c] # "NONE"
      BY <1>3, <1>4, <1>5
    <3> QED
      BY <1>5, <2>1, <3>1, <3>2 DEF FaultlessInv
  <2>2. CASE o # r
    <3>1. FaultlessInv(o)
      BY DEF BackupInv
    <3> QED
      BY <1>5, <1>9, <1>11, <2>2, <3>1 DEF FaultlessInv
  <2> QED
    BY <2>1, <2>2
<1>20. \A o \in Restorers : BeganInv(o)'
  BY <1>1, <1>11 DEF BeganInv
<1>21. ObjectsInv'
  <2> SUFFICES ASSUME counted'.faults = 0, counted'.crashes = 0, NEW c \in objects'
               PROVE  Accounted(c)'
    BY DEF ObjectsInv
  <2>1. Accounted(c) /\ c \in Cases
    BY <1>1, BackupTypes DEF BackupInv, ObjectsInv
  <2>2. c \in survivors \/ \E o \in Restorers : c \in restorers[o].created
    BY <1>6, <2>1 DEF Accounted
  <2>3. ASSUME NEW o \in Restorers, c \in restorers[o].created
        PROVE  c \in restorers'[o].created
    <3>1. restorers'[r].created = restorers[r].created
      BY <1>9
    <3> QED
      BY <1>9, <2>3, <3>1
  <2> QED
    BY <1>1, <2>2, <2>3 DEF Accounted
<1> QED
  BY <1>12, <1>13, <1>14, <1>15, <1>16, <1>17, <1>18, <1>19, <1>20, <1>21 DEF BackupInv

\* The tenant that is there stays; the command finds its archive, or cleans up.
LEMMA RestoreTransactionKeeps ==
    ASSUME BackupInv, NEW r \in Restorers, RestoreTransaction(r)
    PROVE  BackupInv'
<1> DEFINE me == restorers[r]
<1>1. /\ me.pc = "writing"
      /\ UNCHANGED <<objects, started, files, history, builders, counted>>
      /\ \/ /\ tenant = "ABSENT" /\ RestoredRows(r)
            /\ restorers' = [restorers EXCEPT ![r] = [me EXCEPT !.pc = "checking"]]
         \/ /\ tenant # "ABSENT" /\ UNCHANGED tenantRows
            /\ restorers' = [restorers EXCEPT ![r] = [me EXCEPT !.pc =
                                IF RestoredAlready(r) THEN "checking" ELSE "cleaning"]]
  BY Zenon DEF RestoreTransaction, Restorer
<1>2. counted' \in CountedState /\ counted' = counted
  BY <1>1, BackupTypes DEF BackupInv
<1>3. CASE /\ tenant = "ABSENT" /\ RestoredRows(r)
           /\ restorers' = [restorers EXCEPT ![r] = [me EXCEPT !.pc = "checking"]]
  BY <1>1, <1>2, <1>3, RowsAreWritten
<1>4. CASE /\ tenant # "ABSENT" /\ UNCHANGED tenantRows
           /\ restorers' = [restorers EXCEPT ![r] = [me EXCEPT !.pc =
                                IF RestoredAlready(r) THEN "checking" ELSE "cleaning"]]
  <2>1. CASE RestoredAlready(r)
    <3>1. session.state # "NONE" /\ Restored = Of(r)
      BY <2>1 DEF RestoredAlready, Restored, Sha256
    <3>2. me.created \subseteq Of(r).bundles
      BY <1>1, CommandState DEF RestorerInv
    <3>3. tenant # "DELETED" => \A c \in me.created : artifacts[c] # "NONE"
      BY <1>4, <3>1, <3>2, BackupTypes DEF BackupInv, RestoredInv
    <3>4. restorers' = [restorers EXCEPT ![r] = [me EXCEPT !.pc = "checking"]]
      BY <1>4, <2>1, Zenon
    <3> QED
      BY <1>1, <1>2, <1>4, <3>1, <3>3, <3>4, PcMoves
  <2>2. CASE ~RestoredAlready(r)
    <3>1. restorers' = [restorers EXCEPT ![r] = [me EXCEPT !.pc = "cleaning"]]
      BY <1>4, <2>2, Zenon
    <3>2. Lost
      BY <1>1, CommandState DEF RestorerInv
    <3> QED
      BY <1>1, <1>2, <1>4, <3>1, <3>2, PcMoves
  <2> QED
    BY <2>1, <2>2
<1> QED
  BY <1>1, <1>3, <1>4

LEMMA TransactionFailsKeeps ==
    ASSUME BackupInv, NEW r \in Restorers, TransactionFails(r)
    PROVE  BackupInv'
<1>1. /\ restorers[r].pc = "writing"
      /\ Incident("faults")
      /\ (tenant = "ABSENT" /\ RestoredRows(r)) \/ UNCHANGED tenantRows
      /\ restorers' = [restorers EXCEPT ![r] = [restorers[r] EXCEPT !.pc = "cleaning"]]
      /\ UNCHANGED <<objects, started, files, history, builders>>
  BY Zenon DEF TransactionFails, Restorer
<1>2. /\ counted' \in CountedState /\ counted'.exports = counted.exports
      /\ counted'.faults # 0 /\ counted'.crashes = counted.crashes
  BY <1>1, IncidentCounts, BackupTypes DEF BackupInv
<1>3. Lost
  BY <1>1, CommandState DEF RestorerInv
<1>4. CASE tenant = "ABSENT" /\ RestoredRows(r)
  BY <1>1, <1>2, <1>4, RowsAreWritten
<1>5. CASE UNCHANGED tenantRows
  BY <1>1, <1>2, <1>3, <1>5, PcMoves
<1> QED
  BY <1>1, <1>4, <1>5

\* cleanupUnreferenced looks for a row that refers to the object.
LEMMA FindReferenceKeeps ==
    ASSUME BackupInv, NEW r \in Restorers, FindReference(r)
    PROVE  BackupInv'
<1> DEFINE me == restorers[r]
<1>1. /\ me.pc = "cleaning"
      /\ UNCHANGED <<tenant, cases, artifacts, session, objects, started, files, exported, survivors,
                     builders, counted>>
  BY DEF FindReference, tenantRows, history
<1>2. /\ me \in RestorerState /\ builders[r] \in BuilderState
      /\ me.uploaded \in SUBSET Cases /\ me.created \in SUBSET Cases
      /\ RestorerInv(r) /\ FaultlessInv(r) /\ builders[r].pc = "idle"
      /\ builders' = [builders EXCEPT ![r] = builders[r]] /\ builders'[r] = builders[r]
  BY <1>1, CommandState DEF RestorerInv
<1>3. /\ session' \in [state: {"NONE", "RESTORED", "VERIFIED"}, sha256: Manifest]
      /\ counted' \in CountedState
  BY <1>1, BackupTypes DEF BackupInv
<1>4. /\ me.file \in File /\ me.file.sha256 = Of(r) /\ Of(r) \in exported
      /\ me.created \subseteq Of(r).bundles /\ Lost
  BY <1>1, <1>2 DEF RestorerInv
<1>5. CASE me.created = {}
  <2>1. restorers' = [restorers EXCEPT ![r] = IdleRestorer]
    BY <1>5 DEF FindReference, Restorer
  <2>2. RestorerInv(r)' /\ FaultlessInv(r)' /\ BeganInv(r)'
    BY <1>2, <2>1, IdleCommand
  <2> QED
    BY <1>1, <1>2, <1>3, <1>5, <2>1, <2>2, IdleTypes, RestorerMovesOn
<1>6. CASE me.created # {}
  <2>1. PICK c \in me.created :
           restorers' = [restorers EXCEPT ![r] =
              IF artifacts[c] # "NONE" THEN [me EXCEPT !.created = me.created \ {c}]
                                       ELSE [me EXCEPT !.pc = "removing", !.uploaded = {c}]]
    BY <1>6, Zenon DEF FindReference, Restorer
  <2>2. CASE artifacts[c] # "NONE"
    <3> DEFINE rest == me.created \ {c}
               next == [pc |-> "cleaning", file |-> me.file, uploaded |-> me.uploaded,
                        created |-> rest]
    <3>1. restorers' = [restorers EXCEPT ![r] = [me EXCEPT !.created = rest]]
      BY <2>1, <2>2, Zenon
    <3>2. [me EXCEPT !.created = rest] = next
      <4> HIDE DEF me, rest
      <4>1. [me EXCEPT !.created = rest] =
               [pc |-> me.pc, file |-> me.file, uploaded |-> me.uploaded, created |-> rest]
        BY <1>2, RestorerField
      <4> QED
        BY <1>1, <4>1
    <3>3. rest \in SUBSET Cases
      BY <1>2
    <3>4. next \in RestorerState
      <4> HIDE DEF me, rest
      <4> QED
        BY <1>2, <3>3 DEF RestorerState
    <3>5. restorers' = [restorers EXCEPT ![r] = next] /\ restorers'[r] = next
      BY <3>1, <3>2, CommandState
    <3>6. /\ restorers'[r].pc = "cleaning" /\ restorers'[r].file = me.file
          /\ restorers'[r].created = rest
      BY <3>5
    <3>7. RestorerInv(r)'
      <4>1. Of(r)' = Of(r) /\ Lost' /\ rest \subseteq Of(r).bundles
        BY <1>1, <1>4, <3>6 DEF Of, Lost
      <4> QED
        BY <1>1, <1>2, <1>4, <3>6, <4>1 DEF RestorerInv
    <3>8. FaultlessInv(r)' /\ BeganInv(r)'
      BY <1>1, <1>2, <3>6 DEF FaultlessInv, BeganInv
    <3>9. \A o \in me.created : o \in next.created \/ artifacts[o] # "NONE"
      BY <2>2
    <3> HIDE DEF next
    <3> QED
      BY <1>1, <1>2, <1>3, <3>4, <3>5, <3>7, <3>8, <3>9, RestorerMovesOn
  <2>3. CASE artifacts[c] = "NONE"
    <3> DEFINE one == {c}
               next == [pc |-> "removing", file |-> me.file, uploaded |-> one,
                        created |-> me.created]
    <3>1. restorers' = [restorers EXCEPT ![r] = [me EXCEPT !.pc = "removing", !.uploaded = one]]
      BY <2>1, <2>3, Zenon
    <3>2. [me EXCEPT !.pc = "removing", !.uploaded = one] = next
      <4> HIDE DEF me, one
      <4> QED
        BY <1>2, RestorerPcUploaded
    <3>3. one \in SUBSET Cases
      BY <1>2
    <3>4. next \in RestorerState
      <4> HIDE DEF me, one
      <4> QED
        BY <1>2, <3>3 DEF RestorerState
    <3>5. restorers' = [restorers EXCEPT ![r] = next] /\ restorers'[r] = next
      BY <3>1, <3>2, CommandState
    <3>6. /\ restorers'[r].pc = "removing" /\ restorers'[r].file = me.file
          /\ restorers'[r].uploaded = one /\ restorers'[r].created = me.created
      BY <3>5
    <3>7. RestorerInv(r)'
      <4>1. Of(r)' = Of(r) /\ Lost'
        BY <1>1, <1>4, <3>6 DEF Of, Lost
      <4> QED
        BY <1>1, <1>2, <1>4, <3>6, <4>1 DEF RestorerInv
    <3>8. tenant = "ACTIVE" => c \notin Restored.bundles
      BY <1>4, <2>3 DEF BackupInv, RestoredInv, Lost
    <3>9. FaultlessInv(r)'
      <4>1. Restored' = Restored
        BY <1>1 DEF Restored
      <4> QED
        BY <1>1, <1>2, <3>6, <3>8, <4>1 DEF FaultlessInv
    <3>10. BeganInv(r)'
      BY <1>2 DEF BeganInv
    <3>11. next.created = me.created
      OBVIOUS
    <3> HIDE DEF next
    <3> QED
      BY <1>1, <1>2, <1>3, <3>4, <3>5, <3>7, <3>9, <3>10, <3>11, RestorerMovesOn
  <2> QED
    BY <2>2, <2>3
<1> QED
  BY <1>5, <1>6

\* What is removed is of no row of the restored tenant, as long as no call failed.
LEMMA RemoveUnreferencedKeeps ==
    ASSUME BackupInv, NEW r \in Restorers, RemoveUnreferenced(r)
    PROVE  BackupInv'
<1> DEFINE me == restorers[r]
           rest == me.created \ me.uploaded
           next == [pc |-> "cleaning", file |-> me.file, uploaded |-> me.uploaded,
                    created |-> rest]
<1>1. /\ me.pc = "removing"
      /\ objects' = objects \ me.uploaded
      /\ restorers' = [restorers EXCEPT ![r] = [me EXCEPT !.pc = "cleaning", !.created = rest]]
      /\ UNCHANGED <<tenant, cases, artifacts, session, started, files, exported, survivors,
                     builders, counted>>
  BY Zenon DEF RemoveUnreferenced, Restorer, tenantRows, history
<1>2. /\ me \in RestorerState /\ builders[r] \in BuilderState
      /\ me.uploaded \in SUBSET Cases /\ me.created \in SUBSET Cases
      /\ RestorerInv(r) /\ FaultlessInv(r) /\ builders[r].pc = "idle"
      /\ builders' = [builders EXCEPT ![r] = builders[r]] /\ builders'[r] = builders[r]
  BY <1>1, CommandState DEF RestorerInv
<1>3. /\ session' \in [state: {"NONE", "RESTORED", "VERIFIED"}, sha256: Manifest]
      /\ counted' \in CountedState /\ objects' \in SUBSET Cases
  BY <1>1, BackupTypes DEF BackupInv
<1>4. /\ me.file \in File /\ me.file.sha256 = Of(r) /\ Of(r) \in exported
      /\ me.created \subseteq Of(r).bundles /\ Lost
  BY <1>1, <1>2 DEF RestorerInv
<1>5. [me EXCEPT !.pc = "cleaning", !.created = rest] = next
  <2> HIDE DEF me, rest
  <2> QED
    BY <1>2, RestorerPcCreated
<1>6. rest \in SUBSET Cases
  BY <1>2
<1>7. next \in RestorerState
  <2> HIDE DEF me, rest
  <2> QED
    BY <1>2, <1>6 DEF RestorerState
<1>8. restorers' = [restorers EXCEPT ![r] = next] /\ restorers'[r] = next
  BY <1>1, <1>5, CommandState
<1>9. /\ restorers'[r].pc = "cleaning" /\ restorers'[r].file = me.file
      /\ restorers'[r].created = rest
  BY <1>8
<1>10. RestorerInv(r)'
  <2>1. Of(r)' = Of(r) /\ Lost' /\ rest \subseteq Of(r).bundles
    BY <1>1, <1>4, <1>9 DEF Of, Lost
  <2> QED
    BY <1>1, <1>2, <1>4, <1>9, <2>1 DEF RestorerInv
<1>11. counted.faults = 0 =>
          /\ tenant # "ABSENT"
          /\ tenant = "ACTIVE" => me.uploaded \cap Restored.bundles = {}
  BY <1>1, <1>2 DEF FaultlessInv
<1>12. FaultlessInv(r)' /\ BeganInv(r)'
  BY <1>1, <1>2, <1>9, <1>11 DEF FaultlessInv, BeganInv
<1>13. counted'.faults = 0 /\ tenant = "ACTIVE" /\ session.state # "NONE" =>
          \A c \in Restored.bundles : c \in objects => c \in objects'
  BY <1>1, <1>11
<1>14. ASSUME counted'.faults = 0, counted'.crashes = 0, tenant # "DELETED", NEW c \in objects'
       PROVE  Accounted(c)'
  <2>1. Accounted(c) /\ c \notin me.uploaded
    BY <1>1, <1>14 DEF BackupInv, ObjectsInv
  <2>2. c \in me.created => c \in next.created
    BY <2>1
  <2> HIDE DEF next
  <2> QED
    BY <1>1, <1>7, <1>8, <2>1, <2>2, StillAccounted
<1> HIDE DEF next
<1> QED
  BY <1>1, <1>2, <1>3, <1>7, <1>8, <1>10, <1>11, <1>12, <1>13, <1>14, RestorerMoves, ZenonT(60)

\* A command that has come to its end, or that dies.
LEMMA CommandEnds ==
    ASSUME BackupInv, NEW r \in Restorers, NEW b \in BuilderState, b.pc = "idle",
           restorers' = [restorers EXCEPT ![r] = IdleRestorer],
           builders' = [builders EXCEPT ![r] = b],
           UNCHANGED <<tenant, cases, artifacts, objects, started, files, exported, survivors>>,
           session' \in [state: {"NONE", "RESTORED", "VERIFIED"}, sha256: Manifest],
           session'.sha256 = session.sha256,
           session'.state = "NONE" <=> session.state = "NONE",
           counted' \in CountedState,
           counted'.exports = counted.exports, counted'.faults = counted.faults,
           counted'.crashes = counted.crashes \/ counted'.crashes # 0,
           restorers[r].pc \in {"checking", "comparing"} \/ counted'.crashes # 0
    PROVE  BackupInv'
<1>1. RestorerInv(r)' /\ FaultlessInv(r)' /\ BeganInv(r)'
  BY IdleCommand
<1>2. counted'.faults = 0 /\ counted'.crashes = 0 /\ tenant # "DELETED" =>
         \A c \in restorers[r].created : artifacts[c] # "NONE"
  BY CommandState DEF FaultlessInv
<1>3. counted'.crashes = 0 => counted.crashes = 0
  OBVIOUS
<1> QED
  BY <1>1, <1>2, <1>3, IdleTypes, RestorerMovesOn

\* verifyRestore
LEMMA CheckSessionKeeps ==
    ASSUME BackupInv, NEW r \in Restorers, CheckSession(r)
    PROVE  BackupInv'
<1> DEFINE me == restorers[r]
           next == [pc |-> "comparing", file |-> me.file, uploaded |-> me.uploaded,
                    created |-> me.created]
           b == [pc |-> "tenant", began |-> NoManifest, manifest |-> NoManifest, fetched |-> {}]
<1>1. /\ me.pc = "checking"
      /\ UNCHANGED <<tenant, cases, artifacts, session, objects, started, files, exported, survivors,
                     counted>>
      /\ \/ /\ restorers' = [restorers EXCEPT ![r] = [me EXCEPT !.pc = "comparing"]]
            /\ builders' = [builders EXCEPT ![r] = [IdleBuilder EXCEPT !.pc = "tenant"]]
         \/ /\ restorers' = [restorers EXCEPT ![r] = IdleRestorer]
            /\ builders' = builders
  BY Zenon DEF CheckSession, Restorer, Builder, tenantRows, history
<1>2. /\ me \in RestorerState /\ builders[r] \in BuilderState
      /\ RestorerInv(r) /\ FaultlessInv(r) /\ builders[r].pc = "idle"
      /\ builders = [builders EXCEPT ![r] = builders[r]]
  BY <1>1, CommandState DEF RestorerInv
<1>3. /\ session' \in [state: {"NONE", "RESTORED", "VERIFIED"}, sha256: Manifest]
      /\ counted' \in CountedState
  BY <1>1, BackupTypes DEF BackupInv
<1>4. CASE restorers' = [restorers EXCEPT ![r] = IdleRestorer] /\ builders' = builders
  BY <1>1, <1>2, <1>3, <1>4, CommandEnds
<1>5. CASE /\ restorers' = [restorers EXCEPT ![r] = [me EXCEPT !.pc = "comparing"]]
           /\ builders' = [builders EXCEPT ![r] = [IdleBuilder EXCEPT !.pc = "tenant"]]
  <2>1. [me EXCEPT !.pc = "comparing"] = next
    <3> HIDE DEF me
    <3> QED
      BY <1>2, RestorerField
  <2>2. [IdleBuilder EXCEPT !.pc = "tenant"] = b
    <3>1. [IdleBuilder EXCEPT !.pc = "tenant"] =
             [pc |-> "tenant", began |-> IdleBuilder.began, manifest |-> IdleBuilder.manifest,
              fetched |-> IdleBuilder.fetched]
      BY IdleTypes, BuilderField
    <3> QED
      BY <3>1 DEF IdleBuilder
  <2>3. next \in RestorerState
    <3> HIDE DEF me
    <3> QED
      BY <1>2 DEF RestorerState
  <2>4. b \in BuilderState
    BY IdleTypes DEF BuilderState
  <2>5. restorers' = [restorers EXCEPT ![r] = next] /\ builders' = [builders EXCEPT ![r] = b]
    BY <1>5, <2>1, <2>2
  <2>6. restorers'[r] = next /\ builders'[r] = b
    BY <2>5, CommandState
  <2>7. RestorerInv(r)'
    BY <1>1, <1>2, <2>6 DEF RestorerInv, Of
  <2>8. FaultlessInv(r)'
    BY <1>1, <1>2, <2>6 DEF FaultlessInv
  <2>9. BeganInv(r)'
    BY <2>6 DEF BeganInv
  <2>10. next.created = me.created
    OBVIOUS
  <2> HIDE DEF next, b
  <2> QED
    BY <1>1, <1>3, <2>3, <2>4, <2>5, <2>7, <2>8, <2>9, <2>10, RestorerMovesOn
<1> QED
  BY <1>1, <1>4, <1>5

LEMMA MarkVerifiedKeeps ==
    ASSUME BackupInv, NEW r \in Restorers, MarkVerified(r)
    PROVE  BackupInv'
<1>1. /\ restorers[r].pc = "comparing"
      /\ restorers' = [restorers EXCEPT ![r] = IdleRestorer]
      /\ builders' = [builders EXCEPT ![r] = IdleBuilder]
      /\ UNCHANGED <<tenant, cases, artifacts, objects, started, files, exported, survivors, counted>>
      /\ session' = IF RestoredAlready(r) THEN [session EXCEPT !.state = "VERIFIED"] ELSE session
  BY Zenon DEF MarkVerified, Restorer, Builder, history
<1>2. /\ session \in [state: {"NONE", "RESTORED", "VERIFIED"}, sha256: Manifest]
      /\ counted' \in CountedState
  BY <1>1, BackupTypes DEF BackupInv
<1>3. session.state # "NONE"
  BY <1>1, CommandState DEF RestorerInv
<1>4. /\ session' \in [state: {"NONE", "RESTORED", "VERIFIED"}, sha256: Manifest]
      /\ session'.sha256 = session.sha256 /\ session'.state # "NONE"
  BY <1>1, <1>2, <1>3
<1>5. IdleBuilder \in BuilderState /\ IdleBuilder.pc = "idle"
  BY IdleTypes DEF IdleBuilder
<1> QED
  BY <1>1, <1>2, <1>3, <1>4, <1>5, CommandEnds

LEMMA VerificationFailsKeeps ==
    ASSUME BackupInv, NEW r \in Restorers, VerificationFails(r)
    PROVE  BackupInv'
<1>1. /\ restorers[r].pc = "comparing"
      /\ restorers' = [restorers EXCEPT ![r] = IdleRestorer]
      /\ builders' = [builders EXCEPT ![r] = IdleBuilder]
      /\ UNCHANGED <<tenant, cases, artifacts, session, objects, started, files, exported, survivors,
                     counted>>
  BY Zenon DEF VerificationFails, Restorer, Builder, tenantRows, history
<1>2. /\ session' \in [state: {"NONE", "RESTORED", "VERIFIED"}, sha256: Manifest]
      /\ counted' \in CountedState
  BY <1>1, BackupTypes DEF BackupInv
<1>3. IdleBuilder \in BuilderState /\ IdleBuilder.pc = "idle"
  BY IdleTypes DEF IdleBuilder
<1> QED
  BY <1>1, <1>2, <1>3, CommandEnds

LEMMA CrashKeeps ==
    ASSUME BackupInv, NEW r \in Restorers, Crash(r)
    PROVE  BackupInv'
<1>1. /\ Incident("crashes")
      /\ restorers' = [restorers EXCEPT ![r] = IdleRestorer]
      /\ builders' = [builders EXCEPT ![r] = IdleBuilder]
      /\ UNCHANGED <<tenant, cases, artifacts, session, objects, started, files, exported, survivors>>
  BY Zenon DEF Crash, Restorer, Builder, tenantRows, history
<1>2. /\ counted' \in CountedState /\ counted'.exports = counted.exports
      /\ counted'.faults = counted.faults /\ counted'.crashes # 0
  BY <1>1, IncidentCounts, BackupTypes DEF BackupInv
<1>3. session' \in [state: {"NONE", "RESTORED", "VERIFIED"}, sha256: Manifest]
  BY <1>1, BackupTypes DEF BackupInv
<1>4. IdleBuilder \in BuilderState /\ IdleBuilder.pc = "idle"
  BY IdleTypes DEF IdleBuilder
<1> QED
  BY <1>1, <1>2, <1>3, <1>4, CommandEnds

----------------------------------------------------------------------------
(* The theorems.                                                           *)

LEMMA BackupNext == BackupInv /\ [Next]_vars => BackupInv'
<1> SUFFICES ASSUME BackupInv, [Next]_vars PROVE BackupInv'
  OBVIOUS
<1>1. CASE UNCHANGED vars
  <2>1. UNCHANGED <<tenant, cases, artifacts, session, objects, started, files, exported, survivors,
                    builders, restorers, counted>>
    BY <1>1 DEF vars, tenantRows, history
  <2>2. TypeOK' /\ FilesInv'
    BY <2>1 DEF BackupInv, TypeOK, FilesInv
  <2>3. ModeInv' /\ ExporterInv'
    BY <2>1 DEF BackupInv, ModeInv, ExporterInv, Lost, Restored
  <2>4. \A m \in exported' : ExportedInv(m)'
    BY <2>1 DEF BackupInv, ExportedInv
  <2>5. RestoredInv' /\ ObjectsInv'
    BY <2>1 DEF BackupInv, RestoredInv, Restored, ObjectsInv, Accounted
  <2>6. \A r \in Restorers : RestorerInv(r)'
    BY <2>1 DEF BackupInv, RestorerInv, Lost, Of
  <2>7. \A r \in Restorers : FaultlessInv(r)' /\ BeganInv(r)'
    BY <2>1 DEF BackupInv, FaultlessInv, BeganInv, Restored
  <2> QED
    BY <2>2, <2>3, <2>4, <2>5, <2>6, <2>7 DEF BackupInv
<1>2. CASE Meanwhile
  <2>1. CASE \E c \in Cases : \/ StartCase(c)
                              \/ PutBegins(c)
                              \/ PutEnds(c)
                              \/ \E state \in Terminal : EndCase(c, state)
    BY <2>1, EngineMoves, EngineKeeps
  <2>2. CASE RequestDeletion \/ PurgeTenant
    BY <2>2, DeletionKeeps
  <2>3. CASE \E file \in files, c \in Cases : Damage(file, c)
    BY <2>3, DamageKeeps
  <2> QED
    BY <1>2, <2>1, <2>2, <2>3 DEF Meanwhile
<1>3. CASE BeginExport
  BY <1>3, BeginExportKeeps
<1>4. CASE WriteFile
  BY <1>4, WriteFileKeeps
<1>5. CASE ExportFails
  BY <1>5, ExportFailsKeeps
<1>6. CASE \E b \in Builders : Build(b)
  BY <1>6, ExporterBuilds, VerifierBuilds DEF Builders
<1>7. CASE \E r \in Restorers : Restore(r)
  <2> PICK r \in Restorers : Restore(r)
    BY <1>7
  <2>1. CASE \E file \in files : BeginRestore(r, file)
    BY <2>1, BeginRestoreKeeps
  <2>2. CASE InspectTarget(r)
    BY <2>2, InspectTargetKeeps
  <2>3. CASE \E c \in Cases : UploadObject(r, c) \/ UploadAnswerLost(r, c) \/ UploadFails(r, c)
    BY <2>3, UploadObjectKeeps, UploadAnswerLostKeeps, UploadFailsKeeps
  <2>4. CASE AbandonUpload(r) \/ UploadEnds(r)
    BY <2>4, AbandonUploadKeeps, UploadEndsKeeps
  <2>5. CASE RestoreTransaction(r) \/ TransactionFails(r)
    BY <2>5, RestoreTransactionKeeps, TransactionFailsKeeps
  <2>6. CASE FindReference(r) \/ RemoveUnreferenced(r)
    BY <2>6, FindReferenceKeeps, RemoveUnreferencedKeeps
  <2>7. CASE CheckSession(r) \/ MarkVerified(r)
    BY <2>7, CheckSessionKeeps, MarkVerifiedKeeps
  <2>8. CASE VerificationFails(r) \/ Crash(r)
    BY <2>8, VerificationFailsKeeps, CrashKeeps
  <2> QED
    BY <2>1, <2>2, <2>3, <2>4, <2>5, <2>6, <2>7, <2>8 DEF Restore
<1> QED
  BY <1>1, <1>2, <1>3, <1>4, <1>5, <1>6, <1>7 DEF Next

\* Exports, restores, verifications and the tenant's work keep the inductive
\* invariant in every interleaving, with any of the commands dying.
THEOREM BackupInvariant == Spec => []BackupInv
<1> QED
  BY BackupInit, BackupNext, PTL DEF Spec

\* Every variable of the backup and restore code stays in its type.
THEOREM BackupTyped == Spec => []TypeOK
<1>1. BackupInv => TypeOK
  BY DEF BackupInv
<1> QED
  BY <1>1, BackupInvariant, PTL

\* buildArchive reads without a transaction, and still no archive says of a case
\* anything but how it ended.
THEOREM ArchivesTellTheEnd == Spec => []ArchivesAgree
<1>1. BackupInv => ArchivesAgree
  BY DEF BackupInv, ExportedInv, ArchivesAgree
<1> QED
  BY <1>1, BackupInvariant, PTL

\* restoreTenant restores nothing that no export sealed, whatever was done to the files.
THEOREM RestoresAreExports == Spec => []OnlyExportedIsRestored
<1>1. BackupInv => OnlyExportedIsRestored
  BY DEF BackupInv, ModeInv, Restored, OnlyExportedIsRestored
<1> QED
  BY <1>1, BackupInvariant, PTL

\* No command that lost a race takes from the tenant another one restored.
THEOREM RestoresAreComplete == Spec => []RestoredIsComplete
<1>1. ASSUME BackupInv PROVE RestoredIsComplete
  <2> SUFFICES ASSUME session.state # "NONE", tenant = "ACTIVE", counted.faults = 0
               PROVE  /\ \A c \in Cases : session.sha256.records[c] \in {"NONE", cases[c]}
                      /\ \A c \in session.sha256.bundles : artifacts[c] = "AVAILABLE" /\ c \in objects
    BY DEF RestoredIsComplete
  <2> QED
    BY <1>1 DEF BackupInv, RestoredInv, Restored
<1> QED
  BY <1>1, BackupInvariant, PTL

\* cleanupUnreferenced leaves no object that nobody owns.
THEOREM CleanupIsComplete == Spec => []FailedRestoreLeavesNothing
<1>1. ASSUME BackupInv PROVE FailedRestoreLeavesNothing
  <2> SUFFICES ASSUME counted.faults = 0, counted.crashes = 0, tenant # "DELETED",
                      \A r \in Restorers : restorers[r].pc = "idle",
                      NEW c \in objects
               PROVE  c \in survivors \/ (c \in Cases /\ artifacts[c] # "NONE")
    BY DEF FailedRestoreLeavesNothing
  <2>1. Accounted(c) /\ c \in Cases
    BY <1>1, BackupTypes DEF BackupInv, ObjectsInv
  <2>2. \A r \in Restorers : restorers[r].created = {}
    BY <1>1 DEF BackupInv, RestorerInv
  <2> QED
    BY <2>1, <2>2 DEF Accounted
<1> QED
  BY <1>1, BackupInvariant, PTL

\* Which steps change a case, and which the session.
LEMMA WhatChanges ==
    ASSUME BackupInv, [Next]_vars
    PROVE  /\ \/ UNCHANGED cases
              \/ EngineMove
              \/ RequestDeletion
              \/ PurgeTenant
              \/ tenant = "ABSENT"
           /\ \/ UNCHANGED session
              \/ session'.state = "RESTORED"
              \/ \E r \in Restorers : MarkVerified(r)
<1>1. CASE UNCHANGED vars
  BY <1>1 DEF vars, tenantRows
<1>2. CASE Meanwhile
  <2>1. CASE \E c \in Cases : \/ StartCase(c)
                              \/ PutBegins(c)
                              \/ PutEnds(c)
                              \/ \E state \in Terminal : EndCase(c, state)
    BY <2>1, EngineMoves DEF EngineMove
  <2>2. CASE RequestDeletion
    BY <2>2 DEF RequestDeletion
  <2>3. CASE PurgeTenant
    BY <2>3 DEF PurgeTenant
  <2>4. CASE \E file \in files, c \in Cases : Damage(file, c)
    BY <2>4 DEF Damage, tenantRows
  <2> QED
    BY <1>2, <2>1, <2>2, <2>3, <2>4 DEF Meanwhile
<1>3. CASE BeginExport
  BY <1>3 DEF BeginExport, tenantRows
<1>4. CASE WriteFile
  BY <1>4 DEF WriteFile, tenantRows
<1>5. CASE ExportFails
  BY <1>5 DEF ExportFails, Reads, tenantRows
<1>6. CASE \E b \in Builders : Build(b)
  BY <1>6, BuildSteps DEF Reads, tenantRows, BackupInv
<1>7. CASE \E r \in Restorers : Restore(r)
  <2> PICK r \in Restorers : Restore(r)
    BY <1>7
  <2>1. CASE \E file \in files : BeginRestore(r, file)
    BY <2>1 DEF BeginRestore, tenantRows
  <2>2. CASE InspectTarget(r)
    BY <2>2 DEF InspectTarget, tenantRows
  <2>3. CASE \E c \in Cases : UploadObject(r, c)
    BY <2>3 DEF UploadObject, tenantRows
  <2>4. CASE \E c \in Cases : UploadAnswerLost(r, c) \/ UploadFails(r, c)
    BY <2>4 DEF UploadAnswerLost, UploadFails, tenantRows
  <2>5. CASE AbandonUpload(r)
    BY <2>5 DEF AbandonUpload, tenantRows
  <2>6. CASE UploadEnds(r)
    BY <2>6 DEF UploadEnds, tenantRows
  <2>7. CASE RestoreTransaction(r)
    <3>1. (tenant = "ABSENT" /\ RestoredRows(r)) \/ UNCHANGED tenantRows
      BY <2>7, Zenon DEF RestoreTransaction
    <3> QED
      BY <3>1 DEF RestoredRows, tenantRows
  <2>8. CASE TransactionFails(r)
    <3>1. (tenant = "ABSENT" /\ RestoredRows(r)) \/ UNCHANGED tenantRows
      BY <2>8, Zenon DEF TransactionFails
    <3> QED
      BY <3>1 DEF RestoredRows, tenantRows
  <2>9. CASE FindReference(r)
    BY <2>9 DEF FindReference, tenantRows
  <2>10. CASE RemoveUnreferenced(r)
    BY <2>10 DEF RemoveUnreferenced, tenantRows
  <2>11. CASE CheckSession(r)
    BY <2>11 DEF CheckSession, tenantRows
  <2>12. CASE MarkVerified(r)
    BY <2>12 DEF MarkVerified
  <2>13. CASE VerificationFails(r)
    BY <2>13 DEF VerificationFails, tenantRows
  <2>14. CASE Crash(r)
    BY <2>14 DEF Crash, tenantRows
  <2> QED
    BY <2>1, <2>2, <2>3, <2>4, <2>5, <2>6, <2>7, <2>8, <2>9, <2>10, <2>11, <2>12, <2>13, <2>14
       DEF Restore
<1> QED
  BY <1>1, <1>2, <1>3, <1>4, <1>5, <1>6, <1>7 DEF Next

\* restoreTransaction looks at the target once more: no case of a tenant that is
\* there goes, but with the tenant.
THEOREM NothingIsOverwritten == Spec => RestoreOverwritesNothing
<1>1. ASSUME BackupInv, [Next]_vars, NEW c \in Cases, cases[c] # "NONE", cases'[c] = "NONE"
      PROVE  tenant' \in {"DELETED", "ABSENT"}
  <2>1. CASE UNCHANGED cases
    BY <1>1, <2>1
  <2>2. CASE EngineMove
    BY <1>1, <2>2 DEF EngineMove
  <2>3. CASE RequestDeletion
    BY <1>1, <2>3, BackupTypes DEF RequestDeletion, BackupInv
  <2>4. CASE PurgeTenant
    BY <1>1, <2>4 DEF PurgeTenant
  <2>5. CASE tenant = "ABSENT"
    BY <1>1, <2>5 DEF BackupInv, ModeInv
  <2> QED
    BY <1>1, <2>1, <2>2, <2>3, <2>4, <2>5, WhatChanges
<1>2. BackupInv /\ [Next]_vars =>
         [\A c \in Cases : cases[c] # "NONE" /\ cases'[c] = "NONE"
             => tenant' \in {"DELETED", "ABSENT"}]_vars
  BY <1>1
<1> QED
  BY <1>2, BackupInvariant, PTL DEF Spec, RestoreOverwritesNothing

\* A session is only marked VERIFIED by a command that found, when its verification
\* began, exactly the archive.
THEOREM VerifiedTenantsWereEqual == Spec => VerifiedWasEqual
<1>1. ASSUME BackupInv, [Next]_vars,
             session'.state = "VERIFIED", session.state # "VERIFIED", tenant = "ACTIVE"
      PROVE  \E r \in Restorers : builders[r].began = session.sha256
  <2>1. PICK r \in Restorers : MarkVerified(r)
    BY <1>1, WhatChanges
  <2> DEFINE b == builders[r]
  <2>2. /\ b.pc = "sealed" /\ b.manifest = restorers[r].file.sha256
        /\ RestoredAlready(r)
        /\ restorers[r].pc = "comparing"
    <3>1. RestoredAlready(r) \/ session' = session
      BY <2>1, Zenon DEF MarkVerified
    <3> QED
      BY <1>1, <2>1, <3>1 DEF MarkVerified, SameArchive, Sha256
  <2>3. b.manifest = Restored
    BY <1>1, <2>2, CommandState DEF RestorerInv, RestoredAlready, Restored, Sha256
  <2>4. BeganInv(r) /\ b \in BuilderState /\ Restored \in Manifest
    BY <1>1, CommandState, BackupTypes DEF BackupInv, Restored
  <2>5. /\ b.began \in [records: [Cases -> CaseStates], bundles: SUBSET Cases]
        /\ Restored \in [records: [Cases -> CaseStates], bundles: SUBSET Cases]
    BY <2>4 DEF BuilderState, Manifest
  <2>6. \A c \in Cases : b.began.records[c] = Restored.records[c]
    <3> TAKE c \in Cases
    <3>1. /\ Restored.records[c] \in {"NONE", b.began.records[c]}
          /\ b.began.records[c] # "NONE" => b.manifest.records[c] # "NONE"
      BY <1>1, <2>2, <2>4 DEF BeganInv
    <3> QED
      BY <2>3, <3>1
  <2>7. b.began.bundles = Restored.bundles
    <3>1. /\ Restored.bundles \subseteq b.began.bundles
          /\ b.began.bundles \subseteq b.manifest.bundles
      BY <1>1, <2>2, <2>4 DEF BeganInv
    <3> QED
      BY <2>3, <3>1
  <2>8. b.began.records = Restored.records
    <3>1. b.began.records \in [Cases -> CaseStates] /\ Restored.records \in [Cases -> CaseStates]
      BY <2>5
    <3> QED
      BY <2>6, <3>1
  <2>9. b.began = Restored
    BY <2>5, <2>7, <2>8
  <2> QED
    BY <2>9 DEF Restored
<1>2. BackupInv /\ [Next]_vars =>
         [session'.state = "VERIFIED" /\ session.state # "VERIFIED" /\ tenant = "ACTIVE"
             => \E r \in Restorers : builders[r].began = session.sha256]_vars
  BY <1>1
<1> QED
  BY <1>2, BackupInvariant, PTL DEF Spec, VerifiedWasEqual
=============================================================================
