------------------------------ MODULE Exports -------------------------------
(***************************************************************************)
(* The export of a campaign's logs: createExportJob saves a row and queues *)
(* a job, ExportProcessor writes the file, one job at a time, and the      *)
(* browser polls the row until it is COMPLETE or FAILED.                   *)
(***************************************************************************)
EXTENDS Integers, FiniteSets

CONSTANTS
  ExportJobs,       \* the exports that may be asked for
  NoExport,         \* none of them
  MaxExportStalls,  \* maxStalledCount of BullMQ
  MaxExportCrashes, \* bound: crashes
  ExportFaults      \* whether the database, Redis and the object store may fail

ASSUME NoExportAssumption == NoExport \notin ExportJobs
ASSUME ExportBounds ==
  MaxExportStalls \in Nat /\ MaxExportCrashes \in Nat /\ ExportFaults \in BOOLEAN

VARIABLES
  exportRow,    \* status of each row of export_jobs
  exportJob,    \* whether it waits on the queue, and how often it stalled
  file,         \* those whose file is in the store
  creator,      \* the request that has saved a row and not yet queued its job
  exporter,     \* the job worked on, and where
  exportPage,   \* the export the page has started last: it polls this one
  seen,         \* the status of each export in the browser's cache
  poll,         \* a read of the export polled, and its answer under way
  exportCrashes,
  stranded      \* history: rows whose job will not come, or not come again

ExportStatus == {"PENDING", "PROCESSING", "COMPLETE", "FAILED"}
ExportRow == {"none"} \cup ExportStatus

browserVars == << exportPage, seen, poll >>
exportVars  == << exportRow, exportJob, file, creator, exporter, browserVars,
                  exportCrashes, stranded >>

ExportsInit ==
  /\ exportRow = [e \in ExportJobs |-> "none"]
  /\ exportJob = [e \in ExportJobs |-> [waits |-> FALSE, stalls |-> 0]]
  /\ file = {}
  /\ creator = NoExport
  /\ exporter = [job |-> NoExport, pc |-> "idle"]
  /\ exportPage = NoExport
  /\ seen = [e \in ExportJobs |-> "none"]
  /\ poll = [job |-> NoExport, status |-> "none"]
  /\ exportCrashes = 0
  /\ stranded = {}

SetRow(e, status) == exportRow' = [exportRow EXCEPT ![e] = status]
SetJob(e, waits, stalls) ==
  exportJob' = [exportJob EXCEPT ![e] = [waits |-> waits, stalls |-> stalls]]
Reaches(pc) == exporter' = [job |-> exporter.job, pc |-> pc]
EndsJob     == exporter' = [job |-> NoExport, pc |-> "idle"]

-----------------------------------------------------------------------------

CreateExportJob(e) ==
  /\ creator = NoExport /\ exportRow[e] = "none"
  /\ SetRow(e, "PENDING") /\ creator' = e
  /\ UNCHANGED << browserVars, exportJob, file, exporter, exportCrashes, stranded >>

\* The page polls the export it was answered last.
StartPolling(e) == exportPage' = e

AddExportJob ==
  /\ creator # NoExport /\ creator' = NoExport
  /\ SetJob(creator, TRUE, exportJob[creator].stalls)
  /\ StartPolling(creator)
  /\ UNCHANGED << exportRow, file, exporter, seen, poll, exportCrashes, stranded >>

\* 500, and the row is not taken back.
AddExportFails ==
  /\ ExportFaults
  /\ creator # NoExport /\ creator' = NoExport
  /\ stranded' = stranded \cup {creator}
  /\ UNCHANGED << browserVars, exportRow, exportJob, file, exporter, exportCrashes >>

\* process: PROCESSING,
TakeExport(e) ==
  /\ exporter.pc = "idle" /\ exportJob[e].waits
  /\ SetJob(e, FALSE, exportJob[e].stalls)
  /\ SetRow(e, "PROCESSING")
  /\ exporter' = [job |-> e, pc |-> "generate"]
  /\ UNCHANGED << browserVars, file, creator, exportCrashes, stranded >>

\* the logs, as CSV or PDF,
GenerateReport ==
  /\ exporter.pc = "generate" /\ Reaches("put")
  /\ UNCHANGED << browserVars, exportRow, exportJob, file, creator, exportCrashes, stranded >>

\* into the store,
PutFile ==
  /\ exporter.pc = "put" /\ Reaches("complete")
  /\ file' = file \cup {exporter.job}
  /\ UNCHANGED << browserVars, exportRow, exportJob, creator, exportCrashes, stranded >>

\* and COMPLETE, with the address of the file.
CompleteExport ==
  /\ exporter.pc = "complete" /\ Reaches("done")
  /\ SetRow(exporter.job, "COMPLETE")
  /\ UNCHANGED << browserVars, exportJob, file, creator, exportCrashes, stranded >>

\* What throws from the first read on is caught;
ExportThrows ==
  /\ ExportFaults
  /\ exporter.pc \in {"generate", "put", "complete"} /\ Reaches("catch")
  /\ UNCHANGED << browserVars, exportRow, exportJob, file, creator, exportCrashes, stranded >>

\* Mutant: the error is logged, and the row left as it was.
FailExportSilently ==
  /\ exporter.pc = "catch" /\ Reaches("done")
  /\ UNCHANGED << browserVars, exportRow, exportJob, file, creator, exportCrashes, stranded >>

FailExport ==
  /\ exporter.pc = "catch" /\ Reaches("done")
  /\ SetRow(exporter.job, "FAILED")
  /\ UNCHANGED << browserVars, exportJob, file, creator, exportCrashes, stranded >>

\* The worker then moves the job off the queue;
FinishExport ==
  /\ exporter.pc = "done" /\ EndsJob
  /\ UNCHANGED << browserVars, exportRow, exportJob, file, creator, exportCrashes, stranded >>

\* the first update and that of the catch block are not: the job fails, having one
\* attempt, and the row says PENDING or PROCESSING for ever.
TakeExportFails(e) ==
  /\ ExportFaults
  /\ exporter.pc = "idle" /\ exportJob[e].waits
  /\ SetJob(e, FALSE, exportJob[e].stalls)
  /\ stranded' = stranded \cup {e}
  /\ UNCHANGED << browserVars, exportRow, file, creator, exporter, exportCrashes >>

FailExportFails ==
  /\ ExportFaults
  /\ exporter.pc = "catch" /\ EndsJob
  /\ stranded' = stranded \cup {exporter.job}
  /\ UNCHANGED << browserVars, exportRow, exportJob, file, creator, exportCrashes >>

\* The backend stops: a job worked on is run again, MaxExportStalls times, even one
\* whose row was written.
ExportCrash ==
  /\ exportCrashes < MaxExportCrashes /\ exportCrashes' = exportCrashes + 1
  /\ creator' = NoExport /\ EndsJob
  /\ LET e == exporter.job
         again == e # NoExport /\ exportJob[e].stalls < MaxExportStalls IN
     /\ IF again THEN SetJob(e, TRUE, exportJob[e].stalls + 1) ELSE UNCHANGED exportJob
     /\ stranded' = stranded \cup ({creator, IF again THEN NoExport ELSE e} \ {NoExport})
  /\ UNCHANGED << browserVars, exportRow, file >>

ExportStep ==
  \/ \E e \in ExportJobs : TakeExport(e)
  \/ GenerateReport \/ PutFile \/ CompleteExport \/ FailExport \/ FinishExport

\* The page polls the export it started last, until the status it has is final.
Final(status) == status \in {"COMPLETE", "FAILED"}

PollExport ==
  /\ exportPage # NoExport /\ poll.job = NoExport /\ ~Final(seen[exportPage])
  /\ poll' = [job |-> exportPage, status |-> exportRow[exportPage]]
  /\ UNCHANGED << exportRow, exportJob, file, creator, exporter, exportPage, seen,
                  exportCrashes, stranded >>

SeeExport ==
  /\ poll.job # NoExport
  /\ seen' = [seen EXCEPT ![poll.job] = poll.status]
  /\ poll' = [job |-> NoExport, status |-> "none"]
  /\ UNCHANGED << exportRow, exportJob, file, creator, exporter, exportPage,
                  exportCrashes, stranded >>

ExportsNext ==
  \/ \E e \in ExportJobs : CreateExportJob(e) \/ TakeExportFails(e)
  \/ AddExportJob \/ AddExportFails \/ ExportStep \/ PollExport \/ SeeExport
  \/ ExportThrows \/ FailExportFails \/ ExportCrash

\* The request and the worker go on with what they have begun, the page goes on polling.
ExportsSpec ==
  ExportsInit /\ [][ExportsNext]_exportVars
    /\ WF_exportVars(AddExportJob) /\ WF_exportVars(ExportStep)
    /\ WF_exportVars(PollExport) /\ WF_exportVars(SeeExport)
-----------------------------------------------------------------------------
(* Properties. *)

\* Every variable keeps its type, and a COMPLETE export has its file.
ExportsTypeOK ==
  /\ exportRow \in [ExportJobs -> ExportRow]
  /\ exportJob \in [ExportJobs -> [waits : BOOLEAN, stalls : 0..MaxExportStalls]]
  /\ creator \in ExportJobs \cup {NoExport}
  /\ exporter.job \in ExportJobs \cup {NoExport}
  /\ exporter.pc \in {"idle", "generate", "put", "complete", "catch", "done"}
  /\ {exportPage, poll.job} \subseteq ExportJobs \cup {NoExport}
  /\ \A e \in ExportJobs : Final(seen[e]) => exportRow[e] # "PENDING"
  /\ exportCrashes \in 0..MaxExportCrashes /\ stranded \subseteq ExportJobs
  /\ \A e \in ExportJobs : exportRow[e] = "COMPLETE" => e \in file

\* The page that has started an export and stays with it gets an answer: it comes to
\* show COMPLETE or FAILED, unless a fault or a crash took the job before either was
\* written.
ExportsSettle == \A e \in ExportJobs :
  exportPage = e ~> Final(seen[e]) \/ exportPage # e \/ e \in stranded
-----------------------------------------------------------------------------
(* What every reachable state satisfies. *)

\* The worker is at a job unless it is idle, and completes one whose file is there.
ExporterHolds ==
  /\ exporter.pc # "idle" => exporter.job \in ExportJobs
  /\ exporter.pc = "complete" => exporter.job \in file

\* A row that was read as final has been worked on, and is not PENDING again.
ReadsAreOfThePast ==
  /\ seen \in [ExportJobs -> ExportRow] /\ poll.status \in ExportRow
  /\ \A e \in ExportJobs :
       Final(seen[e]) \/ (poll.job = e /\ Final(poll.status))
         => exportRow[e] \notin {"none", "PENDING"}

ExportsInvariant == ExportsTypeOK /\ ExporterHolds /\ ReadsAreOfThePast
=============================================================================
