-------------------------------- MODULE Plates --------------------------------
(***************************************************************************)
(* Number plates of one stay (internal/modules/ocr/service.go and          *)
(* repository.go, UpsertVehicle of internal/modules/vehicle, and           *)
(* StampPlateMismatch of internal/modules/transaction/service.go).         *)
(*                                                                         *)
(* Each photo has a job: a goroutine that asks the detector, stores what   *)
(* it read, links the vehicle to the transaction, and at the exit compares *)
(* the plate with the one of the entry.  The job's row is saved as it goes *)
(* along; a row that cannot be saved is only logged.  Meanwhile handlers   *)
(* read the transaction, and save all of it with the next status.          *)
(***************************************************************************)
EXTENDS Naturals, Sequences

CONSTANTS
  Entry,      \* the job of the entry photo
  Exits,      \* jobs of exit photos
  Readings,   \* what the detector may read: a plate, written with or without spaces
  Handlers,
  MaxRetries,
  MaxFaults,  \* bound: database errors and restarts
  Null

Jobs == {Entry} \cup Exits

ASSUME JobsAssumption == Entry \notin Exits
Ended == {"completed", "failed", "skipped"}
RowStatuses == {"queued", "processing"} \cup Ended

\* What ocr_results keeps of a photo.
Results == [reading : Readings, vehicle : Nat \cup {Null}]

ASSUME NullAssumption ==
  /\ Null \notin Readings /\ Null \notin BOOLEAN
  /\ Null \notin RowStatuses /\ Null \notin Results
ASSUME NumericAssumption == MaxRetries \in Nat /\ MaxFaults \in Nat

VARIABLES
  tx,        \* the transaction: status, vehicle_id, plate_mismatch
  rows,      \* ocr_jobs: the status of a job
  results,   \* ocr_results by job
  reviews,   \* ocr_review_logs by job: auto_match_result
  vehicles,  \* the plates of vehicles; an id is a position
  zoned,     \* the zone has a vehicle type
  jobs,      \* the goroutines
  handler,   \* requests between reading the transaction and saving it
  faults

platesVars == <<tx, rows, results, reviews, vehicles, zoned, jobs, handler, faults>>
tables == <<tx, rows, results, reviews, vehicles, zoned>>

Waiting == [pc |-> "none", tries |-> 0, reading |-> Null, vehicle |-> Null, match |-> Null]
Dispatched == [Waiting EXCEPT !.pc = "dispatched"]
NoHandler == [op |-> "none", row |-> Null]

\* A photo at the entry is optional, and recognition may be disabled.
PlatesInit ==
  /\ tx = [status |-> "open", vehicle |-> Null, mismatch |-> Null]
  /\ rows = [j \in Jobs |-> Null]
  /\ results = [j \in Jobs |-> Null]
  /\ reviews = [j \in Jobs |-> Null]
  /\ vehicles = <<>>
  /\ zoned \in BOOLEAN
  /\ \E first \in {Waiting, Dispatched} :
       jobs = [j \in Jobs |-> IF j = Entry THEN first ELSE Waiting]
  /\ handler = [h \in Handlers |-> NoHandler]
  /\ faults = 0

Fault == faults < MaxFaults /\ faults' = faults + 1

\* UpdateStatus; its error is logged and forgotten.
Marked(j, status) ==
  \/ rows' = [rows EXCEPT ![j] = status] /\ UNCHANGED faults
  \/ Fault /\ UNCHANGED rows

\* The job goes on; it is over.
To(j, pc) == jobs' = [jobs EXCEPT ![j].pc = pc]
Over(j) == jobs' = [jobs EXCEPT ![j] = [Waiting EXCEPT !.pc = "over"]]
MarkJobSkipped(j) == Marked(j, "skipped") /\ Over(j)
MarkJobFailed(j) == Marked(j, "failed") /\ Over(j)

\* Create of the repositories of jobs, results and review logs.
CreateJob(j) == rows' = [rows EXCEPT ![j] = "queued"]
CreateResult(j) ==
  results' = [results EXCEPT ![j] = [reading |-> jobs[j].reading, vehicle |-> jobs[j].vehicle]]
CreateReview(j, match) == reviews' = [reviews EXCEPT ![j] = match]

-----------------------------------------------------------------------------
(***************************************************************************)
(* The job: DispatchOCRJob and processJob.                                 *)
(***************************************************************************)

JobCreate(j) ==
  /\ jobs[j].pc = "dispatched"
  /\ \/ CreateJob(j) /\ To(j, "queued") /\ UNCHANGED faults
     \/ Fault /\ Over(j) /\ UNCHANGED rows
  /\ UNCHANGED <<tx, results, reviews, vehicles, zoned, handler>>

JobStart(j) ==
  /\ jobs[j].pc = "queued"
  /\ Marked(j, "processing") /\ To(j, "ping")
  /\ UNCHANGED <<tx, results, reviews, vehicles, zoned, handler>>

\* Mutant: the job that is skipped keeps its status.
JobPingSilent(j) ==
  /\ jobs[j].pc = "ping"
  /\ To(j, "detect") \/ Over(j)
  /\ UNCHANGED <<tables, handler, faults>>

\* A detector that does not answer the ping skips the job.
JobPing(j) ==
  /\ jobs[j].pc = "ping"
  /\ \/ To(j, "detect") /\ UNCHANGED <<rows, faults>>
     \/ MarkJobSkipped(j)
  /\ UNCHANGED <<tx, results, reviews, vehicles, zoned, handler>>

\* One attempt, which ends by an answer or a timeout.
JobDetect(j) ==
  /\ jobs[j].pc = "detect"
  /\ \/ /\ \E r \in Readings : jobs' = [jobs EXCEPT ![j].pc = "zone", ![j].reading = r]
        /\ UNCHANGED <<rows, faults>>
     \/ /\ jobs[j].tries < MaxRetries
        /\ jobs' = [jobs EXCEPT ![j].tries = @ + 1]
        /\ Marked(j, "processing")
     \/ jobs[j].tries = MaxRetries /\ MarkJobFailed(j)
  /\ UNCHANGED <<tx, results, reviews, vehicles, zoned, handler>>

\* markJobFailed, after a step of handleSuccess went wrong; the row may fail
\* to be saved along with it.
JobFails(j) ==
  /\ jobs[j].pc \in {"zone", "vehicle", "insert", "result"}
  /\ Fault
  /\ rows' \in {rows, [rows EXCEPT ![j] = "failed"]}
  /\ Over(j)
  /\ UNCHANGED <<tx, results, reviews, vehicles, zoned, handler>>

(***************************************************************************)
(* handleSuccess.                                                          *)
(***************************************************************************)

JobZone(j) ==
  /\ jobs[j].pc = "zone"
  /\ To(j, IF zoned THEN "vehicle" ELSE "result")
  /\ UNCHANGED <<tables, handler, faults>>

\* UpsertVehicle finds a row with the plate, as it was written, or does not:
\* the search also carries the id drawn for the new row, which GORM adds to
\* the conditions of FirstOrCreate.
JobVehicleFound(j) ==
  /\ jobs[j].pc = "vehicle"
  /\ \/ \E v \in DOMAIN vehicles :
          /\ vehicles[v] = jobs[j].reading
          /\ jobs' = [jobs EXCEPT ![j].pc = "result", ![j].vehicle = v]
     \/ To(j, "insert")
  /\ UNCHANGED <<tables, handler, faults>>

\* The row is inserted; no index keeps a second one of the plate out.
JobVehicleInserted(j) ==
  /\ jobs[j].pc = "insert"
  /\ vehicles' = Append(vehicles, jobs[j].reading)
  /\ jobs' = [jobs EXCEPT ![j].pc = "result", ![j].vehicle = Len(vehicles')]
  /\ UNCHANGED <<tx, rows, results, reviews, zoned, handler, faults>>

\* Mutant: the vehicle goes to the transaction before the result is stored.
JobResultLast(j) ==
  /\ jobs[j].pc = "result"
  /\ tx' = [tx EXCEPT !.vehicle = IF jobs[j].vehicle = Null THEN @ ELSE jobs[j].vehicle]
  /\ To(j, "link")
  /\ UNCHANGED <<rows, results, reviews, vehicles, zoned, handler, faults>>

JobResult(j) ==
  /\ jobs[j].pc = "result"
  /\ CreateResult(j)
  /\ To(j, "link")
  /\ UNCHANGED <<tx, rows, reviews, vehicles, zoned, handler, faults>>

\* updateTransactionVehicle writes one column; an error is only logged.
JobLink(j) ==
  /\ jobs[j].pc = "link"
  /\ \/ /\ tx' = [tx EXCEPT !.vehicle = IF jobs[j].vehicle = Null THEN @ ELSE jobs[j].vehicle]
        /\ UNCHANGED faults
     \/ Fault /\ UNCHANGED tx
  /\ To(j, IF j = Entry THEN "complete" ELSE "compare")
  /\ UNCHANGED <<rows, results, reviews, vehicles, zoned, handler>>

JobComplete(j) ==
  /\ jobs[j].pc = "complete"
  /\ Marked(j, "completed") /\ Over(j)
  /\ UNCHANGED <<tx, results, reviews, vehicles, zoned, handler>>

(***************************************************************************)
(* createReviewLog.                                                        *)
(***************************************************************************)

\* normalizePlate: spaces do not count.
SamePlate(r, s) == r.plate = s.plate

\* Mutant: any result of the entry will do.
JobCompareEarly(j) ==
  /\ jobs[j].pc = "compare"
  /\ \/ /\ results[Entry] # Null
        /\ LET match == SamePlate(jobs[j].reading, results[Entry].reading)
           IN /\ CreateReview(j, match)
              /\ jobs' = [jobs EXCEPT ![j].pc = "stamp", ![j].match = match]
        /\ UNCHANGED faults
     \/ /\ results[Entry] = Null
        /\ To(j, "complete") /\ UNCHANGED <<reviews, faults>>
  /\ UNCHANGED <<tx, rows, results, vehicles, zoned, handler>>

\* FindEntryResultByTransactionID: the result of a completed entry job.
EntryResultKnown == results[Entry] # Null /\ rows[Entry] = "completed"

\* Without one, or when the review cannot be stored, nothing is compared.
JobCompare(j) ==
  /\ jobs[j].pc = "compare"
  /\ \/ /\ EntryResultKnown
        /\ LET match == SamePlate(jobs[j].reading, results[Entry].reading)
           IN /\ CreateReview(j, match)
              /\ jobs' = [jobs EXCEPT ![j].pc = "stamp", ![j].match = match]
        /\ UNCHANGED faults
     \/ ~EntryResultKnown /\ To(j, "complete") /\ UNCHANGED <<reviews, faults>>
     \/ Fault /\ To(j, "complete") /\ UNCHANGED reviews
  /\ UNCHANGED <<tx, rows, results, vehicles, zoned, handler>>

\* StampPlateMismatch reads the transaction, and passes one that is over ...
JobStampRead(j) ==
  /\ jobs[j].pc = "stamp"
  /\ To(j, IF tx.status \in {"cancelled", "exited"} THEN "complete" ELSE "write")
  /\ UNCHANGED <<tables, handler, faults>>

\* ... else it writes one column.
JobStampWrite(j) ==
  /\ jobs[j].pc = "write"
  /\ \/ tx' = [tx EXCEPT !.mismatch = ~jobs[j].match] /\ UNCHANGED faults
     \/ Fault /\ UNCHANGED tx
  /\ To(j, "complete")
  /\ UNCHANGED <<rows, results, reviews, vehicles, zoned, handler>>

-----------------------------------------------------------------------------
(***************************************************************************)
(* RecordExit, Cancel, MarkPaid and MarkExited, as far as the row goes.    *)
(***************************************************************************)

Operations == {"RecordExit", "Cancel", "MarkPaid", "MarkExited"}

From(op) ==
  CASE op \in {"RecordExit", "Cancel"} -> "open"
    [] op = "MarkPaid" -> "awaiting_payment"
    [] op = "MarkExited" -> "paid"

Into(op) ==
  CASE op = "RecordExit" -> "awaiting_payment"
    [] op = "Cancel" -> "cancelled"
    [] op = "MarkPaid" -> "paid"
    [] op = "MarkExited" -> "exited"

HandlerRead(h, op) ==
  /\ handler[h] = NoHandler /\ tx.status = From(op)
  /\ handler' = [handler EXCEPT ![h] = [op |-> op, row |-> tx]]
  /\ UNCHANGED <<tables, jobs, faults>>

\* Save writes every column.  A recorded exit with a photo starts a job.
HandlerSave(h) ==
  LET op == handler[h].op IN
  /\ op # "none"
  /\ \/ /\ tx' = [handler[h].row EXCEPT !.status = Into(op)]
        /\ \/ UNCHANGED jobs
           \/ op = "RecordExit" /\ \E j \in Exits :
                jobs[j] = Waiting /\ jobs' = [jobs EXCEPT ![j] = Dispatched]
        /\ UNCHANGED faults
     \/ Fault /\ UNCHANGED <<tx, jobs>>
  /\ handler' = [handler EXCEPT ![h] = NoHandler]
  /\ UNCHANGED <<rows, results, reviews, vehicles, zoned>>

\* The process ends: nobody takes a job up again.
Restart ==
  /\ Fault
  /\ jobs' = [j \in Jobs |-> IF jobs[j] = Waiting THEN Waiting ELSE [Waiting EXCEPT !.pc = "over"]]
  /\ handler' = [h \in Handlers |-> NoHandler]
  /\ UNCHANGED tables

CreateReviewLog(j) == JobCompare(j) \/ JobStampRead(j) \/ JobStampWrite(j)

JobStep(j) ==
  \/ JobCreate(j) \/ JobStart(j) \/ JobPing(j) \/ JobDetect(j) \/ JobFails(j)
  \/ JobZone(j) \/ JobVehicleFound(j) \/ JobVehicleInserted(j) \/ JobResult(j) \/ JobLink(j)
  \/ CreateReviewLog(j) \/ JobComplete(j)

PlatesNext ==
  \/ \E j \in Jobs : JobStep(j)
  \/ \E h \in Handlers : \E op \in Operations : HandlerRead(h, op)
  \/ \E h \in Handlers : HandlerSave(h)
  \/ Restart

\* A goroutine that can run does, and the detector's client has a timeout.
PlatesSpec == PlatesInit /\ [][PlatesNext]_platesVars /\ \A j \in Jobs : WF_platesVars(JobStep(j))

-----------------------------------------------------------------------------

\* A transaction is flagged, or cleared, by a comparison that is on record:
\* of the plate read at an exit with the one of an entry job that completed.
\* No handler's whole-row save brings a flag up that nobody stamped.
FlagIsEarned ==
  tx.mismatch # Null =>
    /\ rows[Entry] = "completed"
    /\ \E j \in Exits :
         /\ results[j] # Null /\ reviews[j] = ~tx.mismatch
         /\ SamePlate(results[j].reading, results[Entry].reading) <=> reviews[j]

\* The vehicle of a transaction bears a plate that was read on one of its
\* photos, and the result that says so is stored, whatever fails or restarts
\* in between, and though two jobs may store a vehicle twice.
VehicleIsSeen ==
  tx.vehicle # Null =>
    \E j \in Jobs :
      results[j] # Null /\ results[j].vehicle = tx.vehicle
      /\ vehicles[tx.vehicle] = results[j].reading

\* A job that was dispatched comes to an end, whatever the detector does, and
\* without a fault its row says so.
JobEnds ==
  \A j \in Jobs :
    jobs[j].pc = "dispatched" ~> jobs[j].pc = "over" /\ (rows[j] \in Ended \/ faults > 0)

===============================================================================
