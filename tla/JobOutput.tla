------------------------------ MODULE JobOutput ------------------------------
(***************************************************************************)
(* The end of one job: its instance announces the outputs, uploads them    *)
(* and completes the job, in calls that may be repeated and overlap.       *)
(***************************************************************************)
EXTENDS FiniteSets, Sequences

CONSTANTS Outputs,     \* the files of the job
          Finishes, Puts, Completes,   \* calls of the three handlers
          PutOutput    \* the file of each upload

ASSUME OutputAssumption == PutOutput \in [Puts -> Outputs]

VARIABLES job,     \* the row: status, whether it has error_detail, output_files
          stored,  \* the files in S3
          call,    \* the calls, with what they loaded
          crossed  \* history: the job was announced anew between the load and the
                   \* commit of a completion, or after one

outputVars == <<job, stored, call, crossed>>

Statuses == {"none", "complete", "complete_pending_uploads", "partial_failure", "error"}
Calls == Finishes \cup Puts \cup Completes
\* What an instance says of the job, at each call anew.
Payloads == [status : {"complete", "error"}, detail : BOOLEAN, files : SUBSET Outputs]
NewJob == [status |-> "none", detail |-> FALSE, files |-> {}, uploaded |-> {}, finished |-> FALSE]

OutputInit ==
    /\ job = NewJob
    /\ stored = {}
    /\ call = [c \in Calls |-> [pc |-> "new", saw |-> NewJob]]
    /\ crossed = FALSE

LoadsJob(c) ==
    /\ call[c].pc = "new"
    /\ ~job.finished
    /\ c \in Puts => PutOutput[c] \in job.files
    /\ call' = [call EXCEPT ![c] = [pc |-> "loaded", saw |-> job]]
    /\ UNCHANGED <<job, stored, crossed>>

\* What was loaded is not used any more.
MovesTo(c, pc) == call' = [call EXCEPT ![c] = [pc |-> pc, saw |-> NewJob]]
OutputEnds(c) == MovesTo(c, "over")

\* A column is written if it differs from what was loaded.
Column(loaded, now, new) == IF new = loaded THEN now ELSE new

\* finish_job_and_get_upload_targets; it resets what was uploaded before.
Announced(row, saw, payload) ==
    LET status == IF payload.status = "complete" /\ payload.files # {}
                    THEN "complete_pending_uploads" ELSE payload.status
        outputs == Column(<<saw.files, saw.uploaded>>, <<row.files, row.uploaded>>,
                          <<payload.files, {}>>)
    IN  [row EXCEPT !.status = Column(saw.status, @, status),
                    !.detail = Column(saw.detail, @, payload.detail),
                    !.files = outputs[1], !.uploaded = outputs[2]]

Finish(c) ==
    /\ call[c].pc = "loaded"
    /\ \E payload \in Payloads : job' = Announced(job, call[c].saw, payload)
    /\ crossed' = (crossed \/ job.finished \/ \E d \in Completes : call[d].pc = "loaded")
    /\ OutputEnds(c)
    /\ UNCHANGED stored

\* upload_job_file; the file may have been dropped from output_files, which
\* then becomes null.
Stores(c) ==
    /\ call[c].pc = "loaded"
    /\ stored' = stored \cup {PutOutput[c]}
    /\ MovesTo(c, "stored")
    /\ UNCHANGED <<job, crossed>>

Marks(c) ==
    /\ call[c].pc = "stored"
    /\ job' = IF PutOutput[c] \in job.files THEN [job EXCEPT !.uploaded = @ \cup {PutOutput[c]}]
              ELSE [job EXCEPT !.files = {}, !.uploaded = {}]
    /\ OutputEnds(c)
    /\ UNCHANGED <<stored, crossed>>

\* complete_job, by what it loaded.
Ended(status) == status \in {"complete", "complete_pending_uploads"}
AnyUploaded(saw) == saw.uploaded # {}
AllUploaded(saw) == saw.files = saw.uploaded

NewStatus(saw) == IF saw.files = {} \/ ~Ended(saw.status) THEN saw.status
                  ELSE IF AllUploaded(saw) THEN "complete" ELSE "partial_failure"
\* The files that failed are appended to a detail that may be null.
CompleteRaises(saw) == saw.files # {} /\ ~AllUploaded(saw) /\ ~Ended(saw.status) /\ ~saw.detail

Complete(c) ==
    LET saw == call[c].saw IN
    /\ call[c].pc = "loaded"
    /\ job' = IF CompleteRaises(saw) THEN job
              ELSE [job EXCEPT !.finished = TRUE,
                               !.status = Column(saw.status, @, NewStatus(saw)),
                               !.detail = @ \/ NewStatus(saw) = "partial_failure"]
    /\ OutputEnds(c)
    /\ UNCHANGED <<stored, crossed>>

OutputNext == \/ \E c \in Calls : LoadsJob(c)
              \/ \E c \in Finishes : Finish(c)
              \/ \E c \in Puts : Stores(c) \/ Marks(c)
              \/ \E c \in Completes : Complete(c)
OutputSpec == OutputInit /\ [][OutputNext]_outputVars

-----------------------------------------------------------------------------
Row == [status : Statuses, detail : BOOLEAN, files : SUBSET Outputs, uploaded : SUBSET Outputs,
        finished : BOOLEAN]
OutputTypeOK == /\ job \in Row
                /\ stored \subseteq Outputs
                /\ call \in [Calls -> [pc : {"new", "loaded", "stored", "over"}, saw : Row]]
                /\ crossed \in BOOLEAN

\* complete_job ("checks the file uploads to see which were successfully
\* transferred"), upload_job_file: the outputs of a job reported complete are in
\* S3, however often it was announced, and with whichever files, and however its
\* uploads and completions overlap; unless it was announced once more while a
\* completion was in progress or after one.
CompleteMeansStored ==
    job.finished /\ job.status = "complete" /\ ~crossed => job.files \subseteq stored

\* complete_job ("Final update"), finish_job_and_get_upload_targets ("Job already
\* finished"): what a finished job says of its end and its files stays.  The
\* code looks at finished_at in the row it loaded, and not when it commits.
FinishedIsFinal ==
    [][job.finished => job'.status = job.status /\ job'.files = job.files]_outputVars
=============================================================================
