------------------------------- MODULE MediaJobs -------------------------------
(***************************************************************************)
(* One media generation job: the background task that calls the operator's  *)
(* webhook and counts refusals, and the task runner that runs a task again  *)
(* when it raised something unexpected or its process died.                 *)
(***************************************************************************)
EXTENDS Integers

CONSTANTS MaxMediaRetries, MaxMediaAccidents

ASSUME MediaConstants == MaxMediaRetries \in Nat \ {0} /\ MaxMediaAccidents \in Nat

VARIABLES
    job,        \* MediaGenerationJob: status, retry_count
    mediaTasks, \* process_media_job_task in the queue, the one running included
    step,       \* position of the one running: none, call, answered, refused, requeue
    seen,       \* retry_count as the running task read it
    calls,      \* history: calls of the webhook
    accidents   \* history: deaths and unexpected errors

mediaVars == <<job, mediaTasks, step, seen, calls, accidents>>

JobStatuses == {"queued", "processing", "waiting_provider", "ready_for_review", "failed"}
Accident == accidents < MaxMediaAccidents /\ accidents' = accidents + 1

\* With no webhook configured the job waits, and nothing is called.
StartJob(configured) ==
    /\ step = "none" /\ mediaTasks > 0
    /\ job' = [job EXCEPT !.status = IF configured THEN "processing" ELSE "waiting_provider"]
    /\ step' = IF configured THEN "call" ELSE "none"
    /\ seen' = job.retries
    /\ mediaTasks' = IF configured THEN mediaTasks ELSE mediaTasks - 1
    /\ UNCHANGED <<calls, accidents>>

CallWebhook(answered) ==
    /\ step = "call"
    /\ calls' = calls + 1
    /\ step' = IF answered THEN "answered" ELSE "refused"
    /\ UNCHANGED <<job, mediaTasks, seen, accidents>>

\* An answer with an output is ready for review; without one the job waits.
SaveAnswer(status) ==
    /\ step = "answered" /\ status \in {"ready_for_review", "waiting_provider"}
    /\ job' = [job EXCEPT !.status = status]
    /\ step' = "none" /\ mediaTasks' = mediaTasks - 1
    /\ UNCHANGED <<seen, calls, accidents>>

\* Mutant: the retry after the last one.
OneMoreMediaRetry(retries) == retries > MaxMediaRetries

GivesUp(retries) == retries >= MaxMediaRetries

SaveRefusal ==
    LET retries == seen + 1
    IN  /\ step = "refused"
        /\ job' = [status |-> IF GivesUp(retries) THEN "failed" ELSE "queued", retries |-> retries]
        /\ step' = IF GivesUp(retries) THEN "none" ELSE "requeue"
        /\ mediaTasks' = IF GivesUp(retries) THEN mediaTasks - 1 ELSE mediaTasks
        /\ UNCHANGED <<seen, calls, accidents>>

Requeue ==
    /\ step = "requeue" /\ step' = "requeued" /\ mediaTasks' = mediaTasks + 1
    /\ UNCHANGED <<job, seen, calls, accidents>>

TaskDone ==
    /\ step = "requeued" /\ step' = "none" /\ mediaTasks' = mediaTasks - 1
    /\ UNCHANGED <<job, seen, calls, accidents>>

\* A dead process, or a payload of another shape: the same task runs again.
RunAgain ==
    /\ step # "none" /\ step' = "none" /\ Accident
    /\ UNCHANGED <<job, mediaTasks, seen, calls>>

MediaInit ==
    /\ job = [status |-> "queued", retries |-> 0]
    /\ mediaTasks = 1 /\ step = "none" /\ seen = 0 /\ calls = 0 /\ accidents = 0

MediaNext ==
    \/ \E yes \in BOOLEAN : StartJob(yes) \/ CallWebhook(yes)
    \/ \E status \in JobStatuses : SaveAnswer(status)
    \/ SaveRefusal \/ Requeue \/ TaskDone \/ RunAgain

MediaSpec == MediaInit /\ [][MediaNext]_mediaVars

MediaTypeOK ==
    /\ job.status \in JobStatuses /\ job.retries \in Nat
    /\ mediaTasks \in Nat /\ accidents \in 0..MaxMediaAccidents
    /\ step \in {"none", "call", "answered", "refused", "requeue", "requeued"}

\* The webhook is called max_retries times for a job, plus once for each time the
\* runner ran a task again; a job that may be tried again has a task to do it.
MediaCallsBounded ==
    /\ calls <= MaxMediaRetries + accidents
    /\ job.status \in {"queued", "processing"} => mediaTasks > 0
===============================================================================
