------------------------------ MODULE JobWait -------------------------------
(***************************************************************************)
(* mcrit_similarity/mcrit/jobs.py: the client that polls an MCRIT job      *)
(* until it has a result, beside the server and the workers that run the   *)
(* job.  A worker can die, the server then reclaims the job; a worker the  *)
(* server gave up on can still complete it; and Job.complete() writes      *)
(* finished_at and the result id in two updates.                           *)
(*                                                                         *)
(* The server half is what the client's code and comments assume of MCRIT. *)
(* Sleeping between polls, which no step depends on, is left out.          *)
(***************************************************************************)
EXTENDS Naturals

CONSTANTS
    Attempts,       \* a new job has at most so many attempts_left
    Limit           \* max_consecutive_missing

ASSUME JobConstants == Attempts \in Nat \ {0} /\ Limit \in Nat \ {0}

VARIABLES
    job,            \* the job document, and whether its result is stored
    orphan,         \* a worker the server gave up on is still running
    losses,         \* whether the job ever lost its worker
    pc,             \* where await_job is
    doc,            \* the job document of the last poll
    missing, unwritten,     \* missing_count, unwritten_results
    stopped,        \* should_stop() answers True
    readable,       \* the result could be read when the last poll began
    outcome         \* how the wait ended

server == <<job, orphan, losses>>
client == <<pc, doc, missing, unwritten, readable, outcome>>
vars == <<server, client, stopped>>

Documents == [exists : BOOLEAN, attempts : 0..Attempts, locked : BOOLEAN,
              started : BOOLEAN, finished : BOOLEAN, result : BOOLEAN,
              terminated : BOOLEAN, stored : BOOLEAN]

NewJob(n) == [exists |-> TRUE, attempts |-> n, locked |-> FALSE,
              started |-> FALSE, finished |-> FALSE, result |-> FALSE,
              terminated |-> FALSE, stored |-> FALSE]

Init ==
    /\ job \in {NewJob(n) : n \in 1..Attempts}
    /\ orphan = FALSE
    /\ losses = FALSE
    /\ pc = "poll"
    /\ doc = job
    /\ missing = 0
    /\ unwritten = 0
    /\ stopped = FALSE
    /\ readable = FALSE
    /\ outcome = "none"

-----------------------------------------------------------------------------
(* The MCRIT server *)

Open == job.exists /\ ~job.finished /\ ~job.terminated

(* What an attempt costs is counted when it starts or when it is lost. *)
Counted == {job.attempts, IF job.attempts > 0 THEN job.attempts - 1 ELSE 0}

TakeJob ==
    /\ Open /\ ~job.locked /\ job.attempts > 0
    /\ \E n \in Counted :
          job' = [job EXCEPT !.locked = TRUE, !.started = TRUE, !.attempts = n]
    /\ UNCHANGED <<orphan, losses, client, stopped>>

(* A dead worker is reclaimed: the job is queued again, or has failed. *)
LoseWorker ==
    /\ Open /\ job.locked
    /\ \E n \in Counted :
          job' = [job EXCEPT !.locked = FALSE, !.attempts = n]
    /\ orphan' \in {orphan, TRUE}
    /\ losses' = TRUE
    /\ UNCHANGED <<client, stopped>>

Working == job.exists /\ (job.locked \/ orphan)

StoreResult ==
    /\ Working
    /\ job' = [job EXCEPT !.stored = TRUE]
    /\ UNCHANGED <<orphan, losses, client, stopped>>

(* Job.complete(): two updates, with polls in between. *)
SetFinished ==
    /\ Working /\ job.stored
    /\ job' = [job EXCEPT !.finished = TRUE]
    /\ UNCHANGED <<orphan, losses, client, stopped>>

SetResult ==
    /\ Working /\ job.stored
    /\ job' = [job EXCEPT !.result = TRUE]
    /\ UNCHANGED <<orphan, losses, client, stopped>>

TerminateJob ==
    /\ Open /\ ~job.result
    /\ job' = [job EXCEPT !.terminated = TRUE]
    /\ UNCHANGED <<orphan, losses, client, stopped>>

(* The server's cleanup drops a job with its result. *)
DropJob ==
    /\ job.exists
    /\ job' = [job EXCEPT !.exists = FALSE, !.stored = FALSE]
    /\ UNCHANGED <<orphan, losses, client, stopped>>

-----------------------------------------------------------------------------
(* job_state and its friends, on a document the client holds *)

(* Seeded bug: the attempt counter is looked at first. *)
BugInProgress(d) == d.started /\ d.locked /\ d.attempts > 0
                    /\ ~(d.finished \/ d.terminated)

InProgress(d) == d.started /\ d.locked /\ ~(d.finished \/ d.terminated)

StateFailed(d) == /\ ~InProgress(d)
                  /\ d.attempts = 0 /\ ~d.finished /\ ~d.terminated

(* Seeded bug: a written result does not outweigh the attempt counter. *)
BugJobFailed(d) == StateFailed(d)

JobFailed(d) == StateFailed(d) /\ ~d.result

JobFinished(d) == d.result \/ d.finished

-----------------------------------------------------------------------------
(* await_job *)

End(o) == pc' = "done" /\ outcome' = o
Goto(l) == pc' = l /\ UNCHANGED outcome

Readable == job.exists /\ job.result /\ job.stored

(* Seeded bug: should_stop is asked once, before the first poll. *)
BugCheckStop ==
    /\ pc = "poll"
    /\ Goto("get")
    /\ readable' = Readable
    /\ UNCHANGED <<server, doc, missing, unwritten, stopped>>

CheckStop ==
    /\ pc = "poll"
    /\ \/ stopped /\ End("cancelled")
       \/ ~stopped /\ Goto("get")
    /\ readable' = Readable
    /\ UNCHANGED <<server, doc, missing, unwritten, stopped>>

(* Seeded bug: a gap forgets the polls that found no result. *)
BugGetNothing ==
    /\ pc = "get"
    /\ missing' = missing + 1
    /\ unwritten' = 0
    /\ IF missing' >= Limit THEN End("missing") ELSE Goto("poll")
    /\ UNCHANGED <<server, doc, readable, stopped>>

(* get_job_data answers None: the job is gone, or was not found this time. *)
GetNothing ==
    /\ pc = "get"
    /\ missing' = missing + 1
    /\ IF missing' >= Limit THEN End("missing") ELSE Goto("poll")
    /\ UNCHANGED <<server, doc, unwritten, readable, stopped>>

GetJob ==
    /\ pc = "get"
    /\ job.exists
    /\ doc' = job
    /\ missing' = 0
    /\ Goto("judge")
    /\ UNCHANGED <<server, unwritten, readable, stopped>>

Judge ==
    /\ pc = "judge"
    /\ \/ doc.terminated /\ End("terminated")
       \/ ~doc.terminated /\ JobFailed(doc) /\ End("failed")
       \/ /\ ~doc.terminated /\ ~JobFailed(doc)
          /\ Goto(IF ~JobFinished(doc) THEN "poll"
                  ELSE IF doc.result THEN "result" ELSE "unwritten")
    /\ UNCHANGED <<server, doc, missing, unwritten, readable, stopped>>

(* Seeded bug: one more try than the limit allows. *)
BugFetchUnwritten ==
    /\ pc = "unwritten"
    /\ \/ Readable /\ End("result") /\ UNCHANGED unwritten
       \/ /\ ~Readable
          /\ unwritten' = unwritten + 1
          /\ IF unwritten' > Limit THEN End("unwritten") ELSE Goto("poll")
    /\ UNCHANGED <<server, doc, missing, readable, stopped>>

(* Finished without a result id: ask for the job's result, which works once
   the second update is there. *)
FetchUnwritten ==
    /\ pc = "unwritten"
    /\ \/ Readable /\ End("result") /\ UNCHANGED unwritten
       \/ /\ ~Readable
          /\ unwritten' = unwritten + 1
          /\ IF unwritten' >= Limit THEN End("unwritten") ELSE Goto("poll")
    /\ UNCHANGED <<server, doc, missing, readable, stopped>>

FetchResult ==
    /\ pc = "result"
    /\ \/ job.stored /\ End("result")
       \/ ~job.stored /\ Goto("again")
    /\ UNCHANGED <<server, doc, missing, unwritten, readable, stopped>>

(* ... by the job's id, when the result id led nowhere. *)
FetchAgain ==
    /\ pc = "again"
    /\ End(IF Readable THEN "result" ELSE "lost")
    /\ UNCHANGED <<server, doc, missing, unwritten, readable, stopped>>

RequestStop ==
    /\ ~stopped /\ pc # "done"
    /\ stopped' = TRUE
    /\ UNCHANGED <<server, client>>

Await == \/ CheckStop \/ GetNothing \/ GetJob \/ Judge
         \/ FetchUnwritten \/ FetchResult \/ FetchAgain

Server == \/ TakeJob \/ LoseWorker \/ StoreResult \/ SetFinished \/ SetResult
          \/ TerminateJob \/ DropJob

Next == Await \/ Server \/ RequestStop

Spec == Init /\ [][Next]_vars

(* The client keeps polling: its sleeps end and its requests have a timeout. *)
FairSpec == Spec /\ WF_vars(Await)

-----------------------------------------------------------------------------
(* What must hold *)

Outcomes == {"none", "cancelled", "missing", "terminated", "failed",
             "unwritten", "lost", "result"}

(* Every variable has its type, and the counters stop at the limit that ends
   the wait. *)
TypeOK ==
    /\ job \in Documents /\ doc \in Documents
    /\ {orphan, losses, stopped, readable} \subseteq BOOLEAN
    /\ pc \in {"poll", "get", "judge", "unwritten", "result", "again", "done"}
    /\ missing \in 0..Limit /\ unwritten \in 0..Limit
    /\ outcome \in Outcomes
    /\ pc = "done" <=> outcome # "none"
    /\ pc # "done" => missing < Limit /\ unwritten < Limit

(* "A healthy job can look idle for a long time": the wait reports a failed
   job only when the job really lost a worker, also on its last attempt. *)
HealthyJobNeverFails == outcome = "failed" => losses

(* "A written result means the job completed, whatever its attempt counter
   says": a result that could be read when a poll began is not lost to a
   failed or unwritten verdict of that poll. *)
WrittenResultIsTaken == outcome \in {"failed", "unwritten"} => ~readable

JobOver == \/ ~job.exists \/ job.terminated \/ job.finished \/ job.result
           \/ job.attempts = 0 /\ ~job.locked

(* Once the job is over the wait ends, through gaps in the server's answers
   and a result id that is never written. *)
WaitEnds == JobOver ~> pc = "done"

(* A stop ends the wait, however long the job runs. *)
StopEndsWait == stopped ~> pc = "done"
=============================================================================
