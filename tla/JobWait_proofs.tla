---------------------------- MODULE JobWait_proofs ----------------------------
(***************************************************************************)
(* Proofs about JobWait, for any number of attempts and any limit.         *)
(***************************************************************************)
EXTENDS JobWait, TLAPS

(* Without a lost worker, a document without attempts is of a job that runs:
   the one on the server, and the one the client holds. *)
RunsItsLast(d) == d.attempts = 0 => d.locked /\ d.started

LastAttempt == ~losses => RunsItsLast(job) /\ RunsItsLast(doc)

(* A result that could be read when the poll began is on the document that
   the poll got, so that the poll does not look for an unwritten one. *)
ResultIsSeen ==
    /\ readable => job.result
    /\ readable /\ pc \in {"judge", "unwritten", "result", "again"} => doc.result
    /\ pc = "unwritten" => ~doc.result

Ind == /\ TypeOK /\ LastAttempt /\ ResultIsSeen
       /\ HealthyJobNeverFails /\ WrittenResultIsTaken

-----------------------------------------------------------------------------
(* The server and the client both start in it. *)
LEMMA InitInd == Init => Ind
<1> SUFFICES ASSUME Init PROVE Ind
  OBVIOUS
<1>1. PICK n \in 1..Attempts : job = NewJob(n)
  BY DEF Init
<1>2. job \in Documents /\ doc \in Documents
  BY <1>1, JobConstants DEF Init, NewJob, Documents
<1>3. TypeOK
  <2>1. 0 \in 0..Limit /\ 0 < Limit
    BY JobConstants
  <2>2. {orphan, losses, stopped, readable} \subseteq BOOLEAN
    BY DEF Init
  <2> QED
    BY <1>2, <2>1, <2>2 DEF Init, TypeOK, Outcomes
<1>4. LastAttempt
  BY <1>1, JobConstants DEF Init, LastAttempt, RunsItsLast, NewJob
<1> QED
  BY <1>3, <1>4
     DEF Init, Ind, ResultIsSeen, HealthyJobNeverFails, WrittenResultIsTaken

(* Every step of the server, and a stop, leaves the client alone: then three
   facts about the document are enough. *)
LEMMA ServerStep ==
    ASSUME Ind, UNCHANGED client, stopped' \in BOOLEAN, orphan' \in BOOLEAN,
           losses' \in BOOLEAN, job' \in Documents,
           job.result => job'.result, losses => losses',
           ~losses' => RunsItsLast(job')
    PROVE  Ind'
<1>1. TypeOK'
  BY DEF Ind, TypeOK, client
<1>2. LastAttempt'
  BY DEF Ind, LastAttempt, RunsItsLast, client
<1>3. ResultIsSeen'
  BY DEF Ind, ResultIsSeen, client
<1>4. HealthyJobNeverFails' /\ WrittenResultIsTaken'
  BY DEF Ind, HealthyJobNeverFails, WrittenResultIsTaken, client
<1> QED
  BY <1>1, <1>2, <1>3, <1>4 DEF Ind

(* Every step of the client leaves the server alone. *)
LEMMA ClientStep ==
    ASSUME Ind, Await
    PROVE  Ind'
<1> USE DEF Ind
<1>1. CASE CheckStop
  <2>1. UNCHANGED <<server, doc, missing, unwritten, stopped>>
    BY <1>1 DEF CheckStop
  <2>2. pc = "poll" /\ readable' = (job.exists /\ job.result /\ job.stored)
    BY <1>1 DEF CheckStop, Readable
  <2>3. \/ pc' = "done" /\ outcome' = "cancelled"
        \/ pc' = "get" /\ outcome' = outcome
    BY <1>1 DEF CheckStop, End, Goto
  <2>4. job \in Documents /\ outcome = "none"
    BY <2>2 DEF TypeOK
  <2>5. readable' \in BOOLEAN /\ (readable' => job.result)
    BY <2>2, <2>4 DEF Documents
  <2>6. TypeOK'
    BY <2>1, <2>2, <2>3, <2>5 DEF TypeOK, server, Outcomes
  <2> QED
    BY <2>1, <2>2, <2>3, <2>4, <2>5, <2>6
       DEF LastAttempt, RunsItsLast, ResultIsSeen, server,
           HealthyJobNeverFails, WrittenResultIsTaken
<1>2. CASE GetNothing
  <2>1. UNCHANGED <<server, doc, unwritten, readable, stopped>>
    BY <1>2 DEF GetNothing
  <2>2. pc = "get" /\ missing' = missing + 1
    BY <1>2 DEF GetNothing
  <2>3. \/ missing' >= Limit /\ pc' = "done" /\ outcome' = "missing"
        \/ missing' < Limit /\ pc' = "poll" /\ outcome' = outcome
    BY <1>2, <2>2, JobConstants DEF GetNothing, End, Goto, TypeOK
  <2>4. TypeOK'
    BY <2>1, <2>2, <2>3, JobConstants DEF TypeOK, server, Outcomes
  <2> QED
    BY <2>1, <2>2, <2>3, <2>4
       DEF LastAttempt, RunsItsLast, ResultIsSeen, server, TypeOK,
           HealthyJobNeverFails, WrittenResultIsTaken
<1>3. CASE GetJob
  <2>1. /\ UNCHANGED <<server, unwritten, readable, stopped, outcome>>
        /\ doc' = job /\ missing' = 0 /\ pc = "get" /\ pc' = "judge"
    BY <1>3 DEF GetJob, Goto
  <2>2. TypeOK'
    BY <2>1, JobConstants DEF TypeOK, server
  <2> QED
    BY <2>1, <2>2
       DEF LastAttempt, RunsItsLast, ResultIsSeen, server, TypeOK,
           HealthyJobNeverFails, WrittenResultIsTaken
<1>4. CASE Judge
  <2>1. UNCHANGED <<server, doc, missing, unwritten, readable, stopped>>
    BY <1>4 DEF Judge
  <2>2. pc = "judge" /\ outcome = "none" /\ doc \in Documents
    BY <1>4 DEF Judge, TypeOK
  <2>3. CASE doc.terminated /\ End("terminated")
    BY <2>1, <2>2, <2>3
       DEF End, TypeOK, LastAttempt, RunsItsLast, ResultIsSeen, server,
           HealthyJobNeverFails, WrittenResultIsTaken, Outcomes
  <2>4. CASE ~doc.terminated /\ JobFailed(doc) /\ End("failed")
    <3>1. losses
      BY <2>4 DEF LastAttempt, RunsItsLast, JobFailed, StateFailed, InProgress
    <3>2. ~readable
      BY <2>2, <2>4 DEF ResultIsSeen, JobFailed
    <3> QED
      BY <2>1, <2>2, <2>4, <3>1, <3>2
         DEF End, TypeOK, LastAttempt, RunsItsLast, ResultIsSeen, server,
             HealthyJobNeverFails, WrittenResultIsTaken, Outcomes
  <2>5. CASE /\ ~doc.terminated /\ ~JobFailed(doc)
             /\ Goto(IF ~JobFinished(doc) THEN "poll"
                     ELSE IF doc.result THEN "result" ELSE "unwritten")
    <3>1. outcome' = outcome /\ \/ pc' = "poll"
                                \/ pc' = "result" /\ doc.result
                                \/ pc' = "unwritten" /\ ~doc.result
      BY <2>5 DEF Goto
    <3> QED
      BY <2>1, <2>2, <3>1
         DEF TypeOK, LastAttempt, RunsItsLast, ResultIsSeen, server,
             HealthyJobNeverFails, WrittenResultIsTaken
  <2> QED
    BY <1>4, <2>3, <2>4, <2>5 DEF Judge
<1>5. CASE FetchUnwritten
  <2>1. UNCHANGED <<server, doc, missing, readable, stopped>>
    BY <1>5 DEF FetchUnwritten
  <2>2. pc = "unwritten" /\ outcome = "none" /\ ~readable
    BY <1>5 DEF FetchUnwritten, TypeOK, ResultIsSeen
  <2>3. \/ unwritten' = unwritten /\ pc' = "done" /\ outcome' = "result"
        \/ /\ unwritten' = unwritten + 1
           /\ \/ pc' = "done" /\ outcome' = "unwritten"
              \/ unwritten' < Limit /\ pc' = "poll" /\ outcome' = outcome
    BY <1>5, JobConstants DEF FetchUnwritten, End, Goto, TypeOK
  <2>4. TypeOK'
    BY <2>1, <2>2, <2>3, JobConstants DEF TypeOK, server, Outcomes
  <2> QED
    BY <2>1, <2>2, <2>3, <2>4
       DEF LastAttempt, RunsItsLast, ResultIsSeen, server,
           HealthyJobNeverFails, WrittenResultIsTaken
<1>6. CASE FetchResult
  <2>1. UNCHANGED <<server, doc, missing, unwritten, readable, stopped>>
    BY <1>6 DEF FetchResult
  <2>2. pc = "result" /\ outcome = "none"
    BY <1>6 DEF FetchResult, TypeOK
  <2>3. \/ pc' = "done" /\ outcome' = "result"
        \/ pc' = "again" /\ outcome' = outcome
    BY <1>6 DEF FetchResult, End, Goto
  <2> QED
    BY <2>1, <2>2, <2>3
       DEF TypeOK, LastAttempt, RunsItsLast, ResultIsSeen, server,
           HealthyJobNeverFails, WrittenResultIsTaken, Outcomes
<1>7. CASE FetchAgain
  <2>1. UNCHANGED <<server, doc, missing, unwritten, readable, stopped>>
    BY <1>7 DEF FetchAgain
  <2>2. pc = "again" /\ pc' = "done" /\ outcome' \in {"result", "lost"}
    BY <1>7 DEF FetchAgain, End
  <2> QED
    BY <2>1, <2>2
       DEF TypeOK, LastAttempt, RunsItsLast, ResultIsSeen, server,
           HealthyJobNeverFails, WrittenResultIsTaken, Outcomes
<1> QED
  BY <1>1, <1>2, <1>3, <1>4, <1>5, <1>6, <1>7 DEF Await

(* What an attempt may cost leaves the attempts in their range. *)
LEMMA CountedProperties ==
    ASSUME TypeOK, NEW n \in Counted
    PROVE  n \in 0..Attempts
<1>1. job.attempts \in 0..Attempts
  BY DEF TypeOK, Documents
<1> QED
  BY <1>1, JobConstants DEF Counted

(* The server's steps keep it, by the two lemmas above. *)
LEMMA ServerKeepsInd ==
    ASSUME Ind, Server \/ RequestStop
    PROVE  Ind'
<1>t. TypeOK /\ LastAttempt
  BY DEF Ind
<1>d. /\ job \in Documents /\ orphan \in BOOLEAN /\ losses \in BOOLEAN
      /\ stopped \in BOOLEAN
  BY <1>t DEF TypeOK
<1>1. CASE TakeJob
  <2>1. PICK n \in Counted :
           job' = [job EXCEPT !.locked = TRUE, !.started = TRUE, !.attempts = n]
    BY <1>1 DEF TakeJob
  <2>2. n \in 0..Attempts
    BY <1>t, <2>1, CountedProperties
  <2>3. /\ job' \in Documents /\ job'.result = job.result
        /\ job'.locked /\ job'.started
    BY <1>d, <2>1, <2>2 DEF Documents
  <2> QED
    BY <1>1, <1>d, <2>3, ServerStep DEF TakeJob, RunsItsLast
<1>2. CASE LoseWorker
  <2>1. PICK n \in Counted : job' = [job EXCEPT !.locked = FALSE, !.attempts = n]
    BY <1>2 DEF LoseWorker
  <2>2. n \in 0..Attempts
    BY <1>t, <2>1, CountedProperties
  <2>3. job' \in Documents /\ job'.result = job.result
    BY <1>d, <2>1, <2>2 DEF Documents
  <2> QED
    BY <1>2, <1>d, <2>3, ServerStep DEF LoseWorker
<1>3. ASSUME NEW f \in {"stored", "finished", "result", "terminated"},
             job' = [job EXCEPT ![f] = TRUE],
             UNCHANGED <<orphan, losses, client, stopped>>
      PROVE  Ind'
  <2>1. /\ job' \in Documents /\ (job.result => job'.result)
        /\ job'.attempts = job.attempts /\ job'.locked = job.locked
        /\ job'.started = job.started
    BY <1>3, <1>d DEF Documents
  <2> QED
    BY <1>3, <1>d, <1>t, <2>1, ServerStep DEF LastAttempt, RunsItsLast
<1>4. CASE StoreResult \/ SetFinished \/ SetResult \/ TerminateJob
  BY <1>3, <1>4 DEF StoreResult, SetFinished, SetResult, TerminateJob
<1>5. CASE DropJob
  <2>1. /\ job' \in Documents /\ job'.result = job.result
        /\ job'.attempts = job.attempts /\ job'.locked = job.locked
        /\ job'.started = job.started
    BY <1>5, <1>d DEF DropJob, Documents
  <2> QED
    BY <1>5, <1>d, <1>t, <2>1, ServerStep DEF DropJob, LastAttempt, RunsItsLast
<1>6. CASE RequestStop
  BY <1>6, <1>d, <1>t, ServerStep
     DEF RequestStop, server, LastAttempt, RunsItsLast
<1> QED
  BY <1>1, <1>2, <1>4, <1>5, <1>6 DEF Server

(* ... and so does a step of neither. *)
LEMMA StutterKeepsInd == Ind /\ UNCHANGED vars => Ind'
  BY DEF Ind, vars, server, client, TypeOK, LastAttempt, RunsItsLast,
         ResultIsSeen, HealthyJobNeverFails, WrittenResultIsTaken

(* The invariant that the theorems below are parts of. *)
THEOREM Invariance == Spec => []Ind
<1>1. Ind /\ [Next]_vars => Ind'
  BY ClientStep, ServerKeepsInd, StutterKeepsInd DEF Next
<1> QED
  BY <1>1, InitInd, PTL DEF Spec

-----------------------------------------------------------------------------
(* Every variable has its type: the counters of gaps and of unwritten results
   never pass the limit at which await_job gives up. *)
THEOREM TypeCorrect == Spec => []TypeOK
  BY Invariance, PTL DEF Ind

(* A job that has lost no worker is never reported as failed, on whichever
   attempt it is, and however the polls fall. *)
THEOREM HealthyJobs == Spec => []HealthyJobNeverFails
  BY Invariance, PTL DEF Ind

(* A result that could be read when a poll began is never passed over for a
   failed or an unwritten verdict. *)
THEOREM ResultsAreTaken == Spec => []WrittenResultIsTaken
  BY Invariance, PTL DEF Ind
=============================================================================
