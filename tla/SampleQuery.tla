----------------------------- MODULE SampleQuery -----------------------------
(***************************************************************************)
(* provider.py and mcrit/samples.py: how visits of a node's edges bring    *)
(* the samples of both files to the server, wait until it has indexed      *)
(* them, and get the answer their matches are read from: MatcherVs for an  *)
(* edge, or one MatcherSample for all edges of the node.                   *)
(*                                                                         *)
(* Visits meet in their session's _samples and in the process-wide         *)
(* CORPUS_MATCHES, whose get_or_set is that of SingleFlight; other clients *)
(* use the same server; requests fail as _request in mcrit/client.py lets  *)
(* them; waiting for a job ends as JobWait shows.                          *)
(***************************************************************************)
EXTENDS Integers, Sequences, FiniteSets, TLC, SequencesExt

CONSTANTS
    Files, Target,      \* Target is the file of the node, the rest lead to it
    Visits, Sessions,
    Attempts,           \* _RETRY_ATTEMPTS
    Setups,             \* the circumstances to consider, see SetupConstants
    None

(* What a visit is about: the samples of its two files, those of the node's
   other edges, the query they share, the query of the edge alone. *)
Stages == {"from", "to", "node", "query", "vs"}

ASSUME QueryConstants ==
    /\ Target \in Files /\ Attempts \in Nat \ {0}
    /\ None \notin Nat \cup (Nat \X Nat) \cup {"running", "finished", "failed"}

(* The edge and the session of each visit; the files on the server, of those
   that other clients upload, and of those the sessions' nodes list; the
   configuration; whether the server shows a sample before its job, and hands
   out the jobs it remembers; and what may go wrong: faults holds the stages
   in which requests and jobs may fail. *)
ASSUME SetupConstants ==
    \A s \in Setups :
       /\ s.from \in [Visits -> Files \ {Target}]
       /\ s.session \in [Visits -> Sessions]
       /\ s.incoming \in Seq(Files \ {Target}) /\ s.stored \in Seq(Files)
       /\ IsInjective(s.incoming) /\ IsInjective(s.stored)
       /\ s.added \subseteq Files \ {Target} /\ s.others \subseteq Files
       /\ s.persist \in BOOLEAN /\ s.perNode \in BOOLEAN
       /\ s.resets \in BOOLEAN /\ s.gap \in BOOLEAN /\ s.remembers \in BOOLEAN
       /\ s.faults \subseteq Stages /\ s.stops \subseteq Visits

VARIABLES
    setup,          \* the circumstances, which do not change
    (* the server *)
    era,            \* how often it was reset
    stored, index,  \* its samples, whose ids are the positions; their index
    memo,           \* the answers it remembers
    late,           \* the uploads without an answer that may yet arrive
    sent, lost,     \* of each session and file, the uploads; without an answer
    (* the plugin's process *)
    incoming,       \* the files of the nodes that lead to each session's node
    samples,        \* _samples of each session
    corpus,         \* CORPUS_MATCHES
    old,            \* the sessions that began before a reset
    stopped,        \* the visits that are asked to stop
    (* each visit *)
    pc, stage, left, found, ref, ids, tries, job, answer, outcome

server == <<era, stored, index, memo, late, sent, lost>>
caches == <<samples, corpus>>
session == <<incoming, old, stopped>>
vars == <<setup, server, caches, session, pc, stage, left, found, ref, ids,
          tries, job, answer, outcome>>

From(v) == setup.from[v]
S(v) == setup.session[v]
Put(f, x, y) == [f EXCEPT ![x] = y]
NoAnswer == [own |-> None, of |-> << >>]

Init ==
    /\ setup \in Setups
    /\ era = 0 /\ memo = << >> /\ late = {} /\ stored = setup.stored
    /\ index = [i \in DOMAIN stored |-> "done"]
    /\ sent = [s \in Sessions |-> [f \in Files |-> 0]] /\ lost = sent
    /\ incoming = [s \in Sessions |-> setup.incoming]
    /\ samples = [s \in Sessions |-> [f \in Files |-> None]]
    /\ corpus = << >>
    /\ old = {} /\ stopped = {}
    /\ pc = [v \in Visits |-> "idle"]
    /\ stage = [v \in Visits |-> "from"]
    /\ left = [v \in Visits |-> << >>]
    /\ found = [v \in Visits |-> None]
    /\ ref = [v \in Visits |-> [from |-> None, to |-> None]]
    /\ ids = [v \in Visits |-> {}]
    /\ tries = [v \in Visits |-> 0]
    /\ job = [v \in Visits |-> None]
    /\ answer = [v \in Visits |-> NoAnswer]
    /\ outcome = [v \in Visits |-> "none"]

(* The sample a visit is after: of its two files, and then of every file of
   the node's edges. *)
File(v) == CASE stage[v] = "from" -> From(v)
             [] stage[v] = "to" -> Target
             [] OTHER -> Head(left[v])

Stands(f) == f \in ToSet(stored)
Id(f) == CHOOSE i \in DOMAIN stored : stored[i] = f

-----------------------------------------------------------------------------
(* The server, its other clients, and the analyst *)

Quiet == UNCHANGED <<pc, stage, left, found, ref, ids, tries, outcome>>

(* A new sample, and the job that indexes it. *)
Add(f, state) == /\ stored' = Append(stored, f)
                 /\ index' = Append(index, state)

(* A server with a gap shows a sample before its job. *)
NewJob == IF setup.gap THEN "none" ELSE "queued"

OtherUploads(f) ==
    /\ f \in setup.others /\ ~Stands(f)
    /\ Add(f, NewJob)
    /\ UNCHANGED <<setup, era, memo, late, sent, lost, caches, session, job,
                   answer>>
    /\ Quiet

(* The server gets what a visit sent before it gave up on the answer. *)
Arrives(v, f) ==
    /\ <<v, f>> \in late
    /\ late' = late \ {<<v, f>>}
    /\ IF Stands(f) THEN UNCHANGED <<stored, index>> ELSE Add(f, NewJob)
    /\ UNCHANGED <<setup, era, memo, sent, lost, caches, session, job, answer>>
    /\ Quiet

(* What MCRIT finds for a sample among those that are indexed. *)
Matches(to, among) ==
    [own |-> stored[to],
     of |-> [i \in {j \in among : index[j] = "done" /\ index[to] = "done"}
               |-> stored[i]]]

IndexJob(i) ==
    /\ \/ index[i] = "none" /\ index' = Put(index, i, "queued")
       \/ index[i] = "queued" /\ index' = Put(index, i, "done")
       \/ index[i] = "queued" /\ "to" \in setup.faults /\ index' = Put(index, i, "failed")
    /\ UNCHANGED <<setup, era, stored, memo, late, sent, lost, caches, session,
                   job, answer>>
    /\ Quiet

(* MatcherSample asks about one sample, MatcherVs about two. *)
Question(v) == <<ref[v].to, IF stage[v] = "query" THEN None ELSE ref[v].from>>

(* A match job ends: MatcherSample is against all samples; the answer of
   either is remembered. *)
MatchJob(v) ==
    /\ job[v] = "running"
    /\ \/ LET matches == Matches(ref[v].to, IF stage[v] = "query" THEN DOMAIN stored
                                           ELSE {ref[v].from})
          IN /\ job' = Put(job, v, "finished")
             /\ answer' = Put(answer, v, matches)
             /\ memo' = [k \in DOMAIN memo \cup {Question(v)} |->
                           IF k = Question(v) THEN matches ELSE memo[k]]
       \/ /\ stage[v] \in setup.faults
          /\ job' = Put(job, v, "failed") /\ UNCHANGED <<answer, memo>>
    /\ UNCHANGED <<setup, era, stored, index, late, sent, lost, caches, session>>
    /\ Quiet

JobsEnd == (\E i \in DOMAIN index : IndexJob(i)) \/ (\E v \in Visits : MatchJob(v))

(* The server starts anew, without its samples and jobs. *)
Reset ==
    /\ setup.resets /\ era = 0
    /\ era' = 1 /\ memo' = << >> /\ stored' = << >> /\ index' = << >>
    /\ job' = [v \in Visits |-> IF job[v] = None THEN None ELSE "failed"]
    /\ old' = {S(v) : v \in {w \in Visits : pc[w] # "idle"}}
    /\ UNCHANGED <<setup, late, sent, lost, caches, incoming, stopped, answer>>
    /\ Quiet

AddNode(s, f) ==
    /\ f \in setup.added \ ToSet(incoming[s])
    /\ incoming' = Put(incoming, s, Append(incoming[s], f))
    /\ UNCHANGED <<setup, server, caches, old, stopped, job, answer>> /\ Quiet

RequestStop(v) ==
    /\ v \in setup.stops \ stopped /\ pc[v] \notin {"idle", "done"}
    /\ stopped' = stopped \cup {v}
    /\ UNCHANGED <<setup, server, caches, incoming, old, job, answer>> /\ Quiet

-----------------------------------------------------------------------------
(* A visit *)

Goto(v, l) == pc' = Put(pc, v, l)
End(v, o) == Goto(v, "done") /\ outcome' = Put(outcome, v, o)

(* Seeded bug: the query is guarded, the samples before it are not. *)
BugShared(v) == stage[v] = "query"

(* _corpus_payload catches what goes wrong in it, and the edge is asked for
   by itself; elsewhere it ends the visit. *)
Shared(v) == stage[v] \in {"node", "query"}

GiveUp(v, o) ==
    /\ IF Shared(v)
       THEN Goto(v, "ask") /\ stage' = Put(stage, v, "vs") /\ UNCHANGED outcome
       ELSE End(v, o) /\ UNCHANGED stage
    /\ found' = Put(found, v, None) /\ tries' = Put(tries, v, 0)
    /\ job' = Put(job, v, None) /\ answer' = Put(answer, v, NoAnswer)
    /\ UNCHANGED <<left, ref, ids>>

Begin(v) ==
    /\ pc[v] = "idle" /\ From(v) \in ToSet(incoming[S(v)])
    /\ Goto(v, "want")
    /\ UNCHANGED <<setup, server, caches, session, stage, left, found, ref,
                   ids, tries, job, answer, outcome>>

(* Where a visit looks whether it is to stop: between its stages, before it
   builds, while it waits for another's build, and at each poll of a job. *)
Cancel(v) ==
    /\ v \in stopped
    /\ \/ pc[v] \in {"want", "match", "await", "matching"}
       \/ pc[v] = "ask" /\ stage[v] = "vs"
    /\ GiveUp(v, "stopped")
    /\ UNCHANGED <<setup, server, caches, session>>

(* Seeded bug: a node without a view is passed over. *)
BugViewGone(v) ==
    /\ pc[v] = "want" /\ stage[v] = "node" /\ "node" \in setup.faults
    /\ left' = Put(left, v, Tail(left[v]))
    /\ UNCHANGED <<setup, server, caches, session, pc, stage, found, ref, ids,
                   tries, job, answer, outcome>>

(* One of the node's views was closed, or its report cannot be exported. *)
ViewGone(v) ==
    /\ pc[v] = "want" /\ stage[v] = "node" /\ "node" \in setup.faults
    /\ GiveUp(v, "failed")
    /\ UNCHANGED <<setup, server, caches, session>>

-----------------------------------------------------------------------------
(* The samples *)

Wants(v) == pc[v] = "want" /\ stage[v] # "query" /\ v \notin stopped

(* The sample of File(v) is there: the next one, the next stage. *)
Have(v, id) ==
    /\ found' = Put(found, v, None)
    /\ UNCHANGED <<tries, job, answer, outcome>>
    /\ \/ /\ stage[v] = "from"
          /\ ref' = Put(ref, v, [from |-> id, to |-> None])
          /\ stage' = Put(stage, v, "to") /\ Goto(v, "want")
          /\ UNCHANGED <<left, ids>>
       \/ /\ stage[v] = "to"
          /\ ref' = Put(ref, v, [ref[v] EXCEPT !.to = id])
          /\ Goto(v, "match") /\ UNCHANGED <<stage, left, ids>>
       \/ /\ stage[v] = "node"
          /\ ids' = Put(ids, v, ids[v] \cup {id})
          /\ left' = Put(left, v, Tail(left[v]))
          /\ stage' = Put(stage, v,
                          IF Len(left[v]) = 1 THEN "query" ELSE "node")
          /\ Goto(v, "want") /\ UNCHANGED ref

HitSample(v) ==
    /\ Wants(v) /\ samples[S(v)][File(v)] # None
    /\ Have(v, samples[S(v)][File(v)])
    /\ UNCHANGED <<setup, server, caches, session>>

Ensuring == {"lookup", "jobs", "upload", "await"}

(* Seeded bug: an ensure_sample that fails leaves its claim behind. *)
BugBuilt(s, f) == \E w \in Visits : /\ S(w) = s /\ stage[w] # "query"
                                    /\ \/ pc[w] \in Ensuring
                                       \/ outcome[w] = "failed" /\ stage[w] = "to"
                                    /\ File(w) = f

(* Whether a visit is building the sample of a file for its session. *)
Built(s, f) ==
    \E w \in Visits : S(w) = s /\ pc[w] \in Ensuring /\ File(w) = f

ClaimSample(v) ==
    /\ Wants(v) /\ samples[S(v)][File(v)] = None /\ ~Built(S(v), File(v))
    /\ Goto(v, "lookup")
    /\ UNCHANGED <<setup, server, caches, session, stage, left, found, ref,
                   ids, tries, job, answer, outcome>>

(* ensure_sample: is it on the server, may it be uploaded? *)
LookUp(v) ==
    /\ pc[v] = "lookup" /\ (Stands(File(v)) \/ setup.persist)
    /\ IF Stands(File(v))
       THEN found' = Put(found, v, <<era, Id(File(v))>>) /\ Goto(v, "jobs")
       ELSE Goto(v, "upload") /\ UNCHANGED found
    /\ tries' = Put(tries, v, 0)
    /\ UNCHANGED <<setup, server, caches, session, stage, left, ref, ids, job,
                   answer, outcome>>

NotPersisted(v) ==
    /\ pc[v] = "lookup" /\ ~Stands(File(v)) /\ ~setup.persist
    /\ GiveUp(v, "failed")
    /\ UNCHANGED <<setup, server, caches, session>>

(* A read that gets no connection, or a gateway's answer, is repeated ... *)
ReadAgain(v) ==
    /\ pc[v] \in {"lookup", "jobs"} /\ stage[v] \in setup.faults
    /\ tries[v] + 1 < Attempts
    /\ tries' = Put(tries, v, tries[v] + 1)
    /\ UNCHANGED <<setup, server, caches, session, pc, stage, left, found, ref,
                   ids, job, answer, outcome>>

(* ... but not after the last attempt, and never one that timed out. *)
ReadFails(v) ==
    /\ pc[v] \in {"lookup", "jobs"} /\ stage[v] \in setup.faults
    /\ GiveUp(v, "failed")
    /\ UNCHANGED <<setup, server, caches, session>>

Keep(v) ==
    /\ samples' = [samples EXCEPT ![S(v)][File(v)] = found[v][2]]
    /\ Have(v, found[v][2])

JobState(v) == IF found[v][1] = era THEN index[found[v][2]] ELSE "missing"

(* pending_index_job: a queued job is waited for, a failed one is not. *)
PendingJob(v) ==
    /\ pc[v] = "jobs"
    /\ IF JobState(v) = "queued"
       THEN /\ Goto(v, "await") /\ tries' = Put(tries, v, 0)
            /\ UNCHANGED <<samples, found, ref, stage, left, ids, job, answer,
                           outcome>>
       ELSE Keep(v)
    /\ UNCHANGED <<setup, server, corpus, session>>

More(f, v) == [f EXCEPT ![S(v)][File(v)] = @ + 1]

(* What the server does with an upload, and the state of its job. *)
Receive(v, state) ==
    /\ sent' = More(sent, v)
    /\ IF Stands(File(v)) THEN UNCHANGED <<stored, index>>
       ELSE Add(File(v), state)

(* A sample that is there after all is treated as one that was found. *)
Upload(v) ==
    /\ pc[v] = "upload"
    /\ Receive(v, "queued")
    /\ IF Stands(File(v))
       THEN found' = Put(found, v, <<era, Id(File(v))>>) /\ Goto(v, "jobs")
       ELSE found' = Put(found, v, <<era, Len(stored) + 1>>) /\ Goto(v, "await")
    /\ UNCHANGED <<setup, era, memo, late, lost, caches, session, stage, left,
                   ref, ids, tries, job, answer, outcome>>

(* An answer that names no job: there is nothing to wait for. *)
UploadWithoutJob(v) ==
    /\ pc[v] = "upload" /\ setup.gap /\ ~Stands(File(v))
    /\ Receive(v, "none")
    /\ samples' = [samples EXCEPT ![S(v)][File(v)] = Len(stored) + 1]
    /\ Have(v, Len(stored) + 1)
    /\ UNCHANGED <<setup, era, memo, late, lost, corpus, session>>

(* Seeded bug: an upload without an answer is repeated like a read. *)
BugUploadLost(v) ==
    /\ pc[v] = "upload" /\ stage[v] \in setup.faults
    /\ tries[v] + 1 < Attempts
    /\ sent' = More(sent, v) /\ late' = late \cup {<<v, File(v)>>}
    /\ tries' = Put(tries, v, tries[v] + 1)
    /\ UNCHANGED <<setup, era, memo, lost, stored, index, caches, session, pc,
                   stage, left, found, ref, ids, job, answer, outcome>>

(* An upload that has no answer may arrive from now on; it is not repeated. *)
UploadLost(v) ==
    /\ pc[v] = "upload" /\ stage[v] \in setup.faults
    /\ sent' = More(sent, v) /\ lost' = More(lost, v)
    /\ late' = late \cup {<<v, File(v)>>}
    /\ GiveUp(v, "failed")
    /\ UNCHANGED <<setup, era, memo, stored, index, caches, session>>

Indexed(v) ==
    /\ pc[v] = "await" /\ JobState(v) = "done"
    /\ Keep(v)
    /\ UNCHANGED <<setup, server, corpus, session>>

IndexFailed(v) ==
    /\ pc[v] = "await" /\ JobState(v) \in {"failed", "missing"}
    /\ GiveUp(v, "failed")
    /\ UNCHANGED <<setup, server, caches, session>>

-----------------------------------------------------------------------------
(* The matches *)

(* _match_payload: one query for a node of several edges. *)
StartMatch(v) ==
    /\ pc[v] = "match" /\ v \notin stopped
    /\ IF setup.perNode /\ Len(incoming[S(v)]) > 1
       THEN /\ stage' = Put(stage, v, "node") /\ Goto(v, "want")
            /\ left' = Put(left, v, incoming[S(v)])
       ELSE /\ stage' = Put(stage, v, "vs") /\ Goto(v, "ask")
            /\ UNCHANGED left
    /\ UNCHANGED <<setup, server, caches, session, found, ref, ids, tries, job,
                   answer, outcome>>

(* Seeded bug: the query is cached for the node's sample alone. *)
BugKey(v) == <<ref[v].to>>

Key(v) == <<ref[v].to, ids[v]>>

Receives(v, a) ==
    /\ answer' = Put(answer, v, a)
    /\ job' = Put(job, v, None)
    /\ End(v, IF v \in stopped THEN "stopped" ELSE "answered")
    /\ UNCHANGED <<stage, left, found, ref, ids, tries>>

HitPayload(v) ==
    /\ pc[v] = "want" /\ stage[v] = "query"
    /\ Key(v) \in DOMAIN corpus
    /\ Receives(v, corpus[Key(v)])
    /\ UNCHANGED <<setup, server, caches, session>>

ClaimPayload(v) ==
    /\ pc[v] = "want" /\ stage[v] = "query" /\ v \notin stopped
    /\ Key(v) \notin DOMAIN corpus
    /\ \A w \in Visits : stage[w] = "query" /\ pc[w] \in {"ask", "matching"}
                            => Key(w) # Key(v)
    /\ Goto(v, "ask")
    /\ UNCHANGED <<setup, server, caches, session, stage, left, found, ref,
                   ids, tries, job, answer, outcome>>

(* MatcherSample and MatcherVs take the ids of samples the server has. *)
Known(v) == /\ ref[v].to \in DOMAIN stored
            /\ stage[v] = "vs" => ref[v].from \in DOMAIN stored

(* match_sample_vs and match_sample_corpus: the server computes an answer *)
Ask(v) ==
    /\ pc[v] = "ask" /\ (stage[v] = "vs" => v \notin stopped)
    /\ Known(v)
    /\ job' = Put(job, v, "running")
    /\ Goto(v, "matching")
    /\ UNCHANGED <<setup, server, caches, session, stage, left, found, ref,
                   ids, tries, answer, outcome>>

(* ... or hands back a job that it remembers; match_sample_corpus forbids it. *)
Recall(v) ==
    /\ pc[v] = "ask" /\ stage[v] = "vs" /\ v \notin stopped
    /\ Known(v) /\ setup.remembers /\ Question(v) \in DOMAIN memo
    /\ job' = Put(job, v, "finished")
    /\ answer' = Put(answer, v, memo[Question(v)])
    /\ Goto(v, "matching")
    /\ UNCHANGED <<setup, server, caches, session, stage, left, found, ref,
                   ids, tries, outcome>>

(* Not known, an error, or no answer: neither query is repeated. *)
AskFails(v) ==
    /\ pc[v] = "ask" /\ (stage[v] = "vs" => v \notin stopped)
    /\ ~Known(v) \/ stage[v] \in setup.faults
    /\ GiveUp(v, "failed")
    /\ UNCHANGED <<setup, server, caches, session>>

Matched(v) ==
    /\ pc[v] = "matching" /\ job[v] = "finished"
    /\ corpus' = IF stage[v] # "query" THEN corpus
                 ELSE [k \in DOMAIN corpus \cup {Key(v)} |->
                         IF k = Key(v) THEN answer[v] ELSE corpus[k]]
    /\ Receives(v, answer[v])
    /\ UNCHANGED <<setup, server, samples, session>>

MatchFails(v) ==
    /\ pc[v] = "matching" /\ job[v] = "failed"
    /\ GiveUp(v, "failed")
    /\ UNCHANGED <<setup, server, caches, session>>

Visit(v) ==
    \/ Cancel(v) \/ ViewGone(v) \/ HitSample(v) \/ ClaimSample(v) \/ LookUp(v)
    \/ NotPersisted(v) \/ ReadAgain(v) \/ ReadFails(v) \/ PendingJob(v)
    \/ Upload(v) \/ UploadWithoutJob(v) \/ UploadLost(v) \/ Indexed(v)
    \/ IndexFailed(v) \/ StartMatch(v) \/ HitPayload(v) \/ ClaimPayload(v)
    \/ Ask(v) \/ Recall(v) \/ AskFails(v) \/ Matched(v) \/ MatchFails(v)

Next == \/ \E v \in Visits : Visit(v) \/ Begin(v) \/ RequestStop(v)
        \/ JobsEnd \/ Reset
        \/ \E f \in Files : \/ OtherUploads(f)
                            \/ \E v \in Visits : Arrives(v, f)
                            \/ \E s \in Sessions : AddNode(s, f)

Spec == Init /\ [][Next]_vars

(* A visit's thread goes on, and its requests have a timeout. *)
FairSpec == Spec /\ \A v \in Visits : WF_vars(Visit(v))

-----------------------------------------------------------------------------
(* What must hold *)

(* The server gives ids in turn, to one file each, and what a visit awaits or
   holds fits where it is. *)
TypeOK ==
    /\ setup \in Setups /\ era \in 0..1
    /\ IsInjective(stored) /\ ToSet(stored) \subseteq Files
    /\ index \in [DOMAIN stored -> {"none", "queued", "done", "failed"}]
    /\ \A s \in Sessions : /\ IsInjective(incoming[s])
                           /\ samples[s] \in [Files -> Nat \cup {None}]
    /\ \A k \in DOMAIN corpus : k = <<k[1], k[2]>> /\ k[2] \subseteq Nat
    /\ late \subseteq Visits \X Files
    /\ old \subseteq Sessions /\ stopped \subseteq setup.stops
    /\ \A v \in Visits :
          /\ stage[v] \in Stages /\ tries[v] \in 0..(Attempts - 1)
          /\ pc[v] \in {"idle", "want", "match", "ask", "matching", "done"} \cup Ensuring
          /\ pc[v] \in {"jobs", "await"} <=> found[v] # None
          /\ pc[v] = "matching" <=> job[v] \in {"running", "finished", "failed"}
          /\ pc[v] = "done" <=> outcome[v] \in {"answered", "failed", "stopped"}
          /\ stage[v] = "node" => left[v] # << >>
          /\ stage[v] \in {"node", "query", "vs"} =>
                ref[v].from \in Nat /\ ref[v].to \in Nat

(* A file of the edge that the server could not index. *)
Unindexed(v) == \E i \in DOMAIN stored :
                   index[i] = "failed" /\ stored[i] \in {From(v), Target}

(* The answer a visit reads its matches from is one about the node's file
   and covers the other file of its edge, under the id the visit looks for:
   whoever uploaded the samples, however late they were indexed, whichever
   edge asked, and whatever files came to the node or the server since.
   After a reset of the server that holds for the sessions that began after
   it and ask for each edge alone, of a server that hands back no job an older
   session asked for; the samples' jobs must be as visible as the samples. *)
AnswerCoversTheEdge ==
    \A v \in Visits :
        (/\ outcome[v] = "answered" /\ ~setup.gap /\ ~Unindexed(v)
         /\ setup.resets => /\ S(v) \notin old
                            /\ ~setup.perNode /\ ~setup.remembers)
        => /\ answer[v].own = Target
           /\ ref[v].from \in DOMAIN answer[v].of
           /\ answer[v].of[ref[v].from] = From(v)

(* What goes wrong for one edge, or in the query that edges share, fails no
   other edge: a visit fails only where its own samples or its own query may
   fail, and is stopped only when it is asked to. *)
TroubleStaysPrivate ==
    \A v \in Visits :
        /\ outcome[v] = "failed" =>
              \/ setup.faults \cap {"from", "to", "vs"} # {} \/ setup.resets
              \/ ~setup.persist /\ ~({From(v), Target} \subseteq ToSet(setup.stored))
        /\ outcome[v] = "stopped" => v \in stopped

(* "A retried write could duplicate work": a session sends a file again only
   for each upload that it gave up on without an answer, though such uploads
   arrive late, visits are stopped before the indexing ends, and others want
   the file at the same time. *)
OnlyLostUploadsAreRepeated ==
    ~setup.resets =>
       \A s \in Sessions, f \in Files : sent[s][f] <= lost[s][f] + 1

(* When the server's jobs end, every visit does, though visits wait for each
   other's samples and queries; and a visit that is asked to stop ends even
   when they do not. *)
VisitsEnd ==
    \A v \in Visits :
        /\ WF_vars(JobsEnd) => (pc[v] # "idle" ~> pc[v] = "done")
        /\ v \in stopped ~> pc[v] = "done"
=============================================================================
