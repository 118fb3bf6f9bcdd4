------------------------- MODULE SampleQuery_proofs -------------------------
(***************************************************************************)
(* Proofs about SampleQuery, for any files, visits and sessions, under any *)
(* of the circumstances: stops, faults, other clients, a reset.            *)
(*                                                                         *)
(* Three invariants, each on top of the types and places of Base: Once, of *)
(* who builds and uploads; Sound, of what a visit and its session know and *)
(* what an answer covers; Kept, of ids, ends and what excuses a failure.   *)
(***************************************************************************)
EXTENDS SampleQuery, SequenceTheorems, TLAPS

(* Types: of the server and what the process shares, *)
ServerShapes ==
    /\ setup \in Setups /\ era \in Nat
    /\ ~setup.resets => era = 0
    /\ stored \in Seq(Files) /\ IsInjective(stored)
    /\ index \in [DOMAIN stored -> {"none", "queued", "done", "failed"}]
    /\ incoming \in [Sessions -> Seq(Files \ {Target})]
    /\ late \subseteq Visits \X Files
    /\ sent \in [Sessions -> [Files -> Nat]]
    /\ lost \in [Sessions -> [Files -> Nat]]
    /\ samples \in [Sessions -> [Files -> Nat \cup {None}]]

(* ... and of the visits. *)
VisitShapes ==
    /\ stage \in [Visits -> Stages]
    /\ left \in [Visits -> Seq(Files)]
    /\ found \in [Visits -> {None} \cup (Nat \X Nat)]
    /\ job \in [Visits -> {None, "running", "finished", "failed"}]
    /\ DOMAIN pc = Visits /\ DOMAIN ref = Visits /\ DOMAIN ids = Visits
    /\ \A v \in Visits : DOMAIN ref[v] = {"from", "to"}
    /\ DOMAIN answer = Visits /\ DOMAIN outcome = Visits

Shapes == ServerShapes /\ VisitShapes

(* The uploads that were not given up. *)
Due == [s \in Sessions |-> [f \in Files |-> sent[s][f] - lost[s][f]]]

(* Where a visit may be in each of its stages, and what it holds there. *)
At(v) ==
    /\ pc[v] \in {"idle", "want", "match", "ask", "matching", "done"}
                    \cup Ensuring
    /\ stage[v] = "from" => pc[v] \in {"idle", "want", "done"} \cup Ensuring
    /\ stage[v] = "to" => pc[v] \in {"want", "match", "done"} \cup Ensuring
    /\ stage[v] = "node" => pc[v] \in {"want"} \cup Ensuring
    /\ stage[v] = "query" => pc[v] \in {"want", "ask", "matching", "done"}
    /\ stage[v] = "vs" => pc[v] \in {"ask", "matching", "done"}
    /\ stage[v] = "node" => left[v] # << >>
    /\ stage[v] \in {"node", "query"} => setup.perNode
    /\ pc[v] \in {"jobs", "await"} <=> found[v] # None
    /\ pc[v] = "matching" <=> job[v] # None
    /\ outcome[v] = "answered" =>
          pc[v] = "done" /\ stage[v] \in {"query", "vs"}
    /\ pc[v] = "idle" => stage[v] = "from"
    /\ stage[v] \in {"from", "to"} => ids[v] = {}

Places == \A v \in Visits : At(v)

(* A step that leaves a visit as it is. *)
Same(v) ==
    /\ pc'[v] = pc[v] /\ stage'[v] = stage[v] /\ left'[v] = left[v]
    /\ found'[v] = found[v] /\ ref'[v] = ref[v] /\ ids'[v] = ids[v]
    /\ job'[v] = job[v] /\ answer'[v] = answer[v]
    /\ outcome'[v] = outcome[v]

OthersSame(v) == \A u \in Visits \ {v} : Same(u)

Base == Shapes /\ Places

-----------------------------------------------------------------------------
(* At first no visit has begun. *)
LEMMA InitBase == Init => Base
<1> SUFFICES ASSUME Init PROVE Base
  OBVIOUS
<1>1. Shapes
  BY SetupConstants DEF Init, Shapes, ServerShapes, VisitShapes, Stages
<1>2. Places
  BY QueryConstants DEF Init, Places, At, Ensuring
<1> QED
  BY <1>1, <1>2 DEF Base

(* The files of a stage. *)
LEMMA FileOf ==
    ASSUME NEW v
    PROVE  /\ stage[v] = "from" => File(v) = From(v)
           /\ stage[v] = "to" => File(v) = Target
           /\ stage[v] = "node" => File(v) = Head(left[v])
  BY DEF File

LEMMA FileType ==
    ASSUME Base, NEW v \in Visits, stage[v] \in {"from", "to", "node"}
    PROVE  File(v) \in Files /\ S(v) \in Sessions /\ From(v) \in Files
<1>1. From(v) \in Files /\ S(v) \in Sessions
  BY SetupConstants DEF Base, Shapes, ServerShapes, From, S
<1>2. stage[v] = "node" => Head(left[v]) \in Files
  BY DEF Base, Shapes, VisitShapes, Places, At
<1> QED
  BY <1>1, <1>2, FileOf, QueryConstants

(* What an upload adds to the server. *)
LEMMA Added ==
    ASSUME Base, NEW f \in Files, NEW x \in {"none", "queued"},
           ~Stands(f), Add(f, x)
    PROVE  /\ stored' \in Seq(Files) /\ IsInjective(stored')
           /\ index' \in [DOMAIN stored' -> {"none", "queued", "done", "failed"}]
           /\ DOMAIN stored' = DOMAIN stored \cup {Len(stored) + 1}
           /\ Len(stored) + 1 \notin DOMAIN stored
           /\ \A i \in DOMAIN stored : /\ stored'[i] = stored[i]
                                       /\ index'[i] = index[i]
           /\ stored'[Len(stored) + 1] = f
           /\ index'[Len(stored) + 1] = x
<1>1. /\ stored \in Seq(Files) /\ stored' = Append(stored, f)
      /\ index \in [1..Len(stored) -> {"none", "queued", "done", "failed"}]
      /\ DOMAIN stored = 1..Len(stored)
      /\ index' = Append(index, x)
  BY DEF Base, Shapes, ServerShapes, Add
<1>2. /\ stored' \in Seq(Files)
      /\ DOMAIN stored' = 1..(Len(stored) + 1)
      /\ \A i \in 1..Len(stored) : stored'[i] = stored[i]
      /\ stored'[Len(stored) + 1] = f
  BY <1>1
<1>3. /\ index \in Seq({"none", "queued", "done", "failed"})
      /\ Len(index) = Len(stored)
  BY <1>1, SeqDef
<1>4. /\ index' \in [1..(Len(stored) + 1) ->
                       {"none", "queued", "done", "failed"}]
      /\ \A i \in 1..Len(stored) : index'[i] = index[i]
      /\ index'[Len(stored) + 1] = x
  <2>1. /\ index' \in Seq({"none", "queued", "done", "failed"})
        /\ Len(index') = Len(stored) + 1
        /\ \A i \in 1..Len(stored) : index'[i] = index[i]
        /\ index'[Len(stored) + 1] = x
    BY <1>1, <1>3, AppendProperties
  <2>2. index' \in [1..Len(index') -> {"none", "queued", "done", "failed"}]
    BY <2>1
  <2> QED
    BY <2>1, <2>2
<1>5. IsInjective(stored')
  <2>1. IsInjective(stored) /\ \A i \in 1..Len(stored) : stored[i] # f
    BY <1>1 DEF Base, Shapes, ServerShapes, Stands, ToSet
  <2> QED
    BY <1>1, <1>2, <2>1 DEF IsInjective
<1> QED
  BY <1>1, <1>2, <1>4, <1>5
-----------------------------------------------------------------------------
(* How a visit goes on: the three ways that several actions end in *)

LEMMA PlacesOf ==
    ASSUME Places, NEW v \in Visits, At(v)', OthersSame(v), setup' = setup
    PROVE  Places'
  BY DEF Places, At, OthersSame, Same

LEMMA Shorter ==
    ASSUME NEW T, NEW q \in Seq(T), q # << >>
    PROVE  /\ Tail(q) \in Seq(T) /\ Head(q) \in T
           /\ Len(q) # 1 => Tail(q) # << >>
           /\ Len(q) = 1 => ToSet(Tail(q)) = {}
           /\ ToSet(q) = {Head(q)} \cup ToSet(Tail(q))
<1>1. /\ Len(q) \in Nat \ {0} /\ DOMAIN q = 1..Len(q)
      /\ Tail(q) \in Seq(T) /\ Len(Tail(q)) = Len(q) - 1
      /\ Head(q) = q[1] /\ Head(q) \in T
      /\ \A i \in 1..(Len(q) - 1) : Tail(q)[i] = q[i + 1]
      /\ DOMAIN Tail(q) = 1..(Len(q) - 1)
  <2>1. /\ Head(q) \in T /\ Tail(q) \in Seq(T) /\ Len(Tail(q)) = Len(q) - 1
        /\ \A i \in 1..Len(Tail(q)) : Tail(q)[i] = q[i + 1]
    BY HeadTailProperties
  <2>2. Len(q) \in Nat \ {0} /\ DOMAIN q = 1..Len(q) /\ Head(q) = q[1]
    OBVIOUS
  <2>3. DOMAIN Tail(q) = 1..Len(Tail(q))
    BY <2>1
  <2> QED
    BY <2>1, <2>2, <2>3
<1>2. \A i \in 1..Len(q) : i = 1 \/ (i - 1 \in 1..(Len(q) - 1) /\ q[i] = Tail(q)[i - 1])
  BY <1>1
<1>3. ToSet(q) \subseteq {Head(q)} \cup ToSet(Tail(q))
  <2>1. ASSUME NEW i \in 1..Len(q)
        PROVE  q[i] \in {Head(q)} \cup {Tail(q)[j] : j \in 1..(Len(q) - 1)}
    BY <1>1, <1>2
  <2> QED
    BY <1>1, <2>1 DEF ToSet
<1>4. ToSet(Tail(q)) \subseteq ToSet(q) /\ Head(q) \in ToSet(q)
  <2>1. \A i \in 1..(Len(q) - 1) : i + 1 \in 1..Len(q) /\ 1 \in 1..Len(q)
    BY <1>1
  <2> QED
    BY <1>1, <2>1 DEF ToSet
<1>5. Len(q) # 1 => Tail(q) # << >>
  <2>1. Len(<< >>) = 0
    OBVIOUS
  <2>2. Len(q) # 1 => Len(Tail(q)) # 0
    BY <1>1
  <2> QED
    BY <2>1, <2>2
<1>6. Len(q) = 1 => ToSet(Tail(q)) = {}
  <2>1. Len(q) = 1 => DOMAIN Tail(q) = {}
    BY <1>1
  <2> QED
    BY <2>1 DEF ToSet
<1> QED
  BY <1>1, <1>3, <1>4, <1>5, <1>6

(* A visit that gives up what it is at is at its end, or asks alone. *)
LEMMA GaveUp ==
    ASSUME Base, NEW v \in Visits, NEW o, o # "answered", GiveUp(v, o),
           pc[v] \notin {"idle", "done"}, setup' = setup
    PROVE  VisitShapes' /\ At(v)' /\ OthersSame(v)
<1> USE QueryConstants DEF Base, Shapes, VisitShapes, Goto, Put, End
<1>1. /\ found' = [found EXCEPT ![v] = None]
      /\ job' = [job EXCEPT ![v] = None]
      /\ answer' = [answer EXCEPT ![v] = NoAnswer]
      /\ UNCHANGED <<left, ref, ids>>
      /\ \/ /\ Shared(v) /\ pc' = [pc EXCEPT ![v] = "ask"]
            /\ stage' = [stage EXCEPT ![v] = "vs"] /\ UNCHANGED outcome
         \/ /\ ~Shared(v) /\ pc' = [pc EXCEPT ![v] = "done"]
            /\ outcome' = [outcome EXCEPT ![v] = o] /\ UNCHANGED stage
  BY DEF GiveUp
<1>2. VisitShapes'
  BY <1>1 DEF Stages
<1>3. At(v)'
  BY <1>1 DEF Places, At, Shared, Ensuring, Stages
<1>4. OthersSame(v)
  BY <1>1 DEF OthersSame, Same
<1> QED
  BY <1>2, <1>3, <1>4

(* A visit that has a sample wants the next, or goes to the matches. *)
LEMMA HasSample ==
    ASSUME Base, NEW v \in Visits, NEW id, Have(v, id), setup' = setup,
           stage[v] \in {"from", "to", "node"},
           pc[v] \in {"want"} \cup Ensuring
    PROVE  VisitShapes' /\ At(v)' /\ OthersSame(v)
<1> USE QueryConstants DEF Base, Shapes, VisitShapes, Have, Goto, Put
<1>1. /\ At(v) /\ found' = [found EXCEPT ![v] = None]
      /\ UNCHANGED <<job, answer, outcome>>
  BY DEF Places
<1>2. CASE /\ stage[v] = "from"
           /\ ref' = [ref EXCEPT ![v] = [from |-> id, to |-> None]]
           /\ stage' = [stage EXCEPT ![v] = "to"]
           /\ pc' = [pc EXCEPT ![v] = "want"]
           /\ UNCHANGED <<left, ids>>
  <2>1. VisitShapes' /\ OthersSame(v)
    BY <1>1, <1>2 DEF OthersSame, Same, Stages
  <2> QED
    BY <1>1, <1>2, <2>1 DEF At, Ensuring, Stages
<1>3. CASE /\ stage[v] = "to"
           /\ ref' = [ref EXCEPT ![v] = [ref[v] EXCEPT !.to = id]]
           /\ pc' = [pc EXCEPT ![v] = "match"]
           /\ UNCHANGED <<stage, left, ids>>
  <2>1. VisitShapes' /\ OthersSame(v)
    BY <1>1, <1>3 DEF OthersSame, Same, Stages
  <2> QED
    BY <1>1, <1>3, <2>1 DEF At, Ensuring, Stages
<1>4. CASE /\ stage[v] = "node"
           /\ ids' = [ids EXCEPT ![v] = ids[v] \cup {id}]
           /\ left' = [left EXCEPT ![v] = Tail(left[v])]
           /\ stage' = [stage EXCEPT ![v] =
                          IF Len(left[v]) = 1 THEN "query" ELSE "node"]
           /\ pc' = [pc EXCEPT ![v] = "want"] /\ UNCHANGED ref
  <2>1. left[v] \in Seq(Files) /\ left[v] # << >>
    BY <1>1, <1>4 DEF At
  <2>2. /\ Tail(left[v]) \in Seq(Files)
        /\ Len(left[v]) # 1 => Tail(left[v]) # << >>
    BY <2>1, Shorter
  <2>3. VisitShapes' /\ OthersSame(v)
    BY <1>1, <1>4, <2>2 DEF OthersSame, Same, Stages
  <2> QED
    BY <1>1, <1>4, <2>2, <2>3 DEF At, Ensuring, Stages
<1> QED
  BY <1>2, <1>3, <1>4

(* A visit that receives an answer is at its end. *)
LEMMA Answered ==
    ASSUME Base, NEW v \in Visits, NEW a, Receives(v, a), setup' = setup,
           stage[v] \in {"query", "vs"}, found[v] = None
    PROVE  VisitShapes' /\ At(v)' /\ OthersSame(v)
  BY QueryConstants
     DEF Base, Shapes, VisitShapes, Receives, End, Goto, Put, Places, At,
         OthersSame, Same, Ensuring

-----------------------------------------------------------------------------
(* What every step of a visit does: it leaves the other visits as they are;
   it builds a sample that nobody of its session builds; and it uploads a
   file that is missing, once. *)
Grows == \A f \in Files : Stands(f) => Stands(f)'

OneMoreDue(v) ==
    \A s \in Sessions, f \in Files :
       Due'[s][f] = IF s = S(v) /\ f = File(v) THEN Due[s][f] + 1 ELSE Due[s][f]

Moves(v) ==
    /\ Shapes' /\ At(v)' /\ OthersSame(v) /\ setup' = setup
    /\ pc'[v] \in Ensuring =>
          /\ stage'[v] = stage[v] /\ left'[v] = left[v]
          /\ pc[v] \in Ensuring \/ ~Built(S(v), File(v))
    /\ pc'[v] = "upload" => ~Stands(File(v)) /\ Due' = Due
    /\ \/ Due' = Due
       \/ /\ pc[v] = "upload" /\ OneMoreDue(v) /\ File(v) \in ToSet(stored')
          /\ pc'[v] # "upload"
    /\ memo' = memo /\ Grows

(* A step that leaves the server as it is. *)
LEMMA ServerSame ==
    ASSUME Base, setup' = setup, UNCHANGED <<server, session>>,
           samples' \in [Sessions -> [Files -> Nat \cup {None}]]
    PROVE  ServerShapes' /\ Grows /\ Due' = Due /\ memo' = memo
  BY DEF Base, Shapes, ServerShapes, server, session, Grows, Stands, Due

LEMMA GivesUp ==
    ASSUME Base, NEW v \in Visits, NEW o, o # "answered", GiveUp(v, o),
           pc[v] \notin {"idle", "done"},
           UNCHANGED <<setup, server, caches, session>>
    PROVE  Moves(v)
<1>1. VisitShapes' /\ At(v)' /\ OthersSame(v) /\ setup' = setup
  BY GaveUp
<1>2. samples' \in [Sessions -> [Files -> Nat \cup {None}]]
  BY DEF Base, Shapes, ServerShapes, caches
<1>3. ServerShapes' /\ Grows /\ Due' = Due /\ memo' = memo
  BY <1>2, ServerSame
<1>4. pc'[v] \notin Ensuring
  BY DEF GiveUp, Goto, End, Put, Ensuring, Base, Shapes, VisitShapes
<1> QED
  BY <1>1, <1>3, <1>4 DEF Moves, Shapes, Ensuring

LEMMA Finds ==
    ASSUME Base, NEW v \in Visits, NEW id \in Nat, Have(v, id),
           stage[v] \in {"from", "to", "node"},
           pc[v] \in {"want"} \cup Ensuring,
           UNCHANGED <<setup, server, session>>,
           samples' \in [Sessions -> [Files -> Nat \cup {None}]]
    PROVE  Moves(v)
<1>1. VisitShapes' /\ At(v)' /\ OthersSame(v)
  BY HasSample
<1>2. ServerShapes' /\ Grows /\ Due' = Due /\ memo' = memo
  BY ServerSame
<1>3. pc'[v] \notin Ensuring
  BY DEF Have, Goto, Put, Ensuring, Base, Shapes, VisitShapes
<1> QED
  BY <1>1, <1>2, <1>3 DEF Moves, Shapes, Ensuring

LEMMA IsAnswered ==
    ASSUME Base, NEW v \in Visits, NEW a, Receives(v, a),
           stage[v] \in {"query", "vs"}, found[v] = None,
           UNCHANGED <<setup, server, samples, session>>
    PROVE  Moves(v)
<1>1. VisitShapes' /\ At(v)' /\ OthersSame(v)
  BY Answered
<1>2. ServerShapes' /\ Grows /\ Due' = Due /\ memo' = memo
  BY ServerSame DEF Base, Shapes, ServerShapes
<1>3. pc'[v] \notin Ensuring
  BY DEF Receives, Goto, End, Put, Ensuring, Base, Shapes, VisitShapes
<1> QED
  BY <1>1, <1>2, <1>3 DEF Moves, Shapes, Ensuring

(* The steps that only move a visit on. *)
LEMMA MovesOn ==
    ASSUME Base, NEW v \in Visits,
           \/ Begin(v) \/ ClaimSample(v) \/ LookUp(v) \/ ReadAgain(v)
           \/ StartMatch(v) \/ ClaimPayload(v) \/ Ask(v) \/ Recall(v)
    PROVE  Moves(v)
<1> USE QueryConstants DEF Base, Shapes, VisitShapes, Goto, Put
<1>1. UNCHANGED <<setup, server, caches, session>>
  BY DEF Begin, ClaimSample, LookUp, ReadAgain, StartMatch, ClaimPayload, Ask,
         Recall
<1>2. ServerShapes' /\ Grows /\ Due' = Due /\ memo' = memo
  BY <1>1, ServerSame DEF ServerShapes, caches
<1>3. At(v)
  BY DEF Places
<1>4. CASE Begin(v)
  BY <1>1, <1>2, <1>3, <1>4
     DEF Begin, Moves, OthersSame, Same, At, Ensuring
<1>5. CASE ClaimSample(v)
  <2>1. VisitShapes' /\ OthersSame(v) /\ At(v)'
    BY <1>1, <1>3, <1>5 DEF ClaimSample, Wants, OthersSame, Same, At, Ensuring, Stages
  <2> QED
    BY <1>1, <1>2, <1>5, <2>1 DEF ClaimSample, Moves, Ensuring
<1>6. CASE LookUp(v)
  <2>1. era \in Nat /\ stage[v] \in {"from", "to", "node"} /\ File(v) \in Files
    BY <1>3, <1>6, FileType DEF LookUp, At, Ensuring, Stages, ServerShapes
  <2>2. Stands(File(v)) => <<era, Id(File(v))>> \in Nat \X Nat
    <3>1. Stands(File(v)) => Id(File(v)) \in DOMAIN stored
      BY DEF Stands, Id, ToSet
    <3> QED
      BY <2>1, <3>1 DEF ServerShapes
  <2>3. VisitShapes' /\ OthersSame(v)
    <3>1. PICK l \in {"jobs", "upload"} : pc' = [pc EXCEPT ![v] = l]
      BY <1>6 DEF LookUp
    <3>2. PICK x \in {None} \cup (Nat \X Nat) : found' = [found EXCEPT ![v] = x]
      <4>1. \/ found' = found
            \/ found' = [found EXCEPT ![v] = <<era, Id(File(v))>>] /\ Stands(File(v))
        BY <1>6 DEF LookUp
      <4>2. found = [found EXCEPT ![v] = found[v]]
        OBVIOUS
      <4> QED
        BY <2>2, <4>1, <4>2
    <3>3. UNCHANGED <<stage, left, ref, ids, job, answer, outcome>>
      BY <1>6 DEF LookUp
    <3> QED
      BY <3>1, <3>2, <3>3 DEF OthersSame, Same
  <2>4. At(v)'
    BY <1>1, <1>3, <1>6, <2>1, <2>2 DEF LookUp, At, Ensuring
  <2> QED
    BY <1>1, <1>2, <1>6, <2>3, <2>4 DEF LookUp, Moves, Ensuring
<1>7. CASE ReadAgain(v)
  BY <1>1, <1>2, <1>3, <1>7
     DEF ReadAgain, Moves, OthersSame, Same, At, Ensuring
<1>8. CASE StartMatch(v)
  <2>1. /\ incoming[S(v)] \in Seq(Files)
        /\ Len(incoming[S(v)]) > 1 => incoming[S(v)] # << >>
    <3>1. S(v) \in Sessions
      BY SetupConstants DEF ServerShapes, S
    <3>2. incoming[S(v)] \in Seq(Files \ {Target})
      BY <3>1 DEF ServerShapes
    <3>3. Len(<< >>) = 0
      OBVIOUS
    <3> QED
      BY <3>2, <3>3, SeqDef
  <2>2. VisitShapes' /\ OthersSame(v)
    BY <1>1, <1>8, <2>1 DEF StartMatch, OthersSame, Same, Stages
  <2>3. At(v)'
    BY <1>1, <1>3, <1>8, <2>1 DEF StartMatch, At, Ensuring, Stages
  <2> QED
    BY <1>1, <1>2, <1>8, <2>2, <2>3 DEF StartMatch, Moves, Ensuring
<1>9. CASE ClaimPayload(v)
  <2>1. VisitShapes' /\ OthersSame(v) /\ At(v)'
    BY <1>1, <1>3, <1>9 DEF ClaimPayload, OthersSame, Same, At, Ensuring
  <2> QED
    BY <1>1, <1>2, <1>9, <2>1 DEF ClaimPayload, Moves, Ensuring
<1>10. CASE Ask(v)
  <2>1. VisitShapes' /\ OthersSame(v)
    BY <1>1, <1>3, <1>10 DEF Ask, OthersSame, Same
  <2>2. At(v)'
    BY <1>1, <1>3, <1>10 DEF Ask, At, Ensuring
  <2> QED
    BY <1>1, <1>2, <1>10, <2>1, <2>2 DEF Ask, Moves, Ensuring
<1>11. CASE Recall(v)
  <2>1. VisitShapes' /\ OthersSame(v)
    BY <1>1, <1>3, <1>11 DEF Recall, OthersSame, Same
  <2>2. At(v)'
    BY <1>1, <1>3, <1>11 DEF Recall, At, Ensuring
  <2> QED
    BY <1>1, <1>2, <1>11, <2>1, <2>2 DEF Recall, Moves, Ensuring
<1> QED
  BY <1>4, <1>5, <1>6, <1>7, <1>8, <1>9, <1>10, <1>11

(* The steps in which a visit gives up. *)
LEMMA GivingUp ==
    ASSUME Base, NEW v \in Visits,
           \/ Cancel(v) \/ ViewGone(v) \/ NotPersisted(v) \/ ReadFails(v)
           \/ IndexFailed(v) \/ AskFails(v) \/ MatchFails(v)
    PROVE  Moves(v)
<1>1. UNCHANGED <<setup, server, caches, session>>
  BY DEF Cancel, ViewGone, NotPersisted, ReadFails, IndexFailed, AskFails,
         MatchFails
<1>2. pc[v] \notin {"idle", "done"}
  BY DEF Cancel, ViewGone, NotPersisted, ReadFails, IndexFailed, AskFails,
         MatchFails
<1>3. GiveUp(v, "stopped") \/ GiveUp(v, "failed")
  BY DEF Cancel, ViewGone, NotPersisted, ReadFails, IndexFailed, AskFails,
         MatchFails
<1> QED
  BY <1>1, <1>2, <1>3, GivesUp

(* A sample that the session has, or that the server has indexed. *)
LEMMA FoundId ==
    ASSUME Base, NEW v \in Visits, pc[v] \in {"jobs", "await"}
    PROVE  /\ found[v][2] \in Nat /\ stage[v] \in {"from", "to", "node"}
           /\ [samples EXCEPT ![S(v)][File(v)] = found[v][2]]
                 \in [Sessions -> [Files -> Nat \cup {None}]]
<1>1. found[v] \in Nat \X Nat /\ stage[v] \in {"from", "to", "node"}
  BY DEF Base, Shapes, VisitShapes, Places, At, Ensuring, Stages
<1>2. File(v) \in Files /\ S(v) \in Sessions /\ found[v][2] \in Nat
  BY <1>1, FileType
<1> QED
  BY <1>1, <1>2 DEF Base, Shapes, ServerShapes

LEMMA Finding ==
    ASSUME Base, NEW v \in Visits,
           HitSample(v) \/ PendingJob(v) \/ Indexed(v)
    PROVE  Moves(v)
<1> USE DEF Base, Shapes
<1>1. CASE HitSample(v)
  <2>1. stage[v] \in {"from", "to", "node"} /\ pc[v] = "want"
    BY <1>1 DEF HitSample, Wants, Places, At, VisitShapes, Stages, Ensuring
  <2>2. samples[S(v)][File(v)] \in Nat
    BY <1>1, <2>1, FileType DEF HitSample, ServerShapes
  <2>3. /\ UNCHANGED <<setup, server, session>>
        /\ samples' \in [Sessions -> [Files -> Nat \cup {None}]]
    BY <1>1 DEF HitSample, ServerShapes, caches
  <2> QED
    BY <1>1, <2>1, <2>2, <2>3, Finds DEF HitSample
<1>2. ASSUME pc[v] \in {"jobs", "await"}, Keep(v),
             UNCHANGED <<setup, server, corpus, session>>
      PROVE  Moves(v)
  BY <1>2, FoundId, Finds DEF Keep, Ensuring
<1>3. CASE PendingJob(v) /\ JobState(v) = "queued"
  <2>1. /\ UNCHANGED <<setup, server, caches, session>>
        /\ pc[v] = "jobs" /\ pc' = [pc EXCEPT ![v] = "await"]
        /\ UNCHANGED <<found, ref, stage, left, ids, job, answer, outcome>>
    BY <1>3 DEF PendingJob, Goto, Put, caches
  <2>2. ServerShapes' /\ Grows /\ Due' = Due /\ memo' = memo
    BY <2>1, ServerSame DEF ServerShapes, caches
  <2>3. VisitShapes' /\ OthersSame(v)
    BY <2>1 DEF VisitShapes, OthersSame, Same
  <2>4. At(v)'
    BY <2>1 DEF VisitShapes, Places, At, Ensuring
  <2> QED
    BY <2>1, <2>2, <2>3, <2>4 DEF Moves, Ensuring
<1>4. CASE PendingJob(v) /\ JobState(v) # "queued"
  BY <1>2, <1>4 DEF PendingJob
<1>5. CASE Indexed(v)
  BY <1>2, <1>5 DEF Indexed
<1> QED
  BY <1>1, <1>3, <1>4, <1>5

(* The steps in which a visit is answered. *)
LEMMA GettingAnswers ==
    ASSUME Base, NEW v \in Visits, HitPayload(v) \/ Matched(v)
    PROVE  Moves(v)
<1>1. At(v)
  BY DEF Base, Places
<1>2. CASE HitPayload(v)
  <2>1. /\ Receives(v, corpus[Key(v)]) /\ stage[v] = "query"
        /\ UNCHANGED <<setup, server, samples, session>>
    BY <1>2 DEF HitPayload, caches
  <2>2. found[v] = None
    BY <1>1, <1>2 DEF HitPayload, At
  <2> QED
    BY <2>1, <2>2, IsAnswered
<1>3. CASE Matched(v)
  <2>1. /\ Receives(v, answer[v])
        /\ UNCHANGED <<setup, server, samples, session>>
    BY <1>3 DEF Matched
  <2>2. found[v] = None /\ stage[v] \in {"query", "vs"}
    BY <1>1, <1>3 DEF Matched, At, Ensuring, Base, Shapes, VisitShapes, Stages
  <2> QED
    BY <2>1, <2>2, IsAnswered
<1> QED
  BY <1>2, <1>3

(* What a server does with an upload. *)
LEMMA Received ==
    ASSUME Base, NEW v \in Visits, pc[v] = "upload",
           NEW x \in {"none", "queued"}, Receive(v, x),
           UNCHANGED <<setup, era, memo, late, lost, session>>,
           samples' \in [Sessions -> [Files -> Nat \cup {None}]]
    PROVE  /\ ServerShapes' /\ Grows /\ File(v) \in ToSet(stored')
           /\ OneMoreDue(v)
           /\ Stands(File(v)) => Id(File(v)) \in Nat
           /\ ~Stands(File(v)) => Len(stored) + 1 \in Nat
<1>1. /\ File(v) \in Files /\ S(v) \in Sessions
      /\ stage[v] \in {"from", "to", "node"}
  BY FileType DEF Base, Shapes, VisitShapes, Places, At, Ensuring, Stages
<1>2. sent' \in [Sessions -> [Files -> Nat]]
  BY <1>1 DEF Receive, More, Base, Shapes, ServerShapes
<1>5. OneMoreDue(v)
  <2>1. /\ sent \in [Sessions -> [Files -> Nat]] /\ lost \in [Sessions -> [Files -> Nat]]
        /\ sent' = [sent EXCEPT ![S(v)][File(v)] = @ + 1] /\ lost' = lost
    BY DEF Receive, More, Base, Shapes, ServerShapes
  <2>2. \A s \in Sessions, f \in Files :
           /\ sent[s][f] \in Nat /\ lost[s][f] \in Nat
           /\ sent'[s][f] = IF s = S(v) /\ f = File(v)
                           THEN sent[s][f] + 1 ELSE sent[s][f]
    BY <1>1, <2>1
  <2>3. \A s \in Sessions, f \in Files :
           /\ Due[s][f] = sent[s][f] - lost[s][f]
           /\ Due'[s][f] = sent'[s][f] - lost[s][f]
    BY <2>1 DEF Due
  <2>4. ASSUME NEW s \in Sessions, NEW f \in Files
        PROVE  Due'[s][f] = IF s = S(v) /\ f = File(v)
                            THEN Due[s][f] + 1 ELSE Due[s][f]
    <3>1. sent[s][f] \in Nat /\ lost[s][f] \in Nat
      BY <2>2
    <3>2. CASE s = S(v) /\ f = File(v)
      <4>1. Due'[s][f] = (sent[s][f] + 1) - lost[s][f]
        BY <2>2, <2>3, <3>2
      <4>2. Due[s][f] = sent[s][f] - lost[s][f]
        BY <2>3
      <4> QED
        BY <3>1, <3>2, <4>1, <4>2
    <3>3. CASE ~(s = S(v) /\ f = File(v))
      BY <2>2, <2>3, <3>3
    <3> QED
      BY <3>2, <3>3
  <2> QED
    BY <2>4 DEF OneMoreDue
<1>3. CASE Stands(File(v))
  <2>1. UNCHANGED <<stored, index>>
    BY <1>3 DEF Receive
  <2>2. Id(File(v)) \in DOMAIN stored
    BY <1>3 DEF Stands, Id, ToSet
  <2>3. Id(File(v)) \in Nat
    BY <2>2 DEF Base, Shapes, ServerShapes
  <2>4. ServerShapes'
    BY <1>2, <2>1 DEF Base, Shapes, ServerShapes, session
  <2>5. Grows
    BY <2>1 DEF Grows, Stands
  <2> QED
    BY <1>1, <1>3, <1>5, <2>3, <2>4, <2>5 DEF Grows, Stands
<1>4. CASE ~Stands(File(v))
  <2> DEFINE f == File(v)
  <2>1. Add(f, x)
    BY <1>4 DEF Receive
  <2>2. /\ stored' \in Seq(Files) /\ IsInjective(stored')
        /\ index' \in [DOMAIN stored' -> {"none", "queued", "done", "failed"}]
        /\ DOMAIN stored' = DOMAIN stored \cup {Len(stored) + 1}
        /\ \A i \in DOMAIN stored : stored'[i] = stored[i]
        /\ stored'[Len(stored) + 1] = f
    <3> HIDE DEF f
    <3> QED
      BY <1>1, <1>4, <2>1, Added DEF f
  <2>3. ServerShapes'
    BY <1>2, <2>2 DEF Base, Shapes, ServerShapes, session
  <2>4. Grows /\ f \in ToSet(stored')
    BY <2>2 DEF Grows, Stands, ToSet
  <2>5. Len(stored) + 1 \in Nat
    BY DEF Base, Shapes, ServerShapes
  <2> QED
    BY <1>4, <1>5, <2>3, <2>4, <2>5
<1> QED
  BY <1>3, <1>4

(* The uploads. *)
LEMMA Uploading ==
    ASSUME Base, NEW v \in Visits,
           Upload(v) \/ UploadWithoutJob(v) \/ UploadLost(v)
    PROVE  Moves(v)
<1>1. pc[v] = "upload" /\ UNCHANGED <<setup, era, memo, session>>
  BY DEF Upload, UploadWithoutJob, UploadLost
<1>2. CASE Upload(v)
  <2>1. /\ Receive(v, "queued") /\ pc'[v] \in {"jobs", "await"}
        /\ UNCHANGED <<late, lost, samples>>
        /\ UNCHANGED <<stage, left, ref, ids, job, answer, outcome>>
    BY <1>2 DEF Upload, Goto, Put, Base, Shapes, VisitShapes, caches
  <2>2. /\ ServerShapes' /\ Grows /\ File(v) \in ToSet(stored')
        /\ OneMoreDue(v)
        /\ Stands(File(v)) => Id(File(v)) \in Nat
        /\ ~Stands(File(v)) => Len(stored) + 1 \in Nat
    BY <1>1, <2>1, Received DEF Base, Shapes, ServerShapes
  <2>3. PICK x \in Nat \X Nat : found' = [found EXCEPT ![v] = x]
    <3>1. era \in Nat
      BY DEF Base, Shapes, ServerShapes
    <3> QED
      BY <1>2, <2>2, <3>1 DEF Upload, Put
  <2>4. PICK l \in {"jobs", "await"} : pc' = [pc EXCEPT ![v] = l]
    BY <1>2 DEF Upload, Goto, Put
  <2>5. VisitShapes' /\ OthersSame(v)
    BY <2>1, <2>3, <2>4 DEF Base, Shapes, VisitShapes, OthersSame, Same
  <2>6. At(v)'
    <3>1. x # None
      BY QueryConstants
    <3> QED
      BY <1>1, <2>1, <2>3, <2>4, <3>1
         DEF Base, Shapes, VisitShapes, Places, At, Ensuring
  <2> QED
    BY <1>1, <2>1, <2>2, <2>5, <2>6 DEF Moves, Shapes, Ensuring
<1>3. CASE UploadLost(v)
  <2>1. GiveUp(v, "failed") /\ pc[v] \notin {"idle", "done"} /\ setup' = setup
    BY <1>1, <1>3 DEF UploadLost
  <2>2. VisitShapes' /\ At(v)' /\ OthersSame(v)
    BY <2>1, GaveUp
  <2>3. pc'[v] \notin Ensuring
    BY <2>1 DEF GiveUp, Goto, End, Put, Ensuring, Base, Shapes, VisitShapes
  <2>4. ServerShapes' /\ Grows /\ Due' = Due
    <3>1. File(v) \in Files /\ S(v) \in Sessions
      BY <1>1, FileType DEF Base, Shapes, VisitShapes, Places, At, Ensuring, Stages
    <3>2. /\ UNCHANGED <<setup, era, stored, index, samples, incoming>>
          /\ sent' = [sent EXCEPT ![S(v)][File(v)] = @ + 1]
          /\ lost' = [lost EXCEPT ![S(v)][File(v)] = @ + 1]
          /\ late' = late \cup {<<v, File(v)>>}
      BY <1>3 DEF UploadLost, More, caches, session
    <3>3. ServerShapes' /\ Grows
      BY <3>1, <3>2 DEF Base, Shapes, ServerShapes, Grows, Stands
    <3>4. \A s \in Sessions, f \in Files :
             sent'[s][f] - lost'[s][f] = sent[s][f] - lost[s][f]
      BY <3>1, <3>2 DEF Base, Shapes, ServerShapes
    <3> QED
      BY <3>3, <3>4 DEF Due
  <2> QED
    BY <1>1, <2>1, <2>2, <2>3, <2>4 DEF Moves, Shapes, Ensuring
<1>4. CASE UploadWithoutJob(v)
  <2>1. /\ Receive(v, "none") /\ Have(v, Len(stored) + 1) /\ setup' = setup
        /\ UNCHANGED <<late, lost>>
        /\ samples' = [samples EXCEPT ![S(v)][File(v)] = Len(stored) + 1]
    BY <1>4 DEF UploadWithoutJob
  <2>2. /\ stage[v] \in {"from", "to", "node"} /\ Len(stored) + 1 \in Nat
        /\ File(v) \in Files /\ S(v) \in Sessions
    <3>1. stage[v] \in {"from", "to", "node"}
      BY <1>1 DEF Base, Shapes, VisitShapes, Places, At, Ensuring, Stages
    <3>2. Len(stored) + 1 \in Nat
      BY DEF Base, Shapes, ServerShapes
    <3> QED
      BY <3>1, <3>2, FileType
  <2>3. samples' \in [Sessions -> [Files -> Nat \cup {None}]]
    BY <2>1, <2>2 DEF Base, Shapes, ServerShapes
  <2>4. /\ ServerShapes' /\ Grows /\ File(v) \in ToSet(stored')
        /\ OneMoreDue(v)
    BY <1>1, <2>1, <2>3, Received
  <2>5. VisitShapes' /\ At(v)' /\ OthersSame(v)
    BY <1>1, <2>1, <2>2, HasSample DEF Ensuring
  <2>6. pc'[v] \notin Ensuring
    BY <2>1 DEF Have, Goto, Put, Ensuring, Base, Shapes, VisitShapes
  <2> QED
    BY <1>1, <2>4, <2>5, <2>6 DEF Moves, Shapes, Ensuring
<1> QED
  BY <1>2, <1>3, <1>4

LEMMA VisitMoves ==
    ASSUME Base, NEW v \in Visits, Visit(v) \/ Begin(v)
    PROVE  Moves(v)
  BY MovesOn, GivingUp, Finding, GettingAnswers, Uploading DEF Visit

-----------------------------------------------------------------------------
(* What the server, its other clients and the analyst do: they leave the
   visits where they are, and nothing but a reset takes samples away. *)
Around ==
    /\ Base' /\ setup' = setup
    /\ UNCHANGED <<pc, stage, left, found, ref, ids>> /\ Due' = Due
    /\ ~setup.resets => Grows

(* ... the steps of those. *)
Elsewhere ==
    \/ \E v \in Visits : RequestStop(v)
    \/ JobsEnd \/ Reset \/ UNCHANGED vars
    \/ \E f \in Files : \/ OtherUploads(f)
                        \/ \E v \in Visits : Arrives(v, f)
                        \/ \E s \in Sessions : AddNode(s, f)

LEMMA VisitOrElsewhere ==
    ASSUME [Next]_vars
    PROVE  Elsewhere \/ \E v \in Visits : Visit(v) \/ Begin(v)
<1>1. CASE UNCHANGED vars
  BY <1>1 DEF Elsewhere
<1>2. ASSUME NEW v \in Visits, Visit(v) \/ Begin(v) \/ RequestStop(v)
      PROVE  Elsewhere \/ \E u \in Visits : Visit(u) \/ Begin(u)
  BY <1>2 DEF Elsewhere
<1>3. CASE \E f \in Files : \/ OtherUploads(f)
                            \/ \E v \in Visits : Arrives(v, f)
                            \/ \E s \in Sessions : AddNode(s, f)
  BY <1>3, Zenon DEF Elsewhere
<1>4. CASE JobsEnd \/ Reset
  BY <1>4, Zenon DEF Elsewhere
<1> QED
  BY <1>1, <1>2, <1>3, <1>4, Zenon DEF Next

(* A step that leaves the visits, their jobs apart. *)
LEMMA AroundIs ==
    ASSUME Base, ServerShapes', Quiet, setup' = setup,
           Due' = Due, ~setup.resets => Grows,
           job' \in [Visits -> {None, "running", "finished", "failed"}],
           \A v \in Visits : job'[v] = None <=> job[v] = None,
           DOMAIN answer' = Visits
    PROVE  Around
<1>1. UNCHANGED <<pc, stage, left, found, ref, ids, tries, outcome>>
  BY DEF Quiet
<1>2. VisitShapes'
  BY <1>1 DEF Base, Shapes, VisitShapes
<1>3. Places'
  BY <1>1 DEF Base, Places, At
<1> QED
  BY <1>1, <1>2, <1>3 DEF Around, Base, Shapes

LEMMA StepsAround ==
    ASSUME Base, Elsewhere
    PROVE  Around
<1>0. /\ job \in [Visits -> {None, "running", "finished", "failed"}]
      /\ DOMAIN answer = Visits /\ ServerShapes
  BY DEF Base, Shapes, VisitShapes
<1>1. ASSUME NEW v \in Visits, RequestStop(v)
      PROVE  Around
  <2>1. ServerShapes' /\ Grows /\ UNCHANGED <<setup, sent, lost, job, answer>> /\ Quiet
    BY <1>0, <1>1
       DEF RequestStop, ServerShapes, server, caches, Grows, Stands
  <2> QED
    BY <1>0, <2>1, AroundIs DEF Due
<1>2. ASSUME NEW i \in DOMAIN index, IndexJob(i)
      PROVE  Around
  <2>1. UNCHANGED <<setup, sent, lost, job, answer, stored>> /\ Quiet
    BY <1>2 DEF IndexJob
  <2>2. ServerShapes'
    BY <1>0, <1>2 DEF IndexJob, ServerShapes, caches, session, Put
  <2> QED
    BY <1>0, <2>1, <2>2, AroundIs DEF Grows, Stands, Due
<1>3. ASSUME NEW v \in Visits, MatchJob(v)
      PROVE  Around
  <2>1. UNCHANGED <<setup, sent, lost, stored>> /\ Quiet
    BY <1>3 DEF MatchJob
  <2>2. ServerShapes'
    BY <1>0, <1>3 DEF MatchJob, ServerShapes, caches, session
  <2>3. DOMAIN answer' = Visits
    BY <1>0, <1>3 DEF MatchJob, Put
  <2>4. job[v] = "running" /\ \E x \in {"finished", "failed"} : job' = Put(job, v, x)
    BY <1>3 DEF MatchJob
  <2>5. /\ job' \in [Visits -> {None, "running", "finished", "failed"}]
        /\ \A u \in Visits : job'[u] = None <=> job[u] = None
    BY <1>0, <2>4, QueryConstants DEF Put
  <2> QED
    BY <2>1, <2>2, <2>3, <2>5, AroundIs DEF Grows, Stands, Due
<1>4. CASE Reset
  <2>1. UNCHANGED <<setup, sent, lost, late, answer>> /\ Quiet /\ setup.resets
    BY <1>4 DEF Reset
  <2>2. ServerShapes'
    <3>1. << >> \in Seq(Files) /\ DOMAIN << >> = {}
      OBVIOUS
    <3>2. IsInjective(<< >>)
      BY <3>1 DEF IsInjective
    <3>3. /\ stored' = << >> /\ index' = << >> /\ era' = 1 /\ setup.resets
          /\ UNCHANGED <<setup, sent, lost, late, caches, incoming>>
      BY <1>4 DEF Reset
    <3>4. index' \in [{} -> {"none", "queued", "done", "failed"}]
      BY <3>1, <3>3
    <3> QED
      BY <1>0, <3>1, <3>2, <3>3, <3>4 DEF ServerShapes, caches
  <2>3. job' = [v \in Visits |-> IF job[v] = None THEN None ELSE "failed"]
    BY <1>4 DEF Reset
  <2>4. /\ job' \in [Visits -> {None, "running", "finished", "failed"}]
        /\ \A u \in Visits : job'[u] = None <=> job[u] = None
    BY <1>0, <2>3, QueryConstants
  <2> QED
    BY <1>0, <2>1, <2>2, <2>4, AroundIs DEF Due
<1>5. CASE UNCHANGED vars
  <2>1. ServerShapes' /\ Grows /\ UNCHANGED <<setup, sent, lost, job, answer>> /\ Quiet
    BY <1>0, <1>5
       DEF vars, ServerShapes, server, caches, session, Grows, Stands, Quiet
  <2> QED
    BY <1>0, <2>1, AroundIs DEF Due
<1>6. ASSUME NEW f \in Files, OtherUploads(f)
      PROVE  Around
  <2>1. /\ UNCHANGED <<setup, era, late, sent, lost, caches, session, job, answer>>
        /\ Quiet /\ ~Stands(f)
        /\ \E x \in {"none", "queued"} : Add(f, x)
    BY <1>6 DEF OtherUploads, NewJob
  <2>2. /\ stored' \in Seq(Files) /\ IsInjective(stored')
        /\ index' \in [DOMAIN stored' -> {"none", "queued", "done", "failed"}]
        /\ DOMAIN stored \subseteq DOMAIN stored'
        /\ \A i \in DOMAIN stored : stored'[i] = stored[i]
    BY <2>1, Added
  <2>3. ServerShapes'
    BY <1>0, <2>1, <2>2 DEF ServerShapes, caches, session
  <2>4. Grows
    BY <2>2 DEF Grows, Stands, ToSet
  <2> QED
    BY <1>0, <2>1, <2>3, <2>4, AroundIs DEF Due
<1>7. ASSUME NEW f \in Files, NEW s \in Sessions, AddNode(s, f)
      PROVE  Around
  <2>1. /\ UNCHANGED <<setup, server, caches, old, stopped, job, answer>> /\ Quiet
        /\ incoming' = [incoming EXCEPT ![s] = Append(incoming[s], f)]
        /\ f \in setup.added /\ setup \in Setups
    BY <1>0, <1>7 DEF AddNode, Put, ServerShapes
  <2>2. f \in Files \ {Target}
    BY <2>1, SetupConstants
  <2>3. incoming' \in [Sessions -> Seq(Files \ {Target})]
    <3>1. incoming[s] \in Seq(Files \ {Target})
      BY <1>0 DEF ServerShapes
    <3>2. Append(incoming[s], f) \in Seq(Files \ {Target})
      BY <2>2, <3>1
    <3> QED
      BY <1>0, <2>1, <3>2 DEF ServerShapes
  <2>4. ServerShapes' /\ Grows /\ Due' = Due /\ memo' = memo
    BY <1>0, <2>1, <2>3 DEF ServerShapes, server, caches, Grows, Stands, Due
  <2> QED
    BY <1>0, <2>1, <2>4, AroundIs DEF Due
<1>8. ASSUME NEW f \in Files, NEW v \in Visits, Arrives(v, f)
      PROVE  Around
  <2>1. /\ UNCHANGED <<setup, era, sent, lost, caches, session, job, answer>>
        /\ Quiet /\ late' \subseteq late
        /\ \/ UNCHANGED <<stored, index>>
           \/ ~Stands(f) /\ \E x \in {"none", "queued"} : Add(f, x)
    BY <1>8 DEF Arrives, NewJob
  <2>2. /\ stored' \in Seq(Files) /\ IsInjective(stored')
        /\ index' \in [DOMAIN stored' -> {"none", "queued", "done", "failed"}]
        /\ DOMAIN stored \subseteq DOMAIN stored'
        /\ \A i \in DOMAIN stored : stored'[i] = stored[i]
    BY <1>0, <2>1, Added DEF ServerShapes
  <2>3. ServerShapes'
    BY <1>0, <2>1, <2>2 DEF ServerShapes, caches, session
  <2>4. Grows
    BY <2>2 DEF Grows, Stands, ToSet
  <2> QED
    BY <1>0, <2>1, <2>3, <2>4, AroundIs DEF Due
<1> QED
  BY <1>1, <1>2, <1>3, <1>4, <1>5, <1>6, <1>7, <1>8 DEF JobsEnd, Elsewhere

-----------------------------------------------------------------------------
(* Only lost uploads are repeated *)

(* At most one visit of a session builds the sample of a file, *)
OneEnsures ==
    \A u, w \in Visits :
        (/\ pc[u] \in Ensuring /\ pc[w] \in Ensuring
         /\ S(u) = S(w) /\ File(u) = File(w))
        => u = w

(* ... what was uploaded and not lost stands, and a visit is about to upload
   what its session did not upload, or lost. *)
Uploads ==
    /\ \A s \in Sessions, f \in Files :
          /\ Due[s][f] \in {0, 1}
          /\ Due[s][f] = 1 => Stands(f)
    /\ \A v \in Visits : pc[v] = "upload" => Due[S(v)][File(v)] = 0

Once == Base /\ OneEnsures /\ (~setup.resets => Uploads)

LEMMA SameFile ==
    ASSUME NEW v, setup' = setup, stage'[v] = stage[v], left'[v] = left[v]
    PROVE  File(v)' = File(v) /\ S(v)' = S(v)
  BY DEF File, From, S

LEMMA InitOnce == Init => Once
<1> SUFFICES ASSUME Init PROVE Once
  OBVIOUS
<1>1. OneEnsures
  BY DEF Init, OneEnsures, Ensuring
<1>2. Uploads
  <2>1. \A s \in Sessions, f \in Files : Due[s][f] = 0
    BY DEF Init, Due
  <2>2. \A v \in Visits : pc[v] # "upload"
    BY DEF Init
  <2> QED
    BY <2>1, <2>2 DEF Uploads
<1> QED
  BY <1>1, <1>2, InitBase DEF Once

LEMMA VisitOnce ==
    ASSUME Once, NEW v \in Visits, Moves(v)
    PROVE  Once'
<1>1. Base /\ OneEnsures /\ setup' = setup
  BY DEF Once, Moves
<1>2. \A u \in Visits \ {v} : /\ pc'[u] = pc[u]
                             /\ File(u)' = File(u) /\ S(u)' = S(u)
  BY <1>1, SameFile DEF Moves, OthersSame, Same
<1>3. S(v)' = S(v) /\ (pc'[v] \in Ensuring => File(v)' = File(v))
  <2>1. S(v)' = S(v)
    BY <1>1 DEF S
  <2> QED
    BY <1>1, <2>1, SameFile DEF Moves
<1>4. Base'
  BY <1>1, PlacesOf DEF Base, Moves
<1>5. OneEnsures'
  <2>1. pc'[v] \in Ensuring =>
           \A w \in Visits \ {v} :
              ~(pc[w] \in Ensuring /\ S(w) = S(v) /\ File(w) = File(v))
    BY <1>1 DEF Moves, OneEnsures, Built
  <2>2. ASSUME NEW u \in Visits, NEW w \in Visits, u # w,
               pc'[u] \in Ensuring, pc'[w] \in Ensuring,
               S(u)' = S(w)', File(u)' = File(w)'
        PROVE  FALSE
    <3>1. CASE u = v
      BY <1>2, <1>3, <2>1, <2>2, <3>1
    <3>2. CASE w = v
      BY <1>2, <1>3, <2>1, <2>2, <3>2
    <3>3. CASE u # v /\ w # v
      BY <1>1, <1>2, <2>2, <3>3 DEF OneEnsures
    <3> QED
      BY <3>1, <3>2, <3>3
  <2> QED
    BY <2>2 DEF OneEnsures
<1>6. ASSUME ~setup'.resets
      PROVE  Uploads'
  <2>1. Uploads /\ Due \in [Sessions -> [Files -> {0, 1}]]
    BY <1>1, <1>6 DEF Once, Uploads, Due
  <2>2. \A f \in Files : Stands(f) => Stands(f)'
    BY DEF Moves, Grows
  <2>3. \A u \in Visits : pc[u] = "upload" =>
           File(u) \in Files /\ S(u) \in Sessions
    BY <1>1, FileType
       DEF Base, Shapes, VisitShapes, Places, At, Ensuring, Stages
  <2>4. CASE Due' = Due
    <3>1. pc'[v] = "upload" => /\ File(v)' \in Files /\ S(v)' \in Sessions
                              /\ File(v)' = File(v) /\ ~Stands(File(v))
      <4>1. pc'[v] = "upload" => File(v)' \in Files /\ S(v)' \in Sessions
        <5>1. pc'[v] = "upload" => stage'[v] \in {"from", "to", "node"}
          BY <1>4 DEF Base, Shapes, VisitShapes, Places, At, Ensuring, Stages
        <5>2. setup' \in Setups /\ (stage'[v] = "node" => Head(left'[v]) \in Files)
          BY <1>4 DEF Base, Shapes, ServerShapes, VisitShapes, Places, At
        <5> QED
          BY <5>1, <5>2, SetupConstants, QueryConstants DEF File, From, S
      <4> QED
        BY <1>3, <4>1 DEF Moves, Ensuring
    <3>2. pc'[v] = "upload" => Due'[S(v)'][File(v)'] = 0
      BY <1>3, <2>1, <2>4, <3>1 DEF Uploads
    <3>3. \A u \in Visits \ {v} :
             pc'[u] = "upload" => Due'[S(u)'][File(u)'] = 0
      BY <1>2, <2>1, <2>4 DEF Uploads
    <3> QED
      BY <2>1, <2>2, <2>4, <3>2, <3>3 DEF Uploads
  <2>5. CASE /\ pc[v] = "upload" /\ OneMoreDue(v) /\ File(v) \in ToSet(stored')
             /\ pc'[v] # "upload"
    <3> DEFINE s0 == S(v)
               f0 == File(v)
    <3>1. s0 \in Sessions /\ f0 \in Files /\ Due[s0][f0] = 0
      BY <2>1, <2>3, <2>5 DEF Uploads
    <3>2. /\ \A s \in Sessions, f \in Files :
                Due'[s][f] = IF s = s0 /\ f = f0 THEN 1 ELSE Due[s][f]
          /\ f0 \in ToSet(stored')
      BY <2>5, <3>1 DEF OneMoreDue
    <3>3. \A u \in Visits \ {v} : pc[u] = "upload" => S(u) # s0 \/ File(u) # f0
      BY <1>1, <2>5 DEF OneEnsures, Ensuring
    <3> HIDE DEF s0, f0
    <3>4. \A u \in Visits :
             pc'[u] = "upload" => Due'[S(u)'][File(u)'] = 0
      BY <1>2, <2>1, <2>3, <2>5, <3>1, <3>2, <3>3 DEF Uploads
    <3>5. \A s \in Sessions, f \in Files :
             /\ Due'[s][f] \in {0, 1}
             /\ Due'[s][f] = 1 => Stands(f)'
      BY <2>1, <2>2, <3>1, <3>2 DEF Uploads, Stands
    <3> QED
      BY <3>4, <3>5 DEF Uploads
  <2> QED
    BY <2>4, <2>5 DEF Moves
<1> QED
  BY <1>4, <1>5, <1>6 DEF Once

LEMMA AroundOnce ==
    ASSUME Once, Around
    PROVE  Once'
<1>1. /\ Base' /\ setup' = setup /\ pc' = pc /\ Due' = Due
      /\ \A u \in Visits : File(u)' = File(u) /\ S(u)' = S(u)
  BY SameFile DEF Around
<1>2. OneEnsures'
  BY <1>1 DEF Once, OneEnsures
<1>3. ASSUME ~setup'.resets
      PROVE  Uploads'
  <2>1. Uploads /\ \A f \in Files : Stands(f) => Stands(f)'
    BY <1>1, <1>3 DEF Once, Around, Grows
  <2> QED
    BY <1>1, <2>1 DEF Uploads
<1> QED
  BY <1>1, <1>2, <1>3 DEF Once

LEMMA NextOnce ==
    ASSUME Once, [Next]_vars
    PROVE  Once'
<1>1. ASSUME NEW v \in Visits, Visit(v) \/ Begin(v)
      PROVE  Once'
  BY <1>1, VisitMoves, VisitOnce DEF Once
<1>2. ASSUME Elsewhere
      PROVE  Once'
  <2>1. Around
    BY <1>2, StepsAround DEF Once
  <2> QED
    BY <2>1, AroundOnce
<1> QED
  BY <1>1, <1>2, VisitOrElsewhere

(* "A retried write could duplicate work": however many visits and sessions
   want a file, and whatever fails, stops or arrives late, a session sends it
   again only for an upload that it gave up on without an answer. *)
THEOREM UploadedOnce == Spec => []OnlyLostUploadsAreRepeated
<1>1. Once => OnlyLostUploadsAreRepeated
  <2> SUFFICES ASSUME Once, ~setup.resets, NEW s \in Sessions, NEW f \in Files
               PROVE  sent[s][f] <= lost[s][f] + 1
    BY DEF OnlyLostUploadsAreRepeated
  <2>1. sent[s][f] \in Nat /\ lost[s][f] \in Nat
    BY DEF Once, Base, Shapes, ServerShapes
  <2>2. sent[s][f] - lost[s][f] \in {0, 1}
    BY DEF Once, Uploads, Due
  <2> QED
    BY <2>1, <2>2
<1> QED
  BY <1>1, InitOnce, NextOnce, PTL DEF Spec

-----------------------------------------------------------------------------
(* The answer covers the edge *)

(* With these samples and this index: a sample whose indexing has ended, one
   way or the other, *)
Settled(st, ix, i) == i \in DOMAIN st /\ ix[i] \in {"done", "failed"}

SampleOf(st, ix, i, f) == Settled(st, ix, i) /\ st[i] = f

(* ... and an answer about one that covers those that are indexed of some. *)
Covers(st, ix, a, to, among) ==
    /\ Settled(st, ix, to) /\ a.own = st[to]
    /\ \A i \in among :
          /\ Settled(st, ix, i)
          /\ ix[i] = "done" /\ ix[to] = "done" =>
                i \in DOMAIN a.of /\ a.of[i] = st[i]

(* The sessions whose ids are those of the server as it is. *)
Fresh(s) == ~setup.gap /\ (setup.resets => /\ s \notin old
                                          /\ ~setup.perNode /\ ~setup.remembers)

(* What a visit of such a session holds, stage by stage. *)
Awaits(v) ==
    pc[v] \in {"jobs", "await"} =>
       /\ found[v][1] = era /\ found[v][2] \in DOMAIN stored
       /\ stored[found[v][2]] = File(v)

Knows(v) ==
    /\ stage[v] # "from" => SampleOf(stored, index, ref[v].from, From(v))
    /\ pc[v] = "match" \/ stage[v] \in {"node", "query", "vs"} =>
          SampleOf(stored, index, ref[v].to, Target)

Collects(v) ==
    /\ stage[v] \in {"node", "query"} =>
          \A i \in ids[v] : Settled(stored, index, i)
    /\ stage[v] = "node" =>
          ref[v].from \in ids[v] \/ From(v) \in ToSet(left[v])
    /\ stage[v] = "query" => ref[v].from \in ids[v]

Asked(v) == IF stage[v] = "query" THEN ids[v] ELSE {ref[v].from}

Reads(v) ==
    /\ job[v] = "finished" =>
          Covers(stored, index, answer[v], ref[v].to, Asked(v))
    /\ outcome[v] = "answered" =>
          Covers(stored, index, answer[v], ref[v].to, {ref[v].from})

Holds(v) == Awaits(v) /\ Knows(v) /\ Collects(v) /\ Reads(v)

(* What the process shares. *)
SamplesSettled ==
    \A s \in Sessions, f \in Files :
        Fresh(s) /\ samples[s][f] # None =>
           SampleOf(stored, index, samples[s][f], f)

CorpusCovers ==
    ~setup.gap /\ ~setup.resets =>
       \A k \in DOMAIN corpus : Covers(stored, index, corpus[k], k[1], k[2])

(* ... and what the server remembers of two samples. *)
MemoCovers ==
    ~setup.gap /\ ~setup.resets =>
       \A k \in DOMAIN memo :
          k[2] # None => Covers(stored, index, memo[k], k[1], {k[2]})

(* A session none of whose visits has begun knows no sample. *)
IdleSessions ==
    \A s \in Sessions : (\A v \in Visits : S(v) = s => pc[v] = "idle") =>
                        \A f \in Files : samples[s][f] = None

(* The edge of a visit is one of its node. *)
Listed == \A v \in Visits : pc[v] # "idle" => From(v) \in ToSet(incoming[S(v)])

JobsShow == ~setup.gap => \A i \in DOMAIN stored : index[i] # "none"

Sound == /\ SamplesSettled /\ CorpusCovers /\ MemoCovers /\ IdleSessions
         /\ Listed /\ JobsShow
         /\ \A v \in Visits : Fresh(S(v)) => Holds(v)

IInv == Base /\ Sound

(* What lasts while the server only gets samples and ends jobs. *)
Lasting(st, ix, st2, ix2) ==
    \A i \in DOMAIN st :
       /\ i \in DOMAIN st2 /\ st2[i] = st[i]
       /\ ix[i] \in {"done", "failed"} => ix2[i] = ix[i]

LEMMA SettledLasts ==
    ASSUME NEW st, NEW ix, NEW st2, NEW ix2, Lasting(st, ix, st2, ix2),
           NEW i, Settled(st, ix, i)
    PROVE  /\ Settled(st2, ix2, i) /\ st2[i] = st[i] /\ ix2[i] = ix[i]
  BY DEF Lasting, Settled

LEMMA SampleLasts ==
    ASSUME NEW st, NEW ix, NEW st2, NEW ix2, Lasting(st, ix, st2, ix2),
           NEW i, NEW f, SampleOf(st, ix, i, f)
    PROVE  SampleOf(st2, ix2, i, f)
  BY DEF Lasting, Settled, SampleOf

LEMMA CoversLasts ==
    ASSUME NEW st, NEW ix, NEW st2, NEW ix2, Lasting(st, ix, st2, ix2),
           NEW a, NEW to, NEW among, Covers(st, ix, a, to, among)
    PROVE  Covers(st2, ix2, a, to, among)
<1>1. Settled(st2, ix2, to) /\ st2[to] = st[to] /\ ix2[to] = ix[to]
  BY SettledLasts DEF Covers
<1>2. \A i \in among : Settled(st2, ix2, i) /\ st2[i] = st[i] /\ ix2[i] = ix[i]
  BY SettledLasts DEF Covers
<1> QED
  BY <1>1, <1>2 DEF Covers

Lasts == era' = era /\ Lasting(stored, index, stored', index')

(* A visit that a step leaves as it is holds what it held. *)
LEMMA StillHolds ==
    ASSUME NEW v, Same(v), Lasts, setup' = setup, Holds(v)
    PROVE  Holds(v)'
<1>1. File(v)' = File(v) /\ From(v)' = From(v)
  BY SameFile DEF Same, From
<1>2. Awaits(v)'
  BY <1>1 DEF Holds, Awaits, Same, Lasts, Lasting
<1>3. Knows(v)'
  BY <1>1, SampleLasts DEF Holds, Knows, Same, Lasts
<1>4. Collects(v)'
  BY <1>1, SettledLasts DEF Holds, Collects, Same, Lasts
<1>5. Reads(v)'
  <2>1. Asked(v)' = Asked(v)
    BY DEF Asked, Same
  <2> QED
    BY <2>1, CoversLasts DEF Holds, Reads, Same, Lasts
<1> QED
  BY <1>2, <1>3, <1>4, <1>5 DEF Holds

(* What every step of a visit adds to what is held and shared. *)
Adds(v) ==
    /\ Lasts /\ UNCHANGED session /\ JobsShow'
    /\ Fresh(S(v)) => Holds(v)'
    /\ pc'[v] # "idle" /\ From(v) \in ToSet(incoming[S(v)])
    /\ \/ samples' = samples
       \/ \E id : /\ samples' = [samples EXCEPT ![S(v)][File(v)] = id]
                  /\ Fresh(S(v)) => SampleOf(stored, index, id, File(v))
    /\ ~setup.gap /\ ~setup.resets =>
          \A k \in DOMAIN corpus' :
             Covers(stored, index, corpus'[k], k[1], k[2])

LEMMA VisitSound ==
    ASSUME IInv, NEW v \in Visits, Moves(v), Adds(v)
    PROVE  Sound'
<1>1. /\ setup' = setup /\ memo' = memo /\ UNCHANGED session /\ Lasts
      /\ \A u \in Visits \ {v} : Same(u)
  BY DEF Moves, Adds, OthersSame
<1>2. \A s : Fresh(s)' = Fresh(s)
  BY <1>1 DEF Fresh, session
<1>3. \A u : S(u)' = S(u) /\ From(u)' = From(u)
  BY <1>1 DEF S, From
<1>4. S(v) \in Sessions
  BY SetupConstants DEF IInv, Base, Shapes, ServerShapes, S
<1>5. SamplesSettled'
  <2>1. ASSUME NEW s \in Sessions, NEW f \in Files, Fresh(s),
               samples'[s][f] # None
        PROVE  SampleOf(stored, index, samples'[s][f], f)
    <3>1. samples[s][f] # None => SampleOf(stored, index, samples[s][f], f)
      BY <2>1 DEF IInv, Sound, SamplesSettled
    <3>2. CASE samples' = samples
      BY <2>1, <3>1, <3>2
    <3>3. ASSUME NEW id, samples' = [samples EXCEPT ![S(v)][File(v)] = id],
                 Fresh(S(v)) => SampleOf(stored, index, id, File(v))
          PROVE  SampleOf(stored, index, samples'[s][f], f)
      <4>1. /\ samples \in [Sessions -> [Files -> Nat \cup {None}]]
        BY DEF IInv, Base, Shapes, ServerShapes
      <4>2. CASE s = S(v) /\ f = File(v)
        <5>1. samples'[s][f] = id
          BY <1>4, <3>3, <4>1, <4>2
        <5> QED
          BY <2>1, <3>3, <4>2, <5>1
      <4>3. CASE ~(s = S(v) /\ f = File(v))
        <5>1. samples'[s][f] = samples[s][f]
          BY <1>4, <3>3, <4>1, <4>3
        <5> QED
          BY <2>1, <3>1, <5>1
      <4> QED
        BY <4>2, <4>3
    <3> QED
      BY <3>2, <3>3 DEF Adds
  <2> QED
    BY <1>1, <1>2, <2>1, SampleLasts DEF SamplesSettled, Lasts
<1>6. CorpusCovers'
  BY <1>1, CoversLasts DEF Adds, CorpusCovers, Lasts
<1>7. IdleSessions'
  <2>1. ASSUME NEW s \in Sessions, \A u \in Visits : S(u) = s => pc'[u] = "idle",
               NEW f \in Files
        PROVE  samples'[s][f] = None
    <3>1. s # S(v)
      BY <2>1 DEF Adds
    <3>2. samples[s][f] = None
      BY <1>1, <2>1, <3>1 DEF IInv, Sound, IdleSessions, Same
    <3>3. samples'[s] = samples[s]
      BY <1>4, <3>1 DEF Adds, IInv, Base, Shapes, ServerShapes
    <3> QED
      BY <3>2, <3>3
  <2> QED
    BY <1>3, <2>1 DEF IdleSessions
<1>8. Listed'
  BY <1>1, <1>3 DEF IInv, Sound, Listed, Adds, Same, session
<1>9. \A u \in Visits : Fresh(S(u))' => Holds(u)'
  <2>1. Fresh(S(v))' => Holds(v)'
    BY <1>2, <1>3 DEF Adds
  <2>2. ASSUME NEW u \in Visits \ {v}
        PROVE  Fresh(S(u))' => Holds(u)'
    BY <1>1, <1>2, <1>3, StillHolds DEF IInv, Sound
  <2> QED
    BY <2>1, <2>2
<1>10. MemoCovers'
  BY <1>1, CoversLasts DEF IInv, Sound, MemoCovers, Lasts
<1> QED
  BY <1>5, <1>6, <1>7, <1>8, <1>9, <1>10 DEF Sound, Adds

(* A step that leaves the server and what is shared. *)
LEMMA AddsNothing ==
    ASSUME IInv, NEW v \in Visits, UNCHANGED <<setup, server, caches, session>>,
           pc[v] # "idle", pc'[v] # "idle", Fresh(S(v)) => Holds(v)'
    PROVE  Adds(v)
<1>1. Lasts
  BY DEF Lasts, Lasting, server
<1>2. JobsShow'
  BY DEF IInv, Sound, JobsShow, server
<1>3. From(v) \in ToSet(incoming[S(v)])
  BY DEF IInv, Sound, Listed
<1> QED
  BY <1>1, <1>2, <1>3 DEF Adds, IInv, Sound, CorpusCovers, caches

(* What the three ways of going on keep. *)
LEMMA HoldsGivingUp ==
    ASSUME Base, NEW v \in Visits, NEW o, o # "answered", GiveUp(v, o),
           pc[v] \notin {"idle", "done"}, Lasts, setup' = setup, Holds(v)
    PROVE  Holds(v)'
<1> USE QueryConstants DEF Base, Shapes, VisitShapes, Goto, Put, End
<1>1. /\ From(v)' = From(v) /\ pc'[v] \in {"ask", "done"}
      /\ ref'[v] = ref[v] /\ job'[v] = None
      /\ \/ Shared(v) /\ stage'[v] = "vs" /\ outcome'[v] = outcome[v]
         \/ ~Shared(v) /\ stage'[v] = stage[v] /\ outcome'[v] = o /\ pc'[v] = "done"
  BY DEF GiveUp, From
<1>2. At(v) /\ outcome[v] # "answered"
  BY DEF Places, At
<1>3. Awaits(v)' /\ Collects(v)'
  BY <1>1 DEF Awaits, Collects, Shared
<1>4. Knows(v)'
  <2>1. stage'[v] # "from" => SampleOf(stored, index, ref[v].from, From(v))
    BY <1>1 DEF Holds, Knows, Shared
  <2>2. stage'[v] \in {"node", "query", "vs"} =>
           SampleOf(stored, index, ref[v].to, Target)
    BY <1>1 DEF Holds, Knows, Shared
  <2> QED
    BY <1>1, <2>1, <2>2, SampleLasts DEF Knows, Lasts
<1>5. Reads(v)'
  BY <1>1, <1>2 DEF Reads
<1> QED
  BY <1>3, <1>4, <1>5 DEF Holds

LEMMA HoldsFinding ==
    ASSUME Base, NEW v \in Visits, NEW id, Have(v, id),
           SampleOf(stored, index, id, File(v)),
           stage[v] \in {"from", "to", "node"},
           pc[v] \in {"want"} \cup Ensuring,
           Lasts, setup' = setup, Holds(v)
    PROVE  Holds(v)'
<1> USE QueryConstants DEF Base, Shapes, VisitShapes, Have, Goto, Put
<1>1. /\ At(v) /\ From(v)' = From(v) /\ job'[v] = None
      /\ outcome'[v] # "answered" /\ pc'[v] \in {"want", "match"}
  BY DEF Places, At, Ensuring, From
<1>2. Awaits(v)' /\ Reads(v)'
  BY <1>1 DEF Awaits, Reads
<1>3. CASE /\ stage[v] = "from" /\ stage'[v] = "to" /\ pc'[v] = "want"
           /\ ref'[v] = [from |-> id, to |-> None]
  <2>1. SampleOf(stored', index', id, From(v))
    BY <1>3, FileOf, SampleLasts DEF Lasts
  <2> QED
    BY <1>1, <1>2, <1>3, <2>1 DEF Holds, Knows, Collects
<1>4. CASE /\ stage[v] = "to" /\ stage'[v] = "to"
           /\ ref'[v] = [ref[v] EXCEPT !.to = id]
  <2>1. SampleOf(stored', index', id, Target)
    BY <1>4, FileOf, SampleLasts DEF Lasts
  <2>2. SampleOf(stored', index', ref[v].from, From(v))
    BY <1>4, SampleLasts DEF Lasts, Holds, Knows
  <2> QED
    BY <1>1, <1>2, <1>4, <2>1, <2>2 DEF Holds, Knows, Collects
<1>5. CASE /\ stage[v] = "node" /\ pc'[v] = "want" /\ ref'[v] = ref[v]
           /\ ids'[v] = ids[v] \cup {id} /\ left'[v] = Tail(left[v])
           /\ stage'[v] = IF Len(left[v]) = 1 THEN "query" ELSE "node"
  <2>1. /\ left[v] \in Seq(Files) /\ left[v] # << >>
        /\ ToSet(left[v]) = {Head(left[v])} \cup ToSet(Tail(left[v]))
    <3>1. left[v] \in Seq(Files) /\ left[v] # << >>
      BY <1>1, <1>5 DEF At
    <3> QED
      BY <3>1, Shorter
  <2>2. Len(left[v]) = 1 => ToSet(Tail(left[v])) = {}
    BY <2>1, Shorter
  <2>3. Knows(v)'
    BY <1>1, <1>5, SampleLasts DEF Holds, Knows, Lasts
  <2>4. \A i \in ids'[v] : Settled(stored', index', i)
    BY <1>5, SettledLasts DEF Holds, Collects, SampleOf, Lasts
  <2>5. ref[v].from \in ids'[v] \/ From(v) \in ToSet(left'[v])
    <3>1. CASE Head(left[v]) = From(v)
      <4>1. /\ stored[id] = From(v) /\ stored[ref[v].from] = From(v)
            /\ id \in DOMAIN stored /\ ref[v].from \in DOMAIN stored
        BY <1>5, <3>1, FileOf DEF Holds, Knows, SampleOf, Settled
      <4>2. id = ref[v].from
        BY <4>1 DEF ServerShapes, IsInjective
      <4> QED
        BY <1>5, <4>2
    <3>2. CASE Head(left[v]) # From(v)
      BY <1>5, <2>1, <3>2 DEF Holds, Collects
    <3> QED
      BY <3>1, <3>2
  <2>6. Collects(v)'
    BY <1>1, <1>5, <2>2, <2>4, <2>5 DEF Collects
  <2> QED
    BY <1>2, <2>3, <2>6 DEF Holds
<1> QED
  BY <1>3, <1>4, <1>5

LEMMA HoldsAnswered ==
    ASSUME Base, NEW v \in Visits, NEW a, Receives(v, a),
           Covers(stored, index, a, ref[v].to, Asked(v)),
           stage[v] \in {"query", "vs"}, Lasts, setup' = setup, Holds(v)
    PROVE  Holds(v)'
<1> USE QueryConstants DEF Base, Shapes, VisitShapes, Receives, Goto, Put, End
<1>1. /\ From(v)' = From(v) /\ pc'[v] = "done" /\ job'[v] = None
      /\ answer'[v] = a /\ UNCHANGED <<stage, ref, ids>>
  BY DEF From
<1>2. Awaits(v)'
  BY <1>1 DEF Awaits
<1>3. Knows(v)'
  BY <1>1, SampleLasts DEF Holds, Knows, Lasts
<1>4. Collects(v)'
  BY <1>1, SettledLasts DEF Holds, Collects, Lasts
<1>5. Reads(v)'
  <2>1. ref[v].from \in Asked(v)
    BY DEF Holds, Collects, Asked
  <2>2. Covers(stored, index, a, ref[v].to, {ref[v].from})
    BY <2>1 DEF Covers
  <2> QED
    BY <1>1, <2>2, CoversLasts DEF Reads, Lasts
<1> QED
  BY <1>2, <1>3, <1>4, <1>5 DEF Holds

LEMMA ServerLasts ==
    ASSUME UNCHANGED server
    PROVE  Lasts
  BY DEF Lasts, Lasting, server

(* The steps in which a visit gives up, *)
LEMMA AddsGivingUp ==
    ASSUME IInv, NEW v \in Visits,
           \/ Cancel(v) \/ ViewGone(v) \/ NotPersisted(v) \/ ReadFails(v)
           \/ IndexFailed(v) \/ AskFails(v) \/ MatchFails(v)
    PROVE  Adds(v)
<1>1. /\ UNCHANGED <<setup, server, caches, session>>
      /\ pc[v] \notin {"idle", "done"}
      /\ GiveUp(v, "stopped") \/ GiveUp(v, "failed")
  BY DEF Cancel, ViewGone, NotPersisted, ReadFails, IndexFailed, AskFails,
         MatchFails
<1>2. Base /\ (Fresh(S(v)) => Holds(v))
  BY DEF IInv, Sound
<1>3. Fresh(S(v)) => Holds(v)'
  BY <1>1, <1>2, ServerLasts, HoldsGivingUp
<1>4. pc'[v] # "idle"
  BY <1>1, <1>2 DEF GiveUp, Goto, End, Put, Base, Shapes, VisitShapes
<1> QED
  BY <1>1, <1>3, <1>4, AddsNothing

(* ... takes a sample that the session has, or that was indexed, *)
LEMMA KeepsIndexed ==
    ASSUME IInv, NEW v \in Visits, pc[v] \in {"jobs", "await"}, Keep(v),
           JobState(v) # "queued",
           UNCHANGED <<setup, server, corpus, session>>
    PROVE  Adds(v)
<1>1. Base /\ (Fresh(S(v)) => Holds(v)) /\ JobsShow
  BY DEF IInv, Sound
<1>2. stage[v] \in {"from", "to", "node"} /\ Lasts /\ Have(v, found[v][2])
  BY <1>1, FoundId, ServerLasts DEF Keep
<1>3. Fresh(S(v)) => SampleOf(stored, index, found[v][2], File(v))
  BY <1>1 DEF Fresh, Holds, Awaits, JobState, JobsShow, SampleOf, Settled,
              Base, Shapes, ServerShapes
<1>4. Fresh(S(v)) => Holds(v)'
  BY <1>1, <1>2, <1>3, HoldsFinding DEF Ensuring
<1>5. pc'[v] # "idle"
  BY <1>1, <1>2 DEF Have, Goto, Put, Base, Shapes, VisitShapes
<1>6. /\ samples' = [samples EXCEPT ![S(v)][File(v)] = found[v][2]]
      /\ JobsShow' /\ From(v) \in ToSet(incoming[S(v)])
  BY <1>1 DEF Keep, JobsShow, server, IInv, Sound, Listed
<1> QED
  BY <1>2, <1>3, <1>4, <1>5, <1>6 DEF Adds, IInv, Sound, CorpusCovers

LEMMA AddsFinding ==
    ASSUME IInv, NEW v \in Visits,
           HitSample(v) \/ PendingJob(v) \/ Indexed(v)
    PROVE  Adds(v)
<1>1. Base /\ (Fresh(S(v)) => Holds(v))
  BY DEF IInv, Sound
<1>2. CASE HitSample(v)
  <2>1. stage[v] \in {"from", "to", "node"} /\ pc[v] = "want"
    BY <1>1, <1>2
       DEF HitSample, Wants, Base, Shapes, Places, At, VisitShapes, Stages, Ensuring
  <2>2. Fresh(S(v)) =>
           SampleOf(stored, index, samples[S(v)][File(v)], File(v))
    BY <1>1, <1>2, <2>1, FileType DEF HitSample, IInv, Sound, SamplesSettled
  <2>3. /\ UNCHANGED <<setup, server, caches, session>>
        /\ Have(v, samples[S(v)][File(v)])
    BY <1>2 DEF HitSample
  <2>4. Fresh(S(v)) => Holds(v)'
    BY <1>1, <2>1, <2>2, <2>3, ServerLasts, HoldsFinding
  <2>5. pc'[v] # "idle"
    BY <1>1, <2>3 DEF Have, Goto, Put, Base, Shapes, VisitShapes
  <2> QED
    BY <2>1, <2>3, <2>4, <2>5, AddsNothing
<1>3. CASE PendingJob(v) /\ JobState(v) = "queued"
  <2>1. /\ UNCHANGED <<setup, server, caches, session>>
        /\ pc[v] = "jobs" /\ pc' = [pc EXCEPT ![v] = "await"]
        /\ UNCHANGED <<found, ref, stage, left, ids, job, answer, outcome>>
    BY <1>3 DEF PendingJob, Goto, Put, caches
  <2>2. pc'[v] = "await"
    BY <1>1, <2>1 DEF Base, Shapes, VisitShapes
  <2>3. Holds(v) => Holds(v)'
    <3>1. File(v)' = File(v) /\ From(v)' = From(v)
      BY <2>1, SameFile DEF From
    <3>2. UNCHANGED <<era, stored, index>>
      BY <2>1 DEF server
    <3> QED
      BY <2>1, <2>2, <3>1, <3>2
         DEF Holds, Awaits, Knows, Collects, Reads, Asked
  <2> QED
    BY <1>1, <2>1, <2>2, <2>3, AddsNothing
<1>4. CASE PendingJob(v) /\ JobState(v) # "queued"
  BY <1>4, KeepsIndexed DEF PendingJob
<1>5. CASE Indexed(v)
  BY <1>5, KeepsIndexed DEF Indexed
<1> QED
  BY <1>2, <1>3, <1>4, <1>5

(* ... or is answered. *)
LEMMA AddsAnswers ==
    ASSUME IInv, NEW v \in Visits, HitPayload(v) \/ Matched(v)
    PROVE  Adds(v)
<1>1. Base /\ At(v) /\ (Fresh(S(v)) => Holds(v)) /\ JobsShow /\ CorpusCovers
  BY DEF IInv, Sound, Base, Places
<1>2. stage[v] = "query" /\ Fresh(S(v)) => ~setup.gap /\ ~setup.resets
  BY <1>1 DEF At, Fresh
<1>3. ~setup.gap /\ ~setup.resets => Fresh(S(v))
  BY DEF Fresh
<1>4. CASE HitPayload(v)
  <2>1. /\ Receives(v, corpus[Key(v)]) /\ stage[v] = "query" /\ pc[v] = "want"
        /\ Key(v) \in DOMAIN corpus
        /\ UNCHANGED <<setup, server, caches, session>>
    BY <1>4 DEF HitPayload
  <2>2. Fresh(S(v)) =>
           Covers(stored, index, corpus[Key(v)], ref[v].to, Asked(v))
    <3>1. Key(v)[1] = ref[v].to /\ Key(v)[2] = ids[v] /\ Asked(v) = ids[v]
      BY <2>1 DEF Key, Asked
    <3> QED
      BY <1>1, <1>2, <2>1, <3>1 DEF CorpusCovers
  <2>3. Fresh(S(v)) => Holds(v)'
    BY <1>1, <2>1, <2>2, ServerLasts, HoldsAnswered
  <2>4. pc'[v] # "idle"
    BY <1>1, <2>1
       DEF Receives, End, Goto, Put, Base, Shapes, VisitShapes
  <2> QED
    BY <2>1, <2>3, <2>4, AddsNothing
<1>5. CASE Matched(v)
  <2>1. /\ Receives(v, answer[v]) /\ pc[v] = "matching" /\ job[v] = "finished"
        /\ UNCHANGED <<setup, server, samples, session>>
    BY <1>5 DEF Matched
  <2>2. stage[v] \in {"query", "vs"}
    BY <1>1, <2>1 DEF At, Ensuring, Base, Shapes, VisitShapes, Stages
  <2>3. Fresh(S(v)) =>
           Covers(stored, index, answer[v], ref[v].to, Asked(v))
    BY <1>1, <2>1 DEF Holds, Reads
  <2>4. Fresh(S(v)) => Holds(v)'
    BY <1>1, <2>1, <2>2, <2>3, ServerLasts, HoldsAnswered
  <2>5. pc'[v] # "idle"
    BY <1>1, <2>1
       DEF Receives, End, Goto, Put, Base, Shapes, VisitShapes
  <2>6. ASSUME ~setup.gap, ~setup.resets, NEW k \in DOMAIN corpus'
        PROVE  Covers(stored, index, corpus'[k], k[1], k[2])
    <3>1. k \in DOMAIN corpus => Covers(stored, index, corpus[k], k[1], k[2])
      BY <1>1, <2>6 DEF CorpusCovers
    <3>2. CASE stage[v] # "query"
      BY <1>5, <2>6, <3>1, <3>2 DEF Matched
    <3>3. CASE stage[v] = "query"
      <4>1. corpus' = [x \in DOMAIN corpus \cup {Key(v)} |->
                         IF x = Key(v) THEN answer[v] ELSE corpus[x]]
        BY <1>5, <3>3 DEF Matched
      <4>2. CASE k = Key(v)
        <5>1. corpus'[k] = answer[v]
          BY <2>6, <4>1, <4>2
        <5>2. k[1] = ref[v].to /\ k[2] = Asked(v)
          BY <3>3, <4>2 DEF Key, Asked
        <5> QED
          BY <1>3, <2>3, <2>6, <5>1, <5>2
      <4>3. CASE k # Key(v)
        BY <2>6, <3>1, <4>1, <4>3
      <4> QED
        BY <4>2, <4>3
    <3> QED
      BY <3>2, <3>3
  <2>7. JobsShow' /\ From(v) \in ToSet(incoming[S(v)])
    BY <1>1, <2>1 DEF JobsShow, server, IInv, Sound, Listed
  <2> QED
    BY <2>1, <2>4, <2>5, <2>6, <2>7, ServerLasts DEF Adds
<1> QED
  BY <1>4, <1>5

(* The steps that only move a visit on. *)
LEMMA HoldsMovingOn ==
    ASSUME Base, Listed, NEW v \in Visits, UNCHANGED <<setup, server>>,
           \/ ClaimSample(v) \/ LookUp(v) \/ ReadAgain(v)
           \/ StartMatch(v) \/ ClaimPayload(v) \/ Ask(v),
           Holds(v)
    PROVE  Holds(v)'
<1> USE QueryConstants DEF Base, Shapes, VisitShapes, Goto, Put
<1>1. /\ UNCHANGED <<era, stored, index>> /\ From(v)' = From(v) /\ At(v)
      /\ ref'[v] = ref[v] /\ ids'[v] = ids[v]
      /\ answer'[v] = answer[v] /\ outcome'[v] = outcome[v]
  BY DEF server, From, Places, ClaimSample, LookUp, ReadAgain, StartMatch,
         ClaimPayload, Ask
<1>2. outcome[v] # "answered"
  BY <1>1 DEF At, ClaimSample, Wants, LookUp, ReadAgain, StartMatch,
              ClaimPayload, Ask
<1>3. CASE ClaimSample(v)
  BY <1>1, <1>2, <1>3
     DEF ClaimSample, Wants, Holds, Awaits, Knows, Collects, Reads, Asked
<1>4. CASE LookUp(v)
  <2>1. /\ stage'[v] = stage[v] /\ left'[v] = left[v] /\ job'[v] = job[v]
        /\ pc'[v] \in {"jobs", "upload"} /\ File(v)' = File(v)
    BY <1>4, SameFile DEF LookUp
  <2>2. pc'[v] = "jobs" =>
           found'[v] = <<era, Id(File(v))>> /\ Stands(File(v))
    BY <1>4 DEF LookUp
  <2>3. Stands(File(v)) =>
           Id(File(v)) \in DOMAIN stored /\ stored[Id(File(v))] = File(v)
    BY DEF Stands, Id, ToSet
  <2>4. Awaits(v)'
    BY <1>1, <2>1, <2>2, <2>3 DEF Awaits
  <2> QED
    BY <1>1, <1>2, <2>1, <2>4 DEF Holds, Knows, Collects, Reads, Asked
<1>5. CASE ReadAgain(v)
  <2>1. /\ UNCHANGED <<pc, stage, left, found, job>> /\ File(v)' = File(v)
    BY <1>5, SameFile DEF ReadAgain
  <2> QED
    BY <1>1, <1>2, <2>1
       DEF Holds, Awaits, Knows, Collects, Reads, Asked
<1>6. CASE StartMatch(v)
  <2>1. /\ pc'[v] \in {"want", "ask"} /\ job'[v] = None /\ pc[v] = "match"
        /\ \/ stage'[v] = "node" /\ left'[v] = incoming[S(v)]
           \/ stage'[v] = "vs"
    BY <1>1, <1>6 DEF StartMatch, At, Ensuring
  <2>2. stage[v] = "to"
    BY <1>1, <2>1 DEF At, Ensuring, Stages
  <2>3. From(v) \in ToSet(incoming[S(v)])
    BY <2>1 DEF Listed
  <2>4. Knows(v)'
    BY <1>1, <2>1, <2>2 DEF Holds, Knows
  <2>5. ids[v] = {}
    BY <1>1, <2>2 DEF At
  <2> QED
    BY <1>1, <1>2, <2>1, <2>3, <2>4, <2>5 DEF Holds, Awaits, Collects, Reads
<1>7. CASE ClaimPayload(v)
  BY <1>1, <1>2, <1>7
     DEF ClaimPayload, Holds, Awaits, Knows, Collects, Reads, Asked
<1>8. CASE Ask(v)
  BY <1>1, <1>2, <1>8
     DEF Ask, Holds, Awaits, Knows, Collects, Reads, Asked
<1> QED
  BY <1>3, <1>4, <1>5, <1>6, <1>7, <1>8

(* What the server remembers of the visit's two samples covers its edge. *)
LEMMA HoldsRecalling ==
    ASSUME IInv, NEW v \in Visits, Recall(v), Fresh(S(v))
    PROVE  Holds(v)'
<1>1. /\ Holds(v) /\ At(v) /\ MemoCovers
      /\ UNCHANGED <<setup, era, stored, index, stage, left, found, ref, ids, outcome>>
  BY DEF IInv, Sound, Base, Places, Recall, server
<1>2. /\ stage[v] = "vs" /\ pc'[v] = "matching" /\ outcome[v] # "answered"
      /\ Question(v) \in DOMAIN memo /\ answer'[v] = memo[Question(v)]
      /\ ~setup.resets /\ ~setup.gap
  BY <1>1 DEF Recall, At, Goto, Put, IInv, Base, Shapes, VisitShapes, Fresh
<1>3. From(v)' = From(v) /\ Asked(v)' = {ref[v].from}
  BY <1>1, <1>2 DEF From, Asked
<1>4. /\ Question(v)[1] = ref[v].to /\ Question(v)[2] = ref[v].from
      /\ ref[v].from # None
  <2>1. ref[v].from \in DOMAIN stored /\ DOMAIN stored \subseteq Nat
    BY <1>1, <1>2
       DEF Holds, Knows, SampleOf, Settled, IInv, Base, Shapes, ServerShapes
  <2> QED
    BY <1>2, <2>1, QueryConstants DEF Question
<1>5. Covers(stored, index, answer'[v], ref[v].to, {ref[v].from})
  BY <1>1, <1>2, <1>4 DEF MemoCovers
<1>6. Reads(v)'
  BY <1>1, <1>2, <1>3, <1>5 DEF Reads
<1> QED
  BY <1>1, <1>2, <1>3, <1>6 DEF Holds, Awaits, Knows, Collects

LEMMA AddsMovingOn ==
    ASSUME IInv, NEW v \in Visits,
           \/ Begin(v) \/ ClaimSample(v) \/ LookUp(v) \/ ReadAgain(v)
           \/ StartMatch(v) \/ ClaimPayload(v) \/ Ask(v) \/ Recall(v)
    PROVE  Adds(v)
<1>1. /\ UNCHANGED <<setup, server, caches, session>> /\ Base /\ Listed
      /\ Fresh(S(v)) => Holds(v)
  BY DEF Begin, ClaimSample, LookUp, ReadAgain, StartMatch, ClaimPayload, Ask,
         Recall, IInv, Sound
<1>2. pc'[v] # "idle"
  BY <1>1 DEF Begin, ClaimSample, LookUp, ReadAgain, StartMatch, ClaimPayload,
              Ask, Recall, Goto, Put, Base, Shapes, VisitShapes
<1>3. CASE Begin(v)
  <2>1. /\ From(v) \in ToSet(incoming[S(v)]) /\ pc'[v] = "want"
        /\ UNCHANGED <<stage, left, found, ref, ids, job, answer, outcome>>
    BY <1>1, <1>3 DEF Begin, Goto, Put, Base, Shapes, VisitShapes
  <2>2. Holds(v) => Holds(v)'
    <3>1. From(v)' = From(v) /\ UNCHANGED <<era, stored, index>>
      BY <1>1 DEF From, server
    <3> QED
      BY <2>1, <3>1 DEF Holds, Awaits, Knows, Collects, Reads, Asked
  <2>3. Lasts /\ JobsShow'
    BY <1>1, ServerLasts DEF IInv, Sound, JobsShow, server
  <2> QED
    BY <1>1, <1>2, <2>1, <2>2, <2>3 DEF Adds, IInv, Sound, CorpusCovers, caches
<1>4. CASE \/ ClaimSample(v) \/ LookUp(v) \/ ReadAgain(v)
           \/ StartMatch(v) \/ ClaimPayload(v) \/ Ask(v)
  <2>1. pc[v] # "idle"
    BY <1>4 DEF ClaimSample, Wants, LookUp, ReadAgain, StartMatch,
                ClaimPayload, Ask
  <2>2. Fresh(S(v)) => Holds(v)'
    BY <1>1, <1>4, HoldsMovingOn
  <2> QED
    BY <1>1, <1>2, <2>1, <2>2, AddsNothing
<1>5. CASE Recall(v)
  <2>1. pc[v] # "idle"
    BY <1>5 DEF Recall
  <2>2. Fresh(S(v)) => Holds(v)'
    BY <1>5, HoldsRecalling
  <2> QED
    BY <1>1, <1>2, <2>1, <2>2, AddsNothing
<1> QED
  BY <1>3, <1>4, <1>5

(* An upload adds to what the server has, and shows its job. *)
LEMMA ReceiveLasts ==
    ASSUME IInv, NEW v \in Visits, pc[v] = "upload",
           NEW x \in {"none", "queued"}, x = "none" => setup.gap, Receive(v, x),
           UNCHANGED <<setup, era>>
    PROVE  /\ Lasts /\ JobsShow'
           /\ ~Stands(File(v)) => /\ Len(stored) + 1 \in DOMAIN stored'
                                 /\ stored'[Len(stored) + 1] = File(v)
<1>1. File(v) \in Files /\ Base /\ JobsShow
  BY FileType
     DEF IInv, Sound, Base, Shapes, VisitShapes, Places, At, Ensuring, Stages
<1>2. CASE Stands(File(v))
  <2>1. UNCHANGED <<stored, index>>
    BY <1>2 DEF Receive
  <2> QED
    BY <1>1, <1>2, <2>1 DEF Lasts, Lasting, JobsShow
<1>3. CASE ~Stands(File(v))
  <2> DEFINE f == File(v)
  <2>1. Add(f, x) /\ f \in Files /\ ~Stands(f)
    BY <1>1, <1>3 DEF Receive
  <2> HIDE DEF f
  <2>2. /\ DOMAIN stored' = DOMAIN stored \cup {Len(stored) + 1}
        /\ \A i \in DOMAIN stored : /\ stored'[i] = stored[i]
                                    /\ index'[i] = index[i]
        /\ stored'[Len(stored) + 1] = f
        /\ index'[Len(stored) + 1] = x
    BY <1>1, <2>1, Added
  <2>3. Lasts /\ JobsShow'
    BY <1>1, <2>2 DEF Lasts, Lasting, JobsShow
  <2> QED
    BY <2>2, <2>3 DEF f
<1> QED
  BY <1>2, <1>3

LEMMA AddsUploading ==
    ASSUME IInv, NEW v \in Visits,
           Upload(v) \/ UploadWithoutJob(v) \/ UploadLost(v)
    PROVE  Adds(v)
<1>1. /\ Base /\ At(v) /\ (Fresh(S(v)) => Holds(v)) /\ JobsShow
      /\ pc[v] = "upload" /\ UNCHANGED <<setup, era, memo, corpus, session>>
      /\ From(v) \in ToSet(incoming[S(v)])
  BY DEF IInv, Sound, Base, Places, Upload, UploadWithoutJob, UploadLost, Listed,
         caches
<1>2. ASSUME samples' = samples, Lasts, JobsShow', pc'[v] # "idle", Fresh(S(v)) => Holds(v)'
      PROVE  Adds(v)
  BY <1>1, <1>2 DEF Adds, IInv, Sound, CorpusCovers, caches
<1>3. CASE Upload(v)
  <2>1. /\ Lasts /\ JobsShow'
        /\ ~Stands(File(v)) => /\ Len(stored) + 1 \in DOMAIN stored'
                              /\ stored'[Len(stored) + 1] = File(v)
    BY <1>1, <1>3, ReceiveLasts DEF Upload
  <2>2. /\ UNCHANGED <<stage, left, ref, ids, job, answer, outcome>>
        /\ pc'[v] \in {"jobs", "await"}
    BY <1>1, <1>3 DEF Upload, Goto, Put, Base, Shapes, VisitShapes
  <2>3. File(v)' = File(v) /\ From(v)' = From(v)
    BY <1>1, <2>2, SameFile DEF From
  <2>4. Awaits(v)'
    <3>1. CASE Stands(File(v))
      <4>1. found'[v] = <<era, Id(File(v))>> /\ stored' = stored
        BY <1>1, <1>3, <3>1 DEF Upload, Receive, Put, Base, Shapes, VisitShapes
      <4>2. Id(File(v)) \in DOMAIN stored /\ stored[Id(File(v))] = File(v)
        BY <3>1 DEF Stands, Id, ToSet
      <4> QED
        BY <1>1, <2>3, <4>1, <4>2 DEF Awaits
    <3>2. CASE ~Stands(File(v))
      <4>1. found'[v] = <<era, Len(stored) + 1>>
        BY <1>1, <1>3, <3>2 DEF Upload, Put, Base, Shapes, VisitShapes
      <4> QED
        BY <1>1, <2>1, <2>3, <3>2, <4>1 DEF Awaits
    <3> QED
      BY <3>1, <3>2
  <2>5. Knows(v) => Knows(v)'
    BY <2>1, <2>2, <2>3, SampleLasts DEF Knows, Lasts
  <2>6. Collects(v) => Collects(v)'
    BY <2>1, <2>2, <2>3, SettledLasts DEF Collects, Lasts
  <2>7. Reads(v)'
    BY <1>1, <2>2, QueryConstants DEF Reads, At
  <2> QED
    BY <1>1, <1>2, <1>3, <2>1, <2>2, <2>4, <2>5, <2>6, <2>7
       DEF Holds, Upload, caches
<1>4. CASE UploadLost(v)
  <2>1. GiveUp(v, "failed") /\ pc'[v] # "idle"
    BY <1>1, <1>4
       DEF UploadLost, GiveUp, Goto, End, Put, Base, Shapes, VisitShapes
  <2>2. Lasts /\ JobsShow' /\ samples' = samples
    BY <1>1, <1>4 DEF UploadLost, Lasts, Lasting, JobsShow, caches
  <2>3. Fresh(S(v)) => Holds(v)'
    BY <1>1, <2>1, <2>2, HoldsGivingUp
  <2> QED
    BY <1>2, <2>1, <2>2, <2>3
<1>5. CASE UploadWithoutJob(v)
  <2>1. /\ Receive(v, "none") /\ setup.gap /\ Have(v, Len(stored) + 1)
        /\ samples' = [samples EXCEPT ![S(v)][File(v)] = Len(stored) + 1]
    BY <1>5 DEF UploadWithoutJob
  <2>2. Lasts /\ JobsShow'
    BY <1>1, <2>1, ReceiveLasts
  <2>3. pc'[v] # "idle"
    BY <1>1, <2>1 DEF Have, Goto, Put, Base, Shapes, VisitShapes
  <2>4. ~Fresh(S(v))
    BY <2>1 DEF Fresh
  <2> QED
    BY <1>1, <2>1, <2>2, <2>3, <2>4 DEF Adds
<1> QED
  BY <1>3, <1>4, <1>5

LEMMA VisitKeeps ==
    ASSUME IInv, NEW v \in Visits, Visit(v) \/ Begin(v)
    PROVE  IInv'
<1>1. Moves(v)
  BY VisitMoves DEF IInv
<1>2. Adds(v)
  BY AddsMovingOn, AddsGivingUp, AddsFinding, AddsAnswers, AddsUploading
     DEF Visit
<1>3. Base'
  BY <1>1, PlacesOf DEF Moves, IInv, Base
<1> QED
  BY <1>1, <1>2, <1>3, VisitSound DEF IInv

(* What the server remembers lasts with the samples. *)
LEMMA MemoLasts ==
    ASSUME IInv, Lasts, UNCHANGED <<setup, memo>>
    PROVE  MemoCovers'
  BY CoversLasts DEF IInv, Sound, MemoCovers, Lasts

(* What goes on around the visits, a reset apart: samples and their jobs
   last, nodes are only added, and a match job ends with what it covers. *)
LEMMA AroundSound ==
    ASSUME IInv, Around, Lasts, JobsShow', MemoCovers', Quiet,
           UNCHANGED <<old, samples, corpus>>,
           \A s \in Sessions : ToSet(incoming[s]) \subseteq ToSet(incoming'[s]),
           \A v \in Visits : \/ job'[v] = job[v] /\ answer'[v] = answer[v]
                             \/ Fresh(S(v)) => Reads(v)'
    PROVE  Sound'
<1>1. /\ setup' = setup /\ UNCHANGED <<pc, stage, left, found, ref, ids, outcome>>
      /\ \A s : Fresh(s)' = Fresh(s)
      /\ \A u : S(u)' = S(u) /\ From(u)' = From(u) /\ File(u)' = File(u)
  BY SameFile DEF Around, Quiet, Fresh, S, From
<1>2. SamplesSettled'
  BY <1>1, SampleLasts DEF IInv, Sound, SamplesSettled, Lasts
<1>3. CorpusCovers'
  BY <1>1, CoversLasts DEF IInv, Sound, CorpusCovers, Lasts
<1>4. IdleSessions'
  BY <1>1 DEF IInv, Sound, IdleSessions
<1>5. Listed'
  <2>1. \A u \in Visits : S(u) \in Sessions
    BY SetupConstants DEF IInv, Base, Shapes, ServerShapes, S
  <2> QED
    BY <1>1, <2>1 DEF IInv, Sound, Listed
<1>6. ASSUME NEW v \in Visits, Fresh(S(v))
      PROVE  Holds(v)'
  <2>1. Holds(v)
    BY <1>6 DEF IInv, Sound
  <2>2. CASE job'[v] = job[v] /\ answer'[v] = answer[v]
    BY <1>1, <2>1, <2>2, StillHolds DEF Same
  <2>3. CASE Reads(v)'
    <3>1. Awaits(v)'
      BY <1>1, <2>1 DEF Holds, Awaits, Lasts, Lasting
    <3>2. Knows(v)'
      BY <1>1, <2>1, SampleLasts DEF Holds, Knows, Lasts
    <3>3. Collects(v)'
      BY <1>1, <2>1, SettledLasts DEF Holds, Collects, Lasts
    <3> QED
      BY <2>3, <3>1, <3>2, <3>3 DEF Holds
  <2> QED
    BY <1>6, <2>2, <2>3
<1> QED
  BY <1>1, <1>2, <1>3, <1>4, <1>5, <1>6 DEF Sound

(* A match job that ends has found the samples that it was asked for. *)
LEMMA JobCovers ==
    ASSUME IInv, NEW v \in Visits, MatchJob(v), Fresh(S(v))
    PROVE  /\ Reads(v)'
           /\ job'[v] = "finished" =>
                 Covers(stored, index, answer'[v], ref[v].to, Asked(v))
<1>1. /\ Holds(v) /\ At(v) /\ job[v] = "running"
      /\ UNCHANGED <<setup, stored, index, stage, ref, ids, outcome>>
  BY DEF IInv, Sound, Base, Places, MatchJob, Quiet
<1>2. stage[v] \in {"query", "vs"} /\ outcome[v] # "answered"
  BY <1>1, QueryConstants
     DEF At, Ensuring, IInv, Base, Shapes, VisitShapes, Stages
<1>3. /\ SampleOf(stored, index, ref[v].to, Target)
      /\ \A i \in Asked(v) : Settled(stored, index, i)
      /\ stage[v] = "vs" => Asked(v) = {ref[v].from}
  BY <1>1, <1>2 DEF Holds, Knows, Collects, Asked, SampleOf
<1>4. ASSUME NEW among, Asked(v) \subseteq among
      PROVE  Covers(stored, index, Matches(ref[v].to, among), ref[v].to, Asked(v))
  BY <1>3, <1>4 DEF Covers, Matches, SampleOf, Settled
<1>5. job'[v] = "finished" =>
         Covers(stored, index, answer'[v], ref[v].to, Asked(v))
  <2>1. Asked(v) \subseteq DOMAIN stored
    BY <1>3 DEF Settled
  <2>2. /\ job \in [Visits -> {None, "running", "finished", "failed"}]
        /\ DOMAIN answer = Visits
    BY DEF IInv, Base, Shapes, VisitShapes
  <2>3. CASE stage[v] = "query"
    <3>1. job'[v] = "finished" =>
             answer'[v] = Matches(ref[v].to, DOMAIN stored)
      BY <2>2, <2>3 DEF MatchJob, Put
    <3> QED
      BY <1>4, <2>1, <3>1
  <2>4. CASE stage[v] = "vs"
    <3>1. job'[v] = "finished" =>
             answer'[v] = Matches(ref[v].to, {ref[v].from})
      BY <2>2, <2>4 DEF MatchJob, Put
    <3> QED
      BY <1>3, <1>4, <2>4, <3>1
  <2> QED
    BY <1>2, <2>3, <2>4
<1> QED
  BY <1>1, <1>2, <1>5 DEF Reads, Asked

(* A reset leaves nothing to hold: the sessions that had begun are old. *)
LEMMA ResetSound ==
    ASSUME IInv, Reset, Around
    PROVE  Sound'
<1>1. /\ setup' = setup /\ setup.resets /\ index' = << >> /\ stored' = << >>
      /\ UNCHANGED <<pc, stage, left, found, ref, ids, outcome, samples, corpus,
                     incoming, answer>>
      /\ old' = {S(v) : v \in {w \in Visits : pc[w] # "idle"}}
  BY DEF Reset, Quiet, caches
<1>2. \A u : S(u)' = S(u) /\ From(u)' = From(u)
  BY <1>1 DEF S, From
<1>3. \A s : Fresh(s)' => \A v \in Visits : S(v) = s => pc[v] = "idle"
  BY <1>1 DEF Fresh
<1>4. SamplesSettled'
  BY <1>1, <1>3 DEF SamplesSettled, IInv, Sound, IdleSessions
<1>5. CorpusCovers' /\ MemoCovers'
  BY <1>1 DEF CorpusCovers, MemoCovers
<1>6. IdleSessions' /\ Listed'
  BY <1>1, <1>2 DEF IInv, Sound, IdleSessions, Listed
<1>7. JobsShow'
  <2>1. DOMAIN << >> = {}
    OBVIOUS
  <2> QED
    BY <1>1, <2>1 DEF JobsShow
<1>8. ASSUME NEW v \in Visits, Fresh(S(v))'
      PROVE  Holds(v)'
  <2>1. pc'[v] = "idle" /\ At(v)'
    BY <1>1, <1>2, <1>3, <1>8 DEF Around, Base, Places
  <2>2. stage'[v] = "from" /\ job'[v] # "finished" /\ outcome'[v] # "answered"
    BY <2>1, QueryConstants DEF At
  <2> QED
    BY <2>1, <2>2 DEF Holds, Awaits, Knows, Collects, Reads
<1> QED
  BY <1>4, <1>5, <1>6, <1>7, <1>8 DEF Sound

LEMMA AroundKeeps ==
    ASSUME IInv, Elsewhere
    PROVE  IInv'
<1>1. Around /\ Base /\ JobsShow
  BY StepsAround DEF IInv, Sound
<1>2. SUFFICES Sound'
  BY <1>1 DEF IInv, Around
<1>3. ASSUME NEW v \in Visits, RequestStop(v)
      PROVE  Sound'
  <2>1. /\ UNCHANGED <<old, samples, corpus, incoming, job, answer>> /\ Quiet
        /\ JobsShow'
    BY <1>1, <1>3 DEF RequestStop, caches, server, JobsShow
  <2>2. Lasts
    BY <1>3, ServerLasts DEF RequestStop
  <2>3. MemoCovers'
    BY <1>3, <2>2, MemoLasts DEF RequestStop, server
  <2> QED
    BY <1>1, <2>1, <2>2, <2>3, AroundSound
<1>4. ASSUME NEW i \in DOMAIN index, IndexJob(i)
      PROVE  Sound'
  <2>1. /\ UNCHANGED <<era, stored, memo, old, samples, corpus, incoming, job, answer>>
        /\ Quiet /\ setup' = setup
    BY <1>4 DEF IndexJob, caches, session
  <2>2. /\ index[i] \in {"none", "queued"}
        /\ \E x \in {"queued", "done", "failed"} : index' = [index EXCEPT ![i] = x]
    BY <1>4 DEF IndexJob, Put
  <2>3. DOMAIN index = DOMAIN stored
    BY <1>1 DEF Base, Shapes, ServerShapes
  <2>4. Lasts /\ JobsShow'
    BY <1>1, <2>1, <2>2, <2>3 DEF Lasts, Lasting, JobsShow
  <2>5. MemoCovers'
    BY <2>1, <2>4, MemoLasts
  <2> QED
    BY <1>1, <2>1, <2>4, <2>5, AroundSound
<1>5. ASSUME NEW v \in Visits, MatchJob(v)
      PROVE  Sound'
  <2>1. /\ UNCHANGED <<setup, era, stored, index, old, samples, corpus, incoming>>
        /\ Quiet
    BY <1>5 DEF MatchJob, caches, session
  <2>2. Lasts /\ JobsShow'
    BY <1>1, <2>1 DEF Lasts, Lasting, JobsShow
  <2>3. \A u \in Visits \ {v} : job'[u] = job[u] /\ answer'[u] = answer[u]
    BY <1>1, <1>5 DEF MatchJob, Put, Base, Shapes, VisitShapes
  <2>4. Fresh(S(v)) => Reads(v)'
    BY <1>5, JobCovers
  <2>5. ASSUME ~setup.gap, ~setup.resets, NEW k \in DOMAIN memo', k[2] # None
        PROVE  Covers(stored, index, memo'[k], k[1], {k[2]})
    <3>1. k \in DOMAIN memo => Covers(stored, index, memo[k], k[1], {k[2]})
      BY <2>5 DEF IInv, Sound, MemoCovers
    <3>2. \/ memo' = memo
          \/ /\ job'[v] = "finished"
             /\ memo' = [q \in DOMAIN memo \cup {Question(v)} |->
                           IF q = Question(v) THEN answer'[v] ELSE memo[q]]
      BY <1>1, <1>5 DEF MatchJob, Put, Base, Shapes, VisitShapes
    <3>3. CASE k = Question(v) /\ job'[v] = "finished"
      <4>1. stage[v] # "query" /\ k[1] = ref[v].to /\ k[2] = ref[v].from
        BY <2>5, <3>3 DEF Question
      <4>2. Fresh(S(v)) /\ Asked(v) = {ref[v].from}
        BY <2>5, <4>1 DEF Fresh, Asked
      <4>3. Covers(stored, index, answer'[v], ref[v].to, {ref[v].from})
        BY <1>5, <3>3, <4>2, JobCovers
      <4>4. memo'[k] = answer'[v] \/ memo' = memo
        BY <2>5, <3>2, <3>3
      <4> QED
        BY <2>5, <3>1, <4>1, <4>3, <4>4
    <3>4. CASE ~(k = Question(v) /\ job'[v] = "finished")
      <4>1. k \in DOMAIN memo /\ memo'[k] = memo[k]
        BY <2>5, <3>2, <3>4
      <4> QED
        BY <3>1, <4>1
    <3> QED
      BY <3>3, <3>4
  <2>6. MemoCovers'
    BY <2>1, <2>5 DEF MemoCovers
  <2> QED
    BY <1>1, <2>1, <2>2, <2>3, <2>4, <2>6, AroundSound
<1>6. CASE Reset
  BY <1>1, <1>6, ResetSound
<1>7. CASE UNCHANGED vars
  <2>1. /\ UNCHANGED <<old, samples, corpus, incoming, job, answer, server>> /\ Quiet
        /\ JobsShow'
    BY <1>1, <1>7 DEF vars, caches, session, server, JobsShow, Quiet
  <2>2. Lasts /\ MemoCovers'
    BY <1>7, <2>1, ServerLasts, MemoLasts DEF vars, server
  <2> QED
    BY <1>1, <2>1, <2>2, AroundSound
<1>8. ASSUME NEW f \in Files, OtherUploads(f)
      PROVE  Sound'
  <2>1. /\ UNCHANGED <<setup, era, memo, old, samples, corpus, incoming, job, answer>>
        /\ Quiet /\ ~Stands(f)
    BY <1>8 DEF OtherUploads, caches, session
  <2>2. PICK x \in {"none", "queued"} : Add(f, x) /\ (x = "none" => setup.gap)
    BY <1>8 DEF OtherUploads, NewJob
  <2>3. /\ DOMAIN stored' = DOMAIN stored \cup {Len(stored) + 1}
        /\ \A i \in DOMAIN stored : /\ stored'[i] = stored[i]
                                    /\ index'[i] = index[i]
        /\ index'[Len(stored) + 1] = x
    BY <1>1, <2>1, <2>2, Added
  <2>4. Lasts /\ JobsShow'
    BY <1>1, <2>1, <2>2, <2>3 DEF Lasts, Lasting, JobsShow
  <2>5. MemoCovers'
    BY <2>1, <2>4, MemoLasts
  <2> QED
    BY <1>1, <2>1, <2>4, <2>5, AroundSound
<1>9. ASSUME NEW f \in Files, NEW s \in Sessions, AddNode(s, f)
      PROVE  Sound'
  <2>1. /\ UNCHANGED <<setup, server, old, samples, corpus, job, answer>> /\ Quiet
        /\ incoming' = [incoming EXCEPT ![s] = Append(incoming[s], f)]
    BY <1>9 DEF AddNode, Put, caches
  <2>2. \A t \in Sessions : ToSet(incoming[t]) \subseteq ToSet(incoming'[t])
    <3>1. incoming \in [Sessions -> Seq(Files \ {Target})]
      BY <1>1 DEF Base, Shapes, ServerShapes
    <3>2. \A q \in Seq(Files \ {Target}) : ToSet(q) \subseteq ToSet(Append(q, f))
      BY DEF ToSet
    <3>3. \A t \in Sessions : \/ incoming'[t] = incoming[t]
                              \/ incoming'[t] = Append(incoming[t], f)
      BY <2>1, <3>1
    <3> QED
      BY <3>1, <3>2, <3>3
  <2>3. Lasts /\ JobsShow'
    BY <1>1, <2>1, ServerLasts DEF JobsShow, server
  <2>4. MemoCovers'
    BY <2>1, <2>3, MemoLasts DEF server
  <2> QED
    BY <1>1, <2>1, <2>2, <2>3, <2>4, AroundSound
<1>10. ASSUME NEW f \in Files, NEW v \in Visits, Arrives(v, f)
       PROVE  Sound'
  <2>1. /\ UNCHANGED <<setup, era, memo, old, samples, corpus, incoming, job, answer>>
        /\ Quiet
    BY <1>10 DEF Arrives, caches, session
  <2>2. CASE UNCHANGED <<stored, index>>
    <3>1. Lasts /\ JobsShow'
      BY <1>1, <2>1, <2>2 DEF Lasts, Lasting, JobsShow
    <3>2. MemoCovers'
      BY <2>1, <3>1, MemoLasts
    <3> QED
      BY <1>1, <2>1, <3>1, <3>2, AroundSound
  <2>3. ASSUME NEW x \in {"none", "queued"}, Add(f, x), ~Stands(f),
               x = "none" => setup.gap
        PROVE  Sound'
    <3>1. /\ DOMAIN stored' = DOMAIN stored \cup {Len(stored) + 1}
          /\ \A i \in DOMAIN stored : /\ stored'[i] = stored[i]
                                      /\ index'[i] = index[i]
          /\ index'[Len(stored) + 1] = x
      BY <1>1, <2>3, Added
    <3>2. Lasts /\ JobsShow'
      BY <1>1, <2>1, <2>3, <3>1 DEF Lasts, Lasting, JobsShow
    <3>3. MemoCovers'
      BY <2>1, <3>2, MemoLasts
    <3> QED
      BY <1>1, <2>1, <3>2, <3>3, AroundSound
  <2> QED
    BY <1>10, <2>2, <2>3 DEF Arrives, NewJob
<1> QED
  BY <1>3, <1>4, <1>5, <1>6, <1>7, <1>8, <1>9, <1>10 DEF JobsEnd, Elsewhere

LEMMA InitSound == Init => IInv
<1> SUFFICES ASSUME Init PROVE IInv
  OBVIOUS
<1>1. /\ \A s \in Sessions, f \in Files : samples[s][f] = None
      /\ corpus = << >> /\ memo = << >> /\ \A i \in DOMAIN stored : index[i] = "done"
      /\ \A v \in Visits : /\ pc[v] = "idle" /\ stage[v] = "from"
                           /\ job[v] = None /\ outcome[v] = "none"
  BY DEF Init
<1>2. SamplesSettled /\ IdleSessions /\ Listed /\ JobsShow
  BY <1>1 DEF SamplesSettled, IdleSessions, Listed, JobsShow
<1>3. CorpusCovers /\ MemoCovers
  <2>1. DOMAIN << >> = {}
    OBVIOUS
  <2> QED
    BY <1>1, <2>1 DEF CorpusCovers, MemoCovers
<1>4. \A v \in Visits : Holds(v)
  BY <1>1, QueryConstants DEF Holds, Awaits, Knows, Collects, Reads
<1> QED
  BY <1>2, <1>3, <1>4, InitBase DEF IInv, Sound

LEMMA NextSound == IInv /\ [Next]_vars => IInv'
  BY VisitKeeps, AroundKeeps, VisitOrElsewhere

LEMMA SoundCovers == IInv => AnswerCoversTheEdge
<1> SUFFICES ASSUME IInv, NEW v \in Visits, outcome[v] = "answered",
                    ~setup.gap, ~Unindexed(v),
                    setup.resets => /\ S(v) \notin old
                                    /\ ~setup.perNode /\ ~setup.remembers
             PROVE  /\ answer[v].own = Target
                    /\ ref[v].from \in DOMAIN answer[v].of
                    /\ answer[v].of[ref[v].from] = From(v)
  BY DEF AnswerCoversTheEdge
<1>1. Holds(v) /\ stage[v] \in {"query", "vs"}
  BY DEF IInv, Sound, Fresh, Base, Places, At
<1>2. /\ SampleOf(stored, index, ref[v].from, From(v))
      /\ SampleOf(stored, index, ref[v].to, Target)
      /\ Covers(stored, index, answer[v], ref[v].to, {ref[v].from})
  BY <1>1 DEF Holds, Knows, Reads
<1>3. index[ref[v].from] = "done" /\ index[ref[v].to] = "done"
  BY <1>2 DEF SampleOf, Settled, Unindexed
<1> QED
  BY <1>2, <1>3 DEF Covers, SampleOf

(* The answer that a visit reads its matches from is about the node's file
   and covers the other file of its edge, under the id the visit looks for:
   for any files, visits and sessions, whatever fails or is stopped, whoever
   uploads samples and whatever nodes are added in between. *)
THEOREM AnswersCover == Spec => []AnswerCoversTheEdge
  BY InitSound, NextSound, SoundCovers, PTL DEF Spec

-----------------------------------------------------------------------------
(* The types, and who may fail *)

(* The ids that may be about: while there is no reset, those of samples. *)
KnownIds == IF setup.resets THEN Nat ELSE DOMAIN stored

(* What may fail the visit of an edge, by the circumstances. *)
Excused(v) ==
    \/ setup.faults \cap {"from", "to", "vs"} # {} \/ setup.resets
    \/ ~setup.persist /\ ~({From(v), Target} \subseteq ToSet(setup.stored))

Kept(v) ==
    /\ found[v] # None => /\ found[v][2] \in KnownIds
                          /\ setup.resets \/ found[v][1] = era
    /\ ids[v] \subseteq KnownIds
    /\ stage[v] # "from" => ref[v].from \in KnownIds
    /\ pc[v] = "match" \/ stage[v] \in {"node", "query", "vs"} =>
          ref[v].to \in KnownIds
    /\ tries[v] \in 0..(Attempts - 1)
    /\ pc[v] = "done" <=> outcome[v] \in {"answered", "failed", "stopped"}
    /\ job[v] = "failed" => setup.resets \/ stage[v] \in setup.faults
    /\ outcome[v] = "failed" => Excused(v)
    /\ outcome[v] = "stopped" => v \in stopped

ServerKept ==
    ~setup.resets =>
       /\ ToSet(setup.stored) \subseteq ToSet(stored)
       /\ \A i \in DOMAIN stored : index[i] = "failed" => "to" \in setup.faults

SharedKept ==
    /\ era \in 0..1 /\ old \subseteq Sessions /\ stopped \subseteq setup.stops
    /\ \A s \in Sessions : /\ IsInjective(incoming[s])
                           /\ samples[s] \in [Files -> KnownIds \cup {None}]
    /\ \A k \in DOMAIN corpus : k = <<k[1], k[2]>> /\ k[2] \subseteq Nat
    /\ DOMAIN tries = Visits

Ind == IInv /\ ServerKept /\ SharedKept /\ \A v \in Visits : Kept(v)

(* Known ids stay known. *)
Widens == setup' = setup /\ KnownIds \subseteq KnownIds'

LEMMA LastingWidens ==
    ASSUME setup' = setup, Lasts
    PROVE  Widens
  BY DEF Widens, KnownIds, Lasts, Lasting

LEMMA StillKept ==
    ASSUME NEW v, Same(v), tries'[v] = tries[v], Widens, era' = era \/ setup.resets,
           stopped \subseteq stopped', Kept(v)
    PROVE  Kept(v)'
<1>1. Excused(v)' = Excused(v)
  BY DEF Excused, From, Widens
<1> QED
  BY <1>1 DEF Kept, Same, Widens

(* What the three ways of going on keep. *)
LEMMA KeptGivingUp ==
    ASSUME Base, NEW v \in Visits, Kept(v), DOMAIN tries = Visits,
           NEW o \in {"failed", "stopped"}, GiveUp(v, o),
           pc[v] \notin {"idle", "done"}, Widens, stopped' = stopped,
           o = "failed" => Shared(v) \/ Excused(v),
           o = "stopped" => v \in stopped
    PROVE  Kept(v)'
<1> USE QueryConstants DEF Base, Shapes, VisitShapes, Goto, Put, End
<1>1. /\ From(v)' = From(v) /\ setup' = setup /\ found'[v] = None
      /\ UNCHANGED <<ref, ids>> /\ job'[v] = None /\ tries'[v] = 0
      /\ \/ /\ Shared(v) /\ stage'[v] = "vs" /\ outcome'[v] = outcome[v]
            /\ pc'[v] = "ask"
         \/ /\ ~Shared(v) /\ stage'[v] = stage[v] /\ outcome'[v] = o
            /\ pc'[v] = "done"
  BY DEF GiveUp, From, Widens
<1>2. Excused(v)' = Excused(v)
  BY <1>1 DEF Excused
<1>3. ids'[v] \subseteq KnownIds'
  BY <1>1 DEF Kept, Widens
<1>4. stage'[v] # "from" => ref'[v].from \in KnownIds'
  BY <1>1 DEF Kept, Widens, Shared
<1>5. pc'[v] = "match" \/ stage'[v] \in {"node", "query", "vs"} =>
         ref'[v].to \in KnownIds'
  BY <1>1 DEF Kept, Widens, Shared
<1>6. /\ pc'[v] = "done" <=> outcome'[v] \in {"answered", "failed", "stopped"}
      /\ outcome'[v] = "failed" => Excused(v)'
      /\ outcome'[v] = "stopped" => v \in stopped'
  BY <1>1, <1>2 DEF Kept
<1>7. tries'[v] \in 0..(Attempts - 1)
  BY <1>1
<1> QED
  BY <1>1, <1>3, <1>4, <1>5, <1>6, <1>7 DEF Kept

LEMMA KeptFinding ==
    ASSUME Base, NEW v \in Visits, Kept(v), NEW id, id \in KnownIds', Have(v, id),
           stage[v] \in {"from", "to", "node"},
           pc[v] \in {"want"} \cup Ensuring, Widens
    PROVE  Kept(v)'
<1> USE QueryConstants DEF Base, Shapes, VisitShapes, Have, Goto, Put
<1>1. /\ At(v) /\ setup' = setup /\ found'[v] = None /\ job'[v] = None
      /\ tries'[v] = tries[v] /\ outcome'[v] = outcome[v]
      /\ pc'[v] \in {"want", "match"} /\ id \in KnownIds'
  BY DEF Places, At, Ensuring, Widens
<1>2. pc[v] # "done" /\ outcome'[v] \notin {"answered", "failed", "stopped"}
  BY <1>1 DEF Kept, Ensuring
<1>3. /\ ids'[v] \subseteq KnownIds'
      /\ stage'[v] # "from" => ref'[v].from \in KnownIds'
      /\ pc'[v] = "match" \/ stage'[v] \in {"node", "query", "vs"} =>
            ref'[v].to \in KnownIds'
  <2>1. CASE /\ stage[v] = "from" /\ stage'[v] = "to" /\ pc'[v] = "want"
             /\ ref'[v] = [from |-> id, to |-> None] /\ ids'[v] = ids[v]
    BY <1>1, <2>1 DEF Kept, Widens
  <2>2. CASE /\ stage[v] = "to" /\ stage'[v] = "to" /\ ids'[v] = ids[v]
             /\ ref'[v] = [ref[v] EXCEPT !.to = id]
    <3>1. ref'[v].from = ref[v].from
      BY <2>2
    <3>2. ref'[v].to \in KnownIds'
      <4>1. ref' = [ref EXCEPT ![v] = [ref[v] EXCEPT !.to = id]]
        BY <2>2
      <4> QED
        BY <1>1, <2>2
    <3> QED
      BY <1>1, <2>2, <3>1, <3>2 DEF Kept, Widens
  <2>3. CASE /\ stage[v] = "node" /\ ref'[v] = ref[v]
             /\ ids'[v] = ids[v] \cup {id}
    BY <1>1, <2>3 DEF Kept, Widens
  <2> QED
    BY <2>1, <2>2, <2>3
<1> QED
  BY <1>1, <1>2, <1>3 DEF Kept

LEMMA KeptAnswered ==
    ASSUME Base, NEW v \in Visits, Kept(v), NEW a, Receives(v, a), Widens,
           found[v] = None, stopped' = stopped
    PROVE  Kept(v)'
<1> USE QueryConstants DEF Base, Shapes, VisitShapes, Receives, Goto, Put, End
<1>1. /\ setup' = setup /\ pc'[v] = "done" /\ job'[v] = None
      /\ UNCHANGED <<stage, ref, ids, tries, found>>
      /\ outcome'[v] = IF v \in stopped THEN "stopped" ELSE "answered"
  BY DEF Widens
<1>2. /\ ids'[v] \subseteq KnownIds'
      /\ stage'[v] # "from" => ref'[v].from \in KnownIds'
      /\ stage'[v] \in {"node", "query", "vs"} => ref'[v].to \in KnownIds'
  BY <1>1 DEF Kept, Widens
<1> QED
  BY <1>1, <1>2 DEF Kept

(* What every step of a visit adds to that. *)
Keeps(v) ==
    /\ Widens /\ Kept(v)' /\ ServerKept' /\ UNCHANGED <<era, session>>
    /\ DOMAIN tries' = Visits /\ \A u \in Visits \ {v} : tries'[u] = tries[u]
    /\ \/ samples' = samples
       \/ \E id \in KnownIds' : samples' = [samples EXCEPT ![S(v)][File(v)] = id]
    /\ \A k \in DOMAIN corpus' : k = <<k[1], k[2]>> /\ k[2] \subseteq Nat

LEMMA KnownAreNat ==
    ASSUME Base
    PROVE  KnownIds \subseteq Nat
  BY DEF KnownIds, Base, Shapes, ServerShapes

(* The part of it that follows where the server is as it was. *)
LEMMA KeepsQuietly ==
    ASSUME Ind, NEW v \in Visits, UNCHANGED <<setup, server, caches, session>>,
           Widens => Kept(v)',
           tries' = tries \/ \E n : tries' = [tries EXCEPT ![v] = n]
    PROVE  Keeps(v)
<1>1. Widens
  BY ServerLasts, LastingWidens
<1>2. ServerKept'
  BY DEF Ind, ServerKept, server
<1> QED
  BY <1>1, <1>2 DEF Keeps, Ind, SharedKept, server, caches

LEMMA KeepsGivingUp ==
    ASSUME Ind, NEW v \in Visits,
           \/ Cancel(v) \/ ViewGone(v) \/ NotPersisted(v) \/ ReadFails(v)
           \/ IndexFailed(v) \/ AskFails(v) \/ MatchFails(v)
    PROVE  Keeps(v)
<1>1. /\ Base /\ At(v) /\ Kept(v) /\ ServerKept /\ DOMAIN tries = Visits
      /\ stage[v] \in Stages
  BY DEF Ind, SharedKept, IInv, Base, Places, Shapes, VisitShapes
<1>2. /\ UNCHANGED <<setup, server, caches, session>>
      /\ pc[v] \notin {"idle", "done"}
  BY DEF Cancel, ViewGone, NotPersisted, ReadFails, IndexFailed, AskFails,
         MatchFails
<1>3. PICK o \in {"failed", "stopped"} :
         /\ GiveUp(v, o) /\ (o = "stopped" => v \in stopped)
         /\ o = "failed" => Shared(v) \/ Excused(v)
  <2>1. CASE Cancel(v)
    BY <2>1 DEF Cancel
  <2>2. CASE ViewGone(v)
    BY <2>2 DEF ViewGone, Shared
  <2>3. CASE NotPersisted(v)
    <3>1. /\ ~setup.persist /\ File(v) \notin ToSet(stored)
          /\ GiveUp(v, "failed") /\ stage[v] \in {"from", "to", "node"}
      BY <1>1, <2>3 DEF NotPersisted, Stands, At, Ensuring, Stages
    <3>2. CASE stage[v] = "node"
      BY <3>1, <3>2 DEF Shared
    <3>3. CASE stage[v] \in {"from", "to"}
      <4>1. File(v) \in {From(v), Target}
        BY <3>3, FileOf
      <4>2. ~setup.resets => File(v) \notin ToSet(setup.stored)
        BY <1>1, <3>1 DEF ServerKept
      <4>3. Excused(v)
        BY <3>1, <4>1, <4>2 DEF Excused
      <4> QED
        BY <3>1, <4>3
    <3> QED
      BY <3>1, <3>2, <3>3
  <2>4. CASE ReadFails(v)
    <3>1. /\ stage[v] \in setup.faults /\ GiveUp(v, "failed")
          /\ stage[v] \in {"from", "to", "node"}
      BY <1>1, <2>4 DEF ReadFails, At, Ensuring, Stages
    <3> QED
      BY <3>1 DEF Shared, Excused
  <2>5. CASE IndexFailed(v)
    <3>1. GiveUp(v, "failed") /\ found[v] # None
      BY <1>1, <2>5 DEF IndexFailed, At
    <3>2. ~setup.resets => index[found[v][2]] = "failed"
      BY <1>1, <2>5, <3>1
         DEF IndexFailed, JobState, Kept, KnownIds, Base, Shapes, ServerShapes
    <3>3. ~setup.resets => "to" \in setup.faults
      BY <1>1, <3>1, <3>2 DEF Kept, KnownIds, ServerKept
    <3> QED
      BY <3>1, <3>3 DEF Excused
  <2>6. CASE AskFails(v)
    <3>1. /\ GiveUp(v, "failed") /\ pc[v] = "ask"
          /\ ~Known(v) \/ stage[v] \in setup.faults
          /\ stage[v] \in {"query", "vs"}
      BY <1>1, <2>6 DEF AskFails, At, Ensuring, Stages
    <3>2. ~setup.resets => Known(v)
      BY <1>1, <3>1 DEF Known, Kept, KnownIds
    <3> QED
      BY <3>1, <3>2 DEF Shared, Excused
  <2>7. CASE MatchFails(v)
    <3>1. /\ GiveUp(v, "failed") /\ stage[v] \in {"query", "vs"}
          /\ setup.resets \/ stage[v] \in setup.faults
      BY <1>1, <2>7 DEF MatchFails, At, Ensuring, Stages, Kept
    <3> QED
      BY <3>1 DEF Shared, Excused
  <2> QED
    BY <2>1, <2>2, <2>3, <2>4, <2>5, <2>6, <2>7
<1>4. Widens => Kept(v)'
  BY <1>1, <1>2, <1>3, KeptGivingUp DEF session
<1>5. tries' = [tries EXCEPT ![v] = 0]
  BY <1>3 DEF GiveUp, Put
<1> QED
  BY <1>2, <1>4, <1>5, KeepsQuietly

(* A sample that is taken from what the server said. *)
LEMMA KeepsIndexedKept ==
    ASSUME Ind, NEW v \in Visits, pc[v] \in {"jobs", "await"}, Keep(v),
           UNCHANGED <<setup, server, corpus, session>>
    PROVE  Keeps(v)
<1>1. Base /\ Kept(v) /\ found[v] # None
  BY DEF Ind, IInv, Base, Places, At
<1>2. /\ found[v][2] \in KnownIds /\ stage[v] \in {"from", "to", "node"}
      /\ Have(v, found[v][2]) /\ tries' = tries
      /\ samples' = [samples EXCEPT ![S(v)][File(v)] = found[v][2]]
  BY <1>1, FoundId DEF Kept, Keep, Have
<1>3. Widens /\ KnownIds' = KnownIds
  <2>1. Widens
    BY ServerLasts, LastingWidens
  <2>2. stored' = stored
    BY DEF server
  <2> QED
    BY <2>1, <2>2 DEF KnownIds
<1>4. Kept(v)'
  BY <1>1, <1>2, <1>3, KeptFinding DEF Ensuring
<1>5. ServerKept'
  BY DEF Ind, ServerKept, server
<1> QED
  BY <1>2, <1>3, <1>4, <1>5 DEF Keeps, Ind, SharedKept, server

LEMMA KeepsFinding ==
    ASSUME Ind, NEW v \in Visits,
           HitSample(v) \/ PendingJob(v) \/ Indexed(v)
    PROVE  Keeps(v)
<1>1. Base /\ Kept(v) /\ At(v) /\ DOMAIN tries = Visits
  BY DEF Ind, IInv, Base, Places, SharedKept
<1>2. CASE HitSample(v)
  <2>1. stage[v] \in {"from", "to", "node"} /\ pc[v] = "want"
    BY <1>1, <1>2
       DEF HitSample, Wants, Base, Shapes, At, VisitShapes, Stages, Ensuring
  <2>2. samples[S(v)][File(v)] \in KnownIds
    BY <1>1, <1>2, <2>1, FileType DEF HitSample, Ind, SharedKept
  <2>3. /\ UNCHANGED <<setup, server, caches, session>> /\ tries' = tries
        /\ Have(v, samples[S(v)][File(v)])
    BY <1>2 DEF HitSample, Have
  <2>4. KnownIds' = KnownIds
    BY <2>3 DEF KnownIds, server
  <2>5. Widens => Kept(v)'
    BY <1>1, <2>1, <2>2, <2>3, <2>4, KeptFinding
  <2> QED
    BY <2>3, <2>5, KeepsQuietly
<1>3. CASE PendingJob(v) /\ JobState(v) = "queued"
  <2>1. /\ UNCHANGED <<setup, server, caches, session>>
        /\ pc[v] = "jobs" /\ pc' = [pc EXCEPT ![v] = "await"]
        /\ UNCHANGED <<found, ref, stage, left, ids, job, answer, outcome>>
        /\ tries' = [tries EXCEPT ![v] = 0]
    BY <1>3 DEF PendingJob, Goto, Put, caches
  <2>2. pc'[v] = "await" /\ tries'[v] = 0 /\ UNCHANGED <<era, stopped>>
    BY <1>1, <2>1 DEF Base, Shapes, VisitShapes, server, session
  <2>3. Excused(v)' = Excused(v)
    BY <2>1 DEF Excused, From
  <2>4. Widens => Kept(v)'
    BY <1>1, <2>1, <2>2, <2>3, QueryConstants DEF Kept, Widens
  <2> QED
    BY <2>1, <2>4, KeepsQuietly
<1>4. CASE PendingJob(v) /\ JobState(v) # "queued"
  BY <1>4, KeepsIndexedKept DEF PendingJob
<1>5. CASE Indexed(v)
  BY <1>5, KeepsIndexedKept DEF Indexed
<1> QED
  BY <1>2, <1>3, <1>4, <1>5

LEMMA KeepsAnswers ==
    ASSUME Ind, NEW v \in Visits, HitPayload(v) \/ Matched(v)
    PROVE  Keeps(v)
<1>1. /\ Base /\ Kept(v) /\ At(v) /\ DOMAIN tries = Visits
      /\ \A k \in DOMAIN corpus : k = <<k[1], k[2]>> /\ k[2] \subseteq Nat
  BY DEF Ind, IInv, Base, Places, SharedKept
<1>2. CASE HitPayload(v)
  <2>1. /\ UNCHANGED <<setup, server, caches, session, tries>>
        /\ Receives(v, corpus[Key(v)])
    BY <1>2 DEF HitPayload, Receives
  <2>2. found[v] = None
    BY <1>1, <1>2 DEF HitPayload, At
  <2>3. Widens => Kept(v)'
    BY <1>1, <2>1, <2>2, KeptAnswered DEF session
  <2> QED
    BY <2>1, <2>3, KeepsQuietly
<1>3. CASE Matched(v)
  <2>1. /\ UNCHANGED <<setup, server, samples, session, tries>>
        /\ Receives(v, answer[v])
    BY <1>3 DEF Matched, Receives
  <2>2. found[v] = None
    BY <1>1, <1>3 DEF Matched, At
  <2>3. Widens
    BY <2>1, ServerLasts, LastingWidens
  <2>4. Kept(v)'
    BY <1>1, <2>1, <2>2, <2>3, KeptAnswered DEF session
  <2>5. ServerKept'
    BY <2>1 DEF Ind, ServerKept, server
  <2>6. \A k \in DOMAIN corpus' : k \in DOMAIN corpus \cup {Key(v)}
    BY <1>3 DEF Matched
  <2>7. Key(v) = <<Key(v)[1], Key(v)[2]>> /\ Key(v)[2] \subseteq Nat
    BY <1>1, KnownAreNat DEF Key, Kept
  <2> QED
    BY <1>1, <2>1, <2>3, <2>4, <2>5, <2>6, <2>7 DEF Keeps, server
<1> QED
  BY <1>2, <1>3

LEMMA KeepsMovingOn ==
    ASSUME Ind, NEW v \in Visits,
           \/ Begin(v) \/ ClaimSample(v) \/ LookUp(v) \/ ReadAgain(v)
           \/ StartMatch(v) \/ ClaimPayload(v) \/ Ask(v) \/ Recall(v)
    PROVE  Keeps(v)
<1> USE QueryConstants DEF Goto, Put
<1>1. /\ Base /\ Kept(v) /\ At(v) /\ DOMAIN tries = Visits
      /\ VisitShapes
  BY DEF Ind, IInv, Base, Shapes, Places, SharedKept
<1>2. /\ UNCHANGED <<setup, server, caches, session>>
      /\ From(v)' = From(v) /\ UNCHANGED <<era, stored, stopped>>
      /\ ref'[v] = ref[v] /\ ids'[v] = ids[v] /\ outcome'[v] = outcome[v]
  BY DEF Begin, ClaimSample, LookUp, ReadAgain, StartMatch, ClaimPayload, Ask,
         Recall, From, server, session
<1>3. Excused(v)' = Excused(v) /\ KnownIds' = KnownIds
  BY <1>2 DEF Excused, KnownIds
<1>4. ASSUME tries'[v] \in 0..(Attempts - 1),
             found'[v] # None => /\ found'[v][2] \in KnownIds
                                 /\ setup.resets \/ found'[v][1] = era,
             job'[v] = "failed" => job[v] = "failed" /\ stage'[v] = stage[v],
             pc[v] # "done", pc'[v] \notin {"done", "match"},
             \/ stage'[v] = stage[v]
             \/ pc[v] = "match" /\ stage[v] = "to"
      PROVE  Kept(v)'
  BY <1>1, <1>2, <1>3, <1>4 DEF Kept
<1>5. CASE Begin(v)
  <2>1. /\ pc'[v] = "want" /\ UNCHANGED <<stage, found, tries, job>>
        /\ pc[v] = "idle"
    BY <1>1, <1>5 DEF Begin, VisitShapes
  <2> QED
    BY <1>1, <1>2, <1>4, <2>1, KeepsQuietly DEF Kept
<1>6. CASE ClaimSample(v)
  <2>1. /\ pc'[v] = "lookup" /\ UNCHANGED <<stage, found, tries, job>>
        /\ pc[v] = "want"
    BY <1>1, <1>6 DEF ClaimSample, Wants, VisitShapes
  <2> QED
    BY <1>1, <1>2, <1>4, <2>1, KeepsQuietly DEF Kept
<1>7. CASE LookUp(v)
  <2>1. /\ pc'[v] \in {"jobs", "upload"} /\ UNCHANGED <<stage, job>>
        /\ pc[v] = "lookup" /\ tries' = [tries EXCEPT ![v] = 0]
    BY <1>1, <1>7 DEF LookUp, VisitShapes
  <2>2. \/ found'[v] = found[v]
        \/ found'[v] = <<era, Id(File(v))>> /\ Stands(File(v))
    BY <1>1, <1>7 DEF LookUp, VisitShapes
  <2>3. Stands(File(v)) => Id(File(v)) \in KnownIds
    <3>1. Stands(File(v)) => Id(File(v)) \in DOMAIN stored
      BY DEF Stands, Id, ToSet
    <3>2. DOMAIN stored \subseteq Nat
      BY <1>1 DEF Base, Shapes, ServerShapes
    <3> QED
      BY <3>1, <3>2 DEF KnownIds
  <2>4. found'[v] # None => /\ found'[v][2] \in KnownIds
                            /\ setup.resets \/ found'[v][1] = era
    BY <1>1, <2>2, <2>3 DEF Kept
  <2>5. tries'[v] \in 0..(Attempts - 1)
    BY <1>1, <2>1
  <2> QED
    BY <1>1, <1>2, <1>4, <2>1, <2>4, <2>5, KeepsQuietly
<1>8. CASE ReadAgain(v)
  <2>1. /\ UNCHANGED <<pc, stage, found, job>> /\ pc[v] \in {"lookup", "jobs"}
        /\ tries' = [tries EXCEPT ![v] = tries[v] + 1]
        /\ tries[v] + 1 < Attempts
    BY <1>8 DEF ReadAgain
  <2>2. tries'[v] \in 0..(Attempts - 1)
    BY <1>1, <2>1 DEF Kept
  <2> QED
    BY <1>1, <1>2, <1>4, <2>1, <2>2, KeepsQuietly DEF Kept
<1>9. CASE StartMatch(v)
  <2>1. /\ pc'[v] \in {"want", "ask"} /\ UNCHANGED <<found, job, tries>>
        /\ pc[v] = "match" /\ stage[v] = "to"
    BY <1>1, <1>9 DEF StartMatch, VisitShapes, At, Ensuring, Stages
  <2>2. job'[v] # "failed"
    BY <1>1, <2>1 DEF At
  <2> QED
    BY <1>1, <1>2, <1>4, <2>1, <2>2, KeepsQuietly DEF Kept
<1>10. CASE ClaimPayload(v)
  <2>1. /\ pc'[v] = "ask" /\ UNCHANGED <<stage, found, tries, job>>
        /\ pc[v] = "want"
    BY <1>1, <1>10 DEF ClaimPayload, VisitShapes
  <2> QED
    BY <1>1, <1>2, <1>4, <2>1, KeepsQuietly DEF Kept
<1>11. CASE Ask(v)
  <2>1. /\ pc'[v] = "matching" /\ UNCHANGED <<stage, found, tries>>
        /\ pc[v] = "ask" /\ job'[v] = "running"
    BY <1>1, <1>11 DEF Ask, VisitShapes
  <2> QED
    BY <1>1, <1>2, <1>4, <2>1, KeepsQuietly DEF Kept
<1>12. CASE Recall(v)
  <2>1. /\ pc'[v] = "matching" /\ UNCHANGED <<stage, found, tries>>
        /\ pc[v] = "ask" /\ job'[v] = "finished"
    BY <1>1, <1>12 DEF Recall, VisitShapes
  <2> QED
    BY <1>1, <1>2, <1>4, <2>1, KeepsQuietly DEF Kept
<1> QED
  BY <1>5, <1>6, <1>7, <1>8, <1>9, <1>10, <1>11, <1>12

LEMMA KeepsUploading ==
    ASSUME Ind, NEW v \in Visits,
           Upload(v) \/ UploadWithoutJob(v) \/ UploadLost(v)
    PROVE  Keeps(v)
<1>1. /\ Base /\ Kept(v) /\ At(v) /\ ServerKept /\ DOMAIN tries = Visits
      /\ IInv /\ Moves(v) /\ Adds(v)
  BY Uploading, AddsUploading DEF Ind, IInv, Base, Places, SharedKept
<1>2. /\ pc[v] = "upload" /\ UNCHANGED <<setup, era, memo, corpus, session>>
      /\ Widens
  BY <1>1, LastingWidens DEF Upload, UploadWithoutJob, UploadLost, Adds, caches
<1>3. /\ File(v) \in Files /\ stage[v] \in {"from", "to", "node"}
      /\ setup \in Setups
  BY <1>1, <1>2, FileType
     DEF Base, Shapes, ServerShapes, VisitShapes, At, Ensuring, Stages
<1>4. ServerKept'
  <2>1. \A i \in DOMAIN stored' : index'[i] = "failed" =>
           i \in DOMAIN stored /\ index[i] = "failed"
    <3>1. CASE UNCHANGED <<stored, index>>
      BY <3>1
    <3>2. ASSUME NEW x \in {"none", "queued"}, ~Stands(File(v)), Add(File(v), x)
          PROVE  \A i \in DOMAIN stored' : index'[i] = "failed" =>
                    i \in DOMAIN stored /\ index[i] = "failed"
      <4> DEFINE f == File(v)
      <4>1. ~Stands(f) /\ Add(f, x) /\ f \in Files
        BY <1>3, <3>2
      <4> HIDE DEF f
      <4> QED
        BY <1>1, <4>1, Added
    <3> QED
      BY <3>1, <3>2 DEF Upload, UploadWithoutJob, UploadLost, Receive
  <2>2. ToSet(setup.stored) \subseteq Files
    BY <1>3, SetupConstants DEF ToSet
  <2>3. ~setup.resets => ToSet(setup.stored) \subseteq ToSet(stored')
    BY <1>1, <2>2 DEF ServerKept, Moves, Grows, Stands
  <2> QED
    BY <1>1, <1>2, <2>1, <2>3 DEF ServerKept
<1>5. ASSUME Kept(v)', DOMAIN tries' = Visits,
             \A u \in Visits \ {v} : tries'[u] = tries[u],
             \/ samples' = samples
             \/ \E id \in KnownIds' : samples' = [samples EXCEPT ![S(v)][File(v)] = id]
      PROVE  Keeps(v)
  BY <1>2, <1>4, <1>5 DEF Keeps, Ind, SharedKept, caches
<1>6. CASE Upload(v)
  <2>1. /\ tries' = tries /\ UNCHANGED <<stage, ref, ids, job, outcome, stopped>>
        /\ pc'[v] \in {"jobs", "await"}
    BY <1>1, <1>6 DEF Upload, Goto, Put, Base, Shapes, VisitShapes, session
  <2>2. found'[v][2] \in KnownIds' /\ found'[v][1] = era
    <3>1. CASE Stands(File(v))
      <4>1. found'[v] = <<era, Id(File(v))>>
        BY <1>1, <1>6, <3>1 DEF Upload, Put, Base, Shapes, VisitShapes
      <4>2. Id(File(v)) \in DOMAIN stored /\ DOMAIN stored \subseteq Nat
        BY <1>1, <3>1 DEF Stands, Id, ToSet, Base, Shapes, ServerShapes
      <4> QED
        BY <1>2, <4>1, <4>2 DEF Widens, KnownIds
    <3>2. CASE ~Stands(File(v))
      <4>1. found'[v] = <<era, Len(stored) + 1>>
        BY <1>1, <1>6, <3>2 DEF Upload, Put, Base, Shapes, VisitShapes
      <4>2. Len(stored) + 1 \in DOMAIN stored' /\ Len(stored) + 1 \in Nat
        BY <1>1, <1>2, <1>6, <3>2, ReceiveLasts
           DEF Upload, Base, Shapes, ServerShapes
      <4> QED
        BY <1>2, <4>1, <4>2 DEF KnownIds
    <3> QED
      BY <3>1, <3>2
  <2>3. Excused(v)' = Excused(v)
    BY <1>2 DEF Excused, From
  <2>4. Kept(v)'
    BY <1>1, <1>2, <2>1, <2>2, <2>3 DEF Kept, Widens
  <2> QED
    BY <1>1, <1>5, <1>6, <2>1, <2>4 DEF Upload, caches
<1>7. CASE UploadLost(v)
  <2>1. /\ GiveUp(v, "failed") /\ stage[v] \in setup.faults
        /\ tries' = [tries EXCEPT ![v] = 0] /\ stopped' = stopped
    BY <1>7 DEF UploadLost, GiveUp, Put, session
  <2>2. Shared(v) \/ Excused(v)
    BY <1>3, <2>1 DEF Shared, Excused
  <2>3. Kept(v)'
    BY <1>1, <1>2, <2>1, <2>2, KeptGivingUp
  <2> QED
    BY <1>1, <1>5, <1>7, <2>1, <2>3 DEF UploadLost, caches
<1>8. CASE UploadWithoutJob(v)
  <2>1. /\ Receive(v, "none") /\ setup.gap /\ ~Stands(File(v))
        /\ Have(v, Len(stored) + 1) /\ tries' = tries
        /\ samples' = [samples EXCEPT ![S(v)][File(v)] = Len(stored) + 1]
    BY <1>8 DEF UploadWithoutJob, Have
  <2>2. Len(stored) + 1 \in KnownIds'
    <3>1. Len(stored) + 1 \in DOMAIN stored' /\ Len(stored) + 1 \in Nat
      BY <1>1, <1>2, <2>1, ReceiveLasts DEF Base, Shapes, ServerShapes
    <3> QED
      BY <1>2, <3>1 DEF KnownIds
  <2>3. Kept(v)'
    BY <1>1, <1>2, <1>3, <2>1, <2>2, KeptFinding DEF Ensuring
  <2> QED
    BY <1>1, <1>5, <2>1, <2>2, <2>3
<1> QED
  BY <1>6, <1>7, <1>8

LEMMA VisitInd ==
    ASSUME Ind, NEW v \in Visits, Visit(v) \/ Begin(v)
    PROVE  Ind'
<1>1. IInv' /\ Base /\ OthersSame(v)
  BY VisitKeeps, VisitMoves DEF Ind, IInv, Moves
<1>2. Keeps(v)
  BY KeepsMovingOn, KeepsGivingUp, KeepsFinding, KeepsAnswers, KeepsUploading
     DEF Visit
<1>3. /\ Widens /\ ServerKept' /\ UNCHANGED <<era, incoming, old, stopped>>
      /\ setup' = setup
  BY <1>2 DEF Keeps, session, Widens
<1>4. \A u \in Visits : Kept(u)'
  <2>1. ASSUME NEW u \in Visits \ {v}
        PROVE  Kept(u)'
    BY <1>1, <1>2, <1>3, StillKept DEF Ind, Keeps, OthersSame
  <2> QED
    BY <1>2, <2>1 DEF Keeps
<1>5. \A s \in Sessions : samples'[s] \in [Files -> KnownIds' \cup {None}]
  <2>1. /\ \A s \in Sessions : samples[s] \in [Files -> KnownIds \cup {None}]
        /\ DOMAIN samples = Sessions
    BY DEF Ind, IInv, Base, Shapes, ServerShapes, SharedKept
  <2>2. ASSUME NEW id, id \in KnownIds',
               samples' = [samples EXCEPT ![S(v)][File(v)] = id]
        PROVE  \A s \in Sessions : samples'[s] \in [Files -> KnownIds' \cup {None}]
    BY <1>3, <2>1, <2>2 DEF Widens
  <2>3. CASE samples' = samples
    BY <1>3, <2>1, <2>3 DEF Widens
  <2> QED
    BY <1>2, <2>2, <2>3 DEF Keeps
<1> QED
  BY <1>1, <1>2, <1>3, <1>4, <1>5 DEF Ind, SharedKept, Keeps

(* Around the visits: a step that keeps the shared part keeps the rest. *)
LEMMA AroundInd ==
    ASSUME Ind, IInv', Around, Quiet, Widens, ServerKept', SharedKept',
           era' = era \/ setup.resets, stopped \subseteq stopped',
           \A v \in Visits : job'[v] = "failed" =>
              job[v] = "failed" \/ setup.resets \/ stage[v] \in setup.faults
    PROVE  Ind'
<1>1. ASSUME NEW v \in Visits
      PROVE  Kept(v)'
  <2>1. /\ setup' = setup /\ Excused(v)' = Excused(v) /\ Kept(v)
        /\ UNCHANGED <<pc, stage, left, found, ref, ids, tries, outcome>>
    BY DEF Ind, Excused, From, Widens, Quiet
  <2> QED
    BY <2>1 DEF Kept, Widens
<1> QED
  BY <1>1 DEF Ind

LEMMA StillInjective ==
    ASSUME NEW T, NEW q \in Seq(T), NEW e \in T, IsInjective(q), e \notin ToSet(q)
    PROVE  IsInjective(Append(q, e))
<1>1. /\ DOMAIN Append(q, e) = 1..(Len(q) + 1) /\ DOMAIN q = 1..Len(q)
      /\ \A i \in 1..Len(q) : Append(q, e)[i] = q[i]
      /\ Append(q, e)[Len(q) + 1] = e /\ Len(q) \in Nat
  OBVIOUS
<1>2. \A i \in 1..Len(q) : q[i] # e
  BY <1>1 DEF ToSet
<1>3. ASSUME NEW i \in 1..(Len(q) + 1), NEW j \in 1..(Len(q) + 1),
             Append(q, e)[i] = Append(q, e)[j]
      PROVE  i = j
  <2>1. \A k \in 1..(Len(q) + 1) : k \in 1..Len(q) \/ k = Len(q) + 1
    BY <1>1
  <2> QED
    BY <1>1, <1>2, <1>3, <2>1 DEF IsInjective
<1> QED
  BY <1>1, <1>3 DEF IsInjective

LEMMA NextInd == Ind /\ [Next]_vars => Ind'
<1> SUFFICES ASSUME Ind, [Next]_vars
             PROVE  Ind'
  OBVIOUS
<1>1. ASSUME NEW v \in Visits, Visit(v) \/ Begin(v)
      PROVE  Ind'
  BY <1>1, VisitInd
<1>2. ASSUME Elsewhere
      PROVE  Ind'
  <2>1. /\ IInv' /\ Around /\ setup' = setup /\ ServerKept /\ SharedKept /\ Base
    BY <1>2, AroundKeeps, StepsAround DEF Ind, IInv, Around
  <2>2. ASSUME NEW v \in Visits, RequestStop(v)
        PROVE  Ind'
    <3>1. /\ UNCHANGED <<era, stored, index, old, samples, corpus, incoming, job>>
          /\ Quiet /\ stopped' = stopped \cup {v} /\ v \in setup.stops
      BY <2>2 DEF RequestStop, caches, server
    <3>2. Widens /\ ServerKept' /\ SharedKept'
      BY <2>1, <3>1 DEF Widens, KnownIds, ServerKept, SharedKept, Quiet
    <3> QED
      BY <2>1, <3>1, <3>2, AroundInd
  <2>3. ASSUME NEW i \in DOMAIN index, IndexJob(i)
        PROVE  Ind'
    <3>1. /\ UNCHANGED <<era, stored, old, samples, corpus, incoming, job, stopped>>
          /\ Quiet
      BY <2>3 DEF IndexJob, caches, session
    <3>2. \E x \in {"queued", "done", "failed"} :
             /\ index' = [index EXCEPT ![i] = x]
             /\ x = "failed" => "to" \in setup.faults
      BY <2>3 DEF IndexJob, Put
    <3>3. DOMAIN index = DOMAIN stored
      BY <2>1 DEF Base, Shapes, ServerShapes
    <3>4. ServerKept'
      BY <2>1, <3>1, <3>2, <3>3 DEF ServerKept
    <3>5. Widens /\ SharedKept'
      BY <2>1, <3>1 DEF Widens, KnownIds, SharedKept, Quiet
    <3> QED
      BY <2>1, <3>1, <3>4, <3>5, AroundInd
  <2>4. ASSUME NEW v \in Visits, MatchJob(v)
        PROVE  Ind'
    <3>1. /\ UNCHANGED <<era, stored, index, old, samples, corpus, incoming, stopped>>
          /\ Quiet
      BY <2>4 DEF MatchJob, caches, session
    <3>2. \A u \in Visits : job'[u] = "failed" =>
             job[u] = "failed" \/ stage[u] \in setup.faults
      BY <2>1, <2>4 DEF MatchJob, Put, Base, Shapes, VisitShapes
    <3>3. Widens /\ ServerKept' /\ SharedKept'
      BY <2>1, <3>1 DEF Widens, KnownIds, ServerKept, SharedKept, Quiet
    <3> QED
      BY <2>1, <3>1, <3>2, <3>3, AroundInd
  <2>5. CASE Reset
    <3>1. /\ setup.resets /\ era' = 1 /\ Quiet
          /\ UNCHANGED <<samples, corpus, incoming, stopped>>
          /\ old' = {S(v) : v \in {w \in Visits : pc[w] # "idle"}}
      BY <2>5 DEF Reset, caches
    <3>2. old' \subseteq Sessions
      BY <2>1, <3>1, SetupConstants DEF Base, Shapes, ServerShapes, S
    <3>3. Widens /\ ServerKept'
      BY <2>1, <3>1 DEF Widens, KnownIds, ServerKept
    <3>4. SharedKept'
      BY <2>1, <3>1, <3>2 DEF KnownIds, SharedKept, Quiet
    <3> QED
      BY <2>1, <3>1, <3>3, <3>4, AroundInd
  <2>6. CASE UNCHANGED vars
    <3>1. /\ UNCHANGED <<era, stored, index, old, samples, corpus, incoming, job,
                         stopped>>
          /\ Quiet
      BY <2>6 DEF vars, caches, server, session, Quiet
    <3>2. Widens /\ ServerKept' /\ SharedKept'
      BY <2>1, <3>1 DEF Widens, KnownIds, ServerKept, SharedKept, Quiet
    <3> QED
      BY <2>1, <3>1, <3>2, AroundInd
  <2>7. ASSUME NEW f \in Files, OtherUploads(f)
        PROVE  Ind'
    <3>1. /\ UNCHANGED <<era, old, samples, corpus, incoming, job, stopped>>
          /\ Quiet /\ ~Stands(f) /\ \E x \in {"none", "queued"} : Add(f, x)
      BY <2>7 DEF OtherUploads, NewJob, caches, session
    <3>2. PICK x \in {"none", "queued"} :
             /\ DOMAIN stored' = DOMAIN stored \cup {Len(stored) + 1}
             /\ \A i \in DOMAIN stored : /\ stored'[i] = stored[i]
                                         /\ index'[i] = index[i]
             /\ index'[Len(stored) + 1] = x
      BY <2>1, <3>1, Added
    <3>3. ServerKept'
      BY <2>1, <3>2 DEF ServerKept, ToSet
    <3>4. Widens
      BY <2>1, <3>2 DEF Widens, KnownIds
    <3>5. SharedKept'
      BY <2>1, <3>1, <3>4 DEF Widens, SharedKept, Quiet
    <3> QED
      BY <2>1, <3>1, <3>3, <3>4, <3>5, AroundInd
  <2>8. ASSUME NEW f \in Files, NEW s \in Sessions, AddNode(s, f)
        PROVE  Ind'
    <3>1. /\ UNCHANGED <<era, stored, index, old, samples, corpus, job, stopped>>
          /\ Quiet /\ incoming' = [incoming EXCEPT ![s] = Append(incoming[s], f)]
          /\ f \in setup.added /\ f \notin ToSet(incoming[s]) /\ setup \in Setups
      BY <2>1, <2>8 DEF AddNode, Put, caches, server, Base, Shapes, ServerShapes
    <3>2. incoming \in [Sessions -> Seq(Files \ {Target})] /\ f \in Files \ {Target}
      BY <2>1, <3>1, SetupConstants DEF Base, Shapes, ServerShapes
    <3>3. IsInjective(Append(incoming[s], f))
      <4>1. /\ incoming[s] \in Seq(Files \ {Target}) /\ IsInjective(incoming[s])
        BY <2>1, <3>2 DEF SharedKept
      <4> QED
        BY <3>1, <3>2, <4>1, StillInjective
    <3>4. \A t \in Sessions : IsInjective(incoming'[t])
      BY <2>1, <3>1, <3>2, <3>3 DEF SharedKept
    <3>5. Widens /\ ServerKept' /\ SharedKept'
      BY <2>1, <3>1, <3>4 DEF Widens, KnownIds, ServerKept, SharedKept, Quiet
    <3> QED
      BY <2>1, <3>1, <3>5, AroundInd
  <2>9. ASSUME NEW f \in Files, NEW v \in Visits, Arrives(v, f)
        PROVE  Ind'
    <3>1. /\ UNCHANGED <<era, old, samples, corpus, incoming, job, stopped>> /\ Quiet
          /\ \/ UNCHANGED <<stored, index>>
             \/ ~Stands(f) /\ \E x \in {"none", "queued"} : Add(f, x)
      BY <2>9 DEF Arrives, NewJob, caches, session
    <3>2. /\ DOMAIN stored \subseteq DOMAIN stored'
          /\ \A i \in DOMAIN stored : /\ stored'[i] = stored[i]
                                      /\ index'[i] = index[i]
          /\ \A i \in DOMAIN stored' \ DOMAIN stored : index'[i] # "failed"
      <4>1. CASE UNCHANGED <<stored, index>>
        BY <4>1
      <4>2. ASSUME NEW x \in {"none", "queued"}, ~Stands(f), Add(f, x)
            PROVE  /\ DOMAIN stored \subseteq DOMAIN stored'
                   /\ \A i \in DOMAIN stored : /\ stored'[i] = stored[i]
                                               /\ index'[i] = index[i]
                   /\ \A i \in DOMAIN stored' \ DOMAIN stored : index'[i] # "failed"
        BY <2>1, <4>2, Added
      <4> QED
        BY <3>1, <4>1, <4>2
    <3>3. ServerKept'
      BY <2>1, <3>2 DEF ServerKept, ToSet
    <3>4. Widens
      BY <2>1, <3>2 DEF Widens, KnownIds
    <3>5. SharedKept'
      BY <2>1, <3>1, <3>4 DEF Widens, SharedKept, Quiet
    <3> QED
      BY <2>1, <3>1, <3>3, <3>4, <3>5, AroundInd
  <2> QED
    BY <1>2, <2>2, <2>3, <2>4, <2>5, <2>6, <2>7, <2>8, <2>9 DEF JobsEnd, Elsewhere
<1> QED
  BY <1>1, <1>2, VisitOrElsewhere

LEMMA InitInd == Init => Ind
<1> SUFFICES ASSUME Init PROVE Ind
  OBVIOUS
<1>1. /\ setup \in Setups /\ era = 0 /\ stored = setup.stored
      /\ \A i \in DOMAIN stored : index[i] = "done"
      /\ incoming = [s \in Sessions |-> setup.incoming]
      /\ samples = [s \in Sessions |-> [f \in Files |-> None]]
      /\ corpus = << >> /\ old = {} /\ stopped = {}
      /\ DOMAIN tries = Visits
      /\ \A v \in Visits : /\ found[v] = None /\ ids[v] = {} /\ tries[v] = 0
                           /\ pc[v] = "idle" /\ stage[v] = "from"
                           /\ job[v] = None /\ outcome[v] = "none"
  BY DEF Init
<1>2. ServerKept
  BY <1>1 DEF ServerKept
<1>3. SharedKept
  <2>1. DOMAIN << >> = {}
    OBVIOUS
  <2>2. IsInjective(setup.incoming)
    BY <1>1, SetupConstants
  <2> QED
    BY <1>1, <2>1, <2>2 DEF SharedKept
<1>4. \A v \in Visits : Kept(v)
  BY <1>1, QueryConstants DEF Kept
<1> QED
  BY <1>2, <1>3, <1>4, InitSound DEF Ind

(* What the sessions, the visits and the server hold, in every state. *)
THEOREM Invariance == Spec => []Ind
  BY InitInd, NextInd, PTL DEF Spec

(* Every variable has its type: ids are given in turn and to one file each,
   and what a visit awaits or holds fits where it is. *)
THEOREM TypeCorrect == Spec => []TypeOK
<1>1. ASSUME Ind
      PROVE  TypeOK
  <2>1. /\ Base /\ SharedKept /\ KnownIds \subseteq Nat
        /\ ToSet(stored) \subseteq Files /\ late \subseteq Visits \X Files
    BY <1>1, KnownAreNat DEF Ind, IInv, Base, Shapes, ServerShapes, ToSet
  <2>2. ASSUME NEW v \in Visits
        PROVE  /\ stage[v] \in Stages /\ tries[v] \in 0..(Attempts - 1)
               /\ pc[v] \in {"idle", "want", "match", "ask", "matching", "done"} \cup Ensuring
               /\ pc[v] \in {"jobs", "await"} <=> found[v] # None
               /\ pc[v] = "matching" <=> job[v] \in {"running", "finished", "failed"}
               /\ pc[v] = "done" <=> outcome[v] \in {"answered", "failed", "stopped"}
               /\ stage[v] = "node" => left[v] # << >>
               /\ stage[v] \in {"node", "query", "vs"} =>
                     ref[v].from \in Nat /\ ref[v].to \in Nat
    <3>1. At(v) /\ Kept(v) /\ VisitShapes
      BY <1>1, <2>1 DEF Ind, Base, Places, Shapes
    <3>2. job[v] # None <=> job[v] \in {"running", "finished", "failed"}
      BY <3>1, QueryConstants DEF VisitShapes
    <3> QED
      BY <2>1, <3>1, <3>2 DEF At, Kept, VisitShapes
  <2>3. /\ setup \in Setups /\ IsInjective(stored)
        /\ index \in [DOMAIN stored -> {"none", "queued", "done", "failed"}]
        /\ \A s \in Sessions : samples[s] \in [Files -> Nat \cup {None}]
    BY <2>1 DEF Base, Shapes, ServerShapes
  <2> QED
    BY <2>1, <2>2, <2>3 DEF TypeOK, SharedKept
<1> QED
  BY <1>1, Invariance, PTL

(* What goes wrong for one edge, or in the query that edges share, fails no
   other edge: a visit fails only where its own samples or its own query may
   fail, and is stopped only when it is asked to. *)
THEOREM TroubleIsPrivate == Spec => []TroubleStaysPrivate
<1>1. Ind => TroubleStaysPrivate
  BY DEF Ind, Kept, Excused, TroubleStaysPrivate
<1> QED
  BY <1>1, Invariance, PTL
=============================================================================
