------------------------------ MODULE EdgeVisit ------------------------------
(***************************************************************************)
(* provider.py: visits of a session's edges, from MCRIT's answer to the    *)
(* results.  Visits run at the same time and meet in the process-wide      *)
(* FUNCTION_OFFSETS, in the nodes' entities, which they add to under one   *)
(* lock per node, and in the labels of the provider.                       *)
(*                                                                         *)
(* The functions of a from-node are the server's for its sample, and what  *)
(* a visit asks of the server it gets in one request.                      *)
(***************************************************************************)
EXTENDS Matching

CONSTANTS
    Visits, Nodes,
    Fids,           \* the server's function ids
    Texts,          \* what names and labels may say
    Functions,      \* [Nodes -> sets of Nat]: where the views have functions
    Server,         \* [Fids -> Entry or None]
    Params,         \* minScore, limit and library of the configuration
    Setups          \* the circumstances to consider, see Setup

(* What the server has of a function: an offset as it was stored, and its
   labels. *)
Entry == [offset : Int, labels : Seq([text : Texts, stamp : Nat,
                                      real : BOOLEAN])]

(* What FUNCTION_OFFSETS keeps of it. *)
Known == [offset : Int, label : Texts \cup {None}]

(* An entry of an answer's match lists. *)
Candidate == [source : Int, fid : Fids, score : Int, ours : BOOLEAN,
              pichash : BOOLEAN, library : BOOLEAN, bytes : Nat]

ASSUME VisitConstants ==
    /\ None \notin Visits \cup Known
    /\ Functions \in [Nodes -> SUBSET Nat]
    /\ \A f \in Fids : Server[f] = None \/ Server[f] \in Entry
    /\ Params.minScore \in Nat /\ Params.limit \in Nat \ {0}
    /\ Params.library \in BOOLEAN

(* The nodes of each edge; MCRIT's answer for it; the addresses a node lists
   at first, and the entities scheduled, as positions among them; whether
   others' functions push these out of FUNCTION_OFFSETS; and whether visits may
   be stopped. *)
ASSUME SetupConstants ==
    \A s \in Setups :
       /\ s.from \in [Visits -> Nodes] /\ s.to \in [Visits -> Nodes]
       /\ s.listed \in [Nodes -> Seq(Nat)]
       /\ \A n \in Nodes : /\ ToSet(s.listed[n]) \subseteq Functions[n]
                           /\ IsInjective(s.listed[n])
       /\ \A v \in Visits : /\ s.payload[v] \in Seq(Candidate)
                            /\ s.scheduled[v] \subseteq DOMAIN s.listed[s.to[v]]
       /\ s.evicts \in BOOLEAN /\ s.stops \in BOOLEAN

VARIABLES
    setup,          \* the circumstances, which do not change
    offsets,        \* FUNCTION_OFFSETS
    entities,       \* the addresses each node lists
    lock,           \* _entity_locks
    labels,         \* _labels
    results,        \* what the visits have added
    stopped,        \* the visits the session asked to stop
    pc, matches, targets, source, target, pairs, outcome    \* of each visit

shared == <<offsets, entities, lock, labels, results>>
local == <<matches, targets, source, target, pairs, outcome>>
vars == <<setup, shared, stopped, pc, local>>

From(v) == setup.from[v]
To(v) == setup.to[v]

Init ==
    /\ setup \in Setups
    /\ offsets = [f \in Fids |-> None]
    /\ entities = setup.listed
    /\ lock = [n \in Nodes |-> None]
    /\ labels = << >>
    /\ results = {}
    /\ stopped = {}
    /\ pc = [v \in Visits |-> "payload"]
    /\ matches = [v \in Visits |-> << >>]
    /\ targets = [v \in Visits |-> [f \in Fids |-> None]]
    /\ source = [v \in Visits |-> << >>]
    /\ target = [v \in Visits |-> << >>]
    /\ pairs = [v \in Visits |-> << >>]
    /\ outcome = [v \in Visits |-> "none"]

Goto(v, l) == pc' = [pc EXCEPT ![v] = l]
Put(f, v, x) == [f EXCEPT ![v] = x]
End(v, o) == Goto(v, "done") /\ outcome' = Put(outcome, v, o)

RequestStop(v) ==
    /\ setup.stops /\ pc[v] # "done" /\ v \notin stopped
    /\ stopped' = stopped \cup {v}
    /\ UNCHANGED <<setup, shared, pc, local>>

(* Other visits' functions make room for themselves. *)
Evict(f) ==
    /\ setup.evicts /\ offsets[f] # None
    /\ offsets' = Put(offsets, f, None)
    /\ UNCHANGED <<setup, entities, lock, labels, results, stopped, pc, local>>

(* Where a visit looks whether it is to stop. *)
Stopped(v) ==
    /\ pc[v] \in {"payload", "source", "emit"}
    /\ pc[v] = "payload" => setup.scheduled[v] # {}
    /\ pc[v] = "emit" => DOMAIN pairs[v] # {}
    /\ v \in stopped
    /\ End(v, "stopped")
    /\ UNCHANGED <<setup, shared, stopped, matches, targets, source, target,
                   pairs>>

-----------------------------------------------------------------------------
(* The answer, and the offsets of the functions in it *)

NothingScheduled(v) ==
    /\ pc[v] = "payload" /\ setup.scheduled[v] = {}
    /\ End(v, "finished")
    /\ UNCHANGED <<setup, shared, stopped, matches, targets, source, target,
                   pairs>>

ReadAnswer(v) ==
    /\ pc[v] = "payload" /\ setup.scheduled[v] # {} /\ v \notin stopped
    /\ matches' = Put(matches, v, Parse(setup.payload[v], Params))
    /\ Goto(v, "ask")
    /\ UNCHANGED <<setup, shared, stopped, targets, source, target, pairs,
                   outcome>>

Asked(v) == {matches[v][i].fid : i \in DOMAIN matches[v]}

(* Nothing to ask for: every function was in the cache a moment ago. *)
AllKnown(v) ==
    /\ pc[v] = "ask"
    /\ \A f \in Asked(v) : offsets[f] # None
    /\ Goto(v, "known")
    /\ UNCHANGED <<setup, shared, stopped, local>>

(* target_functions: what the server has of those not in the cache. *)
Target(f) == [offset |-> DecodeOffset(Server[f].offset),
              label |-> CorpusLabel(Server[f].labels)]

(* An offset is an address. *)
ASSUME OffsetsAreAddresses ==
    \A f \in Fids : Server[f] # None => Target(f).offset \in Nat

FetchTargets(v) ==
    /\ pc[v] = "ask"
    /\ \E f \in Asked(v) : offsets[f] = None
    /\ offsets' = [f \in Fids |->
                     IF f \in Asked(v) /\ offsets[f] = None /\ Server[f] # None
                     THEN Target(f) ELSE offsets[f]]
    /\ Goto(v, "known")
    /\ UNCHANGED <<setup, entities, lock, labels, results, stopped, local>>

FetchFails(v) ==
    /\ pc[v] = "ask"
    /\ \E f \in Asked(v) : offsets[f] = None
    /\ End(v, "failed")
    /\ UNCHANGED <<setup, shared, stopped, matches, targets, source, target,
                   pairs>>

(* The cache is read once more, and the offsets go to the matches. *)
AttachOffsets(v) ==
    /\ pc[v] = "known"
    /\ targets' = Put(targets, v, [f \in Fids |->
                        IF f \in Asked(v) THEN offsets[f] ELSE None])
    /\ matches' = Put(matches, v, WithOffsets(matches[v], targets'[v]))
    /\ Goto(v, "source")
    /\ UNCHANGED <<setup, shared, stopped, source, target, pairs, outcome>>

-----------------------------------------------------------------------------
(* The entities *)

(* Seeded bug: the two ends of the edge are swapped. *)
BugIndexSource(v) ==
    /\ pc[v] = "source" /\ v \notin stopped
    /\ source' = Put(source, v, IndexEntities(entities[From(v)]))
    /\ Goto(v, "lock")
    /\ UNCHANGED <<setup, shared, stopped, matches, targets, target, pairs,
                   outcome>>

IndexSource(v) ==
    /\ pc[v] = "source" /\ v \notin stopped
    /\ source' = Put(source, v, IndexEntities(entities[To(v)]))
    /\ Goto(v, "lock")
    /\ UNCHANGED <<setup, shared, stopped, matches, targets, target, pairs,
                   outcome>>

(* Seeded bug: a provider-wide lock that nobody else holds, either. *)
BugIndexTarget(v) ==
    /\ pc[v] = "lock"
    /\ target' = Put(target, v, IndexEntities(entities[From(v)]))
    /\ Goto(v, "create")
    /\ UNCHANGED <<setup, shared, stopped, matches, targets, source, pairs,
                   outcome>>

IndexTarget(v) ==
    /\ pc[v] = "lock" /\ lock[From(v)] = None
    /\ lock' = Put(lock, From(v), v)
    /\ target' = Put(target, v, IndexEntities(entities[From(v)]))
    /\ Goto(v, "create")
    /\ UNCHANGED <<setup, offsets, entities, labels, results, stopped,
                   matches, targets, source, pairs, outcome>>

(* get_function_at, with the address and without its Thumb bit. *)
HasFunction(n, a) == a \in Functions[n] \/ Even(a) \in Functions[n]

(* The matches whose function the view has and the node does not list. *)
Unlisted(v) ==
    {i \in DOMAIN matches[v] :
        LET a == matches[v][i].offset
        IN /\ a # None
           /\ ~Found(target[v], a)
           /\ HasFunction(From(v), a)}

(* _add_match_only_entities, one entity at a time and in order. *)
CreateEntity(v) ==
    /\ pc[v] = "create"
    /\ \E i \in Unlisted(v) :
       LET n == From(v)
           a == matches[v][i].offset
       IN /\ \A j \in Unlisted(v) : i <= j
          /\ entities' = Put(entities, n, Append(entities[n], a))
          /\ target' = Put(target, v,
                           [b \in DOMAIN target[v] \cup {a} |->
                              IF b = a THEN Len(entities[n]) + 1
                              ELSE target[v][b]])
    /\ UNCHANGED <<setup, offsets, lock, labels, results, stopped, pc,
                   matches, targets, source, pairs, outcome>>

(* Seeded bug: the lock is kept when there was nothing to create. *)
BugPairMatches(v) ==
    /\ pc[v] = "create" /\ Unlisted(v) = {}
    /\ pairs' = Put(pairs, v, Pairs(matches[v], source[v], target[v],
                                    setup.scheduled[v]))
    /\ Goto(v, "label")
    /\ UNCHANGED <<setup, shared, stopped, matches, targets, source, target,
                   outcome>>

(* Once all are there the lock is free again, and the matches are paired. *)
PairMatches(v) ==
    /\ pc[v] = "create" /\ Unlisted(v) = {}
    /\ lock' = Put(lock, From(v), None)
    /\ pairs' = Put(pairs, v, Pairs(matches[v], source[v], target[v],
                                    setup.scheduled[v]))
    /\ Goto(v, "label")
    /\ UNCHANGED <<setup, offsets, entities, labels, results, stopped,
                   matches, targets, source, target, outcome>>

-----------------------------------------------------------------------------
(* Labels and results *)

(* corpus_labels[a], of the last of the functions at that offset, in the order
   in which they were asked for. *)
LabelAt(v, a) ==
    LET at == {i \in DOMAIN matches[v] :
                  /\ matches[v][i].offset = a
                  /\ \A j \in 1..(i - 1) : matches[v][j].fid # matches[v][i].fid
                  /\ targets[v][matches[v][i].fid].label # None}
        last == CHOOSE i \in at : \A j \in at : j <= i
    IN IF at = {} THEN None ELSE targets[v][matches[v][last].fid].label

PutLabels(v) ==
    /\ pc[v] = "label"
    /\ LET Labelled == {i \in DOMAIN pairs[v] :
                           LabelAt(v, pairs[v][i].match.offset) # None}
           new == [e \in {<<From(v), pairs[v][i].target>> : i \in Labelled} |->
                     LET is == {i \in Labelled : pairs[v][i].target = e[2]}
                         last == CHOOSE i \in is : \A j \in is : j <= i
                     IN LabelAt(v, pairs[v][last].match.offset)]
       IN labels' = [e \in DOMAIN labels \cup DOMAIN new |->
                       IF e \in DOMAIN new THEN new[e] ELSE labels[e]]
    /\ Goto(v, "emit")
    /\ UNCHANGED <<setup, offsets, entities, lock, results, stopped, local>>

AddResult(v) ==
    /\ pc[v] = "emit" /\ v \notin stopped
    /\ \E i \in DOMAIN pairs[v] :
          /\ \A j \in DOMAIN pairs[v] : i <= j
          /\ results' = results \cup {[visit |-> v, source |-> pairs[v][i].source,
                                      target |-> pairs[v][i].target,
                                      match |-> pairs[v][i].match]}
          /\ pairs' = Put(pairs, v, [j \in DOMAIN pairs[v] \ {i} |-> pairs[v][j]])
    /\ UNCHANGED <<setup, offsets, entities, lock, labels, stopped, pc,
                   matches, targets, source, target, outcome>>

(* The matches this visit should have turned into results. *)
Wanted(v) ==
    {i \in DOMAIN matches[v] :
        LET a == matches[v][i].source
        IN Found(source[v], a) => Lookup(source[v], a) \in setup.scheduled[v]}

Finish(v) ==
    /\ pc[v] = "emit" /\ DOMAIN pairs[v] = {}
    /\ End(v, IF Wanted(v) # {} /\ \A r \in results : r.visit # v
              THEN "unmapped" ELSE "finished")
    /\ UNCHANGED <<setup, shared, stopped, matches, targets, source, target,
                   pairs>>

Visit(v) ==
    \/ Stopped(v) \/ NothingScheduled(v) \/ ReadAnswer(v) \/ AllKnown(v)
    \/ FetchTargets(v) \/ FetchFails(v) \/ AttachOffsets(v) \/ IndexSource(v)
    \/ IndexTarget(v) \/ CreateEntity(v) \/ PairMatches(v) \/ PutLabels(v)
    \/ AddResult(v) \/ Finish(v)

Next == \/ \E v \in Visits : Visit(v) \/ RequestStop(v)
        \/ \E f \in Fids : Evict(f)

Spec == Init /\ [][Next]_vars

-----------------------------------------------------------------------------
(* What must hold *)

(* Every variable has its type; the offsets in the cache are those of the
   server; the lock of a node is held by the visit that creates entities in
   it, and every index leads to entities. *)
TypeOK ==
    /\ setup.from \in [Visits -> Nodes] /\ setup.to \in [Visits -> Nodes]
    /\ \A f \in Fids : offsets[f] # None => offsets[f] = Target(f)
    /\ \A n \in Nodes : entities[n] \in Seq(Nat)
    /\ \A n \in Nodes : lock[n] \in Visits \cup {None}
    /\ \A v \in Visits, n \in Nodes :
          lock[n] = v <=> pc[v] = "create" /\ n = From(v)
    /\ \A e \in DOMAIN labels : e[2] \in DOMAIN entities[e[1]]
    /\ stopped \subseteq Visits
    /\ \A v \in Visits :
          /\ pc[v] \in {"payload", "ask", "known", "source", "lock", "create",
                        "label", "emit", "done"}
          /\ \A a \in DOMAIN source[v] : source[v][a] \in DOMAIN entities[To(v)]
          /\ \A a \in DOMAIN target[v] : target[v][a] \in DOMAIN entities[From(v)]
          /\ outcome[v] \in {"none", "stopped", "failed", "unmapped", "finished"}
          /\ pc[v] = "done" <=> outcome[v] # "none"

(* The function of an address, which may carry the Thumb bit. *)
FunctionAt(n, a) == IF a \in Functions[n] THEN a ELSE Even(a)

(* In a view, an address tells the one function that is there or would be
   there without the Thumb bit.  Of x86's functions of one byte, at an odd
   address and at the even one before it, it does not. *)
Tells(n, a) ==
    \A b \in Functions[n] : Even(b) = Even(a) => FunctionAt(n, a) = b

(* The views that the answers and the server's offsets are for are such that
   every address tells its function. *)
AddressesTellFunctions ==
    /\ \A s \in Setups, v \in Visits : \A i \in DOMAIN s.payload[v] :
          Tells(s.to[v], s.payload[v][i].source)
    /\ \A f \in Fids, n \in Nodes : Server[f] # None => Tells(n, Target(f).offset)

(* No answer matches, under two addresses, what is one function in its view. *)
AnswersTellFunctions ==
    \A s \in Setups, v \in Visits : \A i, j \in DOMAIN s.payload[v] :
        LET f == s.payload[v][i].fid  g == s.payload[v][j].fid
            n == s.from[v]
            a == Target(f).offset  b == Target(g).offset
        IN (/\ Server[f] # None /\ Server[g] # None
            /\ HasFunction(n, a) /\ FunctionAt(n, a) = FunctionAt(n, b))
           => a = b

(* "Edges into one node can be visited concurrently; each must see the
   other's new entities": no two entities of a node stand for one function,
   whichever visits created them, and under whatever offsets. *)
OneEntityPerFunction ==
    \A n \in Nodes : \A i, j \in DOMAIN entities[n] :
        i # j => FunctionAt(n, entities[n][i]) # FunctionAt(n, entities[n][j])

(* A result pairs the entities of the functions that MCRIT matched, and a
   label is one of the function it is put on, whatever other visits did to
   the entities and the offsets meanwhile. *)
ResultsNameTheirFunctions ==
    /\ \A r \in results :
          LET n == From(r.visit)  m == To(r.visit)
          IN /\ FunctionAt(m, entities[m][r.source])
                   = FunctionAt(m, r.match.source)
             /\ FunctionAt(n, entities[n][r.target])
                   = FunctionAt(n, Target(r.match.fid).offset)
    /\ \A e \in DOMAIN labels : \E f \in Fids :
          /\ Server[f] # None /\ labels[e] = Target(f).label
          /\ FunctionAt(e[1], entities[e[1]][e[2]])
                = FunctionAt(e[1], Target(f).offset)

(* The candidates of an answer that are among the best of their function. *)
Best(v) ==
    LET s == setup.payload[v]
        usable == {i \in DOMAIN s : Usable(s[i], Params)}
    IN {i \in usable :
          Cardinality({j \in usable : s[j].source = s[i].source /\ Ahead(s, j, i)})
             < Params.limit}

(* A visit that comes to its end has a result for each of the best candidates
   of a scheduled function, wherever both functions are in their views: no
   visit at the same time takes one away, while FUNCTION_OFFSETS has room. *)
NothingIsLost ==
    \A v \in Visits :
        outcome[v] \in {"finished", "unmapped"} /\ ~setup.evicts =>
            \A i \in Best(v), e \in setup.scheduled[v] :
                LET c == setup.payload[v][i]
                IN (/\ FunctionAt(To(v), c.source) = setup.listed[To(v)][e]
                    /\ Server[c.fid] # None
                    /\ HasFunction(From(v), Target(c.fid).offset))
                   => \E r \in results : /\ r.visit = v /\ r.source = e
                                         /\ r.match.fid = c.fid

(* "Score lead over the strongest other candidate", those that the limit cuts
   off among them; and of two candidates of one function and kind, the one
   with the smaller lead never gets the greater confidence. *)
LeadDecidesConfidence ==
    \A v \in Visits : \A i, j \in DOMAIN matches[v] :
        LET m == matches[v][i]  n == matches[v][j]
            s == setup.payload[v]
            all == {k \in DOMAIN s : Usable(s[k], Params) /\ s[k].source = m.source}
            own == {k \in all : s[k].fid = m.fid /\ s[k].score = m.score}
        IN /\ Margin(m) = None <=> Cardinality(all) = 1
           /\ Margin(m) # None =>
                 \E k \in own :
                    Margin(m) = m.score - Max({s[x].score : x \in all \ {k}})
           /\ (/\ m.source = n.source /\ m.bytes = n.bytes
               /\ ~m.pichash /\ ~n.pichash
               /\ Margin(m) # None /\ Margin(m) <= Margin(n))
              => Confidence(m) <= Confidence(n)
=============================================================================
