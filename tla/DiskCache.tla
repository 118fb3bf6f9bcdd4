------------------------------ MODULE DiskCache ------------------------------
(***************************************************************************)
(* mcrit_similarity/diskcache.py: stored reports in one folder that every  *)
(* Binary Ninja process of the user loads from, stores to and prunes,      *)
(* without a lock.  A process may die at any point.                        *)
(*                                                                         *)
(* The loaders are threads of one process and share its garbage collector. *)
(* Modification times are an order of the files; a file's size depends on  *)
(* its key alone.  The temporary file a report is written to is part of    *)
(* its writer's state, for no other process looks at it within a day.      *)
(***************************************************************************)
EXTENDS Integers, Sequences, FiniteSets, FiniteSetsExt, SequencesExt

CONSTANTS
    Loaders, Storers,
    Keys,           \* sha256 of the files
    Size,           \* [Keys -> Nat]
    MaxBytes, MaxFiles,
    MaxMishaps,     \* how much may go wrong, see Mishap
    Setups,         \* the circumstances to consider, see Setup
    Collects,       \* cyclic garbage collection is in use
    None            \* no key

ASSUME DiskConstants ==
    /\ Size \in [Keys -> Nat]
    /\ MaxBytes \in Nat /\ MaxFiles \in Nat \ {0} /\ MaxMishaps \in Nat
    /\ Collects \in BOOLEAN
    /\ IsFiniteSet(Loaders \cup Storers) /\ Loaders \cap Storers = {}
    /\ None \notin Keys

(* Who loads, which files there are, and whether something else may damage a
   stored one. *)
Setup == [loaders : SUBSET Loaders, keys : SUBSET Keys, spoils : BOOLEAN]

ASSUME SetupConstants == Setups \subseteq Setup

VARIABLES
    setup,          \* the circumstances, which do not change
    order,          \* the stored keys, oldest modification time first
    torn,           \* those of them whose file is not a whole report
    gcOn, pausers, resume,  \* gc.isenabled(), _gc_pausers, _gc_resume
    pc, key,        \* of each thread
    seen,           \* what a loader has read: "none", "torn" or "whole"
    doomed,         \* what a storer's prune still has to delete
    mishaps         \* how much has gone wrong, see Mishap

folder == <<order, torn>>
gc == <<gcOn, pausers, resume>>
vars == <<setup, folder, gc, pc, key, seen, doomed, mishaps>>

Threads == Loaders \cup Storers
Stored == ToSet(order)

Init ==
    /\ setup \in Setups
    /\ order = << >>
    /\ torn = {}
    /\ gcOn = Collects
    /\ pausers = 0
    /\ resume = FALSE
    /\ pc = [t \in Threads |-> "idle"]
    /\ key = [t \in Threads |-> None]
    /\ seen = [t \in Loaders |-> "none"]
    /\ doomed = [t \in Storers |-> << >>]
    /\ mishaps = 0

Goto(t, l) == pc' = [pc EXCEPT ![t] = l]

(* A storer dies, its scan fails or misses n files, or a file is not deleted. *)
Mishap(n) == mishaps' = mishaps + n /\ mishaps' <= MaxMishaps

Without(s, k) ==
    IF k \in ToSet(s) THEN RemoveAt(s, CHOOSE i \in DOMAIN s : s[i] = k) ELSE s

Renewed(k) == Append(Without(order, k), k)

Unlink(k) == order' = Without(order, k) /\ torn' = torn \ {k}

(* A disk error, or a power cut after a rename, spoils a file in place. *)
Spoil(k) ==
    /\ setup.spoils
    /\ k \in Stored
    /\ torn' = torn \cup {k}
    /\ UNCHANGED <<setup, order, gc, pc, key, seen, doomed, mishaps>>

-----------------------------------------------------------------------------
(* load *)

(* Seeded bug: every loader notes the state of the collector. *)
BugPause(t, k) ==
    /\ pc[t] = "idle"
    /\ resume' = gcOn
    /\ gcOn' = FALSE
    /\ pausers' = pausers + 1
    /\ key' = [key EXCEPT ![t] = k]
    /\ Goto(t, "read")
    /\ UNCHANGED <<setup, folder, seen, doomed, mishaps>>

Pause(t, k) ==
    /\ pc[t] = "idle"
    /\ resume' = IF pausers = 0 THEN gcOn ELSE resume
    /\ gcOn' = IF pausers = 0 THEN FALSE ELSE gcOn
    /\ pausers' = pausers + 1
    /\ key' = [key EXCEPT ![t] = k]
    /\ Goto(t, "read")
    /\ UNCHANGED <<setup, folder, seen, doomed, mishaps>>

(* Seeded bug: a missing file leaves without resuming the collector. *)
BugRead(t) ==
    /\ pc[t] = "read"
    /\ seen' = [seen EXCEPT ![t] = CASE key[t] \notin Stored -> "none"
                                     [] key[t] \in torn -> "torn"
                                     [] OTHER -> "whole"]
    /\ Goto(t, IF key[t] \in Stored THEN "leave" ELSE "done")
    /\ UNCHANGED <<setup, folder, gc, key, doomed, mishaps>>

Read(t) ==
    /\ pc[t] = "read"
    /\ seen' = [seen EXCEPT ![t] = CASE key[t] \notin Stored -> "none"
                                     [] key[t] \in torn -> "torn"
                                     [] OTHER -> "whole"]
    /\ Goto(t, "leave")
    /\ UNCHANGED <<setup, folder, gc, key, doomed, mishaps>>

Leave(t) ==
    /\ pc[t] = "leave"
    /\ pausers' = pausers - 1
    /\ gcOn' = (gcOn \/ (pausers' = 0 /\ resume))
    /\ Goto(t, "done")
    /\ UNCHANGED <<setup, folder, resume, key, seen, doomed, mishaps>>

(* A file that could not be read is dropped, by name; one that could be is
   marked as used, if it is still there.  Either may fail silently. *)
EndLoad(t) ==
    /\ pc[t] = "done"
    /\ \/ UNCHANGED folder
       \/ seen[t] = "torn" /\ Unlink(key[t])
       \/ /\ seen[t] = "whole" /\ key[t] \in Stored
          /\ order' = Renewed(key[t])
          /\ UNCHANGED torn
    /\ Goto(t, "idle")
    /\ key' = [key EXCEPT ![t] = None]
    /\ seen' = [seen EXCEPT ![t] = "none"]
    /\ UNCHANGED <<setup, gc, doomed, mishaps>>

-----------------------------------------------------------------------------
(* store *)

(* Seeded bug: the report is written where it is read. *)
BugBeginStore(t, k) ==
    /\ pc[t] = "idle"
    /\ key' = [key EXCEPT ![t] = k]
    /\ order' = Renewed(k)
    /\ torn' = torn \cup {k}
    /\ Goto(t, "write")
    /\ UNCHANGED <<setup, gc, seen, doomed, mishaps>>

BeginStore(t, k) ==
    /\ pc[t] = "idle"
    /\ key' = [key EXCEPT ![t] = k]
    /\ Goto(t, "write")
    /\ UNCHANGED <<setup, folder, gc, seen, doomed, mishaps>>

(* The folder cannot be made or written to, or cannot be scanned once the
   report is in it: a warning, and nothing is pruned. *)
StoreFails(t) ==
    /\ \/ pc[t] = "write" /\ UNCHANGED mishaps
       \/ pc[t] = "scan" /\ Mishap(1)
    /\ key' = [key EXCEPT ![t] = None]
    /\ Goto(t, "idle")
    /\ UNCHANGED <<setup, folder, gc, seen, doomed>>

(* os.replace, once the temporary file is written. *)
Rename(t) ==
    /\ pc[t] = "write"
    /\ order' = Renewed(key[t])
    /\ torn' = torn \ {key[t]}
    /\ Goto(t, "scan")
    /\ UNCHANGED <<setup, gc, key, seen, doomed, mishaps>>

-----------------------------------------------------------------------------
(* prune *)

Bytes(ks) == MapThenSumSet(LAMBDA k : Size[k], ks)

(* Seeded bug: one file more than the limit passes. *)
BugOver(ks) == Bytes(ks) > MaxBytes \/ Cardinality(ks) > MaxFiles + 1

Over(ks) == Bytes(ks) > MaxBytes \/ Cardinality(ks) > MaxFiles

(* Of the files listed the oldest first, until what is left of them is within
   both limits. *)
Doomed(keep, listed) ==
    LET others == Without(listed, keep)
        Left(n) == ToSet(listed) \ {others[i] : i \in 1..n}
        enough == {n \in 0..Len(others) : n = Len(others) \/ ~Over(Left(n))}
    IN  SubSeq(others, 1, Min(enough))

(* The files of ks, oldest first. *)
Listed(ks) ==
    LET upTo[n \in 0..Len(order)] ==
            IF n = 0 THEN << >>
            ELSE IF order[n] \in ks THEN Append(upTo[n - 1], order[n])
            ELSE upTo[n - 1]
    IN  upTo[Len(order)]

(* A file that the system will not describe is left out. *)
Scan(t) ==
    /\ pc[t] = "scan"
    /\ \E missed \in SUBSET Stored :
          /\ doomed' = [doomed EXCEPT
                ![t] = Doomed(key[t], Listed(Stored \ missed))]
          /\ Mishap(Cardinality(missed))
    /\ Goto(t, "prune")
    /\ UNCHANGED <<setup, folder, gc, key, seen>>

(* What was scanned is deleted, whatever became of it since, and counted as
   gone even if it cannot be. *)
DeleteOldest(t) ==
    /\ pc[t] = "prune" /\ doomed[t] # << >>
    /\ LET oldest == Head(doomed[t])
       IN  \/ Unlink(oldest) /\ UNCHANGED mishaps
           \/ oldest \in Stored /\ UNCHANGED folder /\ Mishap(1)
    /\ doomed' = [doomed EXCEPT ![t] = Tail(@)]
    /\ UNCHANGED <<setup, gc, pc, key, seen>>

EndStore(t) ==
    /\ pc[t] = "prune" /\ doomed[t] = << >>
    /\ key' = [key EXCEPT ![t] = None]
    /\ Goto(t, "idle")
    /\ UNCHANGED <<setup, folder, gc, seen, doomed, mishaps>>

Die(t) ==
    /\ pc[t] # "idle"
    /\ Mishap(1)
    /\ key' = [key EXCEPT ![t] = None]
    /\ doomed' = [doomed EXCEPT ![t] = << >>]
    /\ Goto(t, "idle")
    /\ UNCHANGED <<setup, folder, gc, seen>>

Load(t) == Read(t) \/ Leave(t) \/ EndLoad(t)

Store(t) == \/ StoreFails(t) \/ Rename(t) \/ Scan(t)
            \/ DeleteOldest(t) \/ EndStore(t) \/ Die(t)

Next ==
    \/ \E t \in setup.loaders : Load(t) \/ \E k \in setup.keys : Pause(t, k)
    \/ \E t \in Storers : Store(t) \/ \E k \in setup.keys : BeginStore(t, k)
    \/ \E k \in Keys : Spoil(k)

Spec == Init /\ [][Next]_vars

-----------------------------------------------------------------------------
(* What must hold *)

(* Every variable has its type; the pausers are the loaders inside. *)
TypeOK ==
    /\ setup \in Setups
    /\ order \in Seq(Keys) /\ IsInjective(order)
    /\ torn \subseteq Stored
    /\ {gcOn, resume} \subseteq BOOLEAN
    /\ pausers = Cardinality({t \in Loaders : pc[t] \in {"read", "leave"}})
    /\ pc \in [Threads -> {"idle", "read", "leave", "done",
                           "write", "scan", "prune"}]
    /\ key \in [Threads -> Keys \cup {None}]
    /\ \A t \in Threads : pc[t] = "idle" <=> key[t] = None
    /\ seen \in [Loaders -> {"none", "torn", "whole"}]
    /\ doomed \in [Storers -> Seq(Keys)]
    /\ mishaps \in 0..MaxMishaps

(* "Pause cyclic GC for the duration; it resumes when the last overlapping
   caller leaves": off while anyone loads, and afterwards as it was. *)
CollectorPausedWhileLoading == gcOn = (Collects /\ pausers = 0)

(* "Readers see the old file or the whole new one": unless something else
   spoils a file, no loader ever reads a part of one. *)
NeverReadInPart == ~setup.spoils => \A t \in Loaders : seen[t] # "torn"

Busy == {t \in Storers : pc[t] # "idle"}

(* The folder goes over its limits by no more files than there are storers at
   work and mishaps: storers that died, scans that failed, and files that one
   missed or that could not be deleted.  At rest and after none of these it is
   within both, but for a single file larger than the limit. *)
FolderBounded ==
    /\ Cardinality(Stored) <= MaxFiles + Cardinality(Busy) + mishaps
    /\ Busy = {} /\ mishaps = 0 =>
          Bytes(Stored) <= MaxBytes \/ Cardinality(Stored) = 1
=============================================================================
