---------------------------- MODULE ReportStore -----------------------------
(***************************************************************************)
(* mcrit_similarity/export.py for one open file: provider threads export   *)
(* its SMDA report, the UI thread looks a report up to render a match, and *)
(* a background thread preloads a stored one, while the analyst edits the  *)
(* analysis.  They meet in the process-wide caches REPORTS, REPORT_KEYS,   *)
(* _EXPORTED_KEYS and _COLD_MISSES, each operation of which is one step,   *)
(* and in the file's report on disk.  LockedCache justifies both the       *)
(* atomic operations and the single builder of a key.                      *)
(*                                                                         *)
(* An analysis stands for a set of functions; a report, for the analysis   *)
(* it was exported from and the key of that export.  The file's bytes do   *)
(* not change, so a report key is only the number of functions.            *)
(***************************************************************************)
EXTENDS Integers, FiniteSets

CONSTANTS
    Exporters,      \* provider threads that call export_smda_report
    Readers,        \* a subset of {"ui", "preload"}
    Analyses,
    Functions,      \* [Analyses -> Nat]: len(bv.functions)
    Exported,       \* [Analyses -> Nat]: the functions the exporter keeps
    Slack,          \* the variation _analysis_changed lets pass
    Setups,         \* the circumstances to consider, see Setup
    None,           \* Python's None: no key, no report, nobody
    Unreadable      \* a stored report that cannot be loaded

ASSUME StoreConstants ==
    /\ Readers \subseteq {"ui", "preload"}
    /\ Exporters \cap {"ui", "preload"} = {}
    /\ Functions \in [Analyses -> Nat] /\ Exported \in [Analyses -> Nat]
    /\ Slack \in Nat
    /\ None \notin Nat

(* What the threads run into.
     threads   those that take part
     analyses  those the file goes through
     disk      _disk_folder() is not None
     small     the file may be hashed on the UI thread, and its stored
               report loaded there
     evicts    other files' reports push this one out of REPORTS
     edits     the analysis changes during exports and lookups, too
     overlaps  exports, lookups and preloads run at the same time *)
Setup == [threads : SUBSET (Exporters \cup Readers),
          analyses : SUBSET Analyses,
          disk : BOOLEAN, small : BOOLEAN, evicts : BOOLEAN,
          edits : BOOLEAN, overlaps : BOOLEAN]

ASSUME SetupConstants == Setups \subseteq Setup

VARIABLES
    setup,          \* the circumstances, which do not change
    analysis,       \* the view's analysis as it is now
    settled,        \* Binary Ninja has no analysis under way
    reports,        \* REPORTS, by number of functions
    building,       \* the exporter inside REPORTS.get_or_set's factory
    reportKey,      \* REPORT_KEYS[session]
    exportedKey,    \* _EXPORTED_KEYS[session]
    coldMisses,     \* the keys in _COLD_MISSES for this session
    disk,           \* the file's stored report
    pc, key, hand   \* of each thread

view == <<setup, analysis, settled>>
caches == <<reports, building, reportKey, exportedKey, coldMisses>>
vars == <<view, caches, disk, pc, key, hand>>

Procs == Exporters \cup Readers
Keys == {Functions[a] : a \in Analyses}
Reports == [of : Analyses, key : Keys \cup {None}]

ASSUME MarksAreNoReports ==
    None \notin Reports \cup Exporters /\ Unreadable \notin Reports

(* The report on disk, if any, is left by an earlier process. *)
Init ==
    /\ setup \in Setups
    /\ analysis \in setup.analyses
    /\ settled \in BOOLEAN
    /\ reports = [k \in Keys |-> None]
    /\ building = [k \in Keys |-> None]
    /\ reportKey = None
    /\ exportedKey = None
    /\ coldMisses = {}
    /\ disk \in IF setup.disk
               THEN {None, Unreadable} \cup [of : setup.analyses, key : {None}]
               ELSE {None}
    /\ pc = [p \in Procs |-> "idle"]
    /\ key = [p \in Procs |-> None]
    /\ hand = [p \in Procs |-> None]

Goto(p, l) == pc' = [pc EXCEPT ![p] = l]
Return(p) == /\ Goto(p, "idle")
             /\ key' = [key EXCEPT ![p] = None]
             /\ hand' = [hand EXCEPT ![p] = None]

(* A thread begins something: alone, if nothing overlaps. *)
Begin(p) ==
    /\ pc[p] = "idle" /\ p \in setup.threads
    /\ setup.overlaps \/ \A q \in Procs : pc[q] = "idle"

(* _analysis_changed: too many functions came or went since the report. *)
AnalysisChanged(r) ==
    \/ Exported[analysis] - Exported[r.of] > Slack
    \/ Exported[r.of] - Exported[analysis] > Slack

NoLookup == \A p \in Procs \cap {"ui"} : pc[p] = "idle"

(* No export has taken its key yet. *)
NoExport == \A t \in Exporters : pc[t] \in {"idle", "settle"}

(* The analyst defines or removes functions, which starts an analysis ... *)
Edit(a) ==
    /\ a \in setup.analyses
    /\ setup.edits \/ (NoLookup /\ NoExport)
    /\ analysis' = a
    /\ settled' = FALSE
    /\ UNCHANGED <<setup, caches, disk, pc, key, hand>>

(* ... and the analysis ends, with functions of its own.  An export waits
   for that before it takes its key; a lookup does not. *)
Settle(a) ==
    /\ a \in setup.analyses
    /\ ~settled
    /\ setup.edits \/ NoLookup
    /\ analysis' = a
    /\ settled' = TRUE
    /\ UNCHANGED <<setup, caches, disk, pc, key, hand>>

(* Other files' reports make room for themselves. *)
Evict(k) ==
    /\ setup.evicts
    /\ reports[k] # None
    /\ reports' = [reports EXCEPT ![k] = None]
    /\ UNCHANGED <<view, building, reportKey, exportedKey, coldMisses,
                   disk, pc, key, hand>>

-----------------------------------------------------------------------------
(* diskcache.load as both sides use it: an unreadable file is deleted. *)
ReadDisk(p, found, missing) ==
    /\ \/ /\ disk \in Reports
          /\ hand' = [hand EXCEPT ![p] = disk]
          /\ Goto(p, found)
          /\ UNCHANGED disk
       \/ /\ disk \notin Reports
          /\ disk' = None
          /\ Goto(p, missing)
          /\ UNCHANGED hand
    /\ UNCHANGED <<view, caches, key>>

(* _load_current's second half: the analysis may have moved on since. *)
Compare(p, current, changed) ==
    /\ \/ /\ ~AnalysisChanged(hand[p])
          /\ Goto(p, current)
          /\ UNCHANGED hand
       \/ /\ AnalysisChanged(hand[p])
          /\ hand' = [hand EXCEPT ![p] = None]
          /\ Goto(p, changed)
    /\ UNCHANGED <<view, caches, disk, key>>

-----------------------------------------------------------------------------
(* export_smda_report *)

BeginExport(t) ==
    /\ Begin(t)
    /\ Goto(t, "settle")
    /\ UNCHANGED <<view, caches, disk, key, hand>>

(* A stop seen before or after the analysis settles, or while waiting. *)
CancelExport(t) ==
    /\ \/ pc[t] = "settle"
       \/ pc[t] = "enter" /\ reports[key[t]] = None
    /\ Return(t)
    /\ UNCHANGED <<view, caches, disk>>

(* update_analysis_and_wait, then _view_cache_key. *)
TakeKey(t) ==
    /\ pc[t] = "settle"
    /\ settled
    /\ key' = [key EXCEPT ![t] = Functions[analysis]]
    /\ Goto(t, "enter")
    /\ UNCHANGED <<view, caches, disk, hand>>

HitReport(t) ==
    /\ pc[t] = "enter"
    /\ reports[key[t]] # None
    /\ hand' = [hand EXCEPT ![t] = reports[key[t]]]
    /\ Goto(t, "name")
    /\ UNCHANGED <<view, caches, disk, key>>

(* ... otherwise the one builder of the key enters _load_or_build. *)
ClaimKey(t) ==
    /\ pc[t] = "enter"
    /\ reports[key[t]] = None
    /\ building[key[t]] = None
    /\ building' = [building EXCEPT ![key[t]] = t]
    /\ Goto(t, "first")
    /\ UNCHANGED <<view, reports, reportKey, exportedKey, coldMisses,
                   disk, key, hand>>

(* Seeded bug: a later export of the session may use the disk copy. *)
BugChooseSource(t) ==
    /\ pc[t] = "first"
    /\ Goto(t, IF setup.disk THEN "load" ELSE "build")
    /\ UNCHANGED <<view, caches, disk, key, hand>>

(* first_export: the disk copy serves only the session's first export. *)
ChooseSource(t) ==
    /\ pc[t] = "first"
    /\ Goto(t, IF setup.disk /\ exportedKey = None THEN "load" ELSE "build")
    /\ UNCHANGED <<view, caches, disk, key, hand>>

LoadForExport(t) == pc[t] = "load" /\ ReadDisk(t, "compare", "build")
CompareForExport(t) == pc[t] = "compare" /\ Compare(t, "cache", "build")

(* _build_report exports the view as it is now. *)
Build(t) ==
    /\ pc[t] = "build"
    /\ hand' = [hand EXCEPT ![t] = [of |-> analysis, key |-> key[t]]]
    /\ Goto(t, IF setup.disk THEN "store" ELSE "cache")
    /\ UNCHANGED <<view, caches, disk, key>>

(* Seeded bug: a failed build leaves its key claimed. *)
BugBuildFails(t) ==
    /\ pc[t] = "build"
    /\ Return(t)
    /\ UNCHANGED <<view, caches, disk>>

BuildFails(t) ==
    /\ pc[t] = "build"
    /\ building' = [building EXCEPT ![key[t]] = None]
    /\ Return(t)
    /\ UNCHANGED <<view, reports, reportKey, exportedKey, coldMisses, disk>>

(* diskcache.store, which may fail with a warning. *)
StoreOnDisk(t) ==
    /\ pc[t] = "store"
    /\ disk' \in {disk, hand[t]}
    /\ Goto(t, "cache")
    /\ UNCHANGED <<view, caches, key, hand>>

(* get_or_set stores the report and releases its key. *)
CacheReport(t) ==
    /\ pc[t] = "cache"
    /\ reports' = [reports EXCEPT ![key[t]] = hand[t]]
    /\ building' = [building EXCEPT ![key[t]] = None]
    /\ Goto(t, "name")
    /\ UNCHANGED <<view, reportKey, exportedKey, coldMisses, disk, key, hand>>

(* Seeded bug: only the first export of a session is put on record. *)
BugNameReport(t) ==
    /\ pc[t] = "name"
    /\ reportKey' = IF reportKey = None THEN key[t] ELSE reportKey
    /\ Goto(t, "mark")
    /\ UNCHANGED <<view, reports, building, exportedKey, coldMisses, disk,
                   key, hand>>

NameReport(t) ==
    /\ pc[t] = "name"
    /\ reportKey' = key[t]
    /\ Goto(t, "mark")
    /\ UNCHANGED <<view, reports, building, exportedKey, coldMisses, disk,
                   key, hand>>

MarkExported(t) ==
    /\ pc[t] = "mark"
    /\ exportedKey' = key[t]
    /\ Return(t)
    /\ UNCHANGED <<view, reports, building, reportKey, coldMisses, disk>>

-----------------------------------------------------------------------------
(* cached_report on the UI thread, and _preload under _PRELOAD_LOCK *)

(* The key is the one on record, or one made from the view as it is. *)
AskToRender ==
    /\ Begin("ui")
    /\ reportKey # None \/ setup.small
    /\ key' = [key EXCEPT !["ui"] = IF reportKey # None
                                    THEN reportKey ELSE Functions[analysis]]
    /\ Goto("ui", "find")
    /\ UNCHANGED <<view, caches, disk, hand>>

(* Preloading is for a session that has no report on record yet. *)
AskToPreload ==
    /\ Begin("preload")
    /\ setup.disk
    /\ reportKey = None
    /\ Goto("preload", "key")
    /\ UNCHANGED <<view, caches, disk, key, hand>>

TakePreloadKey ==
    /\ pc["preload"] = "key"
    /\ key' = [key EXCEPT !["preload"] = Functions[analysis]]
    /\ Goto("preload", "find")
    /\ UNCHANGED <<view, caches, disk, hand>>

FindInMemory(r) ==
    /\ pc[r] = "find"
    /\ \/ /\ reports[key[r]] # None
          /\ hand' = [hand EXCEPT ![r] = reports[key[r]]]
          /\ Goto(r, "name")
       \/ /\ reports[key[r]] = None
          /\ Goto(r, IF r = "ui" THEN "cold" ELSE "load")
          /\ UNCHANGED hand
    /\ UNCHANGED <<view, caches, disk, key>>

(* A recorded cold miss ends the lookup; so the disk is read only once. *)
CheckColdMiss ==
    /\ pc["ui"] = "cold"
    /\ \/ key["ui"] \in coldMisses /\ Return("ui")
       \/ /\ key["ui"] \notin coldMisses
          /\ Goto("ui", IF setup.disk /\ setup.small THEN "load" ELSE "miss")
          /\ UNCHANGED <<key, hand>>
    /\ UNCHANGED <<view, caches, disk>>

LoadForReader(r) == pc[r] = "load" /\ ReadDisk(r, "compare", "miss")
CompareForReader(r) == pc[r] = "compare" /\ Compare(r, "put", "miss")

GiveUpReading(r) ==
    /\ pc[r] = "miss"
    /\ coldMisses' = coldMisses \cup (IF r = "ui" THEN {key[r]} ELSE {})
    /\ Return(r)
    /\ UNCHANGED <<view, reports, building, reportKey, exportedKey, disk>>

(* Seeded bug: the report is put on record but not cached. *)
BugPutReport(r) ==
    /\ pc[r] = "put"
    /\ Goto(r, "name")
    /\ UNCHANGED <<view, caches, disk, key, hand>>

PutReport(r) ==
    /\ pc[r] = "put"
    /\ reports' = [reports EXCEPT ![key[r]] = hand[r]]
    /\ Goto(r, "name")
    /\ UNCHANGED <<view, building, reportKey, exportedKey, coldMisses,
                   disk, key, hand>>

RecordKey(r) ==
    /\ pc[r] = "name"
    /\ reportKey' = key[r]
    /\ Return(r)
    /\ UNCHANGED <<view, reports, building, exportedKey, coldMisses, disk>>

Export(t) ==
    \/ TakeKey(t) \/ HitReport(t) \/ ClaimKey(t) \/ ChooseSource(t)
    \/ LoadForExport(t) \/ CompareForExport(t) \/ Build(t) \/ BuildFails(t)
    \/ StoreOnDisk(t) \/ CacheReport(t) \/ NameReport(t) \/ MarkExported(t)

Read(r) ==
    \/ FindInMemory(r) \/ LoadForReader(r) \/ CompareForReader(r)
    \/ GiveUpReading(r) \/ PutReport(r) \/ RecordKey(r)
    \/ r = "ui" /\ (AskToRender \/ CheckColdMiss)
    \/ r = "preload" /\ (AskToPreload \/ TakePreloadKey)

Next ==
    \/ \E t \in Exporters : BeginExport(t) \/ CancelExport(t) \/ Export(t)
    \/ \E r \in Readers : Read(r)
    \/ \E a \in Analyses : Edit(a) \/ Settle(a)
    \/ \E k \in Keys : Evict(k)

Spec == Init /\ [][Next]_vars

-----------------------------------------------------------------------------
(* What must hold, and what the comments say of it *)

Labels == {"idle", "settle", "enter", "first", "load", "compare", "build",
           "store", "cache", "name", "mark", "key", "find", "cold", "miss",
           "put"}

(* Every variable has its type; a report in hand is one that was built or
   loaded, and a claimed key is claimed by a thread that holds it. *)
TypeOK ==
    /\ setup \in Setups
    /\ analysis \in Analyses
    /\ settled \in BOOLEAN
    /\ reports \in [Keys -> Reports \cup {None}]
    /\ building \in [Keys -> Exporters \cup {None}]
    /\ {reportKey, exportedKey} \subseteq Keys \cup {None}
    /\ coldMisses \subseteq Keys
    /\ disk \in Reports \cup {None, Unreadable}
    /\ pc \in [Procs -> Labels]
    /\ key \in [Procs -> Keys \cup {None}]
    /\ hand \in [Procs -> Reports \cup {None}]
    /\ \A p \in Procs :
          pc[p] \in {"compare", "cache", "put"} => hand[p] \in Reports
    /\ \A k \in Keys : building[k] # None => key[building[k]] = k

(* While nothing is evicted, the key on record for the open file always has
   its report in memory, so that rendering after an export needs no disk,
   however exports, lookups, preloads and edits interleave. *)
RecordedKeyHasReport ==
    ~setup.evicts /\ reportKey # None => reports[reportKey] # None

(* export.py:33, "the disk copy of the earlier analysis must not stand in":
   where exports do not overlap and memory has room, none hands out a report
   that this process exported under another key. *)
EarlierAnalysisNeverStandsIn ==
    ~setup.overlaps /\ ~setup.evicts =>
        \A t \in Exporters :
            pc[t] \in {"cache", "name", "mark"} =>
                hand[t].key \in {None, key[t]}

AllIdle == \A p \in Procs : pc[p] = "idle"

(* cache.py:125, "Open file -> REPORTS key of the report exported for it":
   the key on record is that of the last export, whatever lookups and
   preloads came between, where they do not overlap with exports. *)
RecordIsLastExport ==
    ~setup.overlaps /\ AllIdle /\ exportedKey # None =>
        reportKey = exportedKey

(* export.py:84, "the report for this open file from memory, or a small one
   from disk": once the last export has put its report on disk, under the
   view's key, a recorded miss does not keep the UI thread from it when memory
   has it no longer. *)
ColdLookupFindsDisk ==
    (\A t \in Exporters : pc[t] = "idle") /\ "ui" \in Readers =>
        ~ /\ pc["ui"] = "cold"
          /\ key["ui"] = exportedKey /\ exportedKey = Functions[analysis]
          /\ reports[key["ui"]] = None
          /\ key["ui"] \in coldMisses
          /\ setup.small /\ disk = [of |-> analysis, key |-> exportedKey]

=============================================================================
