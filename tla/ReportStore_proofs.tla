-------------------------- MODULE ReportStore_proofs --------------------------
(***************************************************************************)
(* Proofs about ReportStore, for any exporters, readers, analyses and      *)
(* numbers of functions, under any of the circumstances.                   *)
(***************************************************************************)
EXTENDS ReportStore, TLAPS

(* The labels between the claim of a key and its release. *)
Claiming == {"first", "load", "compare", "build", "store", "cache"}

ExporterLabels == {"idle", "settle", "enter", "name", "mark"} \cup Claiming
ReaderLabels == {"idle", "key", "find", "cold", "load", "compare", "miss",
                 "put", "name"}

(* What a thread has in hand, where it is. *)
InHand ==
    /\ \A t \in Exporters : pc[t] \in ExporterLabels
    /\ \A r \in Readers : pc[r] \in ReaderLabels
    /\ \A p \in Procs :
          /\ pc[p] \notin {"idle", "settle", "key"} => key[p] \in Keys
          /\ pc[p] \in {"compare", "store", "cache", "put", "name", "mark"}
                => hand[p] \in Reports

(* A key is claimed by the one exporter that loads or builds its report. *)
ClaimsAreHeld ==
    /\ \A t \in Exporters : pc[t] \in Claiming => building[key[t]] = t
    /\ \A k \in Keys, t \in Exporters :
          building[k] = t => pc[t] \in Claiming /\ key[t] = k

Ind == TypeOK /\ InHand /\ ClaimsAreHeld

(* A key is put on record only once its report is in memory. *)
NamedHasReport ==
    ~setup.evicts => \A p \in Procs : pc[p] = "name" => reports[key[p]] # None

(* One thing after the other: who is not idle is alone. *)
Alone == ~setup.overlaps =>
            \A p, q \in Procs : pc[p] # "idle" /\ pc[q] # "idle" => p = q

(* Then only an export changes a record that an export has made. *)
RecordInTurn ==
    ~setup.overlaps =>
        /\ \A t \in Exporters : pc[t] = "mark" => reportKey = key[t]
        /\ (/\ exportedKey # None
            /\ \A t \in Exporters : pc[t] # "mark") => reportKey = exportedKey
        /\ \A r \in Readers :
              pc[r] # "idle" /\ exportedKey # None =>
                 pc[r] # "key" /\ key[r] = reportKey

(* Then, too, the disk is read only before the first export: what it holds is
   of an earlier process. *)
Foreign(r) == r.key = None

DiskIsForeign ==
    ~setup.overlaps /\ ~setup.evicts =>
        /\ \A k \in Keys : reports[k] # None => reports[k].key \in {None, k}
        /\ (/\ exportedKey = None /\ disk \in Reports
            /\ \A t \in Exporters : pc[t] \notin {"cache", "name", "mark"})
              => Foreign(disk)
        /\ \A t \in Exporters :
              /\ pc[t] \in {"load", "compare"} => exportedKey = None
              /\ pc[t] = "compare" => Foreign(hand[t])
              /\ pc[t] \in {"store", "cache", "name", "mark"} =>
                    hand[t].key \in {None, key[t]}
        /\ \A r \in Readers :
              /\ pc[r] \in {"cold", "load", "compare", "put"} => exportedKey = None
              /\ pc[r] \in {"compare", "put"} => Foreign(hand[r])

-----------------------------------------------------------------------------
(* A report has an analysis and a key; a key is a number of functions. *)
LEMMA ReportsAreReports ==
    ASSUME NEW a \in Analyses, NEW k \in Keys
    PROVE  [of |-> a, key |-> k] \in Reports
  BY DEF Reports

(* ... and is therefore none of the marks. *)
LEMMA KeysAreNumbers ==
    /\ None \notin Keys
    /\ \A a \in Analyses : Functions[a] \in Keys
  BY StoreConstants DEF Keys

(* Nothing is exported yet, and no key is claimed. *)
LEMMA InitInd == Init => Ind
<1> SUFFICES ASSUME Init PROVE Ind
  OBVIOUS
<1>1. analysis \in Analyses /\ disk \in Reports \cup {None, Unreadable}
  BY SetupConstants DEF Init, Setup, Reports
<1>2. /\ pc \in [Procs -> Labels] /\ key \in [Procs -> Keys \cup {None}]
      /\ hand \in [Procs -> Reports \cup {None}]
  BY DEF Init, Labels
<1>3. /\ reports \in [Keys -> Reports \cup {None}]
      /\ building \in [Keys -> Exporters \cup {None}]
  BY DEF Init
<1>4. TypeOK
  BY <1>1, <1>2, <1>3 DEF Init, TypeOK
<1> QED
  BY <1>4, MarksAreNoReports
     DEF Init, Ind, InHand, ClaimsAreHeld, ExporterLabels, ReaderLabels, Procs,
         Claiming

(* Every step keeps the types. *)
LEMMA TypeStep ==
    ASSUME Ind, [Next]_vars
    PROVE  TypeOK'
<1> USE StoreConstants, MarksAreNoReports, ReportsAreReports
    DEF Ind, TypeOK, InHand, ClaimsAreHeld, Procs, Claiming, Labels
<1>1. ASSUME NEW t \in Exporters, BeginExport(t) PROVE TypeOK'
  BY <1>1 DEF BeginExport, Begin, Goto, view, caches
<1>2. ASSUME NEW t \in Exporters, CancelExport(t) PROVE TypeOK'
  BY <1>2 DEF CancelExport, Return, Goto, view, caches
<1>3. ASSUME NEW t \in Exporters, TakeKey(t) PROVE TypeOK'
  <2>1. Functions[analysis] \in Keys
    BY KeysAreNumbers
  <2> QED
    BY <1>3, <2>1 DEF TakeKey, Goto, view, caches
<1>4. ASSUME NEW t \in Exporters, HitReport(t) PROVE TypeOK'
  BY <1>4 DEF HitReport, Goto, view, caches
<1>5. ASSUME NEW t \in Exporters, ClaimKey(t) PROVE TypeOK'
  BY <1>5 DEF ClaimKey, Goto, view
<1>6. ASSUME NEW t \in Exporters, ChooseSource(t) PROVE TypeOK'
  BY <1>6 DEF ChooseSource, Goto, view, caches
<1>7. ASSUME NEW t \in Exporters, LoadForExport(t) PROVE TypeOK'
  BY <1>7 DEF LoadForExport, ReadDisk, Goto, view, caches
<1>8. ASSUME NEW t \in Exporters, CompareForExport(t) PROVE TypeOK'
  BY <1>8 DEF CompareForExport, Compare, Goto, view, caches
<1>9. ASSUME NEW t \in Exporters, Build(t) PROVE TypeOK'
  BY <1>9 DEF Build, Goto, view, caches
<1>10. ASSUME NEW t \in Exporters, BuildFails(t) PROVE TypeOK'
  BY <1>10 DEF BuildFails, Return, Goto, view
<1>11. ASSUME NEW t \in Exporters, StoreOnDisk(t) PROVE TypeOK'
  BY <1>11 DEF StoreOnDisk, Goto, view, caches
<1>12. ASSUME NEW t \in Exporters, CacheReport(t) PROVE TypeOK'
  BY <1>12 DEF CacheReport, Goto, view
<1>13. ASSUME NEW t \in Exporters, NameReport(t) PROVE TypeOK'
  BY <1>13 DEF NameReport, Goto, view
<1>14. ASSUME NEW t \in Exporters, MarkExported(t) PROVE TypeOK'
  BY <1>14 DEF MarkExported, Return, Goto, view
<1>15. ASSUME NEW r \in Readers, FindInMemory(r) PROVE TypeOK'
  BY <1>15 DEF FindInMemory, Goto, view, caches
<1>16. ASSUME NEW r \in Readers, LoadForReader(r) PROVE TypeOK'
  BY <1>16 DEF LoadForReader, ReadDisk, Goto, view, caches
<1>17. ASSUME NEW r \in Readers, CompareForReader(r) PROVE TypeOK'
  BY <1>17 DEF CompareForReader, Compare, Goto, view, caches
<1>18. ASSUME NEW r \in Readers, GiveUpReading(r) PROVE TypeOK'
  BY <1>18 DEF GiveUpReading, Return, Goto, view
<1>19. ASSUME NEW r \in Readers, PutReport(r) PROVE TypeOK'
  BY <1>19 DEF PutReport, Goto, view
<1>20. ASSUME NEW r \in Readers, RecordKey(r) PROVE TypeOK'
  BY <1>20 DEF RecordKey, Return, Goto, view
<1>21. ASSUME "ui" \in Readers, AskToRender PROVE TypeOK'
  <2>1. Functions[analysis] \in Keys
    BY KeysAreNumbers
  <2> QED
    BY <1>21, <2>1 DEF AskToRender, Begin, Goto, view, caches
<1>22. ASSUME "ui" \in Readers, CheckColdMiss PROVE TypeOK'
  BY <1>22 DEF CheckColdMiss, Return, Goto, view, caches
<1>23. ASSUME "preload" \in Readers, AskToPreload PROVE TypeOK'
  BY <1>23 DEF AskToPreload, Begin, Goto, view, caches
<1>24. ASSUME "preload" \in Readers, TakePreloadKey PROVE TypeOK'
  <2>1. Functions[analysis] \in Keys
    BY KeysAreNumbers
  <2> QED
    BY <1>24, <2>1 DEF TakePreloadKey, Goto, view, caches
<1>25. ASSUME NEW a \in Analyses, Edit(a) PROVE TypeOK'
  BY <1>25 DEF Edit, caches
<1>26. ASSUME NEW a \in Analyses, Settle(a) PROVE TypeOK'
  BY <1>26 DEF Settle, caches
<1>27. ASSUME NEW k \in Keys, Evict(k) PROVE TypeOK'
  BY <1>27 DEF Evict, view
<1>28. ASSUME UNCHANGED vars PROVE TypeOK'
  BY <1>28 DEF vars, view, caches
<1> QED
  BY <1>1, <1>2, <1>3, <1>4, <1>5, <1>6, <1>7, <1>8, <1>9, <1>10,
     <1>11, <1>12, <1>13, <1>14, <1>15, <1>16, <1>17, <1>18, <1>19, <1>20,
     <1>21, <1>22, <1>23, <1>24, <1>25, <1>26, <1>27, <1>28
     DEF Next, Export, Read

(* ... what threads have in hand, *)
LEMMA InHandStep ==
    ASSUME Ind, [Next]_vars
    PROVE  InHand'
<1> USE StoreConstants, MarksAreNoReports, ReportsAreReports
    DEF Ind, TypeOK, InHand, Procs, Claiming, ExporterLabels, ReaderLabels
<1>1. ASSUME NEW t \in Exporters, BeginExport(t) PROVE InHand'
  BY <1>1 DEF BeginExport, Begin, Goto, view, caches
<1>2. ASSUME NEW t \in Exporters, CancelExport(t) PROVE InHand'
  BY <1>2 DEF CancelExport, Return, Goto, view, caches
<1>3. ASSUME NEW t \in Exporters, TakeKey(t) PROVE InHand'
  <2>1. Functions[analysis] \in Keys
    BY KeysAreNumbers
  <2> QED
    BY <1>3, <2>1 DEF TakeKey, Goto, view, caches
<1>4. ASSUME NEW t \in Exporters, HitReport(t) PROVE InHand'
  BY <1>4 DEF HitReport, Goto, view, caches
<1>5. ASSUME NEW t \in Exporters, ClaimKey(t) PROVE InHand'
  BY <1>5 DEF ClaimKey, Goto, view
<1>6. ASSUME NEW t \in Exporters, ChooseSource(t) PROVE InHand'
  BY <1>6 DEF ChooseSource, Goto, view, caches
<1>7. ASSUME NEW t \in Exporters, LoadForExport(t) PROVE InHand'
  BY <1>7 DEF LoadForExport, ReadDisk, Goto, view, caches
<1>8. ASSUME NEW t \in Exporters, CompareForExport(t) PROVE InHand'
  BY <1>8 DEF CompareForExport, Compare, Goto, view, caches
<1>9. ASSUME NEW t \in Exporters, Build(t) PROVE InHand'
  BY <1>9 DEF Build, Goto, view, caches
<1>10. ASSUME NEW t \in Exporters, BuildFails(t) PROVE InHand'
  BY <1>10 DEF BuildFails, Return, Goto, view
<1>11. ASSUME NEW t \in Exporters, StoreOnDisk(t) PROVE InHand'
  BY <1>11 DEF StoreOnDisk, Goto, view, caches
<1>12. ASSUME NEW t \in Exporters, CacheReport(t) PROVE InHand'
  BY <1>12 DEF CacheReport, Goto, view
<1>13. ASSUME NEW t \in Exporters, NameReport(t) PROVE InHand'
  BY <1>13 DEF NameReport, Goto, view
<1>14. ASSUME NEW t \in Exporters, MarkExported(t) PROVE InHand'
  BY <1>14 DEF MarkExported, Return, Goto, view
<1>15. ASSUME NEW r \in Readers, FindInMemory(r) PROVE InHand'
  BY <1>15 DEF FindInMemory, Goto, view, caches
<1>16. ASSUME NEW r \in Readers, LoadForReader(r) PROVE InHand'
  BY <1>16 DEF LoadForReader, ReadDisk, Goto, view, caches
<1>17. ASSUME NEW r \in Readers, CompareForReader(r) PROVE InHand'
  BY <1>17 DEF CompareForReader, Compare, Goto, view, caches
<1>18. ASSUME NEW r \in Readers, GiveUpReading(r) PROVE InHand'
  BY <1>18 DEF GiveUpReading, Return, Goto, view
<1>19. ASSUME NEW r \in Readers, PutReport(r) PROVE InHand'
  BY <1>19 DEF PutReport, Goto, view
<1>20. ASSUME NEW r \in Readers, RecordKey(r) PROVE InHand'
  BY <1>20 DEF RecordKey, Return, Goto, view
<1>21. ASSUME "ui" \in Readers, AskToRender PROVE InHand'
  <2>1. Functions[analysis] \in Keys
    BY KeysAreNumbers
  <2> QED
    BY <1>21, <2>1 DEF AskToRender, Begin, Goto, view, caches
<1>22. ASSUME "ui" \in Readers, CheckColdMiss PROVE InHand'
  BY <1>22 DEF CheckColdMiss, Return, Goto, view, caches
<1>23. ASSUME "preload" \in Readers, AskToPreload PROVE InHand'
  BY <1>23 DEF AskToPreload, Begin, Goto, view, caches
<1>24. ASSUME "preload" \in Readers, TakePreloadKey PROVE InHand'
  <2>1. Functions[analysis] \in Keys
    BY KeysAreNumbers
  <2> QED
    BY <1>24, <2>1 DEF TakePreloadKey, Goto, view, caches
<1>25. ASSUME NEW a \in Analyses, Edit(a) PROVE InHand'
  BY <1>25 DEF Edit, caches
<1>26. ASSUME NEW a \in Analyses, Settle(a) PROVE InHand'
  BY <1>26 DEF Settle, caches
<1>27. ASSUME NEW k \in Keys, Evict(k) PROVE InHand'
  BY <1>27 DEF Evict, view
<1>28. ASSUME UNCHANGED vars PROVE InHand'
  BY <1>28 DEF vars, view, caches
<1> QED
  BY <1>1, <1>2, <1>3, <1>4, <1>5, <1>6, <1>7, <1>8, <1>9, <1>10,
     <1>11, <1>12, <1>13, <1>14, <1>15, <1>16, <1>17, <1>18, <1>19, <1>20,
     <1>21, <1>22, <1>23, <1>24, <1>25, <1>26, <1>27, <1>28
     DEF Next, Export, Read

(* ... and the claims. *)
LEMMA ClaimsStep ==
    ASSUME Ind, [Next]_vars
    PROVE  ClaimsAreHeld'
<1> USE StoreConstants, MarksAreNoReports
    DEF Ind, TypeOK, InHand, ClaimsAreHeld, Procs, Claiming,
        ExporterLabels, ReaderLabels
<1>1. ASSUME NEW t \in Exporters, BeginExport(t) PROVE ClaimsAreHeld'
  BY <1>1 DEF BeginExport, Begin, Goto, view, caches
<1>2. ASSUME NEW t \in Exporters, CancelExport(t) PROVE ClaimsAreHeld'
  BY <1>2 DEF CancelExport, Return, Goto, view, caches
<1>3. ASSUME NEW t \in Exporters, TakeKey(t) PROVE ClaimsAreHeld'
  BY <1>3 DEF TakeKey, Goto, view, caches
<1>4. ASSUME NEW t \in Exporters, HitReport(t) PROVE ClaimsAreHeld'
  BY <1>4 DEF HitReport, Goto, view, caches
<1>5. ASSUME NEW t \in Exporters, ClaimKey(t) PROVE ClaimsAreHeld'
  BY <1>5 DEF ClaimKey, Goto, view
<1>6. ASSUME NEW t \in Exporters, ChooseSource(t) PROVE ClaimsAreHeld'
  BY <1>6 DEF ChooseSource, Goto, view, caches
<1>7. ASSUME NEW t \in Exporters, LoadForExport(t) PROVE ClaimsAreHeld'
  BY <1>7 DEF LoadForExport, ReadDisk, Goto, view, caches
<1>8. ASSUME NEW t \in Exporters, CompareForExport(t) PROVE ClaimsAreHeld'
  BY <1>8 DEF CompareForExport, Compare, Goto, view, caches
<1>9. ASSUME NEW t \in Exporters, Build(t) PROVE ClaimsAreHeld'
  BY <1>9 DEF Build, Goto, view, caches
<1>10. ASSUME NEW t \in Exporters, BuildFails(t) PROVE ClaimsAreHeld'
  BY <1>10 DEF BuildFails, Return, Goto, view
<1>11. ASSUME NEW t \in Exporters, StoreOnDisk(t) PROVE ClaimsAreHeld'
  BY <1>11 DEF StoreOnDisk, Goto, view, caches
<1>12. ASSUME NEW t \in Exporters, CacheReport(t) PROVE ClaimsAreHeld'
  BY <1>12 DEF CacheReport, Goto, view
<1>13. ASSUME NEW t \in Exporters, NameReport(t) PROVE ClaimsAreHeld'
  BY <1>13 DEF NameReport, Goto, view
<1>14. ASSUME NEW t \in Exporters, MarkExported(t) PROVE ClaimsAreHeld'
  BY <1>14 DEF MarkExported, Return, Goto, view
<1>15. ASSUME NEW r \in Readers, FindInMemory(r) PROVE ClaimsAreHeld'
  BY <1>15 DEF FindInMemory, Goto, view, caches
<1>16. ASSUME NEW r \in Readers, LoadForReader(r) PROVE ClaimsAreHeld'
  BY <1>16 DEF LoadForReader, ReadDisk, Goto, view, caches
<1>17. ASSUME NEW r \in Readers, CompareForReader(r) PROVE ClaimsAreHeld'
  BY <1>17 DEF CompareForReader, Compare, Goto, view, caches
<1>18. ASSUME NEW r \in Readers, GiveUpReading(r) PROVE ClaimsAreHeld'
  BY <1>18 DEF GiveUpReading, Return, Goto, view
<1>19. ASSUME NEW r \in Readers, PutReport(r) PROVE ClaimsAreHeld'
  BY <1>19 DEF PutReport, Goto, view
<1>20. ASSUME NEW r \in Readers, RecordKey(r) PROVE ClaimsAreHeld'
  BY <1>20 DEF RecordKey, Return, Goto, view
<1>21. ASSUME "ui" \in Readers, AskToRender PROVE ClaimsAreHeld'
  BY <1>21 DEF AskToRender, Begin, Goto, view, caches
<1>22. ASSUME "ui" \in Readers, CheckColdMiss PROVE ClaimsAreHeld'
  BY <1>22 DEF CheckColdMiss, Return, Goto, view, caches
<1>23. ASSUME "preload" \in Readers, AskToPreload PROVE ClaimsAreHeld'
  BY <1>23 DEF AskToPreload, Begin, Goto, view, caches
<1>24. ASSUME "preload" \in Readers, TakePreloadKey PROVE ClaimsAreHeld'
  BY <1>24 DEF TakePreloadKey, Goto, view, caches
<1>25. ASSUME NEW a \in Analyses, Edit(a) PROVE ClaimsAreHeld'
  BY <1>25 DEF Edit, caches
<1>26. ASSUME NEW a \in Analyses, Settle(a) PROVE ClaimsAreHeld'
  BY <1>26 DEF Settle, caches
<1>27. ASSUME NEW k \in Keys, Evict(k) PROVE ClaimsAreHeld'
  BY <1>27 DEF Evict, view
<1>28. ASSUME UNCHANGED vars PROVE ClaimsAreHeld'
  BY <1>28 DEF vars, view, caches
<1> QED
  BY <1>1, <1>2, <1>3, <1>4, <1>5, <1>6, <1>7, <1>8, <1>9, <1>10,
     <1>11, <1>12, <1>13, <1>14, <1>15, <1>16, <1>17, <1>18, <1>19, <1>20,
     <1>21, <1>22, <1>23, <1>24, <1>25, <1>26, <1>27, <1>28
     DEF Next, Export, Read

(* The invariant that the theorems below rest on. *)
THEOREM Invariance == Spec => []Ind
<1>1. Ind /\ [Next]_vars => Ind'
  BY TypeStep, InHandStep, ClaimsStep DEF Ind
<1> QED
  BY <1>1, InitInd, PTL DEF Spec

(* Every variable has its type; above all a claimed key is claimed by a thread
   that holds it. *)
THEOREM TypeCorrect == Spec => []TypeOK
  BY Invariance, PTL DEF Ind

-----------------------------------------------------------------------------
(* The key on record *)

RecordedInv == RecordedKeyHasReport /\ NamedHasReport

(* While nothing is evicted, a report in memory stays there. *)
LEMMA RecordedStep ==
    ASSUME Ind, RecordedInv, [Next]_vars
    PROVE  RecordedInv'
<1> USE StoreConstants, MarksAreNoReports DEF Ind, TypeOK, InHand, RecordedInv,
    RecordedKeyHasReport, NamedHasReport, Procs
<1>1. ASSUME NEW t \in Exporters, BeginExport(t) PROVE RecordedInv'
  BY <1>1 DEF BeginExport, Begin, Goto, view, caches
<1>2. ASSUME NEW t \in Exporters, CancelExport(t) PROVE RecordedInv'
  BY <1>2 DEF CancelExport, Return, Goto, view, caches
<1>3. ASSUME NEW t \in Exporters, TakeKey(t) PROVE RecordedInv'
  BY <1>3 DEF TakeKey, Goto, view, caches
<1>4. ASSUME NEW t \in Exporters, HitReport(t) PROVE RecordedInv'
  BY <1>4 DEF HitReport, Goto, view, caches
<1>5. ASSUME NEW t \in Exporters, ClaimKey(t) PROVE RecordedInv'
  BY <1>5 DEF ClaimKey, Goto, view
<1>6. ASSUME NEW t \in Exporters, ChooseSource(t) PROVE RecordedInv'
  BY <1>6 DEF ChooseSource, Goto, view, caches
<1>7. ASSUME NEW t \in Exporters, LoadForExport(t) PROVE RecordedInv'
  BY <1>7 DEF LoadForExport, ReadDisk, Goto, view, caches
<1>8. ASSUME NEW t \in Exporters, CompareForExport(t) PROVE RecordedInv'
  BY <1>8 DEF CompareForExport, Compare, Goto, view, caches
<1>9. ASSUME NEW t \in Exporters, Build(t) PROVE RecordedInv'
  BY <1>9 DEF Build, Goto, view, caches
<1>10. ASSUME NEW t \in Exporters, BuildFails(t) PROVE RecordedInv'
  BY <1>10 DEF BuildFails, Return, Goto, view
<1>11. ASSUME NEW t \in Exporters, StoreOnDisk(t) PROVE RecordedInv'
  BY <1>11 DEF StoreOnDisk, Goto, view, caches
<1>12. ASSUME NEW t \in Exporters, CacheReport(t) PROVE RecordedInv'
  BY <1>12 DEF CacheReport, Goto, view
<1>13. ASSUME NEW t \in Exporters, NameReport(t) PROVE RecordedInv'
  BY <1>13 DEF NameReport, Goto, view
<1>14. ASSUME NEW t \in Exporters, MarkExported(t) PROVE RecordedInv'
  BY <1>14 DEF MarkExported, Return, Goto, view
<1>15. ASSUME NEW r \in Readers, FindInMemory(r) PROVE RecordedInv'
  BY <1>15 DEF FindInMemory, Goto, view, caches
<1>16. ASSUME NEW r \in Readers, LoadForReader(r) PROVE RecordedInv'
  BY <1>16 DEF LoadForReader, ReadDisk, Goto, view, caches
<1>17. ASSUME NEW r \in Readers, CompareForReader(r) PROVE RecordedInv'
  BY <1>17 DEF CompareForReader, Compare, Goto, view, caches
<1>18. ASSUME NEW r \in Readers, GiveUpReading(r) PROVE RecordedInv'
  BY <1>18 DEF GiveUpReading, Return, Goto, view
<1>19. ASSUME NEW r \in Readers, PutReport(r) PROVE RecordedInv'
  BY <1>19 DEF PutReport, Goto, view
<1>20. ASSUME NEW r \in Readers, RecordKey(r) PROVE RecordedInv'
  BY <1>20 DEF RecordKey, Return, Goto, view
<1>21. ASSUME "ui" \in Readers, AskToRender PROVE RecordedInv'
  BY <1>21 DEF AskToRender, Begin, Goto, view, caches
<1>22. ASSUME "ui" \in Readers, CheckColdMiss PROVE RecordedInv'
  BY <1>22 DEF CheckColdMiss, Return, Goto, view, caches
<1>23. ASSUME "preload" \in Readers, AskToPreload PROVE RecordedInv'
  BY <1>23 DEF AskToPreload, Begin, Goto, view, caches
<1>24. ASSUME "preload" \in Readers, TakePreloadKey PROVE RecordedInv'
  BY <1>24 DEF TakePreloadKey, Goto, view, caches
<1>25. ASSUME NEW a \in Analyses, Edit(a) PROVE RecordedInv'
  BY <1>25 DEF Edit, caches
<1>26. ASSUME NEW a \in Analyses, Settle(a) PROVE RecordedInv'
  BY <1>26 DEF Settle, caches
<1>27. ASSUME NEW k \in Keys, Evict(k) PROVE RecordedInv'
  BY <1>27 DEF Evict, view
<1>28. ASSUME UNCHANGED vars PROVE RecordedInv'
  BY <1>28 DEF vars, view, caches
<1> QED
  BY <1>1, <1>2, <1>3, <1>4, <1>5, <1>6, <1>7, <1>8, <1>9, <1>10,
     <1>11, <1>12, <1>13, <1>14, <1>15, <1>16, <1>17, <1>18, <1>19, <1>20,
     <1>21, <1>22, <1>23, <1>24, <1>25, <1>26, <1>27, <1>28
     DEF Next, Export, Read

(* The invariant the next theorem follows from. *)
LEMMA Recorded == Spec => []RecordedInv
<1>1. Init => RecordedInv
  BY DEF Init, RecordedInv, RecordedKeyHasReport, NamedHasReport
<1>2. Ind /\ RecordedInv /\ [Next]_vars => RecordedInv'
  BY RecordedStep
<1> QED
  BY <1>1, <1>2, Invariance, PTL DEF Spec

(* However exports, lookups, preloads and edits interleave, the key on record
   has its report in memory while nothing is evicted. *)
THEOREM RecordsHaveReports == Spec => []RecordedKeyHasReport
  BY Recorded, PTL DEF RecordedInv

-----------------------------------------------------------------------------
(* One thing after the other *)

(* Who begins finds all others idle. *)
LEMMA AloneStep ==
    ASSUME Ind, Alone, [Next]_vars
    PROVE  Alone'
<1> USE StoreConstants DEF Ind, TypeOK, InHand, Alone, Procs
<1>1. ASSUME NEW t \in Exporters, BeginExport(t) PROVE Alone'
  BY <1>1 DEF BeginExport, Begin, Goto, view, caches
<1>2. ASSUME NEW t \in Exporters, CancelExport(t) PROVE Alone'
  BY <1>2 DEF CancelExport, Return, Goto, view, caches
<1>3. ASSUME NEW t \in Exporters, TakeKey(t) PROVE Alone'
  BY <1>3 DEF TakeKey, Goto, view, caches
<1>4. ASSUME NEW t \in Exporters, HitReport(t) PROVE Alone'
  BY <1>4 DEF HitReport, Goto, view, caches
<1>5. ASSUME NEW t \in Exporters, ClaimKey(t) PROVE Alone'
  BY <1>5 DEF ClaimKey, Goto, view
<1>6. ASSUME NEW t \in Exporters, ChooseSource(t) PROVE Alone'
  BY <1>6 DEF ChooseSource, Goto, view, caches
<1>7. ASSUME NEW t \in Exporters, LoadForExport(t) PROVE Alone'
  BY <1>7 DEF LoadForExport, ReadDisk, Goto, view, caches
<1>8. ASSUME NEW t \in Exporters, CompareForExport(t) PROVE Alone'
  BY <1>8 DEF CompareForExport, Compare, Goto, view, caches
<1>9. ASSUME NEW t \in Exporters, Build(t) PROVE Alone'
  BY <1>9 DEF Build, Goto, view, caches
<1>10. ASSUME NEW t \in Exporters, BuildFails(t) PROVE Alone'
  BY <1>10 DEF BuildFails, Return, Goto, view
<1>11. ASSUME NEW t \in Exporters, StoreOnDisk(t) PROVE Alone'
  BY <1>11 DEF StoreOnDisk, Goto, view, caches
<1>12. ASSUME NEW t \in Exporters, CacheReport(t) PROVE Alone'
  BY <1>12 DEF CacheReport, Goto, view
<1>13. ASSUME NEW t \in Exporters, NameReport(t) PROVE Alone'
  BY <1>13 DEF NameReport, Goto, view
<1>14. ASSUME NEW t \in Exporters, MarkExported(t) PROVE Alone'
  BY <1>14 DEF MarkExported, Return, Goto, view
<1>15. ASSUME NEW r \in Readers, FindInMemory(r) PROVE Alone'
  BY <1>15 DEF FindInMemory, Goto, view, caches
<1>16. ASSUME NEW r \in Readers, LoadForReader(r) PROVE Alone'
  BY <1>16 DEF LoadForReader, ReadDisk, Goto, view, caches
<1>17. ASSUME NEW r \in Readers, CompareForReader(r) PROVE Alone'
  BY <1>17 DEF CompareForReader, Compare, Goto, view, caches
<1>18. ASSUME NEW r \in Readers, GiveUpReading(r) PROVE Alone'
  BY <1>18 DEF GiveUpReading, Return, Goto, view
<1>19. ASSUME NEW r \in Readers, PutReport(r) PROVE Alone'
  BY <1>19 DEF PutReport, Goto, view
<1>20. ASSUME NEW r \in Readers, RecordKey(r) PROVE Alone'
  BY <1>20 DEF RecordKey, Return, Goto, view
<1>21. ASSUME "ui" \in Readers, AskToRender PROVE Alone'
  BY <1>21 DEF AskToRender, Begin, Goto, view, caches
<1>22. ASSUME "ui" \in Readers, CheckColdMiss PROVE Alone'
  BY <1>22 DEF CheckColdMiss, Return, Goto, view, caches
<1>23. ASSUME "preload" \in Readers, AskToPreload PROVE Alone'
  BY <1>23 DEF AskToPreload, Begin, Goto, view, caches
<1>24. ASSUME "preload" \in Readers, TakePreloadKey PROVE Alone'
  BY <1>24 DEF TakePreloadKey, Goto, view, caches
<1>25. ASSUME NEW a \in Analyses, Edit(a) PROVE Alone'
  BY <1>25 DEF Edit, caches
<1>26. ASSUME NEW a \in Analyses, Settle(a) PROVE Alone'
  BY <1>26 DEF Settle, caches
<1>27. ASSUME NEW k \in Keys, Evict(k) PROVE Alone'
  BY <1>27 DEF Evict, view
<1>28. ASSUME UNCHANGED vars PROVE Alone'
  BY <1>28 DEF vars, view, caches
<1> QED
  BY <1>1, <1>2, <1>3, <1>4, <1>5, <1>6, <1>7, <1>8, <1>9, <1>10,
     <1>11, <1>12, <1>13, <1>14, <1>15, <1>16, <1>17, <1>18, <1>19, <1>20,
     <1>21, <1>22, <1>23, <1>24, <1>25, <1>26, <1>27, <1>28
     DEF Next, Export, Read

(* The record changes only in an export, or before the first one. *)
LEMMA InTurnStep ==
    ASSUME Ind, Alone, RecordInTurn, [Next]_vars
    PROVE  RecordInTurn'
<1> USE StoreConstants, MarksAreNoReports
    DEF Ind, TypeOK, InHand, Alone, RecordInTurn, Procs, ExporterLabels,
        ReaderLabels
<1>1. ASSUME NEW t \in Exporters, BeginExport(t) PROVE RecordInTurn'
  BY <1>1 DEF BeginExport, Begin, Goto, view, caches
<1>2. ASSUME NEW t \in Exporters, CancelExport(t) PROVE RecordInTurn'
  BY <1>2 DEF CancelExport, Return, Goto, view, caches
<1>3. ASSUME NEW t \in Exporters, TakeKey(t) PROVE RecordInTurn'
  BY <1>3 DEF TakeKey, Goto, view, caches
<1>4. ASSUME NEW t \in Exporters, HitReport(t) PROVE RecordInTurn'
  BY <1>4 DEF HitReport, Goto, view, caches
<1>5. ASSUME NEW t \in Exporters, ClaimKey(t) PROVE RecordInTurn'
  BY <1>5 DEF ClaimKey, Goto, view
<1>6. ASSUME NEW t \in Exporters, ChooseSource(t) PROVE RecordInTurn'
  BY <1>6 DEF ChooseSource, Goto, view, caches
<1>7. ASSUME NEW t \in Exporters, LoadForExport(t) PROVE RecordInTurn'
  BY <1>7 DEF LoadForExport, ReadDisk, Goto, view, caches
<1>8. ASSUME NEW t \in Exporters, CompareForExport(t) PROVE RecordInTurn'
  BY <1>8 DEF CompareForExport, Compare, Goto, view, caches
<1>9. ASSUME NEW t \in Exporters, Build(t) PROVE RecordInTurn'
  BY <1>9 DEF Build, Goto, view, caches
<1>10. ASSUME NEW t \in Exporters, BuildFails(t) PROVE RecordInTurn'
  BY <1>10 DEF BuildFails, Return, Goto, view
<1>11. ASSUME NEW t \in Exporters, StoreOnDisk(t) PROVE RecordInTurn'
  BY <1>11 DEF StoreOnDisk, Goto, view, caches
<1>12. ASSUME NEW t \in Exporters, CacheReport(t) PROVE RecordInTurn'
  BY <1>12 DEF CacheReport, Goto, view
<1>13. ASSUME NEW t \in Exporters, NameReport(t) PROVE RecordInTurn'
  BY <1>13 DEF NameReport, Goto, view
<1>14. ASSUME NEW t \in Exporters, MarkExported(t) PROVE RecordInTurn'
  BY <1>14 DEF MarkExported, Return, Goto, view
<1>15. ASSUME NEW r \in Readers, FindInMemory(r) PROVE RecordInTurn'
  BY <1>15 DEF FindInMemory, Goto, view, caches
<1>16. ASSUME NEW r \in Readers, LoadForReader(r) PROVE RecordInTurn'
  BY <1>16 DEF LoadForReader, ReadDisk, Goto, view, caches
<1>17. ASSUME NEW r \in Readers, CompareForReader(r) PROVE RecordInTurn'
  BY <1>17 DEF CompareForReader, Compare, Goto, view, caches
<1>18. ASSUME NEW r \in Readers, GiveUpReading(r) PROVE RecordInTurn'
  BY <1>18 DEF GiveUpReading, Return, Goto, view
<1>19. ASSUME NEW r \in Readers, PutReport(r) PROVE RecordInTurn'
  BY <1>19 DEF PutReport, Goto, view
<1>20. ASSUME NEW r \in Readers, RecordKey(r) PROVE RecordInTurn'
  BY <1>20 DEF RecordKey, Return, Goto, view
<1>21. ASSUME "ui" \in Readers, AskToRender PROVE RecordInTurn'
  BY <1>21 DEF AskToRender, Begin, Goto, view, caches
<1>22. ASSUME "ui" \in Readers, CheckColdMiss PROVE RecordInTurn'
  BY <1>22 DEF CheckColdMiss, Return, Goto, view, caches
<1>23. ASSUME "preload" \in Readers, AskToPreload PROVE RecordInTurn'
  BY <1>23 DEF AskToPreload, Begin, Goto, view, caches
<1>24. ASSUME "preload" \in Readers, TakePreloadKey PROVE RecordInTurn'
  BY <1>24 DEF TakePreloadKey, Goto, view, caches
<1>25. ASSUME NEW a \in Analyses, Edit(a) PROVE RecordInTurn'
  BY <1>25 DEF Edit, caches
<1>26. ASSUME NEW a \in Analyses, Settle(a) PROVE RecordInTurn'
  BY <1>26 DEF Settle, caches
<1>27. ASSUME NEW k \in Keys, Evict(k) PROVE RecordInTurn'
  BY <1>27 DEF Evict, view
<1>28. ASSUME UNCHANGED vars PROVE RecordInTurn'
  BY <1>28 DEF vars, view, caches
<1> QED
  BY <1>1, <1>2, <1>3, <1>4, <1>5, <1>6, <1>7, <1>8, <1>9, <1>10,
     <1>11, <1>12, <1>13, <1>14, <1>15, <1>16, <1>17, <1>18, <1>19, <1>20,
     <1>21, <1>22, <1>23, <1>24, <1>25, <1>26, <1>27, <1>28
     DEF Next, Export, Read

(* The disk is read only before the first export. *)
LEMMA ForeignStep ==
    ASSUME Ind, Alone, RecordInTurn, RecordedInv, DiskIsForeign, [Next]_vars
    PROVE  DiskIsForeign'
<1> USE StoreConstants, MarksAreNoReports
    DEF Ind, TypeOK, InHand, Alone, RecordInTurn, RecordedInv,
        RecordedKeyHasReport, DiskIsForeign, Foreign, Procs, ExporterLabels, ReaderLabels
<1>1. ASSUME NEW t \in Exporters, BeginExport(t) PROVE DiskIsForeign'
  BY <1>1 DEF BeginExport, Begin, Goto, view, caches
<1>2. ASSUME NEW t \in Exporters, CancelExport(t) PROVE DiskIsForeign'
  BY <1>2 DEF CancelExport, Return, Goto, view, caches
<1>3. ASSUME NEW t \in Exporters, TakeKey(t) PROVE DiskIsForeign'
  BY <1>3 DEF TakeKey, Goto, view, caches
<1>4. ASSUME NEW t \in Exporters, HitReport(t) PROVE DiskIsForeign'
  BY <1>4 DEF HitReport, Goto, view, caches
<1>5. ASSUME NEW t \in Exporters, ClaimKey(t) PROVE DiskIsForeign'
  BY <1>5 DEF ClaimKey, Goto, view
<1>6. ASSUME NEW t \in Exporters, ChooseSource(t) PROVE DiskIsForeign'
  BY <1>6 DEF ChooseSource, Goto, view, caches
<1>7. ASSUME NEW t \in Exporters, LoadForExport(t) PROVE DiskIsForeign'
  BY <1>7 DEF LoadForExport, ReadDisk, Goto, view, caches
<1>8. ASSUME NEW t \in Exporters, CompareForExport(t) PROVE DiskIsForeign'
  BY <1>8 DEF CompareForExport, Compare, Goto, view, caches
<1>9. ASSUME NEW t \in Exporters, Build(t) PROVE DiskIsForeign'
  BY <1>9 DEF Build, Goto, view, caches
<1>10. ASSUME NEW t \in Exporters, BuildFails(t) PROVE DiskIsForeign'
  BY <1>10 DEF BuildFails, Return, Goto, view
<1>11. ASSUME NEW t \in Exporters, StoreOnDisk(t) PROVE DiskIsForeign'
  BY <1>11 DEF StoreOnDisk, Goto, view, caches
<1>12. ASSUME NEW t \in Exporters, CacheReport(t) PROVE DiskIsForeign'
  BY <1>12 DEF CacheReport, Goto, view
<1>13. ASSUME NEW t \in Exporters, NameReport(t) PROVE DiskIsForeign'
  BY <1>13 DEF NameReport, Goto, view
<1>14. ASSUME NEW t \in Exporters, MarkExported(t) PROVE DiskIsForeign'
  <2>1. exportedKey' # None
    BY <1>14, KeysAreNumbers DEF MarkExported
  <2>2. ~setup.overlaps => \A p \in Procs : pc'[p] = "idle"
    BY <1>14 DEF MarkExported, Return, Goto
  <2> QED
    BY <1>14, <2>1, <2>2 DEF MarkExported, Return, Goto, view
<1>15. ASSUME NEW r \in Readers, FindInMemory(r) PROVE DiskIsForeign'
  BY <1>15 DEF FindInMemory, Goto, view, caches
<1>16. ASSUME NEW r \in Readers, LoadForReader(r) PROVE DiskIsForeign'
  BY <1>16 DEF LoadForReader, ReadDisk, Goto, view, caches
<1>17. ASSUME NEW r \in Readers, CompareForReader(r) PROVE DiskIsForeign'
  BY <1>17 DEF CompareForReader, Compare, Goto, view, caches
<1>18. ASSUME NEW r \in Readers, GiveUpReading(r) PROVE DiskIsForeign'
  BY <1>18 DEF GiveUpReading, Return, Goto, view
<1>19. ASSUME NEW r \in Readers, PutReport(r) PROVE DiskIsForeign'
  BY <1>19 DEF PutReport, Goto, view
<1>20. ASSUME NEW r \in Readers, RecordKey(r) PROVE DiskIsForeign'
  BY <1>20 DEF RecordKey, Return, Goto, view
<1>21. ASSUME "ui" \in Readers, AskToRender PROVE DiskIsForeign'
  BY <1>21 DEF AskToRender, Begin, Goto, view, caches
<1>22. ASSUME "ui" \in Readers, CheckColdMiss PROVE DiskIsForeign'
  BY <1>22 DEF CheckColdMiss, Return, Goto, view, caches
<1>23. ASSUME "preload" \in Readers, AskToPreload PROVE DiskIsForeign'
  BY <1>23 DEF AskToPreload, Begin, Goto, view, caches
<1>24. ASSUME "preload" \in Readers, TakePreloadKey PROVE DiskIsForeign'
  BY <1>24 DEF TakePreloadKey, Goto, view, caches
<1>25. ASSUME NEW a \in Analyses, Edit(a) PROVE DiskIsForeign'
  BY <1>25 DEF Edit, caches
<1>26. ASSUME NEW a \in Analyses, Settle(a) PROVE DiskIsForeign'
  BY <1>26 DEF Settle, caches
<1>27. ASSUME NEW k \in Keys, Evict(k) PROVE DiskIsForeign'
  BY <1>27 DEF Evict, view
<1>28. ASSUME UNCHANGED vars PROVE DiskIsForeign'
  BY <1>28 DEF vars, view, caches
<1> QED
  BY <1>1, <1>2, <1>3, <1>4, <1>5, <1>6, <1>7, <1>8, <1>9, <1>10,
     <1>11, <1>12, <1>13, <1>14, <1>15, <1>16, <1>17, <1>18, <1>19, <1>20,
     <1>21, <1>22, <1>23, <1>24, <1>25, <1>26, <1>27, <1>28
     DEF Next, Export, Read


InTurn == Alone /\ RecordInTurn /\ DiskIsForeign

(* The first record and the first disk copy are an earlier process's. *)
LEMMA InitInTurn == Init => InTurn
<1> SUFFICES ASSUME Init PROVE InTurn
  OBVIOUS
<1>1. disk \in Reports => Foreign(disk)
  BY MarksAreNoReports, SetupConstants DEF Init, Foreign, Setup
<1> QED
  BY <1>1 DEF Init, InTurn, Alone, RecordInTurn, DiskIsForeign, Procs

(* The invariant the last two theorems follow from. *)
LEMMA InTurnInvariance == Spec => []InTurn
<1>1. Ind /\ RecordedInv /\ InTurn /\ [Next]_vars => InTurn'
  BY AloneStep, InTurnStep, ForeignStep DEF InTurn
<1> QED
  BY <1>1, InitInTurn, Invariance, Recorded, PTL DEF Spec

(* What an export hands out, where exports do not overlap and memory has room,
   is never a report that this process exported under another key. *)
THEOREM NothingStandsIn == Spec => []EarlierAnalysisNeverStandsIn
<1>1. InTurn => EarlierAnalysisNeverStandsIn
  BY DEF InTurn, DiskIsForeign, EarlierAnalysisNeverStandsIn
<1> QED
  BY <1>1, InTurnInvariance, PTL

(* Whatever lookups and preloads come between exports, the key on record is
   that of the last one, where they do not overlap. *)
THEOREM LastExportIsOnRecord == Spec => []RecordIsLastExport
<1>1. InTurn => RecordIsLastExport
  BY DEF InTurn, RecordInTurn, RecordIsLastExport, AllIdle, Procs
<1> QED
  BY <1>1, InTurnInvariance, PTL
=============================================================================
