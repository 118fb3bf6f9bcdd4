---------------------------- MODULE BuiltinServer ----------------------------
(***************************************************************************)
(* mcrit_similarity/builtin.py, corpus.py and commands.py: the MCRIT       *)
(* server inside the Binary Ninja process, started by whichever thread     *)
(* needs it first, and the commands that import a corpus file into it and  *)
(* export its corpus to a file.                                            *)
(*                                                                         *)
(* A corpus is a set of samples.  The server answers one request at a      *)
(* time, so a request is one step; a file is written in several.  Binary   *)
(* Ninja may exit in the middle of anything and start again.               *)
(***************************************************************************)
EXTENDS Naturals, FiniteSets

CONSTANTS
    Exporters, Importers,   \* background threads of the two commands
    Visitors,               \* provider threads that upload what they match
    Paths,                  \* corpus files
    Samples,
    Exits,                  \* Binary Ninja may exit
    None,                   \* no path, no thread, no file
    Torn,                   \* a file that was written in part
    Foreign                 \* an export of an incompatible MCRIT

VARIABLES
    files,          \* the file at each path
    partials,       \* the file at each path with ".partial" appended
    serving,        \* _endpoint is not None
    servers,        \* how many servers this process has started
    corpus,         \* the samples the server holds
    unloaded,       \* unloaded_corpus
    lock,           \* the thread that holds _lock
    pc,             \* where each thread is
    path,           \* the file a command was given
    seed,           \* builtin_corpus in its configuration
    data,           \* the corpus a command has read or fetched
    fd              \* where the file the thread is writing is now

storage == <<files, partials>>
server == <<serving, servers, corpus, unloaded, lock>>
locals == <<pc, path, seed, data, fd>>
vars == <<storage, server, locals>>

Commands == Exporters \cup Importers
Threads == Commands \cup Visitors
Contents == (SUBSET Samples) \cup {Torn, Foreign, None}

(* A thread has one purpose, and no mark is a thing of another kind. *)
ASSUME ServerConstants ==
    /\ Exporters \cap Importers = {} /\ Commands \cap Visitors = {}
    /\ None \notin Paths \cup Threads
    /\ Torn # Foreign /\ Torn # None /\ Foreign # None
    /\ \A c \in SUBSET Samples : c \notin {Torn, Foreign, None}

(* The samples MCRIT reads from a file. *)
Held(c) == IF c \in {Torn, Foreign, None} THEN {} ELSE c

Idle == /\ pc = [t \in Threads |-> "idle"]
        /\ path = [t \in Threads |-> None]
        /\ seed = [t \in Threads |-> None]
        /\ data = [t \in Threads |-> None]
        /\ fd = [t \in Threads |-> "none"]

Down == /\ serving = FALSE
        /\ servers = 0
        /\ corpus = {}
        /\ unloaded = None
        /\ lock = None

Init ==
    /\ files \in [Paths -> {None, Foreign, Samples}]
    /\ partials = [p \in Paths |-> None]
    /\ Down
    /\ Idle

Goto(t, l) == pc' = [pc EXCEPT ![t] = l]
Return(t) == /\ Goto(t, "idle")
             /\ path' = [path EXCEPT ![t] = None]
             /\ seed' = [seed EXCEPT ![t] = None]
             /\ data' = [data EXCEPT ![t] = None]
             /\ fd' = [fd EXCEPT ![t] = "none"]

-----------------------------------------------------------------------------
(* The commands, on the UI thread, and the provider *)

(* The "Built-in corpus" setting is whatever it is by then. *)
Ask(t, p) ==
    /\ pc[t] = "idle"
    /\ path' = [path EXCEPT ![t] = p]
    /\ \E c \in Paths \cup {None} : seed' = [seed EXCEPT ![t] = c]
    /\ Goto(t, "endpoint")
    /\ UNCHANGED <<storage, server, data, fd>>

(* The file the server could not load is refused here, and only here. *)
AskToExport(t, p) == p # unloaded /\ Ask(t, p)

AskToImport(t, p) == Ask(t, p)

Visit(t) == Ask(t, None)

-----------------------------------------------------------------------------
(* resolve: endpoint() under _lock *)

(* Past endpoint() the configuration's corpus is not read again. *)
Proceed(t, l) ==
    /\ Goto(t, l)
    /\ seed' = IF l = "use" THEN [seed EXCEPT ![t] = None] ELSE seed

(* Seeded bug: the lock is not taken. *)
BugEndpoint(t) ==
    /\ pc[t] = "endpoint"
    /\ Proceed(t, IF serving THEN "use" ELSE "start")
    /\ UNCHANGED <<storage, server, path, data, fd>>

Endpoint(t) ==
    /\ pc[t] = "endpoint"
    /\ lock = None
    /\ lock' = IF serving THEN None ELSE t
    /\ Proceed(t, IF serving THEN "use" ELSE "start")
    /\ UNCHANGED <<storage, serving, servers, corpus, unloaded,
                   path, data, fd>>

(* Seeded bug: the endpoint is there for others before its corpus is. *)
BugStart(t) ==
    /\ pc[t] = "start"
    /\ servers' = servers + 1
    /\ serving' = TRUE
    /\ lock' = None
    /\ Goto(t, IF seed[t] # None THEN "load" ELSE "publish")
    /\ UNCHANGED <<storage, corpus, unloaded,
                   path, seed, data, fd>>

Start(t) ==
    /\ pc[t] = "start"
    /\ servers' = servers + 1
    /\ Goto(t, IF seed[t] # None THEN "load" ELSE "publish")
    /\ UNCHANGED <<storage, serving, corpus, unloaded, lock,
                   path, seed, data, fd>>

(* No mcrit package, an old one, no port: the next caller tries again. *)
StartFails(t) ==
    /\ pc[t] = "start"
    /\ lock' = None
    /\ Return(t)
    /\ UNCHANGED <<storage, serving, servers, corpus, unloaded>>

Load(t) ==
    /\ pc[t] = "load"
    /\ files[seed[t]] \notin {Torn, Foreign, None}
    /\ corpus' = corpus \cup files[seed[t]]
    /\ Goto(t, "publish")
    /\ UNCHANGED <<storage, serving, servers, unloaded, lock,
                   path, seed, data, fd>>

(* No such file, one that MCRIT refuses, or an error on the way. *)
LoadFails(t) ==
    /\ pc[t] = "load"
    /\ unloaded' = seed[t]
    /\ corpus' \in {corpus \cup part : part \in SUBSET Held(files[seed[t]])}
    /\ Goto(t, "publish")
    /\ UNCHANGED <<storage, serving, servers, lock,
                   path, seed, data, fd>>

Publish(t) ==
    /\ pc[t] = "publish"
    /\ serving' = TRUE
    /\ lock' = None
    /\ Proceed(t, "use")
    /\ UNCHANGED <<storage, servers, corpus, unloaded,
                   path, data, fd>>

-----------------------------------------------------------------------------
(* The requests *)

Upload(t, s) ==
    /\ t \in Visitors /\ pc[t] = "use"
    /\ corpus' = corpus \cup {s}
    /\ Return(t)
    /\ UNCHANGED <<storage, serving, servers, unloaded, lock>>

ReadFile(t) ==
    /\ t \in Importers /\ pc[t] = "use"
    /\ data' = [data EXCEPT ![t] = files[path[t]]]
    /\ Goto(t, "import")
    /\ UNCHANGED <<storage, server, path, seed, fd>>

(* import_corpus; a file that MCRIT refuses adds nothing. *)
Import(t) ==
    /\ pc[t] = "import"
    /\ corpus' = corpus \cup Held(data[t])
    /\ Return(t)
    /\ UNCHANGED <<storage, serving, servers, unloaded, lock>>

Fetch(t) ==
    /\ t \in Exporters /\ pc[t] = "use"
    /\ data' = [data EXCEPT ![t] = corpus]
    /\ Goto(t, "open")
    /\ UNCHANGED <<storage, server, path, seed, fd>>

(* A request or a file operation that fails ends the command.  What was
   written of the file stays. *)
CommandFails(t) ==
    /\ t \in Commands
    /\ pc[t] \in {"use", "import", "open", "write", "replace"}
    /\ Return(t)
    /\ UNCHANGED <<storage, server>>

-----------------------------------------------------------------------------
(* export_file: written aside, then renamed *)

(* Seeded bug: the export is written in place. *)
BugOpen(t) ==
    /\ pc[t] = "open"
    /\ files' = [files EXCEPT ![path[t]] = Torn]
    /\ fd' = [fd EXCEPT ![t] = "target"]
    /\ Goto(t, "write")
    /\ UNCHANGED <<partials, server, path, seed, data>>

Open(t) ==
    /\ pc[t] = "open"
    /\ partials' = [partials EXCEPT ![path[t]] = Torn]
    /\ fd' = [fd EXCEPT ![t] = "partial"]
    /\ Goto(t, "write")
    /\ UNCHANGED <<files, server, path, seed, data>>

(* Of two writers of one file the last may leave a mixture. *)
Written(t, old) == {data[t]} \cup (IF old = Torn THEN {} ELSE {Torn})

Write(t) ==
    /\ pc[t] = "write"
    /\ \/ /\ fd[t] = "partial"
          /\ \E c \in Written(t, partials[path[t]]) :
                partials' = [partials EXCEPT ![path[t]] = c]
          /\ UNCHANGED files
       \/ /\ fd[t] = "target"
          /\ \E c \in Written(t, files[path[t]]) :
                files' = [files EXCEPT ![path[t]] = c]
          /\ UNCHANGED partials
       \/ fd[t] = "gone" /\ UNCHANGED storage
    /\ fd' = [fd EXCEPT ![t] = "none"]
    /\ Goto(t, "replace")
    /\ UNCHANGED <<server, path, seed, data>>

(* The rename takes along whoever is still writing the file. *)
Moved(t, u) == CASE path[u] # path[t] -> fd[u]
                 [] fd[u] = "partial" -> "target"
                 [] fd[u] = "target" -> "gone"
                 [] OTHER -> fd[u]

Replace(t) ==
    /\ pc[t] = "replace"
    /\ partials[path[t]] # None
    /\ files' = [files EXCEPT ![path[t]] = partials[path[t]]]
    /\ partials' = [partials EXCEPT ![path[t]] = None]
    /\ fd' = [u \in Threads |-> IF u = t THEN "none" ELSE Moved(t, u)]
    /\ Goto(t, "idle")
    /\ path' = [path EXCEPT ![t] = None]
    /\ seed' = [seed EXCEPT ![t] = None]
    /\ data' = [data EXCEPT ![t] = None]
    /\ UNCHANGED <<server>>

-----------------------------------------------------------------------------
(* Binary Ninja exits: the server and its samples are gone, files stay. *)
Exit ==
    /\ Exits
    /\ serving' = FALSE /\ servers' = 0 /\ corpus' = {}
    /\ unloaded' = None /\ lock' = None
    /\ pc' = [t \in Threads |-> "idle"]
    /\ path' = [t \in Threads |-> None]
    /\ seed' = [t \in Threads |-> None]
    /\ data' = [t \in Threads |-> None]
    /\ fd' = [t \in Threads |-> "none"]
    /\ UNCHANGED storage

Resolve(t) == \/ Endpoint(t) \/ Start(t) \/ StartFails(t)
              \/ Load(t) \/ LoadFails(t) \/ Publish(t)

Request(t) == \/ ReadFile(t) \/ Import(t) \/ Fetch(t) \/ CommandFails(t)
              \/ \E s \in Samples : Upload(t, s)

ExportFile(t) == Open(t) \/ Write(t) \/ Replace(t)

Next ==
    \/ \E t \in Exporters, p \in Paths : AskToExport(t, p)
    \/ \E t \in Importers, p \in Paths : AskToImport(t, p)
    \/ \E t \in Visitors : Visit(t)
    \/ \E t \in Threads : Resolve(t) \/ Request(t) \/ ExportFile(t)
    \/ Exit

Spec == Init /\ [][Next]_vars

-----------------------------------------------------------------------------
(* What must hold *)

Labels == {"idle", "endpoint", "start", "load", "publish", "use", "import",
           "open", "write", "replace"}

Starting == {"start", "load", "publish"}
Using == {"use", "import", "open", "write", "replace"}

Types ==
    /\ files \in [Paths -> Contents]
    /\ partials \in [Paths -> Contents]
    /\ serving \in BOOLEAN
    /\ servers \in 0..1
    /\ corpus \subseteq Samples
    /\ unloaded \in Paths \cup {None}
    /\ lock \in Threads \cup {None}
    /\ pc \in [Threads -> Labels]
    /\ path \in [Threads -> Paths \cup {None}]
    /\ seed \in [Threads -> Paths \cup {None}]
    /\ data \in [Threads -> Contents]
    /\ fd \in [Threads -> {"none", "partial", "target", "gone"}]

(* What a thread has in hand, where it is. *)
InHand ==
    \A t \in Threads :
       /\ t \in Commands /\ pc[t] # "idle" => path[t] \in Paths
       /\ pc[t] = "load" => seed[t] \in Paths
       /\ pc[t] = "import" => t \in Importers
       /\ pc[t] \in {"open", "write", "replace"} =>
             t \in Exporters /\ data[t] \in SUBSET Samples

(* Every variable has its type, the lock is held by just the thread that
   starts the server, and every thread has in hand what its place needs. *)
TypeOK ==
    /\ Types
    /\ \A t \in Threads : lock = t <=> pc[t] \in Starting
    /\ InHand

(* "Callers wait meanwhile": no thread uses the server while another one is
   starting it or loading its corpus, and only one does that. *)
StartThenServe ==
    \A t, u \in Threads :
        t # u /\ pc[t] \in Starting => pc[u] \notin Starting \cup Using

(* "A failed write leaves the previous export intact": no corpus file is ever
   one that was written in part, also when Binary Ninja exits. *)
ExportsAreWhole == \A p \in Paths : files[p] # Torn

(* "The corpus file that failed to load at start, which an export must not
   overwrite." *)
UnloadedCorpusKept ==
    [][\A p \in Paths :
          p = unloaded /\ files[p] # None => files'[p] = files[p]]_vars

=============================================================================
