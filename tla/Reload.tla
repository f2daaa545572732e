------------------------------- MODULE Reload -------------------------------
(***************************************************************************)
(* Loading and reloading the configuration: main and loadFromConfig of     *)
(* cmd/cacheproxy/main.go, the file watcher of utils/fs_watcher.go and     *)
(* ResetStore of server/server.go, for a cache started with -k.            *)
(*                                                                         *)
(* Three processes: the file system with its inotify queue (external), the *)
(* goroutine of the file watcher, and the loader, which is main until the  *)
(* server runs and the reload goroutine after that.  A load makes one      *)
(* "generation": a configuration, a store, the watch goroutines that fill  *)
(* it and the clients of the clusters.  What a file says is its version;   *)
(* the three reads of the kubeconfig may see three versions.               *)
(*                                                                         *)
(* Left out: what the files say, and the contexts of the kubeconfig, which *)
(* are read one after the other, are one context, or none in an empty file.*)
(***************************************************************************)
EXTENDS Naturals, Sequences

CONSTANTS
    Config,     \* the file given with -c
    Kube,       \* the file given with -k
    MaxChanges  \* bound: the changes made to the files

ASSUME FileAssumption == Config # Kube
ASSUME BoundAssumption == MaxChanges \in Nat \ {0}

Files == {Config, Kube}
Versions == 0..MaxChanges
States == {"good", "bad", "empty", "missing"}
Ops == {"write", "remove", "rename"}

\* What a load read; 0 is not read yet, no context to read, or one found elsewhere.
Loads == [config : Versions, kube : Versions, rest : Versions, client : Versions]
NoLoad == [config |-> 0, kube |-> 0, rest |-> 0, client |-> 0]

VARIABLES
    disk,       \* the version and the state of each file
    changes,    \* changes so far (bounded)
    watched,    \* the files whose present inode has an inotify watch
    queue,      \* the events of the watches, not yet handled
    missed,     \* history: last changed between the first load and the first watch
    fwpc,       \* where the goroutine of the file watcher is
    fwfile,     \* the file of its event
    pc,         \* where the loader is
    started,    \* the server is built: a load that fails changes nothing
    load,       \* what the load in progress has read
    built,      \* the generations made so far
    cfg,        \* the generation of common.cfg
    running,    \* the generations whose watch goroutines are not stopped
    current,    \* the generation of the variable w
    store,      \* the generation of the server's store
    clients     \* the generation of the server's clients

fileVars == <<disk, changes, missed>>
watchVars == <<watched, queue, fwpc, fwfile>>
loadVars == <<pc, started, load, built, cfg>>
serveVars == <<running, current, store, clients>>
vars == <<fileVars, watchVars, loadVars, serveVars>>

Generations == 1..Len(built)

TypeOK ==
    /\ disk \in [Files -> [version : Versions, state : States]]
    /\ changes \in Versions
    /\ watched \in SUBSET Files
    /\ queue \in Seq([file : Files, op : Ops])
    /\ missed \in SUBSET Files
    /\ fwpc \in {"off", "select", "sleep", "send"}
    /\ fwfile \in Files
    /\ pc \in {"config", "kube", "rest", "client", "init", "build", "serve", "newWatcher",
               "startWatcher", "idle", "stop", "resetStore", "resetClients", "exited"}
    /\ started \in BOOLEAN
    /\ load \in Loads
    /\ built \in Seq(Loads)
    /\ {cfg, current, store, clients} \subseteq Generations \cup {0}
    /\ running \subseteq Generations

\* main is called with two files that were written before.
Init ==
    /\ disk = [f \in Files |-> [version |-> 1, state |-> "good"]]
    /\ changes = 1
    /\ watched = {}
    /\ queue = <<>>
    /\ missed = {}
    /\ fwpc = "off"
    /\ fwfile = Config
    /\ pc = "config"
    /\ started = FALSE
    /\ load = NoLoad
    /\ built = <<>>
    /\ cfg = 0
    /\ running = {}
    /\ current = 0
    /\ store = 0
    /\ clients = 0

-----------------------------------------------------------------------------
(* The file system.  A watch is on an inode and goes when the inode goes.  *)

\* inotify merges an event with an equal one at the end of its queue.
Notify(f, op) ==
    LET e == [file |-> f, op |-> op] IN
    IF f \notin watched THEN queue' = queue
    ELSE \/ queue' = Append(queue, e)
         \/ queue # <<>> /\ queue[Len(queue)] = e /\ queue' = queue

StartingUp == ~started \/ pc \in {"newWatcher", "startWatcher"}

Change(f, state) ==
    /\ changes < MaxChanges
    /\ changes' = changes + 1
    /\ disk' = [disk EXCEPT ![f] = [version |-> changes + 1, state |-> state]]
    /\ missed' = IF StartingUp THEN missed \cup {f} ELSE missed \ {f}
    /\ UNCHANGED <<fwpc, fwfile, loadVars, serveVars>>

\* Truncated or rewritten in place.
Write(f, state) ==
    /\ disk[f].state # "missing"
    /\ Change(f, state)
    /\ Notify(f, "write")
    /\ UNCHANGED watched

\* Unlinked, or another file renamed over it.
Unlink(f, state) ==
    /\ disk[f].state # "missing"
    /\ Change(f, state)
    /\ Notify(f, "remove")
    /\ watched' = watched \ {f}

\* Renamed away: the watch follows the old file.
MoveAway(f) ==
    /\ disk[f].state # "missing"
    /\ Change(f, "missing")
    /\ Notify(f, "rename")
    /\ watched' = watched \ {f}

Create(f, state) ==
    /\ disk[f].state = "missing"
    /\ Change(f, state)
    /\ UNCHANGED <<watched, queue>>

-----------------------------------------------------------------------------
(* The goroutine of the file watcher. *)

Take == fwpc = "select" /\ queue # <<>> /\ queue' = Tail(queue)

\* fsnotify drops a write to a file that is gone.
Ignored(e) == e.op = "rename" \/ (e.op = "write" /\ disk[e.file].state = "missing")

TakeIgnored ==
    /\ Take /\ Ignored(Head(queue))
    /\ UNCHANGED <<fileVars, watched, fwpc, fwfile, loadVars, serveVars>>

TakeWrite ==
    /\ Take /\ Head(queue).op = "write" /\ ~Ignored(Head(queue))
    /\ fwfile' = Head(queue).file
    /\ fwpc' = "send"
    /\ UNCHANGED <<fileVars, watched, loadVars, serveVars>>

TakeRemove ==
    /\ Take /\ Head(queue).op = "remove"
    /\ fwfile' = Head(queue).file
    /\ fwpc' = "sleep"
    /\ UNCHANGED <<fileVars, watched, loadVars, serveVars>>

\* Faulty variant: a removal is not reported once the watch is back.
RewatchOnly ==
    /\ fwpc = "sleep"
    /\ watched' = IF disk[fwfile].state = "missing" THEN watched ELSE watched \cup {fwfile}
    /\ fwpc' = "select"
    /\ UNCHANGED <<fileVars, queue, fwfile, loadVars, serveVars>>

\* Two seconds later the file is watched again if it is there; if not, the event
\* is one of type EventTypeError, with which the loader does the same.
Rewatch ==
    /\ fwpc = "sleep"
    /\ watched' = IF disk[fwfile].state = "missing" THEN watched ELSE watched \cup {fwfile}
    /\ fwpc' = "send"
    /\ UNCHANGED <<fileVars, queue, fwfile, loadVars, serveVars>>

\* Faulty variant: an event that finds the loader busy is dropped.
SendOrDrop ==
    /\ fwpc = "send"
    /\ fwpc' = "select"
    /\ pc' = IF pc = "idle" THEN "config" ELSE pc
    /\ UNCHANGED <<fileVars, watched, queue, fwfile, started, load, built, cfg,
                   serveVars>>

\* The channel is not buffered: the event waits for the loader.
Send ==
    /\ fwpc = "send" /\ pc = "idle"
    /\ fwpc' = "select"
    /\ pc' = "config"
    /\ UNCHANGED <<fileVars, watched, queue, fwfile, started, load, built, cfg,
                   serveVars>>

-----------------------------------------------------------------------------
(* loadFromConfig. *)

\* An error ends the program in main, and only the load in the reload goroutine.
Fails ==
    /\ pc' = IF started THEN "idle" ELSE "exited"
    /\ load' = NoLoad

Fresh(f) == disk[f].version

\* Faulty variant: a reload stops the watch goroutines first.
StopAndReadConfig ==
    /\ pc = "config"
    /\ IF disk[Config].state = "good"
       THEN pc' = "kube" /\ load' = [load EXCEPT !.config = Fresh(Config)]
       ELSE Fails
    /\ running' = running \ {current}
    /\ UNCHANGED <<fileVars, watchVars, started, built, cfg, current, store, clients>>

ReadConfig ==
    /\ pc = "config"
    /\ IF disk[Config].state = "good"
       THEN pc' = "kube" /\ load' = [load EXCEPT !.config = Fresh(Config)]
       ELSE Fails
    /\ UNCHANGED <<fileVars, watchVars, started, built, cfg, serveVars>>

\* An empty kubeconfig is valid and has no context.
ReadKube ==
    /\ pc = "kube"
    /\ CASE disk[Kube].state = "good" ->
              pc' = "rest" /\ load' = [load EXCEPT !.kube = Fresh(Kube)]
         [] disk[Kube].state = "empty" ->
              pc' = "init" /\ load' = [load EXCEPT !.kube = Fresh(Kube)]
         [] OTHER -> Fails
    /\ UNCHANGED <<fileVars, watchVars, started, built, cfg, serveVars>>

\* GetK8sConfigConfigWithFile: for a file that is missing or empty the default
\* loading rules are asked, which may know the context from elsewhere (0) or not.
ContextsFound ==
    CASE disk[Kube].state = "good" -> {Fresh(Kube)}
      [] disk[Kube].state = "bad" -> {}
      [] OTHER -> {0}

\* The file is read again for the configuration of the context ...
ReadRest ==
    /\ pc = "rest"
    /\ \/ \E v \in ContextsFound : pc' = "client" /\ load' = [load EXCEPT !.rest = v]
       \/ disk[Kube].state # "good" /\ Fails
    /\ UNCHANGED <<fileVars, watchVars, started, built, cfg, serveVars>>

\* Faulty variant: the watchers are started before the configuration is announced.
ReadClientAndBuild ==
    /\ pc = "client"
    /\ \/ \E v \in ContextsFound : pc' = "build" /\ load' = NoLoad
       \/ disk[Kube].state # "good" /\ pc' = "exited" /\ load' = NoLoad
       \/ disk[Kube].state = "bad" /\ Fails
    /\ UNCHANGED <<fileVars, watchVars, started, built, cfg, serveVars>>

\* ... and once more for its client, where a configuration that is not found is not
\* noticed: NewForConfig then ends the program, whoever called it.  One that is
\* found and that it cannot use is an error.
ReadClient ==
    /\ pc = "client"
    /\ \/ \E v \in ContextsFound : pc' = "init" /\ load' = [load EXCEPT !.client = v]
       \/ disk[Kube].state # "good" /\ pc' = "exited" /\ load' = NoLoad
       \/ disk[Kube].state = "bad" /\ Fails
    /\ UNCHANGED <<fileVars, watchVars, started, built, cfg, serveVars>>

\* common.InitConfig: from here on nothing fails.
InitConfig ==
    /\ pc = "init"
    /\ built' = Append(built, load)
    /\ cfg' = Len(built')
    /\ load' = NoLoad
    /\ pc' = "build"
    /\ UNCHANGED <<fileVars, watchVars, started, serveVars>>

\* NewMemoryStore, NewWatcher and Start.
StartGeneration ==
    /\ pc = "build"
    /\ running' = running \cup {cfg}
    /\ pc' = IF started THEN "stop" ELSE "serve"
    /\ UNCHANGED <<fileVars, watchVars, started, load, built, cfg, current, store,
                   clients>>

-----------------------------------------------------------------------------
(* main, and its goroutine that reloads. *)

NewMuxServer ==
    /\ pc = "serve"
    /\ current' = cfg
    /\ store' = cfg
    /\ clients' = cfg
    /\ started' = TRUE
    /\ pc' = "newWatcher"
    /\ UNCHANGED <<fileVars, watchVars, load, built, cfg, running>>

AllThere == \A f \in Files : disk[f].state # "missing"

\* Without both files there is no reload; the server runs all the same.
NewFileWatcher ==
    /\ pc = "newWatcher"
    /\ pc' = IF AllThere THEN "startWatcher" ELSE "idle"
    /\ UNCHANGED <<fileVars, watchVars, started, load, built, cfg, serveVars>>

StartFileWatcher ==
    /\ pc = "startWatcher"
    /\ IF AllThere
       THEN pc' = "idle" /\ fwpc' = "select" /\ watched' = Files
       ELSE pc' = "exited" /\ UNCHANGED <<fwpc, watched>>
    /\ UNCHANGED <<fileVars, queue, fwfile, started, load, built, cfg, serveVars>>

\* Faulty variant: w is not replaced.
StopKeepsWatcher ==
    /\ pc = "stop"
    /\ running' = running \ {current}
    /\ pc' = "resetStore"
    /\ UNCHANGED <<fileVars, watchVars, started, load, built, cfg, current, store,
                   clients>>

StopWatchers ==
    /\ pc = "stop"
    /\ running' = running \ {current}
    /\ current' = cfg
    /\ pc' = "resetStore"
    /\ UNCHANGED <<fileVars, watchVars, started, load, built, cfg, store, clients>>

\* ResetStore sets the two fields one after the other.
ResetStore ==
    /\ pc = "resetStore"
    /\ store' = cfg
    /\ pc' = "resetClients"
    /\ UNCHANGED <<fileVars, watchVars, started, load, built, cfg, running, current,
                   clients>>

ResetClients ==
    /\ pc = "resetClients"
    /\ clients' = cfg
    /\ pc' = "idle"
    /\ UNCHANGED <<fileVars, watchVars, started, load, built, cfg, running, current,
                   store>>

-----------------------------------------------------------------------------
Loading ==
    \/ ReadConfig
    \/ ReadKube
    \/ ReadRest
    \/ ReadClient
    \/ InitConfig
    \/ StartGeneration
    \/ NewMuxServer
    \/ NewFileWatcher
    \/ StartFileWatcher
    \/ StopWatchers
    \/ ResetStore
    \/ ResetClients

FileWatching ==
    \/ TakeIgnored
    \/ TakeWrite
    \/ TakeRemove
    \/ Rewatch
    \/ Send

Next ==
    \/ \E f \in Files : \E s \in States \ {"missing"} : Write(f, s)
    \/ \E f \in Files : \E s \in States : Unlink(f, s)
    \/ \E f \in Files : MoveAway(f)
    \/ \E f \in Files : \E s \in States \ {"missing"} : Create(f, s)
    \/ Loading
    \/ FileWatching

Spec == Init /\ [][Next]_vars

\* Both goroutines go on when they can; nothing makes the files change.
Fairness == WF_vars(Loading) /\ WF_vars(FileWatching)

FairSpec == Spec /\ Fairness

-----------------------------------------------------------------------------
(* Properties. *)

Quiescent == pc = "idle" /\ fwpc = "select" /\ queue = <<>>

\* The files can be loaded, and each change since the first load was made to a
\* watched file, or the file is watched again since.
Settled ==
    /\ watched = Files
    /\ missed = {}
    /\ disk[Config].state = "good"
    /\ disk[Kube].state \in {"good", "empty"}

OnDisk ==
    LET k == Fresh(Kube)
        context == IF disk[Kube].state = "good" THEN k ELSE 0
    IN [config |-> Fresh(Config), kube |-> k, rest |-> context, client |-> context]

InSync == store # 0 /\ built[store] = OnDisk

\* With no event left to handle, what is served was read from the files as they
\* are: no change is lost while a load runs, while an event waits for the loader,
\* or in the two seconds without a watch, and no mixture of two versions of the
\* kubeconfig stays (fs_watcher.go:67-106, main.go:198-220).
LoadedMatchesDisk == Quiescent /\ Settled => InSync

\* A load that fails half way leaves everything in place, and one that succeeds
\* replaces everything: the server's store and clients and the global
\* configuration are of one generation, whose watch goroutines are the only ones
\* that run; and Stop is never called twice, which would close a closed channel.
OneGenerationAtRest ==
    /\ pc = "idle" => /\ running = {store}
                      /\ store = cfg /\ clients = cfg /\ current = cfg
    /\ pc = "stop" => current \in running

\* A request never gets a store that nobody fills, other than in the moment
\* between Stop and ResetStore (main.go:215-217).
ServedStoreIsFed ==
    started /\ pc \notin {"resetStore", "exited"} => store \in running

\* Files that stay loadable and watched come to be served, whatever was lost or
\* failed before: the two goroutines do not wait for each other for ever.
ReloadHappens == Settled /\ fwpc # "off" /\ pc # "exited" ~> InSync \/ ~Settled \/ pc = "exited"

\* fs_watcher.go:80-81, translated: Kubernetes removes a mounted file and creates it
\* again, "so we should establish the watcher again after the removal".
WatchRestored ==
    Quiescent => \A f \in Files : disk[f].state # "missing" => f \in watched

\* Seen from the requests, a load is one generation that replaces another, field
\* by field in a fixed order; what it reads, and a load that fails, are not seen.
Phase ==
    CASE pc \in {"build", "serve", "stop", "resetStore", "resetClients"} -> pc
      [] OTHER -> "idle"

Loader == INSTANCE Generations WITH Contents <- Loads, phase <- Phase

\* The loader, with the files, the file watcher and the failures, implements the
\* generations that the requests are modelled with (main.go:139-221).
ImplementsGenerations == Loader!GenSpec
=============================================================================
