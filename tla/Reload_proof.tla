---------------------------- MODULE Reload_proof ----------------------------
(***************************************************************************)
(* Proofs about Reload for any number of changes of the two files: its     *)
(* typing, LoadedMatchesDisk, OneGenerationAtRest and ServedStoreIsFed     *)
(* from one inductive invariant, and that it implements Generations.       *)
(*                                                                         *)
(* LoadedMatchesDisk speaks of the moments at which nothing goes on.  What *)
(* makes it inductive is that at every other moment the files have either  *)
(* an event that will start a load, or a loader that has read them as they *)
(* are, as far as it has read.                                             *)
(***************************************************************************)
EXTENDS Reload, SequenceTheorems, TLAPS

\* The stages of a load that do not touch the generation in place.
Reading == {"config", "kube", "rest", "client", "init"}
Resting == {"newWatcher", "startWatcher", "idle"}

Serving(g) == store = g /\ clients = g /\ current = g

\* Which generations run and are served at each stage of the loader.
StageInv ==
    /\ pc \notin {"kube", "rest", "client", "init"} => load = NoLoad
    /\ pc \in Resting \cup {"stop", "resetStore", "resetClients"} => started
    /\ pc = "serve" => ~started /\ running = {cfg} /\ cfg # 0
    /\ pc = "build" => cfg # store /\ cfg # 0 /\ Serving(store)
                       /\ running = (IF started THEN {store} ELSE {})
                       /\ (started => store # 0)
    /\ pc \in Reading /\ ~started => running = {} /\ Serving(0)
    /\ pc \in Reading \cup Resting /\ started => running = {cfg} /\ Serving(cfg) /\ cfg # 0
    /\ pc = "stop" => running = {store, cfg} /\ Serving(store)
                      /\ cfg # store /\ cfg # 0 /\ store # 0
    /\ pc = "resetStore" => running = {cfg} /\ current = cfg /\ cfg # 0
    /\ pc = "resetClients" => running = {cfg} /\ current = cfg /\ store = cfg /\ cfg # 0

\* inotify watches files that exist, once the file watcher is started.
WatchInv ==
    /\ \A f \in watched : disk[f].state # "missing"
    /\ StartingUp => fwpc = "off"

Loadable == disk[Config].state = "good" /\ disk[Kube].state \in {"good", "empty"}

\* An event is on its way that the loader will get.
WillLoad ==
    \/ fwpc \in {"sleep", "send"}
    \/ \E i \in 1..Len(queue) : queue[i].op # "rename"

ConfigRead == [NoLoad EXCEPT !.config = Fresh(Config)]
KubeRead == [ConfigRead EXCEPT !.kube = Fresh(Kube)]
RestRead == [KubeRead EXCEPT !.rest = Fresh(Kube)]

\* What the loader has read so far is on disk.
Current ==
    /\ pc = "kube" => load = ConfigRead
    /\ pc = "rest" => load = KubeRead /\ disk[Kube].state = "good"
    /\ pc = "client" => load = RestRead /\ disk[Kube].state = "good"
    /\ pc = "init" => load = OnDisk
    /\ pc \in {"build", "serve", "stop", "resetStore"} => built[cfg] = OnDisk
    /\ pc \in Resting \cup {"resetClients"} => InSync

FreshInv ==
    (watched = Files \/ StartingUp) /\ missed = {} /\ Loadable => WillLoad \/ Current

IInv == TypeOK /\ StageInv /\ WatchInv /\ FreshInv

-----------------------------------------------------------------------------
LEMMA InitIInv == Init => IInv
<1> SUFFICES ASSUME Init PROVE IInv
  OBVIOUS
<1> USE DEF Init
<1>1. TypeOK
  <2>1. {0, 1} \subseteq Versions
    BY BoundAssumption DEF Versions
  <2>2. disk \in [Files -> [version : Versions, state : States]] /\ fwfile \in Files
    BY <2>1 DEF States, Files
  <2>3. NoLoad \in Loads
    BY <2>1 DEF NoLoad, Loads
  <2>4. <<>> \in Seq([file : Files, op : Ops]) /\ <<>> \in Seq(Loads)
    OBVIOUS
  <2> QED
    BY <2>1, <2>2, <2>3, <2>4 DEF TypeOK
<1>2. StageInv
  BY DEF StageInv, Reading, Resting, Serving
<1>3. WatchInv /\ FreshInv
  BY DEF WatchInv, FreshInv, Current, Resting
<1> QED
  BY <1>1, <1>2, <1>3 DEF IInv

-----------------------------------------------------------------------------
(* Typing. *)

\* A change touches the files, their watches and their events.
LEMMA ChangeType ==
    ASSUME TypeOK, NEW f \in Files, NEW state \in States, NEW op \in Ops,
           Change(f, state), Notify(f, op) \/ UNCHANGED queue, watched' \subseteq watched
    PROVE  TypeOK'
<1> USE DEF Change, fileVars, watchVars, loadVars, serveVars
<1>1. changes' \in Versions /\ missed' \in SUBSET Files
  BY BoundAssumption DEF TypeOK, Versions
<1>2. disk' \in [Files -> [version : Versions, state : States]]
  BY <1>1, BoundAssumption DEF TypeOK, Versions
<1>3. queue' \in Seq([file : Files, op : Ops])
  <2> DEFINE e == [file |-> f, op |-> op]
  <2>1. e \in [file : Files, op : Ops] /\ queue \in Seq([file : Files, op : Ops])
    BY DEF TypeOK
  <2>2. queue' \in {queue, Append(queue, e)}
    BY DEF Notify
  <2> HIDE DEF e
  <2>3. Append(queue, e) \in Seq([file : Files, op : Ops])
    BY <2>1, AppendProperties
  <2> QED
    BY <2>1, <2>2, <2>3
<1> QED
  BY <1>1, <1>2, <1>3 DEF TypeOK, Generations

LEMMA TypeStep == TypeOK /\ StageInv /\ [Next]_vars => TypeOK'
<1> SUFFICES ASSUME TypeOK, StageInv, [Next]_vars PROVE TypeOK'
  OBVIOUS
<1> USE DEF fileVars, watchVars, loadVars, serveVars
<1>1. ASSUME NEW f \in Files, NEW s \in States, Write(f, s) PROVE TypeOK'
  BY <1>1, ChangeType DEF Write, Ops
<1>2. ASSUME NEW f \in Files, NEW s \in States, Unlink(f, s) PROVE TypeOK'
  BY <1>2, ChangeType DEF Unlink, Ops
<1>3. ASSUME NEW f \in Files, MoveAway(f) PROVE TypeOK'
  BY <1>3, ChangeType DEF MoveAway, Ops, States
<1>4. ASSUME NEW f \in Files, NEW s \in States, Create(f, s) PROVE TypeOK'
  BY <1>4, ChangeType DEF Create, Ops
<1>5. CASE FileWatching
  <2>1. CASE Take
    <3>1. Head(queue) \in [file : Files, op : Ops] /\ queue' \in Seq([file : Files, op : Ops])
      BY <2>1, HeadTailProperties DEF Take, TypeOK
    <3> QED
      BY <1>5, <2>1, <3>1
      DEF FileWatching, TakeIgnored, TakeWrite, TakeRemove, Rewatch, Send, TypeOK, Generations
  <2>2. CASE Rewatch \/ Send
    BY <2>2 DEF Rewatch, Send, TypeOK, Generations
  <2> QED
    BY <1>5, <2>1, <2>2 DEF FileWatching, TakeIgnored, TakeWrite, TakeRemove
<1>6. CASE Loading
  <2> USE DEF TypeOK, Generations
  <2>1. \A f \in Files : Fresh(f) \in Versions
    BY DEF Fresh
  <2>2. NoLoad \in Loads /\ Config \in Files /\ Kube \in Files
    BY BoundAssumption DEF NoLoad, Loads, Versions, Files
  <2>3. CASE ReadConfig \/ ReadKube \/ ReadRest \/ ReadClient
    <3>1. load' \in Loads
      <4>1. 0 \in Versions /\ Fresh(Kube) \in Versions
        BY <2>1, <2>2, BoundAssumption DEF Versions
      <4>2. \A v : v \in ContextsFound => v \in Versions
        BY <4>1 DEF ContextsFound
      <4> QED
        BY <2>1, <2>2, <2>3, <4>2
        DEF ReadConfig, ReadKube, ReadRest, ReadClient, Fails, Loads
    <3>2. pc' \in {"idle", "exited", "kube", "rest", "client", "init"}
      BY <2>3 DEF ReadConfig, ReadKube, ReadRest, ReadClient, Fails
    <3> QED
      BY <2>3, <3>1, <3>2 DEF ReadConfig, ReadKube, ReadRest, ReadClient
  <2>4. CASE InitConfig
    <3>1. built' \in Seq(Loads) /\ Len(built') = Len(built) + 1 /\ Len(built) \in Nat
      BY <2>4 DEF InitConfig
    <3> QED
      BY <2>2, <2>4, <3>1 DEF InitConfig
  <2>5. CASE StartGeneration
    BY <2>5 DEF StartGeneration, StageInv
  <2>6. CASE NewMuxServer \/ NewFileWatcher \/ StartFileWatcher
    BY <2>6 DEF NewMuxServer, NewFileWatcher, StartFileWatcher
  <2>7. CASE StopWatchers \/ ResetStore \/ ResetClients
    BY <2>7 DEF StopWatchers, ResetStore, ResetClients
  <2> QED
    BY <1>6, <2>3, <2>4, <2>5, <2>6, <2>7 DEF Loading
<1>8. CASE UNCHANGED vars
  BY <1>8 DEF vars, TypeOK, Generations
<1> QED
  BY <1>1, <1>2, <1>3, <1>4, <1>5, <1>6, <1>8 DEF Next

-----------------------------------------------------------------------------
(* The stages of the loader. *)

LEMMA StageStep == TypeOK /\ StageInv /\ [Next]_vars => StageInv'
<1> SUFFICES ASSUME TypeOK, StageInv, [Next]_vars PROVE StageInv'
  OBVIOUS
<1> USE DEF fileVars, watchVars, loadVars, serveVars, Reading, Resting, Serving
<1>1. ASSUME UNCHANGED <<loadVars, serveVars>> PROVE StageInv'
  BY <1>1 DEF StageInv
<1>2. CASE FileWatching
  <2>1. CASE Send
    BY <2>1 DEF Send, StageInv
  <2> QED
    BY <1>1, <1>2, <2>1
    DEF FileWatching, TakeIgnored, TakeWrite, TakeRemove, Rewatch
<1>3. CASE Loading
  <2>1. CASE ReadConfig \/ ReadKube \/ ReadRest \/ ReadClient
    <3>1. UNCHANGED <<started, cfg, serveVars>>
      BY <2>1 DEF ReadConfig, ReadKube, ReadRest, ReadClient
    <3>2. pc \in {"config", "kube", "rest", "client"}
      BY <2>1 DEF ReadConfig, ReadKube, ReadRest, ReadClient
    <3>3. \/ pc' \in {"kube", "rest", "client", "init"}
          \/ load' = NoLoad /\ pc' = (IF started THEN "idle" ELSE "exited")
          \/ load' = NoLoad /\ pc' = "exited"
      BY <2>1 DEF ReadConfig, ReadKube, ReadRest, ReadClient, Fails
    <3> QED
      BY <3>1, <3>2, <3>3 DEF StageInv
  <2>2. CASE InitConfig
    <3>1. cfg' = Len(built) + 1 /\ Len(built) \in Nat /\ store \in 0..Len(built)
      BY <2>2, AppendProperties DEF InitConfig, TypeOK, Generations
    <3>2. cfg' # store /\ cfg' # 0
      BY <3>1
    <3> QED
      BY <2>2, <3>2 DEF InitConfig, StageInv
  <2>3. CASE StartGeneration
    BY <2>3 DEF StartGeneration, StageInv, TypeOK
  <2>4. CASE NewMuxServer \/ NewFileWatcher \/ StartFileWatcher
    BY <2>4 DEF NewMuxServer, NewFileWatcher, StartFileWatcher, StageInv
  <2>5. CASE StopWatchers \/ ResetStore \/ ResetClients
    BY <2>5 DEF StopWatchers, ResetStore, ResetClients, StageInv
  <2> QED
    BY <1>3, <2>1, <2>2, <2>3, <2>4, <2>5 DEF Loading
<1>4. CASE UNCHANGED vars
  BY <1>1, <1>4 DEF vars
<1> QED
  BY <1>1, <1>2, <1>3, <1>4
  DEF Next, Write, Unlink, MoveAway, Create, Change

LEMMA WatchStep == TypeOK /\ StageInv /\ WatchInv /\ [Next]_vars => WatchInv'
<1> SUFFICES ASSUME TypeOK, StageInv, WatchInv, [Next]_vars PROVE WatchInv'
  OBVIOUS
<1> USE DEF fileVars, watchVars, loadVars, serveVars, WatchInv
<1>1. ASSUME UNCHANGED <<disk, watched, fwpc, pc, started>> PROVE WatchInv'
  BY <1>1 DEF StartingUp
<1>2. ASSUME NEW f \in Files, NEW s \in States,
             Change(f, s), watched' \subseteq watched, f \in watched' => s # "missing"
      PROVE  WatchInv'
  BY <1>2 DEF Change, TypeOK, StartingUp
<1>3. ASSUME NEW f \in Files, NEW s \in States \ {"missing"}, Write(f, s) PROVE WatchInv'
  BY <1>2, <1>3 DEF Write
<1>4. ASSUME NEW f \in Files, NEW s \in States, Unlink(f, s) PROVE WatchInv'
  BY <1>2, <1>4 DEF Unlink
<1>5. ASSUME NEW f \in Files, MoveAway(f) PROVE WatchInv'
  BY <1>2, <1>5 DEF MoveAway, States
<1>6. ASSUME NEW f \in Files, NEW s \in States \ {"missing"}, Create(f, s) PROVE WatchInv'
  BY <1>2, <1>6 DEF Create
<1>7. CASE FileWatching
  <2>1. UNCHANGED disk /\ fwpc # "off"
    BY <1>7 DEF FileWatching, TakeIgnored, TakeWrite, TakeRemove, Take, Rewatch, Send
  <2>2. ~StartingUp /\ ~StartingUp'
    BY <1>7, <2>1
    DEF FileWatching, TakeIgnored, TakeWrite, TakeRemove, Rewatch, Send, StartingUp
  <2>3. \A f \in watched' : disk[f].state # "missing"
    BY <1>7 DEF FileWatching, TakeIgnored, TakeWrite, TakeRemove, Rewatch, Send
  <2> QED
    BY <2>1, <2>2, <2>3
<1>8. CASE Loading
  <2>1. CASE StartFileWatcher
    BY <2>1 DEF StartFileWatcher, AllThere, StartingUp, StageInv, Resting
  <2>2. CASE NewMuxServer \/ NewFileWatcher
    BY <2>2 DEF NewMuxServer, NewFileWatcher, StartingUp, StageInv, Resting
  <2>3. CASE ReadConfig \/ ReadKube \/ ReadRest \/ ReadClient
    <3>1. UNCHANGED <<disk, started, watched, fwpc>>
      BY <2>3 DEF ReadConfig, ReadKube, ReadRest, ReadClient
    <3>2. pc' \notin {"newWatcher", "startWatcher"}
      BY <2>3 DEF ReadConfig, ReadKube, ReadRest, ReadClient, Fails
    <3> QED
      BY <3>1, <3>2 DEF StartingUp
  <2>4. CASE \/ InitConfig \/ StartGeneration \/ StopWatchers
             \/ ResetStore \/ ResetClients
    BY <2>4
    DEF InitConfig, StartGeneration, StopWatchers, ResetStore, ResetClients,
        StartingUp
  <2> QED
    BY <1>8, <2>1, <2>2, <2>3, <2>4 DEF Loading
<1>9. CASE UNCHANGED vars
  BY <1>1, <1>9 DEF vars
<1> QED
  BY <1>3, <1>4, <1>5, <1>6, <1>7, <1>8, <1>9 DEF Next

-----------------------------------------------------------------------------
(* What is read, and what will be read. *)

\* A change that leaves the file watched makes an event for the loader.
LEMMA WriteStep ==
    ASSUME TypeOK, NEW f \in Files, NEW s \in States, Write(f, s), f \in watched
    PROVE  WillLoad'
<1> DEFINE e == [file |-> f, op |-> "write"]
<1>1. queue \in Seq([file : Files, op : Ops]) /\ e \in [file : Files, op : Ops]
  BY DEF TypeOK, Ops
<1>2. CASE queue' = Append(queue, e)
  <2>1. Len(queue') \in Nat /\ Len(queue') = Len(queue) + 1 /\ queue'[Len(queue) + 1] = e
    BY <1>1, <1>2, AppendProperties
  <2> QED
    BY <1>1, <2>1 DEF WillLoad
<1>3. CASE queue # <<>> /\ queue[Len(queue)] = e /\ queue' = queue
  <2>1. Len(queue) \in 1..Len(queue)
    BY <1>1, <1>3, EmptySeq
  <2> QED
    BY <1>3, <2>1 DEF WillLoad
<1> QED
  BY <1>2, <1>3 DEF Write, Notify

\* An event that the file watcher ignores is not one for the loader.
LEMMA IgnoreStep ==
    ASSUME TypeOK, Loadable, TakeIgnored, WillLoad
    PROVE  WillLoad'
<1>1. queue \in Seq([file : Files, op : Ops]) /\ queue # <<>> /\ fwpc = "select"
  BY DEF TypeOK, TakeIgnored, Take
<1>2. Head(queue) = queue[1] /\ Head(queue) \in [file : Files, op : Ops]
  <2>1. Head(queue) \in [file : Files, op : Ops]
    BY <1>1, HeadTailProperties
  <2>2. Head(queue) = queue[1]
    BY <1>1
  <2> QED
    BY <2>1, <2>2
<1>3. queue[1].op = "rename"
  BY <1>2 DEF TakeIgnored, Ignored, Loadable, Files
<1>4. PICK i \in 1..Len(queue) : queue[i].op # "rename"
  BY <1>1 DEF WillLoad
<1>5. /\ Len(queue') = Len(queue) - 1 /\ Len(queue) \in Nat
      /\ \A j \in 1..Len(queue') : queue'[j] = queue[j + 1]
  BY <1>1, HeadTailProperties DEF TakeIgnored, Take
<1>6. i - 1 \in 1..Len(queue') /\ queue'[i - 1].op # "rename"
  BY <1>3, <1>4, <1>5
<1> QED
  BY <1>6 DEF WillLoad

LEMMA ReadsAre ==
    /\ ConfigRead = [config |-> Fresh(Config), kube |-> 0, rest |-> 0, client |-> 0]
    /\ KubeRead = [config |-> Fresh(Config), kube |-> Fresh(Kube), rest |-> 0, client |-> 0]
    /\ RestRead = [config |-> Fresh(Config), kube |-> Fresh(Kube), rest |-> Fresh(Kube),
                   client |-> 0]
    /\ disk[Kube].state = "good" => [RestRead EXCEPT !.client = Fresh(Kube)] = OnDisk
    /\ disk[Kube].state = "empty" => KubeRead = OnDisk
<1>1. ConfigRead = [config |-> Fresh(Config), kube |-> 0, rest |-> 0, client |-> 0]
  BY DEF ConfigRead, NoLoad
<1>2. KubeRead = [config |-> Fresh(Config), kube |-> Fresh(Kube), rest |-> 0, client |-> 0]
  BY <1>1 DEF KubeRead
<1>3. RestRead = [config |-> Fresh(Config), kube |-> Fresh(Kube), rest |-> Fresh(Kube),
                  client |-> 0]
  BY <1>2 DEF RestRead
<1> QED
  BY <1>1, <1>2, <1>3 DEF OnDisk

\* A step of the loader keeps what it has read current.
LEMMA LoadStep ==
    ASSUME TypeOK, StageInv, Loadable, Current, Loading, UNCHANGED fileVars
    PROVE  Current'
<1> USE DEF fileVars, watchVars, loadVars, serveVars, Current, Loadable, Resting
<1>1. UNCHANGED <<OnDisk, ConfigRead, KubeRead, RestRead>>
  BY DEF OnDisk, ConfigRead, KubeRead, RestRead, Fresh
<1>2. CASE ReadConfig
  BY <1>1, <1>2 DEF ReadConfig, StageInv, ConfigRead
<1>3. CASE ReadKube
  <2>1. CASE disk[Kube].state = "good"
    BY <1>1, <1>3, <2>1 DEF ReadKube, KubeRead
  <2>2. CASE disk[Kube].state = "empty"
    <3>1. KubeRead = OnDisk
      BY <2>2, ReadsAre
    <3> QED
      BY <1>1, <1>3, <2>2, <3>1 DEF ReadKube, KubeRead
  <2> QED
    BY <2>1, <2>2
<1>4. CASE ReadRest
  BY <1>1, <1>4 DEF ReadRest, RestRead, ContextsFound
<1>5. CASE ReadClient
  <2>1. disk[Kube].state = "good" => [RestRead EXCEPT !.client = Fresh(Kube)] = OnDisk
    BY ReadsAre
  <2> QED
    BY <1>1, <1>5, <2>1 DEF ReadClient, ContextsFound
<1>6. CASE InitConfig
  <2>1. built'[cfg'] = load
    BY <1>6, AppendProperties DEF InitConfig, TypeOK
  <2> QED
    BY <1>1, <1>6, <2>1 DEF InitConfig
<1>7. CASE StartGeneration
  BY <1>1, <1>7 DEF StartGeneration
<1>8. CASE NewMuxServer
  BY <1>1, <1>8 DEF NewMuxServer, InSync, StageInv
<1>9. CASE NewFileWatcher \/ StartFileWatcher
  BY <1>1, <1>9 DEF NewFileWatcher, StartFileWatcher, InSync
<1>10. CASE StopWatchers \/ ResetStore \/ ResetClients
  BY <1>1, <1>10 DEF StopWatchers, ResetStore, ResetClients, InSync, StageInv
<1> QED
  BY <1>2, <1>3, <1>4, <1>5, <1>6, <1>7, <1>8, <1>9, <1>10 DEF Loading

LEMMA FreshStep ==
    TypeOK /\ StageInv /\ WatchInv /\ FreshInv /\ [Next]_vars => FreshInv'
<1> SUFFICES ASSUME TypeOK, StageInv, WatchInv, FreshInv, [Next]_vars,
                    watched' = Files \/ StartingUp', missed' = {}, Loadable'
             PROVE  WillLoad' \/ Current'
  BY DEF FreshInv
<1> USE DEF fileVars, watchVars, loadVars, serveVars
\* The files change: while the cache starts up, the change is missed.
<1>1. ASSUME NEW f \in Files, NEW s \in States, Change(f, s)
      PROVE  watched' = Files /\ f \in watched'
  BY <1>1 DEF Change, StartingUp
<1>2. ASSUME NEW f \in Files, NEW s \in States \ {"missing"}, Write(f, s) PROVE WillLoad'
  BY <1>1, <1>2, WriteStep DEF Write
<1>3. ASSUME NEW f \in Files, NEW s \in States, Unlink(f, s) PROVE FALSE
  BY <1>1, <1>3 DEF Unlink
<1>4. ASSUME NEW f \in Files, MoveAway(f) PROVE FALSE
  BY <1>1, <1>4 DEF MoveAway, States
<1>5. ASSUME NEW f \in Files, NEW s \in States \ {"missing"}, Create(f, s) PROVE FALSE
  BY <1>1, <1>5 DEF Create, WatchInv
\* They do not.
<1>6. ASSUME UNCHANGED fileVars PROVE UNCHANGED <<Loadable, OnDisk, ConfigRead, KubeRead, RestRead>>
  BY <1>6 DEF Loadable, OnDisk, ConfigRead, KubeRead, RestRead, Fresh
<1>7. ASSUME UNCHANGED <<disk, fwpc, queue, pc, load, built, cfg, store>>
      PROVE  UNCHANGED <<WillLoad, Current>>
  BY <1>7 DEF WillLoad, Current, OnDisk, ConfigRead, KubeRead, RestRead, Fresh, InSync
<1>8. CASE FileWatching
  <2>1. CASE TakeIgnored
    <3>1. WillLoad \/ Current
      BY <2>1, <1>6 DEF TakeIgnored, FreshInv, StartingUp
    <3>2. Current => Current'
      BY <2>1 DEF TakeIgnored, Current, OnDisk, ConfigRead, KubeRead, RestRead, Fresh, InSync
    <3> QED
      BY <2>1, <3>1, <3>2, <1>6, IgnoreStep DEF TakeIgnored
  <2>2. CASE TakeWrite \/ TakeRemove \/ Rewatch
    BY <2>2 DEF TakeWrite, TakeRemove, Rewatch, WillLoad
  <2>3. CASE Send
    BY <2>3 DEF Send, Current, Resting
  <2> QED
    BY <1>8, <2>1, <2>2, <2>3 DEF FileWatching
<1>9. CASE Loading
  <2>1. UNCHANGED <<fileVars, queue>>
    BY <1>9
    DEF Loading, ReadConfig, ReadKube, ReadRest, ReadClient, InitConfig, StartGeneration,
        NewMuxServer, NewFileWatcher, StartFileWatcher, StopWatchers,
        ResetStore, ResetClients
  <2>2. watched = Files \/ StartingUp
    <3>1. CASE NewMuxServer \/ NewFileWatcher \/ StartFileWatcher
      BY <3>1 DEF NewMuxServer, NewFileWatcher, StartFileWatcher, StartingUp, StageInv
    <3>2. CASE ReadConfig \/ ReadKube \/ ReadRest \/ ReadClient
      <4>1. UNCHANGED <<started, watched>>
        BY <3>2 DEF ReadConfig, ReadKube, ReadRest, ReadClient
      <4>2. pc' \notin {"newWatcher", "startWatcher"}
        BY <3>2 DEF ReadConfig, ReadKube, ReadRest, ReadClient, Fails
      <4> QED
        BY <4>1, <4>2 DEF StartingUp
    <3>3. CASE \/ InitConfig \/ StartGeneration \/ StopWatchers
               \/ ResetStore \/ ResetClients
      BY <3>3
      DEF InitConfig, StartGeneration, StopWatchers, ResetStore, ResetClients,
          StartingUp
    <3> QED
      BY <1>9, <3>1, <3>2, <3>3 DEF Loading
  <2>3. WillLoad \/ Current
    BY <1>6, <2>1, <2>2 DEF FreshInv
  <2>4. WillLoad => WillLoad'
    BY <1>9, <2>1
    DEF Loading, ReadConfig, ReadKube, ReadRest, ReadClient, InitConfig, StartGeneration,
        NewMuxServer, NewFileWatcher, StartFileWatcher, StopWatchers,
        ResetStore, ResetClients, WillLoad, WatchInv, StartingUp
  <2> QED
    BY <1>6, <1>9, <2>1, <2>3, <2>4, LoadStep
<1>10. CASE UNCHANGED vars
  BY <1>6, <1>7, <1>10 DEF vars, FreshInv, StartingUp
<1> QED
  BY <1>2, <1>3, <1>4, <1>5, <1>8, <1>9, <1>10 DEF Next

-----------------------------------------------------------------------------
(* The theorems. *)

LEMMA NextIInv == IInv /\ [Next]_vars => IInv'
  BY TypeStep, StageStep, WatchStep, FreshStep DEF IInv

\* The strengthening behind the three invariants.
THEOREM Inductive == Spec => []IInv
<1> QED
  BY InitIInv, NextIInv, PTL DEF Spec

\* Type correctness of the loader, the file watcher and what they leave behind.
THEOREM Typing == Spec => []TypeOK
<1>1. IInv => TypeOK
  BY DEF IInv
<1> QED
  BY <1>1, Inductive, PTL

\* No change of a watched file is lost, whenever it is made (main.go:198-220,
\* fs_watcher.go:67-106).
THEOREM LoadedMatchesDiskTheorem == Spec => []LoadedMatchesDisk
<1>1. IInv => LoadedMatchesDisk
  <2> SUFFICES ASSUME IInv, Quiescent, Settled PROVE InSync
    BY DEF LoadedMatchesDisk
  <2>1. queue = <<>> => ~ \E i \in 1..Len(queue) : queue[i].op # "rename"
    OBVIOUS
  <2>2. ~WillLoad
    BY <2>1 DEF WillLoad, Quiescent
  <2> QED
    BY <2>2 DEF IInv, FreshInv, Settled, Loadable, Current, Quiescent, Resting
<1> QED
  BY <1>1, Inductive, PTL

\* A load replaces everything or nothing, and stops each watcher once
\* (main.go:208-217).
THEOREM OneGenerationTheorem == Spec => []OneGenerationAtRest
<1>1. IInv => OneGenerationAtRest
  BY DEF IInv, StageInv, OneGenerationAtRest, Resting, Serving
<1> QED
  BY <1>1, Inductive, PTL

\* The store that requests read is being filled, but for the moment between Stop
\* and ResetStore (main.go:215-217).
THEOREM ServedStoreTheorem == Spec => []ServedStoreIsFed
<1>1. IInv => ServedStoreIsFed
  BY DEF IInv, TypeOK, StageInv, ServedStoreIsFed, Reading, Resting, Serving
<1> QED
  BY <1>1, Inductive, PTL

-----------------------------------------------------------------------------
(* The refinement.  Phase forgets what a load reads and where it fails. *)

LEMMA InitMaps == Init => Loader!GenInit
  BY DEF Init, Loader!GenInit, Phase

\* The steps of the loader that the generations do not see.
LEMMA QuietStep ==
    ASSUME UNCHANGED <<started, built, cfg, serveVars>>, Phase' = Phase
    PROVE  UNCHANGED Loader!genVars
  BY DEF serveVars, Loader!genVars

LEMMA LoadingMaps ==
    ASSUME TypeOK, Loading
    PROVE  Loader!GenNext \/ UNCHANGED Loader!genVars
<1> USE DEF loadVars, serveVars, Phase
<1>1. CASE ReadConfig \/ ReadKube \/ ReadRest \/ ReadClient
  <2>1. UNCHANGED <<started, built, cfg, serveVars>>
    BY <1>1 DEF ReadConfig, ReadKube, ReadRest, ReadClient
  <2>2. Phase = "idle" /\ Phase' = "idle"
    BY <1>1 DEF ReadConfig, ReadKube, ReadRest, ReadClient, Fails
  <2> HIDE DEF Phase
  <2> QED
    BY <2>1, <2>2, QuietStep
<1>2. CASE InitConfig
  <2>1. Loader!Announce(load)
    BY <1>2 DEF InitConfig, Loader!Announce
  <2> QED
    BY <2>1 DEF TypeOK, Loader!GenNext
<1>3. CASE StartGeneration
  <2>1. Loader!StartWatching
    BY <1>3 DEF StartGeneration, Loader!StartWatching
  <2> QED
    BY <2>1 DEF Loader!GenNext, Loader!Replacing
<1>4. CASE NewMuxServer
  <2>1. Loader!BuildServer
    BY <1>4 DEF NewMuxServer, Loader!BuildServer
  <2> QED
    BY <2>1 DEF Loader!GenNext, Loader!Replacing
<1>5. CASE NewFileWatcher \/ StartFileWatcher
  <2>1. UNCHANGED <<started, built, cfg, serveVars>> /\ Phase' = Phase
    BY <1>5 DEF NewFileWatcher, StartFileWatcher
  <2> HIDE DEF Phase
  <2> QED
    BY <2>1, QuietStep
<1>6. CASE StopWatchers
  <2>1. Loader!StopWatching
    BY <1>6 DEF StopWatchers, Loader!StopWatching
  <2> QED
    BY <2>1 DEF Loader!GenNext, Loader!Replacing
<1>7. CASE ResetStore
  <2>1. Loader!SwapStore
    BY <1>7 DEF ResetStore, Loader!SwapStore
  <2> QED
    BY <2>1 DEF Loader!GenNext, Loader!Replacing
<1>8. CASE ResetClients
  <2>1. Loader!SwapClients
    BY <1>8 DEF ResetClients, Loader!SwapClients
  <2> QED
    BY <2>1 DEF Loader!GenNext, Loader!Replacing
<1> QED
  BY <1>1, <1>2, <1>3, <1>4, <1>5, <1>6, <1>7, <1>8 DEF Loading

LEMMA StepMaps ==
    IInv /\ [Next]_vars => [Loader!GenNext]_(Loader!genVars)
<1> SUFFICES ASSUME IInv, [Next]_vars
             PROVE  Loader!GenNext \/ UNCHANGED Loader!genVars
  OBVIOUS
<1>1. CASE Loading
  BY <1>1, LoadingMaps DEF IInv
<1>2. CASE Send
  <2>1. UNCHANGED <<started, built, cfg, serveVars>> /\ Phase' = Phase
    BY <1>2 DEF Send, Phase
  <2> QED
    BY <2>1, QuietStep
<1>3. CASE UNCHANGED <<loadVars, serveVars>>
  <2>1. UNCHANGED <<started, built, cfg, serveVars>> /\ Phase' = Phase
    BY <1>3 DEF loadVars, Phase
  <2> QED
    BY <2>1, QuietStep
<1> QED
  BY <1>1, <1>2, <1>3
  DEF Next, vars, FileWatching, TakeIgnored, TakeWrite, TakeRemove, Rewatch,
      Write, Unlink, MoveAway, Create, Change

\* The loader, with its files, its watcher and the loads that fail, is seen by the
\* server and its requests as generations that replace each other (main.go:139-221).
THEOREM Refinement == Spec => ImplementsGenerations
<1> QED
  BY InitMaps, StepMaps, Inductive, PTL DEF Spec, ImplementsGenerations, Loader!GenSpec

=============================================================================
