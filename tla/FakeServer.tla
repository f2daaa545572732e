----------------------------- MODULE FakeServer -----------------------------
(***************************************************************************)
(* The fake CKube server that tests of other programs run against          *)
(* (pkg/client/fake/fake_ckube.go): its handler of POST, PUT and DELETE    *)
(* ("proxy"), its watches, Clean, and GET, which the server of the cache   *)
(* answers from the store that it was given.                               *)
(*                                                                         *)
(* One resource type of one cluster and namespace.  Each request and each  *)
(* watch has a goroutine; a call of Clean by the test counts as a request. *)
(* What is stored under a name is the request that wrote it last.          *)
(*                                                                         *)
(* Left out: decoding, the answers about API groups, and the channel of    *)
(* Events(), to which an event is offered like to a watch, but before the  *)
(* lock.  An address is taken to be of one watch only (line 319).          *)
(***************************************************************************)
EXTENDS Naturals, Sequences

CONSTANTS
    Callers,    \* the goroutines of the requests
    Watchers,   \* the goroutines of the watches
    Names,      \* the names of objects
    Duties,     \* the jobs that each caller may have
    Wants,      \* the names that a watch asks for (namespace and clusters)
    Nobody      \* no caller, no watcher

AnyJob == [op : {"POST", "PUT", "DELETE", "GET", "CLEAN"}, name : Names]

ASSUME DutiesAssumption == Duties \in [Callers -> SUBSET AnyJob]
ASSUME ActorAssumption == Nobody \notin Callers \cup Watchers /\ Callers \cap Watchers = {}
ASSUME WantsAssumption == Wants \in [Watchers -> SUBSET Names]

\* An entry is there or not since the request "by".
Entries == [by : Callers \cup {Nobody}, there : BOOLEAN]

VARIABLES
    pc,         \* where a caller's request is
    job,        \* what it asks for
    result,     \* "ok", "refused", or none yet
    got,        \* the entry that a GET found
    stores,     \* the first store, and those that the calls of Clean make
    fakeStore,  \* the one that the fake server writes to
    muxStore,   \* the one that the server reads from
    left,       \* the channels to which a request still has to offer its event
    chans,      \* the watches in watchChanMap
    readers,    \* the requests that hold the read lock of the map
    pending,    \* the watch that holds or awaits the write lock of the map
    wpc,        \* where a watch is
    event,      \* the event that a watch has received and not yet written
    seen,       \* history: the events that each watch has written
    before,     \* history: the requests that had ended when this one began
    idle        \* history: the watches that wait for events since it began

requestVars == <<pc, job, result, got, before>>
storeVars == <<stores, fakeStore, muxStore>>
lockVars == <<left, chans, readers, pending>>
watchVars == <<wpc, event, seen, idle>>
vars == <<requestVars, storeVars, lockVars, watchVars>>

Writes == {"POST", "PUT", "DELETE"}

TypeOK ==
    /\ pc \in [Callers -> {"free", "check", "apply", "rlock", "send", "server", "fake",
                           "get", "done"}]
    /\ job \in [Callers -> AnyJob]
    /\ result \in [Callers -> {"none", "ok", "refused"}]
    /\ got \in [Callers -> Entries]
    /\ stores \in [Callers \cup {Nobody} -> [Names -> Entries]]
    /\ {fakeStore, muxStore} \subseteq Callers \cup {Nobody}
    /\ left \in [Callers -> SUBSET Watchers]
    /\ chans \subseteq Watchers /\ readers \subseteq Callers
    /\ pending \in Watchers \cup {Nobody}
    /\ wpc \in [Watchers -> {"free", "lock", "enter", "map", "select", "write", "unlist",
                             "leave", "done"}]
    /\ event \in [Watchers -> Callers \cup {Nobody}]
    /\ seen \in [Watchers -> Seq(Callers)]
    /\ before \in [Callers \cup Watchers -> SUBSET Callers]
    /\ idle \in [Callers -> SUBSET Watchers]

Init ==
    /\ pc = [c \in Callers |-> "free"]
    /\ job \in {f \in [Callers -> AnyJob] : \A c \in Callers : f[c] \in Duties[c]}
    /\ result = [c \in Callers |-> "none"]
    /\ got = [c \in Callers |-> [by |-> Nobody, there |-> FALSE]]
    /\ stores = [c \in Callers \cup {Nobody} |-> [n \in Names |-> [by |-> c, there |-> FALSE]]]
    /\ fakeStore = Nobody /\ muxStore = Nobody
    /\ left = [c \in Callers |-> {}]
    /\ chans = {} /\ readers = {} /\ pending = Nobody
    /\ wpc = [v \in Watchers |-> "free"]
    /\ event = [v \in Watchers |-> Nobody]
    /\ seen = [v \in Watchers |-> <<>>]
    /\ before = [p \in Callers \cup Watchers |-> {}]
    /\ idle = [c \in Callers |-> {}]

-----------------------------------------------------------------------------
(* Requests. *)

Done == {c \in Callers : result[c] # "none"}

Goto(c, l) == pc' = [pc EXCEPT ![c] = l]
WatchGoto(v, l) == wpc' = [wpc EXCEPT ![v] = l]

End(c, r) == Goto(c, "done") /\ result' = [result EXCEPT ![c] = r]

Begin(c) ==
    /\ pc[c] = "free"
    /\ Goto(c, CASE job[c].op \in Writes -> "check"
                 [] job[c].op = "GET" -> "get"
                 [] job[c].op = "CLEAN" -> "server")
    /\ before' = [before EXCEPT ![c] = Done]
    /\ idle' = [idle EXCEPT ![c] = {v \in Watchers : wpc[v] = "select"}]
    /\ UNCHANGED <<job, result, got, storeVars, lockVars, wpc, event, seen>>

Stored(c) == stores[fakeStore][job[c].name]

\* Faulty variant: an object may be created again.
CheckNotCreation(c) ==
    /\ pc[c] = "check"
    /\ IF job[c].op = "POST" \/ Stored(c).there
       THEN Goto(c, "apply") /\ UNCHANGED result
       ELSE End(c, "refused")
    /\ UNCHANGED <<job, got, before, storeVars, lockVars, watchVars>>

\* Faulty variant: what is not there is deleted without a complaint.
CheckNotDeletion(c) ==
    /\ pc[c] = "check"
    /\ IF Stored(c).there # (job[c].op = "POST")
       THEN Goto(c, "apply") /\ UNCHANGED result
       ELSE End(c, IF job[c].op = "DELETE" THEN "ok" ELSE "refused")
    /\ UNCHANGED <<job, got, before, storeVars, lockVars, watchVars>>

\* A POST wants no object of the name, a PUT and a DELETE want one.
Check(c) ==
    /\ pc[c] = "check"
    /\ IF Stored(c).there # (job[c].op = "POST")
       THEN Goto(c, "apply") /\ UNCHANGED result
       ELSE End(c, "refused")
    /\ UNCHANGED <<job, got, before, storeVars, lockVars, watchVars>>

\* Faulty variant: a deletion leaves no entry to be looked up.
ApplyForgettingName(c) ==
    /\ pc[c] = "apply" /\ Goto(c, "rlock")
    /\ stores' = [stores EXCEPT ![fakeStore] =
                     IF job[c].op = "DELETE"
                     THEN [n \in Names \ {job[c].name} |-> @[n]]
                     ELSE [@ EXCEPT ![job[c].name] = [by |-> c, there |-> TRUE]]]
    /\ UNCHANGED <<job, result, got, before, fakeStore, muxStore, lockVars, watchVars>>

\* Faulty variant: the client is answered before the watches are told.
ApplyAndAnswer(c) ==
    /\ pc[c] = "apply" /\ Goto(c, "rlock")
    /\ stores' = [stores EXCEPT ![fakeStore][job[c].name] =
                     [by |-> c, there |-> job[c].op # "DELETE"]]
    /\ result' = [result EXCEPT ![c] = "ok"]
    /\ UNCHANGED <<job, got, before, fakeStore, muxStore, lockVars, watchVars>>

\* The store is looked up again: it need not be the one that was checked.
Apply(c) ==
    /\ pc[c] = "apply" /\ Goto(c, "rlock")
    /\ stores' = [stores EXCEPT ![fakeStore][job[c].name] =
                     [by |-> c, there |-> job[c].op # "DELETE"]]
    /\ UNCHANGED <<job, result, got, before, fakeStore, muxStore, lockVars, watchVars>>

\* A RWMutex admits no reader while a writer holds it or waits for it.
ReadLock(c) ==
    /\ pc[c] = "rlock" /\ pending = Nobody
    /\ Goto(c, "send")
    /\ readers' = readers \cup {c}
    /\ left' = [left EXCEPT ![c] = chans]
    /\ UNCHANGED <<job, result, got, before, storeVars, chans, pending, watchVars>>

\* Faulty variant: a watch writes whatever it gets.
DeliverAll(c, v) ==
    /\ wpc[v] = "select" /\ WatchGoto(v, "write")
    /\ event' = [event EXCEPT ![v] = c]
    /\ idle' = [x \in Callers |-> IF x = c THEN idle[x] ELSE idle[x] \ {v}]

\* A watch in its select takes the event, and drops it if it asks for others.
Deliver(c, v) ==
    /\ wpc[v] = "select"
    /\ IF job[c].name \in Wants[v]
       THEN WatchGoto(v, "write") /\ event' = [event EXCEPT ![v] = c]
       ELSE WatchGoto(v, "map") /\ UNCHANGED event
    /\ idle' = [x \in Callers |-> IF x = c THEN idle[x] ELSE idle[x] \ {v}]

\* Faulty variant: the send waits for the watch.
SendBlocking(c, v) ==
    /\ pc[c] = "send" /\ v \in left[c]
    /\ left' = [left EXCEPT ![c] = @ \ {v}]
    /\ Deliver(c, v)
    /\ UNCHANGED <<requestVars, storeVars, chans, readers, pending, seen>>

\* The event is offered to each channel, in the order of a map, without waiting.
Send(c, v) ==
    /\ pc[c] = "send" /\ v \in left[c]
    /\ left' = [left EXCEPT ![c] = @ \ {v}]
    /\ \/ Deliver(c, v)
       \/ wpc[v] # "select" /\ UNCHANGED <<wpc, event, idle>>
    /\ UNCHANGED <<requestVars, storeVars, chans, readers, pending, seen>>

ReadUnlock(c) ==
    /\ pc[c] = "send" /\ left[c] = {}
    /\ End(c, "ok")
    /\ readers' = readers \ {c}
    /\ UNCHANGED <<job, got, before, storeVars, left, chans, pending, watchVars>>

\* The server captures its store and reads it.
Get(c) ==
    /\ pc[c] = "get" /\ End(c, "ok")
    /\ got' = [got EXCEPT ![c] = stores[muxStore][job[c].name]]
    /\ UNCHANGED <<job, before, storeVars, lockVars, watchVars>>

\* Clean gives a new store to the server ...
CleanServer(c) ==
    /\ pc[c] = "server" /\ Goto(c, "fake")
    /\ muxStore' = c
    /\ UNCHANGED <<job, result, got, before, stores, fakeStore, lockVars, watchVars>>

\* Faulty variant: the fake server keeps the store that it has.
CleanNothing(c) ==
    /\ pc[c] = "fake" /\ End(c, "ok")
    /\ UNCHANGED <<job, got, before, storeVars, lockVars, watchVars>>

\* ... and then to the fake server.
CleanFake(c) ==
    /\ pc[c] = "fake" /\ End(c, "ok")
    /\ fakeStore' = c
    /\ UNCHANGED <<job, got, before, stores, muxStore, lockVars, watchVars>>

-----------------------------------------------------------------------------
(* Watches. *)

BeginWatch(v) ==
    /\ wpc[v] = "free" /\ WatchGoto(v, "lock")
    /\ before' = [before EXCEPT ![v] = Done]
    /\ UNCHANGED <<pc, job, result, got, storeVars, lockVars, event, seen, idle>>

\* Lock shuts out new readers and waits for those that are there.
AwaitLock(v) ==
    /\ wpc[v] \in {"lock", "unlist"} /\ pending = Nobody
    /\ pending' = v
    /\ WatchGoto(v, IF wpc[v] = "lock" THEN "enter" ELSE "leave")
    /\ UNCHANGED <<requestVars, storeVars, left, chans, readers, event, seen, idle>>

Register(v) ==
    /\ wpc[v] = "enter" /\ readers = {}
    /\ chans' = chans \cup {v} /\ pending' = Nobody
    /\ WatchGoto(v, "map")
    /\ UNCHANGED <<requestVars, storeVars, left, readers, event, seen, idle>>

\* The channel is looked up in the map before each select.
Lookup(v) ==
    /\ wpc[v] = "map" /\ pending = Nobody
    /\ WatchGoto(v, "select")
    /\ UNCHANGED <<requestVars, storeVars, lockVars, event, seen, idle>>

\* The client need not read: the write may wait for ever.
Write(v) ==
    /\ wpc[v] = "write" /\ WatchGoto(v, "map")
    /\ seen' = [seen EXCEPT ![v] = Append(@, event[v])]
    /\ event' = [event EXCEPT ![v] = Nobody]
    /\ UNCHANGED <<requestVars, storeVars, lockVars, idle>>

\* Ten minutes are over.  A client that leaves is not noticed before.
Timeout(v) ==
    /\ wpc[v] = "select" /\ WatchGoto(v, "unlist")
    /\ idle' = [c \in Callers |-> idle[c] \ {v}]
    /\ UNCHANGED <<requestVars, storeVars, lockVars, event, seen>>

Deregister(v) ==
    /\ wpc[v] = "leave" /\ readers = {}
    /\ chans' = chans \ {v} /\ pending' = Nobody
    /\ WatchGoto(v, "done")
    /\ UNCHANGED <<requestVars, storeVars, left, readers, event, seen, idle>>

-----------------------------------------------------------------------------
Handling(c) ==
    \/ Check(c)
    \/ Apply(c)
    \/ ReadLock(c)
    \/ \E v \in Watchers : Send(c, v)
    \/ ReadUnlock(c)
    \/ Get(c)
    \/ CleanServer(c)
    \/ CleanFake(c)

Watching(v) ==
    \/ AwaitLock(v)
    \/ Register(v)
    \/ Lookup(v)
    \/ Deregister(v)

Next ==
    \/ \E c \in Callers : Begin(c) \/ Handling(c)
    \/ \E v \in Watchers : BeginWatch(v) \/ Watching(v) \/ Write(v) \/ Timeout(v)

Spec == Init /\ [][Next]_vars

\* Goroutines run on where nothing but the lock holds them up.
FairSpec ==
    /\ Spec
    /\ \A c \in Callers : WF_vars(Handling(c))
    /\ \A v \in Watchers : WF_vars(Watching(v))

-----------------------------------------------------------------------------
(* Properties. *)

Succeeded(c) == result[c] = "ok"
Concerns(c, n) == job[c].op = "CLEAN" \/ (job[c].op \in Writes /\ job[c].name = n)

\* Of two creations of one name that both succeed, one began before the other had
\* ended, or a deletion or a Clean can have come between them: the check and the
\* creation are two steps, but only requests that overlap fall between
\* (fake_ckube.go:416-423).
CreatedOnce ==
    \A c, d \in Callers :
        /\ c \in before[d] /\ Succeeded(c) /\ Succeeded(d)
        /\ job[c].op = "POST" /\ job[d].op = "POST" /\ job[c].name = job[d].name
        => \E k \in Callers :
               /\ k \notin before[c] /\ d \notin before[k]
               /\ job[k].op \in {"DELETE", "CLEAN"} /\ Concerns(k, job[c].name)

\* Two calls of Clean that overlap can leave the two stores apart for good: the one that
\* is first with the server's store may be last with the fake server's.
CleansOverlap ==
    \E k, l \in Callers :
        /\ k # l /\ job[k].op = "CLEAN" /\ job[l].op = "CLEAN"
        /\ pc[k] # "free" /\ pc[l] # "free"
        /\ k \notin before[l] /\ l \notin before[k]

\* Unless calls of Clean overlap, a GET finds what was written by a request that no
\* later one, itself ended before the GET began, had replaced: the two stores of the
\* fake server do not part for longer than a Clean takes (fake_ckube.go:96-108).
ReadsRegular ==
    CleansOverlap \/
        \A g \in Callers : job[g].op = "GET" /\ Succeeded(g) =>
            ~ \E w \in before[g] :
                /\ Succeeded(w) /\ Concerns(w, job[g].name)
                /\ got[g].by \in before[w] \cup {Nobody}

\* What a watch sees is in the order of the requests where
\* that order is known to the clients, and twice never (fake_ckube.go:464-478).
InOrder ==
    \A v \in Watchers : \A i, j \in 1..Len(seen[v]) :
        i < j => seen[v][i] # seen[v][j] /\ seen[v][j] \notin before[seen[v][i]]

\* A watch sees only changes that were made, of what it asks for, and none that had
\* ended before it began (fake_ckube.go:338-366, 416-449).
SeesChanges ==
    \A v \in Watchers : \A i \in 1..Len(seen[v]) :
        LET c == seen[v][i]
        IN /\ job[c].op \in Writes /\ job[c].name \in Wants[v]
           /\ result[c] # "refused" /\ c \notin before[v]

\* A request that has ended was seen by each watch that had waited for events all
\* along; what is lost is lost by those that were busy (fake_ckube.go:468-476).
NothingLostByWaiting ==
    \A c \in Callers : \A v \in idle[c] :
        /\ job[c].op \in Writes /\ Succeeded(c) /\ job[c].name \in Wants[v]
        => event[v] = c \/ \E i \in 1..Len(seen[v]) : seen[v][i] = c

\* Requests return, whatever the watches do: nobody waits for a client
\* that does not read, and the lock goes round (fake_ckube.go:318-336, 464-477).
RequestsReturn == \A c \in Callers : pc[c] \in {"check", "server", "get"} ~> pc[c] = "done"
=============================================================================
