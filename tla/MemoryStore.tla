---------------------------- MODULE MemoryStore ----------------------------
(***************************************************************************)
(* The memory store of store/memory/memory.go for ONE resource type: the   *)
(* map of the types is filled when the store is built and never changes,   *)
(* so the types do not meet.                                               *)
(*                                                                         *)
(* Under a type there are three levels of maps, each with a RWMutex of its *)
(* own: cluster -> namespace -> name.  A namespace of a cluster is here a  *)
(* Space, so the second level is [cluster -> spaces] and the third, space  *)
(* -> name, is flattened to one function of the keys.  No method holds a   *)
(* write lock for longer than one map operation, so that operation is one  *)
(* step; a query holds the read locks of the first two levels while it     *)
(* iterates, and those are part of its state.  A RWMutex blocks new        *)
(* readers while a writer waits for it: "wantRoot" and "wantCluster".      *)
(*                                                                         *)
(* Left out: what a name or an index looks like (Matches says which        *)
(* versions a query selects), and sorting and cutting the collected result *)
(* into a page, which touch no shared state.                               *)
(***************************************************************************)
EXTENDS Naturals, FiniteSets

CONSTANTS
    Clusters,   \* the names of the clusters
    Spaces,     \* the namespaces of the clusters
    Keys,       \* the objects: cluster, namespace and name
    Versions,   \* the contents an object may have
    Absent,     \* no object
    ClusterOf,  \* the cluster of a space
    SpaceOf,    \* the space of an object
    Writers,    \* the goroutines that watch a cluster
    WritesTo,   \* the cluster a writer watches
    Readers,    \* the goroutines that serve requests
    Queries,    \* the reads that may be asked for
    Lookups,    \* those of them that are calls of Get
    LookupKey,  \* the object such a call asks for
    Opens,      \* the spaces whose objects a query looks at
    Matches,    \* Matches[q][k]: the versions of k that the query accepts
    None,       \* no call, no query, no cluster, no answer
    MaxCalls    \* bound: the calls of the store one writer makes

ASSUME SpaceAssumption ==
    /\ ClusterOf \in [Spaces -> Clusters]
    /\ SpaceOf \in [Keys -> Spaces]
    /\ IsFiniteSet(Keys)

Contents == [Keys -> Versions \cup {Absent}]
Calls == [key : Keys, version : Versions \cup {Absent}]

ASSUME ValueAssumption ==
    /\ Absent \notin Versions
    /\ None \notin Queries
    /\ None \notin Clusters
    /\ None \notin Contents

ASSUME ActorAssumption ==
    /\ WritesTo \in [Writers -> Clusters]
    /\ IsFiniteSet(Writers)
    /\ Opens \in [Queries -> SUBSET Spaces]
    /\ Matches \in [Queries -> [Keys -> SUBSET Versions]]
    /\ Lookups \subseteq Queries
    /\ LookupKey \in [Lookups -> Keys]
    /\ MaxCalls \in Nat

\* Get looks at one name of one namespace and takes what is there.
ASSUME LookupAssumption ==
    \A q \in Lookups :
        /\ Opens[q] = {SpaceOf[LookupKey[q]]}
        /\ Matches[q] = [k \in Keys |-> IF k = LookupKey[q] THEN Versions ELSE {}]

VARIABLES
    clusterMap, \* the clusters in the map of the type
    nsMap,      \* nsMap[c]: the spaces in the map of the cluster c
    objects,    \* the object stored for each key
    gauge,      \* ckube_resources_total, by space
    wpc,        \* where a writer is in its call of the store
    call,       \* the object the call is about; Absent is a deletion
    todo,       \* the spaces that Clean still has to empty
    length,     \* the result of Len, not yet in the gauge
    calls,      \* the calls a writer has begun (bounded)
    rpc,        \* where a reader is in its read
    query,      \* what it asks for
    todoC,      \* the clusters its iteration has not entered yet
    at,         \* the cluster it is in
    todoS,      \* the spaces of it that the iteration has not visited yet
    result,     \* the objects collected so far
    must, may   \* history, as in ResourceCache: what the answer owes the caller

store == <<clusterMap, nsMap, objects, gauge>>
writerVars == <<wpc, call, todo, length, calls>>
readerVars == <<rpc, query, todoC, at, todoS, result>>
history == <<must, may>>
vars == <<store, writerVars, readerVars, history>>

Nothing == [k \in Keys |-> Absent]

\* A query for one namespace skips the other spaces of every cluster.
Selection ==
    [q \in Queries |->
        [k \in Keys |-> IF SpaceOf[k] \in Opens[q] THEN Matches[q][k] ELSE {}]]

Cache == INSTANCE ResourceCache WITH
            contents <- objects,
            asked <- query,
            reply <- [r \in Readers |->
                        IF rpc[r] = "done" THEN result[r] ELSE None],
            Selects <- Selection

TypeOK ==
    /\ clusterMap \subseteq Clusters
    /\ nsMap \in [Clusters -> SUBSET Spaces]
    /\ objects \in Contents
    /\ gauge \in [Spaces -> Nat]
    /\ wpc \in [Writers -> {"idle", "cluster", "wantRoot", "space", "wantCluster",
                            "apply", "len", "gauge", "clean", "cleaning"}]
    /\ call \in [Writers -> Calls \cup {None}]
    /\ todo \in [Writers -> SUBSET Spaces]
    /\ length \in [Writers -> Nat]
    /\ calls \in [Writers -> 0..MaxCalls]
    /\ rpc \in [Readers -> {"idle", "query", "clusters", "spaces",
                            "getCluster", "getSpace", "getObject", "done"}]
    /\ query \in [Readers -> Queries \cup {None}]
    /\ todoC \in [Readers -> SUBSET Clusters]
    /\ at \in [Readers -> Clusters \cup {None}]
    /\ todoS \in [Readers -> SUBSET Spaces]
    /\ result \in [Readers -> Contents]
    /\ must \in [Readers -> SUBSET Keys]
    /\ may \in [Readers -> [Keys -> SUBSET Versions]]

\* NewMemoryStore: the map of the type exists and is empty.
Init ==
    /\ clusterMap = {}
    /\ nsMap = [c \in Clusters |-> {}]
    /\ objects = Nothing
    /\ gauge = [s \in Spaces |-> 0]
    /\ wpc = [w \in Writers |-> "idle"]
    /\ call = [w \in Writers |-> None]
    /\ todo = [w \in Writers |-> {}]
    /\ length = [w \in Writers |-> 0]
    /\ calls = [w \in Writers |-> 0]
    /\ rpc = [r \in Readers |-> "idle"]
    /\ query = [r \in Readers |-> None]
    /\ todoC = [r \in Readers |-> {}]
    /\ at = [r \in Readers |-> None]
    /\ todoS = [r \in Readers |-> {}]
    /\ result = [r \in Readers |-> Nothing]
    /\ must = [r \in Readers |-> {}]
    /\ may = [r \in Readers |-> [k \in Keys |-> {}]]

-----------------------------------------------------------------------------
(* The locks.  A waiting writer keeps new readers out of the map it wants. *)

RootReaders == {r \in Readers : rpc[r] \in {"clusters", "spaces"}}
ClusterReaders(c) == {r \in Readers : rpc[r] = "spaces" /\ at[r] = c}

RootWaiters == {w \in Writers : wpc[w] = "wantRoot"}
ClusterWaiters(c) == {w \in Writers : wpc[w] = "wantCluster" /\ WritesTo[w] = c}

RootOpen == RootWaiters = {}
ClusterOpen(c) == RootOpen /\ ClusterWaiters(c) = {}

CallSpace(w) == SpaceOf[call[w].key]
Stored(s) == {k \in Keys : SpaceOf[k] = s /\ objects[k] # Absent}

-----------------------------------------------------------------------------
(* Writers: OnResourceAdded, OnResourceModified, OnResourceDeleted, Clean. *)

\* The entry of the three OnResource methods, of which the first two are alike.
Call(w, k, v) ==
    /\ wpc[w] = "idle" /\ calls[w] < MaxCalls
    /\ ClusterOf[SpaceOf[k]] = WritesTo[w]
    /\ wpc' = [wpc EXCEPT ![w] = "cluster"]
    /\ call' = [call EXCEPT ![w] = [key |-> k, version |-> v]]
    /\ calls' = [calls EXCEPT ![w] = @ + 1]
    /\ UNCHANGED <<store, todo, length, readerVars, history>>

OnResourceAdded(w, k, v) == v \in Versions /\ Call(w, k, v)

OnResourceDeleted(w, k) == Call(w, k, Absent)

\* initResourceNamespace asks for both write locks whether or not the entry is
\* there already; only one goroutine at a time is the writer that waits.
WantRoot(w) ==
    /\ wpc[w] = "cluster" /\ RootOpen
    /\ wpc' = [wpc EXCEPT ![w] = "wantRoot"]
    /\ UNCHANGED <<store, call, todo, length, calls, readerVars, history>>

\* Faulty variant: Init without its early return gives a cluster a new, empty map.
InitClusterAfresh(w) ==
    /\ wpc[w] = "wantRoot" /\ RootReaders = {}
    /\ clusterMap' = clusterMap \cup {WritesTo[w]}
    /\ nsMap' = [nsMap EXCEPT ![WritesTo[w]] = {}]
    /\ wpc' = [wpc EXCEPT ![w] = "space"]
    /\ UNCHANGED <<objects, gauge, call, todo, length, calls, readerVars, history>>

InitCluster(w) ==
    /\ wpc[w] = "wantRoot" /\ RootReaders = {}
    /\ clusterMap' = clusterMap \cup {WritesTo[w]}
    /\ wpc' = [wpc EXCEPT ![w] = "space"]
    /\ UNCHANGED <<nsMap, objects, gauge, call, todo, length, calls,
                   readerVars, history>>

WantCluster(w) ==
    /\ wpc[w] = "space" /\ ClusterOpen(WritesTo[w])
    /\ wpc' = [wpc EXCEPT ![w] = "wantCluster"]
    /\ UNCHANGED <<store, call, todo, length, calls, readerVars, history>>

InitNamespace(w) ==
    /\ wpc[w] = "wantCluster" /\ ClusterReaders(WritesTo[w]) = {}
    /\ nsMap' = [nsMap EXCEPT ![WritesTo[w]] = @ \cup {CallSpace(w)}]
    /\ wpc' = [wpc EXCEPT ![w] = "apply"]
    /\ UNCHANGED <<clusterMap, objects, gauge, call, todo, length, calls,
                   readerVars, history>>

\* History: what the reads that are going on may and must see of the contents c.
Observe(c) ==
    /\ must' = [r \in Readers |->
                  IF query[r] = None THEN must[r]
                  ELSE must[r] \cap Cache!Hits(query[r], c)]
    /\ may' = [r \in Readers |->
                  IF query[r] = None THEN may[r]
                  ELSE [k \in Keys |-> may[r][k] \cup Cache!Seen(query[r], c)[k]]]

\* Set or Delete, under the lock of the namespace, which no reader holds between
\* two steps.
Apply(w) ==
    /\ wpc[w] = "apply" /\ ClusterOpen(WritesTo[w])
    /\ objects' = [objects EXCEPT ![call[w].key] = call[w].version]
    /\ Observe(objects')
    /\ wpc' = [wpc EXCEPT ![w] = "len"]
    /\ UNCHANGED <<clusterMap, nsMap, gauge, call, todo, length, calls, readerVars>>

\* Faulty variants: the gauge counts the events, or the objects of the cluster.
LenByCounting(w) ==
    /\ wpc[w] = "len" /\ ClusterOpen(WritesTo[w])
    /\ length' = [length EXCEPT ![w] = IF call[w].version = Absent
                                       THEN gauge[CallSpace(w)] - 1
                                       ELSE gauge[CallSpace(w)] + 1]
    /\ wpc' = [wpc EXCEPT ![w] = "gauge"]
    /\ UNCHANGED <<store, call, todo, calls, readerVars, history>>

LenOfCluster(w) ==
    /\ wpc[w] = "len" /\ ClusterOpen(WritesTo[w])
    /\ length' = [length EXCEPT ![w] =
                    Cardinality({k \in Keys : /\ ClusterOf[SpaceOf[k]] = WritesTo[w]
                                              /\ objects[k] # Absent})]
    /\ wpc' = [wpc EXCEPT ![w] = "gauge"]
    /\ UNCHANGED <<store, call, todo, calls, readerVars, history>>

Len(w) ==
    /\ wpc[w] = "len" /\ ClusterOpen(WritesTo[w])
    /\ length' = [length EXCEPT ![w] = Cardinality(Stored(CallSpace(w)))]
    /\ wpc' = [wpc EXCEPT ![w] = "gauge"]
    /\ UNCHANGED <<store, call, todo, calls, readerVars, history>>

SetGauge(w) ==
    /\ wpc[w] = "gauge"
    /\ gauge' = [gauge EXCEPT ![CallSpace(w)] = length[w]]
    /\ wpc' = [wpc EXCEPT ![w] = "idle"]
    /\ call' = [call EXCEPT ![w] = None]
    /\ length' = [length EXCEPT ![w] = 0]
    /\ UNCHANGED <<clusterMap, nsMap, objects, todo, calls, readerVars, history>>

Clean(w) ==
    /\ wpc[w] = "idle" /\ calls[w] < MaxCalls
    /\ wpc' = [wpc EXCEPT ![w] = "clean"]
    /\ calls' = [calls EXCEPT ![w] = @ + 1]
    /\ UNCHANGED <<store, call, todo, length, readerVars, history>>

\* "cluster %s not exists"
CleanFails(w) ==
    /\ wpc[w] = "clean" /\ RootOpen
    /\ WritesTo[w] \notin clusterMap
    /\ wpc' = [wpc EXCEPT ![w] = "idle"]
    /\ UNCHANGED <<store, call, todo, length, calls, readerVars, history>>

\* Values copies the list of the namespaces, and each is emptied on its own.
CleanValues(w) ==
    /\ wpc[w] = "clean" /\ ClusterOpen(WritesTo[w])
    /\ WritesTo[w] \in clusterMap
    /\ todo' = [todo EXCEPT ![w] = nsMap[WritesTo[w]]]
    /\ wpc' = [wpc EXCEPT ![w] = "cleaning"]
    /\ UNCHANGED <<store, call, length, calls, readerVars, history>>

CleanSpace(w, s) ==
    /\ wpc[w] = "cleaning" /\ s \in todo[w]
    /\ objects' = [k \in Keys |-> IF SpaceOf[k] = s THEN Absent ELSE objects[k]]
    /\ Observe(objects')
    /\ todo' = [todo EXCEPT ![w] = @ \ {s}]
    /\ UNCHANGED <<clusterMap, nsMap, gauge, wpc, call, length, calls, readerVars>>

CleanReturns(w) ==
    /\ wpc[w] = "cleaning" /\ todo[w] = {}
    /\ wpc' = [wpc EXCEPT ![w] = "idle"]
    /\ UNCHANGED <<store, call, todo, length, calls, readerVars, history>>

-----------------------------------------------------------------------------
(* Readers: Query and Get. *)

Begin(r, q, pc) ==
    /\ rpc[r] = "idle"
    /\ rpc' = [rpc EXCEPT ![r] = pc]
    /\ query' = [query EXCEPT ![r] = q]
    /\ must' = [must EXCEPT ![r] = Cache!Hits(q, objects)]
    /\ may' = [may EXCEPT ![r] = Cache!Seen(q, objects)]
    /\ UNCHANGED <<store, writerVars, todoC, at, todoS, result>>

Query(r, q) == q \notin Lookups /\ Begin(r, q, "query")

Get(r, q) == q \in Lookups /\ Begin(r, q, "getCluster")

\* ForEach takes the read lock of the clusters and keeps it to the end.
OpenRoot(r) ==
    /\ rpc[r] = "query" /\ RootOpen
    /\ rpc' = [rpc EXCEPT ![r] = "clusters"]
    /\ todoC' = [todoC EXCEPT ![r] = clusterMap]
    /\ UNCHANGED <<store, writerVars, query, at, todoS, result, history>>

\* Faulty variant: the iteration looks the cluster up by its name and so asks for
\* the lock of the clusters, which it holds, a second time.
EnterClusterByName(r, c) ==
    /\ rpc[r] = "clusters" /\ c \in todoC[r]
    /\ ClusterOpen(c)
    /\ rpc' = [rpc EXCEPT ![r] = "spaces"]
    /\ todoC' = [todoC EXCEPT ![r] = @ \ {c}]
    /\ at' = [at EXCEPT ![r] = c]
    /\ todoS' = [todoS EXCEPT ![r] = nsMap[c]]
    /\ UNCHANGED <<store, writerVars, query, result, history>>

\* The inner ForEach takes the read lock of one cluster.
EnterCluster(r, c) ==
    /\ rpc[r] = "clusters" /\ c \in todoC[r]
    /\ ClusterWaiters(c) = {}
    /\ rpc' = [rpc EXCEPT ![r] = "spaces"]
    /\ todoC' = [todoC EXCEPT ![r] = @ \ {c}]
    /\ at' = [at EXCEPT ![r] = c]
    /\ todoS' = [todoS EXCEPT ![r] = nsMap[c]]
    /\ UNCHANGED <<store, writerVars, query, result, history>>

\* Faulty variant: a namespace that was not asked for ends the iteration.
VisitOrStop(r, s) ==
    /\ rpc[r] = "spaces" /\ s \in todoS[r]
    /\ result' = [result EXCEPT ![r] =
                    [k \in Keys |->
                        IF SpaceOf[k] = s /\ objects[k] \in Selection[query[r]][k]
                        THEN objects[k] ELSE result[r][k]]]
    /\ todoS' = [todoS EXCEPT ![r] = IF s \in Opens[query[r]] THEN @ \ {s} ELSE {}]
    /\ UNCHANGED <<store, writerVars, rpc, query, todoC, at, history>>

\* All of a namespace is read under its lock, or none of it if the query is for
\* another namespace.
Visit(r, s) ==
    /\ rpc[r] = "spaces" /\ s \in todoS[r]
    /\ result' = [result EXCEPT ![r] =
                    [k \in Keys |->
                        IF SpaceOf[k] = s /\ objects[k] \in Selection[query[r]][k]
                        THEN objects[k] ELSE result[r][k]]]
    /\ todoS' = [todoS EXCEPT ![r] = @ \ {s}]
    /\ UNCHANGED <<store, writerVars, rpc, query, todoC, at, history>>

LeaveCluster(r) ==
    /\ rpc[r] = "spaces" /\ todoS[r] = {}
    /\ rpc' = [rpc EXCEPT ![r] = "clusters"]
    /\ at' = [at EXCEPT ![r] = None]
    /\ UNCHANGED <<store, writerVars, query, todoC, todoS, result, history>>

CloseRoot(r) ==
    /\ rpc[r] = "clusters" /\ todoC[r] = {}
    /\ rpc' = [rpc EXCEPT ![r] = "done"]
    /\ UNCHANGED <<store, writerVars, query, todoC, at, todoS, result, history>>

\* Get looks into one map after the other and holds no lock in between.
GetCluster(r) ==
    /\ rpc[r] = "getCluster" /\ RootOpen
    /\ rpc' = [rpc EXCEPT ![r] =
                 IF ClusterOf[SpaceOf[LookupKey[query[r]]]] \in clusterMap
                 THEN "getSpace" ELSE "done"]
    /\ UNCHANGED <<store, writerVars, query, todoC, at, todoS, result, history>>

GetSpace(r) ==
    LET s == SpaceOf[LookupKey[query[r]]] IN
    /\ rpc[r] = "getSpace" /\ ClusterOpen(ClusterOf[s])
    /\ rpc' = [rpc EXCEPT ![r] =
                 IF s \in nsMap[ClusterOf[s]] THEN "getObject" ELSE "done"]
    /\ UNCHANGED <<store, writerVars, query, todoC, at, todoS, result, history>>

GetObject(r) ==
    LET k == LookupKey[query[r]] IN
    /\ rpc[r] = "getObject" /\ ClusterOpen(ClusterOf[SpaceOf[k]])
    /\ result' = [result EXCEPT ![r] = [@ EXCEPT ![k] = objects[k]]]
    /\ rpc' = [rpc EXCEPT ![r] = "done"]
    /\ UNCHANGED <<store, writerVars, query, todoC, at, todoS, history>>

\* Faulty variant: the next read collects into the same slice.
ReturnAndReuse(r) ==
    /\ rpc[r] = "done"
    /\ rpc' = [rpc EXCEPT ![r] = "idle"]
    /\ query' = [query EXCEPT ![r] = None]
    /\ must' = [must EXCEPT ![r] = {}]
    /\ may' = [may EXCEPT ![r] = [k \in Keys |-> {}]]
    /\ UNCHANGED <<store, writerVars, todoC, at, todoS, result>>

Return(r) ==
    /\ rpc[r] = "done"
    /\ rpc' = [rpc EXCEPT ![r] = "idle"]
    /\ query' = [query EXCEPT ![r] = None]
    /\ result' = [result EXCEPT ![r] = Nothing]
    /\ must' = [must EXCEPT ![r] = {}]
    /\ may' = [may EXCEPT ![r] = [k \in Keys |-> {}]]
    /\ UNCHANGED <<store, writerVars, todoC, at, todoS>>

-----------------------------------------------------------------------------
WriterStep(w) ==
    \/ WantRoot(w)
    \/ InitCluster(w)
    \/ WantCluster(w)
    \/ InitNamespace(w)
    \/ Apply(w)
    \/ Len(w)
    \/ SetGauge(w)
    \/ CleanFails(w)
    \/ CleanValues(w)
    \/ \E s \in Spaces : CleanSpace(w, s)
    \/ CleanReturns(w)

ReaderStep(r) ==
    \/ OpenRoot(r)
    \/ \E c \in Clusters : EnterCluster(r, c)
    \/ \E s \in Spaces : Visit(r, s)
    \/ LeaveCluster(r)
    \/ CloseRoot(r)
    \/ GetCluster(r)
    \/ GetSpace(r)
    \/ GetObject(r)
    \/ Return(r)

Next ==
    \/ \E w \in Writers : \E k \in Keys : \E v \in Versions : OnResourceAdded(w, k, v)
    \/ \E w \in Writers : \E k \in Keys : OnResourceDeleted(w, k)
    \/ \E w \in Writers : Clean(w)
    \/ \E w \in Writers : WriterStep(w)
    \/ \E r \in Readers : \E q \in Queries : Query(r, q)
    \/ \E r \in Readers : \E q \in Queries : Get(r, q)
    \/ \E r \in Readers : ReaderStep(r)

Spec == Init /\ [][Next]_vars

\* Goroutines that can run do run.  A step behind a lock is strongly fair: Go
\* hands a mutex over to those that wait for it, in turn.
Fairness ==
    /\ \A w \in Writers : SF_vars(WriterStep(w))
    /\ \A r \in Readers : SF_vars(ReaderStep(r))

FairSpec == Spec /\ Fairness

-----------------------------------------------------------------------------
(* Properties. *)

Reached(s) == ClusterOf[s] \in clusterMap /\ s \in nsMap[ClusterOf[s]]

\* No method meets a nil map: when an object is set, deleted or counted, and as
\* long as one is stored, the chain of maps that leads to its namespace exists.
\* Nothing in the types says so; initResourceNamespace must have run, and Clean
\* must have left the maps of the namespaces in place (memory.go:126-170).
NoNilMap ==
    /\ \A w \in Writers : wpc[w] \in {"apply", "len"} => Reached(CallSpace(w))
    /\ \A k \in Keys : objects[k] # Absent => Reached(SpaceOf[k])

\* The answer of Query or Get has every object asked for that was stored during
\* the whole read, and each of its objects was stored at some moment of the read,
\* whatever the watch goroutines did meanwhile to this and to other clusters
\* (memory.go:274-307).
RegularReads ==
    \A r \in Readers : rpc[r] = "done" => Cache!Regular(r, result[r])

\* The store with its three levels of locked maps implements the regular cache.
ImplementsCache == Cache!Spec

Watching(s) == {w \in Writers : WritesTo[w] = ClusterOf[s]}

\* With one goroutine per cluster (watcher.go:195-202) the gauge of a namespace
\* that holds objects is their number whenever that goroutine is between two
\* calls, although Set, Len and the gauge are three steps (memory.go:148-150).
GaugeExactUnlessEmpty ==
    \A s \in Spaces :
        /\ Cardinality(Watching(s)) = 1
        /\ \A w \in Watching(s) : wpc[w] = "idle"
        /\ Stored(s) # {}
        => gauge[s] = Cardinality(Stored(s))

\* Every call of the store returns: writers that wait behind a long query, and
\* queries that wait behind waiting writers while holding the lock of the level
\* above, do not wait for each other in a circle.
CallsReturn == \A w \in Writers : wpc[w] # "idle" ~> wpc[w] = "idle"

ReadsReturn == \A r \in Readers : rpc[r] # "idle" ~> rpc[r] = "idle"
=============================================================================
