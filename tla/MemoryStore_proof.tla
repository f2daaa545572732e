------------------------- MODULE MemoryStore_proof -------------------------
(***************************************************************************)
(* Proofs about MemoryStore for every number of clusters, namespaces,      *)
(* objects, watch goroutines and readers: its typing, NoNilMap and         *)
(* RegularReads from one inductive invariant, that it implements           *)
(* ResourceCache, and GaugeExactUnlessEmpty from a second invariant.       *)
(***************************************************************************)
EXTENDS MemoryStore, FiniteSetTheorems, TLAPS

-----------------------------------------------------------------------------
(* The inductive invariant behind NoNilMap, RegularReads and ImplementsCache. *)

\* A writer that handles an object has one, of the cluster that it watches.
CallInv ==
    \A w \in Writers :
        wpc[w] \in {"cluster", "wantRoot", "space", "wantCluster", "apply", "len",
                    "gauge"}
        => call[w] \in Calls /\ ClusterOf[CallSpace(w)] = WritesTo[w]

MapInv ==
    /\ \A w \in Writers :
          /\ wpc[w] \in {"space", "wantCluster", "apply", "len"}
             => WritesTo[w] \in clusterMap
          /\ wpc[w] \in {"apply", "len"} => CallSpace(w) \in nsMap[WritesTo[w]]
    /\ \A k \in Keys : objects[k] # Absent => Reached(SpaceOf[k])

\* A reader asks for something unless it is idle, and has nothing at first.
AskInv ==
    \A r \in Readers :
        /\ rpc[r] = "idle" <=> query[r] = None
        /\ rpc[r] \in {"getCluster", "getSpace", "getObject"} => query[r] \in Lookups
        /\ rpc[r] \in {"idle", "query", "getCluster", "getSpace", "getObject"}
           => result[r] = Nothing

\* The history follows the store: what a read still must see is stored, and what
\* is stored it may see.
HistoryInv ==
    \A r \in Readers : query[r] # None =>
        \A k \in Keys :
            /\ k \in must[r] => objects[k] \in Selection[query[r]][k]
            /\ objects[k] \in Selection[query[r]][k] => objects[k] \in may[r][k]

\* The iteration still comes to the object.
Ahead(r, k) ==
    \/ ClusterOf[SpaceOf[k]] \in todoC[r]
    \/ rpc[r] = "spaces" /\ at[r] = ClusterOf[SpaceOf[k]] /\ SpaceOf[k] \in todoS[r]

\* What was collected was seen, and what must be in the answer is collected or
\* still ahead.
ResultInv ==
    \A r \in Readers : \A k \in Keys :
        /\ result[r][k] # Absent => result[r][k] \in may[r][k]
        /\ rpc[r] \in {"clusters", "spaces"} /\ k \in must[r]
           => result[r][k] # Absent \/ Ahead(r, k)
        /\ rpc[r] = "done" /\ k \in must[r] => result[r][k] # Absent

IInv == TypeOK /\ CallInv /\ MapInv /\ AskInv /\ HistoryInv /\ ResultInv


-----------------------------------------------------------------------------
(* Facts about the operators. *)

\* What a query selects of an object is a set of versions, never Absent.
LEMMA SelectionType ==
    ASSUME NEW q \in Queries, NEW k \in Keys
    PROVE  /\ Selection[q][k] \in SUBSET Versions
           /\ Absent \notin Selection[q][k]
  BY ActorAssumption, ValueAssumption DEF Selection

\* A call of Get selects every version of its object, and nothing else.
LEMMA LookupSelection ==
    ASSUME NEW q \in Lookups, NEW k \in Keys
    PROVE  Selection[q][k] = IF k = LookupKey[q] THEN Versions ELSE {}
<1>1. /\ q \in Queries
      /\ LookupKey[q] \in Keys
  BY ActorAssumption
<1>2. /\ Opens[q] = {SpaceOf[LookupKey[q]]}
      /\ Matches[q][k] = IF k = LookupKey[q] THEN Versions ELSE {}
  BY LookupAssumption
<1>. QED
  BY <1>1, <1>2 DEF Selection

\* The objects of a namespace can be counted.
LEMMA StoredIsCountable ==
    ASSUME NEW s \in Spaces
    PROVE  Cardinality(Stored(s)) \in Nat
<1>1. Stored(s) \subseteq Keys
  BY DEF Stored
<1>2. IsFiniteSet(Stored(s))
  BY <1>1, SpaceAssumption, FS_Subset
<1>. QED
  BY <1>2, FS_CardinalityType

-----------------------------------------------------------------------------
(* Typing. *)

\* The history variables stay in their types when the store becomes c.
LEMMA ObserveType ==
    ASSUME TypeOK, NEW c \in Contents, Observe(c)
    PROVE  /\ must' \in [Readers -> SUBSET Keys]
           /\ may' \in [Readers -> [Keys -> SUBSET Versions]]
<1>1. ASSUME NEW r \in Readers, NEW k \in Keys, query[r] # None
      PROVE  Selection[query[r]][k] \in SUBSET Versions
  BY <1>1, SelectionType DEF TypeOK
<1>2. must' \in [Readers -> SUBSET Keys]
  BY DEF TypeOK, Observe
<1>3. ASSUME NEW r \in Readers
      PROVE  (IF query[r] = None THEN may[r]
              ELSE [k \in Keys |-> may[r][k] \cup Cache!Seen(query[r], c)[k]])
             \in [Keys -> SUBSET Versions]
  <2>1. CASE query[r] = None
    BY <2>1 DEF TypeOK
  <2>2. CASE query[r] # None
    <3>1. ASSUME NEW k \in Keys
          PROVE  may[r][k] \cup Cache!Seen(query[r], c)[k] \in SUBSET Versions
      BY <1>1, <2>2 DEF TypeOK, Cache!Seen
    <3>. QED
      BY <2>2, <3>1
  <2>. QED
    BY <2>1, <2>2
<1>. QED
  BY <1>2, <1>3 DEF Observe


LEMMA TypeStep ==
    ASSUME TypeOK, CallInv, AskInv, [Next]_vars
    PROVE  TypeOK'
<1>. USE DEF TypeOK, vars, store, writerVars, readerVars, history
<1>1. ASSUME NEW w \in Writers, NEW k \in Keys, NEW v \in Versions \cup {Absent},
             Call(w, k, v)
      PROVE  TypeOK'
  BY <1>1, ActorAssumption DEF Call, Calls
<1>2. ASSUME NEW w \in Writers, Clean(w)
      PROVE  TypeOK'
  BY <1>2, ActorAssumption DEF Clean
<1>3. ASSUME NEW w \in Writers, WriterStep(w)
      PROVE  TypeOK'
  <2>1. CASE WantRoot(w)
    BY <2>1 DEF WantRoot
  <2>2. CASE InitCluster(w)
    BY <2>2, ActorAssumption DEF InitCluster
  <2>3. CASE WantCluster(w)
    BY <2>3 DEF WantCluster
  <2>4. CASE InitNamespace(w)
    BY <2>4, ActorAssumption, SpaceAssumption
    DEF InitNamespace, CallInv, CallSpace, Calls
  <2>5. CASE Apply(w)
    <3>1. objects' \in Contents
      BY <2>5 DEF Apply, CallInv, Calls, Contents
    <3>2. Observe(objects')
      BY <2>5 DEF Apply
    <3>3. must' \in [Readers -> SUBSET Keys] /\ may' \in [Readers -> [Keys -> SUBSET Versions]]
      BY <3>1, <3>2, ObserveType
    <3>. QED
      BY <2>5, <3>1, <3>3 DEF Apply
  <2>6. CASE Len(w)
    BY <2>6, StoredIsCountable, SpaceAssumption DEF Len, CallInv, CallSpace, Calls
  <2>7. CASE SetGauge(w)
    BY <2>7, SpaceAssumption DEF SetGauge, CallInv, CallSpace, Calls
  <2>8. CASE CleanFails(w)
    BY <2>8 DEF CleanFails
  <2>9. CASE CleanValues(w)
    BY <2>9, ActorAssumption DEF CleanValues
  <2>10. ASSUME NEW s \in Spaces, CleanSpace(w, s)
         PROVE  TypeOK'
    <3>1. objects' \in Contents
      BY <2>10 DEF CleanSpace, Contents
    <3>2. Observe(objects')
      BY <2>10 DEF CleanSpace
    <3>3. must' \in [Readers -> SUBSET Keys] /\ may' \in [Readers -> [Keys -> SUBSET Versions]]
      BY <3>1, <3>2, ObserveType
    <3>. QED
      BY <2>10, <3>1, <3>3 DEF CleanSpace
  <2>11. CASE CleanReturns(w)
    BY <2>11 DEF CleanReturns
  <2>. QED
    BY <1>3, <2>1, <2>2, <2>3, <2>4, <2>5, <2>6, <2>7, <2>8, <2>9, <2>10, <2>11
    DEF WriterStep
<1>4. ASSUME NEW r \in Readers, NEW q \in Queries,
             NEW pc \in {"query", "getCluster"}, Begin(r, q, pc)
      PROVE  TypeOK'
  <2>1. Cache!Hits(q, objects) \in SUBSET Keys
    BY DEF Cache!Hits
  <2>2. Cache!Seen(q, objects) \in [Keys -> SUBSET Versions]
    BY SelectionType DEF Cache!Seen
  <2>. QED
    BY <1>4, <2>1, <2>2 DEF Begin
<1>5. ASSUME NEW r \in Readers, ReaderStep(r)
      PROVE  TypeOK'
  <2>1. CASE OpenRoot(r)
    BY <2>1 DEF OpenRoot
  <2>2. ASSUME NEW c \in Clusters, EnterCluster(r, c)
        PROVE  TypeOK'
    BY <2>2 DEF EnterCluster
  <2>3. ASSUME NEW s \in Spaces, Visit(r, s)
        PROVE  TypeOK'
    <3>1. query[r] \in Queries
      BY <2>3 DEF Visit, AskInv
    <3>2. ASSUME NEW k \in Keys
          PROVE  (IF SpaceOf[k] = s /\ objects[k] \in Selection[query[r]][k]
                  THEN objects[k] ELSE result[r][k]) \in Versions \cup {Absent}
      BY <3>1, SelectionType DEF Contents
    <3>3. result' \in [Readers -> Contents]
      BY <2>3, <3>2 DEF Visit, Contents
    <3>. QED
      BY <2>3, <3>3 DEF Visit
  <2>4. CASE LeaveCluster(r)
    BY <2>4 DEF LeaveCluster
  <2>5. CASE CloseRoot(r)
    BY <2>5 DEF CloseRoot
  <2>6. CASE GetCluster(r)
    BY <2>6 DEF GetCluster
  <2>7. CASE GetSpace(r)
    BY <2>7 DEF GetSpace
  <2>8. CASE GetObject(r)
    <3>1. LookupKey[query[r]] \in Keys
      BY <2>8, ActorAssumption DEF GetObject, AskInv
    <3>. QED
      BY <2>8, <3>1 DEF GetObject, Contents
  <2>9. CASE Return(r)
    BY <2>9 DEF Return, Nothing, Contents
  <2>. QED
    BY <1>5, <2>1, <2>2, <2>3, <2>4, <2>5, <2>6, <2>7, <2>8, <2>9 DEF ReaderStep
<1>6. CASE UNCHANGED vars
  BY <1>6
<1>. QED
  BY <1>1, <1>2, <1>3, <1>4, <1>5, <1>6
  DEF Next, OnResourceAdded, OnResourceDeleted, Query, Get


-----------------------------------------------------------------------------
(* The parts of the inductive invariant, each preserved by every step. *)

LEMMA CallStep ==
    ASSUME TypeOK, CallInv, [Next]_vars
    PROVE  CallInv'
<1>. USE DEF CallInv, CallSpace, TypeOK
<1>1. ASSUME NEW w \in Writers, NEW k \in Keys, NEW v \in Versions \cup {Absent},
             Call(w, k, v)
      PROVE  CallInv'
  <2>1. [key |-> k, version |-> v] \in Calls
    BY DEF Calls
  <2>. QED
    BY <1>1, <2>1 DEF Call
<1>2. ASSUME NEW w \in Writers, Clean(w)
      PROVE  CallInv'
  BY <1>2 DEF Clean
<1>3. ASSUME NEW w \in Writers, WriterStep(w)
      PROVE  CallInv'
  BY <1>3 DEF WriterStep, WantRoot, InitCluster, WantCluster, InitNamespace, Apply,
              Len, SetGauge, CleanFails, CleanValues, CleanSpace, CleanReturns
<1>4. CASE UNCHANGED writerVars
  BY <1>4 DEF writerVars
<1>5. ASSUME NEW r \in Readers, NEW q \in Queries, Query(r, q) \/ Get(r, q)
      PROVE  UNCHANGED writerVars
  BY <1>5 DEF Query, Get, Begin
<1>6. ASSUME NEW r \in Readers, ReaderStep(r)
      PROVE  UNCHANGED writerVars
  BY <1>6 DEF ReaderStep, OpenRoot, EnterCluster, Visit, LeaveCluster, CloseRoot,
              GetCluster, GetSpace, GetObject, Return
<1>. QED
  BY <1>1, <1>2, <1>3, <1>4, <1>5, <1>6 DEF Next, vars, OnResourceAdded, OnResourceDeleted

LEMMA MapStep ==
    ASSUME TypeOK, CallInv, MapInv, [Next]_vars
    PROVE  MapInv'
<1>. USE DEF MapInv, Reached, CallSpace, TypeOK
<1>1. ASSUME NEW w \in Writers, NEW k \in Keys, NEW v \in Versions \cup {Absent},
             Call(w, k, v)
      PROVE  MapInv'
  BY <1>1 DEF Call, store
<1>2. ASSUME NEW w \in Writers, Clean(w)
      PROVE  MapInv'
  BY <1>2 DEF Clean, store
<1>3. ASSUME NEW w \in Writers, WriterStep(w)
      PROVE  MapInv'
  <2>1. CASE WantRoot(w) \/ WantCluster(w) \/ Len(w) \/ CleanFails(w)
             \/ CleanValues(w) \/ CleanReturns(w)
    BY <2>1 DEF WantRoot, WantCluster, Len, CleanFails, CleanValues, CleanReturns, store
  <2>2. CASE InitCluster(w)
    BY <2>2 DEF InitCluster
  <2>3. CASE InitNamespace(w)
    BY <2>3, ActorAssumption, SpaceAssumption DEF InitNamespace
  <2>4. CASE Apply(w)
    <3>1. /\ WritesTo[w] \in clusterMap
          /\ CallSpace(w) \in nsMap[WritesTo[w]]
          /\ ClusterOf[CallSpace(w)] = WritesTo[w]
      BY <2>4 DEF Apply, CallInv
    <3>2. \A k \in Keys : objects'[k] # Absent => Reached(SpaceOf[k])
      BY <2>4, <3>1 DEF Apply, Contents
    <3>. QED
      BY <2>4, <3>2 DEF Apply
  <2>5. CASE SetGauge(w)
    BY <2>5 DEF SetGauge
  <2>6. ASSUME NEW s \in Spaces, CleanSpace(w, s)
        PROVE  MapInv'
    BY <2>6 DEF CleanSpace
  <2>. QED
    BY <1>3, <2>1, <2>2, <2>3, <2>4, <2>5, <2>6 DEF WriterStep
<1>4. CASE UNCHANGED <<store, writerVars>>
  BY <1>4 DEF writerVars, store
<1>5. ASSUME NEW r \in Readers, NEW q \in Queries, Query(r, q) \/ Get(r, q)
      PROVE  UNCHANGED <<store, writerVars>>
  BY <1>5 DEF Query, Get, Begin
<1>6. ASSUME NEW r \in Readers, ReaderStep(r)
      PROVE  UNCHANGED <<store, writerVars>>
  BY <1>6 DEF ReaderStep, OpenRoot, EnterCluster, Visit, LeaveCluster, CloseRoot,
              GetCluster, GetSpace, GetObject, Return
<1>. QED
  BY <1>1, <1>2, <1>3, <1>4, <1>5, <1>6 DEF Next, vars, OnResourceAdded, OnResourceDeleted

\* No step of a writer touches what a reader does.
LEMMA WritersLeaveReaders ==
    ASSUME NEW w \in Writers,
           \/ \E k \in Keys : \E v \in Versions \cup {Absent} : Call(w, k, v)
           \/ Clean(w)
           \/ WriterStep(w)
    PROVE  UNCHANGED readerVars
  BY DEF Call, Clean, WriterStep, WantRoot, InitCluster, WantCluster, InitNamespace,
         Apply, Len, SetGauge, CleanFails, CleanValues, CleanSpace, CleanReturns

LEMMA AskStep ==
    ASSUME TypeOK, AskInv, [Next]_vars
    PROVE  AskInv'
<1>. USE DEF AskInv, TypeOK
<1>1. ASSUME NEW r \in Readers, NEW q \in Queries, Query(r, q)
      PROVE  AskInv'
  BY <1>1, ValueAssumption DEF Query, Begin
<1>2. ASSUME NEW r \in Readers, NEW q \in Queries, Get(r, q)
      PROVE  AskInv'
  BY <1>2, ValueAssumption DEF Get, Begin
<1>3. ASSUME NEW r \in Readers, ReaderStep(r)
      PROVE  AskInv'
  <2>1. CASE OpenRoot(r) \/ (\E c \in Clusters : EnterCluster(r, c)) \/ LeaveCluster(r)
             \/ CloseRoot(r) \/ GetCluster(r) \/ GetSpace(r)
    BY <2>1 DEF OpenRoot, EnterCluster, LeaveCluster, CloseRoot, GetCluster, GetSpace
  <2>2. ASSUME NEW s \in Spaces, Visit(r, s)
        PROVE  AskInv'
    BY <2>2 DEF Visit
  <2>3. CASE GetObject(r)
    BY <2>3 DEF GetObject
  <2>4. CASE Return(r)
    BY <2>4 DEF Return
  <2>. QED
    BY <1>3, <2>1, <2>2, <2>3, <2>4 DEF ReaderStep
<1>4. CASE UNCHANGED readerVars
  BY <1>4 DEF readerVars
<1>. QED
  BY <1>1, <1>2, <1>3, <1>4, WritersLeaveReaders
  DEF Next, vars, OnResourceAdded, OnResourceDeleted

\* When the store becomes c, the reads owe less and may show more.
LEMMA ObserveFacts ==
    ASSUME TypeOK, NEW c \in Contents, Observe(c), NEW r \in Readers, NEW k \in Keys
    PROVE  /\ k \in must'[r] => k \in must[r]
           /\ may[r][k] \subseteq may'[r][k]
           /\ query[r] # None /\ k \in must'[r] => c[k] \in Selection[query[r]][k]
           /\ query[r] # None /\ c[k] \in Selection[query[r]][k] => c[k] \in may'[r][k]
<1>1. CASE query[r] = None
  BY <1>1 DEF Observe
<1>2. CASE query[r] # None
  <2>1. must'[r] = must[r] \cap Cache!Hits(query[r], c)
    BY <1>2 DEF Observe
  <2>2. may'[r][k] = may[r][k] \cup ({c[k]} \cap Selection[query[r]][k])
    BY <1>2 DEF Observe, Cache!Seen
  <2>. QED
    BY <2>1, <2>2 DEF Cache!Hits
<1>. QED
  BY <1>1, <1>2

LEMMA HistoryStep ==
    ASSUME TypeOK, CallInv, HistoryInv, [Next]_vars
    PROVE  HistoryInv'
<1>. USE DEF HistoryInv
<1>1. ASSUME NEW c \in Contents, Observe(c), objects' = c, UNCHANGED readerVars
      PROVE  HistoryInv'
  BY <1>1, ObserveFacts DEF readerVars
<1>2. CASE UNCHANGED <<objects, query, history>>
  BY <1>2 DEF history
<1>3. ASSUME NEW w \in Writers, NEW k \in Keys, NEW v \in Versions \cup {Absent},
             Call(w, k, v)
      PROVE  UNCHANGED <<objects, query, history>>
  BY <1>3 DEF Call, store, readerVars
<1>4. ASSUME NEW w \in Writers, Clean(w)
      PROVE  UNCHANGED <<objects, query, history>>
  BY <1>4 DEF Clean, store, readerVars
<1>5. ASSUME NEW w \in Writers, WriterStep(w)
      PROVE  HistoryInv'
  <2>1. CASE Apply(w)
    <3>1. objects' \in Contents
      BY <2>1 DEF Apply, CallInv, Calls, Contents, TypeOK
    <3>. QED
      BY <1>1, <2>1, <3>1 DEF Apply
  <2>2. ASSUME NEW s \in Spaces, CleanSpace(w, s)
        PROVE  HistoryInv'
    <3>1. objects' \in Contents
      BY <2>2 DEF CleanSpace, Contents, TypeOK
    <3>. QED
      BY <1>1, <2>2, <3>1 DEF CleanSpace
  <2>3. CASE WantRoot(w) \/ InitCluster(w) \/ WantCluster(w) \/ InitNamespace(w) \/ Len(w)
             \/ SetGauge(w) \/ CleanFails(w) \/ CleanValues(w) \/ CleanReturns(w)
    BY <1>2, <2>3 DEF WantRoot, InitCluster, WantCluster, InitNamespace, Len, SetGauge,
                      CleanFails, CleanValues, CleanReturns, store, readerVars
  <2>. QED
    BY <1>5, <2>1, <2>2, <2>3 DEF WriterStep
<1>6. ASSUME NEW r \in Readers, NEW q \in Queries, NEW pc \in {"query", "getCluster"},
             Begin(r, q, pc)
      PROVE  HistoryInv'
  <2>1. /\ must' = [must EXCEPT ![r] = Cache!Hits(q, objects)]
        /\ may' = [may EXCEPT ![r] = Cache!Seen(q, objects)]
        /\ query' = [query EXCEPT ![r] = q]
        /\ objects' = objects
    BY <1>6 DEF Begin, store
  <2>2. ASSUME NEW k \in Keys
        PROVE  /\ k \in Cache!Hits(q, objects) => objects[k] \in Selection[q][k]
               /\ objects[k] \in Selection[q][k] => objects[k] \in Cache!Seen(q, objects)[k]
    BY DEF Cache!Hits, Cache!Seen
  <2>. QED
    BY <2>1, <2>2 DEF TypeOK
<1>7. ASSUME NEW r \in Readers, ReaderStep(r)
      PROVE  HistoryInv'
  <2>1. CASE Return(r)
    BY <2>1 DEF Return, TypeOK, store
  <2>2. CASE ReaderStep(r) /\ ~Return(r)
    BY <1>2, <2>2 DEF ReaderStep, OpenRoot, EnterCluster, Visit, LeaveCluster, CloseRoot,
                      GetCluster, GetSpace, GetObject, store
  <2>. QED
    BY <1>7, <2>1, <2>2
<1>. QED
  BY <1>2, <1>3, <1>4, <1>5, <1>6, <1>7
  DEF Next, OnResourceAdded, OnResourceDeleted, Query, Get, vars, store, readerVars

LEMMA ResultStep ==
    ASSUME TypeOK, CallInv, MapInv, AskInv, HistoryInv, ResultInv, [Next]_vars
    PROVE  ResultInv'
<1>. USE DEF ResultInv, Ahead
<1>1. ASSUME NEW c \in Contents, Observe(c), UNCHANGED readerVars
      PROVE  ResultInv'
  BY <1>1, ObserveFacts DEF readerVars
<1>2. CASE UNCHANGED <<readerVars, history>>
  BY <1>2 DEF readerVars, history
<1>3. ASSUME NEW w \in Writers, NEW k \in Keys, NEW v \in Versions \cup {Absent},
             Call(w, k, v)
      PROVE  UNCHANGED <<readerVars, history>>
  BY <1>3 DEF Call
<1>4. ASSUME NEW w \in Writers, Clean(w)
      PROVE  UNCHANGED <<readerVars, history>>
  BY <1>4 DEF Clean
<1>5. ASSUME NEW w \in Writers, WriterStep(w)
      PROVE  ResultInv'
  <2>1. CASE Apply(w)
    <3>1. objects' \in Contents
      BY <2>1 DEF Apply, CallInv, Calls, Contents, TypeOK
    <3>. QED
      BY <1>1, <2>1, <3>1 DEF Apply
  <2>2. ASSUME NEW s \in Spaces, CleanSpace(w, s)
        PROVE  ResultInv'
    <3>1. objects' \in Contents
      BY <2>2 DEF CleanSpace, Contents, TypeOK
    <3>. QED
      BY <1>1, <2>2, <3>1 DEF CleanSpace
  <2>3. CASE WantRoot(w) \/ InitCluster(w) \/ WantCluster(w) \/ InitNamespace(w) \/ Len(w)
             \/ SetGauge(w) \/ CleanFails(w) \/ CleanValues(w) \/ CleanReturns(w)
    BY <1>2, <2>3 DEF WantRoot, InitCluster, WantCluster, InitNamespace, Len, SetGauge,
                      CleanFails, CleanValues, CleanReturns
  <2>. QED
    BY <1>5, <2>1, <2>2, <2>3 DEF WriterStep
<1>6. ASSUME NEW r \in Readers, NEW q \in Queries, NEW pc \in {"query", "getCluster"},
             Begin(r, q, pc)
      PROVE  ResultInv'
  <2>1. \A k \in Keys : result[r][k] = Absent
    BY <1>6 DEF Begin, AskInv, Nothing
  <2>. QED
    BY <1>6, <2>1 DEF Begin, TypeOK
\* An object that must be in the answer is stored, so its maps exist.
<1>7. ASSUME NEW r \in Readers, NEW k \in must[r], query[r] # None
      PROVE  /\ k \in Keys
             /\ query[r] \in Queries
             /\ objects[k] \in Selection[query[r]][k]
             /\ objects[k] # Absent
             /\ Reached(SpaceOf[k])
  <2>1. k \in Keys /\ query[r] \in Queries
    BY <1>7 DEF TypeOK
  <2>2. objects[k] \in Selection[query[r]][k]
    BY <1>7, <2>1 DEF HistoryInv
  <2>. QED
    BY <2>1, <2>2, SelectionType DEF MapInv
<1>8. ASSUME NEW r \in Readers, ReaderStep(r)
      PROVE  ResultInv'
  <2>. USE DEF TypeOK
  <2>1. CASE OpenRoot(r)
    <3>1. query[r] # None
      BY <2>1 DEF OpenRoot, AskInv
    <3>. QED
      BY <1>7, <2>1, <3>1 DEF OpenRoot, history, Reached
  <2>2. ASSUME NEW c \in Clusters, EnterCluster(r, c)
        PROVE  ResultInv'
    <3>1. query[r] # None
      BY <2>2 DEF EnterCluster, AskInv
    <3>. QED
      BY <1>7, <2>2, <3>1 DEF EnterCluster, history, Reached
  <2>3. ASSUME NEW s \in Spaces, Visit(r, s)
        PROVE  ResultInv'
    <3>1. query[r] # None
      BY <2>3 DEF Visit, AskInv
    <3>2. ASSUME NEW k \in Keys
          PROVE  /\ SpaceOf[k] = s /\ k \in must[r] => result'[r][k] # Absent
                 /\ SpaceOf[k] # s => result'[r][k] = result[r][k]
                 /\ result[r][k] # Absent => result'[r][k] # Absent
                 /\ result'[r][k] # Absent => result'[r][k] \in may[r][k]
      <4>1. query[r] \in Queries
        BY <3>1
      <4>2. Absent \notin Selection[query[r]][k]
        BY <4>1, SelectionType
      <4>3. result'[r][k] = IF SpaceOf[k] = s /\ objects[k] \in Selection[query[r]][k]
                            THEN objects[k] ELSE result[r][k]
        BY <2>3 DEF Visit
      <4>4. objects[k] \in Selection[query[r]][k] => objects[k] \in may[r][k]
        BY <3>1 DEF HistoryInv
      <4>. QED
        BY <1>7, <3>1, <4>2, <4>3, <4>4
    <3>. QED
      BY <2>3, <3>2 DEF Visit, history
  <2>4. CASE LeaveCluster(r)
    BY <2>4 DEF LeaveCluster, history
  <2>5. CASE CloseRoot(r)
    BY <2>5 DEF CloseRoot, history
  <2>6. CASE GetCluster(r)
    <3>1. query[r] # None /\ query[r] \in Lookups
      BY <2>6, ActorAssumption, ValueAssumption DEF GetCluster, AskInv
    <3>2. \A k \in must[r] : k = LookupKey[query[r]]
      BY <1>7, <3>1, LookupSelection
    <3>. QED
      BY <1>7, <2>6, <3>1, <3>2 DEF GetCluster, history, Reached
  <2>7. CASE GetSpace(r)
    <3>1. query[r] # None /\ query[r] \in Lookups
      BY <2>7, ActorAssumption, ValueAssumption DEF GetSpace, AskInv
    <3>2. \A k \in must[r] : k = LookupKey[query[r]]
      BY <1>7, <3>1, LookupSelection
    <3>. QED
      BY <1>7, <2>7, <3>1, <3>2 DEF GetSpace, history, Reached
  <2>8. CASE GetObject(r)
    <3>1. query[r] # None /\ query[r] \in Lookups
      BY <2>8, ActorAssumption, ValueAssumption DEF GetObject, AskInv
    <3>2. \A k \in must[r] : k = LookupKey[query[r]]
      BY <1>7, <3>1, LookupSelection
    <3>3. LET k == LookupKey[query[r]] IN
          /\ k \in Keys
          /\ objects[k] # Absent => objects[k] \in may[r][k]
      <4>. DEFINE k == LookupKey[query[r]]
      <4>1. k \in Keys
        BY <3>1, ActorAssumption
      <4>2. Selection[query[r]][k] = Versions
        BY <3>1, <4>1, LookupSelection
      <4>3. objects[k] \in Versions \cup {Absent}
        BY <4>1 DEF Contents
      <4>. QED
        BY <3>1, <4>1, <4>2, <4>3 DEF HistoryInv
    <3>4. ASSUME NEW k \in Keys
          PROVE  /\ result'[r][k] # Absent => result'[r][k] \in may[r][k]
                 /\ k \in must[r] => result'[r][k] # Absent
      <4>1. result'[r][k] = IF k = LookupKey[query[r]] THEN objects[k] ELSE Nothing[k]
        BY <2>8, <3>3 DEF GetObject, AskInv, Contents
      <4>2. Nothing[k] = Absent
        BY DEF Nothing
      <4>. QED
        BY <1>7, <3>1, <3>2, <3>3, <4>1, <4>2
    <3>. QED
      BY <2>8, <3>4 DEF GetObject, history
  <2>9. CASE Return(r)
    <3>1. /\ \A k \in Keys : result'[r][k] = Absent
          /\ rpc'[r] = "idle"
      BY <2>9 DEF Return, Nothing
    <3>2. ASSUME NEW x \in Readers, x # r
          PROVE  /\ rpc'[x] = rpc[x] /\ result'[x] = result[x]
                 /\ must'[x] = must[x] /\ may'[x] = may[x]
      BY <2>9, <3>2 DEF Return
    <3>3. UNCHANGED <<todoC, at, todoS>>
      BY <2>9 DEF Return
    <3>4. ASSUME NEW x \in Readers, NEW k \in Keys
          PROVE  /\ result'[x][k] # Absent => result'[x][k] \in may'[x][k]
                 /\ rpc'[x] \in {"clusters", "spaces"} /\ k \in must'[x]
                    => result'[x][k] # Absent \/ Ahead(x, k)'
                 /\ rpc'[x] = "done" /\ k \in must'[x] => result'[x][k] # Absent
      <4>1. CASE x = r
        BY <3>1, <4>1
      <4>2. CASE x # r
        BY <3>2, <3>3, <4>2
      <4>. QED
        BY <4>1, <4>2
    <3>. QED
      BY <3>4
  <2>. QED
    BY <1>8, <2>1, <2>2, <2>3, <2>4, <2>5, <2>6, <2>7, <2>8, <2>9 DEF ReaderStep
<1>. QED
  BY <1>2, <1>3, <1>4, <1>5, <1>6, <1>8
  DEF Next, OnResourceAdded, OnResourceDeleted, Query, Get, vars

-----------------------------------------------------------------------------
(* The theorems. *)

LEMMA InitIInv == Init => IInv
<1>. SUFFICES ASSUME Init
              PROVE  IInv
  OBVIOUS
<1>. USE DEF Init
<1>1. TypeOK
  BY ActorAssumption DEF TypeOK, Nothing, Contents
<1>2. CallInv /\ MapInv /\ AskInv /\ HistoryInv /\ ResultInv
  BY DEF CallInv, MapInv, AskInv, HistoryInv, ResultInv, Nothing
<1>. QED
  BY <1>1, <1>2 DEF IInv

LEMMA NextIInv == IInv /\ [Next]_vars => IInv'
  BY TypeStep, CallStep, MapStep, AskStep, HistoryStep, ResultStep DEF IInv

\* The strengthening behind the theorems that follow.
THEOREM Inductive == Spec => []IInv
  BY InitIInv, NextIInv, PTL DEF Spec

\* The specification is well typed.
THEOREM Typing == Spec => []TypeOK
<1>1. IInv => TypeOK
  BY DEF IInv
<1>. QED
  BY <1>1, Inductive, PTL

\* OnResourceAdded, OnResourceModified and OnResourceDeleted always find the map
\* of the namespace that they write to and count, and no stored object is ever
\* cut off from the map of its type, whatever Clean and the other watch
\* goroutines do in between (memory.go:126-170).
THEOREM NoNilMapTheorem == Spec => []NoNilMap
<1>1. IInv => NoNilMap
  BY DEF IInv, CallInv, MapInv, NoNilMap, Reached
<1>. QED
  BY <1>1, Inductive, PTL

\* Query and Get answer with every object asked for that was stored during the
\* whole read, and with nothing that was not stored at some moment of it, for any
\* number of watch goroutines that change the store meanwhile
\* (memory.go:274-307).
THEOREM RegularReadsTheorem == Spec => []RegularReads
<1>1. IInv => RegularReads
  BY DEF IInv, ResultInv, RegularReads, Cache!Regular
<1>. QED
  BY <1>1, Inductive, PTL

-----------------------------------------------------------------------------
(* The store implements the regular cache. *)

\* The answers that the readers are about to return.
Reply == [r \in Readers |-> IF rpc[r] = "done" THEN result[r] ELSE None]

\* An answer with a must or may entry of its own is not None.
LEMMA ReplyFacts ==
    ASSUME TypeOK, NEW r \in Readers
    PROVE  rpc[r] = "done" <=> Reply[r] # None
  BY ValueAssumption DEF Reply, TypeOK

\* A step that leaves the objects, the questions and the answers alone.
LEMMA Stutter ==
    ASSUME UNCHANGED <<objects, query, history>>, Reply' = Reply
    PROVE  UNCHANGED Cache!vars
  BY DEF Cache!vars, Reply, history

\* A change of the objects under the eyes of the readers.
LEMMA BecomeStep ==
    ASSUME NEW c, objects' = c, Observe(c), UNCHANGED readerVars
    PROVE  Cache!Become(c)
<1>1. UNCHANGED <<query, rpc, result>>
  BY DEF readerVars
<1>. QED
  BY <1>1 DEF Cache!Become, Observe

LEMMA WriterRefines ==
    ASSUME IInv, NEW w \in Writers, WriterStep(w)
    PROVE  [Cache!Next]_(Cache!vars)
<1>1. CASE Apply(w)
  <2>1. Cache!Become([objects EXCEPT ![call[w].key] = call[w].version])
    BY <1>1, BecomeStep DEF Apply
  <2>2. call[w].key \in Keys /\ call[w].version \in Versions \cup {Absent}
    BY <1>1 DEF Apply, IInv, CallInv, Calls
  <2>3. CASE call[w].version = Absent
    <3>1. Cache!Remove(call[w].key)
      BY <2>1, <2>3 DEF Cache!Remove
    <3>. QED
      BY <2>2, <3>1 DEF Cache!Next
  <2>4. CASE call[w].version \in Versions
    <3>1. Cache!Put(call[w].key, call[w].version)
      BY <2>1 DEF Cache!Put
    <3>. QED
      BY <2>2, <2>4, <3>1 DEF Cache!Next
  <2>. QED
    BY <2>2, <2>3, <2>4
<1>2. ASSUME NEW s \in Spaces, CleanSpace(w, s)
      PROVE  [Cache!Next]_(Cache!vars)
  <2>1. Cache!Become([k \in Keys |-> IF SpaceOf[k] = s THEN Absent ELSE objects[k]])
    BY <1>2, BecomeStep DEF CleanSpace
  <2>2. Cache!Wipe(s)
    BY <2>1 DEF Cache!Wipe
  <2>. QED
    BY <2>2 DEF Cache!Next
<1>3. CASE WantRoot(w) \/ InitCluster(w) \/ WantCluster(w) \/ InitNamespace(w) \/ Len(w)
           \/ SetGauge(w) \/ CleanFails(w) \/ CleanValues(w) \/ CleanReturns(w)
  <2>1. UNCHANGED <<objects, readerVars, history>>
    BY <1>3 DEF WantRoot, InitCluster, WantCluster, InitNamespace, Len, SetGauge,
                CleanFails, CleanValues, CleanReturns, store
  <2>. QED
    BY <2>1, Stutter DEF readerVars, Reply
<1>. QED
  BY <1>1, <1>2, <1>3 DEF WriterStep

LEMMA BeginRefines ==
    ASSUME IInv, NEW r \in Readers, NEW q \in Queries,
           NEW pc \in {"query", "getCluster"}, Begin(r, q, pc)
    PROVE  Cache!Ask(r, q)
<1>1. query[r] = None
  BY DEF Begin, IInv, AskInv
<1>2. Reply' = Reply
  BY DEF Begin, Reply, IInv, TypeOK
<1>. QED
  BY <1>1, <1>2 DEF Begin, Cache!Ask, Reply, store

\* The step that ends a read gives an answer that ResourceCache allows.
LEMMA AnswerRefines ==
    ASSUME IInv, IInv', NEW r \in Readers, rpc[r] \notin {"idle", "done"},
           rpc' = [rpc EXCEPT ![r] = "done"],
           \A x \in Readers : x # r => result'[x] = result[x],
           UNCHANGED <<objects, query, history>>
    PROVE  Cache!Answer(r)
<1>. DEFINE a == result'[r]
<1>1. query[r] # None
  BY DEF IInv, AskInv
<1>2. rpc'[r] = "done"
  BY DEF IInv, TypeOK
<1>3. a \in Contents
  BY DEF IInv, TypeOK
<1>4. Cache!Regular(r, a)
  <2>1. \A k \in Keys : /\ k \in must'[r] => result'[r][k] # Absent
                        /\ result'[r][k] # Absent => result'[r][k] \in may'[r][k]
    BY <1>2 DEF IInv, ResultInv
  <2>2. must' = must /\ may' = may
    BY DEF history
  <2>. QED
    BY <2>1, <2>2 DEF Cache!Regular
<1>5. Reply[r] = None
  BY DEF Reply
<1>6. Reply' = [Reply EXCEPT ![r] = a]
  BY <1>2 DEF Reply, IInv, TypeOK
<1>. QED
  BY <1>1, <1>3, <1>4, <1>5, <1>6
  DEF Cache!Answer, Cache!Answers, Contents, Reply, history

LEMMA ReaderRefines ==
    ASSUME IInv, IInv', NEW r \in Readers, ReaderStep(r)
    PROVE  [Cache!Next]_(Cache!vars)
<1>1. Cache!Answer(r) => Cache!Next
  BY DEF Cache!Next
<1>2. CASE OpenRoot(r) \/ (\E c \in Clusters : EnterCluster(r, c)) \/ LeaveCluster(r)
  <2>1. UNCHANGED <<objects, query, history>> /\ Reply' = Reply
    BY <1>2 DEF OpenRoot, EnterCluster, LeaveCluster, Reply, store, IInv, TypeOK
  <2>. QED
    BY <2>1, Stutter
<1>3. ASSUME NEW s \in Spaces, Visit(r, s)
      PROVE  [Cache!Next]_(Cache!vars)
  <2>1. UNCHANGED <<objects, query, history>> /\ Reply' = Reply
    BY <1>3 DEF Visit, Reply, store, IInv, TypeOK
  <2>. QED
    BY <2>1, Stutter
<1>4. CASE CloseRoot(r)
  BY <1>1, <1>4, AnswerRefines DEF CloseRoot, store
<1>5. CASE GetCluster(r) \/ GetSpace(r)
  <2>1. UNCHANGED <<objects, query, result, history>>
    BY <1>5 DEF GetCluster, GetSpace, store
  <2>2. rpc[r] \in {"getCluster", "getSpace"}
    BY <1>5 DEF GetCluster, GetSpace
  <2>3. \/ rpc' = [rpc EXCEPT ![r] = "done"]
        \/ rpc' = [rpc EXCEPT ![r] = "getSpace"]
        \/ rpc' = [rpc EXCEPT ![r] = "getObject"]
    BY <1>5 DEF GetCluster, GetSpace
  <2>4. CASE rpc' = [rpc EXCEPT ![r] = "done"]
    BY <1>1, <2>1, <2>2, <2>4, AnswerRefines
  <2>5. CASE \/ rpc' = [rpc EXCEPT ![r] = "getSpace"]
             \/ rpc' = [rpc EXCEPT ![r] = "getObject"]
    <3>1. Reply' = Reply
      BY <2>1, <2>2, <2>5 DEF Reply, IInv, TypeOK
    <3>. QED
      BY <2>1, <3>1, Stutter
  <2>. QED
    BY <2>3, <2>4, <2>5
<1>6. CASE GetObject(r)
  <2>1. /\ rpc[r] = "getObject"
        /\ rpc' = [rpc EXCEPT ![r] = "done"]
        /\ UNCHANGED <<objects, query, history>>
        /\ \A x \in Readers : x # r => result'[x] = result[x]
    BY <1>6 DEF GetObject, store, IInv, TypeOK
  <2>. QED
    BY <1>1, <2>1, AnswerRefines
<1>7. CASE Return(r)
  <2>1. Reply[r] # None
    BY <1>7, ReplyFacts DEF Return, IInv
  <2>2. Reply' = [Reply EXCEPT ![r] = None]
    BY <1>7 DEF Return, Reply, IInv, TypeOK
  <2>3. Cache!Leave(r)
    BY <1>7, <2>1, <2>2 DEF Return, Cache!Leave, Reply, store
  <2>. QED
    BY <2>3 DEF Cache!Next
<1>. QED
  BY <1>2, <1>3, <1>4, <1>5, <1>6, <1>7 DEF ReaderStep

LEMMA RefineInit == Init => Cache!Init
<1>. SUFFICES ASSUME Init
              PROVE  Cache!Init
  OBVIOUS
<1>1. Reply = [r \in Readers |-> None]
  BY DEF Init, Reply
<1>. QED
  BY <1>1 DEF Init, Nothing, Cache!Init, Reply

LEMMA RefineNext == IInv /\ IInv' /\ [Next]_vars => [Cache!Next]_(Cache!vars)
<1>. SUFFICES ASSUME IInv, IInv', [Next]_vars
              PROVE  [Cache!Next]_(Cache!vars)
  OBVIOUS
<1>1. CASE UNCHANGED <<objects, readerVars, history>>
  BY <1>1, Stutter DEF readerVars, Reply
<1>2. ASSUME NEW w \in Writers,
             \/ \E k \in Keys : \E v \in Versions \cup {Absent} : Call(w, k, v)
             \/ Clean(w)
      PROVE  UNCHANGED <<objects, readerVars, history>>
  BY <1>2 DEF Call, Clean, store
<1>3. ASSUME NEW r \in Readers, NEW q \in Queries, Query(r, q) \/ Get(r, q)
      PROVE  Cache!Next
  <2>1. Cache!Ask(r, q)
    BY <1>3, BeginRefines DEF Query, Get
  <2>. QED
    BY <2>1 DEF Cache!Next
<1>. QED
  BY <1>1, <1>2, <1>3, WriterRefines, ReaderRefines
  DEF Next, OnResourceAdded, OnResourceDeleted, vars, store

\* The store, with its three levels of maps that are locked one by one and its
\* iteration in steps, implements a cache whose contents change at once and
\* whose reads are regular (memory.go:126-170 and 274-307).
THEOREM ImplementsCacheTheorem == Spec => ImplementsCache
<1>1. Spec => Cache!Init /\ [][Cache!Next]_(Cache!vars)
  BY Inductive, RefineInit, RefineNext, PTL DEF Spec
<1>. QED
  BY <1>1 DEF ImplementsCache, Cache!Spec

-----------------------------------------------------------------------------
(* The gauges. *)

\* A goroutine meets only the namespaces of the cluster that it watches.
PlaceInv ==
    /\ \A c \in Clusters : \A s \in nsMap[c] : ClusterOf[s] = c
    /\ \A w \in Writers : \A s \in todo[w] : ClusterOf[s] = WritesTo[w]

\* Between Set or Delete and the gauge, only the one goroutine that watches the
\* cluster can make the number it is about to set a wrong one.
CountInv ==
    \A w \in Writers : \A s \in Spaces : Watching(s) = {w} =>
        /\ wpc[w] = "gauge" /\ CallSpace(w) = s => length[w] = Cardinality(Stored(s))
        /\ \/ wpc[w] \in {"len", "gauge"} /\ CallSpace(w) = s
           \/ Stored(s) = {}
           \/ gauge[s] = Cardinality(Stored(s))

\* A step of the goroutine w.
StepOf(w) ==
    \/ \E k \in Keys : \E v \in Versions \cup {Absent} : Call(w, k, v)
    \/ Clean(w)
    \/ WriterStep(w)

LEMMA PlaceStep ==
    ASSUME TypeOK, CallInv, PlaceInv, [Next]_vars
    PROVE  PlaceInv'
<1>. USE DEF PlaceInv, TypeOK
<1>1. ASSUME NEW w \in Writers, StepOf(w) PROVE PlaceInv'
  <2>1. CASE InitNamespace(w)
    <3>1. ClusterOf[CallSpace(w)] = WritesTo[w] /\ WritesTo[w] \in Clusters
      BY <2>1, ActorAssumption DEF InitNamespace, CallInv
    <3>. QED
      BY <2>1, <3>1 DEF InitNamespace
  <2>2. CASE CleanValues(w)
    BY <2>2, ActorAssumption DEF CleanValues, store
  <2>3. ASSUME NEW s \in Spaces, CleanSpace(w, s) PROVE PlaceInv'
    BY <2>3 DEF CleanSpace
  <2>4. CASE UNCHANGED <<nsMap, todo>>
    BY <2>4
  <2>. QED
    BY <1>1, <2>1, <2>2, <2>3, <2>4
    DEF StepOf, Call, Clean, WriterStep, WantRoot, InitCluster, WantCluster, Apply, Len,
        SetGauge, CleanFails, CleanReturns, store
<1>2. ASSUME NEW r \in Readers, \/ \E q \in Queries : Query(r, q) \/ Get(r, q)
                                \/ ReaderStep(r)
      PROVE  UNCHANGED <<store, writerVars>>
  BY <1>2 DEF Query, Get, Begin, ReaderStep, OpenRoot, EnterCluster, Visit, LeaveCluster,
              CloseRoot, GetCluster, GetSpace, GetObject, Return
<1>3. CASE UNCHANGED <<store, writerVars>>
  BY <1>3 DEF store, writerVars
<1>. QED
  BY <1>1, <1>2, <1>3 DEF Next, vars, StepOf, OnResourceAdded, OnResourceDeleted

\* What a goroutine does leaves the namespaces of the other clusters, and the
\* calls of the other goroutines, as they are.
LEMMA Elsewhere ==
    ASSUME TypeOK, CallInv, PlaceInv, NEW u \in Writers, StepOf(u)
    PROVE  /\ \A w \in Writers \ {u} :
                  wpc'[w] = wpc[w] /\ call'[w] = call[w] /\ length'[w] = length[w]
           /\ \A s \in Spaces : ClusterOf[s] # WritesTo[u] =>
                  Stored(s)' = Stored(s) /\ gauge'[s] = gauge[s]
<1>. USE DEF TypeOK
<1>1. \A w \in Writers \ {u} :
          wpc'[w] = wpc[w] /\ call'[w] = call[w] /\ length'[w] = length[w]
  BY DEF StepOf, Call, Clean, WriterStep, WantRoot, InitCluster, WantCluster,
         InitNamespace, Apply, Len, SetGauge, CleanFails, CleanValues, CleanSpace,
         CleanReturns
<1>2. ASSUME NEW s \in Spaces, ClusterOf[s] # WritesTo[u]
      PROVE  Stored(s)' = Stored(s) /\ gauge'[s] = gauge[s]
  <2>1. CASE Apply(u)
    <3>1. ClusterOf[SpaceOf[call[u].key]] = WritesTo[u] /\ call[u].key \in Keys
      BY <2>1 DEF Apply, CallInv, CallSpace, Calls
    <3>. QED
      BY <1>2, <2>1, <3>1 DEF Apply, Stored, Contents
  <2>2. ASSUME NEW z \in Spaces, CleanSpace(u, z)
        PROVE  Stored(s)' = Stored(s) /\ gauge'[s] = gauge[s]
    <3>1. z # s
      BY <1>2, <2>2 DEF CleanSpace, PlaceInv
    <3>. QED
      BY <2>2, <3>1 DEF CleanSpace, Stored
  <2>3. CASE SetGauge(u)
    <3>1. ClusterOf[CallSpace(u)] = WritesTo[u]
      BY <2>3 DEF SetGauge, CallInv
    <3>. QED
      BY <1>2, <2>3, <3>1 DEF SetGauge, Stored
  <2>4. CASE UNCHANGED <<objects, gauge>>
    BY <2>4 DEF Stored
  <2>. QED
    BY <2>1, <2>2, <2>3, <2>4
    DEF StepOf, Call, Clean, WriterStep, WantRoot, InitCluster, WantCluster, InitNamespace,
        Len, CleanFails, CleanValues, CleanReturns, store
<1>. QED
  BY <1>1, <1>2

LEMMA CountStep ==
    ASSUME TypeOK, CallInv, PlaceInv, CountInv, [Next]_vars
    PROVE  CountInv'
<1>. USE DEF TypeOK
<1>1. ASSUME NEW u \in Writers, StepOf(u) PROVE CountInv'
  <2>. SUFFICES ASSUME NEW w \in Writers, NEW s \in Spaces, Watching(s) = {w}
                PROVE  /\ wpc'[w] = "gauge" /\ CallSpace(w)' = s
                          => length'[w] = Cardinality(Stored(s)')
                       /\ \/ wpc'[w] \in {"len", "gauge"} /\ CallSpace(w)' = s
                          \/ Stored(s)' = {}
                          \/ gauge'[s] = Cardinality(Stored(s)')
    BY DEF CountInv, Watching
  <2>0. /\ wpc[w] = "gauge" /\ CallSpace(w) = s => length[w] = Cardinality(Stored(s))
        /\ \/ wpc[w] \in {"len", "gauge"} /\ CallSpace(w) = s
           \/ Stored(s) = {}
           \/ gauge[s] = Cardinality(Stored(s))
    BY DEF CountInv
  <2>1. CASE u # w
    <3>1. ClusterOf[s] # WritesTo[u]
      BY <2>1 DEF Watching
    <3>. QED
      BY <1>1, <2>0, <2>1, <3>1, Elsewhere DEF CallSpace
  <2>2. CASE u = w
    <3>1. CASE Apply(w)
      <4>1. wpc'[w] = "len" /\ CallSpace(w)' = CallSpace(w) /\ UNCHANGED gauge
        BY <3>1 DEF Apply, CallSpace
      <4>2. CASE CallSpace(w) = s
        BY <4>1, <4>2
      <4>3. CASE CallSpace(w) # s
        <5>1. Stored(s)' = Stored(s)
          BY <3>1, <4>3 DEF Apply, Stored, CallSpace, Contents
        <5>. QED
          BY <2>0, <3>1, <4>1, <4>3, <5>1 DEF Apply
      <4>. QED
        BY <4>2, <4>3
    <3>2. CASE Len(w)
      BY <2>0, <3>2 DEF Len, Stored, CallSpace, store
    <3>3. CASE SetGauge(w)
      <4>1. wpc'[w] = "idle" /\ Stored(s)' = Stored(s)
        BY <3>3 DEF SetGauge, Stored
      <4>2. CASE CallSpace(w) = s
        BY <2>0, <3>3, <4>1, <4>2 DEF SetGauge
      <4>3. CASE CallSpace(w) # s
        BY <2>0, <3>3, <4>1, <4>3 DEF SetGauge
      <4>. QED
        BY <4>2, <4>3
    <3>4. ASSUME NEW z \in Spaces, CleanSpace(w, z)
          PROVE  /\ wpc'[w] = "cleaning" /\ gauge'[s] = gauge[s]
                 /\ Stored(s)' = {} \/ Stored(s)' = Stored(s)
      BY <3>4 DEF CleanSpace, Stored
    <3>5. CASE UNCHANGED <<objects, gauge>> /\ wpc'[w] \notin {"len", "gauge"}
                                            /\ wpc[w] \notin {"len", "gauge"}
      BY <2>0, <3>5 DEF Stored
    <3>6. \/ Apply(w) \/ Len(w) \/ SetGauge(w) \/ \E z \in Spaces : CleanSpace(w, z)
          \/ UNCHANGED <<objects, gauge>> /\ wpc'[w] \notin {"len", "gauge"}
                                          /\ wpc[w] \notin {"len", "gauge"}
      BY <1>1, <2>2
      DEF StepOf, Call, Clean, WriterStep, WantRoot, InitCluster, WantCluster,
          InitNamespace, CleanFails, CleanValues, CleanReturns, store
    <3>7. CASE \E z \in Spaces : CleanSpace(w, z)
      <4>1. wpc[w] = "cleaning"
        BY <3>7 DEF CleanSpace
      <4>. QED
        BY <2>0, <3>4, <3>7, <4>1
    <3>. QED
      BY <3>1, <3>2, <3>3, <3>5, <3>6, <3>7
  <2>. QED
    BY <2>1, <2>2
<1>2. ASSUME NEW r \in Readers, \/ \E q \in Queries : Query(r, q) \/ Get(r, q)
                                \/ ReaderStep(r)
      PROVE  UNCHANGED <<store, writerVars>>
  BY <1>2 DEF Query, Get, Begin, ReaderStep, OpenRoot, EnterCluster, Visit, LeaveCluster,
              CloseRoot, GetCluster, GetSpace, GetObject, Return
<1>3. CASE UNCHANGED <<store, writerVars>>
  <2>1. UNCHANGED <<objects, gauge, wpc, call, length>>
    BY <1>3 DEF store, writerVars
  <2>2. \A z \in Spaces : Stored(z)' = Stored(z)
    BY <2>1 DEF Stored
  <2>3. \A w \in Writers : CallSpace(w)' = CallSpace(w)
    BY <2>1 DEF CallSpace
  <2>4. \A z \in Spaces : Watching(z) \subseteq Writers /\ Watching(z)' = Watching(z)
    BY DEF Watching
  <2>. QED
    BY <2>1, <2>2, <2>3, <2>4 DEF CountInv
<1>. QED
  BY <1>1, <1>2, <1>3 DEF Next, vars, StepOf, OnResourceAdded, OnResourceDeleted

LEMMA GaugeInductive == Spec => [](PlaceInv /\ CountInv)
<1>1. Init => PlaceInv /\ CountInv
  BY ActorAssumption DEF Init, PlaceInv, CountInv, Stored, Nothing
<1>2. IInv /\ PlaceInv /\ CountInv /\ [Next]_vars => PlaceInv' /\ CountInv'
  BY PlaceStep, CountStep DEF IInv
<1>. QED
  BY <1>1, <1>2, Inductive, PTL DEF Spec

\* The gauge of a namespace that holds objects is their number whenever the only
\* goroutine that watches its cluster is between two calls, although Set, Len and
\* the gauge are three steps without a common lock (memory.go:148-150).
THEOREM GaugeTheorem == Spec => []GaugeExactUnlessEmpty
<1>1. CountInv => GaugeExactUnlessEmpty
  <2>. SUFFICES ASSUME CountInv, NEW s \in Spaces, Cardinality(Watching(s)) = 1,
                       \A w \in Watching(s) : wpc[w] = "idle", Stored(s) # {}
                PROVE  gauge[s] = Cardinality(Stored(s))
    BY DEF GaugeExactUnlessEmpty
  <2>1. IsFiniteSet(Watching(s))
    BY ActorAssumption, FS_Subset DEF Watching
  <2>2. PICK w : Watching(s) = {w}
    BY <2>1, FS_Singleton
  <2>3. w \in Writers /\ wpc[w] = "idle"
    BY <2>2 DEF Watching
  <2>. QED
    BY <2>2, <2>3 DEF CountInv
<1>. QED
  BY <1>1, GaugeInductive, PTL

-----------------------------------------------------------------------------
(* Nobody waits in a circle. *)

\* The guards of WriterStep and ReaderStep.
CanWrite(w) ==
    \/ wpc[w] = "cluster" /\ RootOpen
    \/ wpc[w] = "wantRoot" /\ RootReaders = {}
    \/ wpc[w] \in {"space", "apply", "len"} /\ ClusterOpen(WritesTo[w])
    \/ wpc[w] = "wantCluster" /\ ClusterReaders(WritesTo[w]) = {}
    \/ wpc[w] = "clean" /\ (ClusterOpen(WritesTo[w]) \/ (RootOpen /\ WritesTo[w] \notin clusterMap))
    \/ wpc[w] \in {"gauge", "cleaning"}
CanRead(r) ==
    \/ rpc[r] \in {"query", "getCluster"} /\ RootOpen
    \/ rpc[r] = "clusters" /\ (todoC[r] = {} \/ \E c \in todoC[r] : ClusterWaiters(c) = {})
    \/ rpc[r] \in {"getSpace", "getObject"} /\ ClusterOpen(ClusterOf[SpaceOf[LookupKey[query[r]]]])
    \/ rpc[r] \in {"spaces", "done"}

GoesOn ==
    (\E w \in Writers : wpc[w] # "idle") \/ (\E r \in Readers : rpc[r] # "idle") =>
        (\E w \in Writers : CanWrite(w)) \/ (\E r \in Readers : CanRead(r))

\* As long as a call or a read of the store has not returned, one of them can go on: a
\* query holds the read lock of the clusters while it waits for that of one cluster, and
\* a writer that waits for either keeps new readers out, but nobody waits in a circle,
\* for any number of goroutines and clusters (memory.go:82-88, 126-129, 291-307).
THEOREM NoCircle == Spec => []GoesOn
<1>1. TypeOK => GoesOn
  <2> SUFFICES ASSUME TypeOK, ~ \E w \in Writers : CanWrite(w), ~ \E r \in Readers : CanRead(r)
               PROVE  (\A w \in Writers : wpc[w] = "idle") /\ (\A r \in Readers : rpc[r] = "idle")
    BY DEF GoesOn
  <2>1. \A r \in Readers : rpc[r] \notin {"spaces", "done"} BY DEF CanRead
  <2>2. \A c \in Clusters : ClusterReaders(c) = {} BY <2>1 DEF ClusterReaders
  <2>3. \A w \in Writers : wpc[w] # "wantCluster" BY <2>2, ActorAssumption DEF CanWrite
  <2>4. \A c \in Clusters : ClusterWaiters(c) = {} BY <2>3 DEF ClusterWaiters
  <2>5. \A r \in Readers : rpc[r] # "clusters"
    <3> SUFFICES ASSUME NEW r \in Readers, rpc[r] = "clusters" PROVE FALSE OBVIOUS
    <3>1. todoC[r] \subseteq Clusters BY DEF TypeOK
    <3> QED BY <2>4, <3>1 DEF CanRead
  <2>6. RootReaders = {} BY <2>1, <2>5 DEF RootReaders
  <2>7. \A w \in Writers : wpc[w] # "wantRoot" BY <2>6 DEF CanWrite
  <2>8. RootOpen BY <2>7 DEF RootOpen, RootWaiters
  <2>9. \A w \in Writers : ClusterOpen(WritesTo[w])
    BY <2>4, <2>8, ActorAssumption DEF ClusterOpen
  <2>10. \A c : ClusterOpen(c) BY <2>3, <2>8 DEF ClusterOpen, ClusterWaiters
  <2>11. \A w \in Writers : wpc[w] = "idle"
    BY <2>3, <2>7, <2>8, <2>9 DEF CanWrite, TypeOK
  <2>12. \A r \in Readers : rpc[r] = "idle"
    BY <2>1, <2>5, <2>8, <2>10 DEF CanRead, TypeOK
  <2> QED BY <2>11, <2>12
<1> QED BY <1>1, Typing, PTL
=============================================================================
