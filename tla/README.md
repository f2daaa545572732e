# A TLA+ model of CKube

CKube is a caching proxy in front of one or more Kubernetes API servers.  It
watches the resource types that its configuration names, keeps them in memory,
and answers list and get requests from there, with search, sorting and
pagination; every other request it passes through.  This directory models the
parts of it that keep state or compute something that is easy to get wrong,
checks them with TLC on small instances, and proves with TLAPS, for all
instances, the safety properties that TLC checks on those.

`src/` below is the repository.  `PROJECT.json` maps each definition that models
code to its lines.

## 1. Inventory

| component | source | state | operations |
|---|---|---|---|
| memory store | `store/memory/memory.go`, `store/interface.go`, `store/model.go` | type -> cluster -> namespace -> name -> object, one RWMutex per level; the gauge `ckube_resources_total` | `OnResourceAdded/Modified/Deleted`, `Clean`, `Get`, `Query`, `IsStoreGVR` |
| cluster watcher | `watcher/watcher.go` | one goroutine for each cluster and type: the stream, whether its first event was seen, `stop` | `Start`, `Stop`, `watchResources` |
| loading and reloading | `cmd/cacheproxy/main.go` | the variable `w`, the reload goroutine | `main`, `loadFromConfig` |
| file watcher | `utils/fs_watcher.go` | the inotify watches, an unbuffered channel of events | `Start`, `Events`, `Close` |
| HTTP server | `server/server.go`, `server/route.go` | the fields `store` and `clusterClients` | `Run`, `ResetStore`, routing with a captured context |
| list requests | `api/proxy.go:169-337` | none of its own | search, labels, sort, page, `remainingItemCount` |
| dispatch and pass-through | `api/proxy.go`, `api/req.go`, `server/route.go` | the `Timeout` of an `http.Client` that requests share | which cluster, cache or API server; relay of an answer or a watch |
| pagination and search options | `page/page.go` | the string `Paginate.Search` | `SearchParts`, `SetSearchWithParts`, `SetSearchSelector`, `Namespaces`, `Clusters`, `GetClusters`, `MakeupResPaginate` |
| label selectors, long values | `kube/label.go` | the values of a label selector | `ParseToLabelSelector`, `SplittingValue`, `MergeValues` |
| global configuration | `common/config.go` | one variable | `InitConfig`, `GetConfig` |
| metrics | `utils/prommonitor/metrics.go` | process-wide gauges and counters | set, reset |
| deployments to services | `api/extend/deploy2service.go` | none | two reads of the store |
| fake CKube server | `pkg/client/fake/fake_ckube.go` | two fields for the store, a channel per watch under a RWMutex | POST, PUT, DELETE, watches, `Clean`; a test double for other programs |
| tools, helpers, examples, packaging | `cmd/ckubecli`, `cmd/ckube-plugin`, `utils`, `kube/kube.go`, `log`, `examples`, `nginx.conf`, ... | none that is shared | |

**How they interact.**  A load makes a store and one watcher per cluster; the
watch goroutines call the store (`Clean` at the first event of a stream, then
one `OnResource...` per event) while HTTP handlers read it.  The file watcher's
goroutine hands its events to the reload goroutine over an unbuffered channel;
that goroutine loads again, stops the previous watchers and swaps the store and
the clients under the running server.  A request is handled by a goroutine that captures the store and
the clients, reads the global configuration several times, and either answers from the
store or passes the request on with the HTTP client of a cluster.  A list request goes
through `kube/label.go` and `page` (search), the store (match, sort, cut), and `api`
(labels, remainder).  The fake server is the same server with a handler in front of it
that writes to the store and tells its watches.

**What is hard, and what makes each part correct.**

* *Memory store*: a query walks two levels of maps under one lock at a time
  while writers change them.  It must not miss what was there all along or
  return what never was; no method may meet a nil map; nobody may wait for ever;
  the gauge, set in a third step after the change, must be the right number.
* *Cluster watcher*: streams end, time out or fail at any point and lose what
  was in flight; the next one starts with a list that is silent about deletions.
  The copy must catch up, must never show what is older than the stream that fills it,
  and a stopped watcher must end.
* *Loading and reloading, file watcher*: files change while they are read; a
  load may fail half way; for two seconds after a removal nothing is watched.  No
  change may be lost, and nothing may be left of a half-finished load.
* *List requests*: indices at both ends, lists that shrink between two pages,
  ties that are sorted differently each time.  A walk must see everything
  once, and end.
* *Search, long values*: a string that each call splits and joins anew, and that
  travels as a set of values sorted as strings; not every selector that is written can be
  read again, not every page can be sent, and options are used again.  No sequence of calls
  may lose, split or merge a part, and what arrives must be what was sent last.
* *HTTP server, dispatch, deployments to services*: store, clients and configuration
  change one after the other, under requests that read each of them at another time and
  without a lock.  A request must be explained by the generations that were in force
  while it ran, must not touch a cluster that it did not ask for, and must end; the timeout
  it is given must not be somebody else's.
* *Fake server*: check and write are two steps, the event comes later still, is offered
  without waiting, and `Clean` replaces the store in two places.  What overlaps may fall in
  any order; what does not overlap must not.

The list of what is hard to test in this code, line by line, with the property
that covers it or the reason why none does, is `hazards` in `PROJECT.json`.

## 2. Modules

| module | models | proofs |
|---|---|---|
| `ResourceCache` | the abstract promise of the store: a cache with regular reads | refined by `MemoryStore` |
| `MemoryStore` | `memory.go`: one resource type, its locks, writers and readers | `MemoryStore_proof` |
| `Watcher` | `watcher.go`: one watch goroutine; the API server is external | `Watcher_proof` |
| `Generations` | the abstract promise of loading: the order in which a new generation replaces the old one | refined by `Reload` |
| `Reload` | `main.go`, `fs_watcher.go`, `ResetStore`; inotify is external | `Reload_proof` |
| `Serving` | extends `Generations` with the requests: `server.go`, `proxy.go`, `deploy2service.go`, `config.go` | `Serving_proof` |
| `Pagination` | a client that walks the pages of a list: the end of `Query`, `sortObjs`, the list branch of `Proxy`, `MakeupResPaginate` | `Pagination_proof` |
| `LabelCodec` | `SplittingValue`, `MergeValues`, `QueryListOptions`: how the page of a request travels | `Search_proof` |
| `Search` | the search string and its trip to the server: `page.go`, the restriction to the default cluster in `proxy.go` | `Search_proof` |
| `Filter` | the loops that keep some elements of a list, which `Pagination` and `Search` share | `DataLemmas` |
| `FakeServer` | `fake_ckube.go`: requests, watches, `Clean` | `FakeServer_proof` |
| `DataLemmas` | nothing of the code: induction, recursive functions, filters and concatenations, for the proofs about data | itself |

`MC*` modules give the CONSTANTs their values, the `.cfg` files are the runs.
Definitions that begin with the comment "Faulty variant" are plausible bugs in
the action they stand before; no specification uses them.  Each property of a
passing run is violated when one of them takes the place of its action, which
shows that the property depends on the code.

### MemoryStore

The map of the types is filled once and never changed, so types do not meet and
one type is modelled.  `clusterMap` and `nsMap` are the key sets of the first two
levels; the third level is flattened to `objects`.  A *space* is a namespace of a
cluster.  A writer's `wpc` follows one call: `initResourceNamespace` asks for the
write lock of the clusters and then for that of the cluster (`WantRoot`,
`InitCluster`, `WantCluster`, `InitNamespace`), then come `Set` or `Delete`
(`Apply`), `Len` and the gauge (`Len`, `SetGauge`), each a step of its own because
the code holds no lock from one to the next.  `Clean` copies the list of the
namespaces and empties them one by one.  A reader's `rpc` follows `Query`, which
keeps the read lock of the clusters for the whole iteration and that of a cluster
while it is in it, or `Get`, which looks into three maps and keeps no lock.

Write locks are held for one map operation, so they are not in the state; what is
in the state is who *waits* for one, because a waiting writer keeps new readers
out (the rule of Go's `sync.RWMutex`).  That is where the nested read locks of
`Query` could deadlock.

`must` and `may` are history variables: what an answer owes its caller.  They are
those of `ResourceCache`, which knows neither locks nor levels.  `Query` is not
atomic, and `ResourceCache` says exactly what remains true: an answer has every
object that was cached during the whole read, and each object of it was cached in
that version at some moment of the read.

### Watcher

A version of an object is the revision that wrote it, 0 is no object.  `Create`,
`Update`, `Erase`, `Break` and `Expire` are the API server's.  The request of
`watchResources` names no resource version, so a new stream begins with one ADDED
event for each existing object, in any order; then come the changes, in order.
`Break` ends a stream with or without an `Error` event, and loses a suffix of what
was in flight.  `pc` follows the loop; `first` and `cur` are the local variables.
The event that was received is already in `cur` when `Clean` runs, and `Clean` is
one step per namespace.  Note that a *closed* channel and an *error* are received
like events, and the flag `first` is looked at before what was received.  `applied` and
`opening` are history variables: what was applied last, and the cluster when the stream was
opened.  With `opening`, `NothingFromBefore` says what `Clean` is for: from the first event
on, nothing is shown that was deleted or replaced while there was no stream.

### Reload

Three processes: the file system with its inotify queue, the file watcher's
goroutine (`fwpc`), and the loader (`pc`), which is `main` first and the reload
goroutine later; `started` tells which, because an error ends the program in the
one and only the load in the other.  A load reads the configuration once and the
kubeconfig three times (`ReadKube`, `ReadRest`, `ReadClient`), each of which may
see another version.  For a kubeconfig that is missing or empty the second and the third
read fall back to the default loading rules (`main.go:34-41`), which may know the context from
elsewhere, here version 0, or not (`ContextsFound`).  A load that comes as far as `common.InitConfig` makes a new
*generation*: an index into `built`, which records what it read.  The configuration,
the variable `w`, the server's store and the server's clients each hold a
generation, and a generation's goroutines are running or not.  Files may be
rewritten in place, replaced, removed, renamed away or truncated; an inotify watch
belongs to an inode and goes with it; equal neighbours in the queue may merge.

### Generations

The same states of the server without files, without the file watcher and without loads that
fail.  `Reload` implements it: its loads that come as far as `common.InitConfig` are
`Announce`, and the steps after that are the steps of `Replacing`; everything before, and every
load that fails, stutters.  `Serving` is built on `Generations`, so what is shown of requests
there holds with all that `Reload` adds.

### Serving

Each handler serves one request.  Its `pc` follows `registerRoutes` (`auth`, `capture`), then
`Proxy` (`one`, `list`, `kind`) or `proxyPass` and `proxyPassWatch` (`pass`, `send`, `wait`,
`relay`, `orphan`).  A watch waits like any other request until the API server has accepted it
(`Stream`), and only then is relayed.  Each read of the global configuration and of the server's two fields is
an action of its own, because nothing orders them against a reload: the token, the store, the
clients, the default cluster when the request is parsed, the default cluster when a list is
restricted or a request passed on, the kind of the list.  `timeouts` is the `Timeout` of the
`http.Client` of each generation and cluster, which `getRequest` sets for everyone;
`limit` is the time that one request has in the end.  `arrived` and `ended` are history
variables: the oldest and the newest generation in force during the request.  `reach` is the
set of the clusters that the answer is from, or that the request was passed to.

A request is what the code tells apart: the method, whether it is for one object or a list,
how it names its clusters (a mark of the client library, a query key, the search, a path),
whether its parameters can be decoded, and what its body bears.  The API server answers some
time, if only with a status that refuses the request (`Answered`), or never (`Expire`), or cannot
be reached (`Unreachable`), and ends a watch when it likes.  An error that is no status, of a watch
as of any other request, makes the handler panic and is answered with 500 (`proxy.go:438`, `517`,
`server.go:176-178`); the model keeps its causes apart (`panicked`, `unreachable`, `expired`), so
that `ErrorsExplained` can ask whether the time was over that such a request has, or one that
another request has cut (`Raced`).

### Pagination

One client asks for a page, collects the items and goes on while the answer says
that something remains, as `MakeupResPaginate` invites it to.  Meanwhile objects
start and cease to match.  `Answers` is one list request, with or without a
label selector (the store cuts the page, or the proxy does).  Integers are signed
and lie in `-Half..Half-1` (`Half` is 2^63 in the code).  Sorting is abstracted to a rank; equal ranks come in any
order, anew each time, because the store iterates over Go maps and `sort.Slice` is
not stable.  An object whose key a numeric sort cannot read makes the request fail, as soon as
there is another to compare it with.

### Search and LabelCodec

A string is a sequence of tokens: the separator, a space, a word, the prefix with the text of a
selector.  Splitting (`Scan`, `SearchParts`) and joining (`Doubled`, `Joined`) are modelled
token by token since the properties are about them.  The text of a selector says, per key, an
equality and a list of expressions (In, NotIn, Exists, DoesNotExist), or it is blank, or it cannot
be read (`NoText`): `"<none>"`, which `FormatLabelSelector` writes for the selector of everything
(`Written`), and whatever else the parser refuses.  The calls see a selector only at the beginning
of a part (`IsAdvanced`); `Match` trims the part first (`IsMatched`).  Calls may come at any time
and may fail: `SetSearchSelector` for what cannot be written (`WellFormed`), `Namespaces` and
`Clusters` for what cannot be read, for no value at all and for a cluster without a name
(`Unusable`).

`Proxy` is the trip to the server.  `QueryListOptions` makes the JSON of the page (`Marshal`), which
is nothing for a page without a number and a search: then the options stay as they were.  Otherwise
it cuts the value into parts behind printed offsets; it fails, and leaves the options, when the
client's own label selector cannot be read or when base64 has a `+` or a `/` (`MayFail`;
`Refusable` are the words that can make it so).  The selector parser makes a sorted set of the
values, `MergeValues` puts them together, and the server sets its default cluster where it sees
none.  The client may then go on with the same options.  `given`, `selectors` and `page` are history
variables: the plain parts and the selectors that the search ought to have, and the page that was
sent last.

`SearchKept` compares what is *matched* with what was asked for, by the clusters and namespaces
that are selected (`Places`), because a text may be kept and still lose its meaning, as `"<none>"`
does.  `PartLen`, `Base` and `Digits` are 56, 10 and 4 in the code.  Digits are the remainders of
repeated division, and offsets are compared as the strings they are printed as.  `TooLong` is exact
about its cause: it is the offset of the last part that has more digits than the others may have.

### FakeServer

One resource type of one cluster and namespace.  A request's `pc` follows `proxy`: `Check` (what
`store.Get` finds), `Apply` (the store is looked up again, and is perhaps another one by
then), `ReadLock`, one `Send` for each channel in any order, `ReadUnlock`.  A watch's `wpc`
follows `watch`: it enters its channel under the write lock, looks it up before each `select`,
writes, and leaves after ten minutes.  `pending` is the writer that holds or awaits the RWMutex:
it keeps new readers out.  What is stored under a name is the request that wrote it last, and
every call of `Clean` has a store of its own.  `before` and `idle` are history variables: which
requests had ended when this one began, and which watches have waited for events since.

## 3. Runs

| run | states | properties | what it shows |
|---|---|---|---|
| `store_reads` | 780,045 | `TypeOK` `NoNilMap` `RegularReads` `GaugeExactUnlessEmpty` `ImplementsCache` | reads of three kinds between the steps of the goroutines of two clusters; the store implements `ResourceCache` |
| `store_locks` | 49,642 | `CallsReturn` `ReadsReturn` | two writers of one cluster and two nested iterations after the same locks: no circle of waiting |
| `watch` | 85,814 | `TypeOK` `CaughtUp` `NothingFromBefore` `AppliedGrows` `EventuallyInSync` `StopEnds` | one goroutine through changes, breaks, losses, expiries, a stop |
| `watch_break` | - | `ResourcesSurviveServerBreak` violated | a stream that begins with its end empties the store |
| `reload` | 81,137 | `TypeOK` `LoadedMatchesDisk` `OneGenerationAtRest` `ServedStoreIsFed` `ImplementsGenerations` `ReloadHappens` | changes of both files at every step of loading; loading implements `Generations` |
| `reload_rewatch` | - | `WatchRestored` violated | a file can be lost to the file watcher |
| `serve` | 442,643 | `TypeOK` `Undisturbed` `ErrorsExplained` `ReachesItsClusters` `WatchLimit` `RequestsEnd` | two requests of every kind at every step of two generations, and every way that API servers fail |
| `serve_delete` | - | `PassedAsSent` violated | a deletion loses its options on the way to the API server |
| `walk` | 44,235 | `TypeOK` `WalkComplete` `NoPanic` `TotalHonest` `WalkEnds` | walks over lists with ties that change meanwhile |
| `page_zero` | - | `ZeroMeansAll` violated | page 0 with a page size panics; page size 0 with a page reports a remainder |
| `search` | 102,310 | `TypeOK` `SearchKept` `QueryArrives` | every sequence of four calls and trips to the server, failed ones included, keeps the search up to stated exceptions |
| `fake` | 465,984 | `TypeOK` `CreatedOnce` `ReadsRegular` `InOrder` `SeesChanges` `NothingLostByWaiting` `RequestsReturn` | three requests and a watch in every order of their steps |

**Bounds, and why they are enough.**

* `store_reads`: two clusters, three namespaces, one of them in the other cluster,
  one object each; two writers with two calls each; one reader with all three
  kinds of read.  Two calls are what it takes for an object to go and come back, or
  for a `Clean` between two changes; readers do not interact except through locks,
  so one is enough here.  An object has one version in this run; that a version may
  change under a read is covered by the proof, which is for every set of versions.
* `store_locks`: two writers and two readers on one cluster, next to a cluster
  that nobody writes to: a circle needs a reader that holds the outer lock, a writer that
  waits for the inner one and another that waits for the outer one.
* `watch`: two objects in two namespaces, three changes, two breaks: an object can
  be created, deleted during a break and created again, and a stream can break
  while the list of the one before is still on its way.
* `reload`: four versions for two files: a good file can go bad and be repaired
  in the middle of a load, and the second file can change in the same load.
* `serve`: two handlers, because what requests share (a `Timeout`) takes two to go wrong: one
  gets a request of every kind, the other one that is passed on.  Two generations that disagree
  on everything a request reads (default cluster, clients, cached types, token): with those each
  read of the wrong generation shows, and a third would only be another pair.
* `walk`: five objects, two pairs of equal rank and one whose key is no number, two of them
  without the label; page sizes 1 to 3, first pages within and beyond the list, two changes; integers
  from -16 to 15, so that a page number times a size overflows in the same run.
* `search`: up to two parts out of five (two words with separators, a selector with two
  expressions on one key, a blank one, one behind a space), four selectors to set (an equality, a
  `NotIn`, everything, one that cannot be written), every set of values for `Namespaces` and
  `Clusters`; four calls and trips, which is what it takes to write, send, empty and send again.
  Two characters to a part, base 3 and two digits: searches of one part, of several, and
  of a length at which the offsets outgrow their digits all occur (`TooLong`; 10,000 characters
  in the code).  Every exception of `SearchKept` and `QueryArrives` but `LeadingSep` is met: without
  it the run fails.
* `fake`: three callers with two to four jobs each, one watch, and a second name that the watch
  does not ask for.  Three requests are what it takes for a creation to be repeated with a
  deletion in between, and for a read to miss what was written; more of them, and several
  watches, are covered by the proof.

All others are checked with `CHECK_DEADLOCK FALSE`: a stopped goroutine, a process that has
exited, files that do not change any more, requests that were answered and a walk that is over
are proper ends.  In `MemoryStore`
readers may always ask again, and deadlock is checked.

**Fairness.**  Each is of a process of CKube, never of the environment's will to
change something.

* `MemoryStore`: strong fairness of each goroutine's steps.  A goroutine that waits
  for a mutex is enabled only now and then; Go hands locks over in turn, to waiting
  readers when a writer leaves and to a waiting writer when the readers before it
  leave.  Beginning a call or a read is not fair.
* `Watcher`: weak fairness of what the goroutine does with what it has
  (`Receipt`, `Handling`), of `Connect` (a bounded number of failures: the server is
  reachable in the end), and of `Expire`, because each watch has a context of one
  hour (`watcher.go:144`).  Strong fairness of `Return`: `select` picks at random among the
  cases that are ready, so a stop that is ready again and again is taken.
* `Reload`: weak fairness of the loader and of the file watcher's goroutine.
* `Serving`: weak fairness of each handler's own steps (`Handling`): a goroutine runs on, and its
  time passes.  Clients that leave, API servers that answer and loads are not fair: requests end
  whatever these do.
* `Pagination`: weak fairness of the request and of the client's next step.
* `FakeServer`: weak fairness of a request's steps and of a watch's steps that only wait for the
  lock.  A client that does not read its watch (`Write`) and the ten minutes (`Timeout`) are not
  fair.  Waiting for the lock is modelled as a place in line (`pending`), so weak fairness is
  enough.

## 4. What is proved

All of the following hold for every value of the constants that satisfies the named
assumptions: typing of the functions that describe the instance (`SpaceAssumption`,
`ActorAssumption`, `KeyAssumption`, `LookupAssumption`: `Get` looks at one name;
`RequestsAssumption`: which requests the routes and the client library can make),
natural numbers for the bounds, finitely many objects and writers where they are
counted, and that the markers `None`, `Absent`, `Closed`, `Error` are no values.
`NumberAssumption`: integers can count the objects.  `CodecAssumption`: at least one character to a
part, one digit, and a base of two.  `SelectorAssumption`, `TokenAssumption`: what a client can write:
any selectors of the four operators; no empty part; and no character that is itself the text of
a selector.

**`MemoryStore_proof`** — `Typing`, `NoNilMapTheorem`, `RegularReadsTheorem`,
`ImplementsCacheTheorem`, `GaugeTheorem`, `NoCircle`.  The invariants are not inductive.
`IInv` is `TypeOK` and
  * `CallInv`: a writer in a call handles an object of its own cluster;
  * `MapInv`: from the moment the maps are made until they are used they are there,
    and above a stored object always.  It holds because no action removes a map;
  * `AskInv`: who reads what, and that a read begins with an empty result;
  * `HistoryInv`: what a read still must see is in the store now, and what is in the
    store now it may see;
  * `ResultInv`: what was collected was seen, and what must be in the answer has been
    collected or is still *ahead* of the iteration.  This is the heart of regularity:
    an object that is stored while the iteration opens a map has its map in the list of
    what is ahead, by `MapInv`.

The refinement then follows step by step: `Apply` is `Put` or `Remove`, `CleanSpace`
is `Wipe`, `Query` and `Get` are `Ask`, the step to `"done"` is `Answer` (`ResultInv`
makes the answer regular), `Return` is `Leave`, and everything else stutters.
`GaugeTheorem` needs two more parts: `PlaceInv` (a goroutine meets only namespaces of its cluster) and
`CountInv` (between `Set` and the gauge, only the goroutine itself can make its number
wrong).

**`Watcher_proof`** — `Typing`, `CaughtUpTheorem`, `NothingFromBeforeTheorem`,
`AppliedGrowsTheorem`.  `IInv` adds to the type `EventInv` (the events on their way,
the one in the goroutine's hand included, are ordered per object and newer than what
was applied), `StreamInv` (with an open stream each object either has its last change
on its way or is already as it should be), `CleanInv` (how far `Clean` is),
`ControlInv` (which `pc` goes with which state of the stream), `VersionInv` (what
the store has is what was applied last, and not newer than the cluster) and `OpenInv`
(what is on its way tells of the cluster as it was when the stream was opened, or of later;
and so does the store once `Clean` has run).

**`Reload_proof`** — `Typing`, `LoadedMatchesDiskTheorem`, `OneGenerationTheorem`,
`ServedStoreTheorem`, `Refinement`.  `StageInv` says which generations are in place at which step of
the loader, `WatchInv` what a file watcher that sleeps or sends stands for, and
`FreshInv` is the argument for lost changes: if the files are settled, then either a
load is still to come (an event in the queue that is not ignored, an event waiting for
the loader, a removal in its two seconds), or what the loader has read so far, or what
is served, is what is on disk.  A change makes the first true, and the end of a load may
only use up the first by making the second true.  `Refinement` (`Spec => ImplementsGenerations`)
maps the loader's `pc` to the phase of `Generations` and goes through the actions: `StageInv`
supplies which generation each of them handles.

**`Serving_proof`** — `Typing`, `OneGeneration`, `Errors`, `AskedClusters`, `Watches`.  A load moves
a new number through the server in a fixed order, `cfg` first and `clients` last (`GenInv`).  So
whatever a handler reads lies between the number that `clients` had when it arrived and the one
that `cfg` has now (`Bounds`): all that it has read *belonged to a generation in force since it
arrived*, which is what `Errors` and `AskedClusters` need.  `Stage` says for each `pc` from
which of these generations the values in hand come.  If the first number is still the last
when the request ends, all reads were of one generation: `OneGeneration`.  `Watches` needs who
has set a shared timeout (`TimeoutInv`), and that a limit was read from it (`LimitInv`).

**`FakeServer_proof`** — `Typing`, `Creations`, `Reads`, `Order`, `Changes`, `Losses`,
`NoCircle`.  The argument is that *a request that has not ended is in nobody's past* (`PastInv`).  So an event that is
taken now precedes nothing that was written before (`NextInv`, `DeliveryInv`); a removal that is
applied now did not end before any creation began (`CreationInv`), and stays on record when a
second creation passes its check (`SecondInv`); and a change that takes effect now is the newest
of its name in the store that is read, or that store belongs to a `Clean` that is under way and
newer still (`StoreInv`, `ServedInv`).  `IdleInv` follows a watch that waits until the event is
in its hand.

**`Pagination_proof`** — `TypeCorrect`, `PagesNeverPanic`, `TotalsAreHonest`, `WalksAreComplete`,
`WalksAreBounded`.  The store sorts anew for each page, and ties fall out another way each time.
What makes a walk complete all the same: any two sorted lists of the same objects have the same
ranks, place by place (`SameRanks`), and filtering a sorted list leaves it sorted
(`ChosenIsSorted`).  One answer is then described by `IsPage`, whichever way the list went; the
arithmetic of two's complement drops out because a proper page fits into an integer.  `AskInv` and
`GotInv` say how far the walk has come: it has collected the ranks between the first page and this
one, and the answer in hand says how many are left.  `WalksAreBounded` is the part of `WalkEnds`
that a proof can reach: another page is asked for only while the pages so far could not hold
everything, however the store changes.

**`Search_proof`** — `TypeCorrect`, `SearchIsKept`, `QueriesArrive`, on two round trips that are
theorems of their own.
  * `ValueArrives`: `MergeValues` undoes `SplittingValue`.  Printing by repeated division keeps the
    order of numbers that have as many digits (`DigitsOrder`, by induction on the digits), so the
    parts sort as their offsets do (`PrintedOrder`), each part has a place of its own
    (`EveryPlaceIsTaken`) and their concatenation is the value again.
  * `RoundTrip`: `SearchParts` undoes `SetSearchWithParts`.  The scan reads a part that is joined
    and comes to its end with just that part in hand (`ReadPart`), whatever it has read before, so
    it reads one part after the other (`ReadJoined`).
On these the invariant rests: `SaysInv`, the string has the plain parts that were given and its
selectors mean those of the history, whatever the calls were and whichever of them failed, or are
written as nothing that can be read; and `TravelInv`, the options hold the page that was sent last
unless that page was empty.  `SearchKept` alone is not inductive: it speaks of places that
selectors select, and two selectors may select the same places and differ in what a call leaves of
them.  That the server's restriction finds what it should, whichever selector it meets, is
`ServedFinds`.

**`DataLemmas`** — `FilteredKeeps`, `FlattenLoop` and what they rest on.  The library's induction
theorems take an operator, which the provers here cannot instantiate.  `Induction` states the
principle for a *set* of numbers instead, from the least element of what is not in it, and
`Recursion` derives from it that a function defined by recursion exists.  That is enough for
every loop of these models, which are recursive functions and folds over sequences.

**Nobody waits in a circle** — `NoCircle` of `MemoryStore_proof` and of `FakeServer_proof`.  While a call
has not returned, somebody's guard is true: the guards are spelled out (`CanWrite`, `CanRead`,
`CanHandle`, `CanWatch`) because the prover does not know `ENABLED`.  In the store the argument goes
from the inside out: who is inside a cluster can go on, so nobody waits for a cluster, so who
iterates over the clusters can go on, so nobody waits for those.  In the fake server it needs the
invariant: who holds the read lock is sending, and to send is never to wait.  With the fair
scheduling of section 3 this is what `CallsReturn`, `ReadsReturn` and `RequestsReturn` live on.

**Only model-checked.**  The liveness properties (`CallsReturn`, `ReadsReturn`,
`EventuallyInSync`, `StopEnds`, `ReloadHappens`, `RequestsEnd`, `RequestsReturn`, `WalkEnds`):
liveness under fairness is out of the prover's reach.  Every invariant, action property and
refinement that a run checks is proved.

## 5. Where the code disagrees with what is said of it

Each is a run of its own; the quotations are in `PROJECT.json`, `findings`.

1. `ResourcesSurviveServerBreak`: the comment at `watcher.go:162-163` promises that the
   resources survive a break of the server.  When a new stream begins with an error or with its
   end, line 164 empties the store.
2. `WatchRestored`: `fs_watcher.go:80-81` says that a removed file is watched again.  It is
   tried once, after two seconds, and not at all after a rename.
3. `ZeroMeansAll`: `PAGINATE_SPEC.md:6` and `:9` say of page 0 and of page size 0 that there is no
   pagination.  Page 0 with a page size is a panic without, and everything with, a label selector
   (`memory.go:319-335`, `proxy.go:269`); page size 0 with a page returns everything and reports
   that all of it remains (`proxy.go:313`).
4. `PassedAsSent`: `README.md:3` says that other requests are passed on directly.  The body of a
   DELETE is read for a mark of a cluster (`proxy.go:118-133`) and is empty when it bears none:
   options such as a propagation policy or preconditions do not arrive.

Known limits that properties state as exceptions rather than as findings:

* A walk over ties can repeat one object and leave another out (`WalkComplete` is about ranks; the
  default sort is unique).
* `SearchKept`: a part that begins with the separator and a second selector are not kept.  The
  selector of everything is written as `"<none>"`, with which every search fails (`Unwritten`).  A
  cluster that is named by an equality or behind a space (as `PAGINATE_SPEC.md:16` writes it) is not
  seen by the server, which then asks for its default cluster as well (`Narrowed`); an Exists, a
  DoesNotExist and a blank are replaced by the default cluster (`Overruled`).
* `QueryArrives`: a search so long that its offsets outgrow their digits is scrambled (`TooLong`), and
  a page without a number and a search leaves the page before in options that are used again
  (`Leftover`, `page.go:297-300`).  A page whose base64 has a `+` or a `/` cannot be sent at all
  (`Fail`), although `PAGINATE_SPEC.md:19` and `:25` allow any string.
* `ReachesItsClusters`: the mark of a cluster on a list that the cache answers is not looked at
  (`Overlooked`).
* `ReachesItsClusters`: a request that excludes a cluster and is passed on goes to just that one
  (`Negated`).
* `WatchLimit`: a request that is not a watch, passed to the same cluster just before a watch is
  sent, gives the watch a minute instead of half an hour.
* `ReadsRegular`: after two calls of `Clean` at once the fake server may write to one store and
  read another for good (`CleansOverlap`).
* A change between the first load and the first watch is not loaded before the next one (`Settled`).
* The gauge of a namespace that `Clean` has emptied stays (`GaugeExactUnlessEmpty`).

## 6. Not modelled, and why

* *Text*: index templates, JSONPath, the syntax of selectors, JSON.  A query is a set of
  versions per object, a selector is a record.
* *The rest of dispatch*: the Table form of an answer (`proxy.go:339-403`) and the headers that
  are copied are layout.
* *What a plain part matches* (`page.go:101-138`), which is text.  Of texts of selectors: values that
  are no label values, and two equalities for one key, of which the parser keeps the last.  Empty
  parts of a search, which the split drops.  A scrambled page that is not even base64, which is passed
  on to the API server (`proxy.go:164-167`), is taken as one that bears nothing.
* *The service-account branch of `main`* (`main.go:84-106`): one cluster with one client, and no
  kubeconfig that could change.
* *`Up` and `ConfigReload`*, and the reset of the gauges at a reload (`main.go:208-217`), which
  races with the goroutines of both generations: numbers that nothing in the program reads.
* *`IsStoreGVR`*: a lookup in a map that never changes.  *The registration of types in the
  scheme* (`watcher.go:121-136`): a call into the client library, whose maps are not here.
* *Which services select a deployment's pods* (`deploy2service.go:45-78`): a comparison of labels.
* *The fake server's API-group answers and its channel `Events()`*: constants, and a channel that
  takes an event as a watch does.  Two watches of one address are left out.
* *`ckubecli`, `ckube-plugin`, examples, logging, helpers, packaging*: input and output only.

## 7. Plan

Done, in this order: `ResourceCache` and `MemoryStore` (everything else reads or writes it),
`Watcher`, `Reload`, `Pagination`, `Search`, the proofs of the first three; then `Generations` and its
refinement, `Serving` with its proof, `LabelCodec` and the trip of the search, more of
`Pagination` (page size 0, keys that are no numbers), `FakeServer` with its proof; then the proofs
about data: `DataLemmas`, `Pagination_proof`, `Search_proof`, and that nobody waits in a circle.

What is left:

1. Two `Watcher`s over one `MemoryStore`, as after a reload or with a resource that is configured
   twice: whose `Clean` removes whose objects (`main.go:146`, a hazard with a note).
2. What a plain part of a search matches.
3. The gauges of two generations during a reload.
