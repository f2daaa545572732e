------------------------------ MODULE Serving ------------------------------
(***************************************************************************)
(* The requests that the server serves while generations replace each      *)
(* other: the handler of every route (server/server.go:145-193), Proxy,    *)
(* proxyPass and proxyPassWatch (api/proxy.go), Deploy2Service             *)
(* (api/extend/deploy2service.go) and GetConfig.                           *)
(*                                                                         *)
(* Each request has a goroutine, here a handler that serves one request.   *)
(* Nothing they share is locked: the configuration is read anew by each    *)
(* part of the code that wants to know something of it, the server's two   *)
(* fields are captured one after the other, and the clients of a           *)
(* generation are used, and given a timeout, by all requests at once.      *)
(*                                                                         *)
(* Left out: what a list or an object holds (MemoryStore, Pagination and   *)
(* Search), the routes that touch nothing, and the API servers, which      *)
(* answer some time or never.                                              *)
(***************************************************************************)
EXTENDS Generations

CONSTANTS
    Handlers,       \* the goroutines of the requests
    Clusters, NoCluster,
    Resources,      \* the types that can be cached
    Workloads,      \* pods and services, which Deploy2Service looks up
    Tokens, NoToken,
    Requests,       \* the requests that each of them may get
    MaxGenerations  \* bound: the loads that succeed

Content == [default : Clusters, clusters : SUBSET Clusters, cached : SUBSET Resources,
            token : Tokens \cup {NoToken}]

\* A PUT stands for POST and PATCH too, a HEAD for OPTIONS.  "by" is how the
\* clusters are named: a mark in an option of the client library, the query key
\* "cluster", the search of the pagination, or the path of Deploy2Service.
Request == [
    method : {"GET", "PUT", "DELETE", "HEAD"},
    resource : Resources,
    kind : {"one", "list", "services"},
    watch : BOOLEAN,
    by : {"none", "mark", "query", "path", "in", "notin"},
    names : Seq(Clusters),
    readable : BOOLEAN,     \* the label selector and the pagination can be decoded
    extra : BOOLEAN,        \* a query key that the cache does not know
    options : BOOLEAN,      \* the body holds options of the client
    token : Tokens \cup {NoToken}]

AnyRequest == UNION {Requests[h] : h \in Handlers}

ASSUME ContentsAssumption == Contents \subseteq Content
ASSUME RequestsAssumption ==
    \A h \in Handlers : \A r \in Requests[h] :
        /\ r \in Request
        /\ r.by = "none" <=> r.names = <<>>
        /\ r.watch \/ r.by = "query" => r.extra
        /\ r.by \in {"in", "notin"} => r.readable
        /\ r.by = "path" => r.kind = "services"
ASSUME NamesAssumption == NoCluster \notin Clusters /\ NoToken \notin Tokens
ASSUME BoundAssumption == MaxGenerations \in Nat \ {0}

VARIABLES
    pc,         \* where each handler is
    req,        \* its request
    arrived,    \* history: the oldest generation in force when it began
    ended,      \* history: the newest one when it ended
    ctx,        \* the ReqContext: the generations of the store and of the clients
    cluster,    \* the cluster of the request
    body,       \* the body still says what the client sent
    timeouts,   \* the Timeout of the http.Client of each generation and cluster
    limit,      \* the time that the passed request has
    reach,      \* the clusters that the answer is from
    answer      \* how it ended

handlerVars == <<pc, req, arrived, ended, ctx, cluster, body, timeouts, limit, reach, answer>>
vars == <<genVars, handlerVars>>

Limits == {"none", "short", "long"}     \* no limit, a minute, half an hour

\* A panic, an API server that cannot be reached and a time that is over are all
\* answered with the status 500.
Answers == {"none", "served", "absent", "relayed", "unauthorized", "noCluster",
            "panicked", "unreachable", "expired"}

Known == 0..Len(built)

TypeOK ==
    /\ GenTypeOK
    /\ pc \in [Handlers -> {"free", "auth", "capture", "one", "list", "kind", "pass", "send",
                            "wait", "relay", "orphan", "done"}]
    /\ req \in [Handlers -> AnyRequest] /\ \A h \in Handlers : req[h] \in Requests[h]
    /\ arrived \in [Handlers -> Known] /\ ended \in [Handlers -> Known]
    /\ ctx \in [Handlers -> [store : Known, clients : Known]]
    /\ cluster \in [Handlers -> Clusters \cup {NoCluster}]
    /\ body \in [Handlers -> BOOLEAN]
    /\ timeouts \in [1..MaxGenerations -> [Clusters -> Limits]]
    /\ limit \in [Handlers -> Limits]
    /\ reach \in [Handlers -> SUBSET Clusters]
    /\ answer \in [Handlers -> [status : Answers, kind : BOOLEAN]]

Nothing == [status |-> "none", kind |-> FALSE]

Init ==
    /\ GenInit
    /\ pc = [h \in Handlers |-> "free"]
    /\ req \in {f \in [Handlers -> AnyRequest] : \A h \in Handlers : f[h] \in Requests[h]}
    /\ arrived = [h \in Handlers |-> 0] /\ ended = arrived
    /\ ctx = [h \in Handlers |-> [store |-> 0, clients |-> 0]]
    /\ cluster = [h \in Handlers |-> NoCluster]
    /\ body = [h \in Handlers |-> TRUE]
    /\ timeouts = [g \in 1..MaxGenerations |-> [c \in Clusters |-> "none"]]
    /\ limit = [h \in Handlers |-> "none"]
    /\ reach = [h \in Handlers |-> {}]
    /\ answer = [h \in Handlers |-> Nothing]

-----------------------------------------------------------------------------
(* What the code decides from a request and a generation. *)

Admits(g, r) == built[g].token = NoToken \/ r.token = built[g].token

Named(r) == r.by # "none"

\* GetClusters takes the values of the first requirement on "cluster", whatever
\* its operator, and the request takes the first value.
FirstCluster(r) == Head(r.names)

\* The body of a DELETE is read, and put back only if it bears a mark.
BodyAfterParsing(r) == r.method = "DELETE" /\ r.options => r.by = "mark"

\* Faulty variant: a query that cannot be decoded is answered from the cache.
PassedOnReadable(g, r) ==
    \/ r.extra
    \/ r.method # "GET"
    \/ r.resource \notin built[g].cached

PassedOn(g, r) ==
    \/ ~r.readable
    \/ r.extra
    \/ r.method # "GET"
    \/ r.resource \notin built[g].cached

\* The clusters whose objects match the search.
Searched(r) ==
    LET named == {r.names[i] : i \in 1..Len(r.names)}
    IN IF r.by = "in" THEN named ELSE Clusters \ named

\* A list from the cache takes its clusters from the search alone: one without them is
\* of the default cluster, and so not of the cluster that a mark names.
Listed(g, r) == IF r.by \in {"in", "notin"} THEN Searched(r) ELSE {built[g].default}

-----------------------------------------------------------------------------
(* The handler of a route. *)

At(h, l) == pc[h] = l
Goto(h, l) == pc' = [pc EXCEPT ![h] = l]

End(h, status, kind) ==
    /\ Goto(h, "done")
    /\ answer' = [answer EXCEPT ![h] = [status |-> status, kind |-> kind]]
    /\ ended' = [ended EXCEPT ![h] = cfg]

\* A reload sets the clients last: theirs is the oldest generation in force.
Arrive(h) ==
    /\ started
    /\ At(h, "free") /\ Goto(h, "auth")
    /\ arrived' = [arrived EXCEPT ![h] = clients]
    /\ UNCHANGED <<genVars, req, ended, ctx, cluster, body, timeouts, limit, reach, answer>>

\* The token is read twice; what comes out is that of one of the two moments.
Authorize(h) ==
    /\ At(h, "auth")
    /\ IF Admits(cfg, req[h])
       THEN Goto(h, "capture") /\ UNCHANGED <<ended, answer>>
       ELSE End(h, "unauthorized", FALSE)
    /\ UNCHANGED <<genVars, req, arrived, ctx, cluster, body, timeouts, limit, reach>>

\* The two fields are read without the lock that would order them.
CaptureStore(h) ==
    /\ At(h, "capture") /\ ctx[h].store = 0
    /\ ctx' = [ctx EXCEPT ![h].store = store]
    /\ UNCHANGED <<genVars, pc, req, arrived, ended, cluster, body, timeouts, limit, reach,
                   answer>>

CaptureClients(h) ==
    /\ At(h, "capture") /\ ctx[h].clients = 0
    /\ ctx' = [ctx EXCEPT ![h].clients = clients]
    /\ UNCHANGED <<genVars, pc, req, arrived, ended, cluster, body, timeouts, limit, reach,
                   answer>>

Captured(h) == At(h, "capture") /\ ctx[h].store # 0 /\ ctx[h].clients # 0

-----------------------------------------------------------------------------
(* Proxy and its parts. *)

\* Faulty variant: a cluster that is not named is the first generation's default.
ParseWithOldDefault(h) ==
    LET r == req[h] IN
    /\ Captured(h) /\ r.kind # "services"
    /\ cluster' = [cluster EXCEPT ![h] =
           IF Named(r) THEN FirstCluster(r)
           ELSE IF r.readable THEN built[1].default ELSE NoCluster]
    /\ body' = [body EXCEPT ![h] = BodyAfterParsing(r)]
    /\ Goto(h, IF PassedOn(ctx[h].store, r) THEN "pass" ELSE r.kind)
    /\ UNCHANGED <<genVars, req, arrived, ended, ctx, timeouts, limit, reach, answer>>

\* parsePaginateAndLabelsAndClean, and the ways that part after it.
Parse(h) ==
    LET r == req[h] IN
    /\ Captured(h) /\ r.kind # "services"
    /\ cluster' = [cluster EXCEPT ![h] =
           IF Named(r) THEN FirstCluster(r)
           ELSE IF r.readable THEN built[cfg].default ELSE NoCluster]
    /\ body' = [body EXCEPT ![h] = BodyAfterParsing(r)]
    /\ Goto(h, IF PassedOn(ctx[h].store, r) THEN "pass" ELSE r.kind)
    /\ UNCHANGED <<genVars, req, arrived, ended, ctx, timeouts, limit, reach, answer>>

\* ProxySingleResources.
GetOne(h) ==
    /\ At(h, "one")
    /\ reach' = [reach EXCEPT ![h] = {cluster[h]}]
    /\ \/ cluster[h] \in built[ctx[h].store].clusters /\ End(h, "served", TRUE)
       \/ End(h, "absent", FALSE)
    /\ UNCHANGED <<genVars, req, arrived, ctx, cluster, body, timeouts, limit>>

\* Faulty variant: a list that names no cluster is one of all of them.
RestrictNothing(h) ==
    /\ At(h, "list") /\ Goto(h, "kind")
    /\ reach' = [reach EXCEPT ![h] =
           IF req[h].by \in {"in", "notin"} THEN Searched(req[h]) ELSE Clusters]
    /\ UNCHANGED <<genVars, req, arrived, ended, ctx, cluster, body, timeouts, limit, answer>>

\* The default cluster is read again.
RestrictList(h) ==
    /\ At(h, "list") /\ Goto(h, "kind")
    /\ reach' = [reach EXCEPT ![h] = Listed(cfg, req[h])]
    /\ UNCHANGED <<genVars, req, arrived, ended, ctx, cluster, body, timeouts, limit, answer>>

\* The kind of the list is that of the configuration, which is read once more.
Reply(h) ==
    /\ At(h, "kind")
    /\ End(h, "served", req[h].resource \in built[cfg].cached)
    /\ UNCHANGED <<genVars, req, arrived, ctx, cluster, body, timeouts, limit, reach>>

\* Deploy2Service panics when one of the two types is not cached.
Deploy2Service(h) ==
    LET c == IF Named(req[h]) THEN FirstCluster(req[h]) ELSE built[cfg].default IN
    /\ Captured(h) /\ req[h].kind = "services"
    /\ reach' = [reach EXCEPT ![h] = {c}]
    /\ IF Workloads \subseteq built[ctx[h].store].cached
       THEN End(h, "served", TRUE)
       ELSE End(h, "panicked", FALSE)
    /\ UNCHANGED <<genVars, req, arrived, ctx, cluster, body, timeouts, limit>>

-----------------------------------------------------------------------------
(* proxyPass, proxyPassWatch and getRequest. *)

Allowance(r) == IF r.watch THEN "long" ELSE "short"

\* Faulty variant: every request gives its client a minute.
SetMinute(h, c) == timeouts' = [timeouts EXCEPT ![ctx[h].clients][c] = "short"]

SetTimeout(h, c) ==
    timeouts' = [timeouts EXCEPT ![ctx[h].clients][c] = Allowance(req[h])]

\* Faulty variant: a request whose cluster is not known yet has none.
ProxyPassUnnamed(h) ==
    LET c == cluster[h] IN
    /\ At(h, "pass")
    /\ UNCHANGED cluster
    /\ IF c \notin built[ctx[h].clients].clusters
       THEN End(h, "noCluster", FALSE) /\ UNCHANGED timeouts
       ELSE /\ SetTimeout(h, c)
            /\ IF req[h].method = "HEAD"
               THEN End(h, "panicked", FALSE)
               ELSE Goto(h, "send") /\ UNCHANGED <<ended, answer>>
    /\ UNCHANGED <<genVars, req, arrived, ctx, body, limit, reach>>

\* A method without a request of its own ends in a panic.
ProxyPass(h) ==
    LET c == IF cluster[h] = NoCluster THEN built[cfg].default ELSE cluster[h] IN
    /\ At(h, "pass")
    /\ cluster' = [cluster EXCEPT ![h] = c]
    /\ IF c \notin built[ctx[h].clients].clusters
       THEN End(h, "noCluster", FALSE) /\ UNCHANGED timeouts
       ELSE /\ SetTimeout(h, c)
            /\ IF req[h].method = "HEAD"
               THEN End(h, "panicked", FALSE)
               ELSE Goto(h, "send") /\ UNCHANGED <<ended, answer>>
    /\ UNCHANGED <<genVars, req, arrived, ctx, body, limit, reach>>

\* The context of the request has the limit that was meant; the client has the one
\* that was set last.
Shorter(l, m) == IF "short" \in {l, m} THEN "short" ELSE l

Send(h) ==
    /\ At(h, "send")
    /\ limit' = [limit EXCEPT ![h] =
           Shorter(Allowance(req[h]), timeouts[ctx[h].clients][cluster[h]])]
    /\ reach' = [reach EXCEPT ![h] = {cluster[h]}]
    /\ Goto(h, "wait")
    /\ UNCHANGED <<genVars, req, arrived, ended, ctx, cluster, body, timeouts, answer>>

\* The API server accepts a watch: what comes is written as it comes.
Stream(h) ==
    /\ At(h, "wait") /\ req[h].watch
    /\ Goto(h, "relay")
    /\ UNCHANGED <<genVars, req, arrived, ended, ctx, cluster, body, timeouts, limit, reach,
                   answer>>

\* The API server answers, if only with a status that refuses the request; or the
\* stream of a watch ends or breaks, or its next byte shows that the client has left.
Answered(h) ==
    /\ pc[h] \in {"wait", "relay", "orphan"}
    /\ End(h, "relayed", TRUE)
    /\ UNCHANGED <<genVars, req, arrived, ctx, cluster, body, timeouts, limit, reach>>

\* The API server cannot be reached, or breaks the connection before it has answered:
\* DoRaw and Stream return an error that is no status, and the handler panics with it.
Unreachable(h) ==
    /\ At(h, "wait")
    /\ End(h, "unreachable", FALSE)
    /\ UNCHANGED <<genVars, req, arrived, ctx, cluster, body, timeouts, limit, reach>>

\* Faulty variant: the loop of a watch goes on after an error.
ExpireUnlessWatch(h) ==
    /\ At(h, "wait") /\ limit[h] # "none"
    /\ End(h, "expired", FALSE)
    /\ UNCHANGED <<genVars, req, arrived, ctx, cluster, body, timeouts, limit, reach>>

\* The time of the request is over: an error like that of a connection if there is no
\* answer yet, and the end of the stream if there is.
Expire(h) ==
    /\ pc[h] \in {"wait", "relay", "orphan"} /\ limit[h] # "none"
    /\ IF At(h, "wait") THEN End(h, "expired", FALSE) ELSE End(h, "relayed", TRUE)
    /\ UNCHANGED <<genVars, req, arrived, ctx, cluster, body, timeouts, limit, reach>>

\* The client of a watch goes away, which is noticed when the next byte comes: the
\* stream of a quiet cluster stays open.
Leave(h) ==
    /\ At(h, "relay") /\ Goto(h, "orphan")
    /\ UNCHANGED <<genVars, req, arrived, ended, ctx, cluster, body, timeouts, limit, reach,
                   answer>>

-----------------------------------------------------------------------------
Handling(h) ==
    \/ Authorize(h)
    \/ CaptureStore(h)
    \/ CaptureClients(h)
    \/ Parse(h)
    \/ GetOne(h)
    \/ RestrictList(h)
    \/ Reply(h)
    \/ Deploy2Service(h)
    \/ ProxyPass(h)
    \/ Send(h)
    \/ Expire(h)

Serve(h) ==
    \/ Arrive(h)
    \/ Handling(h)
    \/ Stream(h)
    \/ Answered(h)
    \/ Unreachable(h)
    \/ Leave(h)

Load ==
    /\ \/ Len(built) < MaxGenerations /\ \E c \in Contents : Announce(c)
       \/ Replacing
    /\ UNCHANGED handlerVars

Next == Load \/ \E h \in Handlers : Serve(h)

Spec == Init /\ [][Next]_vars

\* A goroutine runs on and its time passes; clients, API servers and loads need not.
FairSpec == Spec /\ \A h \in Handlers : WF_vars(Handling(h))
-----------------------------------------------------------------------------
(* Properties. *)

\* The generations that were the configuration, the store or the clients of the
\* server at some time of the request.
InForce(h) ==
    {g \in 1..Len(built) : arrived[h] <= g /\ g <= (IF At(h, "done") THEN ended[h] ELSE cfg)}

Target(g, r) == IF Named(r) THEN FirstCluster(r) ELSE built[g].default

Asked(g, r) == IF r.by \in {"in", "notin"} THEN Searched(r) ELSE {Target(g, r)}

\* What a request gets from a generation that nobody replaces.
Fits(h, g) ==
    LET r == req[h]
        is(status, clusters) == answer[h].status = status /\ reach[h] = clusters
    IN CASE ~Admits(g, r) -> is("unauthorized", {})
         [] Admits(g, r) /\ r.kind = "services" ->
              is(IF Workloads \subseteq built[g].cached THEN "served" ELSE "panicked",
                 {Target(g, r)})
         [] Admits(g, r) /\ r.kind # "services" /\ PassedOn(g, r) ->
              IF Target(g, r) \notin built[g].clusters THEN is("noCluster", {})
              ELSE IF r.method = "HEAD" THEN is("panicked", {})
              ELSE \E s \in {"relayed", "unreachable", "expired"} : is(s, {Target(g, r)})
         [] Admits(g, r) /\ r.kind = "one" /\ ~PassedOn(g, r) ->
              \/ is("absent", {Target(g, r)})
              \/ is("served", {Target(g, r)}) /\ Target(g, r) \in built[g].clusters
         [] OTHER -> is("served", Listed(g, r)) /\ answer[h].kind

\* A request that no reload overlaps is answered as if at one moment and from one
\* generation, though it reads the configuration up to five times, and the store
\* and the clients apart (server.go:154-166, proxy.go:181, 196, 223, 330, 494).
Undisturbed ==
    \A h \in Handlers : At(h, "done") /\ arrived[h] = ended[h] => Fits(h, ended[h])

Passing == {"send", "wait", "relay", "orphan", "done"}

\* Another request that is no watch has been passed to the same cluster by the same
\* client: it may be under way or have ended.
Raced(h) ==
    \E k \in Handlers \ {h} :
        /\ ~req[k].watch /\ pc[k] \in Passing
        /\ ctx[k].clients = ctx[h].clients /\ cluster[k] = cluster[h]

Explained(h) ==
    LET r == req[h] IN
    CASE answer[h].status = "unauthorized" -> \E g \in InForce(h) : ~Admits(g, r)
      [] answer[h].status = "noCluster" ->
           \E g, k \in InForce(h) : Target(g, r) \notin built[k].clusters
      [] answer[h].status = "panicked" ->
           IF r.kind = "services"
           THEN \E g \in InForce(h) : ~(Workloads \subseteq built[g].cached)
           ELSE r.method = "HEAD"
      [] answer[h].status \in {"unreachable", "expired"} ->
           /\ \E g, k \in InForce(h) :
                  reach[h] = {Target(g, r)} /\ Target(g, r) \in built[k].clusters
           /\ limit[h] = Allowance(r) \/ Raced(h)
      [] OTHER -> TRUE

\* A reload makes no request fail that neither the old nor the new generation
\* explains: a token that one of them refuses; a cluster, named or one's default,
\* that one's clients lack; types that one does not cache; a method that is not passed
\* on.  An API server makes a request fail, by being out of reach or by saying nothing
\* until the time is over, only if it is that of the cluster that the request asks for
\* and one of them has its client; and the time that was over is the one that such
\* requests have, or was cut by another request (server.go:154-178, proxy.go:430-439,
\* 494-521).
ErrorsExplained == \A h \in Handlers : Explained(h)

\* The requirement of a request that is passed on is taken for its opposite: it goes
\* to the cluster that it excludes (page.go:239-254).
Negated(r) == r.by = "notin"

\* The mark of a list is not looked at by the cache, which answers for the default
\* cluster (proxy.go:222-227).
Overlooked(r) == r.by = "mark" /\ r.kind = "list"

\* What a request gets or changes is in a cluster that it asks for or, if it asks for
\* none, in a default cluster that was in force during the request, however the
\* reads of the configuration fall (proxy.go:177-182, 222-227, 466).
ReachesItsClusters ==
    \A h \in Handlers :
        \/ reach[h] \subseteq UNION {Asked(g, req[h]) : g \in InForce(h)}
        \/ Negated(req[h]) /\ reach[h] = {FirstCluster(req[h])}
        \/ Overlooked(req[h]) /\ \E g \in InForce(h) : reach[h] = {built[g].default}

\* A watch has a minute instead of half an hour only if a request that is no watch has
\* been passed to the same cluster by the same client (proxy.go:433, 466, 512).
WatchLimit == \A h \in Handlers : req[h].watch /\ limit[h] = "short" => Raced(h)

\* Every request ends: a cluster that never answers, and a client that leaves the
\* watch of a quiet cluster, hold their goroutine for a limited time (proxy.go:430-432,
\* 444-461, 509-512).
RequestsEnd == \A h \in Handlers : At(h, "auth") ~> At(h, "done")

\* README.md:3, translated: requests of other types than list "are directly
\* reverse-proxied to the native APIServer": it gets what the client sent.
PassedAsSent ==
    \A h \in Handlers : pc[h] \in {"wait", "relay", "orphan"} => body[h]
=============================================================================
