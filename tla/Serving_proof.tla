---------------------------- MODULE Serving_proof ----------------------------
(***************************************************************************)
(* Proofs about Serving for any handlers, requests, contents and number of *)
(* generations: its typing, Undisturbed, ErrorsExplained,                  *)
(* ReachesItsClusters and WatchLimit, from one inductive invariant.        *)
(*                                                                         *)
(* What makes them inductive is that every value that a handler has read   *)
(* was that of a generation in force since its request arrived.  These are *)
(* the numbers from the server's clients, which a reload sets last, to the *)
(* configuration, which it sets first; and if the first and the last are   *)
(* the same one, so are all that the handler has read.                     *)
(***************************************************************************)
EXTENDS Serving, SequenceTheorems, TLAPS

\* The order in which a load replaces what the server has.
GenInv ==
    /\ cfg = Len(built) /\ cfg <= MaxGenerations
    /\ clients <= store /\ store <= cfg
    /\ started => clients # 0
    /\ phase # "idle" => cfg # 0
    /\ phase = "resetClients" => store = cfg

Bounds(h) ==
    /\ pc[h] = "free" => ctx[h].store = 0 /\ ctx[h].clients = 0
    /\ pc[h] # "free" => started /\ arrived[h] # 0 /\ arrived[h] <= clients
    /\ pc[h] = "done" => arrived[h] <= ended[h] /\ ended[h] <= cfg

Admitted(h) == \E g \in InForce(h) : Admits(g, req[h])
Aimed(h) == \E g \in InForce(h) : cluster[h] = Target(g, req[h])
Passed(h) == req[h].kind # "services" /\ \E g \in InForce(h) : PassedOn(g, req[h])
Cached(h, kind) == req[h].kind = kind /\ \E g \in InForce(h) : ~PassedOn(g, req[h])
Reachable(h) ==
    /\ ctx[h].clients \in InForce(h)
    /\ cluster[h] \in built[ctx[h].clients].clusters

\* How a request can end.
Refused(h) ==
    /\ answer[h].status = "unauthorized" /\ reach[h] = {}
    /\ \E g \in InForce(h) : ~Admits(g, req[h])

FoundServices(h) ==
    /\ req[h].kind = "services"
    /\ \E g \in InForce(h) : reach[h] = {Target(g, req[h])}
    /\ \E g \in InForce(h) :
           answer[h].status =
               IF Workloads \subseteq built[g].cached THEN "served" ELSE "panicked"

LackedCluster(h) ==
    /\ Passed(h)
    /\ answer[h].status = "noCluster" /\ reach[h] = {}
    /\ \E g, k \in InForce(h) : Target(g, req[h]) \notin built[k].clusters

Panicked(h) ==
    /\ Passed(h) /\ Aimed(h) /\ Reachable(h)
    /\ answer[h].status = "panicked" /\ reach[h] = {}
    /\ req[h].method = "HEAD"

Timed(h) == limit[h] \in {Allowance(req[h]), "short"}

FailedToPass(h) ==
    /\ Passed(h) /\ Aimed(h) /\ Reachable(h)
    /\ answer[h].status \in {"unreachable", "expired"} /\ reach[h] = {cluster[h]}
    /\ req[h].method # "HEAD" /\ Timed(h)

Relayed(h) ==
    /\ Passed(h) /\ Aimed(h) /\ Reachable(h)
    /\ answer[h].status = "relayed" /\ reach[h] = {cluster[h]}
    /\ req[h].method # "HEAD"

GotOne(h) ==
    /\ Cached(h, "one") /\ Aimed(h) /\ reach[h] = {cluster[h]}
    /\ \/ answer[h].status = "absent"
       \/ /\ answer[h].status = "served"
          /\ \E g \in InForce(h) : cluster[h] \in built[g].clusters

GotList(h) ==
    /\ Cached(h, "list") /\ answer[h].status = "served"
    /\ \E g \in InForce(h) : reach[h] = Listed(g, req[h])
    /\ \E g \in InForce(h) : answer[h].kind = (req[h].resource \in built[g].cached)

Outcome(h) ==
    \/ Refused(h)
    \/ Admitted(h) /\ \/ FoundServices(h)
                      \/ LackedCluster(h)
                      \/ Panicked(h)
                      \/ FailedToPass(h)
                      \/ Relayed(h)
                      \/ GotOne(h)
                      \/ GotList(h)

\* What a handler knows at each of its stages.
Stage(h) ==
    /\ ctx[h].store # 0 => ctx[h].store \in InForce(h)
    /\ ctx[h].clients # 0 => ctx[h].clients \in InForce(h)
    /\ pc[h] # "done" => answer[h] = Nothing
    /\ pc[h] \in {"free", "auth", "capture", "one", "list", "pass", "send"} => reach[h] = {}
    /\ pc[h] \notin {"free", "auth", "done"} => Admitted(h)
    /\ pc[h] = "one" => Cached(h, "one") /\ Aimed(h) /\ ctx[h].store # 0
    /\ pc[h] = "list" => Cached(h, "list")
    /\ pc[h] = "kind" => /\ Cached(h, "list")
                         /\ \E g \in InForce(h) : reach[h] = Listed(g, req[h])
    /\ pc[h] = "pass" => /\ Passed(h) /\ ctx[h].clients # 0
                         /\ Aimed(h) \/ (cluster[h] = NoCluster /\ ~Named(req[h]))
    /\ pc[h] \in {"send", "wait", "relay", "orphan"} =>
           Passed(h) /\ Aimed(h) /\ Reachable(h) /\ req[h].method # "HEAD"
    /\ pc[h] \in {"wait", "relay", "orphan"} => reach[h] = {cluster[h]}
    /\ pc[h] = "wait" => Timed(h)
    /\ pc[h] = "done" => Outcome(h)

\* A client has a minute because a request that is no watch has set it.
TimeoutInv ==
    \A g \in 1..MaxGenerations, c \in Clusters :
        timeouts[g][c] = "short" =>
            \E k \in Handlers : /\ ~req[k].watch /\ pc[k] \in Passing
                                /\ ctx[k].clients = g /\ cluster[k] = c

LimitInv == \A h \in Handlers : limit[h] # "none" => pc[h] \in Passing

IInv ==
    /\ TypeOK
    /\ GenInv
    /\ \A h \in Handlers : Bounds(h) /\ Stage(h)
    /\ LimitInv
    /\ TimeoutInv
    /\ WatchLimit

-----------------------------------------------------------------------------
(* The generations. *)

\* What a step of a load may do to a generation: nothing; it may make another.
Grows ==
    /\ started => started'
    /\ cfg <= cfg' /\ clients <= clients' /\ Len(built) <= Len(built')
    /\ \A g \in 1..Len(built) : built'[g] = built[g]

LEMMA LoadStep ==
    ASSUME GenTypeOK, GenInv, Load
    PROVE  GenTypeOK' /\ GenInv' /\ Grows
<1> USE BoundAssumption DEF GenTypeOK, GenInv, Grows, Phases
<1>1. ASSUME NEW c \in Contents, Announce(c), Len(built) < MaxGenerations
      PROVE  GenTypeOK' /\ GenInv' /\ Grows
  <2>1. /\ built' \in Seq(Contents) /\ Len(built') = Len(built) + 1 /\ Len(built) \in Nat
        /\ \A g \in 1..Len(built) : built'[g] = built[g]
    BY <1>1, AppendProperties DEF Announce
  <2> QED
    BY <1>1, <2>1 DEF Announce
<1>2. CASE StartWatching
  <2>1. cfg \in 1..Len(built)
    BY <1>2 DEF StartWatching
  <2>2. running' \subseteq 1..Len(built)
    BY <1>2, <2>1 DEF StartWatching
  <2> QED
    BY <1>2, <2>2 DEF StartWatching
<1>3. CASE BuildServer
  BY <1>3 DEF BuildServer
<1>4. CASE StopWatching
  <2>1. running' \subseteq 1..Len(built)
    BY <1>4 DEF StopWatching
  <2> QED
    BY <1>4, <2>1 DEF StopWatching
<1>5. CASE SwapStore
  BY <1>5 DEF SwapStore
<1>6. CASE SwapClients
  BY <1>6 DEF SwapClients
<1> QED
  BY <1>1, <1>2, <1>3, <1>4, <1>5, <1>6 DEF Load, Replacing

LEMMA ContentType ==
    ASSUME GenTypeOK, NEW g \in 1..Len(built)
    PROVE  /\ built[g].default \in Clusters /\ built[g].clusters \subseteq Clusters
           /\ built[g].cached \subseteq Resources
<1>1. built[g] \in Content
  BY ContentsAssumption DEF GenTypeOK
<1> QED
  BY <1>1 DEF Content

LEMMA RequestType ==
    ASSUME TypeOK, NEW h \in Handlers
    PROVE  /\ req[h] \in Request
           /\ Named(req[h]) => FirstCluster(req[h]) \in Clusters
           /\ req[h].by = "in" => FirstCluster(req[h]) \in Searched(req[h])
           /\ req[h].by \in {"in", "notin"} => Searched(req[h]) \subseteq Clusters
           /\ req[h].by = "query" => req[h].extra
           /\ req[h].by = "path" => req[h].kind = "services"
<1>1. req[h] \in Requests[h]
  BY DEF TypeOK
<1>2. /\ req[h] \in Request
      /\ req[h].by = "none" <=> req[h].names = <<>>
      /\ req[h].by = "query" => req[h].extra
      /\ req[h].by = "path" => req[h].kind = "services"
  BY <1>1, RequestsAssumption
<1>3. req[h].names \in Seq(Clusters)
  BY <1>2 DEF Request
<1>4. Named(req[h]) => /\ Len(req[h].names) \in Nat /\ Len(req[h].names) >= 1
                       /\ FirstCluster(req[h]) = req[h].names[1]
  BY <1>2, <1>3, EmptySeq DEF Named, FirstCluster
<1>5. \A i \in 1..Len(req[h].names) : req[h].names[i] \in Clusters
  BY <1>3, ElementOfSeq
<1>6. Named(req[h]) => FirstCluster(req[h]) \in Clusters
  BY <1>4, <1>5
<1>7. req[h].by = "in" => FirstCluster(req[h]) \in Searched(req[h])
  BY <1>4 DEF Named, Searched
<1>8. req[h].by \in {"in", "notin"} => Searched(req[h]) \subseteq Clusters
  BY <1>5 DEF Searched
<1> QED
  BY <1>2, <1>6, <1>7, <1>8

LEMMA TargetType ==
    ASSUME TypeOK, NEW h \in Handlers, NEW g \in 1..Len(built)
    PROVE  Target(g, req[h]) \in Clusters
BY ContentType, RequestType DEF Target, TypeOK

\* The cluster that a request goes to is one that it asks for.
LEMMA TargetAsked ==
    ASSUME TypeOK, NEW h \in Handlers, NEW g \in 1..Len(built)
    PROVE  \/ Target(g, req[h]) \in Asked(g, req[h])
           \/ Negated(req[h]) /\ Target(g, req[h]) = FirstCluster(req[h])
BY RequestType DEF Target, Asked, Negated, Named

\* A list is of the clusters that the request asks for, or its mark is overlooked.
LEMMA ListedAsked ==
    ASSUME TypeOK, NEW h \in Handlers, NEW g, Cached(h, "list")
    PROVE  \/ Listed(g, req[h]) = Asked(g, req[h])
           \/ Overlooked(req[h]) /\ Listed(g, req[h]) = {built[g].default}
<1>1. req[h].kind = "list" /\ ~req[h].extra
  BY DEF Cached, PassedOn
<1>2. req[h].by \in {"none", "mark", "in", "notin"}
  BY <1>1, RequestType DEF Request
<1> QED
  BY <1>1, <1>2 DEF Listed, Asked, Target, Named, Overlooked

-----------------------------------------------------------------------------
(* One step of a handler. *)

\* All that a handler has of its own, but for the body.
Own(h) ==
    <<pc[h], req[h], arrived[h], ended[h], ctx[h], cluster[h], limit[h], reach[h], answer[h]>>

LEMMA ServeGens ==
    ASSUME NEW h \in Handlers, Serve(h)
    PROVE  UNCHANGED <<genVars, req>>
BY DEF Serve, Handling, Arrive, Authorize, CaptureStore, CaptureClients, Parse, GetOne,
       RestrictList, Reply, Deploy2Service, ProxyPass, Send, Stream, Answered,
                Unreachable, Expire, Leave

LEMMA Others ==
    ASSUME TypeOK, NEW h \in Handlers, Serve(h), NEW k \in Handlers \ {h}
    PROVE  UNCHANGED Own(k)
<1> USE DEF TypeOK, Own, At, Goto, End
<1>1. CASE Arrive(h) \/ Authorize(h) \/ CaptureStore(h) \/ CaptureClients(h)
  BY <1>1 DEF Arrive, Authorize, CaptureStore, CaptureClients
<1>2. CASE Parse(h) \/ GetOne(h) \/ RestrictList(h) \/ Reply(h) \/ Deploy2Service(h)
  BY <1>2 DEF Parse, GetOne, RestrictList, Reply, Deploy2Service
<1>3. CASE ProxyPass(h) \/ Send(h)
  BY <1>3 DEF ProxyPass, Send
<1>4. CASE Stream(h) \/ Answered(h) \/ Unreachable(h) \/ Expire(h) \/ Leave(h)
  BY <1>4 DEF Stream, Answered, Unreachable, Expire, Leave
<1> QED
  BY <1>1, <1>2, <1>3, <1>4 DEF Serve, Handling

LEMMA NowInForce ==
    ASSUME TypeOK, GenInv, NEW h \in Handlers, Bounds(h)
    PROVE  /\ InForce(h) \subseteq 1..Len(built)
           /\ pc[h] \notin {"free", "done"} =>
                  {cfg, store, clients} \subseteq InForce(h) /\ cfg \in 1..Len(built)
BY DEF TypeOK, GenTypeOK, GenInv, Bounds, InForce, At, Known

\* The generations in force during a request become more, and stay what they are.
LEMMA InForceGrows ==
    ASSUME TypeOK, GenInv, NEW h \in Handlers, Bounds(h), Grows, TypeOK', GenInv',
           pc[h] # "free", arrived'[h] = arrived[h],
           \/ pc'[h] = pc[h] /\ ended'[h] = ended[h]
           \/ pc[h] # "done" /\ pc'[h] # "done"
           \/ pc[h] # "done" /\ ended'[h] = cfg'
    PROVE  /\ InForce(h) \subseteq InForce(h)'
           /\ \A g \in InForce(h) : built'[g] = built[g]
<1>1. /\ Len(built) \in Nat /\ Len(built') \in Nat /\ Len(built) <= Len(built')
      /\ cfg \in Nat /\ cfg' \in Nat /\ cfg <= cfg'
      /\ \A g \in 1..Len(built) : built'[g] = built[g]
  BY DEF TypeOK, GenTypeOK, Grows
<1>2. ended[h] \in Nat /\ ended'[h] \in Nat
  BY DEF TypeOK, GenTypeOK, Known
<1>3. pc[h] = "done" => ended[h] <= cfg
  BY DEF Bounds
<1> DEFINE last == IF pc[h] = "done" THEN ended[h] ELSE cfg
           later == IF pc'[h] = "done" THEN ended'[h] ELSE cfg'
<1>4. last \in Nat /\ later \in Nat /\ last <= later
  BY <1>1, <1>2, <1>3
<1>5. /\ InForce(h) = {g \in 1..Len(built) : arrived[h] <= g /\ g <= last}
      /\ InForce(h)' = {g \in 1..Len(built') : arrived[h] <= g /\ g <= later}
  BY DEF InForce, At
<1> HIDE DEF last, later
<1>6. \A g \in 1..Len(built) : g \in 1..Len(built') /\ (g <= last => g <= later)
  BY <1>1, <1>4
<1> QED
  BY <1>1, <1>5, <1>6

-----------------------------------------------------------------------------
(* Typing. *)

Stages == {"free", "auth", "capture", "one", "list", "kind", "pass", "send", "wait",
           "relay", "orphan", "done"}

EndTyped ==
    /\ pc' \in [Handlers -> Stages] /\ ended' \in [Handlers -> Known']
    /\ answer' \in [Handlers -> [status : Answers, kind : BOOLEAN]]

LEMMA EndType ==
    ASSUME TypeOK, UNCHANGED genVars, NEW h \in Handlers,
           NEW status \in Answers, NEW kind \in BOOLEAN, End(h, status, kind)
    PROVE  EndTyped
<1>1. [status |-> status, kind |-> kind] \in [status : Answers, kind : BOOLEAN]
  OBVIOUS
<1>2. cfg \in Known /\ Known' = Known
  BY DEF TypeOK, GenTypeOK, Known, genVars
<1>3. pc' = [pc EXCEPT ![h] = "done"] /\ pc' \in [Handlers -> Stages]
  BY DEF End, Goto, TypeOK, Stages
<1> QED
  BY <1>1, <1>2, <1>3 DEF End, EndTyped, TypeOK

LEMMA ServeType ==
    ASSUME TypeOK, GenInv, NEW h \in Handlers, Bounds(h), Stage(h), Serve(h)
    PROVE  TypeOK'
<1>1. UNCHANGED genVars /\ GenTypeOK' /\ UNCHANGED Known
  BY ServeGens DEF TypeOK, genVars, GenTypeOK, Known
<1> USE <1>1
<1> HIDE DEF Known
<1>e. ASSUME EndTyped,
             UNCHANGED <<req, arrived, ctx, body, limit>>,
             cluster' \in [Handlers -> Clusters \cup {NoCluster}],
             timeouts' \in [1..MaxGenerations -> [Clusters -> Limits]],
             reach' \in [Handlers -> SUBSET Clusters]
      PROVE  TypeOK'
  BY <1>e DEF EndTyped, TypeOK, Stages
<1>g. ASSUME NEW l \in Stages, Goto(h, l), UNCHANGED <<ended, answer>> PROVE EndTyped
  BY <1>g DEF Goto, EndTyped, TypeOK, Stages
<1>2. CASE Arrive(h)
  <2>1. clients \in Known
    BY DEF TypeOK, GenTypeOK, Known
  <2> QED
    BY <1>2, <2>1 DEF Arrive, At, Goto, TypeOK
<1>3. CASE Authorize(h)
  <2>1. EndTyped
    <3>1. CASE Admits(cfg, req[h])
      BY <1>3, <1>g, <3>1 DEF Authorize, Stages
    <3>2. CASE ~Admits(cfg, req[h])
      <4>1. End(h, "unauthorized", FALSE)
        BY <1>3, <3>2 DEF Authorize
      <4> QED
        BY <4>1, EndType DEF Answers
    <3> QED
      BY <3>1, <3>2
  <2> QED
    BY <1>3, <1>e, <2>1 DEF Authorize, TypeOK
<1>4. CASE CaptureStore(h) \/ CaptureClients(h)
  <2>1. {store, clients} \subseteq Known
    BY DEF TypeOK, GenTypeOK, Known
  <2>2. ctx' \in [Handlers -> [store : Known, clients : Known]]
    <3>1. ctx[h] \in [store : Known, clients : Known]
      BY DEF TypeOK
    <3>2. /\ [ctx[h] EXCEPT !.store = store] \in [store : Known, clients : Known]
          /\ [ctx[h] EXCEPT !.clients = clients] \in [store : Known, clients : Known]
      BY <2>1, <3>1
    <3>3. \/ ctx' = [ctx EXCEPT ![h] = [ctx[h] EXCEPT !.store = store]]
          \/ ctx' = [ctx EXCEPT ![h] = [ctx[h] EXCEPT !.clients = clients]]
      BY <1>4 DEF CaptureStore, CaptureClients
    <3> QED
      BY <3>2, <3>3 DEF TypeOK
  <2> QED
    BY <1>4, <2>2 DEF CaptureStore, CaptureClients, TypeOK
<1>5. CASE Parse(h)
  <2>1. built[cfg].default \in Clusters
    BY <1>5, NowInForce, ContentType DEF Parse, Captured, At, TypeOK
  <2>2. cluster' \in [Handlers -> Clusters \cup {NoCluster}]
    BY <1>5, <2>1, RequestType DEF Parse, TypeOK
  <2>3. body' \in [Handlers -> BOOLEAN]
    BY <1>5, RequestType DEF Parse, BodyAfterParsing, TypeOK, Request
  <2>4. pc' \in [Handlers -> Stages]
    BY <1>5, RequestType DEF Parse, Goto, TypeOK, Request, Stages
  <2> QED
    BY <1>5, <2>2, <2>3, <2>4 DEF Parse, TypeOK, Stages
<1>6. CASE GetOne(h)
  <2>1. cluster[h] \in Clusters
    BY <1>6, NowInForce, TargetType DEF GetOne, Stage, Aimed, At
  <2>2. reach' \in [Handlers -> SUBSET Clusters]
    BY <1>6, <2>1 DEF GetOne, TypeOK
  <2>3. EndTyped
    <3>1. End(h, "served", TRUE) \/ End(h, "absent", FALSE)
      BY <1>6 DEF GetOne
    <3> QED
      BY <3>1, EndType DEF Answers
  <2> QED
    BY <1>6, <1>e, <2>2, <2>3 DEF GetOne, TypeOK
<1>7. CASE RestrictList(h)
  <2>1. built[cfg].default \in Clusters
    BY <1>7, NowInForce, ContentType DEF RestrictList, At, TypeOK
  <2>2. reach' \in [Handlers -> SUBSET Clusters]
    BY <1>7, <2>1, RequestType DEF RestrictList, Listed, TypeOK
  <2>3. EndTyped
    BY <1>7, <1>g DEF RestrictList, Stages
  <2> QED
    BY <1>7, <1>e, <2>2, <2>3 DEF RestrictList, TypeOK
<1>8. CASE Reply(h)
  <2>1. EndTyped
    <3> DEFINE kind == req[h].resource \in built[cfg].cached
    <3>1. kind \in BOOLEAN
      OBVIOUS
    <3>2. End(h, "served", kind) /\ "served" \in Answers
      BY <1>8 DEF Reply, Answers
    <3> HIDE DEF kind
    <3> QED
      BY <3>1, <3>2, EndType
  <2> QED
    BY <1>8, <1>e, <2>1 DEF Reply, TypeOK
<1>9. CASE Deploy2Service(h)
  <2>1. Target(cfg, req[h]) \in Clusters
    BY <1>9, NowInForce, TargetType DEF Deploy2Service, Captured, At
  <2>2. reach' = [reach EXCEPT ![h] = {Target(cfg, req[h])}]
    BY <1>9 DEF Deploy2Service, Target
  <2>3. reach' \in [Handlers -> SUBSET Clusters]
    BY <2>1, <2>2 DEF TypeOK
  <2>4. EndTyped
    <3>1. End(h, "served", TRUE) \/ End(h, "panicked", FALSE)
      BY <1>9 DEF Deploy2Service
    <3> QED
      BY <3>1, EndType DEF Answers
  <2> QED
    BY <1>9, <1>e, <2>3, <2>4 DEF Deploy2Service, TypeOK
<1>10. CASE ProxyPass(h)
  <2>1. built[cfg].default \in Clusters
    BY <1>10, NowInForce, ContentType DEF ProxyPass, At, TypeOK
  <2>2. cluster' \in [Handlers -> Clusters \cup {NoCluster}]
    BY <1>10, <2>1 DEF ProxyPass, TypeOK
  <2>3. timeouts' \in [1..MaxGenerations -> [Clusters -> Limits]]
    <3>1. Allowance(req[h]) \in Limits
      BY DEF Allowance, Limits
    <3>2. ASSUME NEW c \in Clusters \cup {NoCluster}, SetTimeout(h, c)
          PROVE  timeouts' \in [1..MaxGenerations -> [Clusters -> Limits]]
      BY <3>1, <3>2 DEF SetTimeout, TypeOK
    <3>3. (\E c \in Clusters \cup {NoCluster} : SetTimeout(h, c)) \/ UNCHANGED timeouts
      BY <1>10, <2>1 DEF ProxyPass, TypeOK
    <3> QED
      BY <3>2, <3>3 DEF TypeOK
  <2>4. EndTyped
    <3>1. \/ End(h, "noCluster", FALSE) \/ End(h, "panicked", FALSE)
          \/ Goto(h, "send") /\ UNCHANGED <<ended, answer>>
      BY <1>10 DEF ProxyPass
    <3> QED
      BY <1>g, <3>1, EndType DEF Answers, Stages
  <2>5. UNCHANGED <<req, arrived, ctx, body, limit, reach>>
    BY <1>10 DEF ProxyPass
  <2> QED
    BY <1>e, <2>2, <2>3, <2>4, <2>5 DEF TypeOK
<1>11. CASE Send(h)
  <2>1. cluster[h] \in Clusters
    BY <1>11, NowInForce, TargetType DEF Send, Stage, Aimed, At
  <2>2. limit' \in [Handlers -> Limits]
    <3>1. Allowance(req[h]) \in Limits
      BY DEF Allowance, Limits
    <3>2. \A m : Shorter(Allowance(req[h]), m) \in Limits
      BY <3>1 DEF Shorter, Limits
    <3> QED
      BY <1>11, <3>2 DEF Send, TypeOK
  <2>3. reach' \in [Handlers -> SUBSET Clusters] /\ pc' \in [Handlers -> Stages]
    BY <1>11, <2>1 DEF Send, Goto, TypeOK, Stages
  <2> QED
    BY <1>11, <2>2, <2>3 DEF Send, TypeOK, Stages
<1>12. CASE Answered(h) \/ Unreachable(h) \/ Expire(h)
  <2>1. EndTyped
    <3>1. \/ End(h, "relayed", TRUE) \/ End(h, "unreachable", FALSE)
          \/ End(h, "expired", FALSE)
      BY <1>12 DEF Answered, Unreachable, Expire
    <3> QED
      BY <3>1, EndType DEF Answers
  <2> QED
    BY <1>12, <1>e, <2>1 DEF Answered, Unreachable, Expire, TypeOK
<1>13. CASE Stream(h) \/ Leave(h)
  BY <1>13 DEF Stream, Leave, Goto, TypeOK, Stages
<1> QED
  BY <1>2, <1>3, <1>4, <1>5, <1>6, <1>7, <1>8, <1>9, <1>10, <1>11, <1>12, <1>13
  DEF Serve, Handling

-----------------------------------------------------------------------------
(* What a handler knows stays true. *)

\* The generations in force may become more, and stay what they are.
InForceKept(h) ==
    /\ InForce(h) \subseteq InForce(h)'
    /\ \A g \in InForce(h) : built'[g] = built[g]

LEMMA SameGeneration ==
    ASSUME NEW g, built'[g] = built[g], NEW r
    PROVE  /\ Admits(g, r)' = Admits(g, r) /\ PassedOn(g, r)' = PassedOn(g, r)
           /\ Target(g, r)' = Target(g, r) /\ Listed(g, r)' = Listed(g, r)
BY DEF Admits, PassedOn, Target, Listed

LEMMA FactsKept ==
    ASSUME NEW h \in Handlers, InForceKept(h), req'[h] = req[h]
    PROVE  /\ Admitted(h) => Admitted(h)'
           /\ Passed(h) => Passed(h)'
           /\ \A kind : Cached(h, kind) => Cached(h, kind)'
           /\ cluster'[h] = cluster[h] /\ Aimed(h) => Aimed(h)'
           /\ cluster'[h] = cluster[h] /\ ctx'[h] = ctx[h] /\ Reachable(h) => Reachable(h)'
<1>1. \A g \in InForce(h) :
          /\ g \in InForce(h)'
          /\ built'[g] = built[g]
          /\ Admits(g, req[h])' = Admits(g, req[h])
          /\ PassedOn(g, req[h])' = PassedOn(g, req[h])
          /\ Target(g, req[h])' = Target(g, req[h])
  BY SameGeneration DEF InForceKept, Admits, PassedOn, Target, Named
<1> QED
  BY <1>1 DEF Admitted, Passed, Cached, Aimed, Reachable

LEMMA OutcomeKept ==
    ASSUME NEW h \in Handlers, InForceKept(h), UNCHANGED Own(h), Outcome(h)
    PROVE  Outcome(h)'
<1>1. \A g \in InForce(h) :
          /\ g \in InForce(h)'
          /\ built'[g] = built[g]
          /\ Admits(g, req[h])' = Admits(g, req[h])
          /\ Target(g, req[h])' = Target(g, req[h])
          /\ Listed(g, req[h])' = Listed(g, req[h])
  BY DEF InForceKept, Own, Admits, Target, Listed
<1>2. UNCHANGED <<cluster[h], limit[h], reach[h], answer[h], req[h]>>
  BY DEF Own
<1>3. /\ Admitted(h) => Admitted(h)'
      /\ Passed(h) => Passed(h)'
      /\ \A kind : Cached(h, kind) => Cached(h, kind)'
      /\ Aimed(h) => Aimed(h)'
      /\ Reachable(h) => Reachable(h)'
  BY FactsKept DEF Own
<1> HIDE DEF Admitted, Passed, Cached, Aimed, Reachable
<1>4. Refused(h) => Refused(h)'
  BY <1>1, <1>2 DEF Refused
<1>5. FoundServices(h) => FoundServices(h)'
  BY <1>1, <1>2 DEF FoundServices
<1>6. LackedCluster(h) => LackedCluster(h)'
  BY <1>1, <1>2, <1>3 DEF LackedCluster
<1>7. (Panicked(h) => Panicked(h)') /\ (FailedToPass(h) => FailedToPass(h)')
  BY <1>2, <1>3 DEF Panicked, FailedToPass, Timed, Allowance
<1>8. Relayed(h) => Relayed(h)'
  BY <1>2, <1>3 DEF Relayed
<1>9. GotOne(h) => GotOne(h)'
  BY <1>1, <1>2, <1>3 DEF GotOne
<1>10. GotList(h) => GotList(h)'
  BY <1>1, <1>2, <1>3 DEF GotList
<1> QED
  BY <1>3, <1>4, <1>5, <1>6, <1>7, <1>8, <1>9, <1>10 DEF Outcome

\* The steps of others do not disturb a handler.
LEMMA OthersKeep ==
    ASSUME TypeOK, GenInv, NEW h \in Handlers, Bounds(h), Stage(h),
           TypeOK', GenInv', Grows, UNCHANGED Own(h)
    PROVE  Bounds(h)' /\ Stage(h)'
<1>1. UNCHANGED <<pc[h], req[h], arrived[h], ended[h], ctx[h], cluster[h], limit[h],
                  reach[h], answer[h]>>
  BY DEF Own
<1>2. Bounds(h)'
  BY <1>1 DEF Bounds, Grows, TypeOK, GenTypeOK, Known
<1>3. CASE pc[h] = "free"
  BY <1>1, <1>3 DEF Stage, Bounds
<1>4. CASE pc[h] # "free"
  <2>1. InForceKept(h)
    BY <1>1, <1>4, InForceGrows DEF InForceKept
  <2>2. Outcome(h) => Outcome(h)'
    BY <2>1, OutcomeKept
  <2>3. /\ Admitted(h) => Admitted(h)'
        /\ Passed(h) => Passed(h)'
        /\ \A kind : Cached(h, kind) => Cached(h, kind)'
        /\ Aimed(h) => Aimed(h)'
        /\ Reachable(h) => Reachable(h)'
    BY <1>1, <2>1, FactsKept
  <2>4. (\E g \in InForce(h) : reach[h] = Listed(g, req[h]))
            => \E g \in InForce(h)' : reach'[h] = Listed(g, req[h])'
    BY <1>1, <2>1 DEF InForceKept, Listed
  <2>5. /\ ctx[h].store \in InForce(h) => ctx[h].store \in InForce(h)'
        /\ ctx[h].clients \in InForce(h) => ctx[h].clients \in InForce(h)'
    BY <2>1 DEF InForceKept
  <2> QED
    <3>1. /\ pc[h] # "done" => answer[h] = Nothing
          /\ pc[h] \in {"free", "auth", "capture", "one", "list", "pass", "send"}
                 => reach[h] = {}
          /\ pc[h] \in {"wait", "relay", "orphan"} => reach[h] = {cluster[h]}
          /\ pc[h] = "wait" => Timed(h)'
          /\ ctx[h].store # 0 => ctx[h].store \in InForce(h)'
          /\ ctx[h].clients # 0 => ctx[h].clients \in InForce(h)'
      BY <1>1, <2>5 DEF Stage, Timed, Allowance
    <3>2. /\ pc[h] \notin {"free", "auth", "done"} => Admitted(h)'
          /\ pc[h] = "one" => Cached(h, "one")' /\ Aimed(h)' /\ ctx[h].store # 0
          /\ pc[h] = "list" => Cached(h, "list")'
      BY <2>3 DEF Stage
    <3>3. pc[h] = "kind" => /\ Cached(h, "list")'
                            /\ \E g \in InForce(h)' : reach'[h] = Listed(g, req[h])'
      BY <2>3, <2>4 DEF Stage
    <3>4. /\ pc[h] = "pass" => /\ Passed(h)' /\ ctx[h].clients # 0
                               /\ Aimed(h)' \/ (cluster[h] = NoCluster /\ ~Named(req[h]))
          /\ pc[h] \in {"send", "wait", "relay", "orphan"}
                 => Passed(h)' /\ Aimed(h)' /\ Reachable(h)' /\ req[h].method # "HEAD"
          /\ pc[h] = "done" => Outcome(h)'
      BY <2>2, <2>3 DEF Stage
    <3> QED
      BY <1>1, <1>2, <3>1, <3>2, <3>3, <3>4 DEF Stage
<1> QED
  BY <1>2, <1>3, <1>4

-----------------------------------------------------------------------------
(* The steps of a handler itself. *)

\* What holds of a handler at the end, and of one that has just got further.
LEMMA InForceSame ==
    ASSUME TypeOK, GenInv, NEW h \in Handlers, Bounds(h), UNCHANGED <<genVars, req, arrived>>,
           pc[h] \notin {"free", "done"}, pc'[h] # "free",
           pc'[h] = "done" => ended'[h] = cfg
    PROVE  /\ InForce(h)' = InForce(h)
           /\ InForceKept(h)
           /\ Bounds(h)'
<1>1. UNCHANGED <<built, cfg, store, clients, started, arrived[h]>>
  BY DEF genVars
<1>2. InForce(h)' = InForce(h)
  BY <1>1 DEF InForce, At
<1>3. arrived[h] <= cfg
  BY DEF Bounds, GenInv, TypeOK, GenTypeOK, Known
<1>4. cfg <= cfg
  BY DEF TypeOK, GenTypeOK
<1>5. Bounds(h)'
  BY <1>1, <1>3, <1>4 DEF Bounds
<1> QED
  BY <1>1, <1>2, <1>5 DEF InForceKept

LEMMA EndStep ==
    ASSUME TypeOK, GenInv, NEW h \in Handlers, Bounds(h), Stage(h),
           UNCHANGED <<genVars, req, arrived, ctx>>, pc[h] \notin {"free", "done"},
           NEW status, NEW kind, End(h, status, kind), Outcome(h)'
    PROVE  Bounds(h)' /\ Stage(h)'
<1>1. pc'[h] = "done" /\ ended'[h] = cfg
  BY DEF End, Goto, TypeOK
<1>2. InForce(h)' = InForce(h) /\ Bounds(h)'
  BY <1>1, InForceSame
<1> QED
  BY <1>1, <1>2 DEF Stage

LEMMA GoOnStep ==
    ASSUME TypeOK, GenInv, NEW h \in Handlers, Bounds(h), Stage(h),
           UNCHANGED <<genVars, req, arrived, answer>>, pc[h] \notin {"free", "done"},
           pc'[h] \notin {"free", "done"}
    PROVE  /\ Bounds(h)' /\ InForce(h)' = InForce(h) /\ InForceKept(h)
           /\ answer'[h] = Nothing /\ req'[h] = req[h]
           /\ Admitted(h) => Admitted(h)'
           /\ Passed(h) => Passed(h)'
           /\ \A kind : Cached(h, kind) => Cached(h, kind)'
<1>1. Bounds(h)' /\ InForce(h)' = InForce(h) /\ InForceKept(h)
  BY InForceSame
<1>2. answer'[h] = Nothing /\ req'[h] = req[h]
  BY DEF Stage
<1> QED
  BY <1>1, <1>2, FactsKept

LEMMA ReadingSteps ==
    ASSUME TypeOK, GenInv, NEW h \in Handlers, Bounds(h), Stage(h), TypeOK',
           Arrive(h) \/ Authorize(h) \/ CaptureStore(h) \/ CaptureClients(h)
    PROVE  Bounds(h)' /\ Stage(h)'
<1> USE DEF At
<1>1. CASE Arrive(h)
  <2>1. /\ pc[h] = "free" /\ pc'[h] = "auth" /\ arrived'[h] = clients /\ started
        /\ UNCHANGED <<genVars, req, ctx, reach, answer>>
    BY <1>1 DEF Arrive, Goto, TypeOK
  <2>2. Bounds(h)'
    BY <2>1 DEF Bounds, GenInv, TypeOK, GenTypeOK, genVars
  <2>3. ctx[h].store = 0 /\ ctx[h].clients = 0
    BY <2>1 DEF Bounds
  <2> QED
    BY <2>1, <2>2, <2>3 DEF Stage
<1>2. CASE Authorize(h)
  <2>1. /\ pc[h] = "auth" /\ UNCHANGED <<genVars, req, arrived, ctx, reach>>
        /\ cfg \in InForce(h) /\ reach[h] = {}
    BY <1>2, NowInForce DEF Authorize, Stage
  <2>2. CASE Admits(cfg, req[h])
    <3>1. pc'[h] = "capture" /\ UNCHANGED answer
      BY <1>2, <2>2 DEF Authorize, Goto, TypeOK
    <3>2. Admitted(h)
      BY <2>1, <2>2 DEF Admitted
    <3>3. Bounds(h)' /\ InForce(h)' = InForce(h) /\ answer'[h] = Nothing /\ Admitted(h)'
      BY <2>1, <3>1, <3>2, GoOnStep
    <3> QED
      BY <2>1, <3>1, <3>3 DEF Stage
  <2>3. CASE ~Admits(cfg, req[h])
    <3>1. End(h, "unauthorized", FALSE)
      BY <1>2, <2>3 DEF Authorize
    <3>2. /\ pc'[h] = "done" /\ ended'[h] = cfg
          /\ answer'[h] = [status |-> "unauthorized", kind |-> FALSE]
      BY <3>1 DEF End, Goto, TypeOK
    <3>3. InForce(h)' = InForce(h)
      BY <2>1, <3>2, InForceSame
    <3>4. ~Admits(cfg, req[h])'
      BY <2>1, <2>3 DEF Admits, genVars
    <3>5. Refused(h)'
      BY <2>1, <3>2, <3>3, <3>4 DEF Refused, genVars
    <3> QED
      BY <2>1, <3>1, <3>5, EndStep DEF Outcome
  <2> QED
    BY <2>2, <2>3
<1>3. CASE CaptureStore(h) \/ CaptureClients(h)
  <2>1. /\ pc[h] = "capture"
        /\ UNCHANGED <<genVars, pc, req, arrived, reach, answer>>
        /\ {store, clients} \subseteq InForce(h)
    BY <1>3, NowInForce DEF CaptureStore, CaptureClients
  <2>2. /\ ctx'[h].store \in {ctx[h].store, store}
        /\ ctx'[h].clients \in {ctx[h].clients, clients}
    BY <1>3 DEF CaptureStore, CaptureClients, TypeOK
  <2>3. Admitted(h)
    BY <2>1 DEF Stage
  <2>4. Bounds(h)' /\ InForce(h)' = InForce(h) /\ answer'[h] = Nothing /\ Admitted(h)'
    BY <2>1, <2>3, GoOnStep
  <2> QED
    BY <2>1, <2>2, <2>4 DEF Stage
<1> QED
  BY <1>1, <1>2, <1>3

LEMMA ParsingSteps ==
    ASSUME TypeOK, GenInv, NEW h \in Handlers, Bounds(h), Stage(h), TypeOK', Parse(h)
    PROVE  Bounds(h)' /\ Stage(h)'
<1> USE DEF At
<1> DEFINE r == req[h]
           next == IF PassedOn(ctx[h].store, r) THEN "pass" ELSE r.kind
<1>1. /\ pc[h] = "capture" /\ ctx[h].store # 0 /\ ctx[h].clients # 0
      /\ r.kind # "services"
      /\ pc'[h] = next
      /\ UNCHANGED <<genVars, req, arrived, ctx, reach, answer>>
  BY DEF Parse, Captured, Goto, TypeOK
<1>2. {cfg, ctx[h].store, ctx[h].clients} \subseteq InForce(h)
  BY <1>1, NowInForce DEF Stage
<1>3. r.kind \in {"one", "list"}
  BY <1>1, RequestType DEF Request
<1>4. pc'[h] \in {"pass", "one", "list"}
  BY <1>1, <1>3
<1>5. Admitted(h)
  BY <1>1 DEF Stage
<1>6. /\ Bounds(h)' /\ InForce(h)' = InForce(h) /\ InForceKept(h)
      /\ answer'[h] = Nothing /\ req'[h] = req[h]
      /\ Admitted(h)'
      /\ Passed(h) => Passed(h)'
      /\ \A kind : Cached(h, kind) => Cached(h, kind)'
  BY <1>1, <1>4, <1>5, GoOnStep
<1>7. /\ cluster'[h] = IF Named(r) THEN FirstCluster(r)
                       ELSE IF r.readable THEN built[cfg].default ELSE NoCluster
      /\ Named(r)' = Named(r) /\ FirstCluster(r)' = FirstCluster(r)
  BY <1>1 DEF Parse, TypeOK, Named, FirstCluster
<1>8. Target(cfg, r)' = Target(cfg, r) /\ UNCHANGED built
  BY <1>1 DEF Target, genVars, Named, FirstCluster
<1>9. Named(r) \/ r.readable => Aimed(h)'
  BY <1>2, <1>6, <1>7, <1>8 DEF Aimed, Target, genVars
<1>10. reach'[h] = {} /\ ctx'[h] = ctx[h] /\ {ctx[h].store, ctx[h].clients} \subseteq InForce(h)'
  BY <1>1, <1>2, <1>6 DEF Stage
<1>11. CASE PassedOn(ctx[h].store, r)
  <2>1. Passed(h)'
    BY <1>1, <1>2, <1>6, <1>11 DEF Passed
  <2>2. Aimed(h)' \/ (cluster'[h] = NoCluster /\ ~Named(req[h])')
    BY <1>6, <1>7, <1>9
  <2> HIDE DEF r
  <2> QED
    BY <1>1, <1>6, <1>10, <1>11, <2>1, <2>2 DEF Stage
<1>12. CASE ~PassedOn(ctx[h].store, r)
  <2>1. Cached(h, r.kind)'
    <3>1. Cached(h, r.kind)
      BY <1>2, <1>12 DEF Cached
    <3> QED
      BY <1>6, <3>1
  <2>2. Aimed(h)'
    BY <1>9, <1>12 DEF PassedOn
  <2>3. pc'[h] = r.kind
    BY <1>1, <1>12
  <2> QED
    BY <1>1, <1>3, <1>6, <1>10, <2>1, <2>2, <2>3 DEF Stage
<1> QED
  BY <1>11, <1>12

LEMMA CacheSteps ==
    ASSUME TypeOK, GenInv, NEW h \in Handlers, Bounds(h), Stage(h), TypeOK',
           GetOne(h) \/ RestrictList(h) \/ Reply(h) \/ Deploy2Service(h)
    PROVE  Bounds(h)' /\ Stage(h)'
<1> USE DEF At
<1>1. /\ pc[h] \in {"one", "list", "kind", "capture"}
      /\ UNCHANGED <<genVars, req, arrived, ctx, cluster>>
      /\ Admitted(h)
  BY DEF GetOne, RestrictList, Reply, Deploy2Service, Captured, Stage
<1>2. cfg \in InForce(h) /\ UNCHANGED built
  BY <1>1, NowInForce DEF genVars
\* What a step that ends the request has to show.
<1>e. ASSUME NEW status, NEW kind, End(h, status, kind)
      PROVE  /\ answer'[h] = [status |-> status, kind |-> kind]
             /\ InForce(h)' = InForce(h) /\ Admitted(h)'
             /\ \A k : Cached(h, k) => Cached(h, k)'
             /\ Aimed(h) => Aimed(h)'
             /\ Outcome(h)' => Bounds(h)' /\ Stage(h)'
  <2>1. pc'[h] = "done" /\ ended'[h] = cfg /\ answer'[h] = [status |-> status, kind |-> kind]
    BY <1>e DEF End, Goto, TypeOK
  <2>2. InForce(h)' = InForce(h) /\ InForceKept(h)
    BY <1>1, <2>1, InForceSame
  <2>3. req'[h] = req[h] /\ cluster'[h] = cluster[h]
    BY <1>1
  <2>4. Outcome(h)' => Bounds(h)' /\ Stage(h)'
    BY <1>1, <1>e, EndStep
  <2> QED
    BY <1>1, <2>1, <2>2, <2>3, <2>4, FactsKept
<1>3. CASE GetOne(h)
  <2>1. /\ pc[h] = "one" /\ reach'[h] = {cluster[h]}
        /\ \/ cluster[h] \in built[ctx[h].store].clusters /\ End(h, "served", TRUE)
           \/ End(h, "absent", FALSE)
    BY <1>3 DEF GetOne, TypeOK
  <2>2. Cached(h, "one") /\ Aimed(h) /\ ctx[h].store \in InForce(h)
    BY <2>1 DEF Stage
  <2>3. /\ InForce(h)' = InForce(h) /\ Admitted(h)' /\ Cached(h, "one")' /\ Aimed(h)'
        /\ \/ /\ cluster[h] \in built[ctx[h].store].clusters
              /\ answer'[h] = [status |-> "served", kind |-> TRUE]
           \/ answer'[h] = [status |-> "absent", kind |-> FALSE]
        /\ Outcome(h)' => Bounds(h)' /\ Stage(h)'
    BY <1>e, <2>1, <2>2
  <2>4. GotOne(h)'
    BY <1>1, <1>2, <2>1, <2>2, <2>3 DEF GotOne
  <2> QED
    BY <2>3, <2>4 DEF Outcome
<1>4. CASE RestrictList(h)
  <2>1. /\ pc[h] = "list" /\ pc'[h] = "kind" /\ UNCHANGED answer
        /\ reach'[h] = Listed(cfg, req[h])
    BY <1>4 DEF RestrictList, Goto, TypeOK
  <2>2. Cached(h, "list")
    BY <2>1 DEF Stage
  <2>5. /\ Bounds(h)' /\ InForce(h)' = InForce(h) /\ answer'[h] = Nothing
        /\ Admitted(h)' /\ Cached(h, "list")'
    BY <1>1, <2>1, <2>2, GoOnStep
  <2>6. Listed(cfg, req[h])' = Listed(cfg, req[h])
    BY <1>1 DEF Listed, genVars
  <2>7. \E g \in InForce(h)' : reach'[h] = Listed(g, req[h])'
    <3> HIDE DEF Listed
    <3> QED
      BY <1>1, <1>2, <2>1, <2>5, <2>6 DEF genVars
  <2>8. /\ ctx'[h].store # 0 => ctx'[h].store \in InForce(h)'
        /\ ctx'[h].clients # 0 => ctx'[h].clients \in InForce(h)'
    BY <1>1, <2>5 DEF Stage
  <2> QED
    BY <2>1, <2>5, <2>7, <2>8 DEF Stage
<1>5. CASE Reply(h)
  <2>1. /\ pc[h] = "kind" /\ UNCHANGED reach
        /\ End(h, "served", req[h].resource \in built[cfg].cached)
    BY <1>5 DEF Reply
  <2>2. Cached(h, "list") /\ \E g \in InForce(h) : reach[h] = Listed(g, req[h])
    BY <2>1 DEF Stage
  <2>3. /\ answer'[h] = [status |-> "served", kind |-> req[h].resource \in built[cfg].cached]
        /\ InForce(h)' = InForce(h) /\ Admitted(h)' /\ Cached(h, "list")'
        /\ Outcome(h)' => Bounds(h)' /\ Stage(h)'
    BY <1>e, <2>1, <2>2
  <2>4. \E g \in InForce(h)' : reach'[h] = Listed(g, req[h])'
    BY <1>1, <1>2, <2>1, <2>2, <2>3 DEF Listed
  <2>5. \E g \in InForce(h)' : answer'[h].kind = (req'[h].resource \in built'[g].cached)
    BY <1>1, <1>2, <2>3
  <2>6. GotList(h)'
    BY <2>3, <2>4, <2>5 DEF GotList
  <2> QED
    BY <2>3, <2>6 DEF Outcome
<1>6. CASE Deploy2Service(h)
  <2>1. /\ req[h].kind = "services" /\ pc[h] = "capture"
        /\ ctx[h].store # 0 /\ reach'[h] = {Target(cfg, req[h])}
        /\ IF Workloads \subseteq built[ctx[h].store].cached
           THEN End(h, "served", TRUE) ELSE End(h, "panicked", FALSE)
    BY <1>6 DEF Deploy2Service, Captured, Target, TypeOK
  <2>2. ctx[h].store \in InForce(h)
    BY <2>1 DEF Stage
  <2>3. /\ \/ /\ Workloads \subseteq built[ctx[h].store].cached
              /\ answer'[h] = [status |-> "served", kind |-> TRUE]
           \/ /\ ~(Workloads \subseteq built[ctx[h].store].cached)
              /\ answer'[h] = [status |-> "panicked", kind |-> FALSE]
        /\ InForce(h)' = InForce(h) /\ Admitted(h)'
        /\ Outcome(h)' => Bounds(h)' /\ Stage(h)'
    BY <1>e, <2>1
  <2>4. Target(cfg, req[h])' = Target(cfg, req[h])
    BY <1>1 DEF Target, genVars
  <2>5. \E g \in InForce(h)' : reach'[h] = {Target(g, req[h])'}
    <3>1. Target(cfg, req[h])' = IF Named(req[h]) THEN FirstCluster(req[h])
                                 ELSE built'[cfg].default
      BY <1>1 DEF Target, genVars, Named, FirstCluster
    <3>2. cfg \in InForce(h)'
      BY <1>2, <2>3
    <3> QED
      BY <1>1, <1>2, <2>1, <3>2 DEF Target, Named, FirstCluster
  <2>6. FoundServices(h)'
    <3>1. answer'[h].status = IF Workloads \subseteq built'[ctx[h].store].cached
                              THEN "served" ELSE "panicked"
      BY <1>2, <2>3
    <3> QED
      BY <1>1, <2>1, <2>2, <2>3, <2>5, <3>1 DEF FoundServices
  <2> QED
    BY <2>3, <2>6 DEF Outcome
<1> QED
  BY <1>3, <1>4, <1>5, <1>6

\* The request goes to a cluster that it asks for, and with the clients of a generation
\* that was in force.
LEMMA PassStep ==
    ASSUME TypeOK, GenInv, NEW h \in Handlers, Bounds(h), Stage(h), TypeOK', ProxyPass(h)
    PROVE  Bounds(h)' /\ Stage(h)'
<1> USE DEF At
<1> DEFINE c == IF cluster[h] = NoCluster THEN built[cfg].default ELSE cluster[h]
<1>1. /\ pc[h] = "pass" /\ cluster'[h] = c
      /\ UNCHANGED <<genVars, req, arrived, ctx, limit, reach>>
      /\ Admitted(h) /\ Passed(h) /\ reach[h] = {}
      /\ ctx[h].clients \in InForce(h)
      /\ Aimed(h) \/ (cluster[h] = NoCluster /\ ~Named(req[h]))
  BY DEF ProxyPass, TypeOK, Stage
<1>2. {cfg, ctx[h].clients} \subseteq InForce(h) /\ UNCHANGED built
      /\ InForce(h) \subseteq 1..Len(built)
  BY <1>1, NowInForce DEF genVars
<1>3. \E g \in InForce(h) : c = Target(g, req[h])
  <2>1. CASE Aimed(h)
    <3>1. PICK g \in InForce(h) : cluster[h] = Target(g, req[h])
      BY <2>1 DEF Aimed
    <3>2. cluster[h] # NoCluster
      BY <1>2, <3>1, TargetType, NamesAssumption
    <3> QED
      BY <3>1, <3>2
  <2>2. CASE cluster[h] = NoCluster /\ ~Named(req[h])
    BY <1>2, <2>2 DEF Target
  <2> QED
    BY <1>1, <2>1, <2>2
<1>4. ASSUME pc'[h] # "free", pc'[h] = "done" => ended'[h] = cfg
      PROVE  /\ InForce(h)' = InForce(h) /\ Bounds(h)'
             /\ Admitted(h)' /\ Passed(h)' /\ Aimed(h)'
  <2>1. InForce(h)' = InForce(h) /\ InForceKept(h) /\ Bounds(h)'
    BY <1>1, <1>4, InForceSame
  <2>2. Admitted(h)' /\ Passed(h)'
    BY <1>1, <2>1, FactsKept
  <2>3. Aimed(h)'
    <3>1. \E g \in InForce(h)' : cluster'[h] = Target(g, req[h])
      BY <1>1, <1>3, <2>1
    <3>2. \A g : Target(g, req[h])' = Target(g, req[h])
      BY <1>1, <1>2 DEF Target
    <3> HIDE DEF Target
    <3> QED
      BY <1>1, <3>1, <3>2 DEF Aimed
  <2> QED
    BY <2>1, <2>2, <2>3
<1>5. CASE c \notin built[ctx[h].clients].clusters
  <2>1. End(h, "noCluster", FALSE)
    BY <1>5 DEF ProxyPass
  <2>2. /\ pc'[h] = "done" /\ ended'[h] = cfg
        /\ answer'[h] = [status |-> "noCluster", kind |-> FALSE]
    BY <2>1 DEF End, Goto, TypeOK
  <2>3. InForce(h)' = InForce(h) /\ Admitted(h)' /\ Passed(h)'
    BY <1>4, <2>2
  <2>4. \E g, k \in InForce(h)' : Target(g, req[h])' \notin built'[k].clusters
    <3>1. PICK g \in InForce(h) : c = Target(g, req[h])
      BY <1>3
    <3>2. Target(g, req[h])' = Target(g, req[h])
      BY <1>1, <1>2 DEF Target
    <3> HIDE DEF Target
    <3> QED
      BY <1>2, <1>5, <2>3, <3>1, <3>2
  <2>5. LackedCluster(h)'
    BY <1>1, <2>2, <2>3, <2>4 DEF LackedCluster
  <2>6. Outcome(h)'
    BY <2>3, <2>5 DEF Outcome
  <2> QED
    BY <1>1, <2>1, <2>6, EndStep, <1>4, <2>2 DEF Stage
<1>6. CASE c \in built[ctx[h].clients].clusters
  <2>1. ASSUME InForce(h)' = InForce(h) PROVE Reachable(h)'
    BY <1>1, <1>2, <1>6, <2>1 DEF Reachable
  <2>2. CASE req[h].method = "HEAD"
    <3>1. End(h, "panicked", FALSE)
      BY <1>6, <2>2 DEF ProxyPass
    <3>2. /\ pc'[h] = "done" /\ ended'[h] = cfg
          /\ answer'[h] = [status |-> "panicked", kind |-> FALSE]
      BY <3>1 DEF End, Goto, TypeOK
    <3>3. InForce(h)' = InForce(h) /\ Bounds(h)' /\ Admitted(h)' /\ Passed(h)' /\ Aimed(h)'
      BY <1>4, <3>2
    <3>4. Panicked(h)'
      BY <1>1, <2>1, <2>2, <3>2, <3>3 DEF Panicked
    <3> QED
      BY <3>2, <3>3, <3>4, <1>1 DEF Outcome, Stage
  <2>3. CASE req[h].method # "HEAD"
    <3>1. pc'[h] = "send" /\ UNCHANGED answer
      BY <1>6, <2>3 DEF ProxyPass, Goto, TypeOK
    <3>2. InForce(h)' = InForce(h) /\ Bounds(h)' /\ Admitted(h)' /\ Passed(h)' /\ Aimed(h)'
      BY <1>4, <3>1
    <3>3. /\ Reachable(h)' /\ answer'[h] = Nothing /\ reach'[h] = {}
          /\ req'[h].method # "HEAD"
      BY <1>1, <2>1, <2>3, <3>1, <3>2 DEF Stage
    <3>4. /\ ctx'[h].store # 0 => ctx'[h].store \in InForce(h)'
          /\ ctx'[h].clients # 0 => ctx'[h].clients \in InForce(h)'
      BY <1>1, <3>2 DEF Stage
    <3> QED
      BY <3>1, <3>2, <3>3, <3>4 DEF Stage
  <2> QED
    BY <2>2, <2>3
<1> QED
  BY <1>5, <1>6

LEMMA RelayingSteps ==
    ASSUME TypeOK, GenInv, NEW h \in Handlers, Bounds(h), Stage(h), TypeOK',
           Send(h) \/ Stream(h) \/ Answered(h) \/ Unreachable(h) \/ Expire(h) \/ Leave(h)
    PROVE  Bounds(h)' /\ Stage(h)'
<1> USE DEF At
<1>1. /\ pc[h] \in {"send", "wait", "relay", "orphan"}
      /\ UNCHANGED <<genVars, req, arrived, ctx, cluster>>
      /\ Admitted(h) /\ Passed(h) /\ Aimed(h) /\ Reachable(h)
  BY DEF Send, Stream, Answered, Unreachable, Expire, Leave, Stage
<1>2. ASSUME pc'[h] # "free", pc'[h] = "done" => ended'[h] = cfg
      PROVE  /\ InForce(h)' = InForce(h) /\ Bounds(h)'
             /\ Admitted(h)' /\ Passed(h)' /\ Aimed(h)' /\ Reachable(h)'
             /\ ctx'[h].store # 0 => ctx'[h].store \in InForce(h)'
             /\ ctx'[h].clients # 0 => ctx'[h].clients \in InForce(h)'
  <2>1. InForce(h)' = InForce(h) /\ InForceKept(h) /\ Bounds(h)'
    BY <1>1, <1>2, InForceSame
  <2>2. req'[h] = req[h] /\ cluster'[h] = cluster[h] /\ ctx'[h] = ctx[h]
    BY <1>1
  <2>3. /\ ctx[h].store # 0 => ctx[h].store \in InForce(h)
        /\ ctx[h].clients # 0 => ctx[h].clients \in InForce(h)
    BY DEF Stage
  <2> QED
    BY <1>1, <2>1, <2>2, <2>3, FactsKept
<1>3. CASE Send(h)
  <2>1. /\ pc'[h] = "wait" /\ reach'[h] = {cluster[h]} /\ UNCHANGED answer /\ pc[h] = "send"
        /\ limit'[h] = Shorter(Allowance(req[h]), timeouts[ctx[h].clients][cluster[h]])
    BY <1>3 DEF Send, Goto, TypeOK
  <2>2. Timed(h)'
    BY <1>1, <2>1 DEF Timed, Allowance, Shorter
  <2>3. answer'[h] = Nothing /\ reach'[h] = {cluster'[h]} /\ req'[h].method # "HEAD"
    BY <1>1, <2>1 DEF Stage
  <2> QED
    BY <1>2, <2>1, <2>2, <2>3 DEF Stage
<1>4. CASE Stream(h) \/ Leave(h)
  <2>1. pc'[h] \in {"relay", "orphan"} /\ UNCHANGED <<reach, answer>>
        /\ pc[h] \in {"wait", "relay"}
    BY <1>4 DEF Stream, Leave, Goto, TypeOK
  <2>2. answer'[h] = Nothing /\ reach'[h] = {cluster'[h]} /\ req'[h].method # "HEAD"
    BY <1>1, <2>1 DEF Stage
  <2> QED
    BY <1>2, <2>1, <2>2 DEF Stage
<1>5. CASE Answered(h) \/ Unreachable(h) \/ Expire(h)
  <2>1. /\ pc[h] \in {"wait", "relay", "orphan"} /\ UNCHANGED <<reach, limit>>
        /\ \/ End(h, "relayed", TRUE)
           \/ pc[h] = "wait" /\ End(h, "unreachable", FALSE)
           \/ pc[h] = "wait" /\ End(h, "expired", FALSE)
    BY <1>5 DEF Answered, Unreachable, Expire
  <2>2. /\ pc'[h] = "done" /\ ended'[h] = cfg
        /\ \/ answer'[h].status = "relayed"
           \/ pc[h] = "wait" /\ answer'[h].status \in {"unreachable", "expired"}
    BY <2>1 DEF End, Goto, TypeOK
  <2>3. /\ reach'[h] = {cluster'[h]} /\ req'[h].method # "HEAD"
        /\ pc[h] = "wait" => Timed(h)'
    BY <1>1, <2>1 DEF Stage, Timed, Allowance
  <2>4. Relayed(h)' \/ FailedToPass(h)'
    BY <1>2, <2>2, <2>3 DEF Relayed, FailedToPass
  <2> QED
    BY <1>2, <2>2, <2>4 DEF Outcome, Stage
<1> QED
  BY <1>1, <1>3, <1>4, <1>5

-----------------------------------------------------------------------------
(* The timeouts of the clients that all requests share. *)

\* A request that was passed on stays one, of the same cluster and client.
LEMMA PassingKept ==
    ASSUME TypeOK, NEW h \in Handlers, Serve(h), NEW k \in Handlers, pc[k] \in Passing
    PROVE  /\ pc'[k] \in Passing /\ req'[k] = req[k]
           /\ ctx'[k] = ctx[k] /\ cluster'[k] = cluster[k]
<1>1. CASE k # h
  BY <1>1, Others DEF Own
<1>2. CASE k = h
  <2>1. Send(h) \/ Stream(h) \/ Answered(h) \/ Unreachable(h) \/ Expire(h) \/ Leave(h)
    BY <1>2 DEF Passing, Serve, Handling, Arrive, Authorize, CaptureStore, CaptureClients,
                Parse, GetOne, RestrictList, Reply, Deploy2Service, ProxyPass, Captured, At
  <2>2. UNCHANGED <<req, ctx, cluster>>
    BY <2>1 DEF Send, Stream, Answered, Unreachable, Expire, Leave
  <2>3. pc'[h] \in {"wait", "relay", "orphan", "done"}
    BY <2>1 DEF Send, Stream, Answered, Unreachable, Expire, Leave, End, Goto, TypeOK
  <2> QED
    BY <1>2, <2>2, <2>3 DEF Passing
<1> QED
  BY <1>1, <1>2

LEMMA TimeoutStep ==
    ASSUME TypeOK, TimeoutInv, NEW h \in Handlers, Serve(h)
    PROVE  TimeoutInv'
<1> SUFFICES ASSUME NEW g \in 1..MaxGenerations, NEW c \in Clusters, timeouts'[g][c] = "short"
             PROVE  \E k \in Handlers : /\ ~req'[k].watch /\ pc'[k] \in Passing
                                        /\ ctx'[k].clients = g /\ cluster'[k] = c
  BY DEF TimeoutInv
<1>1. CASE timeouts[g][c] = "short"
  <2>1. PICK k \in Handlers : /\ ~req[k].watch /\ pc[k] \in Passing
                              /\ ctx[k].clients = g /\ cluster[k] = c
    BY <1>1 DEF TimeoutInv
  <2> QED
    BY <2>1, PassingKept
<1>2. CASE timeouts[g][c] # "short"
  <2>1. ProxyPass(h)
    BY <1>2 DEF Serve, Handling, Arrive, Authorize, CaptureStore, CaptureClients, Parse, GetOne,
                RestrictList, Reply, Deploy2Service, Send, Stream, Answered,
                Unreachable, Expire, Leave
  <2>2. PICK d : cluster' = [cluster EXCEPT ![h] = d] /\ SetTimeout(h, d)
    BY <1>2, <2>1 DEF ProxyPass
  <2>3. ctx[h].clients = g /\ d = c /\ Allowance(req[h]) = "short"
    BY <1>2, <2>2 DEF SetTimeout, TypeOK
  <2>4. ~req[h].watch
    BY <2>3 DEF Allowance
  <2>5. pc'[h] \in Passing /\ UNCHANGED <<req, ctx>>
    BY <2>1 DEF ProxyPass, End, Goto, TypeOK, Passing
  <2> QED
    BY <2>2, <2>3, <2>4, <2>5 DEF TypeOK
<1> QED
  BY <1>1, <1>2

LEMMA WatchLimitStep ==
    ASSUME TypeOK, GenInv, LimitInv, TimeoutInv, WatchLimit,
           NEW h \in Handlers, Bounds(h), Stage(h), Serve(h)
    PROVE  WatchLimit'
<1> SUFFICES ASSUME NEW k \in Handlers, req'[k].watch, limit'[k] = "short"
             PROVE  \E j \in Handlers \ {k} :
                        /\ ~req'[j].watch /\ pc'[j] \in Passing
                        /\ ctx'[j].clients = ctx'[k].clients /\ cluster'[j] = cluster'[k]
  BY DEF WatchLimit, Raced
<1>1. req'[k] = req[k]
  BY ServeGens
<1>2. CASE limit[k] = "short"
  <2>1. PICK j \in Handlers \ {k} :
                 /\ ~req[j].watch /\ pc[j] \in Passing
                 /\ ctx[j].clients = ctx[k].clients /\ cluster[j] = cluster[k]
    BY <1>1, <1>2 DEF WatchLimit, Raced
  <2>2. pc[k] \in Passing
    BY <1>2 DEF LimitInv
  <2> QED
    BY <2>1, <2>2, PassingKept
<1>3. CASE limit[k] # "short"
  <2>1. Send(h) /\ k = h
    BY <1>3 DEF Serve, Handling, Arrive, Authorize, CaptureStore, CaptureClients, Parse, GetOne,
                RestrictList, Reply, Deploy2Service, ProxyPass, Send, Stream, Answered,
                Unreachable, Expire, Leave,
                TypeOK
  <2>2. Shorter("long", timeouts[ctx[h].clients][cluster[h]]) = "short"
    BY <1>1, <2>1 DEF Send, Allowance, TypeOK
  <2>3. timeouts[ctx[h].clients][cluster[h]] = "short"
    BY <2>2 DEF Shorter
  <2>4. pc[h] = "send" /\ Reachable(h) /\ Aimed(h)
    BY <2>1 DEF Send, At, Stage
  <2>5. ctx[h].clients \in 1..MaxGenerations
    BY <2>4, NowInForce, BoundAssumption DEF Reachable, TypeOK, GenTypeOK, GenInv
  <2>6. cluster[h] \in Clusters
    BY <2>4, NowInForce, TargetType DEF Aimed
  <2>7. PICK j \in Handlers : /\ ~req[j].watch /\ pc[j] \in Passing
                              /\ ctx[j].clients = ctx[h].clients /\ cluster[j] = cluster[h]
    BY <2>3, <2>5, <2>6 DEF TimeoutInv
  <2>8. j # k
    BY <1>1, <2>1, <2>7
  <2>9. pc[h] \in Passing
    BY <2>4 DEF Passing
  <2> QED
    BY <2>1, <2>7, <2>8, <2>9, PassingKept
<1> QED
  BY <1>2, <1>3

LEMMA LimitStep ==
    ASSUME TypeOK, LimitInv, NEW h \in Handlers, Serve(h)
    PROVE  LimitInv'
<1> SUFFICES ASSUME NEW k \in Handlers, limit'[k] # "none" PROVE pc'[k] \in Passing
  BY DEF LimitInv
<1>1. CASE limit[k] # "none"
  BY <1>1, PassingKept DEF LimitInv
<1>2. CASE limit[k] = "none"
  <2>1. Send(h) /\ k = h
    BY <1>2 DEF Serve, Handling, Arrive, Authorize, CaptureStore, CaptureClients, Parse, GetOne,
                RestrictList, Reply, Deploy2Service, ProxyPass, Send, Stream, Answered,
                Unreachable, Expire, Leave,
                TypeOK
  <2> QED
    BY <2>1 DEF Send, Goto, Passing, TypeOK
<1> QED
  BY <1>1, <1>2

-----------------------------------------------------------------------------
(* The invariant. *)

LEMMA InitIInv == Init => IInv
<1> SUFFICES ASSUME Init PROVE IInv
  OBVIOUS
<1> USE DEF Init, GenInit
<1>1. TypeOK
  <2>1. GenTypeOK
    <3>1. built = <<>> /\ built \in Seq(Contents) /\ Len(built) = 0
      BY EmptySeq
    <3>2. 0 \in 0..Len(built) /\ {} \subseteq 1..Len(built)
      BY <3>1
    <3> QED
      BY <3>1, <3>2 DEF GenTypeOK, Phases
  <2>2. 0 \in Known
    BY DEF Known
  <2>3. /\ timeouts \in [1..MaxGenerations -> [Clusters -> Limits]]
        /\ limit \in [Handlers -> Limits]
    BY DEF Limits
  <2>4. answer \in [Handlers -> [status : Answers, kind : BOOLEAN]]
    BY DEF Answers, Nothing
  <2>5. /\ pc \in [Handlers -> Stages]
        /\ req \in [Handlers -> AnyRequest] /\ \A h \in Handlers : req[h] \in Requests[h]
    BY DEF Stages
  <2>6. /\ arrived \in [Handlers -> Known] /\ ended \in [Handlers -> Known]
        /\ ctx \in [Handlers -> [store : Known, clients : Known]]
    BY <2>2
  <2>7. /\ cluster \in [Handlers -> Clusters \cup {NoCluster}]
        /\ body \in [Handlers -> BOOLEAN]
        /\ reach \in [Handlers -> SUBSET Clusters]
    OBVIOUS
  <2> QED
    BY <2>1, <2>3, <2>4, <2>5, <2>6, <2>7 DEF TypeOK, Stages
<1>2. GenInv
  BY BoundAssumption DEF GenInv
<1>3. ASSUME NEW h \in Handlers PROVE Bounds(h) /\ Stage(h)
  BY <1>3 DEF Bounds, Stage
<1>4. TimeoutInv /\ LimitInv /\ WatchLimit
  BY DEF TimeoutInv, LimitInv, WatchLimit
<1> QED
  BY <1>1, <1>2, <1>3, <1>4 DEF IInv

LEMMA NextIInv == IInv /\ [Next]_vars => IInv'
<1> SUFFICES ASSUME IInv, [Next]_vars PROVE IInv'
  OBVIOUS
<1>0. /\ TypeOK /\ GenInv /\ LimitInv /\ TimeoutInv /\ WatchLimit
      /\ \A h \in Handlers : Bounds(h) /\ Stage(h)
  BY DEF IInv
\* A step that leaves the handlers alone.
<1>1. ASSUME GenTypeOK', GenInv', Grows, UNCHANGED handlerVars
      PROVE  IInv'
  <2>1. UNCHANGED <<pc, req, arrived, ended, ctx, cluster, body, timeouts, limit, reach, answer>>
    BY <1>1 DEF handlerVars
  <2>2. Known \subseteq Known'
    BY <1>0, <1>1 DEF Known, Grows, TypeOK, GenTypeOK
  <2>3. TypeOK'
    BY <1>0, <1>1, <2>1, <2>2 DEF TypeOK
  <2>4. ASSUME NEW h \in Handlers PROVE Bounds(h)' /\ Stage(h)'
    <3>1. UNCHANGED Own(h)
      BY <2>1 DEF Own
    <3> QED
      BY <1>0, <1>1, <2>3, <3>1, OthersKeep
  <2>5. TimeoutInv' /\ LimitInv' /\ WatchLimit'
    BY <1>0, <2>1 DEF TimeoutInv, LimitInv, WatchLimit, Raced
  <2> QED
    BY <1>1, <2>3, <2>4, <2>5 DEF IInv
<1>2. CASE Load
  <2>1. GenTypeOK' /\ GenInv' /\ Grows
    BY <1>0, <1>2, LoadStep DEF TypeOK
  <2> QED
    BY <1>1, <1>2, <2>1 DEF Load
<1>3. ASSUME NEW h \in Handlers, Serve(h) PROVE IInv'
  <2>1. UNCHANGED genVars
    BY <1>3, ServeGens
  <2>2. TypeOK'
    BY <1>0, <1>3, ServeType
  <2>3. GenInv' /\ Grows
    BY <1>0, <2>1 DEF GenInv, Grows, genVars, TypeOK, GenTypeOK
  <2>4. Bounds(h)' /\ Stage(h)'
    BY <1>0, <1>3, <2>2, ReadingSteps, ParsingSteps, CacheSteps, PassStep, RelayingSteps
    DEF Serve, Handling
  <2>5. ASSUME NEW k \in Handlers \ {h} PROVE Bounds(k)' /\ Stage(k)'
    <3>1. UNCHANGED Own(k)
      BY <1>0, <1>3, Others
    <3> QED
      BY <1>0, <2>2, <2>3, <3>1, OthersKeep
  <2>6. TimeoutInv' /\ LimitInv' /\ WatchLimit'
    BY <1>0, <1>3, TimeoutStep, LimitStep, WatchLimitStep
  <2> QED
    BY <2>2, <2>3, <2>4, <2>5, <2>6 DEF IInv
<1>4. CASE UNCHANGED vars
  <2>1. GenTypeOK' /\ GenInv' /\ Grows
    BY <1>0, <1>4 DEF vars, genVars, GenInv, Grows, TypeOK, GenTypeOK
  <2> QED
    BY <1>1, <1>4, <2>1 DEF vars
<1> QED
  BY <1>2, <1>3, <1>4 DEF Next

\* The invariant that the theorems below follow from: what every handler has read was
\* that of a generation in force since its request arrived.
THEOREM Inductive == Spec => []IInv
BY InitIInv, NextIInv, PTL DEF Spec

-----------------------------------------------------------------------------
(* The theorems. *)

\* The numbers of generations that requests hold are those of generations that exist,
\* and every handler is at one of the stages of the code.
THEOREM Typing == Spec => []TypeOK
<1>1. IInv => TypeOK
  BY DEF IInv
<1> QED
  BY <1>1, Inductive, PTL

\* Whatever the number of generations and of requests, a watch ends early only because
\* of another request that is not one and shares its client.
THEOREM Watches == Spec => []WatchLimit
<1>1. IInv => WatchLimit
  BY DEF IInv
<1> QED
  BY <1>1, Inductive, PTL

\* However a load and the reads of a handler interleave, what it gets or changes is in a
\* cluster that the request asks for.
THEOREM AskedClusters == Spec => []ReachesItsClusters
<1>1. ASSUME IInv PROVE ReachesItsClusters
  <2> DEFINE Fine(h) ==
        \/ reach[h] \subseteq UNION {Asked(g, req[h]) : g \in InForce(h)}
        \/ Negated(req[h]) /\ reach[h] = {FirstCluster(req[h])}
        \/ Overlooked(req[h]) /\ \E g \in InForce(h) : reach[h] = {built[g].default}
  <2> SUFFICES ASSUME NEW h \in Handlers PROVE Fine(h)
    BY DEF ReachesItsClusters
  <2>1. TypeOK /\ GenInv /\ Bounds(h) /\ Stage(h)
    BY <1>1 DEF IInv
  <2>2. InForce(h) \subseteq 1..Len(built)
    BY <2>1, NowInForce
  <2>3. ASSUME NEW g \in InForce(h), reach[h] \subseteq {Target(g, req[h])}
        PROVE  Fine(h)
    <3>1. CASE Target(g, req[h]) \in Asked(g, req[h])
      BY <2>3, <3>1
    <3>2. CASE Target(g, req[h]) \notin Asked(g, req[h])
      <4>1. Negated(req[h]) /\ Target(g, req[h]) = FirstCluster(req[h])
        BY <2>1, <2>2, <3>2, TargetAsked
      <4>2. reach[h] = {} \/ reach[h] = {FirstCluster(req[h])}
        BY <2>3, <4>1
      <4> QED
        BY <4>1, <4>2
    <3> QED
      BY <3>1, <3>2
  <2>4. CASE reach[h] = {}
    BY <2>4
  <2>5. CASE Aimed(h) /\ reach[h] = {cluster[h]}
    BY <2>3, <2>5 DEF Aimed
  <2>6. CASE Cached(h, "list") /\ \E g \in InForce(h) : reach[h] = Listed(g, req[h])
    <3>1. PICK g \in InForce(h) : reach[h] = Listed(g, req[h])
      BY <2>6
    <3>2. \/ Listed(g, req[h]) = Asked(g, req[h])
          \/ Overlooked(req[h]) /\ Listed(g, req[h]) = {built[g].default}
      BY <2>1, <2>6, ListedAsked
    <3> QED
      BY <3>1, <3>2
  <2>7. CASE \E g \in InForce(h) : reach[h] = {Target(g, req[h])}
    BY <2>3, <2>7
  <2>8. pc[h] = "done" => \/ reach[h] = {}
                          \/ Aimed(h) /\ reach[h] = {cluster[h]}
                          \/ Cached(h, "list") /\ \E g \in InForce(h) : reach[h] = Listed(g, req[h])
                          \/ \E g \in InForce(h) : reach[h] = {Target(g, req[h])}
    <3> HIDE DEF Cached, Aimed, Listed, Target, Passed, Reachable, Admitted
    <3> QED
      BY <2>1 DEF Stage, Outcome, Refused, FoundServices, LackedCluster, Panicked,
                  FailedToPass, Relayed, GotOne, GotList
  <2>9. pc[h] # "done" => \/ reach[h] = {}
                          \/ Aimed(h) /\ reach[h] = {cluster[h]}
                          \/ Cached(h, "list") /\ \E g \in InForce(h) : reach[h] = Listed(g, req[h])
    <3> HIDE DEF Cached, Aimed, Listed, Target, Passed, Reachable, Admitted
    <3> QED
      BY <2>1 DEF Stage, TypeOK
  <2> HIDE DEF Fine
  <2> QED
    BY <2>4, <2>5, <2>6, <2>7, <2>8, <2>9
<1> QED
  BY <1>1, Inductive, PTL

\* A failure that a request meets has its cause in a generation in force during it, in
\* its method, or in the API server that it is for; and the time that was over is its own
\* or that of another request.
THEOREM Errors == Spec => []ErrorsExplained
<1>1. ASSUME IInv PROVE ErrorsExplained
  <2>1. ASSUME NEW h \in Handlers PROVE Explained(h)
    <3>1. pc[h] # "done" => answer[h].status = "none"
      BY <1>1 DEF IInv, Stage, Nothing
    <3>2. pc[h] # "done" => Explained(h)
      BY <3>1 DEF Explained
    <3>3. pc[h] = "done" => Outcome(h)
      BY <1>1 DEF IInv, Stage
    <3>4. CASE Refused(h) \/ LackedCluster(h)
      BY <3>4 DEF Refused, LackedCluster, Explained
    <3>5. CASE FoundServices(h)
      BY <3>5 DEF FoundServices, Explained
    <3>6. CASE Relayed(h) \/ GotOne(h) \/ GotList(h)
      BY <3>6 DEF Relayed, GotOne, GotList, Explained
    <3>7. CASE Panicked(h)
      BY <3>7 DEF Panicked, Passed, Explained
    <3>8. CASE FailedToPass(h)
      <4>1. PICK g \in InForce(h) : cluster[h] = Target(g, req[h])
        BY <3>8 DEF FailedToPass, Aimed
      <4>2. ctx[h].clients \in InForce(h) /\ cluster[h] \in built[ctx[h].clients].clusters
        BY <3>8 DEF FailedToPass, Reachable
      <4>3. /\ answer[h].status \in {"unreachable", "expired"} /\ reach[h] = {cluster[h]}
            /\ limit[h] \in {Allowance(req[h]), "short"}
        BY <3>8 DEF FailedToPass, Timed
      <4>4. limit[h] = Allowance(req[h]) \/ Raced(h)
        BY <1>1, <4>3 DEF IInv, WatchLimit, Allowance
      <4> QED
        BY <4>1, <4>2, <4>3, <4>4 DEF Explained
    <3> HIDE DEF Refused, LackedCluster, FoundServices, Relayed, GotOne, GotList, Panicked,
                 FailedToPass, Explained
    <3> QED
      BY <3>2, <3>3, <3>4, <3>5, <3>6, <3>7, <3>8 DEF Outcome
  <2> QED
    BY <2>1 DEF ErrorsExplained
<1> QED
  BY <1>1, Inductive, PTL

\* A request that no load overlaps gets what one generation alone would give it, however
\* many times its handler reads the configuration.
THEOREM OneGeneration == Spec => []Undisturbed
<1>1. ASSUME IInv PROVE Undisturbed
  <2> SUFFICES ASSUME NEW h \in Handlers, pc[h] = "done", arrived[h] = ended[h]
               PROVE  Fits(h, ended[h])
    BY DEF Undisturbed, At
  <2> DEFINE g == ended[h]
             r == req[h]
  <2>1. TypeOK /\ GenInv /\ Bounds(h) /\ Outcome(h)
    BY <1>1 DEF IInv, Stage
  <2>2. InForce(h) = {g}
    <3>1. arrived[h] # 0 /\ ended[h] <= cfg /\ cfg = Len(built) /\ Len(built) \in Nat
          /\ ended[h] \in Nat
      BY <2>1 DEF Bounds, GenInv, TypeOK, GenTypeOK, Known
    <3>2. \A k \in Nat : g <= k /\ k <= g <=> k = g
      BY <3>1
    <3>3. g \in 1..Len(built)
      BY <3>1
    <3> QED
      BY <3>1, <3>2, <3>3 DEF InForce, At
  <2>3. r \in Request
    BY <2>1, RequestType
  <2> HIDE DEF g
  <2>4. CASE Refused(h)
    BY <2>2, <2>4 DEF Refused, Fits, g
  <2>5. ASSUME Admitted(h) PROVE Admits(g, r)
    BY <2>2, <2>5 DEF Admitted
  <2>6. ASSUME Passed(h) PROVE PassedOn(g, r) /\ r.kind # "services"
    BY <2>2, <2>6 DEF Passed
  <2>7. ASSUME NEW kind, Cached(h, kind) PROVE ~PassedOn(g, r) /\ r.kind = kind
    BY <2>2, <2>7 DEF Cached
  <2>8. ASSUME Aimed(h) PROVE cluster[h] = Target(g, r)
    BY <2>2, <2>8 DEF Aimed
  <2>9. ASSUME Reachable(h) PROVE cluster[h] \in built[g].clusters
    BY <2>2, <2>9 DEF Reachable
  <2>10. CASE Admitted(h) /\ FoundServices(h)
    <3>1. reach[h] = {Target(g, r)} /\ r.kind = "services" /\ Admits(g, r)
          /\ answer[h].status = IF Workloads \subseteq built[g].cached THEN "served" ELSE "panicked"
      BY <2>2, <2>5, <2>10 DEF FoundServices
    <3> QED
      BY <3>1 DEF Fits, g
  <2>11. CASE Admitted(h) /\ LackedCluster(h)
    <3>1. answer[h].status = "noCluster" /\ reach[h] = {} /\ Admits(g, r)
          /\ PassedOn(g, r) /\ r.kind # "services" /\ Target(g, r) \notin built[g].clusters
      BY <2>2, <2>5, <2>6, <2>11 DEF LackedCluster
    <3> QED
      BY <3>1 DEF Fits, g
  <2>12. CASE Admitted(h) /\ (Panicked(h) \/ FailedToPass(h) \/ Relayed(h))
    <3>1. /\ Admits(g, r) /\ PassedOn(g, r) /\ r.kind # "services"
          /\ Target(g, r) \in built[g].clusters
      BY <2>5, <2>6, <2>8, <2>9, <2>12 DEF Panicked, FailedToPass, Relayed
    <3>2. \/ r.method = "HEAD" /\ answer[h].status = "panicked" /\ reach[h] = {}
          \/ /\ r.method # "HEAD" /\ reach[h] = {Target(g, r)}
             /\ answer[h].status \in {"relayed", "unreachable", "expired"}
      BY <2>8, <2>12 DEF Panicked, FailedToPass, Relayed
    <3> QED
      BY <3>1, <3>2 DEF Fits, g
  <2>13. CASE Admitted(h) /\ GotOne(h)
    <3>1. /\ Admits(g, r) /\ ~PassedOn(g, r) /\ r.kind = "one" /\ reach[h] = {Target(g, r)}
          /\ \/ answer[h].status = "absent"
             \/ answer[h].status = "served" /\ Target(g, r) \in built[g].clusters
      BY <2>2, <2>5, <2>7, <2>8, <2>13 DEF GotOne
    <3> QED
      BY <3>1 DEF Fits, g
  <2>14. CASE Admitted(h) /\ GotList(h)
    <3>1. /\ Admits(g, r) /\ ~PassedOn(g, r) /\ r.kind = "list"
          /\ reach[h] = Listed(g, r) /\ answer[h].status = "served"
          /\ answer[h].kind = (r.resource \in built[g].cached)
      BY <2>2, <2>5, <2>7, <2>14 DEF GotList
    <3>2. answer[h].kind
      BY <3>1 DEF PassedOn
    <3> QED
      BY <3>1, <3>2 DEF Fits, g
  <2> QED
    BY <2>1, <2>4, <2>10, <2>11, <2>12, <2>13, <2>14 DEF Outcome
<1> QED
  BY <1>1, Inductive, PTL
=============================================================================
