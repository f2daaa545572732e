------------------------------ MODULE Watcher ------------------------------
(***************************************************************************)
(* One goroutine of watcher/watcher.go: it watches one resource type of    *)
(* one cluster and keeps the store's copy of it.  The API server is        *)
(* external: Create, Update, Erase, Break and Expire are its part.         *)
(*                                                                         *)
(* The request "?watch=true" names no resourceVersion, so a new stream     *)
(* starts with one ADDED event for each object that exists, in any order,  *)
(* and goes on with the changes in the order they are made.  A version of  *)
(* an object is the revision of the cluster that wrote it; 0 is no object. *)
(*                                                                         *)
(* A call of the store is one step here (MemoryStore refines it), except   *)
(* that Clean empties one namespace after the other.                       *)
(***************************************************************************)
EXTENDS Naturals

CONSTANTS
    Keys,       \* the objects of the cluster: namespace and name
    Namespaces,
    NsOf,       \* the namespace of an object
    None,       \* nothing is being handled
    Closed,     \* what a receive from a closed channel returns
    Error,      \* a watch.Error event
    MaxRev,     \* bound: the changes made in the cluster
    MaxBreaks   \* bound: the times the server or the network fails

Revs == 0..MaxRev
Types == {"ADDED", "MODIFIED", "DELETED"}

\* at orders the events of a stream: 0 for those of the initial list, then the
\* revision of the change.
Events == [key : Keys, type : Types, rev : Revs, at : Revs]

ASSUME KeyAssumption == NsOf \in [Keys -> Namespaces]
ASSUME BoundAssumption == MaxRev \in Nat /\ MaxBreaks \in Nat
ASSUME SignalAssumption ==
    /\ None \notin Events /\ Closed \notin Events /\ Error \notin Events
    /\ None # Closed /\ None # Error /\ Closed # Error

VARIABLES
    live,       \* the cluster: the version of each object
    rev,        \* its revision
    changed,    \* the revision of the last change of each object
    breaks,     \* failures so far (bounded)
    conn,       \* the stream: none, open, error (an Error event, then the end), eof
    sent,       \* the events on their way to the goroutine
    pc,         \* where the goroutine is
    first,      \* nothing was received from this stream yet
    cur,        \* what was received and is being handled
    todo,       \* the namespaces Clean still has to empty
    store,      \* the cached version of each object
    stop,       \* the channel w.stop is closed
    applied,    \* history: the revision of the last event applied to each object
    opening     \* history: the cluster when the last stream was opened

cluster == <<live, rev, changed, breaks>>
vars == <<cluster, conn, sent, pc, first, cur, todo, store, stop, applied, opening>>

TypeOK ==
    /\ live \in [Keys -> Revs]
    /\ rev \in Revs
    /\ changed \in [Keys -> Revs]
    /\ breaks \in 0..MaxBreaks
    /\ conn \in {"none", "open", "error", "eof"}
    /\ sent \in SUBSET Events
    /\ pc \in {"top", "connect", "recv", "clean", "apply", "pause", "done"}
    /\ first \in BOOLEAN
    /\ cur \in Events \cup {None, Closed, Error}
    /\ todo \in SUBSET Namespaces
    /\ store \in [Keys -> Revs]
    /\ stop \in BOOLEAN
    /\ applied \in [Keys -> Revs]
    /\ opening \in [rev : Revs, live : [Keys -> Revs]]

Init ==
    /\ live = [k \in Keys |-> 0]
    /\ rev = 0
    /\ changed = [k \in Keys |-> 0]
    /\ breaks = 0
    /\ conn = "none"
    /\ sent = {}
    /\ pc = "top"
    /\ first = TRUE
    /\ cur = None
    /\ todo = {}
    /\ store = [k \in Keys |-> 0]
    /\ stop = FALSE
    /\ applied = [k \in Keys |-> 0]
    /\ opening = [rev |-> 0, live |-> [k \in Keys |-> 0]]

-----------------------------------------------------------------------------
(* The cluster and the network. *)

\* A change of k that leaves it in version v; an open stream reports it.
Change(k, type, v) ==
    /\ rev < MaxRev
    /\ rev' = rev + 1
    /\ live' = [live EXCEPT ![k] = v]
    /\ changed' = [changed EXCEPT ![k] = rev + 1]
    /\ sent' = IF conn # "open" THEN sent
               ELSE sent \cup {[key |-> k, type |-> type, rev |-> rev + 1, at |-> rev + 1]}
    /\ UNCHANGED <<breaks, conn, pc, first, cur, todo, store, stop, applied, opening>>

Create(k) == live[k] = 0 /\ Change(k, "ADDED", rev + 1)

Update(k) == live[k] # 0 /\ Change(k, "MODIFIED", rev + 1)

Erase(k) == live[k] # 0 /\ Change(k, "DELETED", 0)

\* The end of a stream loses some of the events, and with an event those behind it.
Lose(lost) ==
    /\ \A e \in lost : \A f \in sent : f.at > e.at => f \in lost
    /\ sent' = sent \ lost

Break(end) ==
    /\ conn = "open" /\ breaks < MaxBreaks
    /\ breaks' = breaks + 1
    /\ conn' = end
    /\ \E lost \in SUBSET sent : Lose(lost)
    /\ UNCHANGED <<live, rev, changed, pc, first, cur, todo, store, stop, applied, opening>>

\* The hour of the context, or the timeout of the request, is over; what was sent
\* long before has arrived.
Expire ==
    /\ conn = "open" /\ sent = {}
    /\ conn' = "eof"
    /\ UNCHANGED <<cluster, sent, pc, first, cur, todo, store, stop, applied, opening>>

-----------------------------------------------------------------------------
(* The goroutine. *)

Top ==
    /\ pc = "top"
    /\ pc' = IF stop THEN "done" ELSE "connect"
    /\ UNCHANGED <<cluster, conn, sent, first, cur, todo, store, stop, applied, opening>>

ConnectFails ==
    /\ pc = "connect" /\ breaks < MaxBreaks
    /\ breaks' = breaks + 1
    /\ first' = TRUE
    /\ pc' = "pause"
    /\ UNCHANGED <<live, rev, changed, conn, sent, cur, todo, store, stop, applied, opening>>

\* Faulty variant: "first" is declared before the loop.
ConnectKeepsFirst ==
    /\ pc = "connect"
    /\ conn' = "open"
    /\ sent' = {[key |-> k, type |-> "ADDED", rev |-> live[k], at |-> 0] :
                   k \in {l \in Keys : live[l] # 0}}
    /\ opening' = [rev |-> rev, live |-> live]
    /\ pc' = "recv"
    /\ UNCHANGED <<cluster, first, cur, todo, store, stop, applied>>

Connect ==
    /\ pc = "connect"
    /\ first' = TRUE
    /\ conn' = "open"
    /\ sent' = {[key |-> k, type |-> "ADDED", rev |-> live[k], at |-> 0] :
                   k \in {l \in Keys : live[l] # 0}}
    /\ opening' = [rev |-> rev, live |-> live]
    /\ pc' = "recv"
    /\ UNCHANGED <<cluster, cur, todo, store, stop, applied>>

\* The receive returned x.  Only the first one of a stream cleans the store, and
\* Clean starts from the list of the namespaces.
Got(x) ==
    /\ pc = "recv"
    /\ cur' = x
    /\ pc' = IF first THEN "clean" ELSE "apply"
    /\ todo' = IF first THEN Namespaces ELSE {}
    /\ UNCHANGED <<cluster, first, store, stop, applied, opening>>

\* Faulty variant: events are handled by goroutines of their own, in any order.
ReceiveUnordered(e) ==
    /\ e \in sent
    /\ Got(e)
    /\ sent' = sent \ {e}
    /\ UNCHANGED conn

Receive(e) ==
    /\ e \in sent
    /\ \A f \in sent : e.at <= f.at
    /\ Got(e)
    /\ sent' = sent \ {e}
    /\ UNCHANGED conn

ReceiveError ==
    /\ conn = "error" /\ sent = {}
    /\ Got(Error)
    /\ conn' = "eof"
    /\ UNCHANGED sent

ReceiveEnd ==
    /\ conn = "eof" /\ sent = {}
    /\ Got(Closed)
    /\ UNCHANGED <<conn, sent>>

CleanNamespace(n) ==
    /\ pc = "clean" /\ n \in todo
    /\ store' = [k \in Keys |-> IF NsOf[k] = n THEN 0 ELSE store[k]]
    /\ todo' = todo \ {n}
    /\ UNCHANGED <<cluster, conn, sent, pc, first, cur, stop, applied, opening>>

\* Faulty variant: Clean leaves its loop after one namespace.
CleanReturnsEarly ==
    /\ pc = "clean" /\ todo # Namespaces
    /\ first' = FALSE
    /\ pc' = "apply"
    /\ UNCHANGED <<cluster, conn, sent, cur, todo, store, stop, applied, opening>>

CleanReturns ==
    /\ pc = "clean" /\ todo = {}
    /\ first' = FALSE
    /\ pc' = "apply"
    /\ UNCHANGED <<cluster, conn, sent, cur, todo, store, stop, applied, opening>>

\* Faulty variant: a deletion stores an empty object.
OutcomeNil(e) == IF e.type = "DELETED" THEN None ELSE e.rev

Outcome(e) == IF e.type = "DELETED" THEN 0 ELSE e.rev

Apply ==
    /\ pc = "apply" /\ cur \in Events
    /\ store' = [store EXCEPT ![cur.key] = Outcome(cur)]
    /\ applied' = [applied EXCEPT ![cur.key] = cur.rev]
    /\ cur' = None
    /\ pc' = "recv"
    /\ UNCHANGED <<cluster, conn, sent, first, todo, stop, opening>>

\* watch.Error is logged and the loop goes on.
Warn ==
    /\ pc = "apply" /\ cur = Error
    /\ cur' = None
    /\ pc' = "recv"
    /\ UNCHANGED <<cluster, conn, sent, first, todo, store, stop, applied, opening>>

\* Faulty variant: break without the label leaves the select only.
DisconnectStays ==
    /\ pc = "apply" /\ cur = Closed
    /\ cur' = None
    /\ conn' = "none"
    /\ pc' = "recv"
    /\ UNCHANGED <<cluster, sent, first, todo, store, stop, applied, opening>>

Disconnect ==
    /\ pc = "apply" /\ cur = Closed
    /\ cur' = None
    /\ conn' = "none"
    /\ pc' = "pause"
    /\ UNCHANGED <<cluster, sent, first, todo, store, stop, applied, opening>>

\* The sleeps of 3 and 15 seconds do not listen to w.stop.
Wake ==
    /\ pc = "pause"
    /\ pc' = "top"
    /\ UNCHANGED <<cluster, conn, sent, first, cur, todo, store, stop, applied, opening>>

\* Faulty variant: the stop ends the stream and the goroutine opens the next one.
ReturnReconnects ==
    /\ pc = "recv" /\ stop
    /\ conn' = "none"
    /\ sent' = {}
    /\ pc' = "connect"
    /\ UNCHANGED <<cluster, first, cur, todo, store, stop, applied, opening>>

\* select takes either case when both are ready.
Return ==
    /\ pc = "recv" /\ stop
    /\ conn' = "none"
    /\ sent' = {}
    /\ pc' = "done"
    /\ UNCHANGED <<cluster, first, cur, todo, store, stop, applied, opening>>

Stop ==
    /\ ~stop
    /\ stop' = TRUE
    /\ UNCHANGED <<cluster, conn, sent, pc, first, cur, todo, store, applied, opening>>

-----------------------------------------------------------------------------
Receipt ==
    \/ \E e \in sent : Receive(e)
    \/ ReceiveError
    \/ ReceiveEnd

Handling ==
    \/ Top
    \/ \E n \in Namespaces : CleanNamespace(n)
    \/ CleanReturns
    \/ Apply
    \/ Warn
    \/ Disconnect
    \/ Wake

Next ==
    \/ \E k \in Keys : Create(k)
    \/ \E k \in Keys : Update(k)
    \/ \E k \in Keys : Erase(k)
    \/ \E end \in {"error", "eof"} : Break(end)
    \/ Expire
    \/ ConnectFails
    \/ Connect
    \/ Receipt
    \/ Handling
    \/ Return
    \/ Stop

Spec == Init /\ [][Next]_vars

\* The goroutine goes on; a server that is there is reached in the end; a stream
\* ends after an hour; a select that finds w.stop closed again and again takes
\* that case some time.
Fairness ==
    /\ WF_vars(Receipt)
    /\ WF_vars(Handling)
    /\ WF_vars(Connect)
    /\ WF_vars(Expire)
    /\ SF_vars(Return)

FairSpec == Spec /\ Fairness

-----------------------------------------------------------------------------
(* Properties. *)

\* When a stream is open, its first event is handled, nothing is on its way and
\* the goroutine waits, the store is the cluster: no change was lost between the
\* initial list and the changes, nor across the breaks before, and no object
\* that was deleted during a break is left (watcher.go:157-189).
CaughtUp ==
    (conn = "open" /\ pc = "recv" /\ ~first /\ sent = {}) => store = live

\* What the store shows is never from before the stream that fills it: an object
\* in the version it had when the stream was opened, or in a later one.  So what
\* was deleted or replaced while there was no stream is out of sight as soon as
\* the first event is handled, also while the rest of the initial list, changes
\* or the loss of some of them are still on their way (watcher.go:151-166).
NothingFromBefore ==
    ~first => \A k \in Keys :
        store[k] # 0 => store[k] = opening.live[k] \/ store[k] > opening.rev

\* The revision that is applied to an object only grows, through any number of
\* breaks, cleanings and initial lists (watcher.go:160-174).
AppliedGrows ==
    [][\A k \in Keys : applied'[k] >= applied[k]]_vars

\* The comment at watcher.go:162-163: "only clean resource at the first time to
\* avoid the resources gone after server break".
ResourcesSurviveServerBreak ==
    [][(cur \in {Closed, Error}) => (store' = store)]_vars

\* Whatever breaks, the store comes to agree with the cluster, again and again,
\* until the watcher is stopped (watcher.go:138-192).
EventuallyInSync == []<>(store = live \/ stop)

\* A stopped watcher ends its goroutine (watcher.go:139-143 and 184-187).
StopEnds == stop ~> pc = "done"
=============================================================================
