--------------------------- MODULE Watcher_proof ---------------------------
(***************************************************************************)
(* Proofs about Watcher for any set of objects, any number of changes and  *)
(* any number of breaks: its typing, and CaughtUp, NothingFromBefore and   *)
(* AppliedGrows from one inductive invariant.                              *)
(*                                                                         *)
(* CaughtUp alone is not inductive.  While events are on their way, the    *)
(* store is behind; the invariant says of each object by how much: the     *)
(* last of its events that are on their way leads to the present version,  *)
(* and when there is none the store is there already - or, before the      *)
(* first event, will be once Clean has emptied it.                         *)
(***************************************************************************)
EXTENDS Watcher, TLAPS

\* The event that is handled is still to come for the store.
Pending == sent \cup ({cur} \cap Events)

\* What the store will show of k when Clean is done or was not needed.
Base(k) == IF first THEN 0 ELSE store[k]

EventInv ==
    /\ cur \in Events => \A f \in sent : cur.at <= f.at
    /\ \A e \in Pending :
          /\ applied[e.key] <= e.rev /\ e.rev <= changed[e.key]
          /\ e.at = 0 \/ e.at = e.rev
          /\ e.at # 0 => applied[e.key] < e.rev
          /\ Outcome(e) = 0 \/ Outcome(e) = e.rev
    /\ \A e, f \in Pending : e.key = f.key /\ e # f =>
          \/ e.rev < f.rev /\ e.at < f.at
          \/ f.rev < e.rev /\ f.at < e.at
    /\ cur \notin sent

StreamInv ==
    conn = "open" => \A k \in Keys :
        \/ \E e \in Pending : e.key = k /\ e.rev = changed[k] /\ Outcome(e) = live[k]
        \/ (\A e \in Pending : e.key # k) /\ Base(k) = live[k]

CleanInv ==
    /\ pc = "clean" => first /\ \A k \in Keys : store[k] # 0 => NsOf[k] \in todo
    /\ pc = "apply" => ~first

ControlInv ==
    /\ pc \in {"top", "connect", "pause", "done"} => conn = "none"
    /\ pc \in {"recv", "clean", "apply"} => conn # "none"
    /\ conn = "none" => sent = {}
    /\ cur # None <=> pc \in {"clean", "apply"}
    /\ cur \in {Error, Closed} => conn = "eof" /\ sent = {}

VersionInv ==
    \A k \in Keys :
        /\ live[k] = 0 \/ live[k] = changed[k]
        /\ changed[k] <= rev
        /\ applied[k] <= changed[k]
        /\ store[k] # 0 => store[k] = applied[k]

\* What is on its way tells of the cluster as it was at the opening, or of later.
OpenInv ==
    /\ opening.rev <= rev
    /\ \A e \in Pending : e.rev = opening.live[e.key] \/ e.rev > opening.rev
    /\ NothingFromBefore

IInv ==
    /\ TypeOK /\ EventInv /\ StreamInv /\ CleanInv /\ ControlInv /\ VersionInv
    /\ OpenInv

-----------------------------------------------------------------------------
(* Typing. *)

LEMMA TypeStep ==
    ASSUME TypeOK, [Next]_vars
    PROVE  TypeOK'
<1>. USE BoundAssumption DEF TypeOK, Revs
<1>1. ASSUME NEW k \in Keys, NEW type \in Types, NEW v \in {0, rev + 1},
             Change(k, type, v)
      PROVE  TypeOK'
  <2>1. rev + 1 \in Revs /\ v \in Revs
    BY <1>1 DEF Change
  <2>2. [key |-> k, type |-> type, rev |-> rev + 1, at |-> rev + 1] \in Events
    BY <2>1 DEF Events
  <2>. QED
    BY <1>1, <2>1, <2>2 DEF Change
<1>2. ASSUME NEW k \in Keys, Create(k) \/ Update(k) \/ Erase(k)
      PROVE  TypeOK'
  BY <1>1, <1>2 DEF Create, Update, Erase, Types
<1>3. ASSUME NEW end \in {"error", "eof"}, Break(end)
      PROVE  TypeOK'
  BY <1>3 DEF Break, Lose
<1>4. CASE Connect
  <2>1. {[key |-> k, type |-> "ADDED", rev |-> live[k], at |-> 0] :
            k \in {l \in Keys : live[l] # 0}} \subseteq Events
    BY DEF Events, Types
  <2>. QED
    BY <1>4, <2>1 DEF Connect, cluster
<1>5. ASSUME NEW e \in sent, Receive(e)
      PROVE  TypeOK'
  BY <1>5 DEF Receive, Got, cluster
<1>6. CASE ReceiveError \/ ReceiveEnd
  BY <1>6 DEF ReceiveError, ReceiveEnd, Got, cluster
<1>7. CASE Apply
  <2>1. cur.key \in Keys /\ cur.rev \in Revs /\ Outcome(cur) \in Revs
    BY <1>7 DEF Apply, Events, Outcome
  <2>. QED
    BY <1>7, <2>1 DEF Apply, cluster
<1>8. ASSUME NEW n \in Namespaces, CleanNamespace(n)
      PROVE  TypeOK'
  BY <1>8 DEF CleanNamespace, cluster
<1>9. CASE ConnectFails
  BY <1>9 DEF ConnectFails
<1>11. CASE Expire \/ Top \/ CleanReturns
  BY <1>11 DEF Expire, Top, CleanReturns, cluster
<1>12. CASE Warn \/ Disconnect \/ Wake
  BY <1>12 DEF Warn, Disconnect, Wake, cluster
<1>13. CASE Return \/ Stop
  BY <1>13 DEF Return, Stop, cluster
<1>10. CASE UNCHANGED vars
  BY <1>10 DEF vars, cluster
<1>. QED
  BY <1>2, <1>3, <1>4, <1>5, <1>6, <1>7, <1>8, <1>9, <1>10, <1>11, <1>12, <1>13
  DEF Next, Receipt, Handling

-----------------------------------------------------------------------------
(* The control of the goroutine. *)

LEMMA ControlStep ==
    ASSUME TypeOK, ControlInv, [Next]_vars
    PROVE  ControlInv'
<1>. USE SignalAssumption DEF TypeOK, ControlInv
<1>1. ASSUME NEW k \in Keys, Create(k) \/ Update(k) \/ Erase(k)
      PROVE  ControlInv'
  BY <1>1 DEF Create, Update, Erase, Change
<1>2. ASSUME NEW end \in {"error", "eof"}, Break(end)
      PROVE  ControlInv'
  BY <1>2 DEF Break, Lose
<1>3. CASE Connect
  BY <1>3 DEF Connect
<1>4. ASSUME NEW e \in sent, Receive(e)
      PROVE  ControlInv'
  <2>1. e \in Events
    BY <1>4
  <2>. QED
    BY <1>4, <2>1 DEF Receive, Got
<1>5. CASE ReceiveError \/ ReceiveEnd
  BY <1>5 DEF ReceiveError, ReceiveEnd, Got
<1>6. CASE Apply
  BY <1>6 DEF Apply
<1>7. ASSUME NEW n \in Namespaces, CleanNamespace(n)
      PROVE  ControlInv'
  BY <1>7 DEF CleanNamespace
<1>8. CASE Expire \/ ConnectFails \/ Top \/ CleanReturns \/ Warn \/ Disconnect \/ Wake
           \/ Return \/ Stop
  BY <1>8 DEF Expire, ConnectFails, Top, CleanReturns, Warn, Disconnect, Wake,
              Return, Stop
<1>9. CASE UNCHANGED vars
  BY <1>9 DEF vars
<1>. QED
  BY <1>1, <1>2, <1>3, <1>4, <1>5, <1>6, <1>7, <1>8, <1>9 DEF Next, Receipt, Handling

LEMMA CleanStep ==
    ASSUME TypeOK, ControlInv, CleanInv, [Next]_vars
    PROVE  CleanInv'
<1>. USE DEF TypeOK, CleanInv
<1>1. ASSUME NEW k \in Keys, Create(k) \/ Update(k) \/ Erase(k)
      PROVE  CleanInv'
  BY <1>1 DEF Create, Update, Erase, Change
<1>2. ASSUME NEW end \in {"error", "eof"}, Break(end)
      PROVE  CleanInv'
  BY <1>2 DEF Break
<1>3. CASE Receipt
  BY <1>3, KeyAssumption DEF Receipt, Receive, ReceiveError, ReceiveEnd, Got
<1>4. CASE Apply
  BY <1>4 DEF Apply
<1>5. ASSUME NEW n \in Namespaces, CleanNamespace(n)
      PROVE  CleanInv'
  BY <1>5 DEF CleanNamespace
<1>6. CASE Expire \/ ConnectFails \/ Connect \/ Top \/ CleanReturns \/ Warn \/ Disconnect
           \/ Wake \/ Return \/ Stop
  BY <1>6 DEF Expire, ConnectFails, Connect, Top, CleanReturns, Warn, Disconnect, Wake,
              Return, Stop
<1>7. CASE UNCHANGED vars
  BY <1>7 DEF vars
<1>. QED
  BY <1>1, <1>2, <1>3, <1>4, <1>5, <1>6, <1>7 DEF Next, Handling

-----------------------------------------------------------------------------
(* The events on their way. *)

LEMMA PendingType ==
    ASSUME TypeOK
    PROVE  \A e \in Pending : /\ e \in Events /\ e.key \in Keys
                              /\ e.rev \in Nat /\ e.at \in Nat
  BY BoundAssumption DEF TypeOK, Pending, Events, Revs

\* Nothing is pending that was not before, and the store is left alone.
LEMMA EventsLost ==
    ASSUME TypeOK, EventInv, VersionInv, sent' \subseteq sent,
           cur' = cur \/ cur' \notin Events,
           cur' \notin sent',
           UNCHANGED <<live, rev, changed, store, applied>>
    PROVE  EventInv' /\ VersionInv'
<1>1. Pending' \subseteq Pending
  BY DEF Pending
<1>. QED
  BY <1>1 DEF EventInv, VersionInv, Pending

LEMMA ChangeStep ==
    ASSUME TypeOK, EventInv, StreamInv, VersionInv,
           NEW k \in Keys, NEW type \in Types, NEW v \in {0, rev + 1},
           v = IF type = "DELETED" THEN 0 ELSE rev + 1,
           Change(k, type, v)
    PROVE  EventInv' /\ StreamInv' /\ VersionInv'
<1>. DEFINE new == [key |-> k, type |-> type, rev |-> rev + 1, at |-> rev + 1]
<1>. USE BoundAssumption DEF Revs
<1>1. /\ rev \in Nat /\ rev + 1 \in Nat
      /\ \A l \in Keys : live[l] \in Nat /\ changed[l] \in Nat /\ applied[l] \in Nat
  BY DEF TypeOK
<1>2. /\ rev' = rev + 1
      /\ live' = [live EXCEPT ![k] = v]
      /\ changed' = [changed EXCEPT ![k] = rev + 1]
      /\ UNCHANGED <<conn, cur, first, store, applied>>
  BY DEF Change
<1>3. /\ \A l \in Keys : changed'[l] = IF l = k THEN rev + 1 ELSE changed[l]
      /\ \A l \in Keys : live'[l] = IF l = k THEN v ELSE live[l]
  BY <1>2 DEF TypeOK
<1>4. VersionInv'
  BY <1>1, <1>2, <1>3 DEF VersionInv
<1>5. \A e \in Pending : /\ e.rev <= rev /\ e.at <= rev
                         /\ e.rev <= changed'[e.key]
  BY <1>1, <1>3, PendingType DEF EventInv, VersionInv
<1>6. CASE conn # "open"
  <2>1. sent' = sent /\ Pending' = Pending
    BY <1>2, <1>6 DEF Change, Pending
  <2>2. EventInv'
    BY <1>2, <1>5, <2>1 DEF EventInv, Outcome
  <2>3. StreamInv'
    BY <1>2, <1>6 DEF StreamInv
  <2>. QED
    BY <1>4, <2>2, <2>3
<1>7. CASE conn = "open"
  <2>1. sent' = sent \cup {new}
    BY <1>7 DEF Change
  <2>2. Pending' = Pending \cup {new}
    BY <1>2, <2>1 DEF Pending
  <2>3. new.key = k /\ new.type = type /\ new.rev = rev + 1 /\ new.at = rev + 1
    OBVIOUS
  <2>4. Outcome(new) = v
    BY <2>3 DEF Outcome
  <2>5. \A e \in Pending' : /\ applied[e.key] <= e.rev /\ e.rev <= changed'[e.key]
                            /\ e.at = 0 \/ e.at = e.rev
                            /\ e.at # 0 => applied[e.key] < e.rev
                            /\ Outcome(e) = 0 \/ Outcome(e) = e.rev
    <3>1. applied[k] <= rev
      BY <1>1 DEF VersionInv
    <3>2. changed'[k] = rev + 1
      BY <1>3
    <3>. QED
      BY <1>1, <1>5, <2>2, <2>3, <2>4, <3>1, <3>2 DEF EventInv
  <2>6. \A e, f \in Pending' : e.key = f.key /\ e # f =>
          \/ e.rev < f.rev /\ e.at < f.at
          \/ f.rev < e.rev /\ f.at < e.at
    BY <1>1, <1>5, <2>2, <2>3, PendingType DEF EventInv
  <2>7. cur \in Events => \A f \in sent' : cur.at <= f.at
    BY <1>1, <1>5, <2>1, <2>3, PendingType DEF EventInv, Pending
  <2>8. cur \notin sent'
    <3>1. ASSUME cur = new
          PROVE  FALSE
      <4>1. new \in Events
        BY <1>1 DEF Change, Events, TypeOK
      <4>2. cur \in Pending
        BY <3>1, <4>1 DEF Pending
      <4>. QED
        BY <1>1, <1>5, <2>3, <3>1, <4>2
    <3>. QED
      BY <2>1, <3>1 DEF EventInv
  <2>9. EventInv'
    BY <1>2, <2>5, <2>6, <2>7, <2>8 DEF EventInv, Outcome
  <2>10. ASSUME NEW l \in Keys
         PROVE  \/ \E e \in Pending' :
                     e.key = l /\ e.rev = changed'[l] /\ Outcome(e) = live'[l]
                \/ (\A e \in Pending' : e.key # l) /\ Base(l)' = live'[l]
    <3>1. CASE l = k
      BY <1>3, <2>2, <2>3, <2>4, <3>1
    <3>2. CASE l # k
      BY <1>2, <1>3, <1>7, <2>2, <2>3, <3>2 DEF StreamInv, Base
    <3>. QED
      BY <3>1, <3>2
  <2>. QED
    BY <1>4, <2>9, <2>10 DEF StreamInv, Outcome
<1>. QED
  BY <1>6, <1>7

LEMMA ConnectStep ==
    ASSUME TypeOK, ControlInv, VersionInv, Connect
    PROVE  EventInv' /\ StreamInv' /\ VersionInv'
<1>. DEFINE list == {[key |-> k, type |-> "ADDED", rev |-> live[k], at |-> 0] :
                        k \in {l \in Keys : live[l] # 0}}
<1>. USE BoundAssumption DEF Revs
<1>1. cur = None
  BY DEF Connect, ControlInv
<1>2. sent' = list /\ Pending' = list
  BY <1>1, SignalAssumption DEF Connect, Pending
<1>3. UNCHANGED <<live, rev, changed, store, applied, cur>> /\ first'
  BY DEF Connect, cluster
<1>4. \A k \in Keys : live[k] \in Nat /\ changed[k] \in Nat /\ applied[k] \in Nat
  BY DEF TypeOK
<1>5. \A e \in list : /\ e.key \in Keys /\ live[e.key] # 0 /\ e.rev = live[e.key]
                      /\ e.rev = changed[e.key] /\ e.at = 0
                      /\ Outcome(e) = live[e.key]
                      /\ e = [key |-> e.key, type |-> "ADDED", rev |-> live[e.key], at |-> 0]
  BY DEF VersionInv, Outcome
<1>6. VersionInv'
  BY <1>3 DEF VersionInv
<1>7. EventInv'
  <2>1. \A e \in list : applied[e.key] <= e.rev
    BY <1>4, <1>5 DEF VersionInv
  <2>2. \A e, f \in list : e.key = f.key => e = f
    BY <1>5
  <2>3. None \notin list
    BY SignalAssumption, <1>4 DEF Events, TypeOK, Types
  <2>. QED
    BY <1>1, <1>2, <1>3, <1>4, <1>5, <2>1, <2>2, <2>3, SignalAssumption
    DEF EventInv, Outcome
<1>8. StreamInv'
  <2>1. ASSUME NEW k \in Keys
        PROVE  \/ \E e \in list : e.key = k /\ e.rev = changed[k] /\ Outcome(e) = live[k]
               \/ (\A e \in list : e.key # k) /\ live[k] = 0
    <3>1. CASE live[k] = 0
      BY <1>5, <3>1
    <3>2. CASE live[k] # 0
      <4>. DEFINE e == [key |-> k, type |-> "ADDED", rev |-> live[k], at |-> 0]
      <4>1. e \in list /\ e.key = k
        BY <3>2
      <4>. QED
        BY <1>5, <4>1
    <3>. QED
      BY <3>1, <3>2
  <2>. QED
    BY <1>2, <1>3, <2>1 DEF StreamInv, Base, Outcome
<1>. QED
  BY <1>6, <1>7, <1>8

LEMMA ReceiveStep ==
    ASSUME TypeOK, EventInv, StreamInv, VersionInv, ControlInv,
           NEW e \in sent, Receive(e)
    PROVE  EventInv' /\ StreamInv' /\ VersionInv'
<1>1. cur = None /\ cur' = e /\ e \in Events
  BY DEF Receive, Got, ControlInv, TypeOK
<1>2. sent' = sent \ {e} /\ \A f \in sent : e.at <= f.at
  BY DEF Receive
<1>3. Pending' = Pending
  BY <1>1, <1>2, SignalAssumption DEF Pending
<1>4. UNCHANGED <<live, rev, changed, store, applied, first, conn>>
  BY DEF Receive, Got, cluster
<1>5. EventInv'
  BY <1>1, <1>2, <1>3, <1>4 DEF EventInv, Outcome
<1>6. StreamInv'
  BY <1>3, <1>4 DEF StreamInv, Base, Outcome
<1>7. VersionInv'
  BY <1>4 DEF VersionInv
<1>. QED
  BY <1>5, <1>6, <1>7

LEMMA ApplyStep ==
    ASSUME TypeOK, EventInv, StreamInv, VersionInv, CleanInv, ControlInv, Apply
    PROVE  EventInv' /\ StreamInv' /\ VersionInv'
<1>. DEFINE k == cur.key
<1>1. /\ cur \in Events /\ cur \in Pending /\ cur \notin sent /\ k \in Keys
      /\ cur.rev \in Nat /\ cur.at \in Nat /\ ~first
  <2>1. cur \in Events /\ cur \in Pending
    BY DEF Apply, Pending
  <2>. QED
    BY <2>1, PendingType DEF Apply, EventInv, CleanInv
<1>2. Pending' = sent /\ sent \subseteq Pending
  BY SignalAssumption DEF Apply, Pending
<1>3. /\ store' = [store EXCEPT ![k] = Outcome(cur)]
      /\ applied' = [applied EXCEPT ![k] = cur.rev]
      /\ cur' = None
      /\ UNCHANGED <<live, rev, changed, conn, sent, first>>
  BY DEF Apply, cluster
<1>4. /\ \A l \in Keys : store'[l] = IF l = k THEN Outcome(cur) ELSE store[l]
      /\ \A l \in Keys : applied'[l] = IF l = k THEN cur.rev ELSE applied[l]
  BY <1>3 DEF TypeOK
\* What comes behind the event is newer.
<1>5. \A f \in sent : f.key = k => cur.rev < f.rev /\ cur.at < f.at
  BY <1>1, <1>2, PendingType DEF EventInv
<1>6. EventInv'
  <2>1. None \notin sent
    BY SignalAssumption DEF TypeOK
  <2>2. \A e \in sent : /\ applied'[e.key] <= e.rev
                        /\ e.at # 0 => applied'[e.key] < e.rev
    BY <1>2, <1>4, <1>5, <1>1, PendingType DEF EventInv
  <2>. QED
    BY <1>2, <1>3, <2>1, <2>2, SignalAssumption DEF EventInv, Outcome
<1>7. ASSUME conn = "open", NEW l \in Keys
      PROVE  \/ \E e \in sent : e.key = l /\ e.rev = changed[l] /\ Outcome(e) = live[l]
             \/ (\A e \in sent : e.key # l) /\ store'[l] = live[l]
  <2>1. CASE l # k
    BY <1>1, <1>2, <1>4, <1>7, <2>1 DEF StreamInv, Base, Pending
  <2>2. CASE l = k
    <3>1. PICK e \in Pending : e.key = k /\ e.rev = changed[k] /\ Outcome(e) = live[k]
      BY <1>1, <1>7 DEF StreamInv
    <3>2. CASE e = cur
      <4>1. \A f \in sent : f.key # k
        BY <1>1, <1>2, <1>5, <3>1, <3>2, PendingType DEF EventInv
      <4>. QED
        BY <1>4, <2>2, <3>1, <3>2, <4>1
    <3>3. CASE e # cur
      BY <2>2, <3>1, <3>3 DEF Pending
    <3>. QED
      BY <3>2, <3>3
  <2>. QED
    BY <2>1, <2>2
<1>8. StreamInv'
  BY <1>1, <1>2, <1>3, <1>7 DEF StreamInv, Base, Outcome
<1>9. VersionInv'
  BY <1>1, <1>3, <1>4 DEF VersionInv, EventInv
<1>. QED
  BY <1>6, <1>8, <1>9

LEMMA CleanDataStep ==
    ASSUME TypeOK, EventInv, StreamInv, VersionInv, CleanInv,
           CleanReturns \/ \E n \in Namespaces : CleanNamespace(n)
    PROVE  EventInv' /\ StreamInv' /\ VersionInv'
<1>1. /\ UNCHANGED <<live, rev, changed, conn, sent, cur, applied>>
      /\ Pending' = Pending
  BY DEF CleanReturns, CleanNamespace, cluster, Pending
<1>2. \A k \in Keys : store'[k] = store[k] \/ store'[k] = 0
  BY DEF CleanReturns, CleanNamespace, TypeOK
<1>3. \A k \in Keys : Base(k)' = Base(k)
  BY DEF CleanReturns, CleanNamespace, CleanInv, Base
<1>4. EventInv'
  BY <1>1 DEF EventInv, Outcome
<1>5. StreamInv'
  BY <1>1, <1>3 DEF StreamInv, Outcome
<1>6. VersionInv'
  BY <1>1, <1>2 DEF VersionInv
<1>. QED
  BY <1>4, <1>5, <1>6

\* The steps that neither bring nor apply an event.
LEMMA EndStep ==
    ASSUME TypeOK, EventInv, StreamInv, VersionInv, ControlInv,
           \/ \E end \in {"error", "eof"} : Break(end)
           \/ Expire \/ ConnectFails \/ ReceiveError \/ ReceiveEnd
           \/ Top \/ Warn \/ Disconnect \/ Wake \/ Return
    PROVE  EventInv' /\ StreamInv' /\ VersionInv'
<1>. USE SignalAssumption DEF TypeOK, ControlInv
<1>1. conn' # "open"
  BY DEF Break, Expire, ConnectFails, ReceiveError, ReceiveEnd, Got, Top, Warn,
         Disconnect, Wake, Return
<1>2. UNCHANGED <<live, rev, changed, store, applied>>
  BY DEF Break, Expire, ConnectFails, ReceiveError, ReceiveEnd, Got, Top, Warn,
         Disconnect, Wake, Return, cluster
<1>3. sent' \subseteq sent
  BY DEF Break, Lose, Expire, ConnectFails, ReceiveError, ReceiveEnd, Got, Top, Warn,
         Disconnect, Wake, Return
<1>4. cur' = cur \/ cur' \in {None, Closed, Error}
  BY DEF Break, Expire, ConnectFails, ReceiveError, ReceiveEnd, Got, Top, Warn,
         Disconnect, Wake, Return
<1>5. cur' \notin sent'
  BY <1>3, <1>4 DEF EventInv
<1>6. EventInv' /\ VersionInv'
  BY <1>2, <1>3, <1>4, <1>5, EventsLost
<1>. QED
  BY <1>1, <1>6 DEF StreamInv

-----------------------------------------------------------------------------
(* What is from before the stream. *)

LEMMA OpenStep ==
    ASSUME TypeOK, ControlInv, CleanInv, EventInv, OpenInv, [Next]_vars
    PROVE  OpenInv'
<1>. USE BoundAssumption, SignalAssumption DEF Revs
<1>1. /\ rev \in Nat /\ opening.rev \in Nat
      /\ \A k \in Keys : store[k] \in Nat /\ live[k] \in Nat
  BY DEF TypeOK
<1>2. ASSUME NEW k \in Keys, NEW type \in Types, NEW v \in {0, rev + 1},
             Change(k, type, v)
      PROVE  OpenInv'
  <2>1. /\ rev' = rev + 1
        /\ UNCHANGED <<cur, first, store, opening>>
    BY <1>2 DEF Change
  <2>2. \A e \in Pending' : e \in Pending \/ e.rev = rev + 1
    BY <1>2, <2>1 DEF Change, Pending
  <2>. QED
    BY <1>1, <2>1, <2>2 DEF OpenInv, NothingFromBefore
<1>3. ASSUME NEW k \in Keys, Create(k) \/ Update(k) \/ Erase(k)
      PROVE  OpenInv'
  BY <1>2, <1>3 DEF Create, Update, Erase, Types
<1>4. CASE Connect
  <2>1. /\ opening' = [rev |-> rev, live |-> live]
        /\ first' /\ UNCHANGED <<rev, cur>>
    BY <1>4 DEF Connect, cluster
  <2>2. cur = None
    BY <1>4 DEF Connect, ControlInv
  <2>3. \A e \in Pending' : e.rev = live[e.key]
    BY <1>4, <2>1, <2>2 DEF Connect, Pending
  <2>. QED
    BY <1>1, <2>1, <2>3 DEF OpenInv, NothingFromBefore
<1>5. CASE Apply
  <2>1. /\ store' = [store EXCEPT ![cur.key] = Outcome(cur)]
        /\ cur \in Pending /\ cur.key \in Keys
        /\ Pending' \subseteq Pending
        /\ UNCHANGED <<rev, first, opening>>
    BY <1>5 DEF Apply, Pending, Events, cluster
  <2>2. Outcome(cur) = 0 \/ Outcome(cur) = cur.rev
    BY <2>1 DEF EventInv
  <2>3. \A k \in Keys : store'[k] = IF k = cur.key THEN Outcome(cur) ELSE store[k]
    BY <2>1 DEF TypeOK
  <2>. QED
    BY <1>1, <2>1, <2>2, <2>3 DEF OpenInv, NothingFromBefore
<1>6. CASE CleanReturns
  <2>1. \A k \in Keys : store[k] = 0
    BY <1>6, KeyAssumption DEF CleanReturns, CleanInv
  <2>2. UNCHANGED <<rev, cur, sent, store, opening>>
    BY <1>6 DEF CleanReturns, cluster
  <2>. QED
    BY <2>1, <2>2 DEF OpenInv, NothingFromBefore, Pending
<1>7. ASSUME NEW n \in Namespaces, CleanNamespace(n)
      PROVE  OpenInv'
  <2>1. first /\ UNCHANGED <<rev, cur, sent, first, opening>>
    BY <1>7 DEF CleanNamespace, CleanInv, cluster
  <2>. QED
    BY <2>1 DEF OpenInv, NothingFromBefore, Pending
<1>8. ASSUME NEW e \in sent, Receive(e)
      PROVE  OpenInv'
  <2>1. Pending' \subseteq Pending /\ UNCHANGED <<rev, first, store, opening>>
    BY <1>8 DEF Receive, Got, Pending, cluster
  <2>. QED
    BY <2>1 DEF OpenInv, NothingFromBefore
<1>9. CASE \/ \E end \in {"error", "eof"} : Break(end)
           \/ Expire \/ ConnectFails \/ ReceiveError \/ ReceiveEnd
           \/ Top \/ Warn \/ Disconnect \/ Wake \/ Return \/ Stop \/ UNCHANGED vars
  <2>1. UNCHANGED <<rev, store, opening>> /\ (first' = first \/ first')
    BY <1>9 DEF Break, Expire, ConnectFails, ReceiveError, ReceiveEnd, Got, Top, Warn,
                Disconnect, Wake, Return, Stop, vars, cluster
  <2>2. sent' \subseteq sent
    BY <1>9 DEF Break, Lose, Expire, ConnectFails, ReceiveError, ReceiveEnd, Got, Top,
                Warn, Disconnect, Wake, Return, Stop, vars, cluster
  <2>3. cur' = cur \/ cur' \in {None, Closed, Error}
    BY <1>9 DEF Break, Expire, ConnectFails, ReceiveError, ReceiveEnd, Got, Top, Warn,
                Disconnect, Wake, Return, Stop, vars, cluster
  <2>4. Pending' \subseteq Pending
    BY <2>2, <2>3 DEF Pending
  <2>. QED
    BY <2>1, <2>4 DEF OpenInv, NothingFromBefore
<1>. QED
  BY <1>3, <1>4, <1>5, <1>6, <1>7, <1>8, <1>9 DEF Next, Receipt, Handling

-----------------------------------------------------------------------------
(* The theorems. *)

LEMMA InitIInv == Init => IInv
<1>. SUFFICES ASSUME Init
              PROVE  IInv
  OBVIOUS
<1>. USE BoundAssumption, SignalAssumption DEF Init
<1>1. TypeOK
  <2>1. 0 \in Revs /\ 0 \in 0..MaxBreaks
    BY DEF Revs
  <2>2. [k \in Keys |-> 0] \in [Keys -> Revs]
    BY <2>1
  <2>. QED
    BY <2>1, <2>2 DEF TypeOK
<1>2. Pending = {}
  BY DEF Pending
<1>3. EventInv /\ StreamInv /\ CleanInv /\ ControlInv /\ VersionInv /\ OpenInv
  BY <1>2 DEF EventInv, StreamInv, CleanInv, ControlInv, VersionInv, OpenInv,
              NothingFromBefore
<1>. QED
  BY <1>1, <1>3 DEF IInv

LEMMA NextIInv == IInv /\ [Next]_vars => IInv'
<1>. SUFFICES ASSUME IInv, [Next]_vars
              PROVE  IInv'
  OBVIOUS
<1>. USE DEF IInv
<1>1. TypeOK' /\ ControlInv' /\ CleanInv' /\ OpenInv'
  BY TypeStep, ControlStep, CleanStep, OpenStep
<1>2. ASSUME NEW k \in Keys, Create(k) \/ Update(k) \/ Erase(k)
      PROVE  EventInv' /\ StreamInv' /\ VersionInv'
  <2>1. CASE Create(k)
    BY <2>1, ChangeStep DEF Create, Types
  <2>2. CASE Update(k)
    BY <2>2, ChangeStep DEF Update, Types
  <2>3. CASE Erase(k)
    BY <2>3, ChangeStep DEF Erase, Types
  <2>. QED
    BY <1>2, <2>1, <2>2, <2>3
<1>3. CASE UNCHANGED vars \/ Stop
  <2>1. UNCHANGED <<live, rev, changed, conn, sent, first, cur, store, applied>>
    BY <1>3 DEF vars, Stop, cluster
  <2>. QED
    BY <1>1, <2>1 DEF EventInv, StreamInv, VersionInv, Pending, Base, Outcome
<1>. QED
  BY <1>1, <1>2, <1>3, ConnectStep, ReceiveStep, ApplyStep, CleanDataStep, EndStep
  DEF Next, Receipt, Handling

\* The strengthening behind the theorems that follow.
THEOREM Inductive == Spec => []IInv
  BY InitIInv, NextIInv, PTL DEF Spec

\* The specification is well typed.
THEOREM Typing == Spec => []TypeOK
<1>1. IInv => TypeOK
  BY DEF IInv
<1>. QED
  BY <1>1, Inductive, PTL

\* A goroutine that has handled the first event of its open stream and waits, with
\* nothing on its way, holds exactly the objects of the cluster, however many
\* streams broke before and wherever they broke (watcher.go:151-189).
THEOREM CaughtUpTheorem == Spec => []CaughtUp
<1>1. ASSUME IInv, conn = "open", pc = "recv", ~first, sent = {}
      PROVE  store = live
  <2>1. Pending = {}
    BY <1>1, SignalAssumption DEF IInv, ControlInv, Pending
  <2>2. \A k \in Keys : store[k] = live[k]
    BY <1>1, <2>1 DEF IInv, StreamInv, Base
  <2>. QED
    BY <1>1, <2>2 DEF IInv, TypeOK
<1>2. IInv => CaughtUp
  BY <1>1 DEF CaughtUp
<1>. QED
  BY <1>2, Inductive, PTL

\* Once the first event of a stream is handled, nothing is shown that was deleted
\* or replaced before the stream was opened, however many streams broke before and
\* whatever is still on its way (watcher.go:151-166).
THEOREM NothingFromBeforeTheorem == Spec => []NothingFromBefore
<1>1. IInv => NothingFromBefore
  BY DEF IInv, OpenInv
<1>. QED
  BY <1>1, Inductive, PTL

\* No event, of whatever stream, is applied after a newer one of the same object,
\* so neither an old version nor a deleted object comes back
\* (watcher.go:160-174).
THEOREM AppliedGrowsTheorem == Spec => AppliedGrows
<1>1. ASSUME IInv, [Next]_vars
      PROVE  \A k \in Keys : applied'[k] >= applied[k]
  <2>. USE BoundAssumption DEF IInv, TypeOK, Revs
  <2>1. CASE Apply
    <3>1. /\ applied' = [applied EXCEPT ![cur.key] = cur.rev]
          /\ cur \in Pending
      BY <2>1 DEF Apply, Pending
    <3>2. applied[cur.key] <= cur.rev /\ cur.rev \in Nat /\ cur.key \in Keys
      BY <1>1, <3>1, PendingType DEF EventInv
    <3>3. \A k \in Keys : applied[k] \in Nat
      BY <1>1
    <3>. QED
      BY <1>1, <3>1, <3>2, <3>3
  <2>2. CASE ~Apply
    <3>1. applied' = applied
      BY <1>1, <2>2
      DEF Next, Create, Update, Erase, Change, Break, Expire, ConnectFails, Connect,
          Receipt, Receive, ReceiveError, ReceiveEnd, Got, Handling, Top,
          CleanNamespace, CleanReturns, Warn, Disconnect, Wake, Return, Stop, vars
    <3>2. \A k \in Keys : applied[k] \in Nat
      BY <1>1
    <3>. QED
      BY <3>1, <3>2
  <2>. QED
    BY <2>1, <2>2
<1>. QED
  BY <1>1, Inductive, PTL DEF Spec, AppliedGrows
=============================================================================
