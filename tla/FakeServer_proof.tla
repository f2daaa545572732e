-------------------------- MODULE FakeServer_proof --------------------------
(***************************************************************************)
(* The safety properties of the fake server hold for any number of         *)
(* requests and watches.  The argument is about what a request that has    *)
(* not ended cannot be: it is in nobody's past.                            *)
(***************************************************************************)
EXTENDS FakeServer, TLAPS

Begun(c) == pc[c] # "free"

\* Where a request is goes with what it asks for and with what it holds.
Stage(c) ==
    /\ pc[c] \in {"check", "apply", "rlock", "send"} => job[c].op \in Writes
    /\ pc[c] \in {"server", "fake"} => job[c].op = "CLEAN"
    /\ pc[c] = "get" => job[c].op = "GET"
    /\ result[c] = "none" <=> pc[c] # "done"
    /\ c \in readers <=> pc[c] = "send"
    /\ left[c] \subseteq chans
    /\ pc[c] # "send" => left[c] = {}

\* "Had ended before" is a strict order of the requests.
PastInv ==
    /\ \A p \in Callers \cup Watchers : before[p] \subseteq Done
    /\ \A c \in Callers : c \notin before[c]

\* The map of the watches, its lock, and what a watch holds.
WatchInv ==
    \A v \in Watchers :
        /\ v \in chans <=> wpc[v] \in {"map", "select", "write", "unlist", "leave"}
        /\ wpc[v] \in {"enter", "leave"} <=> pending = v
        /\ wpc[v] = "write" <=> event[v] # Nobody
        /\ wpc[v] = "free" => seen[v] = <<>>

\* The event of c has been taken by v, of which it is one that v asks for.
Delivered(v, c) == event[v] = c \/ \E i \in 1..Len(seen[v]) : seen[v][i] = c

DeliveryInv ==
    \A v \in Watchers : \A c \in Callers : Delivered(v, c) =>
        /\ pc[c] \in {"send", "done"} /\ result[c] # "refused"
        /\ v \notin left[c] /\ c \notin before[v]
        /\ job[c].op \in Writes /\ job[c].name \in Wants[v]

\* The event in hand is no earlier one than those that were written.
NextInv ==
    \A v \in Watchers : event[v] # Nobody =>
        \A i \in 1..Len(seen[v]) :
            seen[v][i] # event[v] /\ event[v] \notin before[seen[v][i]]

\* A watch that has waited since c began waits until c offers it its event.
IdleInv ==
    \A c \in Callers : \A v \in idle[c] :
        job[c].op \in Writes /\ job[c].name \in Wants[v] =>
            /\ pc[c] \in {"check", "apply", "rlock"} => wpc[v] = "select"
            /\ pc[c] = "send" /\ v \in left[c] => wpc[v] = "select"
            /\ pc[c] = "send" /\ v \notin left[c] => Delivered(v, c)
            /\ pc[c] = "done" /\ Succeeded(c) => Delivered(v, c)

\* What a request has changed, or will no longer be kept from changing.
Applied(c) == pc[c] \in {"rlock", "send"} \/ (pc[c] = "done" /\ Succeeded(c))
Creation(c) == job[c].op = "POST"

\* Something removed the name, or may have, since c began.
Removal(k, c) ==
    /\ Begun(k) /\ k \notin before[c]
    /\ job[k].op \in {"DELETE", "CLEAN"} /\ Concerns(k, job[c].name)

CreationInv ==
    \A c \in Callers : Creation(c) /\ Applied(c) =>
        \/ stores[fakeStore][job[c].name].there
        \/ \E k \in Callers : Removal(k, c)

SecondInv ==
    \A c, d \in Callers :
        /\ Creation(c) /\ Creation(d) /\ job[c].name = job[d].name
        /\ c \in before[d] /\ Succeeded(c)
        /\ pc[d] = "apply" \/ Applied(d)
        => \E k \in Callers : Removal(k, c) /\ d \notin before[k]

\* What has taken effect in the store that the server reads.
Effective(w) == Applied(w) \/ pc[w] = "fake"

StoreInv ==
    /\ \A c \in Callers : pc[c] # "done" => fakeStore # c
    /\ \A c \in Callers : pc[c] \notin {"fake", "done"} => muxStore # c
    /\ \A c \in Callers : pc[c] # "done" => \A n \in Names : stores[c][n].by = c

\* The server reads the store that is written to, or one that is still to be.
ServedInv ==
    CleansOverlap \/
        /\ \A k \in Callers : pc[k] = "fake" => muxStore = k
        /\ muxStore = fakeStore \/ (muxStore \in Callers /\ pc[muxStore] = "fake")
        /\ \A w \in Callers : \A n \in Names : Effective(w) /\ Concerns(w, n) =>
               stores[muxStore][n].by \notin before[w] \cup {Nobody}

IInv ==
    /\ TypeOK
    /\ \A c \in Callers : Stage(c)
    /\ PastInv /\ WatchInv /\ DeliveryInv /\ NextInv /\ IdleInv
    /\ CreationInv /\ SecondInv /\ StoreInv /\ ServedInv
    /\ InOrder /\ ReadsRegular

-----------------------------------------------------------------------------
(* Typing and control. *)

LEMMA InitTyping == Init => TypeOK
  <1>1. ASSUME Init PROVE job \in [Callers -> AnyJob]
    BY <1>1 DEF Init
  <1>2. ASSUME Init PROVE TypeOK
    BY <1>1, <1>2 DEF Init, TypeOK, Entries
  <1> QED  BY <1>2

LEMMA CallerTyping ==
    ASSUME TypeOK, NEW c \in Callers, Begin(c) \/ Handling(c)
    PROVE  TypeOK'
  <1> USE DEF TypeOK, Goto, End, requestVars, storeVars, lockVars, watchVars
  <1>1. CASE Begin(c)  BY <1>1 DEF Begin, Done, AnyJob, Writes
  <1>2. CASE Check(c)  BY <1>2 DEF Check
  <1>3. CASE Apply(c)
    <2>1. [by |-> c, there |-> job[c].op # "DELETE"] \in Entries  BY DEF Entries
    <2>2. stores' \in [Callers \cup {Nobody} -> [Names -> Entries]]
      BY <1>3, <2>1 DEF Apply
    <2> QED  BY <1>3, <2>2 DEF Apply
  <1>4. CASE ReadLock(c)  BY <1>4 DEF ReadLock
  <1>5. ASSUME NEW v \in Watchers, Send(c, v) PROVE TypeOK'
    <2>1. CASE Deliver(c, v)
      <3>1. wpc' \in [Watchers -> {"free", "lock", "enter", "map", "select", "write",
                                   "unlist", "leave", "done"}]
        <4>1. \E l \in {"write", "map"} : wpc' = [wpc EXCEPT ![v] = l]
          BY <2>1, Zenon DEF Deliver, WatchGoto
        <4> QED  BY <4>1
      <3>2. event' \in [Watchers -> Callers \cup {Nobody}]
        BY <2>1 DEF Deliver
      <3>3. idle' \in [Callers -> SUBSET Watchers]
        BY <2>1 DEF Deliver
      <3> QED  BY <1>5, <3>1, <3>2, <3>3 DEF Send
    <2>2. CASE UNCHANGED <<wpc, event, idle>>
      BY <1>5, <2>2 DEF Send
    <2> QED  BY <1>5, <2>1, <2>2 DEF Send
  <1>6. CASE ReadUnlock(c)  BY <1>6 DEF ReadUnlock
  <1>7. CASE Get(c)
    <2>1. job[c].name \in Names  BY DEF AnyJob
    <2> QED  BY <1>7, <2>1 DEF Get
  <1>8. CASE CleanServer(c)  BY <1>8 DEF CleanServer
  <1>9. CASE CleanFake(c)  BY <1>9 DEF CleanFake
  <1> QED  BY <1>1, <1>2, <1>3, <1>4, <1>5, <1>6, <1>7, <1>8, <1>9 DEF Handling

LEMMA WatchTyping ==
    ASSUME TypeOK, WatchInv, NEW v \in Watchers,
           BeginWatch(v) \/ Watching(v) \/ Write(v) \/ Timeout(v)
    PROVE  TypeOK'
  <1> USE DEF TypeOK, WatchGoto, requestVars, storeVars, lockVars, watchVars
  <1>1. CASE BeginWatch(v)  BY <1>1 DEF BeginWatch, Done
  <1>2. CASE AwaitLock(v)  BY <1>2 DEF AwaitLock
  <1>3. CASE Register(v)  BY <1>3 DEF Register
  <1>4. CASE Lookup(v)  BY <1>4 DEF Lookup
  <1>5. CASE Deregister(v)  BY <1>5 DEF Deregister
  <1>6. CASE Write(v)
    <2>1. event[v] \in Callers
      BY <1>6 DEF WatchInv, Write
    <2> QED  BY <1>6, <2>1 DEF Write
  <1>7. CASE Timeout(v)  BY <1>7 DEF Timeout
  <1> QED  BY <1>1, <1>2, <1>3, <1>4, <1>5, <1>6, <1>7 DEF Watching

\* Typing and control need each other, and nothing else.
Control == TypeOK /\ (\A c \in Callers : Stage(c)) /\ PastInv /\ WatchInv

LEMMA StageStep ==
    ASSUME Control, Next
    PROVE  \A x \in Callers : Stage(x)'
  <1> SUFFICES ASSUME NEW x \in Callers PROVE Stage(x)'
    OBVIOUS
  <1> USE DEF Control, TypeOK, Stage, Goto, End
  <1>1. ASSUME NEW c \in Callers, Begin(c) PROVE Stage(x)'
    <2>1. job[c] \in AnyJob
      OBVIOUS
    <2> QED  BY <1>1, <2>1 DEF Begin, AnyJob, Writes, lockVars, storeVars
  <1>2. ASSUME NEW c \in Callers, Check(c) PROVE Stage(x)'
    BY <1>2 DEF Check, lockVars
  <1>3. ASSUME NEW c \in Callers, Apply(c) PROVE Stage(x)'
    BY <1>3 DEF Apply, lockVars
  <1>4. ASSUME NEW c \in Callers, ReadLock(c) PROVE Stage(x)'
    BY <1>4 DEF ReadLock
  <1>5. ASSUME NEW c \in Callers, NEW v \in Watchers, Send(c, v) PROVE Stage(x)'
    BY <1>5 DEF Send, requestVars
  <1>6. ASSUME NEW c \in Callers, ReadUnlock(c) PROVE Stage(x)'
    BY <1>6 DEF ReadUnlock
  <1>7. ASSUME NEW c \in Callers, Get(c) \/ CleanServer(c) \/ CleanFake(c) PROVE Stage(x)'
    BY <1>7 DEF Get, CleanServer, CleanFake, lockVars, storeVars
  <1>8. ASSUME NEW v \in Watchers, BeginWatch(v) \/ Lookup(v) \/ Write(v) \/ Timeout(v)
        PROVE  Stage(x)'
    BY <1>8 DEF BeginWatch, Lookup, Write, Timeout, lockVars, requestVars
  <1>9. ASSUME NEW v \in Watchers, AwaitLock(v) \/ Register(v) PROVE Stage(x)'
    BY <1>9 DEF AwaitLock, Register, requestVars
  <1>10. ASSUME NEW v \in Watchers, Deregister(v) PROVE Stage(x)'
    BY <1>10 DEF Deregister, requestVars
  <1> QED  BY <1>1, <1>2, <1>3, <1>4, <1>5, <1>6, <1>7, <1>8, <1>9, <1>10
           DEF Next, Handling, Watching

\* What has been decided stays as it is.
Fixed ==
    /\ job' = job
    /\ \A c \in Callers : Begun(c) => Begun(c)' /\ before'[c] = before[c]
    /\ \A c \in Callers : pc[c] = "done" =>
           pc'[c] = "done" /\ result'[c] = result[c] /\ got'[c] = got[c]
    /\ \A v \in Watchers : wpc[v] # "free" => before'[v] = before[v]

LEMMA FixedStep ==
    ASSUME Control, Next
    PROVE  Fixed
  <1> USE DEF Control, TypeOK, Fixed, Begun, Goto, End
  <1>1. ASSUME NEW c \in Callers, Begin(c) PROVE Fixed
    <2>1. c \notin Watchers
      BY ActorAssumption
    <2> QED  BY <1>1, <2>1 DEF Begin, storeVars, lockVars
  <1>2. ASSUME NEW c \in Callers, Check(c) \/ Apply(c) \/ ReadLock(c) \/ ReadUnlock(c) PROVE Fixed
    BY <1>2 DEF Check, Apply, ReadLock, ReadUnlock, watchVars
  <1>3. ASSUME NEW c \in Callers, Get(c) \/ CleanServer(c) \/ CleanFake(c) PROVE Fixed
    BY <1>3 DEF Get, CleanServer, CleanFake, watchVars
  <1>4. ASSUME NEW c \in Callers, NEW v \in Watchers, Send(c, v) PROVE Fixed
    BY <1>4 DEF Send, requestVars
  <1>5. ASSUME NEW v \in Watchers, BeginWatch(v) PROVE Fixed
    BY <1>5, ActorAssumption DEF BeginWatch, storeVars, lockVars
  <1>6. ASSUME NEW v \in Watchers, Watching(v) \/ Write(v) \/ Timeout(v) PROVE Fixed
    BY <1>6 DEF Watching, AwaitLock, Register, Lookup, Deregister, Write, Timeout, requestVars
  <1> QED  BY <1>1, <1>2, <1>3, <1>4, <1>5, <1>6 DEF Next, Handling

LEMMA PastStep ==
    ASSUME Control, Next, TypeOK', \A x \in Callers : Stage(x)'
    PROVE  PastInv'
  <1>1. Done \subseteq Done'
    BY FixedStep DEF Control, Fixed, Done, Stage, TypeOK
  <1>2. ASSUME before' = before PROVE PastInv'
    BY <1>1, <1>2 DEF Control, PastInv
  <1>3. ASSUME NEW c \in Callers, Begin(c) PROVE PastInv'
    <2>1. c \notin Done
      BY <1>3 DEF Control, Begin, Done, Stage
    <2> QED  BY <1>1, <1>3, <2>1 DEF Control, TypeOK, PastInv, Begin
  <1>4. ASSUME NEW v \in Watchers, BeginWatch(v) PROVE PastInv'
    BY <1>1, <1>4, ActorAssumption DEF Control, TypeOK, PastInv, BeginWatch
  <1>5. ASSUME NEW c \in Callers, Handling(c) PROVE before' = before
    BY <1>5 DEF Handling, Check, Apply, ReadLock, Send, ReadUnlock, Get, CleanServer,
                CleanFake, requestVars
  <1>6. ASSUME NEW v \in Watchers, Watching(v) \/ Write(v) \/ Timeout(v) PROVE before' = before
    BY <1>6 DEF Watching, AwaitLock, Register, Lookup, Deregister, Write, Timeout, requestVars
  <1> QED  BY <1>2, <1>3, <1>4, <1>5, <1>6 DEF Next

LEMMA WatchStep ==
    ASSUME Control, Next
    PROVE  WatchInv'
  <1> USE DEF Control, TypeOK, WatchInv, WatchGoto
  <1>1. ASSUME NEW c \in Callers, Begin(c) \/ Check(c) \/ Apply(c) \/ ReadUnlock(c) \/ Get(c)
                   \/ CleanServer(c) \/ CleanFake(c)
        PROVE  WatchInv'
    BY <1>1 DEF Begin, Check, Apply, ReadUnlock, Get, CleanServer, CleanFake, lockVars, watchVars
  <1>2. ASSUME NEW c \in Callers, ReadLock(c) PROVE WatchInv'
    BY <1>2 DEF ReadLock, watchVars
  <1>3. ASSUME NEW c \in Callers, NEW v \in Watchers, Send(c, v) PROVE WatchInv'
    <2>1. CASE Deliver(c, v) /\ job[c].name \in Wants[v]
      BY <1>3, <2>1, ActorAssumption DEF Send, Deliver
    <2>2. CASE Deliver(c, v) /\ job[c].name \notin Wants[v]
      BY <1>3, <2>2 DEF Send, Deliver
    <2>3. CASE UNCHANGED <<wpc, event, idle>>
      BY <1>3, <2>3 DEF Send
    <2> QED  BY <1>3, <2>1, <2>2, <2>3 DEF Send
  <1>4. ASSUME NEW v \in Watchers, BeginWatch(v) \/ Lookup(v) \/ Timeout(v) PROVE WatchInv'
    BY <1>4 DEF BeginWatch, Lookup, Timeout, lockVars
  <1>5. ASSUME NEW v \in Watchers, AwaitLock(v) PROVE WatchInv'
    BY <1>5, ActorAssumption DEF AwaitLock
  <1>6. ASSUME NEW v \in Watchers, Register(v) \/ Deregister(v) PROVE WatchInv'
    BY <1>6, ActorAssumption DEF Register, Deregister
  <1>7. ASSUME NEW v \in Watchers, Write(v) PROVE WatchInv'
    BY <1>7 DEF Write, lockVars
  <1> QED  BY <1>1, <1>2, <1>3, <1>4, <1>5, <1>6, <1>7 DEF Next, Handling, Watching

LEMMA ControlStep ==
    ASSUME Control, Next
    PROVE  Control'
  <1>1. TypeOK'
    BY CallerTyping, WatchTyping DEF Control, Next
  <1> QED  BY <1>1, StageStep, PastStep, WatchStep DEF Control

-----------------------------------------------------------------------------
(* Events. *)

\* A watch takes an event where it is offered, and writes it later.
Takes(v, c) ==
    /\ pc[c] = "send" /\ v \in left[c] /\ wpc[v] = "select"
    /\ job[c].name \in Wants[v]
    /\ pc' = pc /\ result' = result /\ before' = before
    /\ left' = [left EXCEPT ![c] = @ \ {v}]
    /\ event' = [event EXCEPT ![v] = c] /\ seen' = seen

Keeps(v) == event'[v] = event[v] /\ seen'[v] = seen[v]

LEMMA EventStep ==
    ASSUME Control, Next, NEW v \in Watchers
    PROVE  \/ Keeps(v)
           \/ \E c \in Callers : Takes(v, c)
           \/ Write(v)
  <1> USE DEF Control, TypeOK, Keeps
  <1>1. ASSUME NEW c \in Callers, Begin(c) \/ Check(c) \/ Apply(c) \/ ReadLock(c)
                   \/ ReadUnlock(c) \/ Get(c) \/ CleanServer(c) \/ CleanFake(c)
        PROVE  Keeps(v)
    BY <1>1 DEF Begin, Check, Apply, ReadLock, ReadUnlock, Get, CleanServer, CleanFake, watchVars
  <1>2. ASSUME NEW c \in Callers, NEW u \in Watchers, Send(c, u)
        PROVE  Keeps(v) \/ Takes(v, c)
    <2>1. CASE Deliver(c, u) /\ job[c].name \in Wants[u] /\ u = v
      BY <1>2, <2>1 DEF Send, Deliver, Takes, requestVars
    <2>2. CASE Deliver(c, u) /\ job[c].name \in Wants[u] /\ u # v
      BY <1>2, <2>2 DEF Send, Deliver
    <2>3. CASE Deliver(c, u) /\ job[c].name \notin Wants[u]
      BY <1>2, <2>3 DEF Send, Deliver
    <2>4. CASE UNCHANGED <<wpc, event, idle>>
      BY <1>2, <2>4 DEF Send
    <2> QED  BY <1>2, <2>1, <2>2, <2>3, <2>4 DEF Send
  <1>3. ASSUME NEW u \in Watchers, BeginWatch(u) \/ Watching(u) \/ Timeout(u) PROVE Keeps(v)
    BY <1>3 DEF BeginWatch, Watching, AwaitLock, Register, Lookup, Deregister, Timeout
  <1>4. ASSUME NEW u \in Watchers, Write(u) PROVE Keeps(v) \/ Write(v)
    <2>1. CASE u # v  BY <1>4, <2>1 DEF Write
    <2> QED  BY <1>4, <2>1
  <1> QED  BY <1>1, <1>2, <1>3, <1>4 DEF Next, Handling

\* What Append does to the events that a watch has written.
LEMMA Written ==
    ASSUME TypeOK, WatchInv, NEW v \in Watchers, Write(v)
    PROVE  /\ event[v] \in Callers /\ event'[v] = Nobody
           /\ Len(seen[v]) \in Nat /\ Len(seen'[v]) = Len(seen[v]) + 1
           /\ seen'[v][Len(seen[v]) + 1] = event[v]
           /\ \A i \in 1..Len(seen[v]) : seen'[v][i] = seen[v][i]
           /\ pc' = pc /\ result' = result /\ before' = before /\ left' = left
  <1>1. event[v] \in Callers
    BY DEF TypeOK, WatchInv, Write
  <1>2. seen[v] \in Seq(Callers) /\ seen'[v] = Append(seen[v], event[v]) /\ event'[v] = Nobody
    BY DEF TypeOK, Write
  <1> QED  BY <1>1, <1>2 DEF Write, requestVars, lockVars

LEMMA DeliveredStep ==
    ASSUME Control, Next, NEW v \in Watchers, NEW c \in Callers
    PROVE  /\ Delivered(v, c) => Delivered(v, c)'
           /\ Delivered(v, c)' => Delivered(v, c) \/ Takes(v, c)
  <1>1. CASE Keeps(v)
    BY <1>1 DEF Keeps, Delivered
  <1>2. ASSUME NEW d \in Callers, Takes(v, d)
        PROVE  /\ Delivered(v, c) => Delivered(v, c)'
               /\ Delivered(v, c)' => Delivered(v, c) \/ Takes(v, c)
    <2>1. event[v] = Nobody /\ event'[v] = d
      BY <1>2 DEF Control, TypeOK, WatchInv, Takes
    <2>2. seen'[v] = seen[v]
      BY <1>2 DEF Takes
    <2> QED  BY <1>2, <2>1, <2>2, ActorAssumption DEF Delivered
  <1>3. CASE Write(v)
    <2>1. Delivered(v, c) => Delivered(v, c)'
      BY <1>3, Written DEF Control, Delivered
    <2>2. Delivered(v, c)' => Delivered(v, c)
      <3>1. ASSUME NEW i \in 1..Len(seen'[v]), seen'[v][i] = c PROVE Delivered(v, c)
        <4>1. CASE i = Len(seen[v]) + 1
          BY <1>3, <3>1, <4>1, Written DEF Control, Delivered
        <4>2. CASE i # Len(seen[v]) + 1
          <5>1. i \in 1..Len(seen[v])  BY <1>3, <4>2, Written DEF Control
          <5> QED  BY <1>3, <3>1, <5>1, Written DEF Control, Delivered
        <4> QED  BY <4>1, <4>2
      <3> QED  BY <1>3, <3>1, Written, ActorAssumption DEF Control, Delivered
    <2> QED  BY <2>1, <2>2
  <1> QED  BY <1>1, <1>2, <1>3, EventStep

\* Where a request and its channels can go: it offers each channel its event once.
LEMMA Sending ==
    ASSUME Control, Next, NEW c \in Callers, pc[c] \in {"send", "done"}
    PROVE  /\ pc'[c] \in {"send", "done"}
           /\ result[c] # "refused" => result'[c] # "refused"
           /\ left'[c] \subseteq left[c]
  <1> USE DEF Control, TypeOK, Stage, Goto, End
  <1>1. ASSUME NEW d \in Callers, Begin(d) \/ Check(d) \/ Apply(d) \/ ReadLock(d)
                   \/ ReadUnlock(d)
        PROVE  /\ pc'[c] \in {"send", "done"}
               /\ result[c] # "refused" => result'[c] # "refused"
               /\ left'[c] \subseteq left[c]
    <2>1. d # c \/ ReadUnlock(d)
      BY <1>1 DEF Begin, Check, Apply, ReadLock
    <2>2. CASE ReadUnlock(d)
      BY <2>2 DEF ReadUnlock
    <2>3. CASE d # c
      BY <1>1, <2>3 DEF Begin, Check, Apply, ReadLock, ReadUnlock, lockVars
    <2> QED  BY <2>1, <2>2, <2>3
  <1>2. ASSUME NEW d \in Callers, Get(d) \/ CleanServer(d) \/ CleanFake(d)
        PROVE  /\ pc'[c] \in {"send", "done"}
               /\ result[c] # "refused" => result'[c] # "refused"
               /\ left'[c] \subseteq left[c]
    BY <1>2 DEF Get, CleanServer, CleanFake, lockVars
  <1>3. ASSUME NEW d \in Callers, NEW v \in Watchers, Send(d, v)
        PROVE  /\ pc'[c] \in {"send", "done"}
               /\ result[c] # "refused" => result'[c] # "refused"
               /\ left'[c] \subseteq left[c]
    BY <1>3 DEF Send, requestVars
  <1>4. ASSUME NEW v \in Watchers, BeginWatch(v) \/ Watching(v) \/ Write(v) \/ Timeout(v)
        PROVE  /\ pc'[c] \in {"send", "done"}
               /\ result[c] # "refused" => result'[c] # "refused"
               /\ left'[c] \subseteq left[c]
    BY <1>4 DEF BeginWatch, Watching, AwaitLock, Register, Lookup, Deregister, Write, Timeout,
                requestVars, lockVars
  <1> QED  BY <1>1, <1>2, <1>3, <1>4 DEF Next, Handling

LEMMA DeliveryStep ==
    ASSUME Control, DeliveryInv, Next
    PROVE  DeliveryInv'
  <1> SUFFICES ASSUME NEW v \in Watchers, NEW c \in Callers, Delivered(v, c)'
               PROVE  /\ pc'[c] \in {"send", "done"} /\ result'[c] # "refused"
                      /\ v \notin left'[c] /\ c \notin before'[v]
                      /\ job'[c].op \in Writes /\ job'[c].name \in Wants[v]
    BY DEF DeliveryInv
  <1>1. job' = job
    BY FixedStep DEF Fixed
  <1>2. CASE Delivered(v, c)
    <2>1. wpc[v] # "free"
      <3>1. wpc[v] = "free" => event[v] = Nobody /\ seen[v] = <<>>
        BY DEF Control, WatchInv
      <3>2. Len(<<>>) = 0 /\ c # Nobody
        BY ActorAssumption
      <3> QED  BY <1>2, <3>1, <3>2 DEF Delivered
    <2>2. before'[v] = before[v]
      BY <2>1, FixedStep DEF Fixed
    <2> QED  BY <1>1, <1>2, <2>2, Sending DEF DeliveryInv
  <1>3. CASE Takes(v, c)
    <2>1. c \notin before[v] /\ job[c].op \in Writes /\ result[c] = "none"
      BY <1>3 DEF Control, Takes, Stage, PastInv, Done
    <2>2. v \notin left'[c]
      BY <1>3 DEF Control, TypeOK, Takes
    <2> QED  BY <1>1, <1>3, <2>1, <2>2 DEF Takes
  <1> QED  BY <1>2, <1>3, DeliveredStep

\* What was written was begun, so that its past does not change.
LEMMA SeenPast ==
    ASSUME Control, DeliveryInv, Next, NEW v \in Watchers, NEW i \in 1..Len(seen[v])
    PROVE  seen[v][i] \in Callers /\ before'[seen[v][i]] = before[seen[v][i]]
  <1>1. seen[v] \in Seq(Callers)
    BY DEF Control, TypeOK
  <1>2. seen[v][i] \in Callers
    BY <1>1
  <1>3. pc[seen[v][i]] \in {"send", "done"}
    BY <1>2 DEF DeliveryInv, Delivered
  <1> QED  BY <1>2, <1>3, FixedStep DEF Fixed, Begun

LEMMA OrderStep ==
    ASSUME Control, DeliveryInv, NextInv, InOrder, Next
    PROVE  NextInv' /\ InOrder'
  <1> SUFFICES ASSUME NEW v \in Watchers
               PROVE  /\ event'[v] # Nobody =>
                            \A i \in 1..Len(seen'[v]) :
                                /\ seen'[v][i] # event'[v]
                                /\ event'[v] \notin before'[seen'[v][i]]
                      /\ \A i, j \in 1..Len(seen'[v]) : i < j =>
                            /\ seen'[v][i] # seen'[v][j]
                            /\ seen'[v][j] \notin before'[seen'[v][i]]
    BY DEF NextInv, InOrder
  <1>1. CASE Keeps(v)
    BY <1>1, SeenPast DEF Keeps, NextInv, InOrder
  <1>2. ASSUME NEW c \in Callers, Takes(v, c)
        PROVE  \A i \in 1..Len(seen[v]) : seen[v][i] # c /\ c \notin before[seen[v][i]]
    <2>1. c \notin Done
      BY <1>2 DEF Control, Takes, Stage, Done
    <2>2. ASSUME NEW i \in 1..Len(seen[v])
          PROVE  seen[v][i] # c /\ c \notin before[seen[v][i]]
      <3>1. before[seen[v][i]] \subseteq Done
        BY SeenPast DEF Control, PastInv
      <3>2. ~ Delivered(v, c)
        BY <1>2 DEF DeliveryInv, Takes
      <3> QED  BY <2>1, <3>1, <3>2 DEF Delivered
    <2> QED  BY <2>2
  <1>3. ASSUME NEW c \in Callers, Takes(v, c)
        PROVE  event'[v] = c /\ seen'[v] = seen[v] /\ before' = before
    BY <1>3 DEF Control, TypeOK, Takes
  <1>4. CASE Write(v)
    <2> DEFINE n == Len(seen[v])
    <2>1. ASSUME NEW i \in 1..n + 1, NEW j \in 1..n + 1, i < j
          PROVE  seen'[v][i] # seen'[v][j] /\ seen'[v][j] \notin before'[seen'[v][i]]
      <3>1. i \in 1..n /\ seen'[v][i] = seen[v][i] /\ before' = before
        BY <1>4, <2>1, Written DEF Control
      <3>2. CASE j = n + 1
        <4>1. seen'[v][j] = event[v] /\ event[v] # Nobody
          BY <1>4, <3>2, Written, ActorAssumption DEF Control
        <4> QED  BY <3>1, <4>1 DEF NextInv
      <3>3. CASE j # n + 1
        <4>1. j \in 1..n /\ seen'[v][j] = seen[v][j]
          BY <1>4, <3>3, Written DEF Control
        <4> QED  BY <2>1, <3>1, <4>1 DEF InOrder
      <3> QED  BY <3>2, <3>3
    <2> QED  BY <1>4, <2>1, Written DEF Control
  <1> QED  BY <1>1, <1>2, <1>3, <1>4, EventStep DEF InOrder

\* What waits is only disturbed by a request that offers its event, and by the time.
LEMMA WaitingStep ==
    ASSUME Control, Next, NEW c \in Callers, NEW v \in idle'[c], Begun(c)
    PROVE  /\ v \in idle[c]
           /\ \/ wpc[v] # "select"
              \/ wpc'[v] = "select"
              \/ pc[c] = "send" /\ v \in left[c] /\ v \notin left'[c]
  <1> USE DEF Control, TypeOK, WatchGoto, Begun
  <1>1. ASSUME NEW d \in Callers, Begin(d)
        PROVE  v \in idle[c] /\ wpc' = wpc
    BY <1>1 DEF Begin
  <1>2. ASSUME NEW d \in Callers, Check(d) \/ Apply(d) \/ ReadLock(d) \/ ReadUnlock(d)
                   \/ Get(d) \/ CleanServer(d) \/ CleanFake(d)
        PROVE  v \in idle[c] /\ wpc' = wpc
    BY <1>2 DEF Check, Apply, ReadLock, ReadUnlock, Get, CleanServer, CleanFake, watchVars
  <1>3. ASSUME NEW d \in Callers, NEW u \in Watchers, Send(d, u)
        PROVE  /\ v \in idle[c]
               /\ \/ wpc'[v] = wpc[v]
                  \/ pc[c] = "send" /\ v \in left[c] /\ v \notin left'[c]
    <2>1. CASE UNCHANGED <<wpc, event, idle>>
      BY <2>1
    <2>2. CASE Deliver(d, u)
      <3>1. idle'[c] = IF c = d THEN idle[c] ELSE idle[c] \ {u}
        BY <2>2 DEF Deliver
      <3>2. \E l \in {"write", "map"} : wpc' = [wpc EXCEPT ![u] = l]
        BY <2>2, Zenon DEF Deliver, WatchGoto
      <3>3. u # v => wpc'[v] = wpc[v]
        BY <3>2
      <3>4. u = v => c = d
        BY <3>1
      <3>5. u = v => pc[c] = "send" /\ v \in left[c] /\ v \notin left'[c]
        BY <1>3, <3>4 DEF Send
      <3> QED  BY <3>1, <3>3, <3>5
    <2> QED  BY <1>3, <2>1, <2>2 DEF Send
  <1>4. ASSUME NEW u \in Watchers, Timeout(u)
        PROVE  v \in idle[c] /\ wpc'[v] = wpc[v]
    BY <1>4 DEF Timeout
  <1>5. ASSUME NEW u \in Watchers, BeginWatch(u) \/ Watching(u) \/ Write(u)
        PROVE  /\ v \in idle[c]
               /\ wpc[v] = "select" => wpc'[v] = "select"
    BY <1>5 DEF BeginWatch, Watching, AwaitLock, Register, Lookup, Deregister, Write
  <1> QED  BY <1>1, <1>2, <1>3, <1>4, <1>5 DEF Next, Handling

\* A request that has not begun stays where it is or begins.
LEMMA BeginStep ==
    ASSUME Control, Next, NEW c \in Callers, ~ Begun(c)
    PROVE  ~ Begun(c)' \/ Begin(c)
  <1> USE DEF Control, TypeOK, Begun, Goto, End
  <1>1. ASSUME NEW d \in Callers, Begin(d) PROVE ~ Begun(c)' \/ Begin(c)
    <2>1. CASE d # c  BY <1>1, <2>1 DEF Begin
    <2> QED  BY <1>1, <2>1
  <1>2. ASSUME NEW d \in Callers, Check(d) \/ Apply(d) \/ ReadLock(d) \/ ReadUnlock(d)
                   \/ Get(d) \/ CleanServer(d) \/ CleanFake(d)
        PROVE  ~ Begun(c)'
    <2>1. d # c
      BY <1>2 DEF Check, Apply, ReadLock, ReadUnlock, Get, CleanServer, CleanFake
    <2> QED  BY <1>2, <2>1 DEF Check, Apply, ReadLock, ReadUnlock, Get, CleanServer, CleanFake
  <1>3. ASSUME NEW d \in Callers, NEW v \in Watchers, Send(d, v) PROVE ~ Begun(c)'
    BY <1>3 DEF Send, requestVars
  <1>4. ASSUME NEW v \in Watchers, BeginWatch(v) \/ Watching(v) \/ Write(v) \/ Timeout(v)
        PROVE  ~ Begun(c)'
    BY <1>4 DEF BeginWatch, Watching, AwaitLock, Register, Lookup, Deregister, Write, Timeout,
                requestVars
  <1> QED  BY <1>1, <1>2, <1>3, <1>4 DEF Next, Handling

\* How a request that writes goes on.
Stays(c) == pc'[c] = pc[c] /\ result'[c] = result[c] /\ left'[c] \subseteq left[c]

Moves(c) ==
    \/ pc[c] = "check" /\ pc'[c] = "apply" /\ result'[c] = result[c]
    \/ pc[c] = "check" /\ pc'[c] = "done" /\ result'[c] = "refused"
    \/ pc[c] = "apply" /\ pc'[c] = "rlock" /\ result'[c] = result[c]
    \/ pc[c] = "rlock" /\ pc'[c] = "send" /\ result'[c] = result[c] /\ left'[c] = chans
    \/ pc[c] = "send" /\ pc'[c] = "done" /\ result'[c] = "ok" /\ left[c] = {}

LEMMA WritingStep ==
    ASSUME Control, Next, NEW c \in Callers, Begun(c), job[c].op \in Writes
    PROVE  Stays(c) \/ Moves(c)
  <1> USE DEF Control, TypeOK, Stage, Begun, Goto, End, Stays
  <1>1. ASSUME NEW d \in Callers, Begin(d) PROVE Stays(c)
    <2>1. d # c  BY <1>1 DEF Begin
    <2> QED  BY <1>1, <2>1 DEF Begin, lockVars
  <1>2. ASSUME NEW d \in Callers, Check(d) PROVE Stays(c) \/ Moves(c)
    <2>1. CASE d = c  BY <1>2, <2>1 DEF Check, Moves
    <2>2. CASE d # c  BY <1>2, <2>2 DEF Check, lockVars
    <2> QED  BY <2>1, <2>2
  <1>3. ASSUME NEW d \in Callers, Apply(d) PROVE Stays(c) \/ Moves(c)
    <2>1. CASE d = c  BY <1>3, <2>1 DEF Apply, Moves
    <2>2. CASE d # c  BY <1>3, <2>2 DEF Apply, lockVars
    <2> QED  BY <2>1, <2>2
  <1>4. ASSUME NEW d \in Callers, ReadLock(d) PROVE Stays(c) \/ Moves(c)
    <2>1. CASE d = c  BY <1>4, <2>1 DEF ReadLock, Moves
    <2>2. CASE d # c  BY <1>4, <2>2 DEF ReadLock
    <2> QED  BY <2>1, <2>2
  <1>5. ASSUME NEW d \in Callers, NEW v \in Watchers, Send(d, v) PROVE Stays(c)
    BY <1>5 DEF Send, requestVars
  <1>6. ASSUME NEW d \in Callers, ReadUnlock(d) PROVE Stays(c) \/ Moves(c)
    <2>1. CASE d = c  BY <1>6, <2>1 DEF ReadUnlock, Moves
    <2>2. CASE d # c  BY <1>6, <2>2 DEF ReadUnlock
    <2> QED  BY <2>1, <2>2
  <1>7. ASSUME NEW d \in Callers, Get(d) \/ CleanServer(d) \/ CleanFake(d) PROVE Stays(c)
    <2>1. d # c  BY <1>7 DEF Get, CleanServer, CleanFake, Writes
    <2> QED  BY <1>7, <2>1 DEF Get, CleanServer, CleanFake, lockVars
  <1>8. ASSUME NEW v \in Watchers, BeginWatch(v) \/ Watching(v) \/ Write(v) \/ Timeout(v)
        PROVE  Stays(c)
    BY <1>8 DEF BeginWatch, Watching, AwaitLock, Register, Lookup, Deregister, Write, Timeout,
                requestVars, lockVars
  <1> QED  BY <1>1, <1>2, <1>3, <1>4, <1>5, <1>6, <1>7, <1>8 DEF Next, Handling

LEMMA OfferStep ==
    ASSUME Control, Next, NEW c \in Callers, NEW v \in Watchers,
           pc[c] = "send", v \in left[c], v \notin left'[c],
           wpc[v] = "select", job[c].name \in Wants[v]
    PROVE  Delivered(v, c)'
  <1> USE DEF Control, TypeOK, Goto, End
  <1>1. ASSUME NEW d \in Callers, NEW u \in Watchers, Send(d, u) PROVE Delivered(v, c)'
    <2>1. d = c /\ u = v
      BY <1>1 DEF Send
    <2>2. Deliver(c, v)
      BY <1>1, <2>1 DEF Send
    <2>3. event'[v] = c
      BY <2>2 DEF Deliver
    <2> QED  BY <2>3 DEF Delivered
  <1>2. ASSUME NEW d \in Callers, Begin(d) \/ Check(d) \/ Apply(d) \/ ReadUnlock(d) \/ Get(d)
                   \/ CleanServer(d) \/ CleanFake(d)
        PROVE  left' = left
    BY <1>2 DEF Begin, Check, Apply, ReadUnlock, Get, CleanServer, CleanFake, lockVars
  <1>3. ASSUME NEW d \in Callers, ReadLock(d) PROVE left'[c] = left[c]
    BY <1>3 DEF ReadLock
  <1>4. ASSUME NEW u \in Watchers, BeginWatch(u) \/ Watching(u) \/ Write(u) \/ Timeout(u)
        PROVE  left' = left
    BY <1>4 DEF BeginWatch, Watching, AwaitLock, Register, Lookup, Deregister, Write, Timeout,
                lockVars
  <1> QED  BY <1>1, <1>2, <1>3, <1>4 DEF Next, Handling

LEMMA IdleStep ==
    ASSUME Control, TypeOK', IdleInv, Next
    PROVE  IdleInv'
  <1>1. job' = job
    BY FixedStep DEF Fixed
  <1> SUFFICES ASSUME NEW c \in Callers, NEW v \in idle'[c],
                      job[c].op \in Writes, job[c].name \in Wants[v]
               PROVE  /\ pc'[c] \in {"check", "apply", "rlock"} => wpc'[v] = "select"
                      /\ pc'[c] = "send" /\ v \in left'[c] => wpc'[v] = "select"
                      /\ pc'[c] = "send" /\ v \notin left'[c] => Delivered(v, c)'
                      /\ pc'[c] = "done" /\ result'[c] = "ok" => Delivered(v, c)'
    BY <1>1 DEF IdleInv, Succeeded
  <1>2. v \in Watchers
    BY DEF TypeOK
  <1>3. CASE ~ Begun(c)
    <2>1. CASE Begin(c)
      BY <1>3, <2>1 DEF Control, TypeOK, Begun, Begin, Goto
    <2>2. CASE ~ Begin(c)
      <3>1. pc'[c] = "free"
        BY <1>3, <2>2, BeginStep DEF Begun
      <3> QED  BY <3>1
    <2> QED  BY <2>1, <2>2
  <1>4. CASE Begun(c)
    <2>1. v \in idle[c]
      BY <1>4, WaitingStep
    <2>2. pc[c] = "send" /\ v \in left[c] /\ v \notin left'[c] => Delivered(v, c)'
      BY <1>2, <2>1, OfferStep DEF IdleInv
    <2>3. wpc[v] = "select" => v \in chans
      BY <1>2 DEF Control, WatchInv
    <2>4. CASE Stays(c)
      BY <1>2, <1>4, <2>1, <2>2, <2>4, WaitingStep, DeliveredStep DEF IdleInv, Stays, Succeeded
    <2>5. CASE Moves(c)
      BY <1>2, <1>4, <2>1, <2>2, <2>3, <2>5, WaitingStep, DeliveredStep
         DEF IdleInv, Moves, Succeeded
    <2> QED  BY <1>4, <2>4, <2>5, WritingStep
  <1> QED  BY <1>3, <1>4

-----------------------------------------------------------------------------
(* The stores. *)

\* Three actions change a store or which one is used; with the others nobody's changes
\* take effect.
Unstored ==
    /\ UNCHANGED storeVars
    /\ \A c \in Callers : pc'[c] = "fake" <=> pc[c] = "fake"
    /\ \A c \in Callers : job[c].op # "GET" /\ Effective(c)' => Effective(c)

LEMMA StoringStep ==
    ASSUME Control, Next
    PROVE  Unstored \/ \E c \in Callers : Apply(c) \/ CleanServer(c) \/ CleanFake(c)
  <1> USE DEF Control, TypeOK, Stage, Unstored, Effective, Applied, Succeeded, Goto, End
  <1>1. ASSUME NEW c \in Callers, Begin(c) PROVE Unstored
    <2>1. pc[c] = "free" /\ pc'[c] \in {"check", "get", "server"} /\ result' = result
      <3>1. job[c] \in AnyJob
        OBVIOUS
      <3> QED  BY <1>1, <3>1 DEF Begin, AnyJob, Writes
    <2> QED  BY <1>1, <2>1 DEF Begin
  <1>2. ASSUME NEW c \in Callers, Check(c) PROVE Unstored
    <2>1. \/ pc' = [pc EXCEPT ![c] = "apply"] /\ result' = result
          \/ pc' = [pc EXCEPT ![c] = "done"] /\ result' = [result EXCEPT ![c] = "refused"]
      BY <1>2 DEF Check
    <2>2. pc[c] = "check" /\ UNCHANGED storeVars
      BY <1>2 DEF Check
    <2> QED  BY <2>1, <2>2
  <1>3. ASSUME NEW c \in Callers, ReadLock(c) \/ ReadUnlock(c) \/ Get(c) PROVE Unstored
    BY <1>3 DEF ReadLock, ReadUnlock, Get
  <1>4. ASSUME NEW c \in Callers, NEW v \in Watchers, Send(c, v) PROVE Unstored
    BY <1>4 DEF Send, requestVars
  <1>5. ASSUME NEW v \in Watchers, BeginWatch(v) \/ Watching(v) \/ Write(v) \/ Timeout(v)
        PROVE  Unstored
    BY <1>5 DEF BeginWatch, Watching, AwaitLock, Register, Lookup, Deregister, Write, Timeout,
                requestVars
  <1> QED  BY <1>1, <1>2, <1>3, <1>4, <1>5 DEF Next, Handling

\* The three actions, in terms of what they change.
Applies(x) ==
    /\ pc[x] = "apply" /\ pc' = [pc EXCEPT ![x] = "rlock"] /\ result' = result
    /\ job[x].op \in Writes /\ job[x].name \in Names
    /\ fakeStore' = fakeStore /\ muxStore' = muxStore
    /\ stores'[fakeStore][job[x].name].by = x
    /\ job[x].op # "DELETE" => stores'[fakeStore][job[x].name].there
    /\ \A s \in Callers \cup {Nobody} : \A n \in Names :
           s # fakeStore \/ n # job[x].name => stores'[s][n] = stores[s][n]

Serves(x) ==
    /\ pc[x] = "server" /\ pc' = [pc EXCEPT ![x] = "fake"] /\ result' = result
    /\ job[x].op = "CLEAN"
    /\ muxStore' = x /\ fakeStore' = fakeStore /\ stores' = stores

Switches(x) ==
    /\ pc[x] = "fake" /\ pc' = [pc EXCEPT ![x] = "done"]
    /\ result' = [result EXCEPT ![x] = "ok"]
    /\ job[x].op = "CLEAN"
    /\ fakeStore' = x /\ muxStore' = muxStore /\ stores' = stores

\* Who acts has begun and not ended: it is in nobody's past.
Acts(x) == x \notin Done /\ Begun(x)' /\ \A c \in Callers : x \notin before[c]

LEMMA Storing ==
    ASSUME Control, Next
    PROVE  \/ Unstored
           \/ \E x \in Callers : Acts(x) /\ (Applies(x) \/ Serves(x) \/ Switches(x))
  <1> USE DEF Control, TypeOK, Stage, Goto, End
  <1>1. ASSUME NEW x \in Callers, pc[x] \in {"apply", "server", "fake"} PROVE Acts(x)
    <2>1. x \notin Done  BY <1>1 DEF Done
    <2>2. Begun(x)'  BY <1>1, FixedStep DEF Fixed, Begun
    <2>3. \A c \in Callers : x \notin before[c]  BY <2>1 DEF PastInv
    <2> QED  BY <2>1, <2>2, <2>3 DEF Acts
  <1>2. ASSUME NEW x \in Callers, Apply(x) PROVE Acts(x) /\ Applies(x)
    <2>1. job[x] \in AnyJob
      OBVIOUS
    <2>2. job[x].name \in Names
      BY <2>1 DEF AnyJob
    <2> DEFINE entry == [by |-> x, there |-> job[x].op # "DELETE"]
    <2>3. stores' = [stores EXCEPT ![fakeStore][job[x].name] = entry]
      BY <1>2 DEF Apply
    <2>4. stores'[fakeStore][job[x].name] = entry
      BY <2>2, <2>3
    <2>5. entry.by = x /\ (job[x].op # "DELETE" => entry.there)
      OBVIOUS
    <2> HIDE DEF entry
    <2>6. \A s \in Callers \cup {Nobody} : \A n \in Names :
            s # fakeStore \/ n # job[x].name => stores'[s][n] = stores[s][n]
      BY <2>3
    <2>7. Applies(x)
      BY <1>2, <2>2, <2>4, <2>5, <2>6 DEF Apply, Applies
    <2> QED  BY <1>1, <2>7 DEF Applies
  <1>3. ASSUME NEW x \in Callers, CleanServer(x) PROVE Acts(x) /\ Serves(x)
    BY <1>1, <1>3 DEF CleanServer, Serves
  <1>4. ASSUME NEW x \in Callers, CleanFake(x) PROVE Acts(x) /\ Switches(x)
    BY <1>1, <1>4 DEF CleanFake, Switches
  <1> QED  BY <1>2, <1>3, <1>4, StoringStep

\* What has been applied was, unless it is applied in this step.
LEMMA AppliedStep ==
    ASSUME Control, Next, NEW c \in Callers, job[c].op \in Writes, Applied(c)'
    PROVE  Applied(c) \/ Applies(c)
  <1>1. CASE Unstored
    BY <1>1 DEF Control, Stage, Unstored, Effective, Writes
  <1>2. ASSUME NEW x \in Callers, Applies(x) PROVE Applied(c) \/ Applies(c)
    <2>1. CASE x = c  BY <1>2, <2>1
    <2>2. CASE x # c  BY <1>2, <2>2 DEF Control, TypeOK, Applies, Applied, Succeeded
    <2> QED  BY <2>1, <2>2
  <1>3. ASSUME NEW x \in Callers, Serves(x) \/ Switches(x) PROVE Applied(c)
    <2>1. x # c
      BY <1>3 DEF Serves, Switches, Writes
    <2> QED  BY <1>3, <2>1 DEF Control, TypeOK, Serves, Switches, Applied, Succeeded
  <1> QED  BY <1>1, <1>2, <1>3, Storing

\* A removal remains one.
LEMMA RemovalStep ==
    ASSUME Control, Next, NEW c \in Callers, NEW k \in Callers, Begun(c)
    PROVE  Removal(k, c) => Removal(k, c)'
  BY FixedStep DEF Fixed, Removal, Concerns

LEMMA CreationStep ==
    ASSUME Control, CreationInv, Next
    PROVE  CreationInv'
  <1> SUFFICES ASSUME NEW c \in Callers, Creation(c)', Applied(c)',
                      ~ \E k \in Callers : Removal(k, c)'
               PROVE  stores'[fakeStore'][job'[c].name].there
    BY DEF CreationInv
  <1>1. job' = job
    BY FixedStep DEF Fixed
  <1>2. Creation(c) /\ job[c].op \in Writes /\ job[c].op # "DELETE"
    BY <1>1 DEF Creation, Writes
  <1>3. CASE Applies(c)
    BY <1>1, <1>2, <1>3 DEF Applies
  <1>4. CASE Applied(c)
    <2>1. Begun(c) /\ before'[c] = before[c]
      BY <1>4, FixedStep DEF Applied, Begun, Fixed
    <2>2. stores[fakeStore][job[c].name].there
      BY <1>2, <1>4, <2>1, RemovalStep DEF CreationInv
    <2>3. ASSUME NEW x \in Callers, Acts(x), Concerns(x, job[c].name)
          PROVE  job[x].op \notin {"DELETE", "CLEAN"}
      BY <1>1, <2>1, <2>3 DEF Acts, Removal, Concerns
    <2>4. CASE Unstored
      BY <1>1, <2>2, <2>4 DEF Unstored, storeVars
    <2>5. ASSUME NEW x \in Callers, Acts(x), Applies(x)
          PROVE  stores'[fakeStore'][job'[c].name].there
      <3>1. CASE job[x].name = job[c].name
        BY <1>1, <2>3, <2>5, <3>1 DEF Applies, Concerns
      <3>2. CASE job[x].name # job[c].name
        <4>1. fakeStore \in Callers \cup {Nobody} /\ job[c] \in AnyJob
          BY DEF Control, TypeOK
        <4>2. job[c].name \in Names
          BY <4>1 DEF AnyJob
        <4> QED  BY <1>1, <2>2, <2>5, <3>2, <4>1, <4>2 DEF Applies
      <3> QED  BY <3>1, <3>2
    <2>6. ASSUME NEW x \in Callers, Acts(x), Serves(x) \/ Switches(x) PROVE FALSE
      BY <2>3, <2>6 DEF Serves, Switches, Concerns
    <2> QED  BY <2>4, <2>5, <2>6, Storing
  <1> QED  BY <1>2, <1>3, <1>4, AppliedStep

\* A creation that passes its check found nothing.
LEMMA CheckStep ==
    ASSUME Control, Next, NEW d \in Callers, Creation(d), pc[d] = "check", pc'[d] = "apply"
    PROVE  ~ stores[fakeStore][job[d].name].there
  <1> USE DEF Control, TypeOK, Goto, End
  <1>1. ASSUME NEW c \in Callers, Check(c) PROVE ~ stores[fakeStore][job[d].name].there
    <2>1. c = d
      BY <1>1 DEF Check
    <2>2. CASE Stored(d).there # (job[d].op = "POST")
      BY <2>2 DEF Stored, Creation
    <2>3. CASE ~ (Stored(d).there # (job[d].op = "POST"))
      BY <1>1, <2>1, <2>3 DEF Check
    <2> QED  BY <2>2, <2>3
  <1>2. ASSUME NEW c \in Callers, Begin(c) \/ Apply(c) \/ ReadLock(c) \/ ReadUnlock(c)
                   \/ Get(c) \/ CleanServer(c) \/ CleanFake(c)
        PROVE  FALSE
    <2>1. c # d
      BY <1>2 DEF Begin, Apply, ReadLock, ReadUnlock, Get, CleanServer, CleanFake
    <2> QED  BY <1>2, <2>1 DEF Begin, Apply, ReadLock, ReadUnlock, Get, CleanServer, CleanFake
  <1>3. ASSUME NEW c \in Callers, NEW v \in Watchers, Send(c, v) PROVE FALSE
    BY <1>3 DEF Send, requestVars
  <1>4. ASSUME NEW v \in Watchers, BeginWatch(v) \/ Watching(v) \/ Write(v) \/ Timeout(v)
        PROVE  FALSE
    BY <1>4 DEF BeginWatch, Watching, AwaitLock, Register, Lookup, Deregister, Write, Timeout,
                requestVars
  <1> QED  BY <1>1, <1>2, <1>3, <1>4 DEF Next, Handling

\* Once the second creation is past its check, what made way for it is on record.
LEMMA SecondStep ==
    ASSUME Control, CreationInv, SecondInv, Next
    PROVE  SecondInv'
  <1> SUFFICES ASSUME NEW c \in Callers, NEW d \in Callers,
                      Creation(c)', Creation(d)', job'[c].name = job'[d].name,
                      c \in before'[d], Succeeded(c)', pc'[d] = "apply" \/ Applied(d)'
               PROVE  \E k \in Callers : Removal(k, c)' /\ d \notin before'[k]
    BY DEF SecondInv
  <1>1. job' = job /\ Creation(c) /\ Creation(d) /\ job[c].name = job[d].name
    BY FixedStep DEF Fixed, Creation
  <1>2. job[d].op \in Writes /\ Begun(d)'
    BY <1>1 DEF Creation, Writes, Applied, Begun
  <1>3. Begun(d)
    <2>1. CASE Begin(d)
      BY <1>1, <1>2, <2>1 DEF Begin, Goto, Control, TypeOK, Applied
    <2> QED  BY <1>2, <2>1, BeginStep
  <1>4. \/ pc[d] = "apply" \/ Applied(d)
        \/ pc[d] = "check" /\ pc'[d] = "apply"
    <2>1. CASE Applied(d)'
      BY <1>2, <2>1, AppliedStep DEF Applies
    <2>2. CASE pc'[d] = "apply"
      BY <1>2, <1>3, <2>2, WritingStep DEF Stays, Moves
    <2> QED  BY <2>1, <2>2
  <1>5. c \in before[d] /\ c \in Done
    BY <1>3, FixedStep DEF Control, PastInv, Fixed
  <1>6. pc[c] = "done" /\ Succeeded(c) /\ Begun(c) /\ Applied(c)
    BY <1>5, FixedStep DEF Control, TypeOK, Stage, Done, Fixed, Succeeded, Begun, Applied
  <1>7. PICK k \in Callers : Removal(k, c) /\ d \notin before[k]
    <2>1. CASE pc[d] = "check" /\ pc'[d] = "apply"
      <3>1. PICK k \in Callers : Removal(k, c)
        BY <1>1, <1>6, <2>1, CheckStep DEF CreationInv
      <3>2. d \notin before[k]
        BY <2>1 DEF Control, Stage, PastInv, Done
      <3> QED  BY <3>1, <3>2
    <2>2. CASE pc[d] = "apply" \/ Applied(d)
      BY <1>1, <1>5, <1>6, <2>2 DEF SecondInv
    <2> QED  BY <1>4, <2>1, <2>2
  <1>8. before'[k] = before[k]
    BY <1>7, FixedStep DEF Fixed, Removal
  <1> QED  BY <1>6, <1>7, <1>8, RemovalStep

-----------------------------------------------------------------------------
(* The two stores. *)

LEMMA StoreStep ==
    ASSUME Control, StoreInv, Next
    PROVE  StoreInv'
  <1> SUFFICES ASSUME NEW c \in Callers
               PROVE  /\ pc'[c] # "done" => fakeStore' # c
                      /\ pc'[c] \notin {"fake", "done"} => muxStore' # c
                      /\ pc'[c] # "done" => \A n \in Names : stores'[c][n].by = c
    BY DEF StoreInv
  <1>1. pc[c] = "done" => pc'[c] = "done"
    BY FixedStep DEF Fixed
  <1>2. pc[c] = "fake" => pc'[c] \in {"fake", "done"}
    BY Storing DEF Control, TypeOK, Unstored, Applies, Serves, Switches
  <1>3. CASE Unstored
    BY <1>1, <1>2, <1>3 DEF StoreInv, Unstored, storeVars
  <1>4. ASSUME NEW x \in Callers, Applies(x)
        PROVE  /\ pc'[c] # "done" => fakeStore' # c
               /\ pc'[c] \notin {"fake", "done"} => muxStore' # c
               /\ pc'[c] # "done" => \A n \in Names : stores'[c][n].by = c
    BY <1>1, <1>2, <1>4 DEF StoreInv, Applies
  <1>5. ASSUME NEW x \in Callers, Serves(x)
        PROVE  /\ pc'[c] # "done" => fakeStore' # c
               /\ pc'[c] \notin {"fake", "done"} => muxStore' # c
               /\ pc'[c] # "done" => \A n \in Names : stores'[c][n].by = c
    BY <1>1, <1>2, <1>5 DEF StoreInv, Serves, Control, TypeOK
  <1>6. ASSUME NEW x \in Callers, Switches(x)
        PROVE  /\ pc'[c] # "done" => fakeStore' # c
               /\ pc'[c] \notin {"fake", "done"} => muxStore' # c
               /\ pc'[c] # "done" => \A n \in Names : stores'[c][n].by = c
    BY <1>1, <1>2, <1>6 DEF StoreInv, Switches, Control, TypeOK
  <1> QED  BY <1>3, <1>4, <1>5, <1>6, Storing

\* Calls of Clean that overlap will always have overlapped.
LEMMA OverlapStep ==
    ASSUME Control, Next, CleansOverlap
    PROVE  CleansOverlap'
  BY FixedStep DEF Fixed, CleansOverlap, Begun

\* Two calls of Clean that are both under way overlap.
LEMMA OneCleans ==
    ASSUME Control, ~ CleansOverlap, NEW k \in Callers, NEW l \in Callers,
           pc[k] \in {"server", "fake"}, pc[l] \in {"server", "fake"}
    PROVE  k = l
  <1>1. job[k].op = "CLEAN" /\ job[l].op = "CLEAN" /\ k \notin Done /\ l \notin Done
    BY DEF Control, Stage, Done
  <1>2. k \notin before[l] /\ l \notin before[k]
    BY <1>1 DEF Control, PastInv
  <1> QED  BY <1>1, <1>2 DEF CleansOverlap

\* A change that takes effect goes to the store that is read, or that store is newer than
\* the change.
LEMMA ServedStep ==
    ASSUME Control, StoreInv, ServedInv, Next, ~ CleansOverlap'
    PROVE  ServedInv'
  <1> USE DEF Effective
  <1>1. ~ CleansOverlap
    BY OverlapStep
  <1>2. /\ \A k \in Callers : pc[k] = "fake" => muxStore = k
        /\ muxStore = fakeStore \/ (muxStore \in Callers /\ pc[muxStore] = "fake")
        /\ \A w \in Callers : \A n \in Names : Effective(w) /\ Concerns(w, n) =>
               stores[muxStore][n].by \notin before[w] \cup {Nobody}
    BY <1>1 DEF ServedInv
  <1>3. job' = job
    BY FixedStep DEF Fixed
  <1>4. ASSUME NEW w \in Callers, Effective(w) PROVE before'[w] = before[w]
    BY <1>4, FixedStep DEF Fixed, Begun, Applied
  <1> DEFINE Good == /\ \A k \in Callers : pc'[k] = "fake" => muxStore' = k
                     /\ muxStore' = fakeStore' \/ (muxStore' \in Callers /\ pc'[muxStore'] = "fake")
                     /\ \A w \in Callers : \A n \in Names :
                            Effective(w)' /\ Concerns(w, n) =>
                                stores'[muxStore'][n].by \notin before'[w] \cup {Nobody}
  <1> SUFFICES Good
    BY <1>3 DEF ServedInv, Concerns
  <1>5. CASE Unstored
    <2>1. \A w \in Callers : \A n \in Names :
            Effective(w)' /\ Concerns(w, n) => Effective(w)
      BY <1>5 DEF Unstored, Concerns, Writes
    <2> QED  BY <1>2, <1>4, <1>5, <2>1 DEF Unstored, storeVars
  <1>6. ASSUME NEW x \in Callers, Acts(x), Applies(x) PROVE Good
    <2>1. \A k \in Callers : pc'[k] = "fake" <=> pc[k] = "fake"
      BY <1>6 DEF Control, TypeOK, Applies
    <2>2. ASSUME NEW w \in Callers, NEW n \in Names, Effective(w)', Concerns(w, n)
          PROVE  stores'[muxStore][n].by \notin before'[w] \cup {Nobody}
      <3>1. before'[w] = before[w]
        <4>1. Begun(w)
          BY <1>6, <2>2 DEF Control, TypeOK, Applies, Applied, Succeeded, Begun
        <4> QED  BY <4>1, FixedStep DEF Fixed
      <3>2. CASE muxStore = fakeStore /\ n = job[x].name
        BY <1>6, <3>1, <3>2, ActorAssumption DEF Acts, Applies
      <3>3. CASE ~ (muxStore = fakeStore /\ n = job[x].name) /\ w # x
        <4>1. Effective(w)
          BY <1>6, <2>2, <3>3 DEF Control, TypeOK, Applies, Applied, Succeeded
        <4>2. muxStore \in Callers \cup {Nobody}
          BY DEF Control, TypeOK
        <4>3. stores'[muxStore][n] = stores[muxStore][n]
          BY <1>6, <3>3, <4>2 DEF Applies
        <4> QED  BY <1>2, <2>2, <3>1, <4>1, <4>3
      <3>4. CASE ~ (muxStore = fakeStore /\ n = job[x].name) /\ w = x
        <4>1. n = job[x].name
          BY <1>6, <2>2, <3>4 DEF Applies, Concerns, Writes
        <4>2. muxStore \in Callers /\ pc[muxStore] = "fake"
          BY <1>2, <3>4, <4>1
        <4>3. stores[muxStore][n].by = muxStore
          BY <4>2 DEF StoreInv
        <4>4. stores'[muxStore][n] = stores[muxStore][n]
          BY <1>6, <3>4, <4>2 DEF Applies
        <4>5. muxStore \notin before[w]
          BY <4>2 DEF Control, Stage, PastInv, Done
        <4> QED  BY <3>1, <4>2, <4>3, <4>4, <4>5, ActorAssumption
      <3> QED  BY <3>2, <3>3, <3>4
    <2> QED  BY <1>2, <1>6, <2>1, <2>2 DEF Applies
  <1>7. ASSUME NEW x \in Callers, Acts(x), Serves(x) PROVE Good
    <2>1. \A k \in Callers : pc'[k] = "fake" => k = x
      BY <1>1, <1>7, OneCleans DEF Control, TypeOK, Serves
    <2>2. pc'[x] = "fake"
      BY <1>7 DEF Control, TypeOK, Serves
    <2>3. \A n \in Names : stores'[x][n].by = x
      BY <1>7 DEF StoreInv, Serves
    <2>4. \A w \in Callers : x \notin before'[w]
      <3>1. x \notin Done'
        BY <1>7 DEF Acts, Serves, Done
      <3> QED  BY <3>1, ControlStep DEF Control, PastInv
    <2> QED  BY <1>7, <2>1, <2>2, <2>3, <2>4, ActorAssumption DEF Serves
  <1>8. ASSUME NEW x \in Callers, Acts(x), Switches(x) PROVE Good
    <2>1. muxStore = x
      BY <1>2, <1>8 DEF Switches
    <2>2. \A k \in Callers : pc'[k] # "fake"
      BY <1>1, <1>8, OneCleans DEF Control, TypeOK, Switches
    <2>3. \A w \in Callers : \A n \in Names :
            Effective(w)' /\ Concerns(w, n) => Effective(w)
      BY <1>8 DEF Control, TypeOK, Switches, Applied, Succeeded
    <2> QED  BY <1>2, <1>4, <1>8, <2>1, <2>2, <2>3 DEF Switches
  <1> QED  BY <1>5, <1>6, <1>7, <1>8, Storing

\* A GET that ends in this step has read the store of the server.
LEMMA ReadStep ==
    ASSUME Control, Next, NEW g \in Callers, job[g].op = "GET"
    PROVE  /\ Succeeded(g) => Succeeded(g)' /\ got'[g] = got[g] /\ before'[g] = before[g]
           /\ ~ Succeeded(g) /\ Succeeded(g)' =>
                 /\ got'[g] = stores[muxStore][job[g].name] /\ before'[g] = before[g]
  <1>1. Succeeded(g) => Succeeded(g)' /\ got'[g] = got[g] /\ before'[g] = before[g]
    BY FixedStep DEF Control, Stage, Fixed, Succeeded, Begun
  <1>2. CASE Get(g)
    BY <1>1, <1>2 DEF Get, Control, TypeOK
  <1> USE DEF Control, TypeOK, Stage, Succeeded, Goto, End
  <1>3. ASSUME NEW c \in Callers, c # g, Begin(c) \/ Check(c) \/ Apply(c) \/ ReadLock(c)
                   \/ ReadUnlock(c) \/ Get(c) \/ CleanServer(c) \/ CleanFake(c)
        PROVE  result'[g] = result[g]
    BY <1>3 DEF Begin, Check, Apply, ReadLock, ReadUnlock, Get, CleanServer, CleanFake
  <1>4. ASSUME Begin(g) \/ Check(g) \/ Apply(g) \/ ReadLock(g)
                   \/ ReadUnlock(g) \/ CleanServer(g) \/ CleanFake(g)
        PROVE  result'[g] = result[g]
    BY <1>4 DEF Begin, Check, Apply, ReadLock, ReadUnlock, CleanServer, CleanFake, Writes
  <1>5. ASSUME NEW c \in Callers, NEW v \in Watchers, Send(c, v) PROVE result' = result
    BY <1>5 DEF Send, requestVars
  <1>6. ASSUME NEW v \in Watchers, BeginWatch(v) \/ Watching(v) \/ Write(v) \/ Timeout(v)
        PROVE  result' = result
    BY <1>6 DEF BeginWatch, Watching, AwaitLock, Register, Lookup, Deregister, Write, Timeout,
                requestVars
  <1> QED  BY <1>1, <1>2, <1>3, <1>4, <1>5, <1>6 DEF Next, Handling

LEMMA ReadsStep ==
    ASSUME Control, ServedInv, ReadsRegular, Next
    PROVE  ReadsRegular'
  <1> SUFFICES ASSUME ~ CleansOverlap',
                      NEW g \in Callers, job'[g].op = "GET", Succeeded(g)',
                      NEW w \in before'[g], Succeeded(w)', Concerns(w, job[g].name)'
               PROVE  got'[g].by \notin before'[w] \cup {Nobody}
    BY DEF ReadsRegular
  <1>1. ~ CleansOverlap /\ job' = job
    BY OverlapStep, FixedStep DEF Fixed
  <1>2. w \in before[g]
    BY <1>1, ReadStep
  <1>3. w \in Callers /\ w \in Done
    BY <1>2 DEF Control, TypeOK, PastInv
  <1>4. pc[w] = "done" /\ Succeeded(w) /\ before'[w] = before[w]
    BY <1>3, FixedStep DEF Control, TypeOK, Stage, Done, Fixed, Succeeded, Begun
  <1>5. Concerns(w, job[g].name)
    BY <1>1 DEF Concerns
  <1>6. CASE Succeeded(g)
    BY <1>1, <1>2, <1>4, <1>5, <1>6, ReadStep DEF ReadsRegular
  <1>7. CASE ~ Succeeded(g)
    <2>1. job[g] \in AnyJob
      BY DEF Control, TypeOK
    <2>2. job[g].name \in Names
      BY <2>1 DEF AnyJob
    <2>3. stores[muxStore][job[g].name].by \notin before[w] \cup {Nobody}
      BY <1>1, <1>3, <1>4, <1>5, <2>2 DEF ServedInv, Effective, Applied
    <2> QED  BY <1>1, <1>4, <1>7, <2>3, ReadStep
  <1> QED  BY <1>6, <1>7

-----------------------------------------------------------------------------
LEMMA InitInv == Init => IInv
  <1> SUFFICES ASSUME Init PROVE IInv
    OBVIOUS
  <1>1. TypeOK
    BY InitTyping
  <1>2. (\A c \in Callers : Stage(c)) /\ PastInv
    BY DEF Init, Stage, PastInv, Done
  <1>3. WatchInv
    BY ActorAssumption DEF Init, WatchInv
  <1>4. \A v \in Watchers : \A c \in Callers : ~ Delivered(v, c)
    <2> SUFFICES ASSUME NEW v \in Watchers, NEW c \in Callers PROVE ~ Delivered(v, c)
      OBVIOUS
    <2>1. event[v] = Nobody /\ seen[v] = <<>>
      BY DEF Init
    <2>2. Len(seen[v]) = 0 /\ c # Nobody
      BY <2>1, ActorAssumption
    <2>3. ~ \E i \in 1..Len(seen[v]) : seen[v][i] = c
      BY <2>2
    <2> QED  BY <2>1, <2>2, <2>3 DEF Delivered
  <1>5. DeliveryInv /\ NextInv /\ IdleInv /\ InOrder
    <2>1. Len(<<>>) = 0
      OBVIOUS
    <2> QED  BY <1>4, <2>1 DEF Init, DeliveryInv, NextInv, IdleInv, InOrder
  <1>6. \A c \in Callers : ~ Applied(c) /\ ~ Effective(c) /\ ~ Succeeded(c)
    BY DEF Init, Applied, Effective, Succeeded
  <1>7. CreationInv /\ SecondInv /\ ServedInv /\ ReadsRegular
    BY <1>6 DEF Init, CreationInv, SecondInv, ServedInv, ReadsRegular
  <1>8. StoreInv
    BY ActorAssumption DEF Init, StoreInv
  <1> QED  BY <1>1, <1>2, <1>3, <1>5, <1>7, <1>8 DEF IInv

\* The invariant that all of this rests on: where requests and watches are, whose past
\* is what, where events are, what has made way for a creation, and which store is read.
THEOREM Inductive == Spec => []IInv
  <1>1. ASSUME IInv, Next PROVE IInv'
    <2>1. Control
      BY <1>1 DEF IInv, Control
    <2>2. Control'
      BY <1>1, <2>1, ControlStep
    <2>3. DeliveryInv' /\ NextInv' /\ InOrder'
      BY <1>1, <2>1, DeliveryStep, OrderStep DEF IInv
    <2>4. IdleInv'
      BY <1>1, <2>1, <2>2, IdleStep DEF IInv, Control
    <2>5. CreationInv' /\ SecondInv'
      BY <1>1, <2>1, CreationStep, SecondStep DEF IInv
    <2>6. StoreInv'
      BY <1>1, <2>1, StoreStep DEF IInv
    <2>7. ServedInv'
      <3>1. CASE CleansOverlap'  BY <3>1 DEF ServedInv
      <3>2. CASE ~ CleansOverlap'  BY <1>1, <2>1, <3>2, ServedStep DEF IInv
      <3> QED  BY <3>1, <3>2
    <2>8. ReadsRegular'
      BY <1>1, <2>1, ReadsStep DEF IInv
    <2> QED  BY <2>2, <2>3, <2>4, <2>5, <2>6, <2>7, <2>8 DEF IInv, Control
  <1>2. ASSUME IInv, UNCHANGED vars PROVE IInv'
    <2> USE <1>2 DEF vars, requestVars, storeVars, lockVars, watchVars
    <2>1. TypeOK' /\ (\A c \in Callers : Stage(c)')
      BY DEF IInv, TypeOK, Stage
    <2>2. PastInv' /\ WatchInv' /\ DeliveryInv' /\ NextInv' /\ InOrder'
      BY DEF IInv, PastInv, Done, WatchInv, DeliveryInv, Delivered, NextInv, InOrder
    <2>3. IdleInv'
      BY DEF IInv, IdleInv, Delivered, Succeeded
    <2>4. CreationInv' /\ SecondInv'
      BY DEF IInv, CreationInv, SecondInv, Creation, Applied, Removal, Begun, Concerns, Succeeded
    <2>5. StoreInv' /\ (CleansOverlap' <=> CleansOverlap)
      BY DEF IInv, StoreInv, CleansOverlap
    <2>6. \A w \in Callers : \A n \in Names :
            (Effective(w)' <=> Effective(w)) /\ (Concerns(w, n)' <=> Concerns(w, n))
      BY DEF Effective, Applied, Concerns, Succeeded
    <2>7. ServedInv'
      BY <2>5, <2>6 DEF IInv, ServedInv
    <2>8. ReadsRegular'
      BY <2>5 DEF IInv, ReadsRegular, Concerns, Succeeded
    <2> QED  BY <2>1, <2>2, <2>3, <2>4, <2>5, <2>7, <2>8 DEF IInv
  <1> QED  BY InitInv, <1>1, <1>2, PTL DEF Spec

\* Every variable of the fake server keeps its type.
THEOREM Typing == Spec => []TypeOK
  <1>1. IInv => TypeOK
    BY DEF IInv
  <1> QED  BY Inductive, <1>1, PTL

\* Two creations of a name succeed only if they overlap or something can have removed the
\* name in between, although the check and the creation are two steps
\* (fake_ckube.go:416-423).
THEOREM Creations == Spec => []CreatedOnce
  <1>1. ASSUME IInv PROVE CreatedOnce
    <2>1. \A d \in Callers : Succeeded(d) => Applied(d)
      BY <1>1 DEF IInv, Stage, TypeOK, Succeeded, Applied
    <2> QED  BY <1>1, <2>1 DEF IInv, SecondInv, CreatedOnce, Creation, Removal
  <1> QED  BY Inductive, <1>1, PTL

\* The store that is read never lacks what had ended before the read began, unless calls
\* of Clean overlap (fake_ckube.go:96-108).
THEOREM Reads == Spec => []ReadsRegular
  <1>1. IInv => ReadsRegular
    BY DEF IInv
  <1> QED  BY Inductive, <1>1, PTL

\* Lossy as they are, watches see nothing twice and nothing before what preceded it
\* (fake_ckube.go:464-478).
THEOREM Order == Spec => []InOrder
  <1>1. IInv => InOrder
    BY DEF IInv
  <1> QED  BY Inductive, <1>1, PTL

\* Watches see nothing that was refused, that is not theirs, or that is older than they
\* (fake_ckube.go:338-366, 416-449).
THEOREM Changes == Spec => []SeesChanges
  <1>1. ASSUME IInv PROVE SeesChanges
    <2> SUFFICES ASSUME NEW v \in Watchers, NEW i \in 1..Len(seen[v])
                 PROVE  LET c == seen[v][i]
                        IN /\ job[c].op \in Writes /\ job[c].name \in Wants[v]
                           /\ result[c] # "refused" /\ c \notin before[v]
      BY DEF SeesChanges
    <2>1. seen[v] \in Seq(Callers)
      BY <1>1 DEF IInv, TypeOK
    <2>2. seen[v][i] \in Callers /\ Delivered(v, seen[v][i])
      BY <2>1 DEF Delivered
    <2> QED  BY <1>1, <2>2 DEF IInv, DeliveryInv
  <1> QED  BY Inductive, <1>1, PTL

\* What a watch loses it loses while it is busy (fake_ckube.go:468-476).
THEOREM Losses == Spec => []NothingLostByWaiting
  <1>1. ASSUME IInv PROVE NothingLostByWaiting
    <2>1. \A c \in Callers : Succeeded(c) => pc[c] = "done"
      BY <1>1 DEF IInv, Stage, TypeOK, Succeeded
    <2> QED  BY <1>1, <2>1 DEF IInv, IdleInv, NothingLostByWaiting, Delivered
  <1> QED  BY Inductive, <1>1, PTL

-----------------------------------------------------------------------------
(* Nobody waits in a circle. *)

\* The guards of Handling and Watching: who can go on now, whatever the clients and
\* the clock do.
CanHandle(c) ==
    \/ pc[c] \in {"check", "apply", "send", "server", "fake", "get"}
    \/ pc[c] = "rlock" /\ pending = Nobody
CanWatch(v) ==
    \/ wpc[v] \in {"lock", "unlist", "map"} /\ pending = Nobody
    \/ wpc[v] \in {"enter", "leave"} /\ readers = {}

\* Who has something to do that does not take a client or the clock.
Busy(c) == pc[c] \notin {"free", "done"}
Queued(v) == wpc[v] \notin {"free", "select", "write", "done"}

GoesOn ==
    (\E c \in Callers : Busy(c)) \/ (\E v \in Watchers : Queued(v)) =>
        (\E c \in Callers : CanHandle(c)) \/ (\E v \in Watchers : CanWatch(v))

\* As long as a request or a watch has not come to its end, to a client or to its
\* timeout, one of them can go on: the read lock that a request holds while it offers
\* its event, the write lock that a new and a leaving watch want and the preference of
\* a RWMutex for writers never make a circle, for any number of requests and watches
\* (fake_ckube.go:318-336, 464-477).
THEOREM NoCircle == Spec => []GoesOn
<1>1. IInv => GoesOn
  <2> SUFFICES ASSUME IInv, ~ \E c \in Callers : CanHandle(c), ~ \E v \in Watchers : CanWatch(v)
               PROVE  (\A c \in Callers : ~Busy(c)) /\ (\A v \in Watchers : ~Queued(v))
    BY DEF GoesOn
  <2>1. \A c \in Callers : Stage(c) BY DEF IInv
  <2>2. TypeOK /\ WatchInv BY DEF IInv
  <2>3. \A c \in Callers : pc[c] # "send" BY <2>2 DEF CanHandle, TypeOK
  <2>4. readers = {} BY <2>1, <2>2, <2>3 DEF Stage, TypeOK
  <2>5. \A v \in Watchers : wpc[v] \notin {"enter", "leave"} BY <2>4 DEF CanWatch
  <2>6. pending = Nobody BY <2>2, <2>5 DEF WatchInv, TypeOK
  <2>7. \A c \in Callers : ~Busy(c) BY <2>2, <2>3, <2>6 DEF CanHandle, Busy, TypeOK
  <2>8. \A v \in Watchers : ~Queued(v) BY <2>2, <2>5, <2>6 DEF CanWatch, Queued, TypeOK
  <2> QED BY <2>7, <2>8
<1> QED BY <1>1, Inductive, PTL
=============================================================================
