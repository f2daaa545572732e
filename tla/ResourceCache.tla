--------------------------- MODULE ResourceCache ---------------------------
(***************************************************************************)
(* What the cache of one resource type promises to the code that reads it, *)
(* with no locks and no levels of maps: the contents change one object at  *)
(* a time or one namespace at a time, and a read, which takes time, is     *)
(* REGULAR.  Its answer has every object that it selects and that was      *)
(* cached during the whole read, and each object of the answer was cached, *)
(* in that version, at some moment of the read.                            *)
(*                                                                         *)
(* A read is not atomic: its answer need not be the contents of the cache  *)
(* at any one moment.  memory.go gives no more than this, because Query    *)
(* holds the lock of one namespace at a time.                              *)
(***************************************************************************)

CONSTANTS
    Keys,       \* the objects, each a cluster, a namespace and a name
    Versions,   \* the contents an object may have
    Absent,     \* no object
    Spaces,     \* the namespaces of the clusters
    SpaceOf,    \* the namespace an object lies in
    Readers,    \* the goroutines that serve requests
    Queries,    \* what they may ask for
    Selects,    \* Selects[q][k]: the versions of k that the query q asks for
    None        \* no query, no answer

VARIABLES
    contents,   \* the cached version of each object
    asked,      \* what each reader is asking for
    reply,      \* its answer, once it has one
    must,       \* the objects asked for that were cached ever since it asked
    may         \* the versions asked for that were cached at some moment since

vars == <<contents, asked, reply, must, may>>

Answers == [Keys -> Versions \cup {Absent}]

TypeOK ==
    /\ contents \in Answers
    /\ asked \in [Readers -> Queries \cup {None}]
    /\ reply \in [Readers -> Answers \cup {None}]
    /\ must \in [Readers -> SUBSET Keys]
    /\ may \in [Readers -> [Keys -> SUBSET Versions]]

Init ==
    /\ contents = [k \in Keys |-> Absent]
    /\ asked = [r \in Readers |-> None]
    /\ reply = [r \in Readers |-> None]
    /\ must = [r \in Readers |-> {}]
    /\ may = [r \in Readers |-> [k \in Keys |-> {}]]

-----------------------------------------------------------------------------
\* The objects of c that q asks for, and the versions of them that it sees in c.
Hits(q, c) == {k \in Keys : c[k] \in Selects[q][k]}
Seen(q, c) == [k \in Keys |-> {c[k]} \cap Selects[q][k]]

\* The contents become c, in view of every read that is going on.
Become(c) ==
    /\ contents' = c
    /\ must' = [r \in Readers |->
                  IF asked[r] = None THEN must[r]
                  ELSE must[r] \cap Hits(asked[r], c)]
    /\ may' = [r \in Readers |->
                  IF asked[r] = None THEN may[r]
                  ELSE [k \in Keys |-> may[r][k] \cup Seen(asked[r], c)[k]]]
    /\ UNCHANGED <<asked, reply>>

Put(k, v) == Become([contents EXCEPT ![k] = v])

Remove(k) == Become([contents EXCEPT ![k] = Absent])

Wipe(s) ==
    Become([k \in Keys |-> IF SpaceOf[k] = s THEN Absent ELSE contents[k]])

Ask(r, q) ==
    /\ asked[r] = None
    /\ asked' = [asked EXCEPT ![r] = q]
    /\ must' = [must EXCEPT ![r] = Hits(q, contents)]
    /\ may' = [may EXCEPT ![r] = Seen(q, contents)]
    /\ UNCHANGED <<contents, reply>>

Regular(r, a) ==
    \A k \in Keys : /\ k \in must[r] => a[k] # Absent
                    /\ a[k] # Absent => a[k] \in may[r][k]

Answer(r) ==
    /\ asked[r] # None
    /\ reply[r] = None
    /\ \E a \in Answers :
         /\ Regular(r, a)
         /\ reply' = [reply EXCEPT ![r] = a]
    /\ UNCHANGED <<contents, asked, must, may>>

Leave(r) ==
    /\ reply[r] # None
    /\ asked' = [asked EXCEPT ![r] = None]
    /\ reply' = [reply EXCEPT ![r] = None]
    /\ must' = [must EXCEPT ![r] = {}]
    /\ may' = [may EXCEPT ![r] = [k \in Keys |-> {}]]
    /\ UNCHANGED contents

Next ==
    \/ \E k \in Keys : \E v \in Versions : Put(k, v)
    \/ \E k \in Keys : Remove(k)
    \/ \E s \in Spaces : Wipe(s)
    \/ \E r \in Readers : \E q \in Queries : Ask(r, q)
    \/ \E r \in Readers : Answer(r)
    \/ \E r \in Readers : Leave(r)

Spec == Init /\ [][Next]_vars
=============================================================================
