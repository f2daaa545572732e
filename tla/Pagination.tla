----------------------------- MODULE Pagination -----------------------------
(***************************************************************************)
(* A client that walks through the pages of a list: Query of               *)
(* store/memory/memory.go with sortObjs, the list branch of Proxy in       *)
(* api/proxy.go, and MakeupResPaginate of page/page.go, which the client   *)
(* calls on each answer.  While it walks the watch goroutines change what  *)
(* the search matches.                                                     *)
(*                                                                         *)
(* A list goes one of two ways: the store cuts the page out of the objects *)
(* it has sorted, or, with a label selector, the store returns all and the *)
(* proxy filters and cuts.  Numbers are signed and of a fixed width.       *)
(*                                                                         *)
(* Left out: the search, the labels and the sort expression themselves.  A *)
(* sort gives each object a rank; objects of equal rank come in any order, *)
(* another one each time: the store iterates over maps and sort.Slice is   *)
(* not stable.                                                             *)
(***************************************************************************)
EXTENDS Integers, FiniteSets, Sequences, SequencesExt, Filter

CONSTANTS
    Objects,    \* the objects the search may match
    Labelled,   \* those that the label selector selects
    Rank,       \* where the sort puts an object
    NoNumber,   \* the rank of an object whose key a numeric sort cannot read
    PageSizes,  \* the page sizes that are asked for
    FirstPages, \* the pages a walk may begin with
    Half,       \* integers are -Half..Half-1; in the code Half is 2^63
    MaxPage,    \* bound: the last page that is asked for
    MaxChanges  \* bound: changes of the store

ASSUME ObjectAssumption ==
    /\ IsFiniteSet(Objects)
    /\ Labelled \subseteq Objects
    /\ Rank \in [Objects -> Nat \cup {NoNumber}]
    /\ NoNumber \notin Nat

ASSUME NumberAssumption ==
    /\ Half \in Nat /\ Cardinality(Objects) < Half
    /\ PageSizes \subseteq 0..(Half - 1)
    /\ MaxPage \in 0..(Half - 1) /\ FirstPages \subseteq 0..MaxPage
    /\ MaxChanges \in Nat

VARIABLES
    matched,    \* the objects of the store that the search matches
    changes,    \* changes so far (bounded)
    pc,         \* the client: idle, asks, has an answer, has ended
    labels,     \* the request has a label selector
    size, page, \* Paginate.PageSize and Paginate.Page
    from,       \* the page the walk began with
    answer,     \* the answer to the last request
    collected,  \* the items of all answers
    touched     \* history: the store has changed since the walk began

vars == <<matched, changes, pc, labels, size, page, from, answer, collected, touched>>

Codes == {0, 200, 400, 500}
Range64 == (-Half)..(Half - 1)
Pages == 0..MaxPage

TypeOK ==
    /\ matched \in SUBSET Objects
    /\ changes \in 0..MaxChanges
    /\ pc \in {"idle", "ask", "got", "end"}
    /\ labels \in BOOLEAN
    /\ size \in PageSizes
    /\ page \in Pages /\ from \in Pages
    /\ answer \in [code : Codes, items : Seq(Objects), remain : Range64]
    /\ collected \in Seq(Objects)
    /\ touched \in BOOLEAN

NoAnswer == [code |-> 0, items |-> <<>>, remain |-> 0]

Init ==
    /\ matched \in SUBSET Objects
    /\ changes = 0
    /\ pc = "idle"
    /\ labels = FALSE
    /\ size \in PageSizes
    /\ page = 0
    /\ from = 0
    /\ answer = NoAnswer
    /\ collected = <<>>
    /\ touched = FALSE

-----------------------------------------------------------------------------
(* Numbers and pages. *)

\* Two's complement.
Wrap(n) == ((n + Half) % (2 * Half)) - Half

\* Faulty variant: an index beyond the end becomes the last one.
ClampToLast(n, l) == IF n >= l THEN l - 1 ELSE n

Clamp(n, l) == IF n >= l THEN l ELSE n

\* Faulty variant: the pages are counted from 0.
StartFromZero(p, s) == Wrap(p * s)

Start(p, s) == Wrap(Wrap(p - 1) * s)
Finish(p, s) == Wrap(Start(p, s) + s)

\* items[start:end] panics on bounds that are negative or out of order.
Slice(items, start, end) ==
    IF 0 <= start /\ start <= end /\ end <= Len(items)
    THEN [code |-> 200, items |-> SubSeq(items, start + 1, end)]
    ELSE [code |-> 500, items |-> <<>>]

Cut(items, p, s) ==
    Slice(items, Clamp(Start(p, s), Len(items)), Clamp(Finish(p, s), Len(items)))

\* Query: only the page size says that all objects are wanted.
StorePage(items, p, s) ==
    IF items = <<>> \/ s = 0 THEN [code |-> 200, items |-> items] ELSE Cut(items, p, s)

\* Proxy, after the labels: the page or the page size says so.
LabelPage(items, p, s) ==
    IF s = 0 \/ p = 0 THEN [code |-> 200, items |-> items] ELSE Cut(items, p, s)

-----------------------------------------------------------------------------
(* One list request. *)

\* The comparison meets every key as soon as there are two objects.
Sortable(objs) ==
    Cardinality(objs) >= 2 => \A o \in objs : Rank[o] # NoNumber

Ordered(s) == \A i, j \in DOMAIN s : i < j => Rank[s[i]] <= Rank[s[j]]

Orders(objs) ==
    IF Sortable(objs) /\ Cardinality(objs) >= 2
    THEN {s \in SetToSeqs(objs) : Ordered(s)} ELSE SetToSeqs(objs)

\* Faulty variant: the page does not count.
RemainOfSize(total, p, s) == IF p = 0 /\ s = 0 THEN 0 ELSE Wrap(total - s)

\* What is left after this page.
Remain(total, p, s) == IF p = 0 /\ s = 0 THEN 0 ELSE Wrap(total - Wrap(s * p))

Failure(code) == [NoAnswer EXCEPT !.code = code]

\* Faulty variant: what is left is not brought up to 0.
RespondUnclamped(cut, total, p, s) ==
    LET remain == Remain(total, p, s) IN
    IF cut.code # 200 THEN Failure(cut.code)
    ELSE IF remain < 0 /\ cut.items = <<>> /\ p # 1 THEN Failure(400)
    ELSE [code |-> 200, items |-> cut.items, remain |-> remain]

Respond(cut, total, p, s) ==
    LET remain == Remain(total, p, s) IN
    IF cut.code # 200 THEN Failure(cut.code)
    ELSE IF remain < 0 /\ cut.items = <<>> /\ p # 1 THEN Failure(400)
    ELSE [code |-> 200, items |-> cut.items, remain |-> IF remain < 0 THEN 0 ELSE remain]

\* What the label selector leaves of a list.
Chosen(s) == Filtered(s, Labelled)

\* With labels the store is asked for everything, sorted.
Answers(objs, withLabels, p, s) ==
    IF ~Sortable(objs) THEN {Failure(400)}
    ELSE IF withLabels
    THEN {Respond(LabelPage(chosen, p, s), Len(chosen), p, s) :
             chosen \in {Chosen(order) : order \in Orders(objs)}}
    ELSE {Respond(StorePage(order, p, s), Len(order), p, s) : order \in Orders(objs)}

-----------------------------------------------------------------------------
(* The client and the store. *)

\* An object starts or ceases to match.
Change(o) ==
    /\ changes < MaxChanges
    /\ changes' = changes + 1
    /\ matched' = IF o \in matched THEN matched \ {o} ELSE matched \cup {o}
    /\ touched' = (touched \/ pc # "idle")
    /\ UNCHANGED <<pc, labels, size, page, from, answer, collected>>

Begin(p, withLabels) ==
    /\ pc = "idle"
    /\ pc' = "ask"
    /\ page' = p
    /\ from' = p
    /\ labels' = withLabels
    /\ UNCHANGED <<matched, changes, size, answer, collected, touched>>

\* Faulty variant: the pages are collected, not their items.
ListOfPages ==
    /\ pc = "ask"
    /\ answer' \in Answers(matched, labels, page, size)
    /\ collected' = Append(collected, answer'.items)
    /\ pc' = "got"
    /\ UNCHANGED <<matched, changes, labels, size, page, from, touched>>

List ==
    /\ pc = "ask"
    /\ answer' \in Answers(matched, labels, page, size)
    /\ collected' = collected \o answer'.items
    /\ pc' = "got"
    /\ UNCHANGED <<matched, changes, labels, size, page, from, touched>>

\* The client goes on while the answer says that there is more.
NextPage ==
    /\ pc = "got"
    /\ answer.code = 200 /\ answer.remain > 0 /\ page < MaxPage
    /\ page' = page + 1
    /\ pc' = "ask"
    /\ UNCHANGED <<matched, changes, labels, size, from, answer, collected, touched>>

End ==
    /\ pc = "got"
    /\ answer.code # 200 \/ answer.remain <= 0
    /\ pc' = "end"
    /\ UNCHANGED <<matched, changes, labels, size, page, from, answer, collected, touched>>

Next ==
    \/ \E o \in Objects : Change(o)
    \/ \E p \in FirstPages : \E withLabels \in BOOLEAN : Begin(p, withLabels)
    \/ List
    \/ NextPage
    \/ End

Spec == Init /\ [][Next]_vars

FairSpec == Spec /\ WF_vars(List) /\ WF_vars(NextPage) /\ WF_vars(End)

-----------------------------------------------------------------------------
(* Properties. *)

Listed == IF labels THEN matched \cap Labelled ELSE matched

\* A request that asks for a page, whose last index fits into an integer.
Proper == page >= 1 /\ size >= 1 /\ page * size < Half

ListStep == pc = "ask" /\ pc' = "got"

RanksOf(s) == [i \in DOMAIN s |-> Rank[s[i]]]

\* A walk over a list that does not change collects the ranks of the list from the
\* first page asked for to the end, each as often as it occurs, in order: no
\* object is left out or comes twice, other than for one of equal rank, although
\* the store sorts anew for each page; and a walk from page 1 meets no error, not
\* even when the last page is full (memory.go:308-336, proxy.go:266-324).
WalkComplete ==
    (pc = "end" /\ ~touched /\ Proper /\ from >= 1 /\ Sortable(matched)) =>
        LET whole == RanksOf(CHOOSE s \in Orders(Listed) : TRUE) IN
        /\ RanksOf(collected) = SubSeq(whole, (from - 1) * size + 1, Len(whole))
        /\ from = 1 => answer.code = 200

\* A page that is asked for properly never makes the server panic, also when the
\* list has shrunk under the walk.
NoPanic ==
    [][(ListStep /\ Proper) => answer'.code # 500]_vars

\* MakeupResPaginate: on every page, what remains, the pages before and the items
\* of this page add up to the length of the list (page.go:347).
Total == answer.remain + (page - 1) * size + Len(answer.items)

TotalHonest ==
    [][(ListStep /\ Proper /\ answer'.code = 200) => Total' = Cardinality(Listed)]_vars

\* A walk ends, however the store changes meanwhile.
WalkEnds == (pc = "ask" /\ Proper) ~> pc = "end"

\* PAGINATE_SPEC.md:6 and :9, translated: of Page and of PageSize "0 means no
\* pagination".  So all comes at once, and nothing remains.
ZeroMeansAll ==
    [][(ListStep /\ 0 \in {page, size} /\ Sortable(matched)) =>
           /\ answer'.code = 200
           /\ Len(answer'.items) = Cardinality(Listed)
           /\ answer'.remain = 0]_vars
=============================================================================
