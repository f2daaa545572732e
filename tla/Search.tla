------------------------------- MODULE Search -------------------------------
(***************************************************************************)
(* The search of a list request, Paginate.Search of page/page.go: a string *)
(* of parts that are joined with ";", in which a ";" of a part is doubled. *)
(* One part ought to be a selector ("__ckube_as__:..."), the only one that *)
(* the calls Namespaces, Clusters and SetSearchSelector read and write;    *)
(* each call splits the string and joins it anew.  The server makes such a *)
(* call itself when the request names no cluster (api/proxy.go), once the  *)
(* page has come to it in the label selector (LabelCodec).  A client may   *)
(* go on from there, with the page and the options of the last request.    *)
(*                                                                         *)
(* A string is a sequence of tokens: Sep, which is one ";", Space, a word, *)
(* or the prefix with the text of a selector.  What a plain part matches   *)
(* is left out: the plain parts are kept apart by what they say.           *)
(***************************************************************************)
EXTENDS LabelCodec, Filter

CONSTANTS
    Words, Sep, Space,
    None,       \* no equality
    Blank,      \* the text of a selector that is empty
    NoText,     \* a text that cannot be read as a selector, such as "<none>"
    Paging, Open, Close, \* what the JSON of a page has around the search
    Clusters, Namespaces, NoName,
    Default,    \* the default cluster of the configuration
    ClientParts, \* the parts that a client writes
    Selectors,  \* the selectors that it sets
    MaxParts,   \* bound: the parts of a search
    MaxCalls    \* bound: the calls and requests that a client makes

ASSUME DefaultAssumption == Default \in Clusters /\ NoName \notin Clusters
ASSUME BoundAssumption == MaxParts \in Nat /\ MaxCalls \in Nat \ {0}

\* LabelSelector: matchLabels and matchExpressions, in their order.
ExprKeys == {"cluster", "namespace"}
Ops == {"In", "NotIn", "Exists", "DoesNotExist"}
AllSelectors ==
    [ExprKeys -> [label : Clusters \cup Namespaces \cup {None},
                  exprs : Seq([op : Ops, values : SUBSET (Clusters \cup Namespaces)])]]
Everything == [k \in ExprKeys |-> [label |-> None, exprs |-> <<>>]]

\* FormatLabelSelector gives "<error>" for any other one ...
WellFormed(s) ==
    \A k \in ExprKeys : \A e \in Range(s[k].exprs) :
        e.op \in {"In", "NotIn"} <=> e.values # {}

\* ... and "<none>" for the one that selects everything.
Written(s) == IF s = Everything THEN NoText ELSE s

Texts == {s \in AllSelectors : WellFormed(s)} \cup {Blank, NoText}

SelectorTokens == [selector : Texts]

Advanced(text) == <<[selector |-> text]>>

Characters == Words \cup {Sep, Space}
Tokens == Characters \cup SelectorTokens

ASSUME SelectorAssumption == Selectors \subseteq AllSelectors

\* What a client may write: no part is empty; a token is no other token.
ASSUME TokenAssumption ==
    /\ ClientParts \subseteq Seq(Tokens) \ {<<>>}
    /\ \A c \in Characters : c \notin SelectorTokens
    /\ Sep # Space
    /\ \A c \in {Paging, Open, Close} : c \notin Tokens
    /\ Blank \notin AllSelectors /\ NoText \notin AllSelectors /\ Blank # NoText

VARIABLES
    search,     \* the string
    options,    \* the values of the query in the label selector
    page,       \* history: the page that was sent last
    received,   \* the search of the server
    given,      \* history: the parts that the client wrote
    selectors,  \* history: the selectors that the search ought to have
    calls,      \* calls and requests so far (bounded)
    pc          \* the client builds the search, or QueryListOptions has failed, or
                \* the server has got it

vars == <<search, options, page, received, given, selectors, calls, pc>>

PartLists == UNION {[1..n -> ClientParts] : n \in 0..MaxParts}

TypeOK ==
    /\ search \in Seq(Tokens) /\ received \in Seq(Tokens)
    /\ given \in Seq(ClientParts) /\ Len(given) <= MaxParts
    /\ selectors \subseteq Texts
    /\ calls \in 0..MaxCalls
    /\ pc \in {"build", "failed", "served"}

Init ==
    /\ search = <<>> /\ options = {} /\ page = <<>> /\ received = <<>>
    /\ given = <<>> /\ selectors = {}
    /\ calls = 0 /\ pc = "build"

-----------------------------------------------------------------------------
(* Splitting and joining. *)

\* The scan of SearchParts: "part" is what lies between start and i, "skip" that
\* i is the second of two separators.  The last character never splits.
Scan(t) ==
    LET scan[i \in 0..Len(t)] ==
            IF i = 0 THEN [parts |-> <<>>, part |-> <<>>, skip |-> FALSE]
            ELSE LET a == scan[i - 1] IN
                 IF a.skip THEN [a EXCEPT !.skip = FALSE]
                 ELSE IF t[i] # Sep \/ i = Len(t) THEN [a EXCEPT !.part = Append(@, t[i])]
                 ELSE IF t[i + 1] = Sep
                 THEN [a EXCEPT !.part = Append(@, Sep), !.skip = TRUE]
                 ELSE [a EXCEPT !.parts = Append(@, a.part), !.part = <<>>]
    IN scan[Len(t)]

SearchParts(t) ==
    LET scan == Scan(t)
        parts == Append(scan.parts, scan.part)
    IN Filtered(parts, Range(parts) \ {<<>>})

Doubled(part) ==
    FlattenSeq([i \in DOMAIN part |-> IF part[i] = Sep THEN <<Sep, Sep>> ELSE <<part[i]>>])

\* SetSearchWithParts.
Joined(parts) ==
    FlattenSeq([i \in DOMAIN parts |->
                   IF i = 1 THEN Doubled(parts[i]) ELSE <<Sep>> \o Doubled(parts[i])])

-----------------------------------------------------------------------------
(* Selectors. *)

Trimmed(part) == Filtered(part, Range(part) \ {Space})

\* A space before the prefix is trimmed when the part is matched, and not when the
\* selector is looked for.
IsAdvanced(part) == Head(part) \notin Characters
IsMatched(part) == Trimmed(part) # <<>> /\ IsAdvanced(Trimmed(part))

\* What the label selector parser makes of a part: behind a selector nothing may come.
TextOf(part) == IF Len(Trimmed(part)) = 1 THEN Head(Trimmed(part)).selector ELSE NoText

SelectorParts(parts) == {p \in Range(parts) : IsAdvanced(p)}
PlainOnes(parts) == Range(parts) \ SelectorParts(parts)

\* The texts that the calls see, and those behind a space.
Said(parts) == {TextOf(p) : p \in SelectorParts(parts)}
Behind(parts) == {TextOf(p) : p \in {q \in PlainOnes(parts) : IsMatched(q)}}

\* SearchSelector takes the first advanced part, and Blank for Everything.
SearchSelector(t) ==
    LET parts == SearchParts(t)
        found == Filtered(parts, SelectorParts(parts))
    IN IF found = <<>> \/ TextOf(Head(found)) = Blank THEN Everything ELSE TextOf(Head(found))

\* Faulty variant: the old advanced part stays.
WithSelectorAdded(t, s) == Joined(<<Advanced(Written(s))>> \o SearchParts(t))

\* SetSearchSelector: the new one goes in front, and no other one stays.
WithSelector(t, s) ==
    LET parts == SearchParts(t)
    IN Joined(<<Advanced(Written(s))>> \o Filtered(parts, PlainOnes(parts)))

\* Faulty variant: the values become a matchLabels entry.
RestrictedByLabel(s, key, values) == [s EXCEPT ![key].label = values]

\* Namespaces and Clusters replace the expressions of one key and keep the rest.
Restricted(s, key, values) ==
    [s EXCEPT ![key].exprs = <<[op |-> "In", values |-> values]>>]

\* "in ()" cannot be written, and Clusters takes no cluster without a name.
Unusable(values) == values = {} \/ NoName \in values

RestrictTo(t, key, values) ==
    LET s == SearchSelector(t)
    IN IF s = NoText \/ Unusable(values) THEN t ELSE WithSelector(t, Restricted(s, key, values))

\* GetClusters takes the first expression and does not look at its operator.
GetClusters(t) ==
    LET s == SearchSelector(t)
    IN IF s = NoText \/ s["cluster"].exprs = <<>> THEN {} ELSE Head(s["cluster"].exprs).values

-----------------------------------------------------------------------------
(* The client, then the server. *)

SetSearchWithParts(parts) ==
    /\ calls < MaxCalls
    /\ search' = Joined(parts)
    /\ given' = parts
    /\ selectors' = Said(parts)
    /\ calls' = calls + 1 /\ pc' = "build"
    /\ UNCHANGED <<options, page, received>>

SetSearchSelector(s) ==
    /\ calls < MaxCalls
    /\ search' = IF WellFormed(s) THEN WithSelector(search, s) ELSE search
    /\ selectors' = IF WellFormed(s) THEN {s} ELSE selectors
    /\ calls' = calls + 1 /\ pc' = "build"
    /\ UNCHANGED <<options, page, received, given>>

\* History: the call means the same for every selector that can be read.
RestrictedText(text, key, values) ==
    IF text = NoText THEN NoText
    ELSE Restricted(IF text = Blank THEN Everything ELSE text, key, values)

RestrictAll(texts, key, values) ==
    IF Unusable(values) THEN texts
    ELSE {RestrictedText(x, key, values) : x \in IF texts = {} THEN {Everything} ELSE texts}

CallNamespaces(nss) ==
    /\ calls < MaxCalls
    /\ search' = RestrictTo(search, "namespace", nss)
    /\ selectors' = RestrictAll(selectors, "namespace", nss)
    /\ calls' = calls + 1 /\ pc' = "build"
    /\ UNCHANGED <<options, page, received, given>>

CallClusters(css) ==
    /\ calls < MaxCalls
    /\ search' = RestrictTo(search, "cluster", css)
    /\ selectors' = RestrictAll(selectors, "cluster", css)
    /\ calls' = calls + 1 /\ pc' = "build"
    /\ UNCHANGED <<options, page, received, given>>

\* The JSON of a page, which is "{}", here nothing, for one without a number and a search.
Marshal(paged, t) ==
    IF ~paged /\ t = <<>> THEN <<>>
    ELSE <<IF paged THEN Paging ELSE Open>> \o t \o <<Close>>

\* What is no JSON is ignored.
Unmarshal(value) ==
    LET inside == SubSeq(value, 2, Len(value) - 1)
    IN IF value # <<>> /\ value[Len(value)] = Close /\ inside \in Seq(Tokens)
       THEN inside ELSE <<>>

\* The client sends the page; the list branch of Proxy reads it.
Proxy(paged, readable) ==
    LET sent == Marshal(paged, search)
        values == QueryListOptions(options, sent)
        read == Unmarshal(MergeValues(values))
    IN /\ calls < MaxCalls
       /\ MaySend(sent, readable)
       /\ options' = values /\ page' = sent
       /\ received' = IF GetClusters(read) = {} THEN RestrictTo(read, "cluster", {Default}) ELSE read
       /\ calls' = calls + 1 /\ pc' = "served"
       /\ UNCHANGED <<search, given, selectors>>

\* QueryListOptions returns an error and the options as they were: nothing is sent.
Fail(paged, readable) ==
    /\ MayFail(Marshal(paged, search), readable)
    /\ pc' = "failed"
    /\ UNCHANGED <<search, options, page, received, given, selectors, calls>>

Next ==
    \/ \E parts \in PartLists : SetSearchWithParts(parts)
    \/ \E s \in Selectors : SetSearchSelector(s)
    \/ \E nss \in SUBSET Namespaces : CallNamespaces(nss)
    \/ \E css \in SUBSET (Clusters \cup {NoName}) : CallClusters(css)
    \/ \E paged, readable \in BOOLEAN : Proxy(paged, readable) \/ Fail(paged, readable)

Spec == Init /\ [][Next]_vars

-----------------------------------------------------------------------------
(* Properties. *)

Fits(e, v) ==
    CASE e.op = "In" -> v \in e.values
      [] e.op = "NotIn" -> v \notin e.values
      [] e.op = "Exists" -> TRUE
      [] OTHER -> FALSE

Selects(s, key, v) ==
    s[key].label \in {None, v} /\ \A e \in Range(s[key].exprs) : Fits(e, v)

\* The clusters and namespaces that all of some texts select: a search with a text
\* that cannot be read, or that is blank, finds nothing but an error.
Places(texts) ==
    {p \in Clusters \X Namespaces :
        \A x \in texts :
            x \notin {Blank, NoText} /\ Selects(x, "cluster", p[1]) /\ Selects(x, "namespace", p[2])}

Named(texts) ==
    \E x \in texts \ {Blank, NoText} : x["cluster"].label # None \/ x["cluster"].exprs # <<>>

Found(parts) == Said(parts) \cup Behind(parts)

\* Only a search that names no cluster is one for the default cluster.
Asked == selectors \cup Behind(given)
Wanted ==
    IF pc # "served" \/ Named(Asked) THEN Asked
    ELSE RestrictAll(selectors, "cluster", {Default}) \cup Behind(given)

Matched == SearchParts(IF pc = "served" THEN received ELSE search)

LeadingSep == \E p \in Range(given) : Head(p) = Sep
SeveralSelectors ==
    \E i, j \in DOMAIN given : i # j /\ IsAdvanced(given[i]) /\ IsAdvanced(given[j])

\* Behind no text of its own: the selector of everything was written as "<none>".
Unwritten == NoText \in Found(Matched) /\ NoText \notin Asked

\* The server does not see the cluster of an equality or behind a space, and adds its
\* default; it takes an Exists, a DoesNotExist and a blank for none at all, and replaces it.
Narrowed == pc = "served" /\ Named(Asked)
Overruled ==
    Narrowed /\ \E x \in selectors \ {NoText} :
        \/ x = Blank
        \/ x["cluster"].exprs # <<>> /\ Head(x["cluster"].exprs).values = {}

\* The options still hold the query of a page before: an empty one is not written.
Leftover == page = <<>> /\ options # {}

\* Any sequence of calls, the trip to the server and the restriction to the default
\* cluster keep the search: no part is split, merged or lost, the last Clusters and
\* the last Namespaces win, and neither undoes the other (page.go:30-59, 141-254,
\* proxy.go:222-227): what is matched has the plain parts of the client, and its
\* selectors select the clusters and namespaces that they ought to; where the server
\* does not see the cluster that the client names, or "<none>" was written, they select
\* some of them.  Exceptions: a part that begins with the separator, which is read as
\* a part of the selector that a call puts in front; a second selector, which a call
\* drops; what the server overrules; and what does not arrive, see below.
SearchKept ==
    \/ LeadingSep
    \/ pc = "served" /\ (TooLong(page) \/ Leftover)
    \/ /\ PlainOnes(Matched) = PlainOnes(given)
       /\ \/ SeveralSelectors \/ Overruled
          \/ /\ Places(Found(Matched)) \subseteq Places(Wanted)
             /\ Places(Wanted) \subseteq Places(Found(Matched)) \/ Unwritten \/ Narrowed

\* The values in the label selector put together are the page that was sent last,
\* whatever was sent before with the same options and whatever could not be sent, up
\* to the length at which the offsets outgrow their digits and no longer sort as
\* numbers (label.go:12-43, page.go:295-327, proxy.go:146-159).  Exception: a page
\* without a number and a search leaves the query of the page before in the options.
QueryArrives ==
    MergeValues(options) = page \/ TooLong(page) \/ Leftover
=============================================================================
