----------------------------- MODULE MCServing -----------------------------
(* Instances of Serving for TLC: two generations that disagree on everything that *)
(* a request reads, and one request of each kind.                                  *)
EXTENDS Serving

CONSTANTS h1, h2, a, b, pods, services, secret

MCContents == {
    [default |-> a, clusters |-> {a, b}, cached |-> {pods, services}, token |-> NoToken],
    [default |-> b, clusters |-> {b}, cached |-> {pods}, token |-> secret]}

Plain == [method |-> "GET", resource |-> pods, kind |-> "list", watch |-> FALSE,
          by |-> "none", names |-> <<>>, readable |-> TRUE, extra |-> FALSE,
          options |-> FALSE, token |-> secret]

Watch == [Plain EXCEPT !.watch = TRUE, !.extra = TRUE, !.by = "in", !.names = <<b>>]

Update == [Plain EXCEPT !.method = "PUT", !.kind = "one", !.by = "mark", !.names = <<b>>]

Probe == [Plain EXCEPT !.method = "HEAD", !.kind = "one"]

EachKind == {
    Plain, Watch, Update, Probe,
    [Plain EXCEPT !.token = NoToken, !.by = "in", !.names = <<b, a>>],
    [Plain EXCEPT !.by = "notin", !.names = <<a>>],
    [Plain EXCEPT !.by = "notin", !.names = <<b>>, !.resource = services],
    [Plain EXCEPT !.kind = "one"],
    [Plain EXCEPT !.kind = "one", !.by = "mark", !.names = <<a>>],
    [Plain EXCEPT !.kind = "one", !.by = "query", !.names = <<b>>, !.extra = TRUE],
    [Plain EXCEPT !.by = "mark", !.names = <<b>>],
    [Plain EXCEPT !.readable = FALSE],
    [Plain EXCEPT !.readable = FALSE, !.kind = "one"],
    [Plain EXCEPT !.method = "DELETE", !.kind = "one"],
    [Plain EXCEPT !.kind = "services"],
    [Plain EXCEPT !.kind = "services", !.by = "path", !.names = <<b>>]}

\* Requests meet in the clients of a cluster: the second is one that is passed on.
MCRequests == [h \in Handlers |-> IF h = h1 THEN EachKind ELSE {Watch, Update}]

Deletions == [h \in Handlers |-> {
    [Plain EXCEPT !.method = "DELETE", !.kind = "one", !.options = TRUE, !.by = "mark",
                  !.names = <<b>>],
    [Plain EXCEPT !.method = "DELETE", !.kind = "one", !.options = TRUE]}]
=============================================================================
