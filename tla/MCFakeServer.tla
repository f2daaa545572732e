---------------------------- MODULE MCFakeServer ----------------------------
(* Instances of FakeServer for TLC.  Three requests of a name are what it takes for *)
(* a creation to be repeated, and for a read to miss what was written; the other   *)
(* name is one that the watch does not ask for.                                    *)
EXTENDS FakeServer

CONSTANTS c1, c2, c3, w1, pod, other

MCWants == [v \in Watchers |-> {pod}]

Of(ops, n) == [op : ops, name : {n}]

MCDuties ==
    [c \in Callers |->
        CASE c = c1 -> Of({"POST", "CLEAN"}, pod)
          [] c = c2 -> Of({"POST", "PUT", "DELETE", "CLEAN"}, pod)
          [] c = c3 -> Of({"POST", "GET"}, pod) \cup Of({"POST"}, other)]
=============================================================================
