---------------------------- MODULE MCPagination ----------------------------
(* Instances of Pagination for TLC: two pairs of objects tie, and one object has a *)
(* key that is no number.                                                          *)
EXTENDS Pagination

CONSTANTS web, api, dns, job, bad

MCRank == [o \in Objects |-> CASE o \in {web, job} -> 2 [] o \in {api, dns} -> 1
                               [] OTHER -> NoNumber]
=============================================================================
