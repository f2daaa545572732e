------------------------------- MODULE Filter -------------------------------
(* The loops that keep some elements of a list, in their order: what can be  *)
(* matched of a search (page/page.go), what the label selector of a request  *)
(* selects (api/proxy.go).                                                   *)
EXTENDS Integers, Sequences

\* The elements of s that are in S.
Filtered(s, S) ==
    LET kept[i \in 0..Len(s)] ==
            IF i = 0 THEN <<>>
            ELSE IF s[i] \in S THEN Append(kept[i - 1], s[i]) ELSE kept[i - 1]
    IN kept[Len(s)]
=============================================================================
