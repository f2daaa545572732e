----------------------------- MODULE MCWatcher -----------------------------
(* Instances of Watcher for TLC: three objects in two namespaces. *)
EXTENDS Watcher

CONSTANTS web, api, dns, apps, sys

MCNsOf == [k \in Keys |-> IF k = dns THEN sys ELSE apps]
=============================================================================
