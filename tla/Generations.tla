---------------------------- MODULE Generations ----------------------------
(***************************************************************************)
(* What loading and reloading promise to the rest of the program, apart    *)
(* from the files, the file watcher and the loads that fail: a generation  *)
(* is announced as the configuration, its watch goroutines are started,    *)
(* those of the generation before are stopped, and the server gets its     *)
(* store and then its clients (cmd/cacheproxy/main.go:139-221).            *)
(*                                                                         *)
(* Reload implements this specification; Serving extends it with the       *)
(* requests that are served meanwhile.                                     *)
(***************************************************************************)
EXTENDS Naturals, Sequences

CONSTANT Contents   \* what a configuration and a kubeconfig can say

VARIABLES
    phase,      \* which step of a successful load comes next
    started,    \* the server is built
    built,      \* the generations made so far
    cfg,        \* the generation of common.cfg
    running,    \* the generations whose watch goroutines are not stopped
    current,    \* the generation of the variable w of main
    store,      \* the generation of the server's store
    clients     \* the generation of the server's clients

genVars == <<phase, started, built, cfg, running, current, store, clients>>

Phases == {"idle", "build", "serve", "stop", "resetStore", "resetClients"}

GenTypeOK ==
    /\ phase \in Phases
    /\ started \in BOOLEAN
    /\ built \in Seq(Contents)
    /\ {cfg, current, store, clients} \subseteq 0..Len(built)
    /\ running \subseteq 1..Len(built)

GenInit ==
    /\ phase = "idle"
    /\ started = FALSE
    /\ built = <<>>
    /\ running = {}
    /\ cfg = 0 /\ current = 0 /\ store = 0 /\ clients = 0

\* All that can fail comes before common.InitConfig.
Announce(c) ==
    /\ phase = "idle"
    /\ built' = Append(built, c)
    /\ cfg' = Len(built')
    /\ phase' = "build"
    /\ UNCHANGED <<started, running, current, store, clients>>

StartWatching ==
    /\ phase = "build"
    /\ running' = running \cup {cfg}
    /\ phase' = IF started THEN "stop" ELSE "serve"
    /\ UNCHANGED <<started, built, cfg, current, store, clients>>

BuildServer ==
    /\ phase = "serve"
    /\ started' = TRUE
    /\ current' = cfg /\ store' = cfg /\ clients' = cfg
    /\ phase' = "idle"
    /\ UNCHANGED <<built, cfg, running>>

StopWatching ==
    /\ phase = "stop"
    /\ running' = running \ {current}
    /\ current' = cfg
    /\ phase' = "resetStore"
    /\ UNCHANGED <<started, built, cfg, store, clients>>

\* ResetStore of the server sets two fields, without a lock.
SwapStore ==
    /\ phase = "resetStore"
    /\ store' = cfg
    /\ phase' = "resetClients"
    /\ UNCHANGED <<started, built, cfg, running, current, clients>>

SwapClients ==
    /\ phase = "resetClients"
    /\ clients' = cfg
    /\ phase' = "idle"
    /\ UNCHANGED <<started, built, cfg, running, current, store>>

Replacing == StartWatching \/ BuildServer \/ StopWatching \/ SwapStore \/ SwapClients

GenNext == (\E c \in Contents : Announce(c)) \/ Replacing

GenSpec == GenInit /\ [][GenNext]_genVars
=============================================================================
