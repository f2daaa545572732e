\* Changes of both files at every step of a load.
SPECIFICATION FairSpec
CONSTANTS
    local = local   kubeconfig = kubeconfig
    Config = local
    Kube = kubeconfig
    MaxChanges = 4
INVARIANTS TypeOK LoadedMatchesDisk OneGenerationAtRest ServedStoreIsFed
PROPERTIES ReloadHappens ImplementsGenerations
CHECK_DEADLOCK FALSE
