\* A file that is created again more than two seconds after it was removed.
SPECIFICATION Spec
CONSTANTS
    local = local   kubeconfig = kubeconfig
    Config = local
    Kube = kubeconfig
    MaxChanges = 3
INVARIANT WatchRestored
CHECK_DEADLOCK FALSE
