\* Violation run: WatchReopened.  Same bounds as PodWatcher.cfg.
SPECIFICATION Spec
CONSTANTS
    p1 = p1
    p2 = p2
    NoPod = NoPod
    Pods <- MCPods
    Matching <- MCMatching
    MaxPodChanges = 4
    MaxReseals = 1
PROPERTY WatchReopened
CHECK_DEADLOCK FALSE
