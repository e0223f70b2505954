\* The watch task with two pods (one outside the selector at first), pod
\* changes, label edits and a reseal, then stop().  The task may end stopped
\* with the bounded cluster quiet: that final state is not a deadlock of the
\* watcher.
SPECIFICATION Spec
CONSTANTS
    p1 = p1
    p2 = p2
    NoPod = NoPod
    Pods <- MCPods
    Matching <- MCMatching
    MaxPodChanges = 4
    MaxReseals = 1
INVARIANT TypeOK
INVARIANT SelectedPodsCurrent
PROPERTY StopReturns
CHECK_DEADLOCK FALSE
