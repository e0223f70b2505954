---------------------------- MODULE MCPodWatcher ----------------------------
EXTENDS PodWatcher

CONSTANTS p1, p2

\* p1 carries the selector's labels, p2 does not.
MCPods == {p1, p2}
MCMatching == {p1}

=============================================================================
