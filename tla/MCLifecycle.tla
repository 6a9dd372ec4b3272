---------------------------- MODULE MCLifecycle ----------------------------
\* The process has no parameters: the state space below is all of it.
EXTENDS Lifecycle
=============================================================================
