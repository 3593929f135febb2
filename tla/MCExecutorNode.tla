---------------------------- MODULE MCExecutorNode ----------------------------
EXTENDS ExecutorNode
==============================================================================
