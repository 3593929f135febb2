----------------------------- MODULE MCMaktubCore -----------------------------
EXTENDS MaktubCore
==============================================================================
