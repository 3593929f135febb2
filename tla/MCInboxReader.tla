----------------------------- MODULE MCInboxReader -----------------------------
EXTENDS InboxReader
==============================================================================
