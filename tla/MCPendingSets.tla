--------------------------- MODULE MCPendingSets ----------------------------
\* PendingSets on the instances of MCCacheHandler.
EXTENDS MCCacheHandler, PendingSets

=============================================================================
