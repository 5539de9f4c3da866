----------------------------- MODULE MCReturned -----------------------------
\* Returned on the instances of MCCacheHandler.
EXTENDS MCCacheHandler, Returned

=============================================================================
