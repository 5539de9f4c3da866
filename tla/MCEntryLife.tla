---------------------------- MODULE MCEntryLife -----------------------------
\* EntryLife with the spans worth telling apart: none, one second and
\* a half, more than MaxTtl, and no end.
EXTENDS EntryLife

Spans == {0, 3, 5, Infinity}

=============================================================================
