--------------------------- MODULE CacheRefinement ---------------------------
(***************************************************************************)
(* The handlers implement Cache, as long as their clocks agree: each get() *)
(* is a lookup whose cell is read when memcached executes its command, and *)
(* the invalidations are those that stand (Invalidation).                  *)
(***************************************************************************)
EXTENDS Invalidation

\* What can be read of what memcached holds.
Legible(stored) == IF stored \in Entry THEN stored ELSE None

\* The node has answered c's get of the entry.
HasEntry(c) == call[c].pc = "get_entry" /\ reply[c] \in EntryReply

\* Where c is in its lookup; set() and updateTags() are none.
Phase(c) ==
    CASE call[c].pc = "get_done" -> "answered"
      [] call[c].pc = "get_tags" \/ HasEntry(c) -> "fetched"
      [] call[c].pc = "get_pending" \/ (call[c].pc = "get_entry" /\ ~HasEntry(c))
           -> "asked"
      [] OTHER -> "idle"

\* c's call, as the lookup it implements.
Lookup(c) ==
    IF Phase(c) = "idle"
      THEN [phase |-> "idle", key |-> None, soft |-> {}, since |-> Never,
            entry |-> None, result |-> None]
      ELSE [phase |-> Phase(c),
            key |-> call[c].key,
            soft |-> view[c].soft,
            since |-> view[c].floor,
            entry |-> IF HasEntry(c) THEN Legible(reply[c].entry)
                                     ELSE call[c].entry,
            result |-> call[c].result]

C == INSTANCE Cache WITH
         held     <- [k \in Key |-> Legible(entries[k])],
         standing <- floor,
         lookup   <- [c \in Caller |-> Lookup(c)]

(***************************************************************************)
(* Every behaviour of the handlers, with memcached, its connections, its   *)
(* tag records and all their faults, is one of the simple cache: a get()   *)
(* returns what memcached held under its key at one instant of the call,   *)
(* and as fresh only what respects the invalidations that stood when the   *)
(* call began.                                                             *)
(***************************************************************************)
ImplementsCache == C!Spec

=============================================================================
