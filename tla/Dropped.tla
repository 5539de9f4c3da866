------------------------------ MODULE Dropped -------------------------------
(***************************************************************************)
(* The invalidations updateTags drops when memcached does not answer.      *)
(***************************************************************************)
EXTENDS CacheHandler

VARIABLES
    began,   \* caller -> when its call began
    dropped, \* tag -> the start of the latest updateTags that was dropped
    seen     \* caller -> dropped when its call began

dvars == <<vars, began, dropped, seen>>

Begins(c) == call[c].pc = "idle" /\ call'[c].pc # "idle"

\* c's updateTags ends in its catch block in this step.
Drops(c, t) ==
    /\ call[c].pc \in {"update_read", "update_write"}
    /\ call'[c].pc = "idle"
    /\ reply[c] = Error
    /\ t \in call[c].tags

RecordDrops ==
    /\ began' = [c \in Caller |-> IF Begins(c) THEN Now(c) ELSE began[c]]
    /\ dropped' = [t \in Tag |->
                      IF \E c \in Caller : Drops(c, t)
                        THEN began[CHOOSE c \in Caller : Drops(c, t)]
                        ELSE dropped[t]]
    /\ seen' = [c \in Caller |-> IF Begins(c) THEN dropped ELSE seen[c]]

DSpec ==
    /\ Init
    /\ began = [c \in Caller |-> 0]
    /\ dropped = [t \in Tag |-> 0]
    /\ seen = [c \in Caller |-> [t \in Tag |-> 0]]
    /\ [][Next /\ RecordDrops]_dvars

(***************************************************************************)
(* "dropped invalidation on cache-down is safe: reads are misses too": a   *)
(* get() that begins after updateTags has dropped an invalidation does not *)
(* return an entry stamped before that call as fresh (src/index.ts).       *)
(***************************************************************************)
DroppedInvalidationIsSafe ==
    \A c \in Caller :
        (call[c].pc = "get_done" /\ call[c].result = "fresh") =>
            \A t \in call[c].entry.tags : call[c].entry.timestamp >= seen[c][t]

=============================================================================
