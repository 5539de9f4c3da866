----------------------------- MODULE HardServed -----------------------------
(***************************************************************************)
(* What a caller of updateTags without durations would count on: that      *)
(* nothing older is served from then on.                                   *)
(***************************************************************************)
EXTENDS Returned

VARIABLES
    hard, \* tag -> the start of the latest call without durations that
          \*        returned with the tag's record stored
    seen  \* caller -> hard when its get() began

hvars == <<rvars, hard, seen>>

RecordHard ==
    /\ hard' = [t \in Tag |-> AfterReturn(hard[t], t, Caller)]
    /\ seen' = [c \in Caller |-> IF Moves(c, "idle", "get_pending") THEN hard
                                 ELSE IF call'[c].pc = "idle" THEN Never
                                 ELSE seen[c]]

HInit ==
    /\ RInit
    /\ hard = Never
    /\ seen = [c \in Caller |-> Never]

HSpec == HInit /\ [][INext /\ RecordCall /\ RecordHard]_hvars

(***************************************************************************)
(* A get() that begins after updateTags without durations has returned     *)
(* never serves an entry stamped before that call, neither fresh nor stale *)
(* (bumpTags keeps the fields it does not set).                            *)
(***************************************************************************)
HardInvalidatedNeverServed ==
    \A c \in Caller :
        Served(c, {"fresh", "stale"}) =>
            \A t \in Concerned(c) : call[c].entry.timestamp >= seen[c][t]

=============================================================================
