-------------------------------- MODULE Kept --------------------------------
(***************************************************************************)
(* What becomes of a hard invalidation (updateTags without durations) when *)
(* other calls of updateTags read and rewrite its record: bumpTags reads   *)
(* and writes in two commands, so it keeps the fields it does not set only *)
(* as they were when it read them.                                         *)
(***************************************************************************)
EXTENDS Returned

VARIABLES
    contended, \* the updateTags calls whose record may not be theirs alone
    kept,      \* tag -> the start of the latest hard call that returned
               \*        uncontended and whose record has not been undone
    due        \* caller -> kept when its get() began, less what was undone

kvars == <<rvars, contended, kept, due>>

Updating(c) == call[c].pc \in {"update_read", "update_write"}

\* Another call updates a tag of c's call, or the record of one that was
\* given up is still on its way.
Rivalled(c) ==
    \E t \in call[c].tags :
        \/ \E d \in Caller \ {c} : Updating(d) /\ t \in call[d].tags
        \/ \E p \in Pod : \E command \in Commands(p) :
              /\ command.kind = "set_tags" /\ t \in command.tags
              /\ command.by # c

\* The record of tag t is lost in this step.
Undone(t) == records'[t] # records[t] /\ ~Readable(records'[t])

RecordKept ==
    /\ contended' = {c \in Caller :
                        /\ Updating(c)'
                        /\ \/ c \in contended
                           \/ Rivalled(c)'
                           \/ \E t \in call[c].tags : Undone(t)}
    /\ kept' = [t \in Tag |->
                   IF Undone(t) THEN 0
                   ELSE AfterReturn(kept[t], t, Caller \ contended)]
    /\ due' = [c \in Caller |->
                  IF Moves(c, "idle", "get_pending") THEN kept
                  ELSE IF call'[c].pc = "idle" THEN Never
                  ELSE [t \in Tag |-> IF Undone(t) THEN 0 ELSE due[c][t]]]

KInit ==
    /\ RInit
    /\ contended = {}
    /\ kept = Never
    /\ due = [c \in Caller |-> Never]

KSpec == KInit /\ [][INext /\ RecordCall /\ RecordKept]_kvars

\* c's get() finds in this step that it may serve the entry it holds.
FindsUsable(c) ==
    /\ call[c].pc = "get_tags" /\ call'[c].pc = "get_done"
    /\ call'[c].result \in {"fresh", "stale"}

\* The record c has read of tag t was given a later `expired` that is still to
\* come, by a soft updateTags that was not before n.
PutOff(c, t, n) ==
    LET record == reply[c].records[t]
    IN  /\ Readable(record) /\ record.stale # None /\ record.expired # None
        /\ n - Slack <= record.stale /\ Now(c) < record.expired

(***************************************************************************)
(* "Read-modify-write: existing fields not being updated are preserved"    *)
(* (bumpTags), as far as two commands can preserve them: once a hard       *)
(* invalidation that no other updateTags of the tag overlapped has         *)
(* returned, later soft ones, however they race each other, make a get()   *)
(* serve an older entry in one case only: they were given an `expire`,     *)
(* which puts the hard invalidation off, and then the entry is served as   *)
(* stale, until that time comes.  Clocks that differ and rounded stamps    *)
(* cost here what they cost in FreshWithinSlack.  A record that is lost    *)
(* takes its invalidation with it.                                         *)
(***************************************************************************)
HardInvalidationKept ==
    [][\A c \in Caller : FindsUsable(c) =>
          \A t \in Concerned(c) :
              \/ call[c].entry.timestamp >= due[c][t] - Slack
              \/ StampedAhead(c, t)
              \/ call'[c].result = "stale" /\ PutOff(c, t, due[c][t])]_kvars

-----------------------------------------------------------------------------
(***************************************************************************)
(* Why it holds: an invariant every step preserves.                        *)
(***************************************************************************)

\* A record that carries a hard invalidation not older than n, or that one put
\* off by a soft updateTags.
Holds(stored, n, time) ==
    /\ stored \in TagRecord /\ stored.expired \in Int
    /\ n - Slack <= stored.expired
    /\ \/ Reached(stored.expired, time)
       \/ stored.stale \in Int /\ n - Slack <= stored.stale

\* What is kept has happened, and no get() is due more of it than is kept.
KeptReached ==
    /\ \A t \in Tag : kept[t] \in Nat /\ Reached(kept[t], clock)
    /\ \A c \in Caller, t \in Tag : due[c][t] \in 0..kept[t]

\* What is kept of a tag is in its record, and in every record on its way.
RecordsHold == \A t \in Tag : kept[t] > 0 => Holds(records[t], kept[t], clock)

BumpsHold ==
    \A p \in Pod : \A command \in Commands(p) : command.kind = "set_tags" =>
        \A t \in command.tags :
            (kept[t] > 0 /\ command.items[t] \in TagRecord) =>
                Holds(command.items[t], kept[t], clock)

\* updateTags has read what is kept of a tag it is going to write, and get()
\* what it is due.
ReadsHold ==
    \A c \in Caller : reply[c] \in TagReply =>
        /\ call[c].pc = "update_read" =>
              \A t \in call[c].tags :
                  kept[t] > 0 => Holds(reply[c].records[t], kept[t], clock)
        /\ call[c].pc = "get_tags" =>
              \A t \in Tag :
                  due[c][t] > 0 => Holds(reply[c].records[t], due[c][t], clock)

\* Whoever is not contended has no rival.
Uncontended ==
    \A c \in Caller : Updating(c) /\ c \notin contended => ~Rivalled(c)

\* A hard batch carries an invalidation of its call's own time.
HardBatches ==
    \A p \in Pod : \A command \in Commands(p) :
        \A c \in Caller : (command.by = c /\ call[c].duration = Hard
                             /\ call[c].pc = "update_write") =>
            \A t \in command.tags : Holds(command.items[t], began[c], clock)

\* t is in a command of c's that is still on its way.
StillSent(c, t) ==
    \E p \in Pod : \E command \in Commands(p) :
        command.by = c /\ t \in command.tags

\* Unless contended, it is on its way, stored, or given up.
HardWritten ==
    \A c \in Caller :
        (call[c].pc = "update_write" /\ call[c].duration = Hard /\ c \notin contended)
        => \A t \in call[c].tags :
              \/ StillSent(c, t)
              \/ reply[c] = Error
              \/ Holds(records[t], began[c], clock)

(***************************************************************************)
(* The property made inductive: what is kept of a tag is in its record, in *)
(* the records that are going to replace it, and in what those who will    *)
(* write it have read, so that soft bumps hand it on.                      *)
(***************************************************************************)
KeptInv ==
    /\ StandingInv
    /\ AwaitInv
    /\ BeganInPast
    /\ KeptReached
    /\ RecordsHold
    /\ BumpsHold
    /\ ReadsHold
    /\ Uncontended
    /\ HardBatches
    /\ HardWritten

=============================================================================
