----------------------------- MODULE TagRecords -----------------------------
(***************************************************************************)
(* The tag records of src/tags.ts: what updateTags writes for a tag, what  *)
(* get() concludes from it, and what is left of it after the trip through  *)
(* JSON.                                                                   *)
(*                                                                         *)
(* Times are integers that count subunits of a millisecond, Sub of them to *)
(* the millisecond: performance.now() has a fraction, bumpTags rounds it   *)
(* away.  A duration `expire` is given in the same unit.                   *)
(***************************************************************************)
EXTENDS Integers

CONSTANTS
    Sub,        \* subunits of the clock in a millisecond
    None,       \* undefined: no record, no entry, a field that is absent
    Unreadable, \* stored text that parseTagRecord or decodeEntry refuses
    Hard,       \* updateTags called without durations
    NoExpire,   \* updateTags called with durations that have no `expire`
    Infinite    \* durations.expire = Infinity

ASSUME SubAssumption == Sub \in Nat \ {0}

\* None is no number, as `typeof record.expired === "number"` tests.
ASSUME NoneAssumption == None \notin Int

\* The three special durations are told apart and are no numbers.
ASSUME DurationAssumption ==
    /\ Hard \notin Int /\ NoExpire \notin Int /\ Infinite \notin Int
    /\ Hard # NoExpire /\ Hard # Infinite /\ NoExpire # Infinite

TagRecord == [expired: Int \cup {None}, stale: Int \cup {None}]

\* What memcached may hold for a tag; neither sentinel is a record.
StoredRecord == TagRecord \cup {None, Unreadable}

ASSUME SentinelAssumption ==
    /\ None # Unreadable
    /\ None \notin TagRecord
    /\ Unreadable \notin TagRecord

Duration == {Hard, NoExpire, Infinite} \cup Nat

EmptyRecord == [expired |-> None, stale |-> None]

\* What a read concludes for a tag it finds no readable record of, and what
\* its re-seed stores.
ExpiredAt(now) == [expired |-> now, stale |-> None]

\* parseTagRecord: anything but a record reads as undefined.
Readable(stored) == stored \in TagRecord

\* Mutant: without the fail-safe, a tag with no record was never invalidated.
ReadAsNever(stored, now) == IF Readable(stored) THEN stored ELSE EmptyRecord

\* readTagRecords, for one tag.
ReadAs(stored, now) == IF Readable(stored) THEN stored ELSE ExpiredAt(now)

\* Mutant: stamps are rounded down, as by Math.floor.
RoundDown(time) == Sub * (time \div Sub)

\* Math.round, which takes halves up.
Round(time) == Sub * ((2 * time + Sub) \div (2 * Sub))

\* Mutant: an invalidation is not felt in the instant of its stamp.
IsHardExpiredLate(record, timestamp, now) ==
    /\ record.expired # None
    /\ record.expired < now
    /\ record.expired > timestamp

\* `expired` has come, and the entry is older.
IsHardExpired(record, timestamp, now) ==
    /\ record.expired # None
    /\ record.expired <= now
    /\ record.expired > timestamp

IsSoftStale(record, timestamp) ==
    /\ record.stale # None
    /\ record.stale > timestamp

\* Mutant: the record is written anew, the fields it had are lost.
BumpedAnew(stored, now, duration) ==
    IF duration = Hard
      THEN ExpiredAt(now)
      ELSE [expired |-> IF duration \in Int THEN now + duration ELSE None,
            stale |-> now]

\* Mutant: a tag that is stale already keeps its older stamp.
BumpedOnce(stored, now, duration) ==
    IF Readable(stored) /\ stored.stale # None
      THEN stored
      ELSE BumpedAnew(stored, now, duration)

(***************************************************************************)
(* The text bumpTags stores: the fields it does not set are those of the   *)
(* record it read, an unreadable one counting as empty.  JSON.stringify    *)
(* turns an infinite `expired` into null, which no reader accepts.         *)
(***************************************************************************)
Bumped(stored, now, duration) ==
    LET record == IF Readable(stored) THEN stored ELSE EmptyRecord
    IN  CASE duration = Hard     -> [record EXCEPT !.expired = now]
          [] duration = NoExpire -> [record EXCEPT !.stale = now]
          [] duration = Infinite -> Unreadable
          [] OTHER -> [expired |-> now + duration, stale |-> now]

=============================================================================
