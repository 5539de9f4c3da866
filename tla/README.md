# A verification of next-memcached

This directory holds TLA+ models of `@seatgeek/next-memcached`, a handler for
Next.js's `cacheHandlers` (v2) that keeps `'use cache'` entries in a memcached
shared by all pods, the TLC runs that check them, and TLAPS proofs. Paths below
are relative to the repository (`src/index.ts` is the handler itself).

## 1. The system

### Components

| component | state | operations | modelled by |
| --- | --- | --- | --- |
| cache handler, `src/index.ts` | per pod: `pendingSets`; per call: its locals between two awaits | `get`, `set`, `updateTags`, `getExpiration` (`refreshTags` does nothing) | `CacheHandler` |
| tag records, `src/tags.ts` | none: one record `{expired?, stale?}` per tag in memcached | `readTagRecords`, `isHardExpired`, `isSoftStale`, `bumpTags` | `TagRecords`, `CacheHandler` |
| envelope, drain and TTL, `src/envelope.ts`, `src/index.ts` | none: the text stored | `encodeEntry`, `decodeEntry`, `drainToBuffer`, `clampTtlSeconds` | `EntryLife`; as readable or not in `CacheHandler` |
| memcached client, `src/memcached-client.ts` | one connection per process, lazily opened; the CA read once per path | `createClient`, `getSharedClient` | the connection and its timeout in `Memcached`; the singleton and the CA not yet |
| memcached (external) | entries, records | get, set, add, multi-get; eviction, restart | `Memcached` |
| debug inspector, `examples/next-app` | per request: a socket, a buffer, what was listed and read | `GET /api/debug/keys`: `listKeys`, `inspectGetMany`; `inspectGet`, `inspectStats`, `flushAll` | `Inspector` |
| debug panel, `examples/next-app/app/debug-panel.tsx` | what it shows, whether it is loading | refresh, on mounting and on a click | `Panel` over `Inspector` |
| Next.js (external) | the renders | calls the handler with pending entries, soft tags, durations | inputs of `CacheHandler`, the render of `EntryLife` |
| example routes and pages, end-to-end suite, packaging, CI | | | not modelled, see section 7 |

### How they interact

Next.js calls the handler of its pod. `get` waits for the promise that
`pendingSets` holds for its key, reads the entry, reads the records of the
entry's tags and of the route's soft tags in one multi-get, and decides: miss,
stale (`revalidate: -1`) or fresh. `set` registers a promise, awaits the entry
and its stream, drains it, writes, and in its `finally` resolves the promise and
deletes the key. `updateTags` reads the records of its tags, and writes each
back with the fields it changes. All calls of a pod share one pipelined
connection; pods share nothing but memcached. Nothing is locked anywhere.

### What is hard

- The read of `bumpTags` and its write are two commands: two calls interleave.
- A missing record means nothing is known. `get` then assumes an invalidation at
  this moment, and re-seeds the record with an `add` nobody awaits, which may be
  executed after a later `updateTags`, or after an eviction of what that stored.
- Every await may fail or time out, and a command that timed out may still be
  executed.
- memcached evicts what it likes when it likes, and may restart empty.
- A call reads state, waits, and uses it: the entry before its tags, the
  records before the comparison.
- `set` calls of one key overlap; `pendingSets` has one place for them.
- A render blocks on a stream that is not read; a `get` on a promise that is not
  resolved.
- Each pod stamps and compares with a clock of its own.
- Times come from a clock with a fraction, stamps are rounded; durations may be
  infinite and JSON has no infinity; nothing relates an entry's `revalidate` to
  its `expire`, and `get` leaves `expire` to memcached's TTL.
- To the debug client an error line is a complete reply like any other, and a
  listing is taken while the store changes.

### What makes each part correct

| part | properties |
| --- | --- |
| the cache as a whole | `ImplementsCache`: it is the simple cache of `Cache` |
| invalidation (`get` with `updateTags`) | `InvalidatedNeverFresh`, `ReturnedUnlessOvertaken`, on one connection `ReturnedInvalidationStands`, `HardInvalidationKept`; with clocks apart or stamps rounded `FreshWithinSlack`; not `HardInvalidatedNeverServed` |
| `pendingSets` | `PendingSetsLive`, `GetAwaitsLoneSet`; not `GetAwaitsPendingSet` |
| reliability contract | `EveryCallReturns`, `ColdTagHeals`; not `DroppedInvalidationIsSafe` |
| entry life | `VerbatimOrMiss`, `ServedSoonAfterExpire`, `KeptUntilExpire`, `RenderNotStalled` |
| debug inspector | `RepliesInStep`, `ListsAllOwed`, `ShowsOwedKinds` |
| debug panel | `ColdOwesNothing`, `RefreshEnds`; not `ColdOnlyWhenCold` |

`PROJECT.json` lists the hazards behind them line by line.

## 2. The modules

    TagRecords        what a record is, what a read concludes, what a write stores
      Memcached       the node, one pipelined connection per pod, the faults
        CacheHandler  get, set and updateTags over it, each pod with its clock
          Invalidation   + history: which invalidation stands
            Returned     + history: when each updateTags began, what overtook it
              ReturnedProofs
              HardServed + history: which hard updateTags has returned
              Kept       + history: which of them nothing has undone
                KeptProofs
            CacheRefinement   the mapping to Cache
          PendingSets    + history: which set()s a get() found
            PendingSetsProofs
          Dropped        + history: which invalidations were dropped
          Progress       + fairness
        CacheHandlerProofs, InvalidationProofs, CacheRefinementProofs
    Cache             the abstract cache: cells, invalidations, lookups
    EntryLife         one key: render, stream, set(), envelope, TTL, what get() returns
      EntryLifeProofs
    Inspector         the debug endpoint and the raw client, its sockets and replies
      Panel           the debug panel in front of it
        InspectorProofs

`MC*` modules instantiate them; `MCCacheHandler` names the pods and callers.

**`CacheHandler`.** `call[c]` holds the locals of call `c` and, in `pc`, the
await it is suspended at; an action is everything a continuation does up to the
next await, as JavaScript runs it.

| code | actions |
| --- | --- |
| `get` to its first await | `GetStart` |
| ... reads the entry | `GetSend` |
| ... nothing, unreadable, past `revalidate` | `GetMiss` |
| ... reads the tags; without tags returns | `GetReadTags`, `GetUntagged` |
| `readTagRecords` after its multi-get, the two comparisons, the result | `GetCheck` with `ColdTags`, `Reseed`, `Verdict` |
| its `catch` | `GetFail` |
| `set` to its first await | `SetStart` |
| ... writes; returns without writing or fails before; is answered | `SetStore`, `SetSkip`, `SetEnd`, each end with `FinishSet`, the `finally` |
| `updateTags`, `bumpTags` to its multi-get | `UpdateStart` |
| ... stamps and writes; all stored; `catch` | `UpdateWrite`, `UpdateEnd`, `UpdateFail` |

`GetEnd` is Next.js taking a result; between the end of a call and it, the
result stays visible to the properties.

A pod's calls use its clock, `clock[PodOf[c]]`; `Clocks` bounds by `Skew` how far
clocks are apart, and `Tick` advances any of them within that. `refreshTags` has
no action, it changes nothing. `getExpiration` is asked by Next.js before it calls
`get`; because its answer is infinite, `get` is `Given` the route's tags.

**`Memcached`** is external and is what the handler uses of the node and of the
`memcache` package. Commands of one pod are executed in order. Three points of
the abstraction matter:

- A multi-get is executed in one step: memcached reads its keys under one
  command. A batch of sets or adds is one command per tag: it is executed tag
  by tag, in any order, and may be cut off half-way.
- The answer is handed over when the command is executed, but its continuation
  runs any time later. An answer that is late on the wire is one whose
  continuation is late; an answer that comes too late is a `Timeout`, after
  which the command stays queued without an owner.
- A rejected promise is the only sign of a failure. That the package rejects,
  and does not resolve with nothing, when a connection is lost is assumed.

**`EntryLife`** looks at what `CacheHandler` sees as one write: `Begin`,
`Resolve`, `Produce`, `Close` and `Fail` are the render, and the actions of
`set` are its awaits. A body is its chunk numbers, a text is its fields, a span
is a number of instants or infinite. `Served` is what a `get` would return,
tags apart: `get` looks at `revalidate` alone, so what ends an entry with a longer
`revalidate` is the TTL, in whole seconds from the write.

**`Inspector`** has the wire as lines that arrive in chunks cut anywhere, the
buffer of the reply awaited, and the request's locals. What `describeValue`
makes of a value is its kind. A request of the raw client's other calls is one
command on a socket of its own. Any command may be answered by an error line
(`Refused`): `readDump` then falls back to the slabs, everyone else takes it for
an empty reply, as `TERMINAL_LINE` has it. A crawler lists any part of what has
been there since the request began: that it may miss keys is what
`e2e/cache.e2e.test.ts` says at lines 85-87 and 140-143. The history variable
`owed` has the keys that held one value throughout and that no reply of
memcached's own has left out (`LeftOut`).

**`Panel`** adds the fetch: it may reject before the server has seen it, or while
the server goes on for nobody. What is shown is what the response makes of it:
an error whose message is empty, as `net.connect`'s may be (`ConnectFails`), is
none to the panel, which tests the message for truth.

**`Cache`** is what `CacheHandlerV2` (`src/types.ts`) promises, without any of the
above: a cell per key that may be lost at any time, the time of each tag's latest
invalidation, and lookups that read one cell once. A lookup may always be told
"miss" or "stale", "fresh" only of an entry no older than every invalidation of
its tags that stood when the lookup began.

Mutants (`OwnTags`, `BumpedOnce`, ...) are variants of a definition with a
plausible bug, named as such where they stand. They are used by no
specification; each shows that a property notices the bug.

## 3. Which invalidation stands

`InvalidatedNeverFresh` says that a `get` that begins while an invalidation of
one of its tags *stands* returns no entry stamped before it as fresh. An
invalidation stands, in the history variable `floor`, from the moment its
record is stored, with two exceptions, both the code's:

- not when an older record of the tag is still on its way by `set`, which will
  overwrite it (two `updateTags` that overlap): then the older one stands until
  a later one lands;
- no longer when the record is evicted while an older re-seed is on its way,
  which will take the empty place. The re-seed must have been queued before the
  invalidation was stored, on another connection or behind it: the window is
  the life of one queued command.

The refinement (`CacheRefinement`) takes `floor` for the invalidations of `Cache`,
what can be read of `entries` for its cells, and for the lookup of a `get`: asked
until memcached has executed its read, then fetched, until it returns. A step of
`set` or `updateTags` that sends nothing to a cell or a floor is a stutter.

`FreshWithinSlack` is what remains when clocks differ or `Math.round` moves a
stamp: an entry found fresh may be older than the invalidation by
`Slack`, the skew and less than a millisecond; and a record stamped ahead, by a
pod whose clock leads or by rounding up, by at most `Ahead` (the skew and half a
millisecond), is ignored by a reader behind it until the stamp has come.
`StandingInv` has the slack in every part, and `InvalidatedNeverFresh` as a part
when there is none, that is, with whole milliseconds and clocks that agree.

`ReturnedUnlessOvertaken` is the caller's side: when `updateTags` returns without
an error, the floor of each of its tags is at least the time it was called, less
the half of a millisecond that rounding may take. The exceptions are the two
above, for which the call is `overtaken` in that tag: an older record was on its
way when its own was stored (from another pod, or of a call that was given up), or
the floor fell while it waited for the rest of its batch. On one connection there
are none: `ReturnedInvalidationStands` says so, and that floors never fall.

`HardInvalidationKept` is about hard invalidations (`updateTags` without
durations), whose entries are not even to be served stale. `bumpTags` keeps the
fields it does not set as they were when it read them, so a soft call that
overlaps a hard one may undo it. `contended` names the hard calls this may have
happened to: of those nothing is said. Of all others the property says that
later calls, however they race each other, bring the entry back in one case
only: one of them was given an `expire`, which moves `expired` into the future
and so puts the hard invalidation off. Then the entry is served as stale, and
only until that time comes. A record that is lost takes its invalidation with
it; skew and rounding cost what they cost above. What a caller might expect,
without these exceptions, is `HardInvalidatedNeverServed`, which two runs refute.

## 4. The runs

Every `.cfg` names all bounds. `MaxClock` is the last instant, `MaxSent` the
queue length at which no new call begins (calls under way still write),
`Faults` says which faults happen. Callers repeat forever.

| run | question | instance |
| --- | --- | --- |
| `standing` | is the invariant of the proofs kept, and is every behaviour one of the simple cache, under every fault? | one pod, reader-writer and updater, an entry with or without its tag, a soft tag, durations finite and infinite, all faults, three instants |
| `skew` | what do clocks that differ and stamps that are rounded cost, and does what `updateTags` stored stand when it returns on any pod? | two pods an instant apart, two instants a millisecond, so that half the stamps are rounded up; two callers that read and update, one of them also writes, unreadable entries, updates with `expire`, hard records by re-seeding, evictions of records, four instants, a queue of one |
| `returned` | does an invalidation stand from the return of `updateTags` on, and is a hard one kept under racing soft ones? | two updaters (symmetric) and a reader-writer on one pod, hard, soft and with `expire`, evictions of records, two instants, a queue of one |
| `pending_sets` | is `pendingSets` right when `set`s overlap? | two writers (symmetric) and a reader, two keys, timeouts and disconnections |
| `progress` | does every call return, and does a cold tag heal? | one reader, writer and updater, with and without a soft tag, two instants, timeouts and evictions, weak fairness |
| `entry_life` | is what a `get` returns whole, gone soon after its `expire` and kept until then, and does no render stall? | `expire` and `revalidate` each of none, half a second, one and a half, two and a half, infinite; MAX_TTL two seconds; two chunks; a window of one |
| `inspector` | are replies kept apart, keys neither lost nor mixed up, failures that have a message never shown as an empty cache, and does every refresh end? | three keys in two slabs, batches of two, one change under way, every initial store, flushes, any command refused, dumps that miss keys, every failure |

Why these bounds are enough. The properties compare one entry's timestamp with
one tag's stamps; three instants give before, between and after, and give a
floor, an older and a newer record; in `returned`, an entry and a later
invalidation, two. A skew of one instant of four lets either pod lead, before and after a rounding. One tag
is enough because tags do not interact except in being read in one step and
stored apart; one key, because keys meet only in `pendingSets`, where the run
has two. Two commands queued
before a call starts, and those of the calls under way, give every order of an
entry read, a tag read, a re-seed and a bump; in `progress`, `skew` and `returned` one is enough, since
the calls still overlap once begun. In `entry_life` the clock runs to
MAX_TTL, so that every TTL, the cap included, and every span but the longest
pass, in every order; the longest is there for the cap. In `inspector` two
batches, a batch that is not full and an empty answer all occur.

What is left out of a run, and why:

- `returned` has one connection, for the reason given in section 3, and neither
  lost connections nor timeouts, whose late records are in `standing`; several
  connections are in `skew`. `ReturnedStands` and `HardKept` (section 6) are for
  all of them.
- `standing` and `skew` have no hard updates: a duration of 1 gives a hard stamp
  with the soft one, an instant later, and a re-seed is a hard record.
  `returned` has them, `rounded_up` has them between rounded clocks.
- One tag: a batch of several is cut into its tags by `Memcached`, and the proofs
  are for any number of them.
- `progress` has no durations of `Infinity`: such a record is unreadable and
  `add` does not replace it, so the tag stays cold until the next `updateTags`.

### Runs that find a disagreement

Each checks one sentence of the repository that the code does not keep.

| run | sentence | what happens |
| --- | --- | --- |
| `dropped` | `src/index.ts:164`: a dropped invalidation is safe, "reads are misses too" | one lost connection drops it; node and entry live on, and the next `get` serves it fresh |
| `softened_after_eviction` | `docs/how-it-works.md:47`: an evicted record "must read as just invalidated" | `bumpTags` reads it as empty; a soft update then replaces a hard one |
| `rounded_up` | `src/index.test.ts:104`: a `get` right after a hard `updateTags` misses | `Math.round` stamps up to half a millisecond ahead; the stamp has not come and is ignored |
| `two_writers` | `docs/how-it-works.md:57`: a `get` racing a pending `set` awaits the write | the first of two `set`s to end deletes the other's promise |
| `cold_when_unreachable` | `examples/next-app/app/debug-panel.tsx:108`: "0 keys" means a cold cache, or entries that do not reach memcached | `net.connect` fails with an error for each address and an empty message of its own; the panel tests the message (lines 100 and 106) and says "0 keys" |

## 5. Fairness

Weak fairness (strong in one place, named below), and only of what the platform
guarantees:

- `CallFairness`: a continuation whose promise has settled runs, and the render
  behind a `set` ends (Next.js aborts a render that does not).
- `TimeoutFairness`: a command that stays unanswered is given up (the 750 ms
  timer of `createClient`).
- `NodeFairness`: the node executes what it is sent. It is assumed by
  `ColdTagHeals` alone, as a premise; `EveryCallReturns` holds with a node that
  never does anything.
- `PFairness`: the server goes on with a request it has taken up, since each of
  its awaits has a timer that ends it; its response is delivered; and a request
  that is sent is taken up, strongly fair because the model's server takes one
  request at a time and the real one all that come.
- In `EntryLife`: the render goes on when it can write, and `set` runs when what
  it awaits is there. A render need not fail.

No fairness is assumed of Next.js starting or taking anything, of a user who
clicks, of memcached answering the inspector, of time, or of a
fault other than the timeout.

## 6. What is proved

For all values of the constants (any pods, keys, tags, callers, durations,
faults and bounds) that satisfy the named assumptions:

- `CacheHandlerProofs!TypeCorrect`: `Spec => []TypeOK`. The types of `Call` say
  which locals are set at which await, so the proof is also that no continuation
  reads one that is not.
- `InvalidationProofs!Standing`: `ISpec => []StandingInv`, for any skew and rounding.
- `InvalidationProofs!NeverFresh`: `ISpec => []InvalidatedNeverFresh`, if
  `Sub = 1` and `Skew = 0`.
- `InvalidationProofs!WithinSlack`: `ISpec => FreshWithinSlack`, for any skew and
  rounding.
- `CacheRefinementProofs!Implements`: `ISpec => ImplementsCache`, if `Sub = 1` and
  `Skew = 0`.
- `PendingSetsProofs!SetsLive`, `LoneAwaited`: `PSpec => []PendingSetsLive` and
  `PSpec => []GetAwaitsLoneSet`, for any clocks.
- `ReturnedProofs!ReturnedStands`: `RSpec => ReturnedUnlessOvertaken`, for any
  pods, connections, skew, rounding and faults. The corollary
  `OneConnectionStands` is `RSpec => ReturnedInvalidationStands`, if `Sub = 1` and all
  callers share one connection (`OneConnection`): a single pod.
- `KeptProofs!HardKept`: `KSpec => HardInvalidationKept`, for any durations, pods,
  connections, skew and rounding.
- `InspectorProofs!InTurn`, `AllListed`, `KindsShown`, `PTypeCorrect`,
  `NoKeyLost`: `PSpec => []RepliesInStep`, `[]ListsAllOwed`, `[]ShowsOwedKinds`,
  `[]PTypeOK` and `PSpec => ColdOwesNothing`, for any keys, slabs, batch size and
  number of values; `InspectorInvariant` says the same of the route alone,
  `NSpec => []NInv`.
- `EntryLifeProofs!ETypeCorrect`, `WholeOrMiss`, `SoonAfterExpire`, `KeptLong`:
  `ESpec => []ETypeOK`, `[]VerbatimOrMiss`, `[]ServedSoonAfterExpire`,
  `[]KeptUntilExpire`, for any `expire` and `revalidate`.

The history variables of `Returned` and `Kept` are each assigned by an expression
over the step (`RecordCall`, `RecordKept`), never constrained.

`Sub` is the number of subunits of the clock in a millisecond: `Sub = 1` means
that rounding changes nothing. The assumption is needed: with `Sub = 2`
`InvalidatedNeverFresh` fails by the same steps as in the run `rounded_up`.
`Skew = 0` means that the clocks of the pods agree. Without the two, `NeverFresh`
gives way to `WithinSlack`. An `updateTags` stamps `Round(now)`, which `RoundNear`
puts between `now - (Sub - 1) \div 2` and `now + Sub \div 2`. So a stamp is ahead
of no clock by more than `Ahead`, and behind no earlier stamp by more than `Slack`
(`RoundNow`), which is all the invariant asks of rounding.

`InvalidatedNeverFresh` is not inductive: it says nothing of a `get` that has
not yet decided. The strengthening follows a record on its way round. Call a
stored text a *cover* of an instant n if whoever reads it now or later finds an
entry stamped before n invalidated: it is unreadable or absent (the reader
then assumes the present), or its `stale` is at least n, or its `expired` is
and has come. Then `StandingInv` says:

- `RecordsCover`: what is stored of a tag covers its floor (here and below, less
  the slack);
- `BumpsCover`: what `updateTags` has sent covers its own stamp, and no floor is
  later than that stamp (an older one on its way keeps newer ones from standing);
- `ReseedsHarmless`: a re-seed older than the floor finds a record stored, and
  `add` does nothing;
- `RepliesCover`: what a `get` was told covers the floor it must respect;
- `TagsChecked`: a `get` checks every tag that concerns its entry;
- `FloorsReached`: no floor is ahead of a clock by more than `Ahead`, and no `get` saw a later one than
  stands.

The lemmas are one per conjunct (`RecordsStep`, `BumpsStep`, ...), on lemmas
about the operators: `BumpedCovers` (a bump covers its stamp, whatever the
record was), `ReadCovers` (what a read concludes from a cover), `CoversLater`,
`RoundNear`, and lemmas on what a step may add to a queue. `standing` checks
the invariant with TLC on the instance of the run.

The refinement, and the two theorems on what a caller of `updateTags` may count
on, need one more invariant, `AwaitInv` (in `Invalidation`): a caller that a queued
command names as its owner has no answer yet, waits at the await that sent the
command, and no other command names it. So an answer that arrives is the answer
to the question asked, and a read executed by the node is the `Fetch` of exactly
one lookup. Then each kind of step is a lemma (`RefinesBegins`, `RefinesExec`,
`RefinesCall`, ...): a write of an entry is `Write`, evictions and restarts are
`Lose`, a record that lands is `Invalidate` or nothing, and a `get` that returns
"fresh" is allowed to by `InvalidatedNeverFresh` in the state it steps to, which
`StandingInv` gives.

`PendingInv` ties `pendingSets` to the calls that run: every promise in it is
that of a running `set` (`PendingSetsLive` is a part of it); a `set` that overlaps
no other of its key is the one registered (`LoneRegistered`), so the
unconditional delete of another call cannot have taken its place; and what a
`get` found running still runs, and is either crowded or the very promise the
`get` waits for (`RacesAwaited`). The proof sorts the actions by what they do to
`pendingSets` (`Registers`, `Stores`, `Finishes`, `Other`), so each conjunct is
proved for four kinds of step.

`EntryInv` follows the body: what `set` has read and what is left in the stream
are chunks numbered from 1 on and together what the render has produced
(`BodyInStep`), so a body written after `Close` is whole (`SetInStep`), and what
memcached was given is the encoding of the entry last written, until its clamped
TTL (`ItemInStep`). `RoundedUp` and `Clamped` say what the TTL guarantees: it
reaches `expire` or is the cap, and exceeds `expire` by less than a second. Beside the named assumption on the constants it
needs that some length is the longest (`LengthsAssumption`) and that `None` is no
item (`ItemAssumption`).

`ReturnedInv` follows a batch of `updateTags`: a tag that is in none of its commands
any more has been stored, and stands unless it was overtaken (`WrittenStands`).
For that the stamp must not be behind the start of the call by more than rounding
takes, and a record that lands raises the floor to its stamp unless an older one
is still on its way, which is when the call is overtaken; a floor that falls is
noticed likewise. For one connection `OrderedInv` excludes both: records are
queued, and so written, in the order of their stamps (`QueueInOrder`), and none on
its way is older than what stands (`StampsBetween`). Both hypotheses of the
corollary are needed. Without one connection the later stamp may be stored first,
and with `Sub = 2` a stamp may be ahead of the clock of the next.

`KeptInv` follows an uncontended hard invalidation. A record `Holds` it when its
`expired` is no older and has come, or has been put off by a `stale` that is no
older. It is held by the record (`RecordsHold`), by every record that is going to
replace it (`BumpsHold`), and by what those who are going to write have read
(`ReadsHold`), so that each soft bump, with or without an `expire`, hands it on
(`BumpedHolds`). It gets there because a call that is not `contended` has no rival
under way (`Uncontended`), whose late write could lack it, and because what a
hard call sends carries its own time (`HardBatches`) and is on its way, given up
or stored (`HardWritten`). A `get` that reads such a record misses, unless
`expired` is to come, when the `stale` beside it leaves "stale" (`UsableStep`).

`NInv` is about the lines that have arrived of the reply awaited together with
those still to come, `Incoming`, which an arriving chunk leaves as they are. It
is a whole reply, of which only the last line ends it (`InStep`), so when the
client takes a reply for complete nothing is left of it. A key that is
owed is named by a line of it, in a slab to be asked for, or listed
(`OwedListed`); then it is read, to be asked for, or comes with its value
(`OwedRead`, `ValuesTrue`). A refusal, or a dump without the key, ends what is owed
(`LeftOut`). `GetReply`, `DumpReply`, `ItemsReply` and `SlabReply`
say this of memcached's replies. The proof sorts the steps by what they do to
the socket: a command is written (`AskStep`), the socket is destroyed
(`ClosedStep`), a command is executed, a chunk arrives. For the panel one more
fact is needed, that the request serving its fetch is not over (`FetchServed`).
`InspectorAssumption` has `Key` finite (a memcached key has at most 250 bytes) so
that a set of keys can be put in a sequence, and `NoCommandAssumption` says that
`None` is no command.

Each of these invariants was checked by TLC on the instance of the run of its
properties before it was proved. The attempts changed the models in two
places: an answer is told apart from a failure by assumption (`ReplyAssumption`),
and `Values` and `Set` are written without operators the provers do not know.

Only model-checked: all liveness (`EveryCallReturns`, `ColdTagHeals`,
`RenderNotStalled`, `RefreshEnds`), which is out of the prover's reach, and the
disagreements of the runs in section 4, which are counterexamples.

## 7. What is not modelled

- The lazy client and the CA cached per path: they matter only when the
  environment changes under a running process.
- sha1: keys are taken to be distinct.
- Contents: a body is its chunks; base64, UTF-8, sizes other than "over the
  cap" are left out. Envelope versions: a text of another version is
  unreadable, like any other.
- `stale` of an entry and the serve-stale sentinel beyond "stale".
- memcached's own clock, which counts whole seconds: an item may go up to a second
  before its TTL is over, so `KeptUntilExpire` is about the TTL that is sent.
- What becomes of a hard `updateTags` that another call of the tag overlaps
  (`contended`), and of an `updateTags` in a tag in which it is `overtaken`: the
  models have both, and the properties exclude them because the code guarantees
  nothing there.
- Of the debug panel: markup, and the second effect React runs in its
  development mode (two fetches at once).
- The example's other routes and its pages, the end-to-end suite, the type
  guard, packaging, certificates, CI: no state of the cache, or no behaviour.

## 8. Plan

Done, in this order: `TagRecords`, `Memcached`, `CacheHandler`; `Invalidation`
with its proofs; `Returned`, `PendingSets`, `Dropped`, `Progress`; `EntryLife`;
`Inspector`; then a clock per pod with the guarantee weakened by the slack,
`Kept`, `Cache` with its refinement and the proof of it, the raw client's other
calls and `Panel`; the proofs about `PendingSets`, `EntryLife`, `Returned`,
`Kept`, `Inspector` and `Panel`. Next:

1. `EntryLife` shown to implement the `set` phases of `CacheHandler` (an entry,
   an unreadable text or nothing).
2. `SharedClient`: the lazy singleton, a handler's own client, the CA cache
   across a change of the environment.
