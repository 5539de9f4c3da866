----------------------------- MODULE EntryLife ------------------------------
(***************************************************************************)
(* The entries of one key, one set() after another: the render that        *)
(* streams a body into set(), the envelope and the TTL it is stored with,  *)
(* and what a get() would make of it.  CacheHandler sees of all this that  *)
(* a set() stores an entry, an unreadable text, or nothing.                *)
(***************************************************************************)
EXTENDS Integers, SequencesExt

CONSTANTS
    None,      \* undefined
    Infinity,  \* a number that is not finite
    Null,      \* what JSON.stringify makes of it
    Second,    \* instants of the clock in a second
    MaxTtl,    \* MAX_TTL_SECONDS
    Window,    \* chunks a stream holds before its writer has to wait
    Durations, \* expire and revalidate values, in instants, or Infinity
    Lengths,   \* bound: how many chunks a body may have
    MaxClock   \* bound: the last instant

ASSUME EntryAssumption ==
    /\ Second \in Nat \ {0} /\ MaxTtl \in Nat \ {0} /\ Window \in Nat \ {0}
    /\ Durations \subseteq Nat \cup {Infinity}
    /\ Lengths \subseteq Nat /\ MaxClock \in Nat

\* Some length is the longest.
ASSUME LengthsAssumption == \E m \in Lengths : \A n \in Lengths : n <= m

VARIABLES
    clock,
    render,  \* the render behind the set(): state, entry, chunks produced
    stream,  \* chunks produced and not yet read
    set,     \* the set(): the await it is suspended at, and what it has read
    item,    \* what memcached holds for the key
    written  \* history: entry, body length and instant of the last write

evars == <<clock, render, stream, set, item, written>>

Entry == [timestamp: 0..MaxClock, expire: Durations, revalidate: Durations,
          chunks: Lengths, kind: {"plain", "oversized", "no_stream"}]

Chunk == 1..Max(Lengths)
Body == UNION {[1..n -> Chunk] : n \in {0} \cup Chunk}

\* The whole body of an entry of n chunks.
Whole(n) == [i \in 1..n |-> i]

Span == 0..MaxClock \cup Durations \cup {Null}
Text == [timestamp: Span, expire: Span, revalidate: Span, body: Body]

\* What memcached holds, and the record of it, are told from nothing.
ASSUME ItemAssumption ==
    /\ None \notin [text: Text, until: Nat]
    /\ None \notin [entry: Entry, at: 0..MaxClock]

Idle == [pc |-> "idle", body |-> <<>>]
NoRender == [state |-> "none", entry |-> None, produced |-> 0]

\* Every variable holds a value of its type: no body read is longer than one
\* rendered, and the stream holds no more than its window.
ETypeOK ==
    /\ clock \in 0..MaxClock
    /\ render \in [state: {"none", "pending", "streaming", "closed", "failed"},
                   entry: Entry \cup {None}, produced: {0} \cup Chunk]
    /\ stream \in Body /\ Len(stream) <= Window
    /\ set \in [pc: {"idle", "entry", "drain", "write"}, body: Body]
    /\ item \in [text: Text, until: Nat] \cup {None}
    /\ written \in [entry: Entry, at: 0..MaxClock] \cup {None}

EInit ==
    /\ clock = 0
    /\ render = NoRender
    /\ stream = <<>>
    /\ set = Idle
    /\ item = None
    /\ written = None

-----------------------------------------------------------------------------
(* The envelope.                                                           *)

\* JSON.stringify of a number.
Json(number) == IF number = Infinity THEN Null ELSE number

\* The text of an entry; None when it exceeds the cap.
EncodeEntry(entry, body) ==
    IF entry.kind = "oversized"
      THEN None
      ELSE [timestamp |-> entry.timestamp, expire |-> Json(entry.expire),
            revalidate |-> Json(entry.revalidate), body |-> body]

\* A text that holds anything but a number in a number's place is refused.
DecodeEntry(text) ==
    IF Null \in {text.timestamp, text.expire, text.revalidate}
      THEN None
      ELSE text

\* Mutant: the seconds are rounded down.
TtlFloor(duration) ==
    IF duration = Infinity THEN MaxTtl
    ELSE Min({Max({duration \div Second, 1}), MaxTtl})

\* Whole seconds, rounded up, from one second to 30 days.
ClampTtlSeconds(duration) ==
    IF duration = Infinity THEN MaxTtl
    ELSE Min({Max({(duration + Second - 1) \div Second, 1}), MaxTtl})

-----------------------------------------------------------------------------
(* The render: Next.js and React, on the other side of the stream.         *)

\* A render starts, and set() is called with the promise of its entry.
Begin(entry) ==
    /\ set.pc = "idle"
    /\ render.state \in {"none", "closed", "failed"}
    /\ entry.timestamp = clock
    /\ render' = [state |-> "pending", entry |-> entry, produced |-> 0]
    /\ stream' = <<>>
    /\ set' = [Idle EXCEPT !.pc = "entry"]
    /\ UNCHANGED <<clock, item, written>>

Resolve ==
    /\ render.state = "pending"
    /\ render' = [render EXCEPT !.state = IF render.entry.kind = "no_stream"
                                            THEN "closed" ELSE "streaming"]
    /\ UNCHANGED <<clock, stream, set, item, written>>

\* The writer waits while the stream is full.
Produce ==
    /\ render.state = "streaming"
    /\ render.produced < render.entry.chunks
    /\ Len(stream) < Window
    /\ render' = [render EXCEPT !.produced = @ + 1]
    /\ stream' = Append(stream, render.produced + 1)
    /\ UNCHANGED <<clock, set, item, written>>

Close ==
    /\ render.state = "streaming"
    /\ render.produced = render.entry.chunks
    /\ render' = [render EXCEPT !.state = "closed"]
    /\ UNCHANGED <<clock, stream, set, item, written>>

\* A render that throws rejects the promise or errors the stream, which
\* drops what is unread.
Fail ==
    /\ render.state \in {"pending", "streaming"}
    /\ render' = [render EXCEPT !.state = "failed"]
    /\ stream' = <<>>
    /\ UNCHANGED <<clock, set, item, written>>

-----------------------------------------------------------------------------
(* set(), between its awaits.                                              *)

\* Mutant: a dynamic entry is dropped before its stream is drained.
AwaitEntryDynamic ==
    /\ set.pc = "entry"
    /\ render.state \in {"streaming", "closed"}
    /\ set' = IF render.entry.kind = "no_stream" \/ render.entry.expire = 0
                THEN Idle ELSE [set EXCEPT !.pc = "drain"]
    /\ UNCHANGED <<clock, render, stream, item, written>>

\* The promise has resolved; without a stream there is nothing to do.
AwaitEntry ==
    /\ set.pc = "entry"
    /\ render.state \in {"streaming", "closed"}
    /\ set' = IF render.entry.kind = "no_stream"
                THEN Idle ELSE [set EXCEPT !.pc = "drain"]
    /\ UNCHANGED <<clock, render, stream, item, written>>

\* Mutant: the chunk read stays in the stream.
DrainAgain ==
    /\ set.pc = "drain"
    /\ render.state # "failed"
    /\ stream # <<>>
    /\ set' = [set EXCEPT !.body = Append(@, Head(stream))]
    /\ UNCHANGED <<clock, render, stream, item, written>>

\* drainToBuffer reads a chunk.
Drain ==
    /\ set.pc = "drain"
    /\ render.state # "failed"
    /\ stream # <<>>
    /\ set' = [set EXCEPT !.body = Append(@, Head(stream))]
    /\ stream' = Tail(stream)
    /\ UNCHANGED <<clock, render, item, written>>

Drained == set.pc = "drain" /\ render.state = "closed" /\ stream = <<>>

\* A dynamic or oversized entry is not written.
Skip ==
    /\ Drained
    /\ render.entry.expire = 0 \/ EncodeEntry(render.entry, set.body) = None
    /\ set' = Idle
    /\ UNCHANGED <<clock, render, stream, item, written>>

\* Mutant: an expire of 0 is written like any other.
WriteDynamic ==
    /\ Drained
    /\ EncodeEntry(render.entry, set.body) # None
    /\ set' = [set EXCEPT !.pc = "write"]
    /\ UNCHANGED <<clock, render, stream, item, written>>

Write ==
    /\ Drained
    /\ render.entry.expire # 0
    /\ EncodeEntry(render.entry, set.body) # None
    /\ set' = [set EXCEPT !.pc = "write"]
    /\ UNCHANGED <<clock, render, stream, item, written>>

\* memcached stores the text, until the TTL is over.
Stored ==
    /\ set.pc = "write"
    /\ item' = [text |-> EncodeEntry(render.entry, set.body),
                until |-> clock + Second * ClampTtlSeconds(render.entry.expire)]
    /\ written' = [entry |-> render.entry, at |-> clock]
    /\ set' = Idle
    /\ UNCHANGED <<clock, render, stream>>

\* Mutant: what was read of a broken stream is written.
BrokenWrites ==
    /\ set.pc \in {"entry", "drain"}
    /\ render.state = "failed"
    /\ EncodeEntry(render.entry, set.body) # None
    /\ set' = [set EXCEPT !.pc = "write"]
    /\ UNCHANGED <<clock, render, stream, item, written>>

\* The catch: the promise or the stream has failed.
Broken ==
    /\ set.pc \in {"entry", "drain"}
    /\ render.state = "failed"
    /\ set' = Idle
    /\ UNCHANGED <<clock, render, stream, item, written>>

\* The catch: memcached has not stored the text.
Rejected ==
    /\ set.pc = "write"
    /\ set' = Idle
    /\ UNCHANGED <<clock, render, stream, item, written>>

Tick ==
    /\ clock < MaxClock
    /\ clock' = clock + 1
    /\ UNCHANGED <<render, stream, set, item, written>>

RenderStep == Resolve \/ Produce \/ Close
SetStep == \/ AwaitEntry \/ Drain \/ Skip \/ Write \/ Stored
           \/ Broken \/ Rejected

ENext ==
    \/ \E entry \in Entry : Begin(entry)
    \/ RenderStep \/ Fail
    \/ SetStep
    \/ Tick

\* The render goes on when it can write; set() runs when what it awaits is
\* there.
ESpec == EInit /\ [][ENext]_evars /\ WF_evars(RenderStep) /\ WF_evars(SetStep)

-----------------------------------------------------------------------------
(* What a get() would return now, its tags apart.                          *)

\* What memcached still holds.
Held == item # None /\ clock < item.until

Servable(entry) == clock <= entry.timestamp + entry.revalidate

Served ==
    IF Held /\ DecodeEntry(item.text) # None /\ Servable(DecodeEntry(item.text))
      THEN DecodeEntry(item.text)
      ELSE None

\* The entry last written, as its text should read.
Verbatim == [timestamp |-> written.entry.timestamp,
             expire |-> written.entry.expire,
             revalidate |-> written.entry.revalidate,
             body |-> Whole(written.entry.chunks)]

(***************************************************************************)
(* A get() returns the entry last written, verbatim and with the whole     *)
(* body, or none: never what was read of a render that broke off, never    *)
(* a field the envelope could not carry (encodeEntry, decodeEntry,         *)
(* drainToBuffer).                                                         *)
(***************************************************************************)
VerbatimOrMiss == Served # None => Served = Verbatim

(***************************************************************************)
(* An entry with an expire of 0 is never served, and any other is served   *)
(* for less than its expire and a second from the instant it was stored,   *)
(* however long its revalidate span: get() leaves expire to the TTL, which *)
(* is rounded up and counts from the write (set, get, clampTtlSeconds).    *)
(***************************************************************************)
ServedSoonAfterExpire ==
    Served # None =>
        Served.expire > 0 /\ clock < written.at + Served.expire + Second

(***************************************************************************)
(* No TTL drops an entry while `expire` has not passed, short of 30 days   *)
(* (clampTtlSeconds).                                                      *)
(***************************************************************************)
KeptUntilExpire ==
    (/\ written # None
     /\ clock < written.at + Second * MaxTtl
     /\ \/ written.entry.expire = Infinity
        \/ clock < written.entry.timestamp + written.entry.expire)
    => Held

(***************************************************************************)
(* A render that streams into set() ends: set() drains the stream to the   *)
(* end, also when it is going to write nothing.                            *)
(***************************************************************************)
RenderNotStalled == render.state = "streaming" ~> render.state # "streaming"

-----------------------------------------------------------------------------
(* Why VerbatimOrMiss, ServedSoonAfterExpire and KeptUntilExpire hold.     *)

\* What is being rendered has begun, and is closed once it is complete.
RenderInStep ==
    render.state # "none" =>
        /\ render.entry \in Entry
        /\ render.entry.timestamp <= clock
        /\ render.produced <= render.entry.chunks
        /\ render.state = "streaming" => render.entry.kind # "no_stream"
        /\ render.state = "closed" /\ render.entry.kind # "no_stream" =>
              render.produced = render.entry.chunks

\* The chunks of seq are numbered on from n.
NumberedFrom(seq, n) == \A i \in DOMAIN seq : seq[i] = n + i

\* What set() has read and what is left in the stream is what the render has
\* produced, in order.
BodyInStep ==
    /\ render.state \in {"pending", "streaming"} => set.pc \in {"entry", "drain"}
    /\ (set.pc \in {"entry", "drain"} /\ render.state # "failed") =>
          /\ Len(set.body) + Len(stream) = render.produced
          /\ NumberedFrom(set.body, 0)
          /\ NumberedFrom(stream, Len(set.body))

\* set() reads and writes an entry that has a stream, and writes all of it.
SetInStep ==
    /\ set.pc # "idle" => render.state # "none"
    /\ set.pc \in {"drain", "write"} => render.entry.kind # "no_stream"
    /\ set.pc = "write" =>
          /\ render.state = "closed"
          /\ render.entry.kind # "oversized" /\ render.entry.expire # 0
          /\ set.body = Whole(render.entry.chunks)

\* What memcached has been given is the entry last written.
ItemInStep ==
    (item # None \/ written # None) =>
        /\ item # None /\ written # None
        /\ written.entry.kind # "oversized" /\ written.entry.expire # 0
        /\ written.entry.timestamp <= written.at /\ written.at <= clock
        /\ item = [text |-> EncodeEntry(written.entry, Whole(written.entry.chunks)),
                   until |-> written.at + Second * ClampTtlSeconds(written.entry.expire)]

EntryInv == ETypeOK /\ RenderInStep /\ BodyInStep /\ SetInStep /\ ItemInStep

=============================================================================
