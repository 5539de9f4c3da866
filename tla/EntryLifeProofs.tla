--------------------------- MODULE EntryLifeProofs ---------------------------
(***************************************************************************)
(* What becomes of an entry, for every length of a body, every span, every *)
(* TTL cap and every window of the stream.                                 *)
(***************************************************************************)
EXTENDS EntryLife, TLAPS

-----------------------------------------------------------------------------
(* The operators.                                                          *)

\* The greater of two numbers.
LEMMA MaxOfTwo ==
    ASSUME NEW m \in Int, NEW n \in Int
    PROVE  /\ Max({m, n}) \in {m, n}
           /\ Max({m, n}) >= m /\ Max({m, n}) >= n
<1>1. \E x \in {m, n} : \A y \in {m, n} : x >= y
  OBVIOUS
<1>. QED
  BY <1>1 DEF Max

\* The lesser of two numbers.
LEMMA MinOfTwo ==
    ASSUME NEW m \in Int, NEW n \in Int
    PROVE  /\ Min({m, n}) \in {m, n}
           /\ Min({m, n}) <= m /\ Min({m, n}) <= n
<1>1. \E x \in {m, n} : \A y \in {m, n} : x <= y
  OBVIOUS
<1>. QED
  BY <1>1 DEF Min

\* Rounded up to whole seconds, a duration is not cut short.
LEMMA RoundedUp ==
    ASSUME NEW d \in Nat
    PROVE  /\ (d + Second - 1) \div Second \in Nat
           /\ Second * ((d + Second - 1) \div Second) >= d
<1>. DEFINE q == (d + Second - 1) \div Second
            r == (d + Second - 1) % Second
<1>1. Second \in Nat /\ Second > 0
  BY EntryAssumption
<1>2. q \in Nat /\ r \in Nat /\ r < Second
  BY <1>1
<1>3. d + Second - 1 = Second * q + r
  BY <1>1
<1>4. Second * q \in Nat
  BY <1>1, <1>2
<1>5. Second * q >= d
  <2>. HIDE DEF q, r
  <2>. QED
    BY <1>1, <1>2, <1>3, <1>4
<1>. QED
  BY <1>2, <1>5

\* The longest body.
LEMMA Longest ==
    /\ Max(Lengths) \in Nat
    /\ \A n \in Lengths : n <= Max(Lengths)
<1>1. \E m \in Lengths : \A n \in Lengths : m >= n
  BY LengthsAssumption, EntryAssumption
<1>2. Max(Lengths) \in Lengths /\ \A n \in Lengths : Max(Lengths) >= n
  BY <1>1 DEF Max
<1>. QED
  BY <1>2, EntryAssumption

\* A TTL is a whole number of seconds, at least one; it spans the duration
\* unless that is capped.
LEMMA Clamped ==
    ASSUME NEW d \in Nat \cup {Infinity}
    PROVE  /\ ClampTtlSeconds(d) \in Nat
           /\ \/ ClampTtlSeconds(d) = MaxTtl
              \/ d \in Nat /\ Second * ClampTtlSeconds(d) >= d
<1>1. MaxTtl \in Nat /\ Second \in Nat /\ Second > 0
  BY EntryAssumption
<1>2. CASE d = Infinity
  BY <1>1, <1>2 DEF ClampTtlSeconds
<1>3. CASE d # Infinity
  <2>. DEFINE q == (d + Second - 1) \div Second
              m == Max({q, 1})
  <2>1. q \in Nat /\ Second * q >= d
    BY <1>3, RoundedUp
  <2>. HIDE DEF q
  <2>2. m \in {q, 1} /\ m >= q
    BY <2>1, MaxOfTwo
  <2>. HIDE DEF m
  <2>3. m \in Nat
    BY <2>1, <2>2
  <2>4. Min({m, MaxTtl}) \in {m, MaxTtl}
    BY <1>1, <2>3, MinOfTwo
  <2>5. ClampTtlSeconds(d) \in {m, MaxTtl}
    BY <1>3, <2>4 DEF ClampTtlSeconds, m, q
  <2>6. Second * m >= d
    <3>1. CASE m = q
      BY <2>1, <3>1
    <3>2. CASE m = 1
      <4>1. q \in {0, 1}
        BY <2>1, <2>2, <3>2
      <4>2. CASE q = 0
        BY <1>1, <1>3, <2>1, <3>2, <4>2
      <4>3. CASE q = 1
        BY <2>1, <3>2, <4>3
      <4>. QED
        BY <4>1, <4>2, <4>3
    <3>. QED
      BY <2>2, <3>1, <3>2
  <2>. QED
    BY <1>1, <1>3, <2>3, <2>5, <2>6
<1>. QED
  BY <1>2, <1>3

\* A body is a sequence of chunks, no longer than the longest.
LEMMA BodySeq ==
    \A body : body \in Body <=> body \in Seq(Chunk) /\ Len(body) <= Max(Lengths)
<1>1. ASSUME NEW body \in Body
      PROVE  body \in Seq(Chunk) /\ Len(body) <= Max(Lengths)
  <2>1. PICK n \in {0} \cup Chunk : body \in [1..n -> Chunk]
    BY DEF Body
  <2>2. n \in Nat /\ n <= Max(Lengths)
    BY Longest DEF Chunk
  <2>. QED
    BY <2>1, <2>2
<1>2. ASSUME NEW body \in Seq(Chunk), Len(body) <= Max(Lengths)
      PROVE  body \in Body
  <2>1. body \in [1..Len(body) -> Chunk] /\ Len(body) \in Nat
    OBVIOUS
  <2>2. Len(body) \in {0} \cup Chunk
    BY <1>2, <2>1, Longest DEF Chunk
  <2>. QED
    BY <2>1, <2>2 DEF Body
<1>. QED
  BY <1>1, <1>2

\* What is a body for being short enough.
LEMMA ShortBody ==
    ASSUME NEW body \in Seq(Chunk), NEW n \in Nat,
           Len(body) <= n, n <= Max(Lengths)
    PROVE  body \in Body
<1>1. Len(body) \in Nat /\ Len(body) <= Max(Lengths)
  BY Longest
<1>. QED
  BY <1>1, BodySeq

\* The empty body is one.
LEMMA EmptyBody == <<>> \in Body /\ Len(<<>>) = 0
<1>1. <<>> \in Seq(Chunk) /\ Len(<<>>) = 0
  OBVIOUS
<1>2. 0 <= Max(Lengths) /\ 0 \in Nat
  BY Longest
<1>3. Len(<<>>) <= 0
  BY <1>1
<1>. QED
  BY <1>1, <1>2, <1>3, ShortBody

\* How numbers are counted on.
LEMMA CountOn ==
    ASSUME NEW m \in Nat, NEW n \in Nat
    PROVE  (m + n) + 1 = m + (n + 1) /\ (m + 1) + n = m + (n + 1)
OBVIOUS

\* It spans less than a second more than a duration that is not zero.
LEMMA ClampedShort ==
    ASSUME NEW d \in Nat, d > 0, d # Infinity
    PROVE  Second * ClampTtlSeconds(d) <= d + Second - 1
<1>. DEFINE q == (d + Second - 1) \div Second
            r == (d + Second - 1) % Second
            m == Max({q, 1})
            l == Min({m, MaxTtl})
<1>1. MaxTtl \in Nat /\ Second \in Nat /\ Second > 0
  BY EntryAssumption
<1>2. /\ q \in Nat /\ r \in Nat /\ r < Second
      /\ d + Second - 1 = Second * q + r
  BY <1>1
<1>3. ClampTtlSeconds(d) = l
  BY DEF ClampTtlSeconds
<1>. HIDE DEF q, r
<1>4. q >= 1
  <2>1. CASE q = 0
    BY <1>1, <1>2, <2>1
  <2>. QED
    BY <1>2, <2>1
<1>5. m \in {q, 1} /\ m >= q /\ m >= 1
  <2>1. q \in Int /\ 1 \in Int
    BY <1>2
  <2>. QED
    BY <2>1, MaxOfTwo
<1>. HIDE DEF m
<1>6. m = q
  BY <1>2, <1>4, <1>5
<1>7. l \in {m, MaxTtl} /\ l <= m
  <2>1. m \in Int /\ MaxTtl \in Int
    BY <1>1, <1>2, <1>6
  <2>. QED
    BY <2>1, MinOfTwo
<1>. HIDE DEF l
<1>8. l \in Nat /\ l <= q
  BY <1>1, <1>2, <1>6, <1>7
<1>9. Second * l <= Second * q
  BY <1>1, <1>2, <1>8
<1>10. Second * q \in Nat /\ Second * l \in Nat
  BY <1>1, <1>2, <1>8
<1>. QED
  BY <1>1, <1>2, <1>3, <1>9, <1>10

-----------------------------------------------------------------------------
(* The invariant, action by action.                                        *)

\* What memcached holds remains in step while neither it nor the clock moves
\* back.
LEMMA ItemKept ==
    ASSUME EntryInv, UNCHANGED <<item, written>>, clock' \in Int, clock <= clock'
    PROVE  ItemInStep'
<1>1. CASE item = None /\ written = None
  BY <1>1 DEF ItemInStep
<1>2. CASE ~(item = None /\ written = None)
  <2>1. written.at \in Int /\ clock \in Int
    BY <1>2 DEF EntryInv, ETypeOK, ItemInStep
  <2>. QED
    BY <1>2, <2>1 DEF EntryInv, ItemInStep
<1>. QED
  BY <1>1, <1>2

\* A render begins with nothing produced and nothing read.
LEMMA BeginStep ==
    ASSUME EntryInv, NEW entry \in Entry, Begin(entry)
    PROVE  EntryInv'
<1>. USE DEF Begin, Idle
<1>1. ETypeOK'
  <2>1. <<>> \in Body
    BY EmptyBody
  <2>. QED
    BY <2>1, EntryAssumption DEF EntryInv, ETypeOK
<1>2. RenderInStep'
  BY EntryAssumption DEF RenderInStep, Entry
<1>3. BodyInStep'
  BY DEF BodyInStep, NumberedFrom
<1>4. SetInStep'
  BY DEF SetInStep
<1>5. ItemInStep'
  BY ItemKept DEF EntryInv, ETypeOK
<1>. QED
  BY <1>1, <1>2, <1>3, <1>4, <1>5 DEF EntryInv

\* Steps of the render that produce nothing.
LEMMA ResolveStep ==
    ASSUME EntryInv, Resolve \/ Close \/ Fail
    PROVE  EntryInv'
<1>1. ETypeOK'
  <2>1. <<>> \in Body /\ Len(<<>>) = 0
    BY EmptyBody
  <2>. QED
    BY <2>1, EntryAssumption DEF EntryInv, ETypeOK, Resolve, Close, Fail
<1>2. RenderInStep'
  BY DEF EntryInv, ETypeOK, RenderInStep, Resolve, Close, Fail
<1>3. BodyInStep'
  BY DEF EntryInv, ETypeOK, BodyInStep, NumberedFrom, Resolve, Close, Fail
<1>4. SetInStep'
  BY DEF EntryInv, ETypeOK, SetInStep, BodyInStep, Resolve, Close, Fail
<1>5. ItemInStep'
  BY ItemKept DEF EntryInv, ETypeOK, Resolve, Close, Fail
<1>. QED
  BY <1>1, <1>2, <1>3, <1>4, <1>5 DEF EntryInv

\* A chunk produced is the next one, and there is room for it.
LEMMA ProduceStep ==
    ASSUME EntryInv, Produce
    PROVE  EntryInv'
<1>. USE DEF Produce
<1>1. /\ stream \in Seq(Chunk) /\ set.body \in Seq(Chunk)
      /\ render.produced \in Nat /\ Window \in Nat
  BY BodySeq, EntryAssumption DEF EntryInv, ETypeOK, Chunk
<1>2. /\ render.entry \in Entry /\ render.entry.chunks \in Nat
      /\ render.entry.chunks <= Max(Lengths)
  BY Longest, EntryAssumption DEF EntryInv, RenderInStep, Entry
<1>3. /\ set.pc \in {"entry", "drain"}
      /\ Len(set.body) + Len(stream) = render.produced
      /\ NumberedFrom(set.body, 0) /\ NumberedFrom(stream, Len(set.body))
  BY DEF EntryInv, BodyInStep
<1>4. render.produced + 1 \in Chunk
  BY <1>1, <1>2, Longest DEF Chunk
<1>5. /\ stream' \in Seq(Chunk) /\ Len(stream') = Len(stream) + 1
      /\ \A i \in 1..Len(stream) : stream'[i] = stream[i]
      /\ stream'[Len(stream) + 1] = render.produced + 1
  BY <1>1, <1>4
<1>6. ETypeOK'
  <2>1. stream' \in Body /\ Len(stream') <= Window
    <3>1. /\ Len(stream) \in Nat /\ Len(set.body) \in Nat
          /\ Len(stream') <= render.entry.chunks /\ Len(stream') <= Window
      BY <1>1, <1>2, <1>3, <1>5
    <3>. QED
      BY <1>2, <1>5, <3>1, ShortBody
  <2>. QED
    BY <1>4, <2>1 DEF EntryInv, ETypeOK
<1>7. RenderInStep'
  BY <1>1, <1>2 DEF EntryInv, ETypeOK, RenderInStep
<1>8. BodyInStep'
  <2>1. render'.produced = render.produced + 1 /\ render'.state = "streaming"
    BY DEF EntryInv, ETypeOK
  <2>2. NumberedFrom(stream, Len(set.body))'
    <3>1. /\ Len(stream) \in Nat /\ Len(set.body) \in Nat
          /\ DOMAIN stream' = 1..(Len(stream) + 1)
      BY <1>1, <1>5
    <3>2. ASSUME NEW i \in 1..(Len(stream) + 1)
          PROVE  stream'[i] = Len(set.body) + i
      <4>1. CASE i = Len(stream) + 1
        <5>1. stream'[i] = (Len(set.body) + Len(stream)) + 1
          BY <1>3, <1>5, <4>1
        <5>. QED
          BY <3>1, <4>1, <5>1, CountOn
      <4>2. CASE i # Len(stream) + 1
        <5>1. i \in 1..Len(stream) /\ i \in DOMAIN stream
          BY <1>1, <3>1, <4>2
        <5>. QED
          BY <1>3, <1>5, <5>1 DEF NumberedFrom
      <4>. QED
        BY <4>1, <4>2
    <3>. QED
      BY <3>1, <3>2 DEF NumberedFrom
  <2>3. NumberedFrom(set.body, 0)'
    BY <1>3 DEF NumberedFrom
  <2>4. Len(set.body) + Len(stream') = render.produced + 1
    <3>1. Len(stream) \in Nat /\ Len(set.body) \in Nat
      BY <1>1
    <3>. QED
      BY <1>3, <1>5, <3>1, CountOn
  <2>. QED
    BY <1>3, <2>1, <2>2, <2>3, <2>4 DEF BodyInStep
<1>9. SetInStep'
  BY <1>3 DEF EntryInv, ETypeOK, SetInStep
<1>10. ItemInStep'
  BY ItemKept DEF EntryInv, ETypeOK
<1>. QED
  BY <1>6, <1>7, <1>8, <1>9, <1>10 DEF EntryInv

\* A chunk read moves from the stream to the body.
LEMMA DrainStep ==
    ASSUME EntryInv, Drain
    PROVE  EntryInv'
<1>. USE DEF Drain
<1>1. /\ stream \in Seq(Chunk) /\ set.body \in Seq(Chunk)
      /\ render.produced \in Nat /\ Window \in Nat
  BY BodySeq, EntryAssumption DEF EntryInv, ETypeOK, Chunk
<1>2. /\ render.produced <= render.entry.chunks
      /\ render.entry.chunks \in Nat /\ render.entry.chunks <= Max(Lengths)
  BY Longest, EntryAssumption DEF EntryInv, RenderInStep, SetInStep, Entry
<1>3. /\ Len(set.body) + Len(stream) = render.produced
      /\ NumberedFrom(set.body, 0) /\ NumberedFrom(stream, Len(set.body))
  BY DEF EntryInv, BodyInStep
<1>4. /\ Head(stream) \in Chunk /\ Head(stream) = stream[1] /\ Len(stream) >= 1
      /\ Tail(stream) \in Seq(Chunk) /\ Len(Tail(stream)) = Len(stream) - 1
      /\ \A i \in 1..Len(Tail(stream)) : Tail(stream)[i] = stream[i + 1]
  BY <1>1
<1>5. set' = [pc |-> "drain", body |-> Append(set.body, Head(stream))]
  BY DEF EntryInv, ETypeOK
<1>6. /\ set'.body \in Seq(Chunk) /\ Len(set'.body) = Len(set.body) + 1
      /\ \A i \in 1..Len(set.body) : set'.body[i] = set.body[i]
      /\ set'.body[Len(set.body) + 1] = Head(stream)
  BY <1>1, <1>4, <1>5
<1>7. ETypeOK'
  <2>1. stream' \in Body /\ Len(stream') <= Window
    <3>1. /\ Len(stream) \in Nat /\ Len(set.body) \in Nat
          /\ Len(stream) <= Window
      BY <1>1 DEF EntryInv, ETypeOK
    <3>2. Len(stream') <= render.entry.chunks /\ Len(stream') <= Window
      BY <1>1, <1>2, <1>3, <1>4, <3>1
    <3>. QED
      BY <1>2, <1>4, <3>2, ShortBody
  <2>2. set'.body \in Body
    <3>1. Len(stream) \in Nat /\ Len(set.body) \in Nat
      BY <1>1
    <3>2. Len(set'.body) <= render.entry.chunks
      BY <1>1, <1>2, <1>3, <1>4, <1>6, <3>1
    <3>. QED
      BY <1>2, <1>6, <3>2, ShortBody
  <2>. QED
    BY <1>5, <2>1, <2>2 DEF EntryInv, ETypeOK
<1>8. RenderInStep'
  BY DEF EntryInv, RenderInStep
<1>9. BodyInStep'
  <2>1. Head(stream) = Len(set.body) + 1
    BY <1>1, <1>3, <1>4 DEF NumberedFrom
  <2>2. NumberedFrom(set.body, 0)'
    BY <1>1, <1>3, <1>6, <2>1 DEF NumberedFrom
  <2>3. ASSUME NEW i \in DOMAIN Tail(stream)
        PROVE  Tail(stream)[i] = Len(set.body) + 1 + i
    <3>1. i \in Nat /\ i + 1 \in DOMAIN stream /\ Tail(stream)[i] = stream[i + 1]
      BY <1>1, <1>4, <2>3
    <3>2. stream[i + 1] = Len(set.body) + (i + 1)
      BY <1>3, <3>1 DEF NumberedFrom
    <3>3. Len(set.body) \in Nat
      BY <1>1
    <3>. QED
      BY <3>1, <3>2, <3>3, CountOn
  <2>4. NumberedFrom(stream, Len(set.body))'
    BY <1>6, <2>3 DEF NumberedFrom
  <2>. QED
    BY <1>1, <1>3, <1>4, <1>5, <1>6, <2>2, <2>4 DEF BodyInStep
<1>10. SetInStep'
  BY <1>5 DEF EntryInv, SetInStep
<1>11. ItemInStep'
  BY ItemKept DEF EntryInv, ETypeOK
<1>. QED
  BY <1>7, <1>8, <1>9, <1>10, <1>11 DEF EntryInv

\* An entry is written when its body has been read to the end.
LEMMA WriteStep ==
    ASSUME EntryInv, Write
    PROVE  EntryInv'
<1>. USE DEF Write, Drained
<1>1. set' = [pc |-> "write", body |-> set.body]
  BY DEF EntryInv, ETypeOK
<1>2. /\ set.body \in Seq(Chunk) /\ Len(stream) = 0
      /\ render.entry \in Entry /\ render.entry.chunks \in Nat
      /\ render.produced = render.entry.chunks
      /\ Len(set.body) + Len(stream) = render.produced
      /\ NumberedFrom(set.body, 0)
  BY BodySeq, EntryAssumption
     DEF EntryInv, ETypeOK, RenderInStep, SetInStep, BodyInStep, Entry
<1>3. Len(set.body) = render.entry.chunks
  BY <1>2
<1>4. set.body = Whole(render.entry.chunks)
  <2>1. \A i \in 1..Len(set.body) : set.body[i] = i
    BY <1>2 DEF NumberedFrom
  <2>2. set.body = [i \in 1..Len(set.body) |-> set.body[i]]
    BY <1>2
  <2>. QED
    BY <1>3, <2>1, <2>2 DEF Whole
<1>5. render.entry.kind # "oversized"
  BY DEF EncodeEntry
<1>6. ETypeOK'
  BY <1>1 DEF EntryInv, ETypeOK
<1>7. RenderInStep' /\ BodyInStep'
  BY <1>1 DEF EntryInv, RenderInStep, BodyInStep
<1>8. SetInStep'
  BY <1>1, <1>4, <1>5 DEF EntryInv, SetInStep
<1>9. ItemInStep'
  BY ItemKept DEF EntryInv, ETypeOK
<1>. QED
  BY <1>6, <1>7, <1>8, <1>9 DEF EntryInv

\* What is stored is the entry, encoded whole.
LEMMA StoredStep ==
    ASSUME EntryInv, Stored
    PROVE  EntryInv'
<1>. USE DEF Stored
<1>. DEFINE entry == render.entry
            text == EncodeEntry(entry, set.body)
            until == clock + Second * ClampTtlSeconds(entry.expire)
<1>1. /\ entry \in Entry /\ entry.kind # "oversized" /\ entry.expire # 0
      /\ set.body = Whole(entry.chunks) /\ set.body \in Body
      /\ entry.timestamp <= clock /\ render.state = "closed"
  BY DEF EntryInv, ETypeOK, RenderInStep, SetInStep
<1>2. clock \in 0..MaxClock /\ clock \in Nat
  BY EntryAssumption DEF EntryInv, ETypeOK
<1>3. text \in Text
  BY <1>1 DEF EncodeEntry, Json, Text, Span, Entry
<1>4. until \in Nat
  <2>1. ClampTtlSeconds(entry.expire) \in Nat /\ Second \in Nat
    BY <1>1, Clamped, EntryAssumption DEF Entry
  <2>2. Second * ClampTtlSeconds(entry.expire) \in Nat
    BY <2>1
  <2>. QED
    BY <1>2, <2>2
<1>. HIDE DEF text, until
<1>5. item' = [text |-> text, until |-> until]
  BY DEF text, until
<1>6. item' \in [text: Text, until: Nat] /\ item' # None
  BY <1>3, <1>4, <1>5, ItemAssumption
<1>7. ETypeOK'
  <2>1. <<>> \in Body
    BY EmptyBody
  <2>. QED
    BY <1>1, <1>2, <1>6, <2>1 DEF EntryInv, ETypeOK, Idle
<1>8. RenderInStep'
  BY DEF EntryInv, RenderInStep
<1>9. BodyInStep' /\ SetInStep'
  BY <1>1 DEF BodyInStep, SetInStep, Idle
<1>10. ItemInStep'
  <2>1. written' = [entry |-> entry, at |-> clock]
    OBVIOUS
  <2>2. /\ written'.entry = entry /\ written'.at = clock
        /\ written' # None
    BY <1>1, <1>2, <2>1, ItemAssumption
  <2>3. item' = [text |-> EncodeEntry(entry, Whole(entry.chunks)),
                 until |-> clock + Second * ClampTtlSeconds(entry.expire)]
    BY <1>1, <1>5 DEF text, until
  <2>. QED
    BY <1>1, <1>2, <1>6, <2>2, <2>3 DEF ItemInStep
<1>. QED
  BY <1>7, <1>8, <1>9, <1>10 DEF EntryInv

\* The other steps of set() only move it on or end it.
LEMMA SetMoves ==
    ASSUME EntryInv, AwaitEntry \/ Skip \/ Broken \/ Rejected
    PROVE  EntryInv'
<1>1. <<>> \in Body
  BY EmptyBody
<1>2. UNCHANGED <<clock, render, stream, item, written>>
  BY DEF AwaitEntry, Skip, Broken, Rejected
<1>3. CASE set' = Idle
  <2>1. render.state \notin {"pending", "streaming"} \/ AwaitEntry
    BY DEF EntryInv, SetInStep, Skip, Drained, Broken, Rejected
  <2>2. render.state \notin {"pending", "streaming"}
    BY <1>3, <2>1 DEF AwaitEntry, EntryInv, ETypeOK, RenderInStep, Idle
  <2>. QED
    BY <1>1, <1>2, <1>3, <2>2, ItemKept
       DEF EntryInv, ETypeOK, RenderInStep, BodyInStep, SetInStep, Idle
<1>4. CASE AwaitEntry /\ set' = [set EXCEPT !.pc = "drain"] /\ render.entry.kind # "no_stream"
  BY <1>2, <1>4, ItemKept
     DEF AwaitEntry, EntryInv, ETypeOK, RenderInStep, BodyInStep, SetInStep
<1>. QED
  BY <1>3, <1>4 DEF AwaitEntry, Skip, Broken, Rejected

-----------------------------------------------------------------------------

\* At first there is nothing.
LEMMA EntryInit == EInit => EntryInv
<1>1. 0 \in 0..MaxClock
  BY EntryAssumption
<1>. QED
  BY <1>1, EmptyBody, EntryAssumption
     DEF EInit, EntryInv, ETypeOK, NoRender, Idle, RenderInStep, BodyInStep,
         SetInStep, ItemInStep

\* Time passes.
LEMMA TickStep ==
    ASSUME EntryInv, Tick
    PROVE  EntryInv'
<1>. USE DEF Tick
<1>1. clock' \in 0..MaxClock /\ clock <= clock' /\ clock' \in Int
  BY EntryAssumption DEF EntryInv, ETypeOK
<1>2. ETypeOK' /\ BodyInStep' /\ SetInStep'
  BY <1>1 DEF EntryInv, ETypeOK, BodyInStep, SetInStep
<1>3. RenderInStep'
  BY EntryAssumption DEF EntryInv, ETypeOK, RenderInStep, Entry
<1>4. ItemInStep'
  BY <1>1, ItemKept
<1>. QED
  BY <1>2, <1>3, <1>4 DEF EntryInv

\* No step breaks the invariant.
LEMMA EntryStep == EntryInv /\ [ENext]_evars => EntryInv'
<1>. SUFFICES ASSUME EntryInv, [ENext]_evars PROVE EntryInv'
  OBVIOUS
<1>1. ASSUME NEW entry \in Entry, Begin(entry)
      PROVE  EntryInv'
  BY <1>1, BeginStep
<1>2. CASE RenderStep \/ Fail
  BY <1>2, ResolveStep, ProduceStep DEF RenderStep
<1>3. CASE SetStep
  BY <1>3, DrainStep, WriteStep, StoredStep, SetMoves DEF SetStep
<1>4. CASE Tick
  BY <1>4, TickStep
<1>5. CASE UNCHANGED evars
  BY <1>5 DEF evars, EntryInv, ETypeOK, RenderInStep, BodyInStep, SetInStep,
              ItemInStep
<1>. QED
  BY <1>1, <1>2, <1>3, <1>4, <1>5 DEF ENext

\* The invariant holds in every reachable state.
THEOREM EntryInStep == ESpec => []EntryInv
BY EntryInit, EntryStep, PTL DEF ESpec

\* Every variable holds a value of its type: no body read is longer than one
\* rendered, the stream holds no more than its window.
THEOREM ETypeCorrect == ESpec => []ETypeOK
<1>1. EntryInv => ETypeOK
  BY DEF EntryInv
<1>. QED
  BY <1>1, EntryInStep, PTL

-----------------------------------------------------------------------------
(* What a get() returns.                                                   *)

\* A text that decodes carries its entry's numbers, none of them infinite.
LEMMA Decoded ==
    ASSUME EntryInv, Served # None
    PROVE  /\ Served = Verbatim
           /\ written.entry \in Entry /\ written.entry.expire \in Nat
           /\ written.entry.revalidate \in Nat
           /\ written.entry.expire # Infinity
           /\ Servable(Served)
<1>1. /\ item # None /\ Served = DecodeEntry(item.text)
      /\ DecodeEntry(item.text) # None /\ Servable(DecodeEntry(item.text))
  BY DEF Served, Held
<1>. DEFINE entry == written.entry
<1>2. /\ entry \in Entry /\ entry.kind # "oversized"
      /\ item.text = EncodeEntry(entry, Whole(entry.chunks))
  BY <1>1 DEF EntryInv, ETypeOK, ItemInStep
<1>3. item.text = [timestamp |-> entry.timestamp, expire |-> Json(entry.expire),
                   revalidate |-> Json(entry.revalidate),
                   body |-> Whole(entry.chunks)]
  BY <1>2 DEF EncodeEntry
<1>4. /\ DecodeEntry(item.text) = item.text
      /\ Json(entry.expire) # Null /\ Json(entry.revalidate) # Null
  BY <1>1, <1>3 DEF DecodeEntry
<1>5. /\ entry.expire # Infinity /\ Json(entry.expire) = entry.expire
      /\ entry.revalidate # Infinity /\ Json(entry.revalidate) = entry.revalidate
  BY <1>4 DEF Json
<1>6. Served = Verbatim
  BY <1>1, <1>3, <1>4, <1>5 DEF Verbatim
<1>7. entry.expire \in Nat /\ entry.revalidate \in Nat
  BY <1>2, <1>5, EntryAssumption DEF Entry
<1>. QED
  BY <1>1, <1>2, <1>5, <1>6, <1>7

\* A get() returns the entry last written, verbatim and whole, or none.
THEOREM WholeOrMiss == ESpec => []VerbatimOrMiss
<1>1. EntryInv => VerbatimOrMiss
  BY Decoded DEF VerbatimOrMiss
<1>. QED
  BY <1>1, EntryInStep, PTL

\* No entry that is regenerated on every read is served, and no other a second
\* and its expire after it was stored: what get() does not check, the TTL that
\* set() gives memcached bounds.
THEOREM SoonAfterExpire == ESpec => []ServedSoonAfterExpire
<1>1. EntryInv => ServedSoonAfterExpire
  <2>. SUFFICES ASSUME EntryInv, Served # None
                PROVE  Served.expire > 0 /\ clock < written.at + Served.expire + Second
    BY DEF ServedSoonAfterExpire
  <2>. DEFINE entry == written.entry
              ttl == ClampTtlSeconds(entry.expire)
  <2>1. Served.expire = entry.expire
    BY Decoded DEF Verbatim
  <2>2. /\ item # None /\ clock < item.until
        /\ item.until = written.at + Second * ttl
        /\ entry.expire # 0 /\ written.at \in Nat /\ clock \in Nat
    BY EntryAssumption DEF EntryInv, ETypeOK, ItemInStep, Served, Held
  <2>3. entry.expire \in Nat /\ entry.expire > 0
    BY <2>2, Decoded
  <2>4. Second * ttl <= entry.expire + Second - 1
    BY <2>3, ClampedShort, Decoded
  <2>5. ttl \in Nat /\ Second \in Nat
    BY <2>3, Clamped, EntryAssumption
  <2>. HIDE DEF ttl
  <2>6. Second * ttl \in Nat
    BY <2>5
  <2>. QED
    BY <2>1, <2>2, <2>3, <2>4, <2>5, <2>6
<1>. QED
  BY <1>1, EntryInStep, PTL

\* No TTL drops an entry before its expire has passed, short of the cap:
\* seconds are rounded up and count from the later instant of the write.
THEOREM KeptLong == ESpec => []KeptUntilExpire
<1>1. EntryInv => KeptUntilExpire
  <2>. DEFINE entry == written.entry
              ttl == ClampTtlSeconds(entry.expire)
  <2>. SUFFICES ASSUME EntryInv, written # None,
                       clock < written.at + Second * MaxTtl,
                       \/ entry.expire = Infinity
                       \/ clock < entry.timestamp + entry.expire
                PROVE  Held
    BY DEF KeptUntilExpire
  <2>1. /\ item # None /\ item.until = written.at + Second * ttl
        /\ entry.timestamp <= written.at
        /\ entry \in Entry /\ written.at \in Nat
        /\ clock \in Nat
    BY EntryAssumption DEF EntryInv, ETypeOK, ItemInStep
  <2>2. /\ entry.expire \in Nat \cup {Infinity} /\ entry.timestamp \in Nat
        /\ Second \in Nat /\ MaxTtl \in Nat
    <3>1. entry.expire \in Durations /\ entry.timestamp \in 0..MaxClock
      BY <2>1 DEF Entry
    <3>2. entry.expire \in Nat \cup {Infinity}
      BY <3>1, EntryAssumption
    <3>3. entry.timestamp \in Nat
      BY <3>1, EntryAssumption
    <3>4. Second \in Nat /\ MaxTtl \in Nat
      BY EntryAssumption
    <3>. QED
      BY <3>2, <3>3, <3>4
  <2>3. /\ ttl \in Nat
        /\ ttl = MaxTtl \/ (entry.expire \in Nat /\ Second * ttl >= entry.expire)
    BY <2>2, Clamped
  <2>. HIDE DEF ttl
  <2>4. clock < written.at + Second * ttl
    <3>1. CASE ttl = MaxTtl
      BY <3>1
    <3>2. CASE entry.expire = Infinity
      BY <2>1, <2>2, <2>3, <3>2, Clamped DEF ttl, ClampTtlSeconds
    <3>3. CASE /\ entry.expire \in Nat /\ Second * ttl >= entry.expire
               /\ clock < entry.timestamp + entry.expire
      <4>1. Second * ttl \in Nat
        BY <2>2, <2>3
      <4>. QED
        BY <2>1, <2>2, <3>3, <4>1
    <3>. QED
      BY <2>3, <3>1, <3>2, <3>3
  <2>. QED
    BY <2>1, <2>4 DEF Held
<1>. QED
  BY <1>1, EntryInStep, PTL

=============================================================================
