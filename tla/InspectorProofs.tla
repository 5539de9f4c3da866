-------------------------- MODULE InspectorProofs ---------------------------
(***************************************************************************)
(* However its replies are cut into chunks, whatever is written, evicted,  *)
(* flushed or refused under way and whichever await fails, the inspector   *)
(* reads every reply whole and loses no key that was there throughout but  *)
(* those a reply has left out: for any keys, slabs and batches.            *)
(***************************************************************************)
EXTENDS Panel, FunctionTheorems, FiniteSetTheorems, SequenceTheorems, TLAPS

-----------------------------------------------------------------------------
(* Sets as sequences.                                                      *)

\* SetToSeq numbers the members of a finite set.
LEMMA SetToSeqIs ==
    ASSUME NEW S, IsFiniteSet(S)
    PROVE  /\ SetToSeq(S) \in Seq(S)
           /\ Len(SetToSeq(S)) = Cardinality(S)
           /\ \A x \in S : \E i \in DOMAIN SetToSeq(S) : SetToSeq(S)[i] = x
<1>. DEFINE n == Cardinality(S)
<1>1. n \in Nat /\ ExistsBijection(1..n, S)
  BY FS_CardinalityType
<1>. HIDE DEF n
<1>2. PICK g : g \in Bijection(1..n, S)
  BY <1>1, Fun_ExistsBij
<1>3. g \in [1..n -> S] /\ \A i, j \in 1..n : g[i] = g[j] => i = j
  BY <1>2, Fun_BijectionProperties
<1>4. g \in [1..n -> S] /\ IsInjective(g)
  BY <1>3 DEF IsInjective
<1>. DEFINE f == SetToSeq(S)
<1>5. f \in [1..n -> S] /\ IsInjective(f)
  BY <1>4 DEF SetToSeq, n
<1>. HIDE DEF f
<1>6. f \in Injection(1..n, S)
  BY <1>5, Fun_IsInj DEF IsInjective
<1>7. IsFiniteSet(1..n) /\ Cardinality(1..n) = n
  BY <1>1, FS_Interval
<1>8. f \in Surjection(1..n, S)
  BY <1>1, <1>6, <1>7, FS_Injection DEF n
<1>9. \A x \in S : \E i \in 1..n : f[i] = x
  BY <1>8 DEF Surjection
<1>10. f \in Seq(S)
  BY <1>1, <1>5, SeqDef
<1>11. Len(f) = n /\ DOMAIN f = 1..n
  BY <1>1, <1>5, <1>10
<1>. QED
  BY <1>9, <1>10, <1>11 DEF f, n

\* Some of the keys are finitely many, and so are their slabs.
LEMMA KeysFinite ==
    ASSUME NEW keys \in SUBSET Key
    PROVE  /\ IsFiniteSet(keys)
           /\ IsFiniteSet({SlabOf[k] : k \in keys})
<1>1. IsFiniteSet(keys)
  BY FS_Subset, InspectorAssumption
<1>. DEFINE slabs == {SlabOf[k] : k \in keys}
            f == [k \in keys |-> SlabOf[k]]
<1>2. f \in Surjection(keys, slabs)
  BY Fun_IsSurj
<1>. QED
  BY <1>1, <1>2, FS_Surjection

\* The lesser of two numbers.
LEMMA MinIs ==
    ASSUME NEW m \in Int, NEW n \in Int
    PROVE  Min({m, n}) = IF m <= n THEN m ELSE n
BY DEF Min

\* A sequence cut in two has its members in either part.
LEMMA CutIs ==
    ASSUME NEW S, NEW s \in Seq(S), NEW n \in 0..Len(s)
    PROVE  /\ SubSeq(s, 1, n) \in Seq(S) /\ Len(SubSeq(s, 1, n)) = n
           /\ SubSeq(s, n + 1, Len(s)) \in Seq(S)
           /\ Len(SubSeq(s, n + 1, Len(s))) = Len(s) - n
           /\ SubSeq(s, 1, n) \o SubSeq(s, n + 1, Len(s)) = s
           /\ \A x \in Range(s) : \/ x \in Range(SubSeq(s, 1, n))
                                  \/ x \in Range(SubSeq(s, n + 1, Len(s)))
<1>. DEFINE a == SubSeq(s, 1, n)
            b == SubSeq(s, n + 1, Len(s))
<1>1. /\ a \in Seq(S) /\ Len(a) = n /\ b \in Seq(S) /\ Len(b) = Len(s) - n
  BY SubSeqProperties
<1>2. a \o b = s
  <2>1. Len(s) \in Nat /\ 1 \in 1..Len(s) + 1 /\ n \in 1 - 1..Len(s)
        /\ Len(s) \in n..Len(s)
    OBVIOUS
  <2>2. a \o b = SubSeq(s, 1, Len(s))
    BY <2>1, ConcatAdjacentSubSeq
  <2>. QED
    BY <2>2, SubSeqFull
<1>. HIDE DEF a, b
<1>3. Range(s) = Range(a) \cup Range(b)
  BY <1>1, <1>2, RangeConcatenation
<1>. QED
  BY <1>1, <1>2, <1>3 DEF a, b

-----------------------------------------------------------------------------
(* What memcached replies.                                                 *)

\* Lines that name keys.
LEMMA MarkedIs ==
    ASSUME NEW kind \in {"key", "ITEM", "VALUE"}, NEW keys \in SUBSET Key
    PROVE  /\ Marked(kind, keys) \in Seq(Line)
           /\ \A i \in DOMAIN Marked(kind, keys) : Marked(kind, keys)[i].kind = kind
           /\ \A k \in keys : \E i \in DOMAIN Marked(kind, keys) :
                 Names(Marked(kind, keys)[i], kind, k)
<1>. DEFINE order == SetToSeq(keys)
            lines == [i \in DOMAIN order |-> [kind |-> kind, key |-> order[i]]]
<1>1. /\ order \in Seq(keys)
      /\ \A k \in keys : \E i \in DOMAIN order : order[i] = k
  BY KeysFinite, SetToSeqIs
<1>. HIDE DEF order
<1>2. Len(order) \in Nat /\ DOMAIN order = 1..Len(order)
  BY <1>1
<1>3. \A i \in DOMAIN order : order[i] \in Key
  BY <1>1
<1>4. lines \in [1..Len(order) -> Line]
  BY <1>2, <1>3 DEF Line
<1>5. lines \in Seq(Line)
  BY <1>2, <1>4, SeqDef
<1>6. \A i \in DOMAIN order : lines[i].kind = kind /\ lines[i].key = order[i]
  OBVIOUS
<1>7. lines = Marked(kind, keys)
  BY DEF Marked, order
<1>8. DOMAIN lines = DOMAIN order
  OBVIOUS
<1>. HIDE DEF lines
<1>. QED
  BY <1>1, <1>5, <1>6, <1>7, <1>8 DEF Names

\* A reply that ends in END is whole.
LEMMA EndedIs ==
    ASSUME NEW s \in Seq(Line), NEW pc,
           \A i \in DOMAIN s : s[i].kind \notin Endings(pc)
    PROVE  /\ s \o End \in Seq(Line)
           /\ Whole(s \o End, pc)
           /\ \A i \in DOMAIN s : i \in DOMAIN (s \o End) /\ (s \o End)[i] = s[i]
           /\ \A i \in DOMAIN (s \o End) :
                 (s \o End)[i].kind # "END" => i \in DOMAIN s /\ (s \o End)[i] = s[i]
<1>. DEFINE t == s \o End
<1>1. End \in Seq(Line) /\ Len(End) = 1 /\ End[1].kind = "END"
  BY DEF End, Line
<1>2. /\ t \in Seq(Line) /\ Len(t) = Len(s) + 1
      /\ \A i \in 1..Len(s) + 1 : t[i] = IF i <= Len(s) THEN s[i] ELSE End[i - Len(s)]
  <2>. HIDE DEF t
  <2>1. /\ s \o End \in Seq(Line) /\ Len(s \o End) = Len(s) + Len(End)
        /\ \A i \in 1..Len(s) + Len(End) :
              (s \o End)[i] = IF i <= Len(s) THEN s[i] ELSE End[i - Len(s)]
    BY <1>1, ConcatProperties
  <2>. QED
    BY <1>1, <2>1 DEF t
<1>. HIDE DEF t
<1>3. DOMAIN s = 1..Len(s) /\ DOMAIN t = 1..Len(s) + 1 /\ Len(s) \in Nat
  BY <1>2
<1>4. \A i \in DOMAIN s : i \in DOMAIN t /\ t[i] = s[i]
  BY <1>2, <1>3
<1>5. t[Len(t)].kind = "END" /\ Len(t) \in DOMAIN t
  BY <1>1, <1>2, <1>3
<1>6. \A i \in DOMAIN t : i = Len(t) \/ i \in DOMAIN s
  BY <1>2, <1>3
<1>7. t # <<>>
  BY <1>2, <1>3
<1>8. Whole(t, pc)
  BY <1>4, <1>6, <1>7 DEF Whole
<1>. QED
  BY <1>2, <1>4, <1>5, <1>6, <1>8 DEF t

\* A line by itself.
LEMMA OneLine ==
    ASSUME NEW line \in Line
    PROVE  /\ <<line>> \in Seq(Line) /\ Len(<<line>>) = 1
           /\ DOMAIN <<line>> = {1} /\ <<line>>[1] = line
OBVIOUS

\* The keys present are keys, and what they hold is of some kind.
LEMMA PresentIs ==
    ASSUME NTypeOK
    PROVE  /\ Present \in SUBSET Key
           /\ \A k \in Present : store[k] \in Kind
BY DEF NTypeOK, Present

\* A refusal is a whole reply, whoever reads it.
LEMMA RefusedReply ==
    /\ Refused \in Seq(Line) /\ Refused[1].kind = "ERROR"
    /\ \A i \in DOMAIN Refused : Refused[i].kind = "ERROR"
    /\ \A pc : Whole(Refused, pc)
<1>1. [kind |-> "ERROR"] \in Line
  BY DEF Line
<1>2. /\ Refused \in Seq(Line) /\ Len(Refused) = 1
      /\ DOMAIN Refused = {1} /\ Refused[1] = [kind |-> "ERROR"]
  BY <1>1, OneLine DEF Refused
<1>3. Refused # <<>> /\ \A i \in DOMAIN Refused : i = Len(Refused)
  BY <1>2
<1>. QED
  BY <1>2, <1>3 DEF Whole

\* The crawler's dump ends in END alone.
LEMMA DumpReply ==
    ASSUME NTypeOK, asked # None, asked.name = "metadump", NEW reply \in Replies(asked)
    PROVE  reply \in Seq(Line) /\ Whole(reply, "dump")
<1>1. PICK keys \in SUBSET lived : reply = <<[kind |-> "OK"]>> \o Marked("key", keys) \o End
  BY DEF Replies
<1>. DEFINE ok == <<[kind |-> "OK"]>>
            marked == Marked("key", keys)
            s == ok \o marked
<1>2. reply = s \o End
  BY <1>1
<1>3. /\ marked \in Seq(Line)
      /\ \A i \in DOMAIN marked : marked[i].kind = "key"
  <2>1. keys \in SUBSET Key
    BY DEF NTypeOK
  <2>. QED
    BY <2>1, MarkedIs
<1>. HIDE DEF marked
<1>4. ok \in Seq(Line) /\ Len(ok) = 1 /\ ok[1].kind = "OK"
  <2>1. [kind |-> "OK"] \in Line
    BY DEF Line
  <2>. QED
    BY <2>1, OneLine
<1>. HIDE DEF ok
<1>5. /\ s \in Seq(Line) /\ Len(s) = Len(marked) + 1
      /\ \A i \in 1..Len(marked) + 1 : s[i] = IF i = 1 THEN ok[1] ELSE marked[i - 1]
  <2>. HIDE DEF s
  <2>1. /\ ok \o marked \in Seq(Line) /\ Len(ok \o marked) = Len(ok) + Len(marked)
        /\ \A i \in 1..Len(ok) + Len(marked) :
              (ok \o marked)[i] = IF i <= Len(ok) THEN ok[i] ELSE marked[i - Len(ok)]
    BY <1>3, <1>4, ConcatProperties
  <2>2. s = ok \o marked
    BY DEF s
  <2>3. Len(marked) \in Nat
    BY <1>3
  <2>. QED
    BY <1>4, <2>1, <2>2, <2>3
<1>. HIDE DEF s
<1>6. DOMAIN s = 1..Len(marked) + 1 /\ DOMAIN marked = 1..Len(marked) /\ Len(marked) \in Nat
  BY <1>3, <1>5
<1>7. \A i \in DOMAIN s : s[i].kind \notin Endings("dump")
  BY <1>3, <1>4, <1>5, <1>6 DEF Endings
<1>8. s \o End \in Seq(Line) /\ Whole(s \o End, "dump")
  BY <1>5, <1>7, EndedIs
<1>. QED
  BY <1>2, <1>8

\* A key that is not left out by a reply is named by it, or still to be listed.
LEMMA NotLeftOut ==
    ASSUME NEW reply, NEW k \in Key \ LeftOut(asked, reply)
    PROVE  /\ (asked.name = "metadump" /\ reply # Refused) =>
                 \E i \in DOMAIN reply : Names(reply[i], "key", k)
           /\ asked.name = "items" => reply # Refused
           /\ (asked.name = "cachedump" /\ reply = Refused) => SlabOf[k] # asked.slab
           /\ (asked.name = "get" /\ reply = Refused) => k \notin Range(asked.keys)
           /\ asked.name = "flush_all" => reply = Refused
BY DEF LeftOut

\* `stats items` names the slab of every key.
LEMMA ItemsReply ==
    ASSUME NTypeOK, asked # None, asked.name = "items", NEW reply \in Replies(asked)
    PROVE  /\ reply \in Seq(Line) /\ Whole(reply, "items")
           /\ \A k \in Present : \E i \in DOMAIN reply :
                 reply[i].kind = "STAT" /\ reply[i].slab = SlabOf[k]
           /\ \A i \in DOMAIN reply : reply[i].kind = "STAT" => reply[i].slab \in Slab
<1>. DEFINE slabs == SetToSeq({SlabOf[k] : k \in Present})
            s == [i \in DOMAIN slabs |-> [kind |-> "STAT", slab |-> slabs[i]]]
<1>1. reply = s \o End
  BY DEF Replies
<1>2. /\ slabs \in Seq({SlabOf[k] : k \in Present})
      /\ \A k \in Present : \E i \in DOMAIN slabs : slabs[i] = SlabOf[k]
  <2>. DEFINE S == {SlabOf[k] : k \in Present}
  <2>1. IsFiniteSet(S)
    BY PresentIs, KeysFinite
  <2>2. \A k \in Present : SlabOf[k] \in S
    OBVIOUS
  <2>3. slabs = SetToSeq(S)
    OBVIOUS
  <2>. HIDE DEF S, slabs
  <2>4. slabs \in Seq(S) /\ \A x \in S : \E i \in DOMAIN slabs : slabs[i] = x
    BY <2>1, <2>3, SetToSeqIs
  <2>5. \A k \in Present : \E i \in DOMAIN slabs : slabs[i] = SlabOf[k]
    BY <2>2, <2>4
  <2>. QED
    BY <2>4, <2>5 DEF S
<1>. HIDE DEF slabs
<1>3. Len(slabs) \in Nat /\ DOMAIN slabs = 1..Len(slabs)
  BY <1>2
<1>4. \A i \in DOMAIN slabs : slabs[i] \in Slab
  <2>1. \A k \in Present : SlabOf[k] \in Slab
    BY PresentIs, InspectorAssumption
  <2>2. \A i \in DOMAIN slabs : slabs[i] \in {SlabOf[k] : k \in Present}
    BY <1>2
  <2>. QED
    BY <2>1, <2>2
<1>5. s \in [1..Len(slabs) -> Line]
  BY <1>3, <1>4 DEF Line
<1>6. s \in Seq(Line)
  BY <1>3, <1>5, SeqDef
<1>7. /\ DOMAIN s = DOMAIN slabs
      /\ \A i \in DOMAIN slabs : s[i].kind = "STAT" /\ s[i].slab = slabs[i]
  OBVIOUS
<1>. HIDE DEF s
<1>8. \A i \in DOMAIN s : s[i].kind \notin Endings("items")
  BY <1>7 DEF Endings
<1>9. /\ s \o End \in Seq(Line) /\ Whole(s \o End, "items")
      /\ \A i \in DOMAIN s : i \in DOMAIN (s \o End) /\ (s \o End)[i] = s[i]
      /\ \A i \in DOMAIN (s \o End) :
            (s \o End)[i].kind # "END" => i \in DOMAIN s /\ (s \o End)[i] = s[i]
  BY <1>6, <1>8, EndedIs
<1>10. \A k \in Present : \E i \in DOMAIN s : s[i].kind = "STAT" /\ s[i].slab = SlabOf[k]
  BY <1>2, <1>7
<1>11. \A i \in DOMAIN (s \o End) :
          (s \o End)[i].kind = "STAT" => (s \o End)[i].slab \in Slab
  BY <1>4, <1>7, <1>9
<1>. QED
  BY <1>1, <1>9, <1>10, <1>11

\* `stats cachedump` names the keys of a slab.
LEMMA SlabReply ==
    ASSUME NTypeOK, asked # None, asked.name = "cachedump", NEW reply \in Replies(asked)
    PROVE  /\ reply \in Seq(Line) /\ Whole(reply, "slabs")
           /\ \A k \in Present : SlabOf[k] = asked.slab =>
                 \E i \in DOMAIN reply : Names(reply[i], "ITEM", k)
<1>. DEFINE keys == {k \in Present : SlabOf[k] = asked.slab}
            s == Marked("ITEM", keys)
<1>1. reply = s \o End
  BY DEF Replies
<1>2. keys \in SUBSET Key
  BY PresentIs
<1>. HIDE DEF keys
<1>3. /\ s \in Seq(Line)
      /\ \A i \in DOMAIN s : s[i].kind = "ITEM"
      /\ \A k \in keys : \E i \in DOMAIN s : Names(s[i], "ITEM", k)
  BY <1>2, MarkedIs
<1>. HIDE DEF s
<1>4. \A i \in DOMAIN s : s[i].kind \notin Endings("slabs")
  BY <1>3 DEF Endings
<1>5. /\ s \o End \in Seq(Line) /\ Whole(s \o End, "slabs")
      /\ \A i \in DOMAIN s : i \in DOMAIN (s \o End) /\ (s \o End)[i] = s[i]
  BY <1>3, <1>4, EndedIs
<1>. QED
  BY <1>1, <1>3, <1>5 DEF keys

\* `get` is answered with a header and a value for each key that has one.
LEMMA GetReply ==
    ASSUME NTypeOK, asked # None, asked.name = "get", asked.keys \in Seq(Key),
           NEW reply \in Replies(asked), NEW pc, pc # "dump"
    PROVE  /\ reply \in Seq(Line) /\ Whole(reply, pc)
           /\ \A k \in Range(asked.keys) \cap Present :
                 \E i \in DOMAIN reply : Names(reply[i], "VALUE", k)
           /\ \A i \in DOMAIN reply : reply[i].kind = "VALUE" =>
                 /\ i + 1 \in DOMAIN reply /\ reply[i + 1].kind = "data"
                 /\ reply[i + 1].holds = store[reply[i].key]
<1>. DEFINE found == Range(asked.keys) \cap Present
            hits == SetToSeq(found)
            n == Len(hits)
            k(i) == hits[(i + 1) \div 2]
            s == [i \in 1..2 * n |->
                     IF i % 2 = 1 THEN [kind |-> "VALUE", key |-> k(i)]
                                  ELSE [kind |-> "data", holds |-> store[k(i)]]]
<1>1. reply = s \o End
  BY DEF Replies, Values
<1>2. found \in SUBSET Key
  BY PresentIs
<1>3. /\ hits \in Seq(found)
      /\ \A w \in found : \E i \in DOMAIN hits : hits[i] = w
  BY <1>2, KeysFinite, SetToSeqIs
<1>4. found \subseteq Present
  OBVIOUS
<1>. HIDE DEF found, hits
<1>5. n \in Nat /\ DOMAIN hits = 1..n
  BY <1>3
<1>. HIDE DEF n
<1>6. ASSUME NEW i \in 1..2 * n
      PROVE  k(i) \in Key /\ store[k(i)] \in Kind
  <2>1. (i + 1) \div 2 \in 1..n
    BY <1>5
  <2>2. k(i) \in found
    BY <1>3, <1>5, <2>1
  <2>. QED
    BY <1>2, <1>4, <2>2, PresentIs
<1>7. /\ DOMAIN s = 1..2 * n
      /\ \A i \in 1..2 * n :
            s[i] = IF i % 2 = 1 THEN [kind |-> "VALUE", key |-> k(i)]
                                ELSE [kind |-> "data", holds |-> store[k(i)]]
  OBVIOUS
<1>8. s \in Seq(Line)
  <2>1. \A i \in 1..2 * n : s[i] \in Line
    BY <1>6, <1>7 DEF Line
  <2>2. s \in [1..2 * n -> Line]
    BY <1>7, <2>1
  <2>. DEFINE m == 2 * n
  <2>3. m \in Nat
    BY <1>5
  <2>4. s \in [1..m -> Line]
    BY <2>2
  <2>. HIDE DEF s, m
  <2>. QED
    BY <2>3, <2>4, SeqDef
<1>. HIDE DEF s
<1>9. ASSUME NEW i \in 1..2 * n
      PROVE  /\ s[i].kind \in {"VALUE", "data"}
             /\ s[i].kind = "VALUE" =>
                   /\ i + 1 \in 1..2 * n /\ s[i].key = k(i)
                   /\ s[i + 1].kind = "data" /\ s[i + 1].holds = store[k(i)]
  <2>1. CASE i % 2 # 1
    BY <1>7, <2>1
  <2>2. CASE i % 2 = 1
    <3>1. i + 1 \in 1..2 * n
      BY <1>5, <2>2
    <3>2. (i + 1) % 2 # 1 /\ (i + 1 + 1) \div 2 = (i + 1) \div 2
      BY <1>5, <2>2
    <3>3. k(i + 1) = k(i)
      BY <3>2
    <3>4. s[i] = [kind |-> "VALUE", key |-> k(i)]
      BY <1>7, <2>2
    <3>5. s[i + 1] = [kind |-> "data", holds |-> store[k(i + 1)]]
      BY <1>7, <3>1, <3>2
    <3>. QED
      BY <3>1, <3>3, <3>4, <3>5
  <2>. QED
    BY <2>1, <2>2
<1>10. ASSUME NEW w \in found
       PROVE  \E i \in DOMAIN s : Names(s[i], "VALUE", w)
  <2>1. PICK j \in DOMAIN hits : hits[j] = w
    BY <1>3
  <2>2. 2 * j - 1 \in 1..2 * n /\ (2 * j - 1) % 2 = 1 /\ (2 * j - 1 + 1) \div 2 = j
    BY <1>5
  <2>3. k(2 * j - 1) = w
    BY <2>1, <2>2
  <2>. QED
    BY <1>7, <2>2, <2>3 DEF Names
<1>11. \A i \in DOMAIN s : s[i].kind \notin Endings(pc)
  BY <1>7, <1>9 DEF Endings
<1>. HIDE DEF k
<1>12. /\ s \o End \in Seq(Line) /\ Whole(s \o End, pc)
       /\ \A i \in DOMAIN s : i \in DOMAIN (s \o End) /\ (s \o End)[i] = s[i]
       /\ \A i \in DOMAIN (s \o End) :
             (s \o End)[i].kind # "END" => i \in DOMAIN s /\ (s \o End)[i] = s[i]
  BY <1>8, <1>11, EndedIs
<1>13. ASSUME NEW w \in found
       PROVE  \E i \in DOMAIN reply : Names(reply[i], "VALUE", w)
  BY <1>1, <1>10, <1>12
<1>14. ASSUME NEW i \in DOMAIN reply, reply[i].kind = "VALUE"
       PROVE  /\ i + 1 \in DOMAIN reply /\ reply[i + 1].kind = "data"
              /\ reply[i + 1].holds = store[reply[i].key]
  <2>1. i \in DOMAIN s /\ reply[i] = s[i]
    BY <1>1, <1>12, <1>14
  <2>2. i + 1 \in DOMAIN s /\ s[i].key = k(i)
        /\ s[i + 1].kind = "data" /\ s[i + 1].holds = store[k(i)]
    BY <1>7, <1>9, <1>14, <2>1
  <2>3. i + 1 \in DOMAIN reply /\ reply[i + 1] = s[i + 1]
    BY <1>1, <1>12, <2>2
  <2>. QED
    BY <2>1, <2>2, <2>3
<1>. QED
  BY <1>1, <1>12, <1>13, <1>14 DEF found

\* The other commands are answered without values.
LEMMA OtherReply ==
    ASSUME asked.name \in {"stats", "flush_all"}, NEW reply \in Replies(asked)
    PROVE  /\ reply \in Seq(Line) /\ Whole(reply, "one")
           /\ \A i \in DOMAIN reply : reply[i].kind # "VALUE"
<1>. DEFINE s == <<[kind |-> "STAT", slab |-> None]>>
<1>1. ASSUME asked.name = "stats"
      PROVE  /\ reply \in Seq(Line) /\ Whole(reply, "one")
             /\ \A i \in DOMAIN reply : reply[i].kind # "VALUE"
  <2>1. reply = s \o End
    BY <1>1 DEF Replies
  <2>2. s \in Seq(Line) /\ \A i \in DOMAIN s : s[i].kind = "STAT"
    <3>1. [kind |-> "STAT", slab |-> None] \in Line
      BY DEF Line
    <3>. QED
      BY <3>1, OneLine
  <2>. HIDE DEF s
  <2>3. \A i \in DOMAIN s : s[i].kind \notin Endings("one")
    BY <2>2 DEF Endings
  <2>. QED
    BY <2>1, <2>2, <2>3, EndedIs
<1>2. ASSUME asked.name = "flush_all"
      PROVE  /\ reply \in Seq(Line) /\ Whole(reply, "one")
             /\ \A i \in DOMAIN reply : reply[i].kind # "VALUE"
  <2>1. reply = <<[kind |-> "OK"]>>
    BY <1>2 DEF Replies
  <2>2. /\ reply \in Seq(Line) /\ Len(reply) = 1
        /\ DOMAIN reply = {1} /\ reply[1] = [kind |-> "OK"]
    <3>1. [kind |-> "OK"] \in Line
      BY DEF Line
    <3>. QED
      BY <2>1, <3>1, OneLine
  <2>3. /\ reply # <<>>
        /\ \A i \in DOMAIN reply : i = Len(reply) /\ reply[i].kind = "OK"
    BY <2>2
  <2>. QED
    BY <2>2, <2>3 DEF Whole
<1>. QED
  BY <1>1, <1>2

-----------------------------------------------------------------------------
(* What was read.                                                          *)

\* To read nothing is to have read something of no key.
LEMMA NothingRead == <<>> \in Read /\ DOMAIN <<>> = {}
<1>1. <<>> \in [{} -> Kind]
  OBVIOUS
<1>2. {} \in SUBSET Key
  OBVIOUS
<1>. QED
  BY <1>1, <1>2 DEF Read

\* The pairs of a reply in which a value follows each header.
LEMMA PairsIs ==
    ASSUME buffer \in Seq(Line),
           \A i \in DOMAIN buffer : buffer[i].kind = "VALUE" =>
               i + 1 \in DOMAIN buffer /\ buffer[i + 1].kind = "data"
    PROVE  /\ Pairs \in Read
           /\ \A k \in DOMAIN Pairs : \E i \in DOMAIN buffer :
                 Names(buffer[i], "VALUE", k) /\ Pairs[k] = buffer[i + 1].holds
           /\ \A i \in DOMAIN buffer :
                 buffer[i].kind = "VALUE" => buffer[i].key \in DOMAIN Pairs
<1>. DEFINE headers == {i \in 1..Len(buffer) - 1 : buffer[i].kind = "VALUE"}
            keys == {buffer[i].key : i \in headers}
            at(k) == CHOOSE i \in headers : buffer[i].key = k
<1>1. Len(buffer) \in Nat /\ DOMAIN buffer = 1..Len(buffer)
  OBVIOUS
<1>2. \A i \in headers : i \in DOMAIN buffer /\ buffer[i].kind = "VALUE"
  BY <1>1
<1>3. \A i \in DOMAIN buffer : buffer[i].kind = "VALUE" => i \in headers
  <2>. SUFFICES ASSUME NEW i \in DOMAIN buffer, buffer[i].kind = "VALUE"
                PROVE  i \in headers
    OBVIOUS
  <2>1. i + 1 \in 1..Len(buffer) /\ i \in 1..Len(buffer)
    BY <1>1
  <2>2. i \in 1..Len(buffer) - 1
    BY <1>1, <2>1
  <2>. QED
    BY <2>2
<1>4. Pairs = [k \in keys |-> buffer[1 + at(k)].holds]
  BY DEF Pairs
<1>. HIDE DEF headers
<1>5. \A i \in headers : buffer[i].key \in Key
  BY <1>2 DEF Line
<1>6. \A i \in headers : i \in DOMAIN buffer /\ i \in Nat
                          /\ i + 1 = 1 + i /\ buffer[1 + i].kind = "data"
                          /\ 1 + i \in DOMAIN buffer
  BY <1>1, <1>2
<1>7. \A i \in headers : buffer[1 + i].holds \in Kind
  BY <1>6 DEF Line
<1>8. \A k \in keys : at(k) \in headers /\ buffer[at(k)].key = k
  OBVIOUS
<1>. HIDE DEF at
<1>9. \A k \in keys : buffer[1 + at(k)].holds \in Kind
  BY <1>7, <1>8
<1>10. Pairs \in [keys -> Kind]
  BY <1>4, <1>9
<1>11. keys \in SUBSET Key
  BY <1>5
<1>12. \A i \in DOMAIN buffer : buffer[i].kind = "VALUE" => buffer[i].key \in keys
  BY <1>3
<1>13. DOMAIN Pairs = keys /\ \A k \in keys : Pairs[k] = buffer[1 + at(k)].holds
  BY <1>4
<1>. HIDE DEF keys
<1>14. Pairs \in Read
  BY <1>10, <1>11 DEF Read
<1>15. \A k \in keys : /\ at(k) \in DOMAIN buffer /\ Names(buffer[at(k)], "VALUE", k)
                        /\ Pairs[k] = buffer[at(k) + 1].holds
  BY <1>2, <1>6, <1>8, <1>13 DEF Names
<1>. QED
  BY <1>12, <1>13, <1>14, <1>15

\* What is read of more keys.
LEMMA SetIs ==
    ASSUME NEW values \in Read, NEW pairs \in Read
    PROVE  /\ Set(values, pairs) \in Read
           /\ DOMAIN Set(values, pairs) = DOMAIN values \cup DOMAIN pairs
           /\ \A k \in DOMAIN Set(values, pairs) :
                 \/ k \in DOMAIN pairs /\ Set(values, pairs)[k] = pairs[k]
                 \/ k \in DOMAIN values /\ Set(values, pairs)[k] = values[k]
<1>1. PICK a \in SUBSET Key : values \in [a -> Kind]
  BY DEF Read
<1>2. PICK b \in SUBSET Key : pairs \in [b -> Kind]
  BY DEF Read
<1>. DEFINE both == Set(values, pairs)
<1>3. both = [k \in a \cup b |-> IF k \in b THEN pairs[k] ELSE values[k]]
  BY <1>1, <1>2 DEF Set
<1>4. both \in [a \cup b -> Kind] /\ a \cup b \in SUBSET Key
  BY <1>1, <1>2, <1>3
<1>5. \A k \in a \cup b : both[k] = IF k \in b THEN pairs[k] ELSE values[k]
  BY <1>3
<1>6. DOMAIN both = a \cup b /\ DOMAIN values = a /\ DOMAIN pairs = b
  BY <1>1, <1>2, <1>3
<1>. HIDE DEF both
<1>7. both \in Read
  BY <1>4 DEF Read
<1>. QED
  BY <1>5, <1>6, <1>7 DEF both

-----------------------------------------------------------------------------
(* The steps, by what they do to the socket.                               *)

\* The fields of a request and of a command.
LEMMA FieldsAre ==
    ASSUME NTypeOK
    PROVE  /\ request.pc \in {"idle", "dump", "items", "slabs", "connect", "values",
                              "answer", "error", "mute", "one", "told"}
           /\ request.listed \in SUBSET Key /\ request.slabs \in SUBSET Slab
           /\ request.left \in Seq(Key) /\ request.values \in Read
           /\ asked # None =>
                 /\ asked.name \in {"metadump", "items", "stats", "flush_all",
                                    "cachedump", "get"}
                 /\ asked.name = "cachedump" => asked.slab \in Slab
                 /\ asked.name = "get" => asked.keys \in Seq(Key)
<1>1. request \in Request /\ (asked # None => asked \in Commands)
  BY DEF NTypeOK
<1>2. /\ request.pc \in {"idle", "dump", "items", "slabs", "connect", "values",
                         "answer", "error", "mute", "one", "told"}
      /\ request.listed \in SUBSET Key /\ request.slabs \in SUBSET Slab
      /\ request.left \in Seq(Key) /\ request.values \in Read
  BY <1>1 DEF Request
<1>3. ASSUME asked \in Commands
      PROVE  /\ asked.name \in {"metadump", "items", "stats", "flush_all",
                                "cachedump", "get"}
             /\ asked.name = "cachedump" => asked.slab \in Slab
             /\ asked.name = "get" => asked.keys \in Seq(Key)
  BY <1>3 DEF Commands
<1>. QED
  BY <1>1, <1>2, <1>3

\* A reply that is read has arrived in whole.
LEMMA DoneIs ==
    ASSUME NTypeOK, InStep, Awaiting, Done
    PROVE  /\ asked = None /\ wire = <<>> /\ ~half
           /\ buffer # <<>> /\ Incoming = buffer
           /\ 1 \in DOMAIN buffer
<1>1. buffer # <<>> /\ ~half
  BY DEF Done, LineDone, DumpDone, EndsCrlf
<1>2. asked = None
  BY <1>1 DEF InStep
<1>3. Whole(Incoming, request.pc)
  BY <1>2 DEF InStep
<1>. DEFINE n == Len(buffer)
            s == buffer \o wire
<1>4. buffer \in Seq(Line) /\ wire \in Seq(Line)
  BY DEF NTypeOK
<1>5. /\ s \in Seq(Line) /\ Len(s) = n + Len(wire)
      /\ \A i \in 1..n + Len(wire) : s[i] = IF i <= n THEN buffer[i] ELSE wire[i - n]
  BY <1>4, ConcatProperties
<1>6. n \in Nat /\ n > 0 /\ Len(wire) \in Nat /\ DOMAIN buffer = 1..n
  BY <1>1, <1>4
<1>7. Last(buffer) = buffer[n]
  BY DEF Last
<1>8. s = Incoming
  BY DEF Incoming
<1>. HIDE DEF s
<1>9. /\ DOMAIN s = 1..n + Len(wire) /\ 1 \in DOMAIN s /\ n \in DOMAIN s
      /\ s[1] = buffer[1] /\ s[n] = buffer[n]
  BY <1>5, <1>6
<1>10. \E i \in {1, n} : s[i].kind \in Endings(request.pc)
  <2>1. CASE request.pc = "dump"
    <3>1. buffer[n].kind = "END" \/ buffer[1].kind = "ERROR"
      BY <1>7, <2>1 DEF Done, DumpDone
    <3>. QED
      BY <1>9, <3>1 DEF Endings
  <2>2. CASE request.pc # "dump"
    <3>1. buffer[n].kind \in {"END", "OK", "ERROR"}
      BY <1>7, <2>2 DEF Done, LineDone
    <3>. QED
      BY <1>9, <2>2, <3>1 DEF Endings
  <2>. QED
    BY <2>1, <2>2
<1>11. \E i \in {1, n} : i = n + Len(wire)
  BY <1>3, <1>5, <1>8, <1>9, <1>10 DEF Whole
<1>12. Len(wire) = 0
  <2>. DEFINE m == Len(wire)
  <2>1. n \in Nat /\ n > 0 /\ m \in Nat /\ (1 = n + m \/ n = n + m)
    BY <1>6, <1>11
  <2>. HIDE DEF n, m
  <2>2. m = 0
    BY <2>1
  <2>. QED
    BY <2>2 DEF m
<1>13. wire = <<>>
  BY <1>4, <1>12, EmptySeq
<1>14. s = buffer
  BY <1>4, <1>13, ConcatEmptySeq, <1>8 DEF Incoming
<1>. QED
  BY <1>1, <1>2, <1>6, <1>8, <1>13, <1>14

\* A command is written, with nothing left of the reply to the one before.
LEMMA AskStep ==
    ASSUME NInv, NEW command \in Commands, Ask(command),
           wire = <<>>, ~half, changes' \in 0..MaxChanges, store' = store,
           owed' \subseteq Present, lived' \subseteq Key, request' \in Request, AsksInTurn',
           \A k \in owed' :
              /\ request'.pc = "slabs" => \/ k \in request'.listed
                                         \/ SlabOf[k] \in request'.slabs
                                         \/ command.slab = SlabOf[k]
              /\ request'.pc = "values" => k \in request'.listed,
           \A k \in owed' \cap DOMAIN request'.values : request'.values[k] = store[k],
           request'.pc \in {"dump", "items", "slabs"} => request'.values = <<>>,
           request'.pc = "values" =>
              \A k \in Range(Inspected') \cap owed' :
                 \/ k \in DOMAIN request'.values
                 \/ k \in Range(request'.left)
                 \/ k \in Range(command.keys)
    PROVE  NInv'
<1>1. asked' = command /\ command # None
  BY NoCommandAssumption DEF Ask
<1>2. wire' = <<>> /\ half' = half /\ buffer' = <<>>
  BY DEF Ask
<1>3. request'.pc \in {"dump", "items", "slabs", "values", "one"}
  BY <1>1 DEF AsksInTurn
<1>4. Present' = Present
  BY DEF Present
<1>5. NTypeOK'
  <2>1. store' \in [Key -> Kind \cup {None}] /\ half' \in BOOLEAN
    BY <1>2 DEF NInv, NTypeOK
  <2>2. wire' \in Seq(Line) /\ buffer' \in Seq(Line) /\ owed' \subseteq Key
    BY <1>2 DEF Present
  <2>. QED
    BY <1>1, <2>1, <2>2 DEF NTypeOK
<1>6. InStep'
  BY <1>1, <1>2, <1>3 DEF InStep, Awaiting
<1>7. SlabsNamed'
  BY <1>1 DEF SlabsNamed
<1>8. OwedListed'
  BY <1>1, <1>3, <1>4 DEF OwedListed
<1>9. ValuesTrue'
  BY <1>1 DEF ValuesTrue
<1>10. OwedRead'
  BY <1>1, <1>3 DEF OwedRead
<1>. QED
  BY <1>5, <1>6, <1>7, <1>8, <1>9, <1>10 DEF NInv

\* The socket is destroyed.
LEMMA ClosedStep ==
    ASSUME NInv, Closed, changes' \in 0..MaxChanges, store' = store,
           owed' \subseteq Present, lived' \subseteq Key, request' \in Request,
           request'.pc \in {"idle", "connect", "answer", "error", "mute", "told"},
           request'.pc \in {"connect", "answer"} => owed' \subseteq request'.listed,
           \A k \in owed' \cap DOMAIN request'.values : request'.values[k] = store[k],
           request'.pc \in {"idle", "connect"} => request'.values = <<>>,
           request'.pc = "connect" => request'.left = Inspected',
           request'.pc = "answer" =>
              \/ request'.values = <<>>
              \/ Range(Inspected') \cap owed' \subseteq DOMAIN request'.values,
           request'.pc = "told" =>
              Range(request'.left) \cap owed' \subseteq DOMAIN request'.values
    PROVE  NInv'
<1>1. asked' = None /\ wire' = <<>> /\ half' = FALSE /\ buffer' = <<>>
  BY DEF Closed
<1>2. Present' = Present
  BY DEF Present
<1>3. NTypeOK'
  <2>1. store' \in [Key -> Kind \cup {None}]
    BY DEF NInv, NTypeOK
  <2>2. wire' \in Seq(Line) /\ buffer' \in Seq(Line) /\ owed' \subseteq Key
    BY <1>1 DEF Present
  <2>. QED
    BY <1>1, <2>1, <2>2 DEF NTypeOK
<1>4. InStep'
  BY <1>1 DEF InStep, Awaiting
<1>5. AsksInTurn' /\ SlabsNamed'
  BY <1>1 DEF AsksInTurn, SlabsNamed
<1>6. OwedListed'
  BY <1>2 DEF OwedListed
<1>7. ValuesTrue'
  BY DEF ValuesTrue
<1>8. OwedRead'
  BY DEF OwedRead
<1>. QED
  BY <1>3, <1>4, <1>5, <1>6, <1>7, <1>8 DEF NInv

-----------------------------------------------------------------------------
(* Each action preserves the invariant.                                    *)

LEMMA NInitInv ==
    ASSUME NInit
    PROVE  NInv
<1>1. request = Idle /\ asked = None /\ wire = <<>> /\ buffer = <<>> /\ half = FALSE
      /\ owed = {} /\ lived = {} /\ changes = 0
  BY DEF NInit
<1>2. /\ request.pc = "idle" /\ request.listed = {} /\ request.slabs = {}
      /\ request.left = <<>> /\ request.values = <<>>
  BY <1>1 DEF Idle
<1>3. request \in Request
  BY <1>1, NothingRead DEF Idle, Request
<1>4. NTypeOK
  <2>1. store \in [Key -> Kind \cup {None}]
    BY DEF NInit
  <2>2. 0 \in 0..MaxChanges
    BY InspectorAssumption
  <2>3. wire \in Seq(Line) /\ buffer \in Seq(Line)
    BY <1>1
  <2>4. half \in BOOLEAN
    BY <1>1
  <2>. QED
    BY <1>1, <1>3, <2>1, <2>2, <2>3, <2>4 DEF NTypeOK
<1>5. InStep /\ AsksInTurn /\ SlabsNamed
  BY <1>1, <1>2 DEF InStep, Awaiting, AsksInTurn, SlabsNamed
<1>6. OwedListed /\ ValuesTrue /\ OwedRead
  BY <1>1, <1>2 DEF OwedListed, ValuesTrue, OwedRead
<1>. QED
  BY <1>4, <1>5, <1>6 DEF NInv

\* What a command is answered is the whole reply to come.
LEMMA ExecuteIs ==
    ASSUME NInv, Execute
    PROVE  /\ asked # None /\ asked' = None /\ Awaiting
           /\ ~half' /\ buffer' = <<>> /\ request' = request /\ changes' = changes
           /\ lived' = lived
           /\ \E reply \in Replies(asked) \cup {Refused} :
                 /\ wire' = reply
                 /\ reply \in Seq(Line) => Incoming' = reply
                 /\ owed' = owed \ LeftOut(asked, reply)
                 /\ store' = IF asked.name = "flush_all" /\ reply # Refused
                                THEN [k \in Key |-> None] ELSE store
<1>1. /\ asked # None /\ asked' = None /\ half' = half /\ buffer' = buffer
      /\ request' = request /\ changes' = changes /\ lived' = lived
  BY DEF Execute
<1>2. wire = <<>> /\ buffer = <<>> /\ ~half /\ Awaiting
  BY <1>1 DEF NInv, InStep
<1>3. PICK reply \in Replies(asked) \cup {Refused} :
         /\ wire' = wire \o reply
         /\ owed' = owed \ LeftOut(asked, reply)
         /\ store' = IF asked.name = "flush_all" /\ reply # Refused
                        THEN [k \in Key |-> None] ELSE store
  BY DEF Execute
<1>4. wire' = reply
  BY <1>2, <1>3
<1>5. reply \in Seq(Line) => Incoming' = reply
  BY <1>1, <1>2, <1>4, ConcatEmptySeq DEF Incoming
<1>. QED
  BY <1>1, <1>2, <1>3, <1>4, <1>5

LEMMA ExecuteInv ==
    ASSUME NInv, Execute
    PROVE  NInv'
<1>1. /\ asked # None /\ asked' = None /\ Awaiting
      /\ ~half' /\ buffer' = <<>> /\ request' = request /\ changes' = changes
      /\ lived' = lived
  BY ExecuteIs
<1>2. PICK reply \in Replies(asked) \cup {Refused} :
         /\ wire' = reply /\ (reply \in Seq(Line) => Incoming' = reply)
         /\ owed' = owed \ LeftOut(asked, reply)
         /\ store' = IF asked.name = "flush_all" /\ reply # Refused
                        THEN [k \in Key |-> None] ELSE store
  BY ExecuteIs
<1>4. NTypeOK /\ InStep /\ AsksInTurn /\ OwedListed /\ ValuesTrue /\ OwedRead
  BY DEF NInv
<1>5. /\ asked.name \in {"metadump", "items", "stats", "flush_all", "cachedump", "get"}
      /\ asked.name = "get" => asked.keys \in Seq(Key)
  BY <1>1, <1>4, FieldsAre
<1>6. \A k \in owed : k \in Present
  BY <1>4 DEF OwedListed
<1>3. ASSUME NEW k \in owed'
      PROVE  /\ k \in owed /\ k \in Key
             /\ (asked.name = "metadump" /\ reply # Refused) =>
                   \E i \in DOMAIN reply : Names(reply[i], "key", k)
             /\ asked.name = "items" => reply # Refused
             /\ (asked.name = "cachedump" /\ reply = Refused) => SlabOf[k] # asked.slab
             /\ (asked.name = "get" /\ reply = Refused) => k \notin Range(asked.keys)
             /\ asked.name = "flush_all" => reply = Refused
  <2>1. k \in owed /\ k \in Key /\ k \in Key \ LeftOut(asked, reply)
    BY <1>2, <1>3, <1>4 DEF NTypeOK
  <2>. QED
    BY <2>1, NotLeftOut
<1>7. owed' \subseteq owed /\ (\A k \in owed' : k \in Present' /\ store'[k] = store[k])
  <2>1. \A k \in owed' : k \in owed /\ store' = store
    BY <1>2, <1>3
  <2>. QED
    BY <1>6, <2>1 DEF Present
<1>8. reply \in Seq(Line) /\ Whole(reply, request.pc)
  <2>0. CASE reply = Refused
    BY <2>0, RefusedReply
  <2>1. CASE asked.name = "metadump" /\ reply # Refused
    BY <1>1, <1>4, <2>1, DumpReply DEF AsksInTurn
  <2>2. CASE asked.name = "items" /\ reply # Refused
    BY <1>1, <1>4, <2>2, ItemsReply DEF AsksInTurn
  <2>3. CASE asked.name = "cachedump" /\ reply # Refused
    BY <1>1, <1>4, <2>3, SlabReply DEF AsksInTurn
  <2>4. CASE asked.name = "get" /\ reply # Refused
    <3>1. request.pc # "dump"
      BY <1>1, <1>4, <2>4 DEF AsksInTurn
    <3>. QED
      BY <1>1, <1>4, <1>5, <2>4, <3>1, GetReply
  <2>5. CASE asked.name \in {"stats", "flush_all"} /\ reply # Refused
    BY <1>1, <1>4, <2>5, OtherReply DEF AsksInTurn
  <2>. QED
    BY <1>5, <2>0, <2>1, <2>2, <2>3, <2>4, <2>5
<1>9. Incoming' = reply
  BY <1>2, <1>8
<1>10. NTypeOK'
  <2>1. store' \in [Key -> Kind \cup {None}] /\ owed' \subseteq Key
    BY <1>2, <1>4, <1>7 DEF NTypeOK
  <2>2. wire' \in Seq(Line) /\ buffer' \in Seq(Line) /\ half' \in BOOLEAN
    <3>1. half' = half
      BY DEF Execute
    <3>. QED
      BY <1>1, <1>2, <1>4, <1>8, <3>1 DEF NTypeOK
  <2>. QED
    BY <1>1, <1>4, <2>1, <2>2 DEF NTypeOK
<1>11. InStep'
  <2>1. Awaiting' /\ Whole(Incoming, request.pc)'
    BY <1>1, <1>8, <1>9 DEF Awaiting, Whole
  <2>. QED
    BY <1>1, <2>1 DEF InStep
<1>12. AsksInTurn'
  BY <1>1 DEF AsksInTurn
<1>13. SlabsNamed'
  <2>. SUFFICES ASSUME request.pc = "items"
                PROVE  \A i \in DOMAIN reply :
                          reply[i].kind = "STAT" => reply[i].slab \in Slab
    BY <1>1, <1>9 DEF SlabsNamed
  <2>1. asked.name = "items"
    BY <1>1, <1>4 DEF AsksInTurn
  <2>2. CASE reply = Refused
    BY <2>2, RefusedReply
  <2>. QED
    BY <1>1, <1>4, <2>1, <2>2, ItemsReply
<1>14. OwedListed'
  <2>. SUFFICES ASSUME NEW k \in owed'
                PROVE  /\ k \in Present'
                       /\ request.pc = "dump" =>
                             \/ reply[1].kind = "ERROR"
                             \/ \E i \in DOMAIN reply : Names(reply[i], "key", k)
                       /\ request.pc = "items" =>
                             \E i \in DOMAIN reply :
                                reply[i].kind = "STAT" /\ reply[i].slab = SlabOf[k]
                       /\ request.pc = "slabs" =>
                             \/ k \in request.listed
                             \/ SlabOf[k] \in request.slabs
                             \/ \E i \in DOMAIN reply : Names(reply[i], "ITEM", k)
                       /\ request.pc \in {"connect", "values", "answer"} =>
                             k \in request.listed
    BY <1>1, <1>9 DEF OwedListed, Comes
  <2>1. k \in owed /\ k \in Present /\ k \in Present'
    BY <1>6, <1>7
  <2>2. ASSUME request.pc = "dump"
        PROVE  \/ reply[1].kind = "ERROR"
               \/ \E i \in DOMAIN reply : Names(reply[i], "key", k)
    <3>1. asked.name = "metadump"
      BY <1>1, <1>4, <2>2 DEF AsksInTurn
    <3>. QED
      BY <1>3, <3>1, RefusedReply
  <2>3. ASSUME request.pc = "items"
        PROVE  \E i \in DOMAIN reply : reply[i].kind = "STAT" /\ reply[i].slab = SlabOf[k]
    <3>1. asked.name = "items"
      BY <1>1, <1>4, <2>3 DEF AsksInTurn
    <3>2. reply \in Replies(asked)
      BY <1>3, <3>1
    <3>. QED
      BY <1>1, <1>4, <2>1, <3>1, <3>2, ItemsReply
  <2>4. ASSUME request.pc = "slabs"
        PROVE  \/ k \in request.listed
               \/ SlabOf[k] \in request.slabs
               \/ \E i \in DOMAIN reply : Names(reply[i], "ITEM", k)
    <3>1. asked.name = "cachedump"
      BY <1>1, <1>4, <2>4 DEF AsksInTurn
    <3>2. \/ k \in request.listed
          \/ SlabOf[k] \in request.slabs
          \/ SlabOf[k] = asked.slab
      BY <1>1, <1>4, <2>1, <2>4 DEF OwedListed, Comes
    <3>3. SlabOf[k] = asked.slab => \E i \in DOMAIN reply : Names(reply[i], "ITEM", k)
      <4>. SUFFICES ASSUME SlabOf[k] = asked.slab
                    PROVE  \E i \in DOMAIN reply : Names(reply[i], "ITEM", k)
        OBVIOUS
      <4>1. reply \in Replies(asked)
        BY <1>3, <3>1
      <4>. QED
        BY <1>1, <1>4, <2>1, <3>1, <4>1, SlabReply
    <3>. QED
      BY <3>2, <3>3
  <2>5. request.pc \in {"connect", "values", "answer"} => k \in request.listed
    BY <1>4, <2>1 DEF OwedListed
  <2>. QED
    BY <2>1, <2>2, <2>3, <2>4, <2>5
<1>15. ValuesTrue'
  <2>1. \A k \in owed' \cap DOMAIN request'.values : request'.values[k] = store'[k]
    BY <1>1, <1>4, <1>7 DEF ValuesTrue
  <2>2. ASSUME request.pc \in {"values", "one"}, NEW i \in DOMAIN reply,
               reply[i].kind = "VALUE"
        PROVE  /\ i + 1 \in DOMAIN reply /\ reply[i + 1].kind = "data"
               /\ reply[i].key \in owed' => reply[i + 1].holds = store'[reply[i].key]
    <3>1. asked.name \in {"get", "stats", "flush_all"}
      BY <1>1, <1>4, <2>2 DEF AsksInTurn
    <3>0. reply \in Replies(asked)
      BY <2>2, RefusedReply
    <3>2. asked.name = "get"
      BY <1>1, <1>4, <2>2, <3>0, <3>1, OtherReply
    <3>3. store' = store
      BY <1>2, <3>2
    <3>4. /\ i + 1 \in DOMAIN reply /\ reply[i + 1].kind = "data"
          /\ reply[i + 1].holds = store[reply[i].key]
      BY <1>1, <1>4, <1>5, <2>2, <3>0, <3>2, GetReply
    <3>. QED
      BY <3>3, <3>4
  <2>. QED
    BY <1>1, <1>9, <2>1, <2>2 DEF ValuesTrue
<1>16. OwedRead'
  <2>1. ASSUME asked.name = "get", NEW k \in owed', k \in Range(asked.keys)
        PROVE  \E i \in DOMAIN reply : Names(reply[i], "VALUE", k)
    <3>1. reply \in Replies(asked)
      BY <1>3, <2>1
    <3>. QED
      BY <1>1, <1>4, <1>5, <1>6, <1>7, <2>1, <3>1, GetReply
  <2>2. Range(Inspected') \cap owed' \subseteq Range(Inspected) \cap owed
    BY <1>1, <1>7 DEF Inspected
  <2>3. ASSUME request.pc = "values", NEW k \in Range(Inspected') \cap owed'
        PROVE  \/ k \in DOMAIN request.values
               \/ k \in Range(request.left)
               \/ \E i \in DOMAIN reply : Names(reply[i], "VALUE", k)
    <3>1. asked.name = "get"
      BY <1>1, <1>4, <2>3 DEF AsksInTurn
    <3>2. \/ k \in DOMAIN request.values
          \/ k \in Range(request.left)
          \/ k \in Range(asked.keys)
      BY <1>1, <1>4, <2>2, <2>3 DEF OwedRead, Comes
    <3>. QED
      BY <2>1, <3>1, <3>2
  <2>4. ASSUME request.pc = "one", NEW k \in Range(request.left) \cap owed'
        PROVE  \E i \in DOMAIN reply : Names(reply[i], "VALUE", k)
    <3>1. request.left = IF asked.name = "get" THEN asked.keys ELSE <<>>
      BY <1>1, <1>4, <2>4 DEF AsksInTurn
    <3>2. Range(<<>>) = {}
      BY DEF Range
    <3>3. asked.name = "get" /\ k \in Range(asked.keys)
      BY <2>4, <3>1, <3>2
    <3>. QED
      BY <2>1, <3>3
  <2>5. Inspected' = Inspected
    BY <1>1 DEF Inspected
  <2>6. request.pc \notin {"connect", "answer", "told", "idle"}
    BY <1>1 DEF Awaiting
  <2>7. request.pc \in {"idle", "dump", "items", "slabs", "connect"} =>
          request.values = <<>>
    BY <1>4 DEF OwedRead
  <2>. QED
    BY <1>1, <1>9, <2>3, <2>4, <2>6, <2>7 DEF OwedRead, Comes
<1>. QED
  BY <1>10, <1>11, <1>12, <1>13, <1>14, <1>15, <1>16 DEF NInv

LEMMA ChangeInv ==
    ASSUME NInv, NEW k \in Key, NEW kind \in Kind \cup {None}, Change(k, kind)
    PROVE  NInv'
<1>1. /\ asked' = asked /\ wire' = wire /\ half' = half /\ buffer' = buffer
      /\ request' = request /\ owed' = owed \ {k}
      /\ lived' = IF kind = None THEN lived ELSE lived \cup {k}
      /\ store' = [store EXCEPT ![k] = kind]
      /\ changes < MaxChanges /\ changes' = changes + 1
  BY DEF Change, socketVars
<1>2. NTypeOK /\ InStep /\ AsksInTurn /\ SlabsNamed /\ OwedListed
      /\ ValuesTrue /\ OwedRead
  BY DEF NInv
<1>3. store \in [Key -> Kind \cup {None}] /\ owed \subseteq Key /\ changes \in 0..MaxChanges
  BY <1>2 DEF NTypeOK
<1>4. \A l \in owed' : l \in owed /\ l # k /\ l \in Key /\ store'[l] = store[l]
  BY <1>1, <1>3
<1>5. \A l \in owed' : l \in Present'
  BY <1>2, <1>4 DEF OwedListed, Present
<1>6. Incoming' = Incoming /\ Inspected' = Inspected
  BY <1>1 DEF Incoming, Inspected
<1>7. NTypeOK'
  <2>1. store' \in [Key -> Kind \cup {None}] /\ owed' \subseteq Key /\ lived' \subseteq Key
    BY <1>1, <1>2, <1>3, <1>4 DEF NTypeOK
  <2>2. changes' \in 0..MaxChanges
    BY <1>1, <1>3, InspectorAssumption
  <2>. QED
    BY <1>1, <1>2, <2>1, <2>2 DEF NTypeOK
<1>8. InStep' /\ AsksInTurn' /\ SlabsNamed'
  <2>1. InStep'
    BY <1>1, <1>2, <1>6 DEF InStep, Awaiting, Whole
  <2>. QED
    BY <1>1, <1>2, <1>6, <2>1 DEF AsksInTurn, SlabsNamed
<1>9. OwedListed'
  BY <1>1, <1>2, <1>4, <1>5, <1>6 DEF OwedListed, Comes
<1>10. ValuesTrue'
  BY <1>1, <1>2, <1>4, <1>6 DEF ValuesTrue
<1>11. OwedRead'
  BY <1>1, <1>2, <1>4, <1>6 DEF OwedRead, Comes
<1>. QED
  BY <1>7, <1>8, <1>9, <1>10, <1>11 DEF NInv

LEMMA ArriveInv ==
    ASSUME NInv, NEW n \in 0..Len(wire), NEW part \in BOOLEAN, Arrive(n, part)
    PROVE  NInv'
<1>1. /\ asked' = asked /\ request' = request /\ half' = part
      /\ buffer' = buffer \o SubSeq(wire, 1, n)
      /\ wire' = SubSeq(wire, n + 1, Len(wire))
      /\ store' = store /\ changes' = changes /\ lived' = lived /\ owed' = owed
      /\ (n > 0 \/ part) /\ (part => n < Len(wire)) /\ Awaiting
  BY DEF Arrive, nodeVars
<1>2. NTypeOK /\ InStep /\ AsksInTurn /\ SlabsNamed /\ OwedListed
      /\ ValuesTrue /\ OwedRead
  BY DEF NInv
<1>3. wire \in Seq(Line) /\ buffer \in Seq(Line)
  BY <1>2 DEF NTypeOK
<1>. DEFINE a == SubSeq(wire, 1, n)
            b == SubSeq(wire, n + 1, Len(wire))
<1>4. a \in Seq(Line) /\ b \in Seq(Line) /\ a \o b = wire /\ Len(b) = Len(wire) - n
  BY <1>3, CutIs
<1>5. buffer' = buffer \o a /\ wire' = b
  BY <1>1
<1>. HIDE DEF a, b
<1>6. buffer' \in Seq(Line) /\ wire' \in Seq(Line)
  BY <1>3, <1>4, <1>5, ConcatProperties
<1>7. Incoming' = Incoming
  <2>1. \A r, s, t \in Seq(Line) : (r \o s) \o t = r \o (s \o t)
    BY ConcatAssociative
  <2>. QED
    BY <1>3, <1>4, <1>5, <2>1, Zenon DEF Incoming
<1>8. Len(wire) \in Nat /\ Len(wire) > 0
  BY <1>1, <1>3
<1>9. asked = None
  BY <1>2, <1>8 DEF InStep
<1>10. part => wire' # <<>>
  BY <1>1, <1>4, <1>5, <1>8
<1>11. Inspected' = Inspected /\ Present' = Present
  BY <1>1 DEF Inspected, Present
<1>12. NTypeOK'
  BY <1>1, <1>2, <1>6 DEF NTypeOK
<1>13. InStep'
  BY <1>1, <1>2, <1>7, <1>9, <1>10 DEF InStep, Awaiting, Whole
<1>14. AsksInTurn' /\ SlabsNamed'
  BY <1>1, <1>2, <1>7, <1>9 DEF AsksInTurn, SlabsNamed
<1>15. OwedListed'
  BY <1>1, <1>2, <1>7, <1>9, <1>11 DEF OwedListed, Comes
<1>16. ValuesTrue'
  BY <1>1, <1>2, <1>7 DEF ValuesTrue
<1>17. OwedRead'
  BY <1>1, <1>2, <1>7, <1>11 DEF OwedRead, Comes
<1>. QED
  BY <1>12, <1>13, <1>14, <1>15, <1>16, <1>17 DEF NInv

LEMMA StartInv ==
    ASSUME NInv, Start
    PROVE  NInv'
<1>. DEFINE command == [name |-> "metadump"]
<1>1. /\ request' = [Idle EXCEPT !.pc = "dump"] /\ Ask(command)
      /\ owed' = Present /\ lived' = Present /\ store' = store /\ changes' = changes
      /\ request.pc = "idle"
  BY DEF Start, Begin
<1>2. /\ request'.pc = "dump" /\ request'.values = <<>> /\ DOMAIN request'.values = {}
      /\ request' \in Request
  <2>1. /\ request' = [Idle EXCEPT !.pc = "dump"]
        /\ Idle \in [pc: {"idle", "dump"}, listed: SUBSET Key, slabs: SUBSET Slab,
                     left: Seq(Key), values: Read]
    BY <1>1, NothingRead DEF Idle
  <2>2. request'.pc = "dump" /\ request'.values = <<>>
    BY <2>1 DEF Idle
  <2>3. request' \in Request
    BY <2>1 DEF Request
  <2>. QED
    BY <2>2, <2>3, NothingRead
<1>3. command \in Commands /\ command.name = "metadump"
  BY DEF Commands
<1>. HIDE DEF command
<1>4. wire = <<>> /\ ~half
  BY <1>1 DEF NInv, InStep, Awaiting
<1>5. AsksInTurn'
  BY <1>1, <1>2, <1>3 DEF AsksInTurn, Ask
<1>6. changes' \in 0..MaxChanges /\ lived' \subseteq Key
  BY <1>1, PresentIs DEF NInv, NTypeOK
<1>. QED
  BY <1>1, <1>2, <1>3, <1>4, <1>5, <1>6, AskStep

LEMMA StartOneInv ==
    ASSUME NInv, NEW command \in Commands, StartOne(command),
           command.name \in {"get", "stats", "flush_all"}
    PROVE  NInv'
<1>. DEFINE left == IF command.name = "get" THEN command.keys ELSE <<>>
<1>1. /\ request' = [Idle EXCEPT !.pc = "one", !.left = left] /\ Ask(command)
      /\ owed' = Present /\ lived' = Present /\ store' = store /\ changes' = changes
      /\ request.pc = "idle"
  BY DEF StartOne, Begin
<1>2. left \in Seq(Key)
  BY DEF Commands
<1>3. left = IF command.name = "get" THEN command.keys ELSE <<>>
  OBVIOUS
<1>. HIDE DEF left
<1>4. /\ request'.pc = "one" /\ request'.values = <<>> /\ DOMAIN request'.values = {}
      /\ request'.left = left /\ request' \in Request
  BY <1>1, <1>2, NothingRead DEF Idle, Request
<1>5. wire = <<>> /\ ~half
  BY <1>1 DEF NInv, InStep, Awaiting
<1>6. AsksInTurn'
  BY <1>1, <1>3, <1>4 DEF AsksInTurn, Ask
<1>7. changes' \in 0..MaxChanges /\ lived' \subseteq Key
  BY <1>1, PresentIs DEF NInv, NTypeOK
<1>. QED
  BY <1>1, <1>4, <1>5, <1>6, <1>7, AskStep

LEMMA AnswerInv ==
    ASSUME NInv, Answer
    PROVE  NInv'
<1>1. /\ request.pc \in {"answer", "error", "mute", "told"} /\ request' = Idle
      /\ changes' = 0 /\ lived' = {} /\ owed' = {} /\ store' = store
      /\ asked' = asked /\ wire' = wire /\ half' = half /\ buffer' = buffer
  BY DEF Answer, socketVars
<1>2. asked = None /\ wire = <<>> /\ ~half /\ buffer = <<>>
  BY <1>1 DEF NInv, InStep, Awaiting
<1>3. half \in BOOLEAN
  BY DEF NInv, NTypeOK
<1>4. Closed
  BY <1>1, <1>2, <1>3 DEF Closed
<1>5. /\ request'.pc = "idle" /\ request'.values = <<>> /\ request' \in Request
  BY <1>1, NothingRead DEF Idle, Request
<1>6. changes' \in 0..MaxChanges
  BY <1>1, InspectorAssumption
<1>. QED
  BY <1>1, <1>4, <1>5, <1>6, ClosedStep

\* Every key that is owed has been listed.
LEMMA ListedInv ==
    ASSUME NInv, NEW keys \in SUBSET Key, Listed(keys), UNCHANGED nodeVars,
           owed \subseteq keys, request.values = <<>>
    PROVE  NInv'
<1>. DEFINE order == SetToSeq(keys)
            n == Min({Cardinality(keys), MaxValues})
            left == SubSeq(order, 1, n)
            pc == IF left = <<>> THEN "answer" ELSE "connect"
<1>1. /\ request' = [request EXCEPT !.pc = pc, !.listed = keys, !.left = left]
      /\ Closed
  BY DEF Listed
<1>2. left \in Seq(Key)
  <2>. HIDE DEF order
  <2>1. order \in Seq(Key) /\ Len(order) = Cardinality(keys)
    <3>1. order \in Seq(keys) /\ Len(order) = Cardinality(keys)
      BY KeysFinite, SetToSeqIs DEF order
    <3>. QED
      BY <3>1
  <2>2. Cardinality(keys) \in Nat /\ MaxValues \in Nat
    BY KeysFinite, FS_CardinalityType, InspectorAssumption
  <2>3. n \in 0..Len(order)
    BY <2>1, <2>2, MinIs
  <2>. HIDE DEF n
  <2>. QED
    BY <2>1, <2>3, CutIs
<1>3. pc \in {"answer", "connect"}
  OBVIOUS
<1>. HIDE DEF left, pc
<1>4. request \in Request
  BY DEF NInv, NTypeOK
<1>5. /\ request' \in Request /\ request'.pc = pc /\ request'.listed = keys
      /\ request'.left = left /\ request'.values = <<>>
  BY <1>1, <1>2, <1>3, <1>4 DEF Request
<1>6. Inspected' = left
  BY <1>5 DEF Inspected, left
<1>7. store' = store /\ lived' = lived /\ owed' = owed /\ changes' = changes
  BY DEF nodeVars
<1>8. owed \subseteq Present /\ changes \in 0..MaxChanges /\ lived \subseteq Key
  BY DEF NInv, NTypeOK, OwedListed
<1>9. \A k \in owed' \cap DOMAIN request'.values : request'.values[k] = store[k]
  BY <1>5, NothingRead
<1>. QED
  BY <1>1, <1>3, <1>5, <1>6, <1>7, <1>8, <1>9, ClosedStep

\* The lines of a dump name its keys.
LEMMA NamedIs ==
    ASSUME NTypeOK, NEW kind \in {"key", "ITEM"}
    PROVE  /\ Named(kind) \in SUBSET Key
           /\ \A k : Incoming = buffer /\ Comes(kind, k) => k \in Named(kind)
<1>1. buffer \in Seq(Line)
  BY DEF NTypeOK
<1>2. ASSUME NEW i \in DOMAIN buffer, buffer[i].kind = kind
      PROVE  buffer[i].key \in Key
  BY <1>1, <1>2 DEF Line
<1>3. Named(kind) \in SUBSET Key
  BY <1>2 DEF Named
<1>4. ASSUME NEW k, Incoming = buffer, Comes(kind, k)
      PROVE  k \in Named(kind)
  BY <1>4 DEF Named, Comes, Names
<1>. QED
  BY <1>3, <1>4

LEMMA TakeDumpInv ==
    ASSUME NInv, TakeDump
    PROVE  NInv'
<1>1. /\ request.pc = "dump" /\ Done /\ buffer[1].kind # "ERROR"
      /\ Listed(Named("key")) /\ UNCHANGED nodeVars
  BY DEF TakeDump
<1>2. asked = None /\ Incoming = buffer
  BY <1>1, DoneIs DEF NInv, Awaiting
<1>3. \A k \in owed : Comes("key", k)
  BY <1>1, <1>2 DEF NInv, OwedListed
<1>4. Named("key") \in SUBSET Key /\ owed \subseteq Named("key")
  BY <1>2, <1>3, NamedIs DEF NInv
<1>5. request.values = <<>>
  BY <1>1 DEF NInv, OwedRead
<1>. HIDE DEF Named
<1>. QED
  BY <1>1, <1>4, <1>5, ListedInv

LEMMA FallBackInv ==
    ASSUME NInv, FallBack
    PROVE  NInv'
<1>. DEFINE command == [name |-> "items"]
<1>1. /\ request.pc = "dump" /\ Done /\ Ask(command)
      /\ request' = [request EXCEPT !.pc = "items"]
      /\ store' = store /\ lived' = lived /\ owed' = owed /\ changes' = changes
  BY DEF FallBack, nodeVars
<1>2. wire = <<>> /\ ~half
  BY <1>1, DoneIs DEF NInv, Awaiting
<1>3. request.values = <<>> /\ owed \subseteq Present
  BY <1>1 DEF NInv, OwedRead, OwedListed
<1>4. request \in Request /\ changes \in 0..MaxChanges /\ lived \subseteq Key
  BY DEF NInv, NTypeOK
<1>5. request' \in Request /\ request'.pc = "items" /\ request'.values = <<>>
  BY <1>1, <1>3, <1>4 DEF Request
<1>6. command \in Commands /\ command.name = "items"
  BY DEF Commands
<1>. HIDE DEF command
<1>7. AsksInTurn'
  BY <1>1, <1>5, <1>6 DEF AsksInTurn, Ask
<1>8. \A k \in owed' \cap DOMAIN request'.values : request'.values[k] = store[k]
  BY <1>5, NothingRead
<1>. QED
  BY <1>1, <1>2, <1>3, <1>4, <1>5, <1>6, <1>7, <1>8, AskStep

\* Every key that is owed is listed or in a slab to be asked for.
LEMMA NextSlabInv ==
    ASSUME NInv, Awaiting, Done, request.values = <<>>, UNCHANGED nodeVars,
           NEW slabs \in SUBSET Slab, NEW listed \in SUBSET Key, NextSlab(slabs, listed),
           \A k \in owed : k \in listed \/ SlabOf[k] \in slabs
    PROVE  NInv'
<1>1. CASE slabs = {} /\ Listed(listed)
  BY <1>1, ListedInv
<1>2. ASSUME NEW slab \in slabs, Ask([name |-> "cachedump", slab |-> slab]),
             request' = [request EXCEPT !.pc = "slabs", !.slabs = slabs \ {slab},
                                        !.listed = listed]
      PROVE  NInv'
  <2>. DEFINE command == [name |-> "cachedump", slab |-> slab]
              rest == slabs \ {slab}
  <2>1. wire = <<>> /\ ~half
    BY DoneIs DEF NInv
  <2>2. store' = store /\ lived' = lived /\ owed' = owed /\ changes' = changes
    BY DEF nodeVars
  <2>3. request \in Request /\ changes \in 0..MaxChanges /\ lived \subseteq Key /\ owed \subseteq Present
    BY DEF NInv, NTypeOK, OwedListed
  <2>4. rest \in SUBSET Slab
    OBVIOUS
  <2>5. \A k \in owed : k \in listed \/ SlabOf[k] \in rest \/ slab = SlabOf[k]
    OBVIOUS
  <2>6. command \in Commands /\ command.name = "cachedump" /\ command.slab = slab
    BY DEF Commands
  <2>7. Ask(command)
    BY <1>2
  <2>8. request' = [request EXCEPT !.pc = "slabs", !.slabs = rest, !.listed = listed]
    BY <1>2
  <2>. HIDE DEF command, rest
  <2>9. /\ request' \in Request /\ request'.pc = "slabs" /\ request'.values = <<>>
        /\ request'.slabs = rest /\ request'.listed = listed
    BY <2>3, <2>4, <2>8 DEF Request
  <2>10. AsksInTurn'
    BY <2>6, <2>7, <2>9 DEF AsksInTurn, Ask
  <2>11. \A k \in owed' \cap DOMAIN request'.values : request'.values[k] = store[k]
    BY <2>9, NothingRead
  <2>12. \A k \in owed' : \/ k \in request'.listed
                            \/ SlabOf[k] \in request'.slabs
                            \/ command.slab = SlabOf[k]
    BY <2>2, <2>5, <2>6, <2>9
  <2>. QED
    BY <2>1, <2>2, <2>3, <2>6, <2>7, <2>9, <2>10, <2>11, <2>12, AskStep
<1>. QED
  BY <1>1, <1>2 DEF NextSlab

LEMMA TakeItemsInv ==
    ASSUME NInv, TakeItems
    PROVE  NInv'
<1>. DEFINE slabs == {buffer[i].slab : i \in {j \in DOMAIN buffer : buffer[j].kind = "STAT"}}
<1>1. /\ request.pc = "items" /\ Done /\ NextSlab(slabs, {}) /\ UNCHANGED nodeVars
  BY DEF TakeItems
<1>2. Awaiting
  BY <1>1 DEF Awaiting
<1>3. asked = None /\ Incoming = buffer
  BY <1>1, <1>2, DoneIs DEF NInv
<1>4. \A i \in DOMAIN buffer : buffer[i].kind = "STAT" => buffer[i].slab \in Slab
  BY <1>1, <1>3 DEF NInv, SlabsNamed
<1>5. slabs \in SUBSET Slab
  BY <1>4
<1>6. \A k \in owed : \E i \in DOMAIN buffer :
         buffer[i].kind = "STAT" /\ buffer[i].slab = SlabOf[k]
  BY <1>1, <1>3 DEF NInv, OwedListed
<1>7. \A k \in owed : SlabOf[k] \in slabs
  BY <1>6
<1>8. request.values = <<>>
  BY <1>1 DEF NInv, OwedRead
<1>. HIDE DEF slabs
<1>. QED
  BY <1>1, <1>2, <1>5, <1>7, <1>8, NextSlabInv

LEMMA TakeSlabInv ==
    ASSUME NInv, TakeSlab
    PROVE  NInv'
<1>. DEFINE listed == request.listed \cup Named("ITEM")
<1>1. /\ request.pc = "slabs" /\ Done /\ NextSlab(request.slabs, listed)
      /\ UNCHANGED nodeVars
  BY DEF TakeSlab
<1>2. Awaiting
  BY <1>1 DEF Awaiting
<1>3. asked = None /\ Incoming = buffer
  BY <1>1, <1>2, DoneIs DEF NInv
<1>4. request.slabs \in SUBSET Slab /\ listed \in SUBSET Key
  BY FieldsAre, NamedIs DEF NInv
<1>5. \A k \in owed : k \in listed \/ SlabOf[k] \in request.slabs
  <2>. SUFFICES ASSUME NEW k \in owed
                PROVE  k \in listed \/ SlabOf[k] \in request.slabs
    OBVIOUS
  <2>1. k \in request.listed \/ SlabOf[k] \in request.slabs \/ Comes("ITEM", k)
    BY <1>1, <1>3 DEF NInv, OwedListed
  <2>2. Comes("ITEM", k) => k \in Named("ITEM")
    BY <1>3, NamedIs DEF NInv
  <2>. QED
    BY <2>1, <2>2
<1>6. request.values = <<>>
  BY <1>1 DEF NInv, OwedRead
<1>. HIDE DEF listed
<1>. QED
  BY <1>1, <1>2, <1>4, <1>5, <1>6, NextSlabInv

\* What the keys of a batch are, the rest is left for the next.
LEMMA AskBatchInv ==
    ASSUME NInv, wire = <<>>, ~half, UNCHANGED nodeVars,
           NEW left \in Seq(Key), NEW values \in Read, AskBatch(left, values),
           owed \subseteq request.listed,
           \A k \in owed \cap DOMAIN values : values[k] = store[k],
           \A k \in Range(Inspected) \cap owed : k \in DOMAIN values \/ k \in Range(left)
    PROVE  NInv'
<1>. DEFINE n == Min({Batch, Len(left)})
            keys == SubSeq(left, 1, n)
            rest == SubSeq(left, n + 1, Len(left))
            command == [name |-> "get", keys |-> keys]
<1>1. /\ request' = [request EXCEPT !.pc = "values", !.values = values, !.left = rest]
      /\ Ask(command)
  BY DEF AskBatch
<1>2. n \in 0..Len(left)
  <2>1. Len(left) \in Nat /\ Batch \in Nat
    BY InspectorAssumption
  <2>. QED
    BY <2>1, MinIs
<1>. HIDE DEF n
<1>3. /\ keys \in Seq(Key) /\ rest \in Seq(Key)
      /\ \A k \in Range(left) : k \in Range(keys) \/ k \in Range(rest)
  BY <1>2, CutIs
<1>. HIDE DEF keys, rest
<1>4. command \in Commands /\ command.name = "get" /\ command.keys = keys
  BY <1>3 DEF Commands
<1>. HIDE DEF command
<1>5. request \in Request /\ changes \in 0..MaxChanges /\ lived \subseteq Key /\ owed \subseteq Present
  BY DEF NInv, NTypeOK, OwedListed
<1>6. /\ request' \in Request /\ request'.pc = "values" /\ request'.values = values
      /\ request'.left = rest /\ request'.listed = request.listed
  BY <1>1, <1>3, <1>5 DEF Request
<1>7. AsksInTurn'
  BY <1>1, <1>4, <1>6 DEF AsksInTurn, Ask
<1>8. store' = store /\ lived' = lived /\ owed' = owed /\ changes' = changes
  BY DEF nodeVars
<1>9. Inspected' = Inspected
  BY <1>6 DEF Inspected
<1>10. \A k \in Range(Inspected') \cap owed' :
          \/ k \in DOMAIN request'.values
          \/ k \in Range(request'.left)
          \/ k \in Range(command.keys)
  BY <1>3, <1>4, <1>6, <1>8, <1>9
<1>11. \A k \in owed' \cap DOMAIN request'.values : request'.values[k] = store[k]
  BY <1>6, <1>8
<1>. QED
  BY <1>1, <1>4, <1>5, <1>6, <1>7, <1>8, <1>10, <1>11, AskStep

LEMMA ConnectInv ==
    ASSUME NInv, Connect
    PROVE  NInv'
<1>1. request.pc = "connect" /\ AskBatch(request.left, <<>>) /\ UNCHANGED nodeVars
  BY DEF Connect
<1>2. wire = <<>> /\ ~half
  BY <1>1 DEF NInv, InStep, Awaiting
<1>3. request.left \in Seq(Key) /\ owed \subseteq request.listed
  BY <1>1, FieldsAre DEF NInv, OwedListed
<1>4. request.left = Inspected
  BY <1>1 DEF NInv, OwedRead
<1>5. <<>> \in Read /\ DOMAIN <<>> = {}
  BY NothingRead
<1>6. \A k \in Range(Inspected) \cap owed : k \in Range(request.left)
  BY <1>4
<1>7. \E none \in Read : DOMAIN none = {} /\ AskBatch(request.left, none)
  BY <1>1, <1>5
<1>. QED
  BY <1>1, <1>2, <1>3, <1>6, <1>7, AskBatchInv

\* What a reply to get has brought, once it is read.
LEMMA ReadIs ==
    ASSUME NInv, request.pc \in {"values", "one"}, Done
    PROVE  /\ Pairs \in Read
           /\ \A k \in owed \cap DOMAIN Pairs : Pairs[k] = store[k]
           /\ \A k : Comes("VALUE", k) => k \in DOMAIN Pairs
           /\ asked = None /\ wire = <<>> /\ ~half
<1>1. asked = None /\ wire = <<>> /\ ~half /\ Incoming = buffer
  BY DoneIs DEF NInv, Awaiting
<1>2. \A i \in DOMAIN buffer : buffer[i].kind = "VALUE" =>
         /\ i + 1 \in DOMAIN buffer
         /\ buffer[i + 1].kind = "data"
         /\ buffer[i].key \in owed => buffer[i + 1].holds = store[buffer[i].key]
  BY <1>1 DEF NInv, ValuesTrue
<1>3. buffer \in Seq(Line)
  BY DEF NInv, NTypeOK
<1>4. /\ Pairs \in Read
      /\ \A k \in DOMAIN Pairs : \E i \in DOMAIN buffer :
            Names(buffer[i], "VALUE", k) /\ Pairs[k] = buffer[i + 1].holds
      /\ \A i \in DOMAIN buffer : buffer[i].kind = "VALUE" => buffer[i].key \in DOMAIN Pairs
  BY <1>2, <1>3, PairsIs
<1>5. \A k \in owed \cap DOMAIN Pairs : Pairs[k] = store[k]
  BY <1>2, <1>4 DEF Names
<1>6. \A k : Comes("VALUE", k) => k \in DOMAIN Pairs
  BY <1>1, <1>4 DEF Comes, Names
<1>. QED
  BY <1>1, <1>4, <1>5, <1>6

LEMMA TakeValuesInv ==
    ASSUME NInv, TakeValues
    PROVE  NInv'
<1>. DEFINE values == Set(request.values, Pairs)
<1>1. request.pc = "values" /\ Done /\ UNCHANGED nodeVars
  BY DEF TakeValues
<1>2. /\ Pairs \in Read
      /\ \A k \in owed \cap DOMAIN Pairs : Pairs[k] = store[k]
      /\ \A k : Comes("VALUE", k) => k \in DOMAIN Pairs
      /\ asked = None /\ wire = <<>> /\ ~half
  BY <1>1, ReadIs
<1>3. request.values \in Read /\ request.left \in Seq(Key)
  BY FieldsAre DEF NInv
<1>4. /\ values \in Read /\ DOMAIN values = DOMAIN request.values \cup DOMAIN Pairs
      /\ \A k \in DOMAIN values :
            \/ k \in DOMAIN Pairs /\ values[k] = Pairs[k]
            \/ k \in DOMAIN request.values /\ values[k] = request.values[k]
  BY <1>2, <1>3, SetIs
<1>. HIDE DEF values
<1>5. \A k \in owed \cap DOMAIN request.values : request.values[k] = store[k]
  BY DEF NInv, ValuesTrue
<1>6. \A k \in owed \cap DOMAIN values : values[k] = store[k]
  BY <1>2, <1>4, <1>5
<1>7. owed \subseteq request.listed /\ owed \subseteq Present
  BY <1>1 DEF NInv, OwedListed
<1>8. \A k \in Range(Inspected) \cap owed : k \in DOMAIN values \/ k \in Range(request.left)
  <2>1. \A k \in Range(Inspected) \cap owed :
           \/ k \in DOMAIN request.values \/ k \in Range(request.left) \/ Comes("VALUE", k)
    BY <1>1, <1>2 DEF NInv, OwedRead
  <2>. QED
    BY <1>2, <1>4, <2>1
<1>9. ASSUME request.left = <<>>, Closed,
             request' = [request EXCEPT !.pc = "answer", !.values = values]
      PROVE  NInv'
  <2>1. request \in Request /\ changes \in 0..MaxChanges /\ lived \subseteq Key
    BY DEF NInv, NTypeOK
  <2>2. /\ request' \in Request /\ request'.pc = "answer" /\ request'.values = values
        /\ request'.listed = request.listed
    BY <1>4, <1>9, <2>1 DEF Request
  <2>3. Range(<<>>) = {}
    BY DEF Range
  <2>4. Range(Inspected) \cap owed \subseteq DOMAIN values
    BY <1>8, <1>9, <2>3
  <2>5. Inspected' = Inspected
    BY <2>2 DEF Inspected
  <2>6. store' = store /\ lived' = lived /\ owed' = owed /\ changes' = changes
    BY <1>1 DEF nodeVars
  <2>7. /\ Range(Inspected') \cap owed' \subseteq DOMAIN request'.values
        /\ \A k \in owed' \cap DOMAIN request'.values : request'.values[k] = store[k]
        /\ owed' \subseteq request'.listed
    BY <1>6, <1>7, <2>2, <2>4, <2>5, <2>6
  <2>. QED
    BY <1>7, <1>9, <2>1, <2>2, <2>6, <2>7, ClosedStep
<1>10. ASSUME AskBatch(request.left, values)
       PROVE  NInv'
  BY <1>1, <1>2, <1>3, <1>4, <1>6, <1>7, <1>8, <1>10, AskBatchInv
<1>. QED
  BY <1>9, <1>10 DEF TakeValues, values

LEMMA FailsInv ==
    ASSUME NInv, ListingFails \/ ConnectFails \/ ValuesFail
    PROVE  NInv'
<1>1. Closed /\ store' = store /\ lived' = lived /\ owed' = owed /\ changes' = changes
  BY DEF ListingFails, ConnectFails, ValuesFail, nodeVars
<1>2. request \in Request /\ changes \in 0..MaxChanges /\ lived \subseteq Key /\ owed \subseteq Present
  BY DEF NInv, NTypeOK, OwedListed
<1>3. CASE ListingFails \/ ConnectFails
  <2>1. \E pc \in {"error", "mute"} : request' = [Idle EXCEPT !.pc = pc]
    BY <1>3 DEF ListingFails, ConnectFails
  <2>2. request'.pc \in {"error", "mute"} /\ request'.values = <<>>
    BY <2>1 DEF Idle
  <2>3. request' \in Request
    <3>1. Idle \in [pc: {"idle", "error", "mute"}, listed: SUBSET Key, slabs: SUBSET Slab,
                   left: Seq(Key), values: Read]
      BY NothingRead DEF Idle
    <3>. QED
      BY <2>1, <3>1 DEF Request
  <2>4. DOMAIN request'.values = {}
    BY <2>2, NothingRead
  <2>. QED
    BY <1>1, <1>2, <2>2, <2>3, <2>4, ClosedStep
<1>4. CASE ValuesFail
  <2>1. /\ request.pc \in {"connect", "values"}
        /\ request' = [request EXCEPT !.pc = "answer", !.values = <<>>, !.left = <<>>]
    BY <1>4 DEF ValuesFail
  <2>2. /\ request' \in Request /\ request'.pc = "answer" /\ request'.values = <<>>
        /\ request'.listed = request.listed
    <3>. DEFINE none == <<>>
    <3>1. /\ request' = [request EXCEPT !.pc = "answer", !.values = none, !.left = none]
          /\ none \in Seq(Key) /\ none \in Read
      BY <2>1, NothingRead
    <3>. HIDE DEF none
    <3>2. /\ request' \in Request /\ request'.pc = "answer" /\ request'.values = none
          /\ request'.listed = request.listed
      BY <1>2, <3>1 DEF Request
    <3>. QED
      BY <3>2 DEF none
  <2>3. DOMAIN request'.values = {}
    BY <2>2, NothingRead
  <2>4. owed \subseteq request.listed
    BY <2>1 DEF NInv, OwedListed
  <2>. QED
    BY <1>1, <1>2, <2>2, <2>3, <2>4, ClosedStep
<1>. QED
  BY <1>3, <1>4

LEMMA TakeOneInv ==
    ASSUME NInv, TakeOne
    PROVE  NInv'
<1>. DEFINE empty == [k \in Range(request.left) |-> "other"]
            values == IF buffer[1].kind = "ERROR" THEN empty ELSE Pairs
<1>1. /\ request.pc = "one" /\ Done /\ Closed
      /\ request' = [request EXCEPT !.pc = "told", !.values = values]
      /\ store' = store /\ lived' = lived /\ owed' = owed /\ changes' = changes
  BY DEF TakeOne, nodeVars
<1>2. /\ Pairs \in Read
      /\ \A k \in owed \cap DOMAIN Pairs : Pairs[k] = store[k]
      /\ \A k : Comes("VALUE", k) => k \in DOMAIN Pairs
      /\ asked = None
  BY <1>1, ReadIs
<1>3. request \in Request /\ changes \in 0..MaxChanges /\ lived \subseteq Key /\ owed \subseteq Present
  BY DEF NInv, NTypeOK, OwedListed
<1>5. \A k \in Range(request.left) \cap owed : Comes("VALUE", k)
  BY <1>1, <1>2 DEF NInv, OwedRead
<1>6. \A k \in Range(request.left) \cap owed : buffer[1].kind # "ERROR"
  <2>. SUFFICES ASSUME NEW k \in Range(request.left) \cap owed, buffer[1].kind = "ERROR"
                PROVE  FALSE
    OBVIOUS
  <2>1. Incoming = buffer /\ 1 \in DOMAIN buffer /\ Whole(buffer, request.pc)
    BY <1>1, <1>2, DoneIs DEF NInv, InStep, Awaiting
  <2>2. 1 = Len(buffer)
    BY <2>1 DEF Whole, Endings
  <2>3. PICK i \in DOMAIN buffer : buffer[i].kind = "VALUE"
    BY <1>5, <2>1 DEF Comes, Names
  <2>4. buffer \in Seq(Line)
    BY DEF NInv, NTypeOK
  <2>5. i = 1
    BY <2>2, <2>3, <2>4
  <2>. QED
    BY <2>3, <2>5
<1>7. values \in Read
  <2>1. empty \in Read
    <3>1. Range(request.left) \in SUBSET Key
      BY FieldsAre DEF NInv, Range
    <3>2. empty \in [Range(request.left) -> Kind]
      BY InspectorAssumption
    <3>. HIDE DEF empty
    <3>. QED
      BY <3>1, <3>2 DEF Read
  <2>. HIDE DEF empty
  <2>. QED
    BY <1>2, <2>1
<1>8. \A k \in Range(request.left) \cap owed : k \in DOMAIN values
  BY <1>2, <1>5, <1>6
<1>9. ASSUME NEW k \in owed \cap DOMAIN values
      PROVE  values[k] = store[k]
  <2>1. CASE buffer[1].kind = "ERROR"
    <3>1. k \in Range(request.left) \cap owed
      BY <1>9, <2>1
    <3>. QED
      BY <1>6, <2>1, <3>1
  <2>2. CASE buffer[1].kind # "ERROR"
    BY <1>2, <1>9, <2>2
  <2>. QED
    BY <2>1, <2>2
<1>. HIDE DEF values, empty
<1>10. /\ request' \in Request /\ request'.pc = "told" /\ request'.values = values
       /\ request'.left = request.left
  BY <1>1, <1>3, <1>7 DEF Request
<1>11. Range(request'.left) \cap owed' \subseteq DOMAIN request'.values
  BY <1>1, <1>8, <1>10
<1>12. \A k \in owed' \cap DOMAIN request'.values : request'.values[k] = store[k]
  BY <1>1, <1>9, <1>10
<1>. QED
  BY <1>1, <1>3, <1>10, <1>11, <1>12, ClosedStep

-----------------------------------------------------------------------------
(* The theorems.                                                           *)

LEMMA NNextInv ==
    ASSUME NInv, [NNext]_nvars
    PROVE  NInv'
<1>1. CASE Execute
  BY <1>1, ExecuteInv
<1>2. CASE \E k \in Key, kind \in Kind \cup {None} : Change(k, kind)
  BY <1>2, ChangeInv
<1>3. CASE \E n \in 0..Len(wire), part \in BOOLEAN : Arrive(n, part)
  BY <1>3, ArriveInv
<1>4. CASE InspectStats
  <2>1. [name |-> "stats"] \in Commands
    BY DEF Commands
  <2>. QED
    BY <1>4, <2>1, StartOneInv DEF InspectStats
<1>5. CASE FlushAll
  <2>1. [name |-> "flush_all"] \in Commands
    BY DEF Commands
  <2>. QED
    BY <1>5, <2>1, StartOneInv DEF FlushAll
<1>6. CASE \E k \in Key : InspectGet(k)
  <2>1. PICK k \in Key : InspectGet(k)
    BY <1>6
  <2>. DEFINE keys == <<k>>
  <2>2. keys \in Seq(Key)
    OBVIOUS
  <2>. HIDE DEF keys
  <2>3. [name |-> "get", keys |-> keys] \in Commands
    BY <2>2 DEF Commands
  <2>4. StartOne([name |-> "get", keys |-> keys])
    BY <2>1 DEF InspectGet, keys
  <2>. QED
    BY <2>3, <2>4, StartOneInv
<1>7. CASE Start \/ TakeOne \/ Answer
  BY <1>7, StartInv, TakeOneInv, AnswerInv
<1>8. CASE TakeDump \/ FallBack \/ TakeItems \/ TakeSlab
  BY <1>8, TakeDumpInv, FallBackInv, TakeItemsInv, TakeSlabInv
<1>9. CASE Connect \/ TakeValues \/ ListingFails \/ ConnectFails \/ ValuesFail
  BY <1>9, ConnectInv, TakeValuesInv, FailsInv
<1>10. CASE UNCHANGED nvars
  <2>1. /\ store' = store /\ changes' = changes /\ lived' = lived /\ owed' = owed
        /\ asked' = asked /\ wire' = wire /\ half' = half /\ buffer' = buffer
        /\ request' = request
    BY <1>10 DEF nvars, nodeVars, socketVars
  <2>2. NTypeOK' /\ InStep' /\ AsksInTurn' /\ SlabsNamed'
    BY <2>1 DEF NInv, NTypeOK, InStep, Awaiting, Whole, Incoming, AsksInTurn, SlabsNamed
  <2>3. OwedListed'
    BY <2>1 DEF NInv, OwedListed, Comes, Incoming, Present
  <2>4. ValuesTrue' /\ OwedRead'
    BY <2>1 DEF NInv, ValuesTrue, OwedRead, Comes, Incoming, Inspected
  <2>. QED
    BY <2>2, <2>3, <2>4 DEF NInv
<1>. QED
  BY <1>1, <1>2, <1>3, <1>4, <1>5, <1>6, <1>7, <1>8, <1>9, <1>10 DEF NNext

\* What the invariant is for.
LEMMA NInvShows ==
    ASSUME NInv
    PROVE  RepliesInStep /\ ListsAllOwed /\ ShowsOwedKinds
<1>1. RepliesInStep
  BY DEF NInv, InStep, RepliesInStep
<1>2. ListsAllOwed
  BY DEF NInv, OwedListed, ListsAllOwed
<1>3. ShowsOwedKinds
  <2>1. ASSUME request.pc = "answer", request.values # <<>>,
               NEW k \in Range(Inspected) \cap owed
        PROVE  Shown(k) = store[k]
    <3>1. k \in DOMAIN request.values
      BY <2>1 DEF NInv, OwedRead
    <3>. QED
      BY <2>1, <3>1 DEF NInv, ValuesTrue, Shown
  <2>2. ASSUME request.pc = "told", NEW k \in Range(request.left) \cap owed
        PROVE  k \in DOMAIN request.values /\ request.values[k] = store[k]
    <3>1. k \in DOMAIN request.values
      BY <2>2 DEF NInv, OwedRead
    <3>. QED
      BY <2>2, <3>1 DEF NInv, ValuesTrue
  <2>. QED
    BY <2>1, <2>2 DEF ShowsOwedKinds
<1>. QED
  BY <1>1, <1>2, <1>3

(***************************************************************************)
(* Replies are read whole and a key that is there throughout, and that no  *)
(* reply has left out, is lost neither between the listing's commands nor  *)
(* between the batches, however the replies are cut and whichever of them  *)
(* are refusals (memcached-inspector.ts).                                  *)
(***************************************************************************)
THEOREM InspectorInvariant == NSpec => []NInv
<1>1. NInit => NInv
  BY NInitInv
<1>2. NInv /\ [NNext]_nvars => NInv'
  BY NNextInv
<1>. QED
  BY <1>1, <1>2, PTL DEF NSpec

\* The panel adds nothing to what the server does with a request.
LEMMA PanelSteps ==
    [PNext]_pvars => [NNext]_nvars
<1>1. ASSUME Refresh \/ FetchFails \/ UNCHANGED pvars
      PROVE  UNCHANGED nvars
  BY <1>1 DEF Refresh, FetchFails, pvars
<1>2. ASSUME Reach \/ Receive \/ Discard \/ Serve \/ Around
      PROVE  NNext
  BY <1>2 DEF Reach, Receive, Discard, Serve, Around, NNext
<1>. QED
  BY <1>1, <1>2 DEF PNext

LEMMA PInvHolds ==
    /\ PInit => PInv
    /\ PInv /\ [PNext]_pvars => PInv'
<1>1. ASSUME PInit
      PROVE  PInv
  <2>1. NInit /\ fetch = "sent" /\ shown = "nothing"
    BY <1>1 DEF PInit
  <2>2. NInv
    BY <2>1, NInitInv
  <2>. QED
    BY <2>1, <2>2 DEF PInv, PTypeOK, FetchServed, NInv
<1>2. ASSUME PInv, [PNext]_pvars
      PROVE  PInv'
  <2>1. NInv'
    BY <1>2, PanelSteps, NNextInv DEF PInv
  <2>2. PTypeOK'
    <3>1. fetch' \in {"none", "sent", "served"}
      BY <1>2 DEF PInv, PTypeOK, PNext, pvars, Refresh, Reach, Receive, FetchFails,
                  Discard, Serve, Around, panelVars
    <3>2. shown' \in {"nothing", "keys", "cold", "unreachable"}
      <4>1. Rendered \in {"keys", "cold", "unreachable"}
        BY DEF Rendered
      <4>. QED
        BY <1>2, <4>1 DEF PInv, PTypeOK, PNext, pvars, Refresh, Reach, Receive,
                          FetchFails, Discard, Serve, Around, panelVars
    <3>. QED
      BY <2>1, <3>1, <3>2 DEF PTypeOK, NInv
  <2>3. FetchServed'
    <3>. SUFFICES ASSUME fetch' = "served"
                  PROVE  request'.pc \notin {"idle", "one", "told"}
      BY DEF FetchServed
    <3>1. CASE Refresh \/ Receive \/ FetchFails \/ Discard
      BY <3>1 DEF Refresh, Receive, FetchFails, Discard, panelVars
    <3>2. CASE Reach
      BY <3>2 DEF Reach, Start, Idle
    <3>3. CASE Serve
      <4>1. fetch' = fetch /\ request.pc \notin {"idle", "one", "told"}
        BY <1>2, <3>3 DEF PInv, FetchServed, Serve, panelVars
      <4>2. request' \in Request /\ request \in Request
        BY <1>2, <2>1 DEF PInv, NInv, NTypeOK
      <4>3. ASSUME NEW keys, Listed(keys)
            PROVE  request'.pc \in {"answer", "connect"}
        <5>. DEFINE pc == IF SubSeq(SetToSeq(keys), 1, Min({Cardinality(keys), MaxValues})) = <<>>
                            THEN "answer" ELSE "connect"
                    left == SubSeq(SetToSeq(keys), 1, Min({Cardinality(keys), MaxValues}))
        <5>1. request' = [request EXCEPT !.pc = pc, !.listed = keys, !.left = left]
          BY <4>3 DEF Listed
        <5>2. pc \in {"answer", "connect"}
          OBVIOUS
        <5>. HIDE DEF pc, left
        <5>3. request'.pc = pc
          BY <4>2, <5>1 DEF Request
        <5>. QED
          BY <5>2, <5>3
      <4>4. ASSUME NEW left, NEW values, AskBatch(left, values)
            PROVE  request'.pc = "values"
        BY <4>2, <4>4 DEF AskBatch, Request
      <4>5. CASE TakeDump
        BY <4>3, <4>5 DEF TakeDump
      <4>6. CASE FallBack
        BY <4>2, <4>6 DEF FallBack, Request
      <4>7. CASE TakeItems \/ TakeSlab
        <5>1. PICK slabs, listed : NextSlab(slabs, listed)
          BY <4>7 DEF TakeItems, TakeSlab
        <5>. QED
          BY <4>2, <4>3, <5>1 DEF NextSlab, Request
      <4>8. CASE Connect
        BY <4>4, <4>8 DEF Connect
      <4>9. CASE TakeValues
        <5>1. CASE \E values : request' = [request EXCEPT !.pc = "answer", !.values = values]
          BY <4>2, <5>1 DEF Request
        <5>. QED
          BY <4>4, <4>9, <5>1 DEF TakeValues
      <4>10. CASE ListingFails \/ ConnectFails
        BY <4>10 DEF ListingFails, ConnectFails, Idle
      <4>11. CASE ValuesFail
        BY <4>2, <4>11 DEF ValuesFail, Request
      <4>12. ~TakeOne
        BY <4>1 DEF TakeOne
      <4>. QED
        BY <3>3, <4>5, <4>6, <4>7, <4>8, <4>9, <4>10, <4>11, <4>12 DEF Serve
    <3>4. CASE Around
      <4>1. fetch = "served" /\ request.pc # "idle"
        BY <1>2, <3>4 DEF PInv, FetchServed, Around, panelVars
      <4>2. ~InspectStats /\ ~FlushAll /\ \A k \in Key : ~InspectGet(k)
        BY <4>1 DEF InspectStats, FlushAll, InspectGet, StartOne
      <4>3. request' = request
        BY <3>4, <4>2 DEF Around, Execute, Change, Arrive
      <4>. QED
        BY <1>2, <4>1, <4>3 DEF PInv, FetchServed
    <3>5. CASE UNCHANGED pvars
      BY <1>2, <3>5 DEF PInv, FetchServed, pvars, nvars, panelVars
    <3>. QED
      BY <1>2, <3>1, <3>2, <3>3, <3>4, <3>5 DEF PNext
  <2>. QED
    BY <2>1, <2>2, <2>3 DEF PInv
<1>. QED
  BY <1>1, <1>2

(***************************************************************************)
(* The route's invariant holds behind the panel, whose fetch is served by  *)
(* a request of its own (debug-panel.tsx, route.ts).                       *)
(***************************************************************************)
THEOREM PanelInvariant == PSpec => []PInv
<1>1. PInit => PInv
  BY PInvHolds
<1>2. PInv /\ [PNext]_pvars => PInv'
  BY PInvHolds
<1>. QED
  BY <1>1, <1>2, PTL DEF PSpec

(***************************************************************************)
(* What the panel and the route hold is of its type: in particular what    *)
(* was read is named by keys, and only slabs are asked for.                *)
(***************************************************************************)
THEOREM PTypeCorrect == PSpec => []PTypeOK
<1>1. PInv => PTypeOK
  BY DEF PInv
<1>. QED
  BY <1>1, PanelInvariant, PTL

(***************************************************************************)
(* No command is written while a reply is still to come (sendAndRead,      *)
(* readDump), however the replies are cut.                                 *)
(***************************************************************************)
THEOREM InTurn == PSpec => []RepliesInStep
<1>1. PInv => RepliesInStep
  BY NInvShows DEF PInv
<1>. QED
  BY <1>1, PanelInvariant, PTL

(***************************************************************************)
(* An answer without an error lists every key that was there throughout,   *)
(* by the crawler or slab by slab, unless the dump missed it or the        *)
(* listing of its slab was refused (listKeys, cachedumpKeys).              *)
(***************************************************************************)
THEOREM AllListed == PSpec => []ListsAllOwed
<1>1. PInv => ListsAllOwed
  BY NInvShows DEF PInv
<1>. QED
  BY <1>1, PanelInvariant, PTL

(***************************************************************************)
(* A key that held one value throughout is shown as what it is, whatever   *)
(* the number and size of the batches and whichever of the other batches   *)
(* are refused (inspectGetMany, inspectGet).                               *)
(***************************************************************************)
THEOREM KindsShown == PSpec => []ShowsOwedKinds
<1>1. PInv => ShowsOwedKinds
  BY NInvShows DEF PInv
<1>. QED
  BY <1>1, PanelInvariant, PTL

(***************************************************************************)
(* When the panel says "0 keys", every key that was there throughout the   *)
(* request was left out by a reply of memcached's own: no answer lost one, *)
(* and no failure stands behind the message but that of a connection       *)
(* refused without one (debug-panel.tsx, route.ts).                        *)
(***************************************************************************)
THEOREM NoKeyLost == PSpec => ColdOwesNothing
<1>. DEFINE ShownCold == shown # "cold" /\ shown' = "cold" => owed = {} \/ request.pc = "mute"
<1>1. PInv /\ [PNext]_pvars => [ShownCold]_pvars
  <2>. SUFFICES ASSUME PInv, [PNext]_pvars, shown # "cold", shown' = "cold",
                       request.pc # "mute"
                PROVE  owed = {}
    OBVIOUS
  <2>1. Receive
    BY DEF PNext, pvars, panelVars, Refresh, Reach, FetchFails, Discard, Serve, Around
  <2>2. /\ fetch = "served" /\ request.pc \in {"answer", "error", "mute", "told"}
        /\ Rendered = "cold"
    BY <2>1 DEF Receive, Answer
  <2>3. request.pc # "error" /\ request.listed = {}
    BY <2>2 DEF Rendered
  <2>4. request.pc = "answer"
    BY <2>2, <2>3 DEF PInv, FetchServed
  <2>5. owed \subseteq request.listed
    BY <2>4, NInvShows DEF PInv, ListsAllOwed
  <2>. QED
    BY <2>3, <2>5
<1>. HIDE DEF ShownCold
<1>2. PSpec => [][ShownCold]_pvars
  BY <1>1, PanelInvariant, PTL DEF PSpec
<1>. QED
  BY <1>2 DEF ColdOwesNothing, ShownCold

=============================================================================
