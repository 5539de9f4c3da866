----------------------------- MODULE Inspector ------------------------------
(***************************************************************************)
(* The example application's GET /api/debug/keys and the raw memcached     *)
(* client behind it (memcached-inspector.ts): it lists every key, by the   *)
(* LRU crawler or slab by slab, and then reads the values in batches.  A   *)
(* reply is lines that arrive in chunks cut anywhere; what is stored may   *)
(* change under way, and any await may fail or time out.  The client's one *)
(* command calls (inspectGet, inspectStats, flushAll) are requests too.    *)
(***************************************************************************)
EXTENDS Integers, SequencesExt

CONSTANTS
    Key, Slab,
    SlabOf,     \* the slab class a key's item is in
    Kind,       \* what a value is: an entry, a tag record, other
    None,
    Batch,      \* keys in a get
    MaxValues,  \* MAX_VALUES_FETCHED
    MaxChanges  \* bound: changes of the store during a request

ASSUME InspectorAssumption ==
    /\ IsFiniteSet(Key) \* memcached's keys have at most 250 bytes
    /\ SlabOf \in [Key -> Slab]
    /\ "other" \in Kind
    /\ Batch \in Nat \ {0} /\ MaxValues \in Nat /\ MaxChanges \in Nat

VARIABLES
    store,   \* key -> the kind of its value
    changes, \* how often the store has changed in this request
    lived,   \* keys that have been there since the request began
    owed,    \* history: keys that have held one value since then and that no
             \* reply has left out
    asked,   \* the command written and not yet executed
    wire,    \* lines sent and not yet arrived in whole
    half,    \* the first of them has arrived in part
    buffer,  \* lines arrived of the reply awaited
    request  \* the locals of the request

nodeVars == <<store, changes, lived, owed>>
socketVars == <<asked, wire, half, buffer>>
nvars == <<nodeVars, socketVars, request>>

Line == [kind: {"OK", "END", "ERROR"}]
   \cup [kind: {"key", "ITEM", "VALUE"}, key: Key]
   \cup [kind: {"data"}, holds: Kind]
   \cup [kind: {"STAT"}, slab: Slab \cup {None}]

Commands == [name: {"metadump", "items", "stats", "flush_all"}]
       \cup [name: {"cachedump"}, slab: Slab]
       \cup [name: {"get"}, keys: Seq(Key)]

ASSUME NoCommandAssumption == None \notin Commands

\* What was read of some of the keys.
Read == UNION {[keys -> Kind] : keys \in SUBSET Key}

Request == [pc: {"idle", "dump", "items", "slabs", "connect", "values",
                 "answer", "error", "mute", "one", "told"},
            listed: SUBSET Key, slabs: SUBSET Slab, left: Seq(Key), values: Read]

Idle == [pc |-> "idle", listed |-> {}, slabs |-> {}, left |-> <<>>, values |-> <<>>]

\* Every variable holds a value of its type: what was listed and read is
\* named by keys.
NTypeOK ==
    /\ store \in [Key -> Kind \cup {None}]
    /\ changes \in 0..MaxChanges /\ lived \subseteq Key /\ owed \subseteq Key
    /\ asked \in Commands \cup {None}
    /\ wire \in Seq(Line) /\ half \in BOOLEAN /\ buffer \in Seq(Line)
    /\ request \in Request

NInit ==
    /\ store \in [Key -> Kind \cup {None}]
    /\ changes = 0 /\ lived = {} /\ owed = {}
    /\ asked = None /\ wire = <<>> /\ half = FALSE /\ buffer = <<>>
    /\ request = Idle

-----------------------------------------------------------------------------
(* memcached.                                                              *)

Present == {k \in Key : store[k] # None}

Marked(kind, keys) ==
    LET order == SetToSeq(keys) IN [i \in DOMAIN order |-> [kind |-> kind, key |-> order[i]]]

End == <<[kind |-> "END"]>>

\* A header and a line of data for each of the keys that has a value.
Values(keys) ==
    LET hits == SetToSeq(Range(keys) \cap Present)
    IN  [i \in 1..2 * Len(hits) |->
            LET k == hits[(i + 1) \div 2]
            IN  IF i % 2 = 1 THEN [kind |-> "VALUE", key |-> k]
                             ELSE [kind |-> "data", holds |-> store[k]]]

\* Any command may be refused.
Refused == <<[kind |-> "ERROR"]>>

\* What a command that is not refused may be answered.  The crawler walks the
\* store while it changes, and may miss a key that has just been linked.
Replies(command) ==
    CASE command.name = "metadump" ->
           {<<[kind |-> "OK"]>> \o Marked("key", keys) \o End : keys \in SUBSET lived}
      [] command.name = "items" ->
           LET slabs == SetToSeq({SlabOf[k] : k \in Present})
           IN  {[i \in DOMAIN slabs |-> [kind |-> "STAT", slab |-> slabs[i]]] \o End}
      [] command.name = "cachedump" ->
           {Marked("ITEM", {k \in Present : SlabOf[k] = command.slab}) \o End}
      [] command.name = "get" -> {Values(command.keys) \o End}
      [] command.name = "stats" -> {<<[kind |-> "STAT", slab |-> None]>> \o End}
      [] command.name = "flush_all" -> {<<[kind |-> "OK"]>>}

\* Line names key k.
Names(line, kind, k) == line.kind = kind /\ line.key = k

\* The keys whose listing or value is lost with the reply: a dump that misses
\* them, or a refusal that its reader takes for an empty reply.
LeftOut(command, reply) ==
    CASE command.name = "metadump" /\ reply # Refused ->
           {k \in Key : ~ \E i \in DOMAIN reply : Names(reply[i], "key", k)}
      [] command.name = "items" /\ reply = Refused -> Key
      [] command.name = "cachedump" /\ reply = Refused ->
           {k \in Key : SlabOf[k] = command.slab}
      [] command.name = "get" /\ reply = Refused -> Range(command.keys)
      [] command.name = "flush_all" /\ reply # Refused -> Key
      [] OTHER -> {}

Execute ==
    /\ asked # None
    /\ \E reply \in Replies(asked) \cup {Refused} :
        /\ wire' = wire \o reply
        /\ owed' = owed \ LeftOut(asked, reply)
        /\ store' = IF asked.name = "flush_all" /\ reply # Refused
                       THEN [k \in Key |-> None] ELSE store
    /\ asked' = None
    /\ UNCHANGED <<changes, lived, half, buffer, request>>

\* An entry is written, replaced or evicted while a request is served.
Change(k, kind) ==
    /\ request.pc \notin {"idle", "answer", "error", "mute", "told"}
    /\ changes < MaxChanges
    /\ store[k] # kind
    /\ store' = [store EXCEPT ![k] = kind]
    /\ changes' = changes + 1
    /\ lived' = IF kind = None THEN lived ELSE lived \cup {k}
    /\ owed' = owed \ {k}
    /\ UNCHANGED <<socketVars, request>>

-----------------------------------------------------------------------------
(* The socket.                                                             *)

Ask(command) ==
    /\ asked' = command
    /\ buffer' = <<>>
    /\ UNCHANGED <<wire, half>>

Closed == asked' = None /\ wire' = <<>> /\ half' = FALSE /\ buffer' = <<>>

\* Dump lines end in LF, all others in CRLF.
EndsCrlf == buffer # <<>> /\ ~half /\ Last(buffer).kind # "key"

\* Mutant: the end of a line is taken for the end of the reply.
LineDoneAnyLine == EndsCrlf

\* sendAndRead: the last full line is terminal.
LineDone == EndsCrlf /\ Last(buffer).kind \in {"END", "OK", "ERROR"}

\* readDump: the OK of a crawler that begins does not end the reply.
DumpDone ==
    /\ EndsCrlf
    /\ Last(buffer).kind = "END" \/ buffer[1].kind = "ERROR"

Done == IF request.pc = "dump" THEN DumpDone ELSE LineDone

Awaiting == request.pc \in {"dump", "items", "slabs", "values", "one"}

\* A chunk arrives: n full lines and, maybe, a part of the next.
Arrive(n, part) ==
    /\ Awaiting /\ ~Done
    /\ n > 0 \/ (part /\ ~half)
    /\ part => n < Len(wire)
    /\ buffer' = buffer \o SubSeq(wire, 1, n)
    /\ wire' = SubSeq(wire, n + 1, Len(wire))
    /\ half' = part
    /\ UNCHANGED <<nodeVars, asked, request>>

-----------------------------------------------------------------------------
(* GET: listKeys, then inspectGetMany.                                     *)

Begin == lived' = Present /\ owed' = Present /\ UNCHANGED <<store, changes>>

\* listKeys connects and asks for the dump.
Start ==
    /\ request.pc = "idle"
    /\ request' = [Idle EXCEPT !.pc = "dump"]
    /\ Ask([name |-> "metadump"])
    /\ Begin

\* The keys named by lines of one kind.
Named(kind) == {buffer[i].key : i \in {j \in DOMAIN buffer : buffer[j].kind = kind}}

\* listKeys returns: its socket is destroyed, and the values of the first
\* keys are to be read over one more connection, if there are any.
Listed(keys) ==
    LET left == SubSeq(SetToSeq(keys), 1, Min({Cardinality(keys), MaxValues}))
    IN  /\ request' = [request EXCEPT !.pc = IF left = <<>> THEN "answer" ELSE "connect",
                                      !.listed = keys, !.left = left]
        /\ Closed

TakeDump ==
    /\ request.pc = "dump" /\ Done
    /\ buffer[1].kind # "ERROR"
    /\ Listed(Named("key"))
    /\ UNCHANGED nodeVars

\* The crawler refuses: cachedumpKeys, on the same socket.
FallBack ==
    /\ request.pc = "dump" /\ Done
    /\ buffer[1].kind = "ERROR"
    /\ request' = [request EXCEPT !.pc = "items"]
    /\ Ask([name |-> "items"])
    /\ UNCHANGED nodeVars

NextSlab(slabs, listed) ==
    \/ /\ slabs = {}
       /\ Listed(listed)
    \/ \E slab \in slabs :
        /\ request' = [request EXCEPT !.pc = "slabs", !.slabs = slabs \ {slab},
                                      !.listed = listed]
        /\ Ask([name |-> "cachedump", slab |-> slab])

TakeItems ==
    /\ request.pc = "items" /\ Done
    /\ NextSlab({buffer[i].slab : i \in {j \in DOMAIN buffer : buffer[j].kind = "STAT"}}, {})
    /\ UNCHANGED nodeVars

\* Mutant: each slab's keys take the place of those before.
TakeSlabOnly ==
    /\ request.pc = "slabs" /\ Done
    /\ NextSlab(request.slabs, Named("ITEM"))
    /\ UNCHANGED nodeVars

TakeSlab ==
    /\ request.pc = "slabs" /\ Done
    /\ NextSlab(request.slabs, request.listed \cup Named("ITEM"))
    /\ UNCHANGED nodeVars

AskBatch(left, values) ==
    LET n == Min({Batch, Len(left)})
    IN  /\ request' = [request EXCEPT !.pc = "values", !.values = values,
                                      !.left = SubSeq(left, n + 1, Len(left))]
        /\ Ask([name |-> "get", keys |-> SubSeq(left, 1, n)])

Connect ==
    /\ request.pc = "connect"
    /\ AskBatch(request.left, <<>>)
    /\ UNCHANGED nodeVars

\* Mutant: the values are numbered, not named.
PairsNumbered ==
    LET headers == {i \in 1..Len(buffer) - 1 : buffer[i].kind = "VALUE"}
    IN  [i \in headers |-> buffer[i + 1].holds]

\* Each VALUE line names the key of the data line that follows it.
Pairs ==
    LET headers == {i \in 1..Len(buffer) - 1 : buffer[i].kind = "VALUE"}
    IN  [k \in {buffer[i].key : i \in headers} |->
            buffer[1 + CHOOSE i \in headers : buffer[i].key = k].holds]

\* values.set, for each pair.
Set(values, pairs) ==
    [k \in DOMAIN values \cup DOMAIN pairs |->
        IF k \in DOMAIN pairs THEN pairs[k] ELSE values[k]]

\* Mutant: the batch that is not full is not waited for.
TakeValuesEarly ==
    /\ request.pc = "values" /\ Done
    /\ \/ /\ Len(request.left) < Batch
          /\ request' = [request EXCEPT !.pc = "answer",
                                        !.values = Set(request.values, Pairs)]
          /\ Closed
       \/ /\ Len(request.left) >= Batch
          /\ AskBatch(request.left, Set(request.values, Pairs))
    /\ UNCHANGED nodeVars

TakeValues ==
    /\ request.pc = "values" /\ Done
    /\ \/ /\ request.left = <<>>
          /\ request' = [request EXCEPT !.pc = "answer",
                                        !.values = Set(request.values, Pairs)]
          /\ Closed
       \/ /\ request.left # <<>>
          /\ AskBatch(request.left, Set(request.values, Pairs))
    /\ UNCHANGED nodeVars

\* Mutant: a listing that fails is answered as an empty one.
ListingFailsEmpty ==
    /\ request.pc \in {"dump", "items", "slabs", "one"}
    /\ request' = [Idle EXCEPT !.pc = "answer"]
    /\ Closed
    /\ UNCHANGED nodeVars

\* An await of listKeys, or of a one command call, fails: the answer is the
\* error.
ListingFails ==
    /\ request.pc \in {"dump", "items", "slabs", "one"}
    /\ request' = [Idle EXCEPT !.pc = "error"]
    /\ Closed
    /\ UNCHANGED nodeVars

\* net.connect fails, with an error for each address of the host and no message
\* of its own: the answer is that error, its message empty.
ConnectFails ==
    /\ request.pc = "dump" /\ asked # None
    /\ request' = [Idle EXCEPT !.pc = "mute"]
    /\ Closed
    /\ UNCHANGED nodeVars

\* One of inspectGetMany fails: the keys are answered without values.
ValuesFail ==
    /\ request.pc \in {"connect", "values"}
    /\ request' = [request EXCEPT !.pc = "answer", !.values = <<>>, !.left = <<>>]
    /\ Closed
    /\ UNCHANGED nodeVars

-----------------------------------------------------------------------------
(* The calls of one command, on a connection of their own.                 *)

StartOne(command) ==
    /\ request.pc = "idle"
    /\ request' = [Idle EXCEPT !.pc = "one",
                                !.left = IF command.name = "get" THEN command.keys ELSE <<>>]
    /\ Ask(command)
    /\ Begin

InspectGet(k) == StartOne([name |-> "get", keys |-> <<k>>])
InspectStats == StartOne([name |-> "stats"])
FlushAll == StartOne([name |-> "flush_all"])

\* inspectGet takes a refusal for an empty value.
TakeOne ==
    /\ request.pc = "one" /\ Done
    /\ request' = [request EXCEPT !.pc = "told",
                     !.values = IF buffer[1].kind = "ERROR"
                                  THEN [k \in Range(request.left) |-> "other"]
                                  ELSE Pairs]
    /\ Closed
    /\ UNCHANGED nodeVars

\* The request is over, its result gone to the caller.
Answer ==
    /\ request.pc \in {"answer", "error", "mute", "told"}
    /\ request' = Idle
    /\ changes' = 0 /\ lived' = {} /\ owed' = {}
    /\ UNCHANGED <<store, socketVars>>

NNext ==
    \/ Execute
    \/ \E k \in Key, kind \in Kind \cup {None} : Change(k, kind)
    \/ \E n \in 0..Len(wire), part \in BOOLEAN : Arrive(n, part)
    \/ InspectStats \/ FlushAll \/ TakeOne \/ \E k \in Key : InspectGet(k)
    \/ Start \/ TakeDump \/ FallBack \/ TakeItems \/ TakeSlab
    \/ Connect \/ TakeValues \/ ListingFails \/ ConnectFails \/ ValuesFail
    \/ Answer

NSpec == NInit /\ [][NNext]_nvars

-----------------------------------------------------------------------------

\* The kind the answer gives a key; without its value it is "other".
Shown(k) == IF k \in DOMAIN request.values THEN request.values[k] ELSE "other"

\* The keys whose values the answer was to show.
Inspected == SubSeq(SetToSeq(request.listed), 1,
                    Min({Cardinality(request.listed), MaxValues}))

(***************************************************************************)
(* A command is written only when the reply to the one before it has been  *)
(* read to its end, wherever its chunks were cut: no reply is taken for    *)
(* another's (sendAndRead, readDump).                                      *)
(***************************************************************************)
RepliesInStep == asked # None => wire = <<>> /\ ~half

(***************************************************************************)
(* An answer without an error lists every key that held its value          *)
(* throughout the request, by the crawler or slab by slab, but for those   *)
(* that memcached left out: missed by a dump, or behind a refusal that the *)
(* code takes for an empty reply (listKeys, cachedumpKeys).                *)
(***************************************************************************)
ListsAllOwed == request.pc = "answer" => owed \subseteq request.listed

(***************************************************************************)
(* When any value was read, a key that held one value throughout is shown  *)
(* as what it is, whatever batch it falls in and whatever is evicted       *)
(* between the listing and the reading, unless its own batch was refused   *)
(* (inspectGetMany, inspectGet).                                           *)
(***************************************************************************)
ShowsOwedKinds ==
    /\ (request.pc = "answer" /\ request.values # <<>>) =>
          \A k \in Range(Inspected) \cap owed : Shown(k) = store[k]
    /\ request.pc = "told" =>
          \A k \in Range(request.left) \cap owed :
              k \in DOMAIN request.values /\ request.values[k] = store[k]

-----------------------------------------------------------------------------
(***************************************************************************)
(* Why they hold: an invariant every step preserves.                       *)
(***************************************************************************)

\* The reply to the command executed last, as much of it as has arrived and
\* what is still to come.
Incoming == buffer \o wire

\* The lines that end a reply for who reads it at pc.
Endings(pc) == {"END", "ERROR"} \cup (IF pc = "dump" THEN {} ELSE {"OK"})

\* Of its lines only the last is one.
Whole(reply, pc) ==
    /\ reply # <<>>
    /\ \A i \in DOMAIN reply : reply[i].kind \in Endings(pc) => i = Len(reply)

\* A command or its reply is under way only while it is awaited, and never
\* both.
InStep ==
    /\ half => wire # <<>>
    /\ asked # None => buffer = <<>> /\ wire = <<>>
    /\ ~Awaiting => asked = None /\ buffer = <<>> /\ wire = <<>>
    /\ (Awaiting /\ asked = None) => Whole(Incoming, request.pc)

\* The command is the one the request awaits the reply to.
AsksInTurn ==
    asked # None =>
        \/ request.pc = "dump" /\ asked.name = "metadump"
        \/ request.pc = "items" /\ asked.name = "items"
        \/ request.pc = "slabs" /\ asked.name = "cachedump"
        \/ request.pc = "values" /\ asked.name = "get"
        \/ /\ request.pc = "one" /\ asked.name \in {"get", "stats", "flush_all"}
           /\ request.left = IF asked.name = "get" THEN asked.keys ELSE <<>>

\* `stats items` names slabs.
SlabsNamed ==
    (request.pc = "items" /\ asked = None) =>
        \A i \in DOMAIN Incoming :
            Incoming[i].kind = "STAT" => Incoming[i].slab \in Slab

\* The reply awaited has arrived or is on its way, and has such a line.
Comes(kind, k) ==
    asked = None /\ \E i \in DOMAIN Incoming : Names(Incoming[i], kind, k)

\* A key that is owed is listed, or comes with the reply awaited,
\* or is in a slab that is still to be asked for.
OwedListed ==
    \A k \in owed :
        /\ k \in Present
        /\ (request.pc = "dump" /\ asked = None) =>
              Incoming[1].kind = "ERROR" \/ Comes("key", k)
        /\ (request.pc = "items" /\ asked = None) =>
              \E i \in DOMAIN Incoming :
                  Incoming[i].kind = "STAT" /\ Incoming[i].slab = SlabOf[k]
        /\ request.pc = "slabs" =>
              \/ k \in request.listed
              \/ SlabOf[k] \in request.slabs
              \/ asked # None /\ asked.slab = SlabOf[k]
              \/ Comes("ITEM", k)
        /\ request.pc \in {"connect", "values", "answer"} => k \in request.listed

\* A header is followed by its value, and what was read of a key that is owed
\* is what it holds.
ValuesTrue ==
    /\ (request.pc \in {"values", "one"} /\ asked = None) =>
          \A i \in DOMAIN Incoming : Incoming[i].kind = "VALUE" =>
              /\ i + 1 \in DOMAIN Incoming
              /\ Incoming[i + 1].kind = "data"
              /\ Incoming[i].key \in owed =>
                    Incoming[i + 1].holds = store[Incoming[i].key]
    /\ \A k \in owed \cap DOMAIN request.values : request.values[k] = store[k]

\* Its value is read, comes with the reply awaited, or is still to be asked
\* for.
OwedRead ==
    /\ request.pc \in {"idle", "dump", "items", "slabs", "connect"} =>
          request.values = <<>>
    /\ request.pc = "connect" => request.left = Inspected
    /\ request.pc = "values" =>
          \A k \in Range(Inspected) \cap owed :
              \/ k \in DOMAIN request.values
              \/ k \in Range(request.left)
              \/ asked # None /\ k \in Range(asked.keys)
              \/ Comes("VALUE", k)
    /\ request.pc = "answer" =>
          \/ request.values = <<>>
          \/ Range(Inspected) \cap owed \subseteq DOMAIN request.values
    /\ request.pc = "one" =>
          \A k \in Range(request.left) \cap owed :
              asked # None \/ Comes("VALUE", k)
    /\ request.pc = "told" =>
          Range(request.left) \cap owed \subseteq DOMAIN request.values

(***************************************************************************)
(* The properties made inductive: replies are read whole, and a key that   *)
(* is owed is not lost between two commands.                              *)
(***************************************************************************)
NInv ==
    /\ NTypeOK
    /\ InStep
    /\ AsksInTurn
    /\ SlabsNamed
    /\ OwedListed
    /\ ValuesTrue
    /\ OwedRead

=============================================================================
