----------------------------- MODULE Memcached ------------------------------
(***************************************************************************)
(* The memcached node and one pipelined connection per pod, as the code in *)
(* src/ uses them through the `memcache` client: commands are written in   *)
(* order, executed in order and answered in order.  A command is executed  *)
(* and its answer handed to the caller in one step; the caller goes on     *)
(* when its continuation is scheduled, so answers may be acted on in any   *)
(* order.                                                                  *)
(*                                                                         *)
(* What the node may do to the handler: evict (an LRU or a TTL), restart   *)
(* empty, drop a connection with everything queued on it, or be too late:  *)
(* the client gives a command up while the node may still execute it.      *)
(***************************************************************************)
EXTENDS TagRecords, Sequences

CONSTANTS
    Pod, Key, Tag,
    Caller,     \* the asynchronous calls of Next.js into the handlers
    PodOf,      \* the pod a caller runs on
    Revalidate, \* the revalidate spans entries are rendered with
    Faults,     \* which of the faults below happen
    NoReply, Error, Ack  \* no answer yet, a rejected promise, "STORED"

ASSUME PodAssumption == PodOf \in [Caller -> Pod]
ASSUME CallerAssumption == None \notin Caller
ASSUME RevalidateAssumption == Revalidate \subseteq Int
ASSUME FaultsAssumption ==
    Faults \subseteq
        {"evict_entry", "evict_record", "restart", "disconnect", "timeout"}

VARIABLES
    entries, \* Key -> what the node holds under e:<sha1>
    records, \* Tag -> what the node holds under t:<sha1>
    sent,    \* Pod -> the commands written and not yet executed
    reply    \* Caller -> the answer its current await has got

memcachedVars == <<entries, records, sent, reply>>

Entry == [tags: SUBSET Tag, timestamp: Nat, revalidate: Revalidate]
StoredEntry == Entry \cup {None, Unreadable}

\* The answers to a get of an entry and to a multi-get of tag records.
EntryReply == [entry: StoredEntry]
TagReply == [records: [Tag -> StoredRecord]]

Reply == {NoReply, Error, Ack} \cup EntryReply \cup TagReply

\* A bare answer carries nothing; the two are told from each other and from
\* none at all.
ASSUME ReplyAssumption ==
    /\ {NoReply, Error, Ack} \cap (EntryReply \cup TagReply) = {}
    /\ NoReply \notin {Error, Ack}
    /\ Error # Ack

\* `by` is None once nobody waits for the answer.
Awaiter == Caller \cup {None}

Command ==
       [kind: {"get"}, key: Key, by: Awaiter]
  \cup [kind: {"set"}, key: Key, entry: StoredEntry, by: Awaiter]
  \cup [kind: {"gets"}, by: Awaiter]
  \cup [kind: {"set_tags"}, tags: SUBSET Tag, items: [Tag -> StoredRecord],
        at: Int, by: Awaiter]
  \cup [kind: {"add_tags"}, tags: SUBSET Tag, at: Int, by: Awaiter]

Commands(p) == {sent[p][i] : i \in DOMAIN sent[p]}

MemcachedTypeOK ==
    /\ entries \in [Key -> StoredEntry]
    /\ records \in [Tag -> StoredRecord]
    /\ sent \in [Pod -> Seq(Command)]
    /\ reply \in [Caller -> Reply]

MemcachedInit ==
    /\ entries = [k \in Key |-> None]
    /\ records = [t \in Tag |-> None]
    /\ sent = [p \in Pod |-> <<>>]
    /\ reply = [c \in Caller |-> NoReply]

-----------------------------------------------------------------------------
(* The client side of the connection.                                      *)

\* Caller c writes a command and awaits its answer.
Send(c, command) ==
    /\ sent' = [sent EXCEPT ![PodOf[c]] = Append(@, command)]
    /\ reply' = [reply EXCEPT ![c] = NoReply]

-----------------------------------------------------------------------------
(* The node executes the oldest command of a connection.                   *)

Answered(command, answer) ==
    IF command.by = None THEN reply ELSE [reply EXCEPT ![command.by] = answer]

ExecGet(p) ==
    /\ sent[p] # <<>>
    /\ LET command == Head(sent[p]) IN
        /\ command.kind = "get"
        /\ reply' = Answered(command, [entry |-> entries[command.key]])
    /\ sent' = [sent EXCEPT ![p] = Tail(@)]
    /\ UNCHANGED <<entries, records>>

ExecSet(p) ==
    /\ sent[p] # <<>>
    /\ LET command == Head(sent[p]) IN
        /\ command.kind = "set"
        /\ entries' = [entries EXCEPT ![command.key] = command.entry]
        /\ reply' = Answered(command, Ack)
    /\ sent' = [sent EXCEPT ![p] = Tail(@)]
    /\ UNCHANGED records

ExecGets(p) ==
    /\ sent[p] # <<>>
    /\ LET command == Head(sent[p]) IN
        /\ command.kind = "gets"
        /\ reply' = Answered(command, [records |-> records])
    /\ sent' = [sent EXCEPT ![p] = Tail(@)]
    /\ UNCHANGED <<entries, records>>

\* A batch has one command per tag: tag t's is executed, and leaves the
\* queue.  The last one completes the Promise.all of the batch.
Executed(p, t) ==
    LET command == Head(sent[p])
        rest == command.tags \ {t}
    IN  /\ sent' = [sent EXCEPT ![p] =
                       IF rest = {}
                         THEN Tail(@)
                         ELSE <<[command EXCEPT !.tags = rest]>> \o Tail(@)]
        /\ reply' = IF rest = {} THEN Answered(command, Ack) ELSE reply

ExecSetTag(p, t) ==
    /\ sent[p] # <<>>
    /\ LET command == Head(sent[p]) IN
        /\ command.kind = "set_tags"
        /\ t \in command.tags
        /\ records' = [records EXCEPT ![t] = command.items[t]]
    /\ Executed(p, t)
    /\ UNCHANGED entries

\* `add` stores only where nothing is stored.
ExecAddTag(p, t) ==
    /\ sent[p] # <<>>
    /\ LET command == Head(sent[p]) IN
        /\ command.kind = "add_tags"
        /\ t \in command.tags
        /\ records' = IF records[t] = None
                        THEN [records EXCEPT ![t] = ExpiredAt(command.at)]
                        ELSE records
    /\ Executed(p, t)
    /\ UNCHANGED entries

Exec(p) ==
    \/ ExecGet(p)
    \/ ExecSet(p)
    \/ ExecGets(p)
    \/ \E t \in Tag : ExecSetTag(p, t) \/ ExecAddTag(p, t)

-----------------------------------------------------------------------------
(* Faults.                                                                 *)

EvictEntry(k) ==
    /\ "evict_entry" \in Faults
    /\ entries[k] # None
    /\ entries' = [entries EXCEPT ![k] = None]
    /\ UNCHANGED <<records, sent, reply>>

EvictRecord(t) ==
    /\ "evict_record" \in Faults
    /\ records[t] # None
    /\ records' = [records EXCEPT ![t] = None]
    /\ UNCHANGED <<entries, sent, reply>>

Awaits(c) == \E command \in Commands(PodOf[c]) : command.by = c

\* The socket of pod p closes: what is queued on it is lost and the promises
\* of its commands reject.
Disconnect(p) ==
    /\ "disconnect" \in Faults
    /\ sent[p] # <<>>
    /\ sent' = [sent EXCEPT ![p] = <<>>]
    /\ reply' = [c \in Caller |->
                    IF PodOf[c] = p /\ Awaits(c) THEN Error ELSE reply[c]]
    /\ UNCHANGED <<entries, records>>

\* The node restarts with nothing stored, and every socket closes.
Restart ==
    /\ "restart" \in Faults
    /\ entries' = [k \in Key |-> None]
    /\ records' = [t \in Tag |-> None]
    /\ sent' = [p \in Pod |-> <<>>]
    /\ reply' = [c \in Caller |-> IF Awaits(c) THEN Error ELSE reply[c]]

\* 750 ms pass without an answer: c's promise rejects, its command stays on
\* its way and may still be executed.
Timeout(c) ==
    /\ "timeout" \in Faults
    /\ Awaits(c)
    /\ reply' = [reply EXCEPT ![c] = Error]
    /\ sent' = [sent EXCEPT ![PodOf[c]] =
                   [i \in DOMAIN @ |->
                       IF @[i].by = c THEN [@[i] EXCEPT !.by = None] ELSE @[i]]]
    /\ UNCHANGED <<entries, records>>

=============================================================================
