-------------------------------- MODULE Panel --------------------------------
(***************************************************************************)
(* The example application's debug panel (debug-panel.tsx) in front of GET *)
(* /api/debug/keys: it refreshes when it is mounted and when its button is *)
(* clicked, which is disabled while it is loading.  A fetch may fail       *)
(* before the request reaches the server or while it is served; the server *)
(* then goes on with the request for nobody.                               *)
(***************************************************************************)
EXTENDS Inspector

VARIABLES
    fetch, \* the panel's fetch: none, sent, or being served
    shown  \* what the panel shows: nothing yet, keys, the message that there
           \* are none, or that memcached is unreachable

panelVars == <<fetch, shown>>
pvars == <<nvars, panelVars>>

\* Every variable holds a value of its type.
PTypeOK ==
    /\ NTypeOK
    /\ fetch \in {"none", "sent", "served"}
    /\ shown \in {"nothing", "keys", "cold", "unreachable"}

\* The panel has just been mounted: its effect refreshes at once.
PInit == NInit /\ fetch = "sent" /\ shown = "nothing"

loading == fetch # "none"

Refresh ==
    /\ ~loading
    /\ fetch' = "sent"
    /\ UNCHANGED <<nvars, shown>>

\* The server takes the request up; it serves one at a time.
Reach ==
    /\ fetch = "sent"
    /\ Start
    /\ fetch' = "served"
    /\ UNCHANGED shown

\* What the panel makes of the response: an error is one whose message is not
\* empty.
Rendered ==
    IF request.pc = "error" THEN "unreachable"
    ELSE IF request.listed = {} THEN "cold" ELSE "keys"

Receive ==
    /\ fetch = "served"
    /\ Answer
    /\ shown' = Rendered
    /\ fetch' = "none"

\* Mutant: no finally block, a fetch that fails leaves the panel loading.
FetchFailsLoading ==
    /\ loading
    /\ shown' = "unreachable"
    /\ fetch' = "failed"
    /\ UNCHANGED nvars

\* The fetch rejects.
FetchFails ==
    /\ loading
    /\ shown' = "unreachable"
    /\ fetch' = "none"
    /\ UNCHANGED nvars

\* A response that nobody awaits any more.
Discard ==
    /\ fetch # "served"
    /\ Answer
    /\ UNCHANGED panelVars

\* What the server does with a request up to its answer.
Serve ==
    /\ \/ TakeDump \/ FallBack \/ TakeItems \/ TakeSlab
       \/ Connect \/ TakeValues \/ ListingFails \/ ConnectFails
       \/ ValuesFail \/ TakeOne
    /\ UNCHANGED panelVars

\* What goes on around it: memcached, the socket, the one command calls.
Around ==
    /\ \/ Execute
       \/ \E k \in Key, kind \in Kind \cup {None} : Change(k, kind)
       \/ \E n \in 0..Len(wire), part \in BOOLEAN : Arrive(n, part)
       \/ InspectStats \/ FlushAll \/ \E k \in Key : InspectGet(k)
    /\ UNCHANGED panelVars

PNext ==
    \/ Refresh \/ Reach \/ Receive \/ FetchFails \/ Discard
    \/ Serve \/ Around

(***************************************************************************)
(* Every await of the server has a timer, so a request that has begun goes *)
(* on; its response is delivered; and a request that is sent is taken up,  *)
(* however many others come (strongly fair because the model serves one    *)
(* at a time, the server all at once).  Nothing is assumed of memcached,   *)
(* of the connection or of the user.                                       *)
(***************************************************************************)
PFairness == WF_pvars(Serve) /\ WF_pvars(Receive \/ Discard) /\ SF_pvars(Reach)

PSpec == PInit /\ [][PNext]_pvars /\ PFairness

-----------------------------------------------------------------------------

(***************************************************************************)
(* The message "0 keys" appears only when nothing is owed: every key that  *)
(* was there throughout was left out by a reply of memcached's own.  A     *)
(* request that fails in any of its awaits shows memcached as unreachable, *)
(* unless it fails to connect without a message (debug-panel.tsx, the      *)
(* catch of GET).                                                          *)
(***************************************************************************)
ColdOwesNothing ==
    [][shown # "cold" /\ shown' = "cold" => owed = {} \/ request.pc = "mute"]_pvars

(***************************************************************************)
(* What the message says: nothing is in memcached, whether or not anything *)
(* was ever written.  The code breaks it, when it cannot connect and the   *)
(* error has no message.                                                   *)
(***************************************************************************)
ColdOnlyWhenCold ==
    [][shown # "cold" /\ shown' = "cold" /\ changes = 0 => Present = {}]_pvars

(***************************************************************************)
(* The panel does not stay loading, its button disabled: each refresh ends *)
(* in something shown, also when memcached never answers (the finally      *)
(* block of refresh, the timers of the inspector).                         *)
(***************************************************************************)
RefreshEnds == loading ~> ~loading

-----------------------------------------------------------------------------
(* Why the first holds.                                                    *)

\* The request the panel's fetch is served by is not over, nor one command's.
FetchServed ==
    fetch = "served" => request.pc \notin {"idle", "one", "told"}

\* The route's invariant, and the panel's part in it.
PInv == NInv /\ PTypeOK /\ FetchServed

=============================================================================
