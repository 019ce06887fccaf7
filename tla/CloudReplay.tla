----------------------------- MODULE CloudReplay -----------------------------
(***************************************************************************)
(* Relayed requests of the cloud agent: cloud_handle_request of             *)
(* jmxd/src/cloud/cloud_tunnel.c and the cache of served request ids of     *)
(* jmxd/src/cloud/cloud_replay.c.                                           *)
(*                                                                          *)
(* The relay may deliver a frame any number of times and as late as it      *)
(* likes.  A request carries the time of its sender's clock; the agent      *)
(* serves it when that time is within Skew of its own, and remembers its id *)
(* in a table of Size slots.  The agent handles one frame at a time.        *)
(***************************************************************************)
EXTENDS Integers

CONSTANTS Requests,  \* requests, which have different ids
          Size,      \* CLOUD_REPLAY_CACHE_SIZE
          Skew,      \* CLOUD_ISSUED_AT_SKEW_S
          NoId,      \* the id of a free slot
          MaxTime,   \* bound: the agent's clock
          MaxDrift   \* bound: how far a sender's clock is off

ASSUME ConstantsAssumption ==
  /\ Size \in Nat \ {0}
  /\ Skew \in Nat
  /\ NoId \notin Requests
  /\ MaxTime \in Nat
  /\ MaxDrift \in Nat

VARIABLES now,       \* cloud_now_s
          entries,   \* g_entries
          next,      \* g_next
          sent,      \* requests that were sent
          issued,    \* issued_at of each
          executed,  \* requests that reached cloud_local_execute
          again,     \* those that did so twice without being forgotten
          forgotten  \* ids that left the table before their time

vars == <<now, entries, next, sent, issued, executed, again, forgotten>>

Slots == 0 .. Size - 1
Free  == [id |-> NoId, at |-> 0]

TypeOK ==
  /\ now \in Nat
  /\ entries \in [Slots -> [id : Requests \cup {NoId}, at : Nat]]
  /\ next \in Slots
  /\ sent \in SUBSET Requests
  /\ issued \in [Requests -> Int]
  /\ executed \in SUBSET Requests
  /\ again \in SUBSET Requests
  /\ forgotten \in SUBSET Requests

Init ==
  /\ now = 1
  /\ entries = [i \in Slots |-> Free]
  /\ next = 0
  /\ sent = {}
  /\ issued = [r \in Requests |-> 0]
  /\ executed = {}
  /\ again = {}
  /\ forgotten = {}

-----------------------------------------------------------------------------
(* cloud_replay_seen *)

\* Too old to be of use.
OutdatedEarly(e) == now - e.at >= 2 * Skew
Outdated(e) == now - e.at > 2 * Skew

\* The table after the first loop has passed slots 0 to n - 1.
Swept(n) == [i \in Slots |-> IF i < n /\ entries[i].id # NoId /\ Outdated(entries[i])
                             THEN [entries[i] EXCEPT !.id = NoId] ELSE entries[i]]

Holds(i, r) == entries[i].id = r /\ ~Outdated(entries[i])
Known(r) == \E i \in Slots : Holds(i, r)

\* The distance of slot i from g_next.
Ahead(i) == IF i >= next THEN i - next ELSE i + Size - next

\* The slot the id goes to: the first free one, or the oldest entry, the first
\* one of several.
TakesNewest(table, s) ==
  IF \E i \in Slots : table[i].id = NoId
  THEN table[s].id = NoId /\ \A i \in Slots : table[i].id = NoId => Ahead(s) <= Ahead(i)
  ELSE \A i \in Slots : /\ table[s].at >= table[i].at
                        /\ table[s].at = table[i].at => s <= i
Takes(table, s) ==
  IF \E i \in Slots : table[i].id = NoId
  THEN table[s].id = NoId /\ \A i \in Slots : table[i].id = NoId => Ahead(s) <= Ahead(i)
  ELSE \A i \in Slots : /\ table[s].at <= table[i].at
                        /\ table[s].at = table[i].at => s <= i

\* The slot after s in the ring.
After(s) == IF s = Size - 1 THEN 0 ELSE s + 1

-----------------------------------------------------------------------------
(* cloud_handle_request, for a frame with a known key and a valid signature; *)
(* any other leaves no trace.                                                *)

\* The id is in slot i: request_replayed.
Refuse(r, i) ==
  /\ r \in sent
  /\ Holds(i, r)
  /\ \A j \in Slots : j < i => ~Holds(j, r)
  /\ entries' = Swept(i)
  /\ UNCHANGED <<now, next, sent, issued, executed, again, forgotten>>

\* issued_at is inside the accepted window.
Fresh(r) == issued[r] > 0 /\ now - Skew <= issued[r] /\ issued[r] <= now + Skew

\* The id is recorded in slot s before the frame is opened; opens tells
\* whether it decrypts and names a request that may be relayed.
Serve(r, s, opens) ==
  LET table == Swept(Size) IN
  /\ r \in sent
  /\ ~Known(r)
  /\ Takes(table, s)
  /\ entries' = [table EXCEPT ![s] = [id |-> r, at |-> now]]
  /\ next' = After(s)
  /\ IF opens /\ Fresh(r)
     THEN /\ executed' = executed \cup {r}
          /\ again' = again \cup ({r} \cap (executed \ forgotten))
     ELSE UNCHANGED <<executed, again>>
  /\ forgotten' = IF table[s].id = NoId THEN forgotten ELSE forgotten \cup {table[s].id}
  /\ UNCHANGED <<now, sent, issued>>

-----------------------------------------------------------------------------
(* Senders, time and restarts *)

Send(r, drift) ==
  /\ r \notin sent
  /\ sent' = sent \cup {r}
  /\ issued' = [issued EXCEPT ![r] = now + drift]
  /\ UNCHANGED <<now, entries, next, executed, again, forgotten>>

Tick ==
  /\ now < MaxTime
  /\ now' = now + 1
  /\ UNCHANGED <<entries, next, sent, issued, executed, again, forgotten>>

\* The table is in memory only.
Restart ==
  /\ entries' = [i \in Slots |-> Free]
  /\ next' = 0
  /\ forgotten' = forgotten \cup {r \in Requests : Known(r)}
  /\ UNCHANGED <<now, sent, issued, executed, again>>

Next ==
  \/ \E r \in Requests, i \in Slots : Refuse(r, i)
  \/ \E r \in Requests, s \in Slots, opens \in BOOLEAN : Serve(r, s, opens)
  \/ \E r \in Requests, drift \in -MaxDrift .. MaxDrift : Send(r, drift)
  \/ Tick
  \/ Restart

Spec == Init /\ [][Next]_vars

-----------------------------------------------------------------------------
(* Properties *)

\* A request is executed once, however often its frame arrives, as long as its
\* id was not pushed out of the table or lost with it: an id that has merely
\* become too old belongs to a request the window refuses.
ExecutedOnce == again = {}

\* An id has one slot, so that refusing and forgetting it are the same.
OneSlotPerId ==
  \A i, j \in Slots : (entries[i].id = entries[j].id /\ entries[i].id # NoId) => i = j

\* An executed request that was not forgotten is in the table, recorded late
\* enough, or past its window.
Remembered ==
  \A r \in executed \ forgotten :
    \/ now > issued[r] + Skew
    \/ \E i \in Slots : entries[i].id = r /\ issued[r] <= entries[i].at + Skew

\* The invariant the proofs use: only a sent request is executed, so that its
\* issued_at no longer changes.
IInv == TypeOK /\ OneSlotPerId /\ Remembered /\ ExecutedOnce /\ executed \subseteq sent

\* Only a table full of entries that still count gives one up, and it is the
\* oldest.
OldestGoesFirst ==
  [][\A i \in Slots :
       (/\ entries[i].id # NoId /\ ~Outdated(entries[i])
        /\ entries'[i].id \notin {entries[i].id, NoId})
         => \A j \in Slots : /\ entries[j].id # NoId /\ ~Outdated(entries[j])
                             /\ entries[i].at <= entries[j].at]_vars
=============================================================================
