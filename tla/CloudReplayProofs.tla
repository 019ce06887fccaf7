-------------------------- MODULE CloudReplayProofs --------------------------
(* Proofs about CloudReplay, for every number of slots and every window. *)
EXTENDS CloudReplay, TLAPS

\* What the sweep leaves: only the ids of outdated entries are gone.
LEMMA SweptFacts ==
  ASSUME TypeOK, NEW n \in Int
  PROVE  /\ Swept(n) \in [Slots -> [id : Requests \cup {NoId}, at : Nat]]
         /\ \A i \in Slots : Swept(n)[i].at = entries[i].at
         /\ \A i \in Slots : Swept(n)[i].id \in {entries[i].id, NoId}
         /\ \A i \in Slots : ~Outdated(entries[i]) => Swept(n)[i] = entries[i]
         /\ \A i \in Slots : (i < n /\ Outdated(entries[i])) => Swept(n)[i].id = NoId
BY DEF TypeOK, Swept, Outdated, Slots

\* A request whose entry is outdated is past its window.
LEMMA OutdatedIsPast ==
  ASSUME TypeOK, ConstantsAssumption, NEW r \in Requests, NEW i \in Slots,
         issued[r] <= entries[i].at + Skew, Outdated(entries[i])
  PROVE  now > issued[r] + Skew
BY DEF TypeOK, Outdated, ConstantsAssumption

LEMMA InitIInv == ASSUME Init PROVE IInv
BY ConstantsAssumption DEF Init, IInv, TypeOK, OneSlotPerId, Remembered, ExecutedOnce,
  Slots, Free, ConstantsAssumption

LEMMA RefuseIInv ==
  ASSUME IInv, NEW r \in Requests, NEW i \in Slots, Refuse(r, i)
  PROVE  IInv'
<1>1. i \in Int
  BY ConstantsAssumption DEF Slots, ConstantsAssumption
<1>2. TypeOK'
  BY <1>1, SweptFacts DEF IInv, TypeOK, Refuse, Slots
<1>3. OneSlotPerId'
  BY <1>1, SweptFacts, ConstantsAssumption DEF IInv, OneSlotPerId, Refuse, Slots, ConstantsAssumption
<1>4. Remembered'
  <2> SUFFICES ASSUME NEW q \in executed \ forgotten, ~(now > issued[q] + Skew)
               PROVE  \E j \in Slots : entries'[j].id = q /\ issued[q] <= entries'[j].at + Skew
    BY DEF Remembered, Refuse, Slots
  <2>1. q \in Requests
    BY DEF IInv, TypeOK
  <2>2. PICK j \in Slots : entries[j].id = q /\ issued[q] <= entries[j].at + Skew
    BY DEF IInv, Remembered
  <2>3. ~Outdated(entries[j])
    BY <2>1, <2>2, OutdatedIsPast, ConstantsAssumption DEF IInv
  <2>4. entries'[j] = entries[j]
    BY <1>1, <2>3, SweptFacts DEF IInv, Refuse
  <2> QED
    BY <2>2, <2>4
<1> QED
  BY <1>2, <1>3, <1>4 DEF IInv, ExecutedOnce, Refuse

LEMMA ServeIInv ==
  ASSUME IInv, NEW r \in Requests, NEW s \in Slots, NEW opens \in BOOLEAN,
         Serve(r, s, opens)
  PROVE  IInv'
<1> DEFINE table == Swept(Size)
<1>1. Size \in Int /\ TypeOK
  BY ConstantsAssumption DEF ConstantsAssumption, IInv
<1>2. /\ table \in [Slots -> [id : Requests \cup {NoId}, at : Nat]]
      /\ \A i \in Slots : table[i].at = entries[i].at
      /\ \A i \in Slots : table[i].id \in {entries[i].id, NoId}
      /\ \A i \in Slots : ~Outdated(entries[i]) => table[i] = entries[i]
      /\ \A i \in Slots : Outdated(entries[i]) => table[i].id = NoId
  <2>1. \A i \in Slots : i < Size
    BY <1>1 DEF Slots
  <2> QED
    BY <1>1, <2>1, SweptFacts
<1>3. entries' = [table EXCEPT ![s] = [id |-> r, at |-> now]] /\ next' = After(s)
      /\ UNCHANGED <<now, sent, issued>>
  BY DEF Serve
<1> HIDE DEF table
<1>4. TypeOK'
  <2>1. After(s) \in Slots
    BY ConstantsAssumption DEF After, Slots, ConstantsAssumption
  <2>2. entries' \in [Slots -> [id : Requests \cup {NoId}, at : Nat]]
    BY <1>1, <1>2, <1>3 DEF TypeOK
  <2>3. executed' \in SUBSET Requests /\ again' \in SUBSET Requests
    BY <1>1 DEF TypeOK, Serve
  <2>4. forgotten' \in SUBSET Requests
    <3>1. table[s].id \in Requests \cup {NoId}
      BY <1>2
    <3>2. forgotten' = IF table[s].id = NoId THEN forgotten ELSE forgotten \cup {table[s].id}
      BY DEF Serve, table
    <3> QED
      BY <1>1, <3>1, <3>2 DEF TypeOK
  <2> QED
    BY <1>1, <1>3, <2>1, <2>2, <2>3, <2>4 DEF TypeOK, Slots
<1>5. \A i \in Slots : table[i].id # r
  <2> SUFFICES ASSUME NEW i \in Slots, table[i].id = r PROVE FALSE
    OBVIOUS
  <2>1. r # NoId
    BY ConstantsAssumption DEF ConstantsAssumption
  <2>2. entries[i].id = r /\ ~Outdated(entries[i])
    BY <1>2, <2>1
  <2> QED
    BY <2>2 DEF Serve, Known, Holds
<1>6. OneSlotPerId'
  <2> SUFFICES ASSUME NEW i \in Slots, NEW j \in Slots,
                      entries'[i].id = entries'[j].id, entries'[i].id # NoId
               PROVE  i = j
    BY DEF OneSlotPerId, Slots
  <2>1. CASE i = s
    BY <1>2, <1>3, <1>5, <2>1
  <2>2. CASE j = s
    BY <1>2, <1>3, <1>5, <2>2
  <2>3. CASE i # s /\ j # s
    BY <1>2, <1>3, <2>3 DEF IInv, OneSlotPerId
  <2> QED
    BY <2>1, <2>2, <2>3
<1>7. ASSUME NEW q \in executed \ forgotten
      PROVE  \/ now > issued[q] + Skew
             \/ \E i \in Slots : /\ entries[i].id = q /\ issued[q] <= entries[i].at + Skew
                                 /\ ~Outdated(entries[i])
  <2>1. q \in Requests
    BY <1>1 DEF TypeOK
  <2> QED
    BY <1>1, <2>1, OutdatedIsPast, ConstantsAssumption DEF IInv, Remembered
<1>8. r \in executed \ forgotten => now > issued[r] + Skew
  BY <1>7 DEF Serve, Known, Holds
<1>9. Remembered'
  <2> SUFFICES ASSUME NEW q \in executed' \ forgotten', ~(now > issued[q] + Skew)
               PROVE  \E i \in Slots : entries'[i].id = q /\ issued[q] <= entries'[i].at + Skew
    BY <1>3 DEF Remembered, Slots
  <2>1. CASE q = r
    <3>1. r \notin executed
      BY <1>8, <2>1 DEF Serve
    <3>2. Fresh(r)
      BY <2>1, <3>1 DEF Serve
    <3>3. entries'[s].id = q /\ entries'[s].at = now
      BY <1>2, <1>3, <2>1
    <3> QED
      BY <2>1, <3>2, <3>3 DEF Fresh
  <2>2. CASE q # r
    <3>1. q \in executed \ forgotten
      BY <2>2 DEF Serve
    <3>2. PICK i \in Slots : /\ entries[i].id = q /\ issued[q] <= entries[i].at + Skew
                             /\ ~Outdated(entries[i])
      BY <1>7, <3>1
    <3>3. table[i] = entries[i]
      BY <1>2, <3>2
    <3>4. q # NoId
      BY <1>1, <3>1, ConstantsAssumption DEF TypeOK, ConstantsAssumption
    <3>5. i # s
      BY <3>2, <3>3, <3>4 DEF Serve, table
    <3> QED
      BY <1>2, <1>3, <3>2, <3>3, <3>5
  <2> QED
    BY <2>1, <2>2
<1>10. ExecutedOnce'
  <2>1. (opens /\ Fresh(r)) => r \notin executed \ forgotten
    BY <1>1, <1>8, ConstantsAssumption DEF Fresh, TypeOK, ConstantsAssumption
  <2> QED
    BY <2>1 DEF Serve, IInv, ExecutedOnce
<1>11. executed' \subseteq sent'
  BY DEF Serve, IInv
<1> QED
  BY <1>4, <1>6, <1>9, <1>10, <1>11 DEF IInv

LEMMA OtherIInv ==
  ASSUME IInv,
         \/ \E r \in Requests, drift \in -MaxDrift .. MaxDrift : Send(r, drift)
         \/ Tick \/ Restart \/ UNCHANGED vars
  PROVE  IInv'
<1>1. ASSUME NEW r \in Requests, NEW drift \in -MaxDrift .. MaxDrift, Send(r, drift)
      PROVE  IInv'
  <2>1. now + drift \in Int
    BY ConstantsAssumption DEF ConstantsAssumption, IInv, TypeOK
  <2>2. \A q \in executed : issued'[q] = issued[q]
    BY <1>1 DEF Send, IInv, TypeOK
  <2>3. Remembered'
    BY <1>1, <2>2 DEF Send, IInv, Remembered, Slots
  <2> QED
    BY <1>1, <2>1, <2>3 DEF Send, IInv, TypeOK, OneSlotPerId, ExecutedOnce, Slots
<1>2. CASE Tick
  <2>1. Remembered'
    <3> SUFFICES ASSUME NEW q \in executed \ forgotten
                 PROVE  \/ now' > issued[q] + Skew
                        \/ \E i \in Slots : entries[i].id = q /\ issued[q] <= entries[i].at + Skew
      BY <1>2 DEF Tick, Remembered, Slots
    <3>1. issued[q] \in Int /\ now \in Int /\ now' = now + 1 /\ Skew \in Int
      BY <1>2, ConstantsAssumption DEF Tick, IInv, TypeOK, ConstantsAssumption
    <3> QED
      BY <3>1 DEF IInv, Remembered
  <2> QED
    BY <1>2, <2>1 DEF Tick, IInv, TypeOK, OneSlotPerId, ExecutedOnce, Slots
<1>3. CASE Restart
  <2>1. Remembered'
    <3> SUFFICES ASSUME NEW q \in executed \ forgotten', q \notin forgotten
                 PROVE  now > issued[q] + Skew
      BY <1>3 DEF Restart, Remembered, Slots
    <3>1. q \in Requests /\ ~Known(q)
      BY <1>3 DEF Restart, IInv, TypeOK
    <3> QED
      BY <3>1, OutdatedIsPast, ConstantsAssumption DEF IInv, Remembered, Known, Holds
  <2> QED
    BY <1>3, <2>1, ConstantsAssumption
    DEF Restart, IInv, TypeOK, OneSlotPerId, ExecutedOnce, Slots, Free, ConstantsAssumption
<1>4. CASE UNCHANGED vars
  BY <1>4 DEF vars, IInv, TypeOK, OneSlotPerId, Remembered, ExecutedOnce, Slots
<1> QED
  BY <1>1, <1>2, <1>3, <1>4

\* The invariant holds in every reachable state.
THEOREM Inductive == Spec => []IInv
<1>1. ASSUME IInv, [Next]_vars PROVE IInv'
  BY <1>1, RefuseIInv, ServeIInv, OtherIInv DEF Next
<1> QED
  BY InitIInv, <1>1, PTL DEF Spec

\* cloud_handle_request executes a request once, however often and however late
\* the relay delivers its frame, for every table size and window, unless its id
\* was evicted or lost in a restart.
THEOREM OnceForEveryWindow == Spec => []ExecutedOnce
<1>1. IInv => ExecutedOnce
  BY DEF IInv
<1> QED
  BY Inductive, <1>1, PTL

\* cloud_replay_seen never records an id twice.
THEOREM SlotsAreUnique == Spec => []OneSlotPerId
<1>1. IInv => OneSlotPerId
  BY DEF IInv
<1> QED
  BY Inductive, <1>1, PTL

\* An entry that still counts is replaced only in a full table of such entries.
LEMMA ServeTakesOldest ==
  ASSUME TypeOK, NEW r \in Requests, NEW s \in Slots, NEW opens \in BOOLEAN,
         Serve(r, s, opens), NEW i \in Slots,
         entries[i].id # NoId, ~Outdated(entries[i]),
         entries'[i].id \notin {entries[i].id, NoId}
  PROVE  \A j \in Slots : /\ entries[j].id # NoId /\ ~Outdated(entries[j])
                          /\ entries[i].at <= entries[j].at
<1> DEFINE table == Swept(Size)
<1>1. /\ \A j \in Slots : table[j].at = entries[j].at
      /\ \A j \in Slots : table[j].id \in {entries[j].id, NoId}
      /\ table[i] = entries[i]
      /\ \A j \in Slots : Outdated(entries[j]) => table[j].id = NoId
      /\ table \in [Slots -> [id : Requests \cup {NoId}, at : Nat]]
  <2>1. Size \in Int /\ \A j \in Slots : j < Size
    BY ConstantsAssumption DEF ConstantsAssumption, Slots
  <2> QED
    BY <2>1, SweptFacts
<1>2. Takes(table, s) /\ entries' = [table EXCEPT ![s] = [id |-> r, at |-> now]]
  BY DEF Serve
<1> HIDE DEF table
<1>3. i = s
  BY <1>1, <1>2
<1>4. \A j \in Slots : table[j].id # NoId /\ table[i].at <= table[j].at
  BY <1>1, <1>2, <1>3 DEF Takes
<1> QED
  BY <1>1, <1>4

\* cloud_replay_seen gives up an id before its time only when every slot holds one
\* that still counts, and then the oldest, for every table size and window.
THEOREM OldestIsEvicted == Spec => OldestGoesFirst
<1> DEFINE Gone(i) == /\ entries[i].id # NoId /\ ~Outdated(entries[i])
                      /\ entries'[i].id \notin {entries[i].id, NoId}
           Oldest(i) == \A j \in Slots : /\ entries[j].id # NoId /\ ~Outdated(entries[j])
                                         /\ entries[i].at <= entries[j].at
<1>1. ASSUME IInv, Next, NEW i \in Slots, Gone(i)
      PROVE  Oldest(i)
  <2>1. CASE \E r \in Requests, s \in Slots, opens \in BOOLEAN : Serve(r, s, opens)
    BY <1>1, <2>1, ServeTakesOldest DEF IInv
  <2>2. CASE \E r \in Requests, k \in Slots : Refuse(r, k)
    <3>1. PICK k \in Slots : entries' = Swept(k)
      BY <2>2 DEF Refuse
    <3>2. k \in Int
      BY ConstantsAssumption DEF Slots, ConstantsAssumption
    <3> QED
      BY <1>1, <3>1, <3>2, SweptFacts DEF IInv
  <2>3. CASE entries' = entries \/ entries' = [k \in Slots |-> Free]
    BY <1>1, <2>3 DEF Free
  <2> QED
    BY <1>1, <2>1, <2>2, <2>3 DEF Next, Send, Tick, Restart
<1>2. IInv /\ [Next]_vars => [\A i \in Slots : Gone(i) => Oldest(i)]_vars
  BY <1>1
<1> QED
  BY <1>2, Inductive, PTL DEF Spec, OldestGoesFirst
=============================================================================
