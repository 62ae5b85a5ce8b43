------------------------ MODULE ComposerQueueSendProofs ------------------------
(***************************************************************************)
(* Proofs about what ComposerQueue sends: while the index is written the   *)
(* agent never gets a copy nobody asked for, and a message leaves as       *)
(* delivered only while the agent has it.                                  *)
(***************************************************************************)
EXTENDS ComposerQueueStoreProofs

----------------------------------------------------------------------------
(* Calls that may still bring a copy *)

\* A call that may still bring the agent a copy, or bring its message back.
Live(c) == c.phase # "answered" \/ c.answer \in {"busy", "unsupported"}
LiveFor(S, i) == {c \in S : c.item = i /\ Live(c)}

LEMMA GoingIs ==
  ASSUME TypeOK, NEW i \in Items
  PROVE  /\ Going(i) = Cardinality(LiveFor(calls, i)) /\ Going(i) \in Nat
         /\ Going(i)' = Cardinality(LiveFor(calls', i))
<1>1. IsFiniteSet(LiveFor(calls, i))
  BY FS_Subset DEF TypeOK, LiveFor
<1> QED BY <1>1, FS_CardinalityType DEF Going, LiveFor, Live

LEMMA GoingType ==
  ASSUME TypeOK, TypeOK', NEW i \in Items
  PROVE  Going(i) \in Nat /\ Going(i)' \in Nat
<1>1. IsFiniteSet(LiveFor(calls', i))
  BY FS_Subset DEF TypeOK, LiveFor
<1> QED BY <1>1, GoingIs, FS_CardinalityType

\* The same calls.
LEMMA SameGoing ==
  ASSUME UNCHANGED calls
  PROVE  \A i \in Items : Going(i)' = Going(i)
BY DEF Going

\* A call more, for message j.
LEMMA MoreGoing ==
  ASSUME TypeOK, NEW c, calls' = calls \cup {c}
  PROVE  \A i \in Items : Going(i)' <= IF i = c.item THEN Going(i) + 1 ELSE Going(i)
<1> TAKE i \in Items
<1> DEFINE U == LiveFor(calls, i)
<1>1. IsFiniteSet(U) /\ Cardinality(U) \in Nat
  BY FS_Subset, FS_CardinalityType DEF TypeOK, LiveFor
<1>2. IsFiniteSet(U \cup {c}) /\ Cardinality(U \cup {c}) <= Cardinality(U) + 1
  BY <1>1, FS_AddElement
<1>3. CASE i = c.item
  <2>1. LiveFor(calls', i) \in SUBSET (U \cup {c})
    BY DEF LiveFor
  <2>2. Cardinality(LiveFor(calls', i)) <= Cardinality(U \cup {c})
    BY <1>2, <2>1, FS_Subset
  <2>3. Cardinality(LiveFor(calls', i)) \in Nat /\ Cardinality(U \cup {c}) \in Nat
    BY <1>2, <2>1, FS_Subset, FS_CardinalityType
  <2> HIDE DEF U
  <2> QED BY <1>1, <1>2, <1>3, <2>2, <2>3, GoingIs DEF U
<1>4. CASE i # c.item
  <2>1. LiveFor(calls', i) = U
    BY <1>4 DEF LiveFor
  <2> QED BY <1>1, <1>4, <2>1, GoingIs
<1> QED BY <1>3, <1>4

\* A call less.
LEMMA LessGoing ==
  ASSUME TypeOK, NEW c \in calls, calls' = calls \ {c}
  PROVE  \A i \in Items : IF i = c.item /\ Live(c) THEN Going(i) >= 1 /\ Going(i)' = Going(i) - 1 ELSE Going(i)' = Going(i)
<1> TAKE i \in Items
<1> DEFINE U == LiveFor(calls, i)
<1>1. IsFiniteSet(U) /\ Cardinality(U) \in Nat
  BY FS_Subset, FS_CardinalityType DEF TypeOK, LiveFor
<1>2. LiveFor(calls', i) = IF i = c.item /\ Live(c) THEN U \ {c} ELSE U
  BY DEF LiveFor
<1>3. i = c.item /\ Live(c) => c \in U
  BY DEF LiveFor
<1>4. c \in U => Cardinality(U \ {c}) = Cardinality(U) - 1 /\ Cardinality(U \ {c}) \in Nat
  BY <1>1, FS_RemoveElement, FS_CardinalityType
<1> HIDE DEF U
<1>5. Going(i) = Cardinality(U) /\ Going(i)' = Cardinality(LiveFor(calls', i))
  BY GoingIs DEF U
<1> QED BY <1>1, <1>2, <1>3, <1>4, <1>5

\* A call that goes on as d, for the same message.
LEMMA ReplaceGoing ==
  ASSUME TypeOK, NEW c \in calls, Live(c), NEW d, d.item = c.item, Replace(c, d)
  PROVE  /\ Going(c.item) >= 1
         /\ \A i \in Items : Going(i)' <= Going(i)
         /\ ~Live(d) => Going(c.item)' = Going(c.item) - 1
<1> DEFINE j == c.item
           U == LiveFor(calls, j)
<1>1. j \in Items
  BY DEF TypeOK, Call
<1>2. IsFiniteSet(U) /\ Cardinality(U) \in Nat /\ c \in U
  BY FS_Subset, FS_CardinalityType DEF TypeOK, LiveFor
<1>3. /\ IsFiniteSet(U \ {c}) /\ Cardinality(U \ {c}) = Cardinality(U) - 1 /\ Cardinality(U \ {c}) \in Nat
      /\ Cardinality((U \ {c}) \cup {d}) <= Cardinality(U)
  <2> DEFINE V == U \ {c}
  <2>1. IsFiniteSet(V) /\ Cardinality(V) = Cardinality(U) - 1
    BY <1>2, FS_RemoveElement
  <2>2. Cardinality(V) \in Nat
    BY <2>1, FS_CardinalityType
  <2> HIDE DEF U, V
  <2>3. IsFiniteSet(V \cup {d}) /\ (Cardinality(V \cup {d}) = Cardinality(V) \/ Cardinality(V \cup {d}) = Cardinality(V) + 1)
    BY <2>1, FS_AddElement
  <2>4. Cardinality(V \cup {d}) <= Cardinality(U)
    BY <1>2, <2>1, <2>2, <2>3
  <2> QED BY <2>1, <2>2, <2>4 DEF V
<1>4. LiveFor(calls', j) = IF Live(d) THEN (U \ {c}) \cup {d} ELSE U \ {c}
  BY DEF Replace, LiveFor
<1>5. \A i \in Items : i # j => LiveFor(calls', i) = LiveFor(calls, i)
  BY DEF Replace, LiveFor
<1> HIDE DEF U, j
<1>6. Going(j) = Cardinality(U) /\ Going(j)' = Cardinality(LiveFor(calls', j))
  BY <1>1, GoingIs DEF U
<1>7. Going(j) >= 1 /\ Going(j)' <= Going(j) /\ (~Live(d) => Going(j)' = Going(j) - 1)
  BY <1>2, <1>3, <1>4, <1>6
<1>8. \A i \in Items : i # j => Going(i)' = Going(i) /\ Going(i) \in Nat
  BY <1>5, GoingIs
<1> QED BY <1>7, <1>8 DEF j

----------------------------------------------------------------------------
(* Which messages an operation queues *)

\* In r no message is queued that was not, except those of S.
Queues(q, r, S) == \A i \in Items : r.item[i].state = "queued" => q.item[i].state = "queued" \/ i \in S

LEMMA PutQueues ==
  ASSUME NEW q \in Store, NEW i \in Items, NEW it, NEW r, r.item = Put(q, i, it).item
  PROVE  /\ Queues(q, r, {i})
         /\ it.state # "queued" => Queues(q, r, {}) /\ r.item[i].state # "queued"
<1>1. r.item[i] = it /\ \A j \in Items : j # i => r.item[j] = q.item[j]
  BY DEF Store, Put
<1> QED BY <1>1 DEF Queues

LEMMA MarkedQueues ==
  ASSUME NEW q \in Store, NEW i \in Items, NEW state, NEW stage
  PROVE  /\ Queues(q, Marked(q, i, state, stage), {i})
         /\ state # "queued" => Queues(q, Marked(q, i, state, stage), {}) /\ Marked(q, i, state, stage).item[i].state # "queued"
<1>1. Changed(q.item[i], state, stage).state = state
  BY DEF Changed, Store, Item
<1>2. Marked(q, i, state, stage) = Put(q, i, Changed(q.item[i], state, stage))
  BY DEF Marked
<1> QED BY <1>1, <1>2, PutQueues

LEMMA ClaimedQueues ==
  ASSUME NEW q \in Store, NEW i \in Items
  PROVE  Queues(q, Claimed(q, i), {}) /\ Claimed(q, i).item[i].state = "dispatching" /\ Claimed(q, i).pause = q.pause
         /\ \A j \in Items : j # i => Claimed(q, i).item[j] = q.item[j]
<1>1. Claimed(q, i) = Marked(q, i, "dispatching", "sending")
  BY DEF Claimed, Marked
<1>2. Claimed(q, i).item[i].state = "dispatching" /\ Claimed(q, i).pause = q.pause
  BY DEF Claimed, Changed, Put, Store, Item
<1>3. \A j \in Items : j # i => Claimed(q, i).item[j] = q.item[j]
  BY DEF Claimed, Put, Store
<1>4. Queues(q, Marked(q, i, "dispatching", "sending"), {})
  BY MarkedQueues
<1> QED BY <1>1, <1>2, <1>3, <1>4

LEMMA EditedQueues ==
  ASSUME NEW q \in Store, NEW i \in Items, NEW words
  PROVE  Queues(q, Edited(q, i, words), {i} \cap InState(q, "failed"))
<1> DEFINE it == q.item[i]
           jt == Changed([it EXCEPT !.txt = words], IF it.state = "failed" THEN "queued" ELSE it.state, it.stage)
<1>1. jt.state = IF it.state = "failed" THEN "queued" ELSE it.state
  BY DEF Changed, Store, Item
<1>2. Edited(q, i, words) = Put(q, i, jt)
  BY DEF Edited
<1> HIDE DEF jt
<1>3. Edited(q, i, words).item[i] = jt /\ \A j \in Items : j # i => Edited(q, i, words).item[j] = q.item[j]
  BY <1>2 DEF Put, Store
<1> QED BY <1>1, <1>3 DEF Queues, InState

LEMMA MovedQueues ==
  ASSUME NEW q \in Store, NEW i \in Items, NEW k
  PROVE  Queues(q, Moved(q, i, k), {})
<1> DEFINE it == Changed(q.item[i], q.item[i].state, q.item[i].stage)
<1>1. it.state = q.item[i].state
  BY DEF Changed, Store, Item
<1>2. Moved(q, i, k).item = Put(q, i, it).item
  BY DEF Moved, Put, Store
<1> HIDE DEF it
<1>3. Moved(q, i, k).item[i] = it /\ \A j \in Items : j # i => Moved(q, i, k).item[j] = q.item[j]
  BY <1>2 DEF Put, Store
<1> QED BY <1>1, <1>3 DEF Queues

LEMMA AllChangedQueues ==
  ASSUME NEW q \in Store, NEW S, NEW state
  PROVE  /\ Queues(q, AllChanged(q, S, state), S)
         /\ state # "queued" => Queues(q, AllChanged(q, S, state), {})
<1>1. \A i \in Items : AllChanged(q, S, state).item[i] = IF i \in S THEN Changed(q.item[i], state, "none") ELSE q.item[i]
  BY DEF AllChanged, Store
<1>2. \A i \in Items : Changed(q.item[i], state, "none").state = state
  BY DEF Changed, Store, Item
<1> QED BY <1>1, <1>2 DEF Queues

LEMMA ResumedQueues ==
  ASSUME NEW q \in Store
  PROVE  Queues(q, Resumed(q), RetriedIn(q)) /\ \A i \in Items : q.item[i].state # "failed" => Resumed(q).item[i] = q.item[i]
<1> DEFINE r == AllChanged(q, InState(q, "failed"), "queued")
<1>1. Queues(q, r, InState(q, "failed"))
  BY AllChangedQueues
<1>2. \A i \in Items : q.item[i].state # "failed" => r.item[i] = q.item[i]
  BY DEF AllChanged, InState, Store
<1>3. [r EXCEPT !.pause = "no"].item = r.item
  BY DEF AllChanged, Store
<1>4. Resumed(q) = IF q.pause = "no" THEN q ELSE [r EXCEPT !.pause = "no"]
  BY DEF Resumed
<1> HIDE DEF r
<1>5. CASE q.pause = "no"
  BY <1>4, <1>5 DEF Queues
<1>6. CASE q.pause # "no"
  <2>1. RetriedIn(q) = InState(q, "failed") /\ Resumed(q).item = r.item
    BY <1>3, <1>4, <1>6 DEF RetriedIn
  <2> QED BY <1>1, <1>2, <2>1 DEF Queues
<1> QED BY <1>5, <1>6

LEMMA RetiredQueues ==
  ASSUME NEW q \in Store, NEW S \in SUBSET Items, NEW outcome \in {"delivered", "removed"}
  PROVE  Queues(q, Retired(q, S, outcome), {})
BY RetiredStep DEF Queues

LEMMA SameQueues ==
  ASSUME NEW q, NEW r, NEW s, NEW S, Queues(q, r, S), s.item = r.item
  PROVE  Queues(q, s, S)
BY DEF Queues

LEMMA PausedQueues ==
  ASSUME NEW q \in Store, NEW r \in Store, NEW S, Queues(q, r, S), NEW reason
  PROVE  Queues(q, Paused(r, reason), S)
<1>1. Paused(r, reason).item = r.item
  BY DEF Paused, Store
<1> QED BY <1>1, SameQueues

LEMMA SettledQueues ==
  ASSUME NEW q \in Store, NEW i \in Items, NEW answer, q.item[i].state = "dispatching"
  PROVE  Queues(q, Settled(q, i, answer), IF answer \in {"busy", "unsupported"} THEN {i} ELSE {})
<1>0. q.item[i].state \in PRESENT /\ {"dispatching", "queued", "failed"} \subseteq PRESENT /\ {"none", "native", "accepted"} \subseteq STAGES
  BY DEF PRESENT, WAITING, STAGES
<1>1. CASE answer = "delivered"
  BY <1>1, RetiredQueues DEF Settled
<1>2. CASE answer = "accepted"
  BY <1>2, MarkedQueues DEF Settled
<1>3. CASE answer \in {"busy", "unsupported"}
  <2>1. Settled(q, i, answer) = Fronted(Marked(q, i, "queued", "none"), i)
    BY <1>3 DEF Settled
  <2>2. Queues(q, Marked(q, i, "queued", "none"), {i}) /\ Follows(q, Marked(q, i, "queued", "none"), {})
    BY <1>0, MarkedStep, MarkedQueues
  <2> QED BY <1>3, <2>1, <2>2, FrontedStep, SameQueues DEF Follows
<1>4. CASE answer \notin {"delivered", "accepted", "busy", "unsupported"}
  <2>1. Settled(q, i, answer) = Paused(Marked(q, i, "failed", "none"), "failed")
    BY <1>4 DEF Settled
  <2>2. Queues(q, Marked(q, i, "failed", "none"), {}) /\ Follows(q, Marked(q, i, "failed", "none"), {})
    BY <1>0, MarkedStep, MarkedQueues
  <2> QED BY <1>4, <2>1, <2>2, PausedQueues DEF Follows
<1> QED BY <1>1, <1>2, <1>3, <1>4

LEMMA TurnEndedQueues ==
  ASSUME NEW q \in Store, NEW outcome
  PROVE  Queues(q, TurnEnded(q, outcome), {})
<1>1. TakenIn(q) \in SUBSET Present(q) /\ TakenIn(q) \in SUBSET Items /\ "attention" \in PRESENT
  BY DEF TakenIn, InState, Present, PRESENT, WAITING
<1>2. CASE outcome = "completed"
  BY <1>1, <1>2, RetiredQueues DEF TurnEnded
<1>3. CASE outcome # "completed"
  <2>1. Queues(q, AllChanged(q, TakenIn(q), "attention"), {}) /\ Follows(q, AllChanged(q, TakenIn(q), "attention"), {})
    BY <1>1, AllChangedStep, AllChangedQueues
  <2> QED BY <1>3, <2>1, PausedQueues DEF TurnEnded, Follows
<1> QED BY <1>2, <1>3

----------------------------------------------------------------------------
(* Every copy has a wish of its own *)

\* A step that queues the messages of S, each with a wish, and sends nothing.
LEMMA WishStep ==
  ASSUME TypeOK, TypeOK', NoSilentResendEver, NEW S, Queues(store, store', S),
         \A i \in Items : Going(i)' <= Going(i),
         \A i \in Items : wishes'[i] >= wishes[i] + IF i \in S THEN 1 ELSE 0
  PROVE  NoSilentResendEver'
<1> SUFFICES ASSUME NEW i \in Items
             PROVE  Going(i)' + (IF store'.item[i].state = "queued" THEN 1 ELSE 0) <= wishes'[i]
  BY DEF NoSilentResendEver
<1>1. Going(i) \in Nat /\ Going(i)' \in Nat /\ wishes[i] \in Nat /\ wishes'[i] \in Nat
  BY GoingType DEF TypeOK
<1>2. Going(i) + (IF store.item[i].state = "queued" THEN 1 ELSE 0) <= wishes[i]
  BY DEF NoSilentResendEver
<1>3. Going(i)' <= Going(i) /\ wishes'[i] >= wishes[i] + IF i \in S THEN 1 ELSE 0
  OBVIOUS
<1>4. store'.item[i].state = "queued" => store.item[i].state = "queued" \/ i \in S
  BY DEF Queues
<1> QED BY <1>1, <1>2, <1>3, <1>4

LEMMA AskedWishes ==
  ASSUME TypeOK, NEW S, wishes' = Asked(S)
  PROVE  \A i \in Items : wishes'[i] >= wishes[i] + IF i \in S THEN 1 ELSE 0
<1>1. \A i \in Items : wishes[i] \in Nat
  BY DEF TypeOK
<1> QED BY <1>1 DEF Asked

LEMMA SameWishes ==
  ASSUME TypeOK, UNCHANGED wishes
  PROVE  \A i \in Items : wishes'[i] >= wishes[i] + IF i \in {} THEN 1 ELSE 0
<1>1. \A i \in Items : wishes[i] \in Nat
  BY DEF TypeOK
<1> QED BY <1>1

LEMMA SameCalls ==
  ASSUME TypeOK, UNCHANGED calls
  PROVE  \A i \in Items : Going(i)' <= Going(i)
<1>1. \A i \in Items : Going(i) \in Nat
  BY GoingIs
<1> QED BY <1>1, SameGoing

LEMMA SameItems ==
  ASSUME UNCHANGED store
  PROVE  Queues(store, store', {})
BY DEF Queues

LEMMA PersonWishes ==
  ASSUME TypeOK, TypeOK', NoSilentResendEver, PersonNext
  PROVE  NoSilentResendEver'
<1> USE DEF hostVars, agentVars, history, files
<1>0. store \in Store
  BY DEF TypeOK
<1>1. ASSUME NEW i \in Items, Add(i) PROVE NoSilentResendEver'
  <2>1. Added(store, i).item = Put(store, i, QueuedItem).item
    BY <1>0 DEF Added, Put, Store
  <2>2. Queues(store, store', {i})
    BY <1>0, <1>1, <2>1, PutQueues DEF Add
  <2> QED BY <1>1, <2>2, WishStep, AskedWishes, SameCalls DEF Add
<1>2. ASSUME NEW d \in Devices, Read(d) \/ Conflict(d) PROVE NoSilentResendEver'
  <2>1. Queues(store, store', {})
    BY <1>2, SameItems DEF Read, Conflict
  <2> QED BY <1>2, <2>1, WishStep, SameWishes, SameCalls DEF Read, Conflict
<1>3. ASSUME NEW d \in Devices, NEW i \in Items, Edit(d, i) PROVE NoSilentResendEver'
  <2>1. store' = Edited(store, i, text[i] + 1)
    BY <1>3, CommitStore DEF Edit
  <2>2. Queues(store, store', {i} \cap InState(store, "failed"))
    BY <1>0, <2>1, EditedQueues
  <2> QED BY <1>3, <2>2, WishStep, AskedWishes, SameCalls DEF Edit
<1>4. ASSUME NEW d \in Devices, NEW i \in Items, Withdraw(d, i) PROVE NoSilentResendEver'
  <2>1. store' = Retired(store, {i}, "removed")
    BY <1>4, CommitStore DEF Withdraw
  <2>2. Queues(store, store', {})
    BY <1>0, <2>1, RetiredQueues
  <2> QED BY <1>4, <2>2, WishStep, SameWishes, SameCalls DEF Withdraw
<1>5. ASSUME NEW d \in Devices, NEW i \in Items, Move(d, i) PROVE NoSilentResendEver'
  <2>1. PICK k : Commit(Moved(store, i, k), 1)
    BY <1>5 DEF Move
  <2>2. Queues(store, store', {})
    BY <1>0, <2>1, CommitStore, MovedQueues
  <2> QED BY <1>5, <2>2, WishStep, SameWishes, SameCalls DEF Move
<1>6. ASSUME NEW d \in Devices, NEW i \in Items, SendNow(d, i) PROVE NoSilentResendEver'
  <2> DEFINE r == Claimed(store, i)
             q == Resumed(r)
             c == Prepared(i, q, TRUE)
             S == RetriedIn(store) \cup ({i} \ InState(store, "queued"))
  <2>1. store' = q /\ calls' = calls \cup {c} /\ wishes' = Asked(S)
    BY <1>6, CommitStore DEF SendNow
  <2>2. c.item = i
    BY DEF Prepared
  <2>3. store.item[i].state \in PRESENT
    BY <1>6 DEF SendNow, MayChange, Present
  <2>4. r \in Store /\ Queues(store, r, {}) /\ r.item[i].state = "dispatching"
        /\ \A j \in Items : j # i => r.item[j] = store.item[j]
    BY <1>0, <2>3, ClaimedStep, ClaimedQueues DEF Follows
  <2>5. r.pause = store.pause
    BY <1>0, ClaimedQueues
  <2> HIDE DEF c, r
  <2>6. Queues(r, q, RetriedIn(r)) /\ q.item[i] = r.item[i]
    BY <2>4, ResumedQueues
  <2> HIDE DEF q
  <2>7. RetriedIn(r) \subseteq RetriedIn(store)
    BY <2>4, <2>5 DEF RetriedIn, InState
  <2>8. Queues(store, q, RetriedIn(store)) /\ q.item[i].state # "queued"
    BY <2>4, <2>6, <2>7 DEF Queues
  <2> SUFFICES ASSUME NEW j \in Items
               PROVE  Going(j)' + (IF store'.item[j].state = "queued" THEN 1 ELSE 0) <= wishes'[j]
    BY DEF NoSilentResendEver
  <2>9. Going(j) \in Nat /\ Going(j)' \in Nat /\ wishes[j] \in Nat
    BY GoingType DEF TypeOK
  <2>10. Going(j) + (IF store.item[j].state = "queued" THEN 1 ELSE 0) <= wishes[j]
    BY DEF NoSilentResendEver
  <2>11. Going(j)' <= IF j = i THEN Going(j) + 1 ELSE Going(j)
    BY <2>1, <2>2, MoreGoing
  <2>12. wishes'[j] = wishes[j] + IF j \in S THEN 1 ELSE 0
    BY <2>1 DEF Asked
  <2>13. CASE j = i
    <3>1. i \in S \/ store.item[i].state = "queued"
      BY DEF InState
    <3> HIDE DEF S
    <3> QED BY <2>1, <2>8, <2>9, <2>10, <2>11, <2>12, <2>13, <3>1
  <2>14. CASE j # i
    <3>1. store'.item[j].state = "queued" => store.item[j].state = "queued" \/ j \in S
      BY <2>1, <2>8 DEF Queues
    <3> HIDE DEF S
    <3> QED BY <2>9, <2>10, <2>11, <2>12, <2>14, <3>1
  <2> QED BY <2>13, <2>14
<1>7. CASE Resume \/ DirectSend
  <2>1. store' = Resumed(store)
    BY <1>7, CommitStore DEF Resume, DirectSend
  <2>2. Queues(store, store', RetriedIn(store))
    BY <1>0, <2>1, ResumedQueues
  <2> QED BY <1>7, <2>2, WishStep, AskedWishes, SameCalls DEF Resume, DirectSend
<1>8. CASE Stop
  <2>1. store' = Paused(store, "stopped")
    BY <1>8, CommitStore DEF Stop
  <2>2. Queues(store, store', {})
    BY <1>0, <2>1, PausedStep DEF Queues, PAUSES
  <2> QED BY <1>8, <2>2, WishStep, SameWishes, SameCalls DEF Stop
<1>9. CASE Reopens
  <2>1. Queues(store, store', {})
    BY <1>9, SameItems DEF Reopens
  <2> QED BY <1>9, <2>1, WishStep, SameWishes, SameCalls DEF Reopens
<1> QED BY <1>1, <1>2, <1>3, <1>4, <1>5, <1>6, <1>7, <1>8, <1>9 DEF PersonNext

\* A call that goes on as one that brings no copy uses up one wish.
LEMMA UsedWish ==
  ASSUME TypeOK, TypeOK', NoSilentResendEver, UNCHANGED store, NEW c \in calls, Live(c), NEW d, d.item = c.item,
         ~Live(d), Replace(c, d), wishes' = [wishes EXCEPT ![c.item] = Less(@, 1)]
  PROVE  NoSilentResendEver'
<1> SUFFICES ASSUME NEW i \in Items
             PROVE  Going(i)' + (IF store.item[i].state = "queued" THEN 1 ELSE 0) <= wishes'[i]
  BY DEF NoSilentResendEver
<1> DEFINE j == c.item
<1>1. Going(i) \in Nat /\ Going(i)' \in Nat /\ wishes[i] \in Nat
  BY GoingType DEF TypeOK
<1>2. Going(i) + (IF store.item[i].state = "queued" THEN 1 ELSE 0) <= wishes[i]
  BY DEF NoSilentResendEver
<1>3. Going(i)' <= Going(i) /\ (i = j => Going(i) >= 1 /\ Going(i)' = Going(i) - 1)
  BY ReplaceGoing
<1>4. wishes'[i] = IF i = j THEN Less(wishes[i], 1) ELSE wishes[i]
  BY DEF TypeOK
<1> HIDE DEF j
<1> QED BY <1>1, <1>2, <1>3, <1>4 DEF Less

\* A call that goes on as one that may still bring a copy.
LEMMA KeptWish ==
  ASSUME TypeOK, TypeOK', NoSilentResendEver, UNCHANGED <<store, wishes>>, NEW c \in calls, Live(c), NEW d, d.item = c.item,
         Replace(c, d)
  PROVE  NoSilentResendEver'
<1>1. \A i \in Items : Going(i)' <= Going(i)
  BY ReplaceGoing
<1> QED BY <1>1, WishStep, SameWishes, SameItems

LEMMA AnsweredLive ==
  ASSUME TypeOK, NEW c \in calls, NEW answer
  PROVE  /\ Answered(c, answer).item = c.item
         /\ Live(Answered(c, answer)) <=> answer \in {"busy", "unsupported"}
         /\ c.phase # "answered" => Live(c)
BY DEF Answered, Live, TypeOK, Call

LEMMA HostWishes ==
  ASSUME TypeOK, TypeOK', NoSilentResendEver, HostNext
  PROVE  NoSilentResendEver'
<1> USE DEF hostVars, agentVars, history, files
<1>0. store \in Store
  BY DEF TypeOK
<1>1. ASSUME UNCHANGED <<calls, wishes>>, Queues(store, store', {}) PROVE NoSilentResendEver'
  BY <1>1, WishStep, SameWishes, SameCalls
<1>2. CASE DispatchBegins \/ DispatchYields \/ ObserveBegan
  BY <1>1, <1>2, SameItems DEF DispatchBegins, DispatchYields, ObserveBegan
<1>3. ASSUME NEW i \in Items, DispatchClaims(i) PROVE NoSilentResendEver'
  <2> DEFINE r == Claimed(store, i)
             c == Prepared(i, r, FALSE)
  <2>1. store' = r /\ calls' = calls \cup {c} /\ wishes' = wishes
    BY <1>3, CommitStore DEF DispatchClaims
  <2>2. c.item = i /\ store.item[i].state = "queued"
    BY <1>3 DEF Prepared, DispatchClaims, IsReady, InState
  <2>3. Queues(store, r, {}) /\ r.item[i].state = "dispatching"
    BY <1>0, ClaimedQueues
  <2> HIDE DEF c, r
  <2> SUFFICES ASSUME NEW j \in Items
               PROVE  Going(j)' + (IF store'.item[j].state = "queued" THEN 1 ELSE 0) <= wishes'[j]
    BY DEF NoSilentResendEver
  <2>4. Going(j) \in Nat /\ Going(j)' \in Nat /\ wishes[j] \in Nat
    BY GoingType DEF TypeOK
  <2>5. Going(j) + (IF store.item[j].state = "queued" THEN 1 ELSE 0) <= wishes[j]
    BY DEF NoSilentResendEver
  <2>6. Going(j)' <= IF j = i THEN Going(j) + 1 ELSE Going(j)
    BY <2>1, <2>2, MoreGoing
  <2>7. store'.item[j].state = "queued" => store.item[j].state = "queued" /\ j # i
    BY <2>1, <2>3 DEF Queues
  <2> QED BY <2>1, <2>2, <2>4, <2>5, <2>6, <2>7
<1>4. ASSUME NEW i \in Items, ConfirmExpires(i) PROVE NoSilentResendEver'
  <2>1. store' = Retired(store, {i}, "delivered") \/ store' = store
    BY <1>4, CommitStore DEF ConfirmExpires
  <2>2. Queues(store, store', {})
    BY <1>0, <2>1, RetiredQueues, SameItems
  <2> QED BY <1>1, <1>4, <2>2 DEF ConfirmExpires
<1>5. ASSUME NEW c \in calls, TurnsBack(c) PROVE NoSilentResendEver'
  <2>1. PICK answer \in Unsent(c) : Replace(c, Answered(c, answer)) /\ Lapses(c, answer)
    BY <1>5 DEF TurnsBack
  <2>2. Live(c)
    BY <1>5, AnsweredLive DEF TurnsBack
  <2>3. CASE answer = "reject"
    BY <1>5, <2>1, <2>2, <2>3, AnsweredLive, UsedWish DEF TurnsBack, Lapses
  <2>4. CASE answer # "reject"
    BY <1>5, <2>1, <2>2, <2>4, AnsweredLive, KeptWish DEF TurnsBack, Lapses
  <2> QED BY <2>3, <2>4
<1>6. ASSUME NEW c \in calls, HandsOver(c) PROVE NoSilentResendEver'
  <2> DEFINE d == [c EXCEPT !.phase = "sent", !.via = Via(c.jump)]
  <2>1. Replace(c, d) /\ d.item = c.item /\ Live(c)
    BY <1>6 DEF HandsOver, Live, TypeOK, Call
  <2> HIDE DEF d
  <2> QED BY <1>6, <2>1, KeptWish DEF HandsOver
<1>7. ASSUME NEW c \in calls, Settle(c) PROVE NoSilentResendEver'
  <2> DEFINE i == c.item
             S == IF c.answer \in {"busy", "unsupported"} /\ OnItsWay(i) THEN {i} ELSE {}
  <2>1. i \in Items /\ c.phase = "answered" /\ calls' = calls \ {c} /\ wishes' = wishes
    BY <1>7 DEF TypeOK, Call, Settle
  <2>2. Queues(store, store', S)
    <3>1. CASE OnItsWay(i)
      <4>1. store' = Settled(store, i, c.answer)
        BY <1>7, <3>1, CommitStore DEF Settle, OnItsWay
      <4> QED BY <1>0, <2>1, <3>1, <4>1, SettledQueues DEF OnItsWay
    <3>2. CASE ~OnItsWay(i)
      BY <1>7, <3>2 DEF Settle, OnItsWay, Queues
    <3> QED BY <3>1, <3>2
  <2> SUFFICES ASSUME NEW j \in Items
               PROVE  Going(j)' + (IF store'.item[j].state = "queued" THEN 1 ELSE 0) <= wishes'[j]
    BY DEF NoSilentResendEver
  <2>3. Going(j) \in Nat /\ Going(j)' \in Nat /\ wishes[j] \in Nat
    BY GoingType DEF TypeOK
  <2>4. Going(j) + (IF store.item[j].state = "queued" THEN 1 ELSE 0) <= wishes[j]
    BY DEF NoSilentResendEver
  <2>5. IF j = i /\ Live(c) THEN Going(j) >= 1 /\ Going(j)' = Going(j) - 1 ELSE Going(j)' = Going(j)
    BY <2>1, LessGoing
  <2>6. store'.item[j].state = "queued" => store.item[j].state = "queued" \/ j \in S
    BY <2>2 DEF Queues
  <2>7. j \in S => j = i /\ Live(c)
    BY DEF Live
  <2> HIDE DEF i, S
  <2> QED BY <2>1, <2>3, <2>4, <2>5, <2>6, <2>7
<1>8. CASE ObserveNative
  <2>1. store' = Marked(store, Head(wire).item, "dispatching", "native") \/ store' = store
    BY <1>8, CommitStore DEF ObserveNative
  <2>2. Head(wire).item \in Items
    BY <1>8, HeadType DEF ObserveNative
  <2>3. Queues(store, store', {})
    BY <1>0, <2>1, <2>2, MarkedQueues, SameItems
  <2> QED BY <1>1, <1>8, <2>3 DEF ObserveNative
<1>9. CASE ObserveStarted
  <2>1. store' = Retired(store, {Head(wire).item}, "delivered") \/ store' = store
    BY <1>9, CommitStore DEF ObserveStarted
  <2>2. Head(wire).item \in Items
    BY <1>9, HeadType DEF ObserveStarted
  <2>3. Queues(store, store', {})
    BY <1>0, <2>1, <2>2, RetiredQueues, SameItems
  <2> QED BY <1>1, <1>9, <2>3 DEF ObserveStarted
<1>10. CASE ObserveRefused
  <2> DEFINE i == Head(wire).item
             r == Marked(store, i, "failed", "none")
  <2>1. i \in Items
    BY <1>10, HeadType DEF ObserveRefused
  <2>2. CASE OnItsWay(i)
    <3>1. store' = Paused(r, "failed")
      BY <1>10, <2>2, CommitStore DEF ObserveRefused
    <3> HIDE DEF i
    <3>2. Follows(store, r, {}) /\ Queues(store, r, {})
      BY <1>0, <2>1, <2>2, MarkedStep, MarkedQueues DEF OnItsWay, PRESENT, WAITING, STAGES
    <3>3. Queues(store, store', {})
      BY <1>0, <3>1, <3>2, PausedQueues DEF Follows
    <3> QED BY <1>1, <1>10, <3>3 DEF ObserveRefused
  <2>3. CASE ~OnItsWay(i)
    BY <1>1, <1>10, <2>3, SameItems DEF ObserveRefused
  <2> QED BY <2>2, <2>3
<1>11. CASE ObserveEnded
  <2>1. store' = TurnEnded(store, Head(wire).outcome)
    BY <1>11, CommitStore DEF ObserveEnded
  <2>2. Queues(store, store', {})
    BY <1>0, <2>1, TurnEndedQueues
  <2> QED BY <1>1, <1>11, <2>2 DEF ObserveEnded
<1>12. CASE Reclaim
  <2> DEFINE back == {i \in Held : OnItsWay(i)}
  <2>1. PICK fresh \in SUBSET InState(store, "new") :
          GivesBack(store, store', back, fresh) /\ wishes' = Asked(back \cup fresh)
    BY <1>12, ReclaimStep
  <2>2. Queues(store, store', back \cup fresh)
    BY <2>1 DEF GivesBack, Queues
  <2> HIDE DEF back
  <2>3. UNCHANGED calls
    BY <1>12 DEF Reclaim
  <2>4. \A i \in Items : wishes'[i] >= wishes[i] + IF i \in back \cup fresh THEN 1 ELSE 0
    BY <2>1, AskedWishes
  <2>5. \A i \in Items : Going(i)' <= Going(i)
    BY <2>3, SameCalls
  <2> QED BY <2>2, <2>4, <2>5, WishStep
<1> QED BY <1>2, <1>3, <1>4, <1>5, <1>6, <1>7, <1>8, <1>9, <1>10, <1>11, <1>12 DEF HostNext

LEMMA AgentWishes ==
  ASSUME TypeOK, TypeOK', NoSilentResendEver, AgentNext \/ Locks \/ Unlocks \/ UNCHANGED vars
  PROVE  NoSilentResendEver'
<1> USE DEF hostVars, agentVars, history, files
<1>1. ASSUME NEW c \in calls, AgentRuns(c) PROVE NoSilentResendEver'
  <2>1. PICK answer \in {"delivered", "accepted", "reject"} : Replace(c, Answered(c, answer))
    BY <1>1 DEF AgentRuns
  <2> QED BY <1>1, <2>1, AnsweredLive, UsedWish DEF AgentRuns, Takes
<1>2. ASSUME NEW c \in calls, AgentHolds(c) PROVE NoSilentResendEver'
  <2>1. Live(c) /\ Answered(c, "accepted").item = c.item /\ ~Live(Answered(c, "accepted"))
    BY <1>2, AnsweredLive DEF AgentHolds
  <2>2. Replace(c, Answered(c, "accepted")) /\ UNCHANGED store /\ wishes' = [wishes EXCEPT ![c.item] = Less(@, 1)]
    BY <1>2 DEF AgentHolds, Takes
  <2> QED BY <2>1, <2>2, UsedWish
<1>3. ASSUME NEW c \in calls, AgentDeclines(c) PROVE NoSilentResendEver'
  <2>1. Live(c) /\ UNCHANGED store
    BY <1>3, AnsweredLive DEF AgentDeclines
  <2>2. CASE Replace(c, Answered(c, "reject")) /\ Lapses(c, "reject")
    <3>1. Answered(c, "reject").item = c.item /\ ~Live(Answered(c, "reject"))
      BY AnsweredLive
    <3>2. wishes' = [wishes EXCEPT ![c.item] = Less(@, 1)]
      BY <2>2 DEF Lapses
    <3> QED BY <2>1, <2>2, <3>1, <3>2, UsedWish
  <2>3. CASE Replace(c, Answered(c, "busy")) /\ UNCHANGED wishes
    BY <2>1, <2>3, AnsweredLive, KeptWish
  <2> QED BY <1>3, <2>2, <2>3 DEF AgentDeclines
<1>4. ASSUME UNCHANGED <<store, calls, wishes>> PROVE NoSilentResendEver'
  BY <1>4, WishStep, SameWishes, SameCalls, SameItems
<1>5. CASE Locks \/ Unlocks \/ UNCHANGED vars
  BY <1>4, <1>5 DEF Locks, Unlocks, vars
<1> QED BY <1>1, <1>2, <1>3, <1>4, <1>5
      DEF AgentNext, AgentStarts, AgentQueues, AgentRefuses, AgentEnds, AgentExits

\* A restart drops the calls, each with its wish, and queues nothing.
LEMMA RestartWishes ==
  ASSUME TypeOK, TypeOK', NoSilentResendEver, disk = store, Restart
  PROVE  NoSilentResendEver'
<1> SUFFICES ASSUME NEW i \in Items
             PROVE  Going(i)' + (IF store'.item[i].state = "queued" THEN 1 ELSE 0) <= wishes'[i]
  BY DEF NoSilentResendEver
<1>1. Going(i) \in Nat /\ wishes[i] \in Nat
  BY GoingType DEF TypeOK
<1>2. Going(i) + (IF store.item[i].state = "queued" THEN 1 ELSE 0) <= wishes[i]
  BY DEF NoSilentResendEver
<1>3. Going(i)' = 0
  <2>1. LiveFor(calls', i) = {}
    BY DEF Restart, LiveFor
  <2> QED BY <2>1, GoingIs, FS_EmptySet
<1>4. wishes'[i] = Less(wishes[i], Going(i))
  BY DEF Restart
<1>5. store'.item[i].state = "queued" => store.item[i].state = "queued"
  <2> PICK index \in Store, cut \in SUBSET Items : index \in {disk, Empty} /\ Finds(index, cut)
    BY RestartFinds
  <2>1. store'.item[i] = IF i \in Kept(index, payload) THEN Restored(store.item[i]) ELSE Forgotten(store.item[i])
    BY EmptyStore DEF Finds, Loaded, Kept
  <2>2. Restored(store.item[i]).state = IF store.item[i].state = "dispatching" THEN "attention" ELSE store.item[i].state
    BY DEF Restored, Changed, TypeOK, Store, Item
  <2>3. Forgotten(store.item[i]).state = IF store.item[i].state \in PRESENT THEN "lost" ELSE store.item[i].state
    BY DEF Forgotten, NewItem
  <2> QED BY <2>1, <2>2, <2>3
<1> QED BY <1>1, <1>2, <1>3, <1>4, <1>5 DEF Less

\* While no index write has failed, every copy that is queued or on its way has a
\* person's wish of its own, for any number of messages, devices, faults and
\* restarts: a call that ends without sending, an answer, a claim, a message
\* taken back and a restart each move or use up exactly one wish.
THEOREM NoResend == Spec => []NoSilentResend
<1>1. Init => NoSilentResend
  <2> SUFFICES ASSUME Init, NEW i \in Items
               PROVE  Going(i) + (IF store.item[i].state = "queued" THEN 1 ELSE 0) <= wishes[i]
    BY DEF NoSilentResend, NoSilentResendEver
  <2>1. {c \in calls : c.item = i /\ (c.phase # "answered" \/ c.answer \in {"busy", "unsupported"})} = {}
    BY DEF Init
  <2>2. Going(i) = 0
    BY <2>1, FS_EmptySet DEF Going
  <2>3. store.item[i].state = "new" /\ wishes[i] = 0
    BY DEF Init, Empty, NewItem
  <2> QED BY <2>2, <2>3
<1>2. TypeOK /\ TypeOK' /\ IndexHolds /\ InStep /\ NothingLost /\ NoSilentResend /\ [Next]_vars => NoSilentResend'
  <2> SUFFICES ASSUME TypeOK, TypeOK', IndexHolds, InStep, NothingLost, NoSilentResend, [Next]_vars, spent'.saves = 0
               PROVE  NoSilentResendEver'
    BY DEF NoSilentResend
  <2>1. spent.saves \in Nat /\ (Sound => spent.saves <= spent'.saves)
    BY DEF TypeOK, Spent, Sound
  <2>2. spent.saves = 0
    BY <2>1, NextSound, RestartSound
  <2>3. NoSilentResendEver /\ disk = store
    BY <2>2 DEF NoSilentResend, InStep
  <2> QED BY <2>3, PersonWishes, HostWishes, AgentWishes, RestartWishes DEF Next
<1> QED BY TypeCorrect, FilesSound, <1>1, <1>2, PTL DEF Spec

----------------------------------------------------------------------------
(* Reports that the agent has, or had, a copy *)

\* The reports on wire w that speak of a copy of i the agent took.
Spoken(r, i) == r.kind \in {"started", "refused"} /\ r.item = i
ToldIn(w, i) == {k \in DOMAIN w : Spoken(w[k], i)}
One(b) == IF b THEN 1 ELSE 0

LEMMA ToldType ==
  ASSUME NEW w \in Seq(Report), NEW i
  PROVE  IsFiniteSet(ToldIn(w, i)) /\ Cardinality(ToldIn(w, i)) \in Nat
<1>1. Len(w) \in Nat /\ DOMAIN w = 1..Len(w)
  BY LenProperties
<1>2. IsFiniteSet(1..Len(w))
  BY <1>1, FS_Interval
<1>3. ToldIn(w, i) \in SUBSET (1..Len(w))
  BY <1>1 DEF ToldIn
<1> QED BY <1>2, <1>3, FS_Subset, FS_CardinalityType

LEMMA ToldAppend ==
  ASSUME NEW w \in Seq(Report), NEW r \in Report, NEW i
  PROVE  Cardinality(ToldIn(Append(w, r), i)) <= Cardinality(ToldIn(w, i)) + One(Spoken(r, i))
<1> DEFINE v == Append(w, r)
           U == ToldIn(w, i)
           n == Len(w) + 1
<1>1. Len(w) \in Nat /\ DOMAIN w = 1..Len(w)
  BY LenProperties
<1>2. v \in Seq(Report) /\ Len(v) = n /\ v[n] = r /\ \A k \in 1..Len(w) : v[k] = w[k]
  BY AppendProperties
<1>3. DOMAIN v = 1..n
  BY <1>2, LenProperties
<1> HIDE DEF v
<1>4. ToldIn(v, i) = IF Spoken(r, i) THEN U \cup {n} ELSE U
  BY <1>1, <1>2, <1>3 DEF ToldIn
<1>5. IsFiniteSet(U) /\ Cardinality(U) \in Nat
  BY ToldType
<1> HIDE DEF U, n
<1>6. Cardinality(U \cup {n}) = Cardinality(U) \/ Cardinality(U \cup {n}) = Cardinality(U) + 1
  BY <1>5, FS_AddElement
<1>7. Cardinality(ToldIn(v, i)) <= Cardinality(U) + One(Spoken(r, i))
  BY <1>4, <1>5, <1>6 DEF One
<1> QED BY <1>7 DEF U, v

LEMMA ToldTail ==
  ASSUME NEW w \in Seq(Report), w # <<>>, NEW i
  PROVE  Cardinality(ToldIn(Tail(w), i)) + One(Spoken(Head(w), i)) <= Cardinality(ToldIn(w, i))
<1> DEFINE v == Tail(w)
           U == ToldIn(w, i)
           V == ToldIn(v, i)
           f == [k \in V |-> k + 1]
<1>1. Len(w) \in Nat /\ DOMAIN w = 1..Len(w)
  BY LenProperties
<1>2. v \in Seq(Report) /\ Len(v) = Len(w) - 1 /\ \A k \in 1..Len(v) : v[k] = w[k + 1]
  BY HeadTailProperties
<1>3. DOMAIN v = 1..Len(v) /\ Len(v) \in Nat
  BY <1>2, LenProperties
<1>4. Head(w) = w[1] /\ 1 \in DOMAIN w
  BY <1>1, <1>2, <1>3
<1> HIDE DEF v
<1>5. \A k \in V : k \in Nat /\ k + 1 \in U \ {1}
  BY <1>1, <1>2, <1>3 DEF ToldIn
<1>6. IsFiniteSet(U) /\ Cardinality(U) \in Nat
  BY ToldType
<1>7. Cardinality(V) \in Nat
  BY <1>2, ToldType
<1>8. 1 \in U <=> Spoken(Head(w), i)
  BY <1>4 DEF ToldIn
<1> HIDE DEF U, V
<1>9. f \in Injection(V, U \ {1})
  BY <1>5 DEF Injection, IsInjective
<1>10. IsFiniteSet(U \ {1}) /\ Cardinality(U \ {1}) = IF 1 \in U THEN Cardinality(U) - 1 ELSE Cardinality(U)
  BY <1>6, FS_RemoveElement
<1>11. Cardinality(V) <= Cardinality(U \ {1})
  BY <1>9, <1>10, FS_Injection
<1>12. Cardinality(V) + One(Spoken(Head(w), i)) <= Cardinality(U)
  BY <1>6, <1>7, <1>8, <1>10, <1>11 DEF One
<1> QED BY <1>12 DEF U, V, v

----------------------------------------------------------------------------
(* Which messages an operation sends on their way *)

\* In r a message is on its way as it was in q, except those of S.
WayOnly(q, r, S) == \A i \in Items : r.item[i].state = "dispatching" => r.item[i] = q.item[i] \/ i \in S

LEMMA PutWay ==
  ASSUME NEW q \in Store, NEW i \in Items, NEW it, NEW r, r.item = Put(q, i, it).item
  PROVE  WayOnly(q, r, {i}) /\ r.item[i] = it /\ (it.state # "dispatching" => WayOnly(q, r, {}))
<1>1. r.item[i] = it /\ \A j \in Items : j # i => r.item[j] = q.item[j]
  BY DEF Store, Put
<1> QED BY <1>1 DEF WayOnly

LEMMA MarkedWay ==
  ASSUME NEW q \in Store, NEW i \in Items, NEW state, NEW stage
  PROVE  /\ WayOnly(q, Marked(q, i, state, stage), {i})
         /\ Marked(q, i, state, stage).item[i].stage = stage
         /\ state # "dispatching" => WayOnly(q, Marked(q, i, state, stage), {})
<1> DEFINE it == Changed(q.item[i], state, stage)
<1>1. it.state = state /\ it.stage = stage
  BY DEF Changed, Store, Item
<1>2. Marked(q, i, state, stage) = Put(q, i, it)
  BY DEF Marked
<1> HIDE DEF it
<1> QED BY <1>1, <1>2, PutWay

LEMMA EditedWay ==
  ASSUME NEW q \in Store, NEW i \in Items, q.item[i].state \in WAITING, NEW words
  PROVE  WayOnly(q, Edited(q, i, words), {})
<1> DEFINE it == q.item[i]
           jt == Changed([it EXCEPT !.txt = words], IF it.state = "failed" THEN "queued" ELSE it.state, it.stage)
<1>1. jt.state # "dispatching"
  BY DEF Changed, Store, Item, WAITING
<1>2. Edited(q, i, words) = Put(q, i, jt)
  BY DEF Edited
<1> HIDE DEF jt
<1>3. Edited(q, i, words).item[i] = jt /\ \A j \in Items : j # i => Edited(q, i, words).item[j] = q.item[j]
  BY <1>2 DEF Put, Store
<1> QED BY <1>1, <1>3 DEF WayOnly

LEMMA MovedWay ==
  ASSUME NEW q \in Store, NEW i \in Items, q.item[i].state \in WAITING, NEW k
  PROVE  WayOnly(q, Moved(q, i, k), {})
<1> DEFINE it == Changed(q.item[i], q.item[i].state, q.item[i].stage)
<1>1. it.state # "dispatching"
  BY DEF Changed, Store, Item, WAITING
<1>2. Moved(q, i, k).item = Put(q, i, it).item
  BY DEF Moved, Put, Store
<1> HIDE DEF it
<1>3. Moved(q, i, k).item[i] = it /\ \A j \in Items : j # i => Moved(q, i, k).item[j] = q.item[j]
  BY <1>2 DEF Put, Store
<1> QED BY <1>1, <1>3 DEF WayOnly

LEMMA AllChangedWay ==
  ASSUME NEW q \in Store, NEW S, NEW state, state # "dispatching"
  PROVE  WayOnly(q, AllChanged(q, S, state), {})
<1>1. \A i \in Items : AllChanged(q, S, state).item[i] = IF i \in S THEN Changed(q.item[i], state, "none") ELSE q.item[i]
  BY DEF AllChanged, Store
<1>2. \A i \in Items : Changed(q.item[i], state, "none").state = state
  BY DEF Changed, Store, Item
<1> QED BY <1>1, <1>2 DEF WayOnly

LEMMA SameWay ==
  ASSUME NEW q, NEW r, NEW s, NEW S, WayOnly(q, r, S), s.item = r.item
  PROVE  WayOnly(q, s, S)
BY DEF WayOnly

LEMMA PausedWay ==
  ASSUME NEW q \in Store, NEW r \in Store, NEW S, WayOnly(q, r, S), NEW reason
  PROVE  WayOnly(q, Paused(r, reason), S)
<1>1. Paused(r, reason).item = r.item
  BY DEF Paused, Store
<1> QED BY <1>1, SameWay

LEMMA ResumedWay ==
  ASSUME NEW q \in Store
  PROVE  WayOnly(q, Resumed(q), {})
<1> DEFINE r == AllChanged(q, InState(q, "failed"), "queued")
<1>1. WayOnly(q, r, {})
  BY AllChangedWay
<1>2. [r EXCEPT !.pause = "no"].item = r.item
  BY DEF AllChanged, Store
<1>3. Resumed(q) = IF q.pause = "no" THEN q ELSE [r EXCEPT !.pause = "no"]
  BY DEF Resumed
<1> HIDE DEF r
<1> QED BY <1>1, <1>2, <1>3, SameWay DEF WayOnly

LEMMA RetiredWay ==
  ASSUME NEW q \in Store, NEW S \in SUBSET Items, NEW outcome \in {"delivered", "removed"}
  PROVE  WayOnly(q, Retired(q, S, outcome), {})
<1>1. \A i \in Items : Retired(q, S, outcome).item[i] = IF i \in S THEN [NewItem EXCEPT !.state = outcome] ELSE q.item[i]
  BY DEF Retired, Store
<1>2. [NewItem EXCEPT !.state = outcome].state = outcome
  BY DEF NewItem
<1> QED BY <1>1, <1>2 DEF WayOnly

LEMMA SettledWay ==
  ASSUME NEW q \in Store, NEW i \in Items, NEW answer, q.item[i].state = "dispatching"
  PROVE  WayOnly(q, Settled(q, i, answer), IF answer = "accepted" THEN {i} ELSE {})
<1>0. q.item[i].state \in PRESENT /\ {"dispatching", "queued", "failed"} \subseteq PRESENT /\ {"none", "native", "accepted"} \subseteq STAGES
  BY DEF PRESENT, WAITING, STAGES
<1>1. CASE answer = "delivered"
  BY <1>1, RetiredWay DEF Settled
<1>2. CASE answer = "accepted"
  BY <1>2, MarkedWay DEF Settled
<1>3. CASE answer \in {"busy", "unsupported"}
  <2>1. Settled(q, i, answer) = Fronted(Marked(q, i, "queued", "none"), i)
    BY <1>3 DEF Settled
  <2>2. WayOnly(q, Marked(q, i, "queued", "none"), {}) /\ Follows(q, Marked(q, i, "queued", "none"), {})
    BY <1>0, MarkedStep, MarkedWay
  <2> QED BY <1>3, <2>1, <2>2, FrontedStep, SameWay DEF Follows
<1>4. CASE answer \notin {"delivered", "accepted", "busy", "unsupported"}
  <2>1. Settled(q, i, answer) = Paused(Marked(q, i, "failed", "none"), "failed")
    BY <1>4 DEF Settled
  <2>2. WayOnly(q, Marked(q, i, "failed", "none"), {}) /\ Follows(q, Marked(q, i, "failed", "none"), {})
    BY <1>0, MarkedStep, MarkedWay
  <2> QED BY <1>4, <2>1, <2>2, PausedWay DEF Follows
<1> QED BY <1>1, <1>2, <1>3, <1>4

LEMMA TurnEndedWay ==
  ASSUME NEW q \in Store, NEW outcome
  PROVE  WayOnly(q, TurnEnded(q, outcome), {})
<1>1. TakenIn(q) \in SUBSET Present(q) /\ TakenIn(q) \in SUBSET Items /\ "attention" \in PRESENT
  BY DEF TakenIn, InState, Present, PRESENT, WAITING
<1>2. CASE outcome = "completed"
  BY <1>1, <1>2, RetiredWay DEF TurnEnded
<1>3. CASE outcome # "completed"
  <2>1. WayOnly(q, AllChanged(q, TakenIn(q), "attention"), {}) /\ Follows(q, AllChanged(q, TakenIn(q), "attention"), {})
    BY <1>1, AllChangedStep, AllChangedWay
  <2> QED BY <1>3, <2>1, PausedWay DEF TurnEnded, Follows
<1> QED BY <1>2, <1>3

----------------------------------------------------------------------------
(* The agent took what its reports and its hold speak of *)

Backed == \A i \in Items : took[i] >= Cardinality(ToldIn(wire, i)) + One(holds[i] # "no")

LEMMA BackedType ==
  ASSUME TypeOK, NEW i \in Items
  PROVE  took[i] \in Nat /\ Cardinality(ToldIn(wire, i)) \in Nat /\ One(holds[i] # "no") \in {0, 1}
BY ToldType DEF TypeOK, One

LEMMA QuietBacked ==
  ASSUME Backed, UNCHANGED <<took, wire, holds>>
  PROVE  Backed'
BY DEF Backed

\* Reading a report.
LEMMA ReadBacked ==
  ASSUME TypeOK, Backed, wire # <<>>, wire' = Tail(wire), UNCHANGED holds,
         \A i \in Items : took'[i] = took[i] \/ (Spoken(Head(wire), i) /\ took'[i] = Less(took[i], 1))
  PROVE  Backed'
<1> SUFFICES ASSUME NEW i \in Items PROVE took'[i] >= Cardinality(ToldIn(Tail(wire), i)) + One(holds[i] # "no")
  BY DEF Backed
<1>1. took[i] >= Cardinality(ToldIn(wire, i)) + One(holds[i] # "no")
  BY DEF Backed
<1>2. Cardinality(ToldIn(Tail(wire), i)) + One(Spoken(Head(wire), i)) <= Cardinality(ToldIn(wire, i))
  BY ToldTail DEF TypeOK
<1>3. Cardinality(ToldIn(Tail(wire), i)) \in Nat
  <2>1. Tail(wire) \in Seq(Report)
    BY HeadTailProperties DEF TypeOK
  <2> QED BY <2>1, ToldType
<1>4. took'[i] = took[i] \/ (Spoken(Head(wire), i) /\ took'[i] = Less(took[i], 1))
  OBVIOUS
<1>5. took[i] \in Nat /\ Cardinality(ToldIn(wire, i)) \in Nat /\ One(holds[i] # "no") \in {0, 1}
  BY BackedType
<1>6. One(Spoken(Head(wire), i)) = IF Spoken(Head(wire), i) THEN 1 ELSE 0
  BY DEF One
<1> QED BY <1>1, <1>2, <1>3, <1>4, <1>5, <1>6 DEF Less

\* A step after which report r speaks of a copy just taken, or of one no longer held.
Truly(r) ==
  \A i \in Items : /\ took'[i] \in Nat /\ took'[i] >= took[i]
                   /\ holds'[i] = "no" \/ holds[i] # "no"
                   /\ Spoken(r, i) => \/ took'[i] >= took[i] + 1 /\ holds'[i] = holds[i]
                                      \/ holds[i] # "no" /\ holds'[i] = "no"

LEMMA TellBacked ==
  ASSUME TypeOK, Backed, NEW r \in Report, Tell(r), Truly(r)
  PROVE  Backed'
<1> SUFFICES ASSUME NEW i \in Items PROVE took'[i] >= Cardinality(ToldIn(wire', i)) + One(holds'[i] # "no")
  BY DEF Backed
<1>1. took[i] >= Cardinality(ToldIn(wire, i)) + One(holds[i] # "no")
  BY DEF Backed
<1>2. wire' = Append(wire, r)
  BY DEF Tell
<1>3. Cardinality(ToldIn(wire', i)) <= Cardinality(ToldIn(wire, i)) + One(Spoken(r, i))
  BY <1>2, ToldAppend DEF TypeOK
<1>4. Cardinality(ToldIn(wire', i)) \in Nat
  BY TellType, ToldType
<1>5. took[i] \in Nat /\ Cardinality(ToldIn(wire, i)) \in Nat
  BY BackedType
<1>6. /\ took'[i] \in Nat /\ took'[i] >= took[i]
      /\ holds'[i] = "no" \/ holds[i] # "no"
      /\ Spoken(r, i) => \/ took'[i] >= took[i] + 1 /\ holds'[i] = holds[i]
                         \/ holds[i] # "no" /\ holds'[i] = "no"
  BY DEF Truly
<1> QED BY <1>1, <1>3, <1>4, <1>5, <1>6 DEF One

LEMMA HostBacked ==
  ASSUME TypeOK, Backed, HostNext
  PROVE  Backed'
<1> USE DEF hostVars, agentVars, history, files
<1>1. ASSUME UNCHANGED <<took, wire, holds>> PROVE Backed'
  BY <1>1, QuietBacked
<1>2. CASE ObserveBegan \/ ObserveNative \/ ObserveStarted \/ ObserveEnded
  <2>1. wire # <<>> /\ wire' = Tail(wire) /\ UNCHANGED <<holds, took>>
    BY <1>2 DEF ObserveBegan, ObserveNative, ObserveStarted, ObserveEnded, Report1
  <2> QED BY <2>1, ReadBacked
<1>3. CASE ObserveRefused
  <2>1. wire # <<>> /\ wire' = Tail(wire) /\ UNCHANGED holds /\ Head(wire).kind = "refused"
    BY <1>3 DEF ObserveRefused, Report1
  <2>2. \A i \in Items : took'[i] = IF i = Head(wire).item THEN Less(took[i], 1) ELSE took[i]
    BY <1>3 DEF ObserveRefused, TypeOK
  <2> QED BY <2>1, <2>2, ReadBacked DEF Spoken
<1>4. CASE Reclaim
  <2>1. wire' = <<>> /\ holds' = [i \in Items |-> "no"]
    BY <1>4 DEF Reclaim
  <2>2. \A i \in Items : ToldIn(wire', i) = {}
    BY <2>1 DEF ToldIn
  <2>3. \A i \in Items : took'[i] \in Nat
    BY <1>4, HostType DEF HostNext, TypeOK
  <2> SUFFICES ASSUME NEW i \in Items PROVE took'[i] >= Cardinality(ToldIn(wire', i)) + One(holds'[i] # "no")
    BY DEF Backed
  <2>4. Cardinality(ToldIn(wire', i)) = 0
    BY <2>2, FS_EmptySet
  <2>5. One(holds'[i] # "no") = 0
    BY <2>1 DEF One
  <2> QED BY <2>3, <2>4, <2>5
<1> QED BY <1>1, <1>2, <1>3, <1>4
      DEF HostNext, DispatchBegins, DispatchYields, DispatchClaims, ConfirmExpires, TurnsBack, HandsOver, Settle

LEMMA AgentBacked ==
  ASSUME TypeOK, Backed, AgentNext
  PROVE  Backed'
<1> USE DEF hostVars, agentVars, history, files
<1>0. /\ \A i \in Items : took[i] \in Nat /\ took[i] + 1 \in Nat /\ took[i] + 1 >= took[i] /\ took[i] >= took[i]
      /\ \A c \in calls : c.item \in Items
  BY DEF TypeOK, Call
<1>1. ASSUME NEW c \in calls, Takes(c) PROVE \A i \in Items : took'[i] = IF i = c.item THEN took[i] + 1 ELSE took[i]
  BY <1>1 DEF Takes, TypeOK
<1>2. ASSUME NEW c \in calls, AgentRuns(c) PROVE Backed'
  <2> DEFINE r == About(IF agent = "codex" THEN "began" ELSE "started", c.item)
  <2>1. r \in Report /\ r.item = c.item
    BY <1>0, ReportType DEF About
  <2>2. Tell(r) /\ UNCHANGED holds
    BY <1>2 DEF AgentRuns
  <2>3. \A i \in Items : took'[i] = IF i = c.item THEN took[i] + 1 ELSE took[i]
    BY <1>1, <1>2 DEF AgentRuns
  <2> HIDE DEF r
  <2>4. Truly(r)
    BY <1>0, <2>1, <2>2, <2>3 DEF Spoken, Truly
  <2> QED BY <2>1, <2>2, <2>4, TellBacked
<1>3. ASSUME NEW c \in calls, AgentHolds(c) PROVE Backed'
  <2>1. \A i \in Items : took'[i] = IF i = c.item THEN took[i] + 1 ELSE took[i]
    BY <1>1, <1>3 DEF AgentHolds
  <2>2. UNCHANGED wire /\ \A i \in Items : i # c.item => holds'[i] = holds[i]
    BY <1>3 DEF AgentHolds, TypeOK
  <2> SUFFICES ASSUME NEW i \in Items PROVE took'[i] >= Cardinality(ToldIn(wire, i)) + One(holds'[i] # "no")
    BY <2>2 DEF Backed
  <2>3. took[i] >= Cardinality(ToldIn(wire, i)) + One(holds[i] # "no")
    BY DEF Backed
  <2>4. took[i] \in Nat /\ Cardinality(ToldIn(wire, i)) \in Nat /\ One(holds[i] # "no") \in {0, 1} /\ One(holds'[i] # "no") \in {0, 1}
    BY BackedType DEF One
  <2> QED BY <2>1, <2>2, <2>3, <2>4
<1>4. ASSUME NEW c \in calls, AgentDeclines(c) PROVE Backed'
  <2>1. UNCHANGED <<took, holds>> /\ (Tell(Ended("stopped")) \/ UNCHANGED wire)
    BY <1>4 DEF AgentDeclines
  <2>2. Ended("stopped") \in Report /\ \A i \in Items : ~Spoken(Ended("stopped"), i)
    BY ReportType DEF Ended, Spoken, OUTCOMES
  <2>3. Truly(Ended("stopped"))
    BY <1>0, <2>1, <2>2 DEF Truly
  <2> QED BY <2>1, <2>2, <2>3, TellBacked, QuietBacked
<1>5. ASSUME NEW i \in Items, AgentStarts(i) \/ AgentRefuses(i) PROVE Backed'
  <2>1. UNCHANGED took /\ holds[i] # "no" /\ \A j \in Items : holds'[j] = IF j = i THEN "no" ELSE holds[j]
    BY <1>5 DEF AgentStarts, AgentRefuses, TypeOK
  <2>2. PICK r \in Report : Tell(r) /\ r.item = i
    BY <1>5, ReportType DEF AgentStarts, AgentRefuses, About
  <2>3. \A j \in Items : Spoken(r, j) => j = i
    BY <2>2 DEF Spoken
  <2>4. Truly(r)
    BY <1>0, <2>1, <2>3 DEF Truly
  <2> QED BY <2>2, <2>4, TellBacked
<1>6. ASSUME NEW i \in Items, AgentQueues(i) PROVE Backed'
  <2>1. UNCHANGED took /\ \A j \in Items : holds'[j] = "no" \/ holds[j] # "no"
    BY <1>6 DEF AgentQueues, TypeOK
  <2>2. About("native", i) \in Report /\ Tell(About("native", i)) /\ \A j \in Items : ~Spoken(About("native", i), j)
    BY <1>6, ReportType DEF AgentQueues, About, Spoken
  <2>3. Truly(About("native", i))
    BY <1>0, <2>1, <2>2 DEF Truly
  <2> QED BY <2>2, <2>3, TellBacked
<1>7. ASSUME (\E outcome \in OUTCOMES : AgentEnds(outcome)) \/ AgentExits PROVE Backed'
  <2>1. PICK outcome \in OUTCOMES : Tell(Ended(outcome))
    BY <1>7 DEF AgentEnds, AgentExits, OUTCOMES
  <2>2. Ended(outcome) \in Report /\ \A i \in Items : ~Spoken(Ended(outcome), i)
    BY ReportType DEF Ended, Spoken
  <2>3. UNCHANGED took /\ \A i \in Items : holds'[i] = "no" \/ holds[i] # "no"
    BY <1>7 DEF AgentEnds, AgentExits
  <2>4. Truly(Ended(outcome))
    BY <1>0, <2>2, <2>3 DEF Truly
  <2> QED BY <2>1, <2>2, <2>4, TellBacked
<1> QED BY <1>2, <1>3, <1>4, <1>5, <1>6, <1>7 DEF AgentNext

----------------------------------------------------------------------------
(* A message leaves as delivered only while the agent has it *)

\* An answer that says the agent has a copy.
Done(c) == c.phase = "answered" /\ c.answer \in {"delivered", "accepted"}

\* What is on its way and accepted, or has such an answer, is with the agent.
TakenOnce ==
  \A i \in Items : OnItsWay(i) /\ (store.item[i].stage = "accepted" \/ \E c \in calls : c.item = i /\ Done(c)) => took[i] >= 1

Leaves == \A i \in Items : store'.item[i].state = "delivered" => store.item[i].state = "delivered" \/ took[i] > 0

\* A step that sends the messages of S on their way, or hears of them.
LEMMA TakenStep ==
  ASSUME TypeOK, TypeOK', TakenOnce, NEW S, WayOnly(store, store', S),
         \A c \in calls' : Done(c) => c \in calls \/ c.item \in S,
         \A i \in Items : i \in S \/ took'[i] >= took[i] \/ store'.item[i].state # "dispatching",
         \A i \in S : took'[i] >= 1 \/ (store'.item[i].stage # "accepted" /\ \A c \in calls' : c.item = i => ~Done(c))
  PROVE  TakenOnce'
<1> SUFFICES ASSUME NEW i \in Items, store'.item[i].state = "dispatching",
                    store'.item[i].stage = "accepted" \/ \E c \in calls' : c.item = i /\ Done(c)
             PROVE  took'[i] >= 1
  BY DEF TakenOnce, OnItsWay
<1>1. took[i] \in Nat /\ took'[i] \in Nat
  BY DEF TypeOK
<1>2. CASE i \in S
  BY <1>2
<1>3. CASE i \notin S
  <2>1. store'.item[i] = store.item[i] /\ took'[i] >= took[i]
    BY <1>3 DEF WayOnly
  <2>2. store.item[i].stage = "accepted" \/ \E c \in calls : c.item = i /\ Done(c)
    BY <1>3, <2>1
  <2>3. took[i] >= 1
    BY <2>1, <2>2 DEF TakenOnce, OnItsWay
  <2> QED BY <1>1, <2>1, <2>3
<1> QED BY <1>2, <1>3

\* A step that retires or adds the messages of S.
LEMMA LeavesStep ==
  ASSUME NEW S, Follows(store, store', S), \A i \in S : store'.item[i].state # "delivered" \/ took[i] > 0
  PROVE  Leaves
<1>1. "delivered" \notin PRESENT
  BY DEF PRESENT, WAITING
<1> QED BY <1>1 DEF Follows, Leaves

\* A step without answers in which no copy is given back.
LEMMA PlainTaken ==
  ASSUME TypeOK, TypeOK', TakenOnce, NEW S, Follows(store, store', S), \A i \in S : store'.item[i].state # "delivered",
         WayOnly(store, store', {}), UNCHANGED <<calls, took>>
  PROVE  TakenOnce' /\ Leaves
<1>1. \A i \in Items : took'[i] >= took[i]
  BY DEF TypeOK
<1> QED BY <1>1, TakenStep, LeavesStep

\* A step of the calls alone.
LEMMA CallTaken ==
  ASSUME TypeOK, TypeOK', TakenOnce, UNCHANGED store, \A i \in Items : took'[i] >= took[i],
         \A c \in calls' : Done(c) => c \in calls \/ took'[c.item] >= 1
  PROVE  TakenOnce' /\ Leaves
<1>1. WayOnly(store, store', {}) /\ Leaves
  BY DEF WayOnly, Leaves
<1> DEFINE S == {i \in Items : took'[i] >= 1}
<1>2. \A c \in calls' : c.item \in Items
  BY DEF TypeOK, Call
<1>3. WayOnly(store, store', S) /\ \A c \in calls' : Done(c) => c \in calls \/ c.item \in S
  BY <1>1, <1>2 DEF WayOnly
<1>4. \A i \in S : took'[i] >= 1
  OBVIOUS
<1> HIDE DEF S
<1> QED BY <1>1, <1>3, <1>4, TakenStep

LEMMA PersonTaken ==
  ASSUME TypeOK, TypeOK', TakenOnce, PersonNext
  PROVE  TakenOnce' /\ Leaves
<1> USE DEF hostVars, agentVars, history, files
<1>0. store \in Store /\ WAITING \subseteq PRESENT /\ \A r, S : r = store => Follows(store, r, S) /\ WayOnly(store, r, S)
  BY DEF TypeOK, Follows, WayOnly, PRESENT
<1>1. ASSUME NEW i \in Items, Add(i) PROVE TakenOnce' /\ Leaves
  <2>1. store' = Added(store, i) /\ Follows(store, store', {i}) /\ store'.item[i].state = "queued"
    BY <1>0, <1>1, AddedStep DEF Add
  <2>2. Added(store, i).item = Put(store, i, QueuedItem).item
    BY <1>0 DEF Added, Put, Store
  <2>3. QueuedItem.state # "dispatching"
    BY DEF QueuedItem
  <2>4. WayOnly(store, store', {})
    BY <1>0, <2>1, <2>2, <2>3, PutWay
  <2> QED BY <1>1, <2>1, <2>4, PlainTaken DEF Add
<1>2. ASSUME UNCHANGED <<store, calls, took>> PROVE TakenOnce' /\ Leaves
  BY <1>0, <1>2, PlainTaken
<1>3. ASSUME NEW d \in Devices, NEW i \in Items, Edit(d, i) PROVE TakenOnce' /\ Leaves
  <2>1. store' = Edited(store, i, text[i] + 1) /\ store.item[i].state \in WAITING /\ text[i] + 1 \in Nat
    BY <1>3, CommitStore DEF Edit, MayChange, TypeOK
  <2>2. Follows(store, store', {}) /\ WayOnly(store, store', {})
    BY <1>0, <2>1, EditedStep, EditedWay
  <2> QED BY <1>3, <2>2, PlainTaken DEF Edit
<1>4. ASSUME NEW d \in Devices, NEW i \in Items, Withdraw(d, i) PROVE TakenOnce' /\ Leaves
  <2>1. store' = Retired(store, {i}, "removed")
    BY <1>4, CommitStore DEF Withdraw
  <2>2. Follows(store, store', {i}) /\ WayOnly(store, store', {}) /\ store'.item[i].state = "removed"
    BY <1>0, <2>1, RetiredStep, RetiredWay
  <2> QED BY <1>4, <2>2, PlainTaken DEF Withdraw
<1>5. ASSUME NEW d \in Devices, NEW i \in Items, Move(d, i) PROVE TakenOnce' /\ Leaves
  <2>1. PICK k \in 1..Len(store.order) : Commit(Moved(store, i, k), 1)
    BY <1>5 DEF Move
  <2>2. store.item[i].state \in WAITING /\ store' = Moved(store, i, k)
    BY <1>5, <2>1, CommitStore DEF Move, MayChange
  <2>3. Follows(store, store', {}) /\ WayOnly(store, store', {})
    BY <1>0, <2>2, MovedStep, MovedWay
  <2> QED BY <1>5, <2>3, PlainTaken DEF Move
<1>6. ASSUME NEW d \in Devices, NEW i \in Items, SendNow(d, i) PROVE TakenOnce' /\ Leaves
  <2> DEFINE r == Claimed(store, i)
             q == Resumed(r)
             c == Prepared(i, q, TRUE)
  <2>1. store' = q /\ calls' = calls \cup {c} /\ took' = took /\ NoAnswer(i) /\ store.item[i].state \in PRESENT
    BY <1>6, CommitStore DEF SendNow, MayChange, Present
  <2>2. c.item = i /\ c.phase = "prepare"
    BY DEF Prepared
  <2>3. r \in Store /\ Follows(store, r, {})
    BY <1>0, <2>1, ClaimedStep DEF Follows
  <2>4. r.item[i].state = "dispatching" /\ r.item[i].stage = "sending" /\ WayOnly(store, r, {i})
    <3>1. Claimed(store, i) = Marked(store, i, "dispatching", "sending")
      BY DEF Claimed, Marked
    <3> QED BY <1>0, <3>1, MarkedWay, ClaimedQueues
  <2> HIDE DEF c, r
  <2>5. Follows(r, q, {}) /\ WayOnly(r, q, {}) /\ q.item[i] = r.item[i]
    BY <2>3, <2>4, ResumedStep, ResumedWay, ResumedQueues
  <2> HIDE DEF q
  <2>6. Follows(store, store', {}) /\ WayOnly(store, store', {i}) /\ store'.item[i].stage = "sending"
    BY <2>1, <2>3, <2>4, <2>5 DEF Follows, WayOnly
  <2>7. /\ \A e \in calls' : Done(e) => e \in calls
        /\ \A e \in calls' : e.item = i => ~Done(e)
    BY <2>1, <2>2 DEF Done, NoAnswer
  <2>8. \A j \in Items : took'[j] >= took[j]
    BY <2>1 DEF TypeOK
  <2> QED BY <2>6, <2>7, <2>8, TakenStep, LeavesStep
<1>7. CASE Resume \/ DirectSend
  <2>1. store' = Resumed(store)
    BY <1>7, CommitStore DEF Resume, DirectSend
  <2>2. Follows(store, store', {}) /\ WayOnly(store, store', {})
    BY <1>0, <2>1, ResumedStep, ResumedWay
  <2> QED BY <1>7, <2>2, PlainTaken DEF Resume, DirectSend
<1>8. CASE Stop
  <2>1. store' = Paused(store, "stopped")
    BY <1>8, CommitStore DEF Stop
  <2>2. Follows(store, store', {}) /\ WayOnly(store, store', {})
    BY <1>0, <2>1, PausedStep, PausedWay DEF PAUSES, Follows
  <2> QED BY <1>8, <2>2, PlainTaken DEF Stop
<1> QED BY <1>1, <1>2, <1>3, <1>4, <1>5, <1>6, <1>7, <1>8 DEF PersonNext, Read, Conflict, Reopens

LEMMA AgentTaken ==
  ASSUME TypeOK, TypeOK', TakenOnce, AgentNext \/ Locks \/ Unlocks \/ UNCHANGED vars
  PROVE  TakenOnce' /\ Leaves
<1> USE DEF hostVars, agentVars, history, files
<1>0. \A i \in Items : took[i] \in Nat /\ took[i] >= took[i] /\ took[i] + 1 >= 1 /\ took[i] + 1 >= took[i]
  BY DEF TypeOK
<1>1. ASSUME NEW c \in calls, NEW answer, Replace(c, Answered(c, answer)), Takes(c), UNCHANGED store PROVE TakenOnce' /\ Leaves
  <2>1. c.item \in Items /\ Answered(c, answer).item = c.item
    BY DEF TypeOK, Call, Answered
  <2>2. took' = [took EXCEPT ![c.item] = took[c.item] + 1]
    BY <1>1 DEF Takes
  <2>3. took'[c.item] >= 1 /\ \A i \in Items : took'[i] >= took[i]
    BY <1>0, <2>1, <2>2 DEF TypeOK
  <2> QED BY <1>1, <2>1, <2>3, CallTaken DEF Replace
<1>2. ASSUME NEW c \in calls, AgentRuns(c) \/ AgentHolds(c) PROVE TakenOnce' /\ Leaves
  BY <1>1, <1>2 DEF AgentRuns, AgentHolds
<1>3. ASSUME NEW c \in calls, AgentDeclines(c) PROVE TakenOnce' /\ Leaves
  <2>1. PICK answer \in {"reject", "busy"} : Replace(c, Answered(c, answer))
    BY <1>3 DEF AgentDeclines
  <2>2. ~Done(Answered(c, answer))
    BY DEF Answered, Done, TypeOK, Call
  <2>3. \A e \in calls' : Done(e) => e \in calls
    BY <2>1, <2>2 DEF Replace
  <2>4. UNCHANGED <<store, took>>
    BY <1>3 DEF AgentDeclines
  <2> QED BY <1>0, <2>3, <2>4, CallTaken
<1>4. ASSUME UNCHANGED <<store, calls, took>> PROVE TakenOnce' /\ Leaves
  BY <1>0, <1>4, CallTaken
<1> QED BY <1>2, <1>3, <1>4
      DEF AgentNext, AgentStarts, AgentQueues, AgentRefuses, AgentEnds, AgentExits, Locks, Unlocks, vars

LEMMA HostTaken ==
  ASSUME TypeOK, TypeOK', TakenOnce, Backed, HostNext
  PROVE  TakenOnce' /\ Leaves
<1> USE DEF hostVars, agentVars, history, files
<1>0. store \in Store /\ WAITING \subseteq PRESENT /\ \A r, S : r = store => Follows(store, r, S) /\ WayOnly(store, r, S)
  BY DEF TypeOK, Follows, WayOnly, PRESENT
<1>00. \A i \in Items : took[i] \in Nat /\ took[i] >= took[i] /\ (took'[i] = took[i] => took'[i] >= took[i])
  BY DEF TypeOK
<1>1. ASSUME UNCHANGED <<store, calls, took>> PROVE TakenOnce' /\ Leaves
  BY <1>0, <1>1, PlainTaken
\* A message that leaves the queue while the agent has it.
<1>2. ASSUME NEW S \in SUBSET Items, store' = Retired(store, S, "delivered"), \A i \in S : took[i] > 0, UNCHANGED took,
             \A c \in calls' : Done(c) => c \in calls
      PROVE  TakenOnce' /\ Leaves
  <2>1. Follows(store, store', S) /\ WayOnly(store, store', {})
    BY <1>0, <1>2, RetiredStep, RetiredWay
  <2>2. Leaves
    BY <1>2, <2>1, LeavesStep
  <2> QED BY <1>00, <1>2, <2>1, <2>2, TakenStep
<1>3. ASSUME NEW i \in Items, DispatchClaims(i) PROVE TakenOnce' /\ Leaves
  <2> DEFINE r == Claimed(store, i)
             c == Prepared(i, r, FALSE)
  <2>1. store' = r /\ calls' = calls \cup {c} /\ took' = took /\ NoAnswer(i)
    BY <1>3, CommitStore DEF DispatchClaims
  <2>2. c.item = i /\ c.phase = "prepare" /\ store.item[i].state \in PRESENT
    BY <1>3 DEF Prepared, DispatchClaims, IsReady, InState, PRESENT, WAITING
  <2>3. Follows(store, r, {})
    BY <1>0, <2>2, ClaimedStep
  <2>4. r.item[i].stage = "sending" /\ WayOnly(store, r, {i})
    <3>1. Claimed(store, i) = Marked(store, i, "dispatching", "sending")
      BY DEF Claimed, Marked
    <3> QED BY <1>0, <3>1, MarkedWay
  <2> HIDE DEF c, r
  <2>5. /\ \A e \in calls' : Done(e) => e \in calls
        /\ \A e \in calls' : e.item = i => ~Done(e)
    BY <2>1, <2>2 DEF Done, NoAnswer
  <2> QED BY <1>00, <2>1, <2>3, <2>4, <2>5, TakenStep, LeavesStep
<1>4. ASSUME NEW i \in Items, ConfirmExpires(i) PROVE TakenOnce' /\ Leaves
  <2>1. CASE OnItsWay(i) /\ store.item[i].stage = "accepted"
    <3>1. store' = Retired(store, {i}, "delivered") /\ UNCHANGED <<calls, took>>
      BY <1>4, <2>1, CommitStore DEF ConfirmExpires, OnItsWay
    <3>2. took[i] > 0
      BY <1>00, <2>1 DEF TakenOnce
    <3> QED BY <1>2, <3>1, <3>2
  <2>2. CASE ~(OnItsWay(i) /\ store.item[i].stage = "accepted")
    BY <1>1, <1>4, <2>2 DEF ConfirmExpires, OnItsWay
  <2> QED BY <2>1, <2>2
<1>5. ASSUME NEW c \in calls, TurnsBack(c) PROVE TakenOnce' /\ Leaves
  <2>1. PICK answer \in Unsent(c) : Replace(c, Answered(c, answer))
    BY <1>5 DEF TurnsBack
  <2>2. ~Done(Answered(c, answer))
    BY DEF Answered, Done, TypeOK, Call, Unsent
  <2>3. \A e \in calls' : Done(e) => e \in calls
    BY <2>1, <2>2 DEF Replace
  <2>4. UNCHANGED <<store, took>>
    BY <1>5 DEF TurnsBack
  <2> QED BY <1>00, <2>3, <2>4, CallTaken
<1>6. ASSUME NEW c \in calls, HandsOver(c) PROVE TakenOnce' /\ Leaves
  <2> DEFINE d == [c EXCEPT !.phase = "sent", !.via = Via(c.jump)]
  <2>1. Replace(c, d) /\ d.phase = "sent" /\ UNCHANGED <<store, took>>
    BY <1>6 DEF HandsOver, TypeOK, Call
  <2> HIDE DEF d
  <2>2. \A e \in calls' : Done(e) => e \in calls
    BY <2>1 DEF Replace, Done
  <2> QED BY <1>00, <2>1, <2>2, CallTaken
<1>7. ASSUME NEW c \in calls, Settle(c) PROVE TakenOnce' /\ Leaves
  <2> DEFINE i == c.item
  <2>1. i \in Items /\ c.phase = "answered" /\ calls' \subseteq calls /\ took' = took
    BY <1>7 DEF TypeOK, Call, Settle
  <2>2. \A e \in calls' : Done(e) => e \in calls
    BY <2>1
  <2>3. CASE OnItsWay(i)
    <3>1. store' = Settled(store, i, c.answer)
      BY <1>7, <2>3, CommitStore DEF Settle, OnItsWay
    <3>2. c.answer \in {"delivered", "accepted"} => took[i] >= 1
      BY <2>1, <2>3 DEF TakenOnce, Done
    <3> HIDE DEF i
    <3>3. CASE c.answer = "delivered"
      <4>1. store' = Retired(store, {i}, "delivered")
        BY <3>1, <3>3 DEF Settled
      <4>2. took[i] > 0
        BY <1>00, <2>1, <3>2, <3>3
      <4> QED BY <1>2, <2>1, <2>2, <4>1, <4>2
    <3>4. CASE c.answer # "delivered"
      <4> DEFINE S == IF c.answer = "accepted" THEN {i} ELSE {}
      <4>1. WayOnly(store, store', S)
        BY <1>0, <2>1, <2>3, <3>1, SettledWay DEF OnItsWay
      <4>2. Follows(store, store', {})
        BY <1>0, <2>1, <2>3, <3>1, <3>4, SettledType DEF OnItsWay
      <4>3. \A j \in S : took'[j] >= 1
        BY <2>1, <3>2
      <4> HIDE DEF S
      <4> QED BY <1>00, <2>1, <2>2, <4>1, <4>2, <4>3, TakenStep, LeavesStep
    <3> QED BY <3>3, <3>4
  <2>4. CASE ~OnItsWay(i)
    <3>1. store' = store
      BY <1>7, <2>4 DEF Settle, OnItsWay
    <3> QED BY <1>00, <2>1, <2>2, <3>1, CallTaken
  <2> QED BY <2>3, <2>4
<1>8. CASE ObserveNative
  <2> DEFINE i == Head(wire).item
  <2>1. i \in Items /\ UNCHANGED <<calls, took>>
    BY <1>8, HeadType DEF ObserveNative
  <2>2. CASE OnItsWay(i) /\ store.item[i].stage # "native"
    <3>1. store' = Marked(store, i, "dispatching", "native")
      BY <1>8, <2>2, CommitStore DEF ObserveNative
    <3> HIDE DEF i
    <3>2. store'.item[i].stage = "native" /\ WayOnly(store, store', {i}) /\ Follows(store, store', {})
      <4>1. store.item[i].state \in PRESENT /\ "dispatching" \in PRESENT /\ "native" \in STAGES
        BY <2>2 DEF OnItsWay, PRESENT, STAGES
      <4> QED BY <1>0, <2>1, <3>1, <4>1, MarkedWay, MarkedStep
    <3>3. took[i] >= 1 \/ \A c \in calls : c.item = i => ~Done(c)
      BY <2>1, <2>2 DEF TakenOnce
    <3>4. took'[i] >= 1 \/ \A c \in calls' : c.item = i => ~Done(c)
      BY <2>1, <3>3
    <3> QED BY <1>00, <2>1, <3>2, <3>4, TakenStep, LeavesStep
  <2>3. CASE ~(OnItsWay(i) /\ store.item[i].stage # "native")
    BY <1>1, <1>8, <2>3 DEF ObserveNative
  <2> QED BY <2>2, <2>3
<1>9. CASE ObserveStarted
  <2> DEFINE i == Head(wire).item
  <2>1. i \in Items /\ UNCHANGED <<calls, took>>
    BY <1>9, HeadType DEF ObserveStarted
  <2>2. took[i] > 0
    <3>1. wire # <<>> /\ Spoken(Head(wire), i)
      BY <1>9 DEF ObserveStarted, Report1, Spoken
    <3>2. Cardinality(ToldIn(Tail(wire), i)) + One(Spoken(Head(wire), i)) <= Cardinality(ToldIn(wire, i))
      BY <3>1, ToldTail DEF TypeOK
    <3>3. Cardinality(ToldIn(Tail(wire), i)) \in Nat
      <4>1. Tail(wire) \in Seq(Report)
        BY <3>1, HeadTailProperties DEF TypeOK
      <4> QED BY <4>1, ToldType
    <3>4. took[i] >= Cardinality(ToldIn(wire, i)) + One(holds[i] # "no")
      BY <2>1 DEF Backed
    <3>5. took[i] \in Nat /\ Cardinality(ToldIn(wire, i)) \in Nat /\ One(holds[i] # "no") \in {0, 1}
      BY <2>1, BackedType
    <3>6. One(Spoken(Head(wire), i)) = 1
      BY <3>1 DEF One
    <3> QED BY <3>2, <3>3, <3>4, <3>5, <3>6
  <2>3. CASE OnItsWay(i)
    <3>1. store' = Retired(store, {i}, "delivered")
      BY <1>9, <2>3, CommitStore DEF ObserveStarted
    <3> HIDE DEF i
    <3> QED BY <1>2, <2>1, <2>2, <3>1
  <2>4. CASE ~OnItsWay(i)
    BY <1>1, <1>9, <2>4 DEF ObserveStarted
  <2> QED BY <2>3, <2>4
<1>10. CASE ObserveRefused
  <2> DEFINE i == Head(wire).item
             r == Marked(store, i, "failed", "none")
  <2>1. i \in Items /\ UNCHANGED calls
    BY <1>10, HeadType DEF ObserveRefused
  <2>2. \A j \in Items : j # i => took'[j] = took[j]
    BY <1>10 DEF ObserveRefused, TypeOK
  <2>3. CASE OnItsWay(i)
    <3>1. store' = Paused(r, "failed")
      BY <1>10, <2>3, CommitStore DEF ObserveRefused
    <3> HIDE DEF i
    <3>2. Follows(store, r, {}) /\ WayOnly(store, r, {}) /\ r.item[i].state = "failed"
      <4>1. r.item[i].state = "failed"
        BY <1>0, <2>1 DEF Marked, Put, Changed, Store, Item
      <4> QED BY <1>0, <2>1, <2>3, <4>1, MarkedStep, MarkedWay DEF OnItsWay, PRESENT, WAITING, STAGES
    <3> HIDE DEF r
    <3>3. Follows(store, store', {}) /\ WayOnly(store, store', {}) /\ store'.item[i].state # "dispatching"
      BY <1>0, <3>1, <3>2, PausedStep, PausedWay DEF Follows, PAUSES
    <3>4. \A j \in Items : took'[j] >= took[j] \/ store'.item[j].state # "dispatching"
      BY <1>00, <2>2, <3>3
    <3> QED BY <2>1, <3>3, <3>4, TakenStep, LeavesStep
  <2>4. CASE ~OnItsWay(i)
    <3>1. store' = store
      BY <1>10, <2>4 DEF ObserveRefused
    <3>2. Follows(store, store', {}) /\ WayOnly(store, store', {})
      BY <1>0, <3>1
    <3>3. \A j \in Items : took'[j] >= took[j] \/ store'.item[j].state # "dispatching"
      BY <1>00, <2>2, <2>4, <3>1 DEF OnItsWay
    <3> QED BY <2>1, <3>2, <3>3, TakenStep, LeavesStep
  <2> QED BY <2>3, <2>4
<1>11. CASE ObserveEnded
  <2>1. store' = TurnEnded(store, Head(wire).outcome) /\ UNCHANGED <<calls, took>>
    BY <1>11, CommitStore DEF ObserveEnded
  <2>2. TakenIn(store) \in SUBSET Items /\ \A i \in TakenIn(store) : OnItsWay(i) /\ store.item[i].stage = "accepted"
    BY DEF TakenIn, InState, OnItsWay
  <2>3. CASE Head(wire).outcome = "completed"
    <3>1. store' = Retired(store, TakenIn(store), "delivered")
      BY <2>1, <2>3 DEF TurnEnded
    <3>2. \A i \in TakenIn(store) : took[i] > 0
      BY <1>00, <2>2 DEF TakenOnce
    <3> QED BY <1>2, <2>1, <2>2, <3>1, <3>2
  <2>4. CASE Head(wire).outcome # "completed"
    <3>1. Head(wire).outcome \in OUTCOMES
      BY <1>11, HeadType DEF ObserveEnded
    <3>2. Follows(store, store', {}) /\ WayOnly(store, store', {})
      <4>1. WayOnly(store, store', {})
        BY <1>0, <2>1, TurnEndedWay
      <4>2. Follows(store, AllChanged(store, TakenIn(store), "attention"), {})
        <5>1. TakenIn(store) \in SUBSET Present(store) /\ "attention" \in PRESENT
          BY <2>2 DEF Present, OnItsWay, PRESENT, WAITING
        <5> QED BY <1>0, <5>1, AllChangedStep
      <4>3. store' = Paused(AllChanged(store, TakenIn(store), "attention"), Head(wire).outcome)
        BY <2>1, <2>4 DEF TurnEnded
      <4>4. Head(wire).outcome \in PAUSES
        BY <2>4, <3>1 DEF OUTCOMES, PAUSES
      <4> QED BY <4>1, <4>2, <4>3, <4>4, PausedStep DEF Follows
    <3> QED BY <2>1, <3>2, PlainTaken
  <2> QED BY <2>3, <2>4
<1>12. CASE Reclaim
  <2> DEFINE back == {i \in Held : OnItsWay(i)}
  <2>1. PICK fresh \in SUBSET InState(store, "new") :
          /\ GivesBack(store, store', back, fresh)
          /\ took' = [i \in Items |-> IF i \in back THEN Less(took[i], 1) ELSE took[i]]
    BY <1>12, ReclaimStep
  <2>2. UNCHANGED calls
    BY <1>12 DEF Reclaim
  <2> HIDE DEF back
  <2>3. \A i \in Items : i \in back => Changed(store.item[i], "queued", "none").state = "queued"
    BY <1>0 DEF Changed, Store, Item
  <2>4. \A i \in Items : i \in back \/ i \in fresh => store'.item[i].state = "queued"
    BY <2>1, <2>3 DEF GivesBack, QueuedItem
  <2>5. \A i \in Items : i \notin back /\ i \notin fresh => store'.item[i] = store.item[i] /\ took'[i] = took[i]
    BY <2>1 DEF GivesBack
  <2>6. WayOnly(store, store', {}) /\ \A j \in Items : took'[j] >= took[j] \/ store'.item[j].state # "dispatching"
    BY <1>00, <2>4, <2>5 DEF WayOnly
  <2>7. Leaves
    BY <2>4, <2>5 DEF Leaves
  <2> QED BY <2>2, <2>6, <2>7, TakenStep
<1> QED BY <1>1, <1>3, <1>4, <1>5, <1>6, <1>7, <1>8, <1>9, <1>10, <1>11, <1>12
      DEF HostNext, DispatchBegins, DispatchYields, ObserveBegan

\* After a restart nothing is on its way.
LEMMA RestartTaken ==
  ASSUME TypeOK, TypeOK', Restart
  PROVE  TakenOnce' /\ Backed' /\ Leaves
<1> PICK index \in Store, cut \in SUBSET Items : Finds(index, cut)
  BY RestartFinds
<1>1. /\ store' = Loaded(index, payload, store) /\ wire' = <<>> /\ holds' = [i \in Items |-> "no"]
      /\ store \in Store /\ payload \in SUBSET Items
  BY DEF Restart, Finds, TypeOK
<1>2. Leaves
  <2> SUFFICES ASSUME NEW i \in Items, store'.item[i].state = "delivered" PROVE store.item[i].state = "delivered"
    BY DEF Leaves
  <2> QED BY <1>1, LoadedStep DEF PRESENT, WAITING
<1>3. Backed'
  <2> SUFFICES ASSUME NEW i \in Items PROVE took'[i] >= Cardinality(ToldIn(wire', i)) + One(holds'[i] # "no")
    BY DEF Backed
  <2>1. took'[i] \in Nat
    BY DEF TypeOK
  <2>2. ToldIn(wire', i) = {}
    BY <1>1 DEF ToldIn
  <2>3. Cardinality(ToldIn(wire', i)) = 0
    BY <2>2, FS_EmptySet
  <2>4. One(holds'[i] # "no") = 0
    BY <1>1 DEF One
  <2> QED BY <2>1, <2>3, <2>4
<1>4. TakenOnce'
  <2> SUFFICES ASSUME NEW i \in Items PROVE store'.item[i].state # "dispatching"
    BY DEF TakenOnce, OnItsWay
  <2>1. store'.item[i] = IF i \in Kept(index, payload) THEN Restored(index.item[i]) ELSE Forgotten(store.item[i])
    BY <1>1 DEF Loaded
  <2>2. Restored(index.item[i]).state # "dispatching"
    BY <1>1 DEF Restored, Changed, Store, Item
  <2>3. Forgotten(store.item[i]).state # "dispatching"
    BY DEF Forgotten, NewItem, PRESENT
  <2> QED BY <2>1, <2>2, <2>3
<1> QED BY <1>2, <1>3, <1>4

LEMMA LeavesAlways == Spec => [][Leaves]_vars
<1> DEFINE IInv == TakenOnce /\ Backed
<1>1. Init => IInv
  <2> SUFFICES ASSUME Init PROVE IInv
    OBVIOUS
  <2>1. \A i \in Items : took[i] = 0 /\ store.item[i].state = "new" /\ wire = <<>> /\ holds[i] = "no"
    BY DEF Init, Empty, NewItem
  <2>2. TakenOnce
    BY <2>1 DEF TakenOnce, OnItsWay
  <2>3. Backed
    <3> SUFFICES ASSUME NEW i \in Items PROVE took[i] >= Cardinality(ToldIn(wire, i)) + One(holds[i] # "no")
      BY DEF Backed
    <3>1. ToldIn(wire, i) = {}
      BY <2>1 DEF ToldIn
    <3>2. Cardinality(ToldIn(wire, i)) = 0
      BY <3>1, FS_EmptySet
    <3> QED BY <2>1, <3>2 DEF One
  <2> QED BY <2>2, <2>3
<1>2. TypeOK /\ TypeOK' /\ IInv /\ [Next]_vars => IInv' /\ Leaves
  <2> SUFFICES ASSUME TypeOK, TypeOK', TakenOnce, Backed, [Next]_vars PROVE TakenOnce' /\ Backed' /\ Leaves
    OBVIOUS
  <2>1. CASE PersonNext
    <3>1. UNCHANGED <<took, wire, holds>>
      BY <2>1 DEF PersonNext, Add, Read, Conflict, Edit, Withdraw, Move, SendNow, Resume, Stop, DirectSend, Reopens,
                  hostVars, agentVars, history, files
    <3> QED BY <2>1, <3>1, PersonTaken, QuietBacked
  <2>2. CASE HostNext
    BY <2>2, HostTaken, HostBacked
  <2>3. CASE AgentNext
    BY <2>3, AgentTaken, AgentBacked
  <2>4. CASE Locks \/ Unlocks \/ UNCHANGED vars
    <3>1. UNCHANGED <<took, wire, holds>>
      BY <2>4 DEF Locks, Unlocks, vars, hostVars, agentVars, history, files
    <3> QED BY <2>4, <3>1, AgentTaken, QuietBacked
  <2>5. CASE Restart
    BY <2>5, RestartTaken
  <2> QED BY <2>1, <2>2, <2>3, <2>4, <2>5 DEF Next
<1> HIDE DEF IInv
<1> QED BY TypeCorrect, <1>1, <1>2, PTL DEF Spec

\* A message leaves as delivered only while the agent has it, for any number of
\* messages, reports, faults and restarts: neither a timer, nor a turn's end, nor
\* an answer that is left over from an earlier sending speaks for a later one.
THEOREM TakenBeforeDelivered == Spec => DeliveredWasTaken
<1>1. [Leaves]_vars => [\A i \in Items : store'.item[i].state = "delivered" => store.item[i].state = "delivered" \/ took[i] > 0]_vars
  BY DEF Leaves
<1> QED BY LeavesAlways, <1>1, PTL DEF DeliveredWasTaken

----------------------------------------------------------------------------
(* MessageDelivery: what a step is to a person *)

Mapped == <<[i \in Items |-> Place(store.item[i].state)], took, wishes, spent.saves = 0>>
Delivers == [Delivery!Next]_Mapped

\* Failed writes are counted up.
Rises == spent.saves \in Nat /\ spent'.saves \in Nat /\ spent.saves <= spent'.saves

\* The states of q with those of S changed to state.
Becomes(q, r, S, state) == \A i \in Items : r.item[i].state = IF i \in S THEN state ELSE q.item[i].state

LEMMA MapGoes ==
  ASSUME NEW S, NEW state, Becomes(store, store', S, state)
  PROVE  Delivery!Goes(S, Place(state))
BY DEF Becomes, Delivery!Goes

LEMMA MapSaves ==
  ASSUME Rises
  PROVE  Delivery!Saves
<1>1. spent'.saves = 0 => spent.saves = 0
  BY DEF Rises
<1>2. (spent'.saves = 0) \in BOOLEAN
  OBVIOUS
<1> QED BY <1>1, <1>2 DEF Delivery!Saves

LEMMA MapIn ==
  ASSUME TypeOK
  PROVE  /\ Delivery!In("new") = InState(store, "new")
         /\ Delivery!In("queued") = InState(store, "queued")
         /\ Delivery!In("sending") = InState(store, "dispatching")
         /\ Delivery!In("stopped") = InState(store, "failed") \cup InState(store, "attention")
<1>1. \A s : /\ Place(s) = "new" <=> s = "new"
             /\ Place(s) = "queued" <=> s = "queued"
             /\ Place(s) = "sending" <=> s \in {"sending", "dispatching"}
             /\ Place(s) = "stopped" <=> s \in {"stopped", "failed", "attention"}
  BY DEF Place
<1>2. \A i \in Items : store.item[i].state \notin {"sending", "stopped"}
  BY DEF TypeOK, Store, Item, STATES, PRESENT, WAITING
<1> QED BY <1>1, <1>2 DEF Delivery!In, InState

LEMMA MapMore ==
  ASSUME NEW S
  PROVE  Asked(S) = Delivery!More(wishes, S)
BY DEF Asked, Delivery!More

LEMMA MapFewer ==
  ASSUME NEW f \in [Items -> Nat], NEW S
  PROVE  /\ [i \in Items |-> IF i \in S THEN Less(f[i], 1) ELSE f[i]] = Delivery!Fewer(f, S)
         /\ \A i \in Items : [f EXCEPT ![i] = Less(@, 1)] = Delivery!Fewer(f, {i})
<1>1. \A n \in Nat : Less(n, 1) = IF n > 0 THEN n - 1 ELSE n
  BY DEF Less
<1> QED BY <1>1 DEF Delivery!Fewer

\* Nothing a person could tell.
LEMMA QuietDelivers ==
  ASSUME UNCHANGED <<store, took, wishes>>, spent'.saves = spent.saves
  PROVE  Delivers
BY DEF Delivers, Mapped

\* What was on its way waits for a person; S may be empty.
LEMMA DoubtDelivers ==
  ASSUME TypeOK, Rises, NEW S \in SUBSET InState(store, "dispatching"), NEW state \in {"failed", "attention"},
         Becomes(store, store', S, state), UNCHANGED <<took, wishes>>
  PROVE  Delivers
<1>1. Place(state) = "stopped" /\ S \in SUBSET Items
  BY DEF Place, InState
<1>2. Delivery!Doubt(S)
  BY <1>1, MapGoes, MapSaves, MapIn DEF Delivery!Doubt
<1> QED BY <1>1, <1>2 DEF Delivers, Delivery!Next, Delivery!Doubt

\* Failed messages go again.
LEMMA AskDelivers ==
  ASSUME TypeOK, Rises, NEW S \in SUBSET InState(store, "failed"), Becomes(store, store', S, "queued"),
         UNCHANGED took, wishes' = Asked(S)
  PROVE  Delivers
<1>1. Place("queued") = "queued" /\ S \in SUBSET Items
  BY DEF Place, InState
<1>2. Delivery!Ask(S)
  BY <1>1, MapGoes, MapSaves, MapIn, MapMore DEF Delivery!Ask
<1> QED BY <1>1, <1>2 DEF Delivers, Delivery!Next, Delivery!Ask

LEMMA DeliverDelivers ==
  ASSUME TypeOK, Rises, Leaves, NEW S \in SUBSET InState(store, "dispatching"),
         Becomes(store, store', S, "delivered"), UNCHANGED <<took, wishes>>
  PROVE  Delivers
<1>1. Place("delivered") = "delivered" /\ S \in SUBSET Items
  BY DEF Place, InState
<1>2. \A i \in S : took[i] > 0
  BY <1>1 DEF Leaves, Becomes, InState
<1>3. Delivery!Deliver(S)
  BY <1>1, <1>2, MapGoes, MapSaves, MapIn DEF Delivery!Deliver
<1> QED BY <1>1, <1>3 DEF Delivers, Delivery!Next, Delivery!Deliver

----------------------------------------------------------------------------
(* What an operation on the store does to the states *)

LEMMA ChangedState ==
  ASSUME NEW it \in Item, NEW state, NEW stage
  PROVE  Changed(it, state, stage).state = state
BY DEF Changed, Item

LEMMA SameBecomes ==
  ASSUME NEW q, NEW r, NEW s, NEW S, NEW state, Becomes(q, r, S, state), s.item = r.item
  PROVE  Becomes(q, s, S, state)
BY DEF Becomes

LEMMA PutBecomes ==
  ASSUME NEW q \in Store, NEW i \in Items, NEW it
  PROVE  Becomes(q, Put(q, i, it), {i}, it.state)
BY DEF Store, Put, Becomes

LEMMA MarkedBecomes ==
  ASSUME NEW q \in Store, NEW i \in Items, NEW state, NEW stage
  PROVE  Becomes(q, Marked(q, i, state, stage), {i}, state)
<1>1. Changed(q.item[i], state, stage).state = state
  BY ChangedState DEF Store
<1> QED BY <1>1, PutBecomes DEF Marked

LEMMA ClaimedBecomes ==
  ASSUME NEW q \in Store, NEW i \in Items
  PROVE  Becomes(q, Claimed(q, i), {i}, "dispatching")
<1>1. Claimed(q, i) = Marked(q, i, "dispatching", "sending")
  BY DEF Claimed, Marked
<1> QED BY <1>1, MarkedBecomes

LEMMA EditedBecomes ==
  ASSUME NEW q \in Store, NEW i \in Items, NEW words
  PROVE  Becomes(q, Edited(q, i, words), {i} \cap InState(q, "failed"), "queued")
<1> DEFINE it == q.item[i]
           state == IF it.state = "failed" THEN "queued" ELSE it.state
           jt == [it EXCEPT !.txt = words]
<1>1. Changed(jt, state, it.stage).state = state
  BY DEF Changed, Store, Item
<1>2. Becomes(q, Edited(q, i, words), {i}, state)
  BY <1>1, PutBecomes DEF Edited
<1> QED BY <1>2 DEF Becomes, InState

LEMMA MovedBecomes ==
  ASSUME NEW q \in Store, NEW i \in Items, NEW k
  PROVE  Becomes(q, Moved(q, i, k), {}, "failed")
<1> DEFINE it == Changed(q.item[i], q.item[i].state, q.item[i].stage)
<1>1. it.state = q.item[i].state
  BY ChangedState DEF Store
<1>2. Becomes(q, Put(q, i, it), {i}, it.state)
  BY PutBecomes
<1>3. Moved(q, i, k).item = Put(q, i, it).item
  BY DEF Moved, Put, Store
<1> HIDE DEF it
<1> QED BY <1>1, <1>2, <1>3 DEF Becomes

LEMMA AllChangedBecomes ==
  ASSUME NEW q \in Store, NEW S, NEW state
  PROVE  Becomes(q, AllChanged(q, S, state), S, state)
<1>1. \A i \in Items : Changed(q.item[i], state, "none").state = state
  BY ChangedState DEF Store
<1>2. \A i \in Items : AllChanged(q, S, state).item[i] = IF i \in S THEN Changed(q.item[i], state, "none") ELSE q.item[i]
  BY DEF AllChanged, Store
<1> QED BY <1>1, <1>2 DEF Becomes

LEMMA ResumedBecomes ==
  ASSUME NEW q \in Store
  PROVE  Becomes(q, Resumed(q), RetriedIn(q), "queued")
<1> DEFINE r == AllChanged(q, InState(q, "failed"), "queued")
<1>1. Becomes(q, r, InState(q, "failed"), "queued")
  BY AllChangedBecomes
<1>2. [r EXCEPT !.pause = "no"].item = r.item
  BY DEF AllChanged, Store
<1> HIDE DEF r
<1>3. CASE q.pause = "no"
  BY <1>3 DEF Resumed, RetriedIn, Becomes
<1>4. CASE q.pause # "no"
  <2>1. Resumed(q).item = r.item /\ RetriedIn(q) = InState(q, "failed")
    BY <1>2, <1>4 DEF Resumed, RetriedIn, r
  <2> QED BY <1>1, <2>1 DEF Becomes
<1> QED BY <1>3, <1>4

LEMMA RetiredBecomes ==
  ASSUME NEW q \in Store, NEW S \in SUBSET Items, NEW outcome \in {"delivered", "removed"}
  PROVE  Becomes(q, Retired(q, S, outcome), S, outcome)
BY RetiredStep DEF Becomes

\* The pause is no message's state.
LEMMA PausedItems ==
  ASSUME NEW q \in Store, NEW reason
  PROVE  Paused(q, reason).item = q.item
BY DEF Paused, Store

----------------------------------------------------------------------------
(* Each step of the queue is one of MessageDelivery, or one nobody can tell *)

LEMMA WithdrawDelivers ==
  ASSUME TypeOK, Rises, NEW d \in Devices, NEW i \in Items, Withdraw(d, i)
  PROVE  Delivers
<1> USE DEF history
<1>1. store' = Retired(store, {i}, "removed") /\ UNCHANGED <<took, wishes>>
  BY CommitStore DEF Withdraw
<1>2. Becomes(store, store', {i}, "removed")
  BY <1>1, RetiredBecomes DEF TypeOK
<1>3. Place("removed") = "removed" /\ i \in InState(store, "queued") \cup InState(store, "failed") \cup InState(store, "attention")
  BY DEF Place, Withdraw, MayChange, InState, WAITING
<1>4. Delivery!Withdraw(i)
  BY <1>1, <1>2, <1>3, MapGoes, MapSaves, MapIn DEF Delivery!Withdraw
<1> QED BY <1>4 DEF Delivers, Delivery!Next

\* The message goes at once; a paused queue goes on, and with it what failed.
LEMMA SendNowDelivers ==
  ASSUME TypeOK, Rises, NEW d \in Devices, NEW i \in Items, SendNow(d, i)
  PROVE  Delivers
<1> DEFINE r == Claimed(store, i)
           S == RetriedIn(store) \ {i}
<1>0. store \in Store /\ r \in Store /\ store.item[i].state \in WAITING
  BY ClaimedStep DEF TypeOK, SendNow, MayChange, Follows, PRESENT
<1>1. store' = Resumed(r) /\ UNCHANGED took /\ wishes' = Asked(RetriedIn(store) \cup ({i} \ InState(store, "queued")))
  BY CommitStore DEF SendNow
<1>2. Becomes(store, r, {i}, "dispatching") /\ r.pause = store.pause
  BY <1>0, ClaimedBecomes, ClaimedQueues
<1>3. RetriedIn(r) = S
  BY <1>2 DEF RetriedIn, InState, Becomes
<1>4. Becomes(r, store', S, "queued")
  BY <1>0, <1>1, <1>3, ResumedBecomes
<1> HIDE DEF r, S
<1>5. \A j \in Items : store'.item[j].state = IF j = i THEN "dispatching" ELSE IF j \in S THEN "queued" ELSE store.item[j].state
  BY <1>2, <1>4 DEF Becomes, S
<1>6. S \in SUBSET InState(store, "failed") /\ S \in SUBSET Items
  BY DEF S, RetriedIn, InState
<1>7. S \cup ({i} \cap (InState(store, "failed") \cup InState(store, "attention"))) = RetriedIn(store) \cup ({i} \ InState(store, "queued"))
  BY <1>0 DEF S, RetriedIn, InState, WAITING
<1>8. i \in InState(store, "queued") \cup InState(store, "failed") \cup InState(store, "attention")
  BY <1>0 DEF InState, WAITING
<1>9. Place("dispatching") = "sending" /\ Place("queued") = "queued"
  BY DEF Place
<1>10. [j \in Items |-> Place(store.item[j].state)]' =
         [j \in Items |-> IF j = i THEN "sending" ELSE IF j \in S THEN "queued" ELSE [k \in Items |-> Place(store.item[k].state)][j]]
  BY <1>5, <1>9
<1>11. i \notin S
  BY DEF S
<1>12. wishes' = Delivery!More(wishes, S \cup ({i} \cap Delivery!In("stopped")))
  BY <1>1, <1>7, MapMore, MapIn
<1>13. Delivery!AskNow(i, S)
  BY <1>1, <1>6, <1>8, <1>10, <1>11, <1>12, MapSaves, MapIn DEF Delivery!AskNow
<1> QED BY <1>6, <1>13 DEF Delivers, Delivery!Next, Delivery!AskNow

LEMMA PersonDelivers ==
  ASSUME TypeOK, Rises, PersonNext
  PROVE  Delivers
<1> USE DEF hostVars, agentVars, history, files
<1>0. store \in Store /\ spent \in Spent
  BY DEF TypeOK
<1>1. ASSUME NEW i \in Items, Add(i) PROVE Delivers
  <2>1. store' = Added(store, i) /\ wishes' = Asked({i}) /\ UNCHANGED <<took, spent>> /\ i \in InState(store, "new")
    BY <1>1 DEF Add, CanAdd, InState
  <2>2. Becomes(store, store', {i}, "queued")
    <3>1. Becomes(store, Put(store, i, QueuedItem), {i}, QueuedItem.state) /\ QueuedItem.state = "queued"
      BY <1>0, PutBecomes DEF QueuedItem
    <3>2. Added(store, i).item = Put(store, i, QueuedItem).item
      BY <1>0 DEF Added, Put, Store
    <3> QED BY <2>1, <3>1, <3>2 DEF Becomes
  <2>3. Place("queued") = "queued"
    BY DEF Place
  <2>4. Delivery!Submit(i)
    BY <2>1, <2>2, <2>3, MapGoes, MapIn, MapMore DEF Delivery!Submit
  <2> QED BY <2>4 DEF Delivers, Delivery!Next
<1>2. ASSUME NEW d \in Devices, Read(d) \/ Conflict(d) PROVE Delivers
  BY <1>2, QuietDelivers DEF Read, Conflict
<1>3. ASSUME NEW d \in Devices, NEW i \in Items, Edit(d, i) PROVE Delivers
  <2> DEFINE S == {i} \cap InState(store, "failed")
  <2>1. store' = Edited(store, i, text[i] + 1) /\ UNCHANGED took /\ wishes' = Asked(S)
    BY <1>3, CommitStore DEF Edit
  <2>2. Becomes(store, store', S, "queued")
    BY <1>0, <2>1, EditedBecomes
  <2> HIDE DEF S
  <2> QED BY <2>1, <2>2, AskDelivers DEF S
<1>4. ASSUME NEW d \in Devices, NEW i \in Items, Move(d, i) PROVE Delivers
  <2>1. PICK k \in 1..Len(store.order) : store' = Moved(store, i, k)
    BY <1>4, CommitStore DEF Move
  <2>2. UNCHANGED <<took, wishes>>
    BY <1>4 DEF Move
  <2> QED BY <1>0, <2>1, <2>2, MovedBecomes, DoubtDelivers
<1>5. CASE Resume \/ DirectSend
  <2>1. store' = Resumed(store) /\ UNCHANGED took /\ wishes' = Asked(RetriedIn(store))
    BY <1>5, CommitStore DEF Resume, DirectSend
  <2>2. RetriedIn(store) \in SUBSET InState(store, "failed")
    BY DEF RetriedIn
  <2> QED BY <1>0, <2>1, <2>2, ResumedBecomes, AskDelivers
<1>6. CASE Stop
  <2>1. store' = Paused(store, "stopped") /\ UNCHANGED <<took, wishes>>
    BY <1>6, CommitStore DEF Stop
  <2>2. Becomes(store, store', {}, "failed")
    BY <1>0, <2>1, PausedItems DEF Becomes
  <2> QED BY <2>1, <2>2, DoubtDelivers
<1>7. CASE Reopens
  BY <1>7, QuietDelivers DEF Reopens
<1> QED BY <1>1, <1>2, <1>3, <1>4, <1>5, <1>6, <1>7, WithdrawDelivers, SendNowDelivers DEF PersonNext

\* A wish is used up; nothing moves.
LEMMA LapseDelivers ==
  ASSUME TypeOK, NEW i \in Items, UNCHANGED <<store, took>>, spent'.saves = spent.saves,
         wishes' = [wishes EXCEPT ![i] = Less(@, 1)]
  PROVE  Delivers
<1>1. wishes' = Delivery!Fewer(wishes, {i})
  BY MapFewer DEF TypeOK
<1>2. Delivery!Lapse(i)
  BY <1>1 DEF Delivery!Lapse
<1> QED BY <1>2 DEF Delivers, Delivery!Next

LEMMA SendDelivers ==
  ASSUME TypeOK, Rises, NEW i \in Items, DispatchClaims(i)
  PROVE  Delivers
<1> USE DEF history
<1>1. store' = Claimed(store, i) /\ UNCHANGED <<took, wishes>> /\ i \in InState(store, "queued")
  BY CommitStore DEF DispatchClaims, IsReady
<1>2. Becomes(store, store', {i}, "dispatching") /\ Place("dispatching") = "sending"
  BY <1>1, ClaimedBecomes DEF TypeOK, Place
<1>3. Delivery!Send(i)
  BY <1>1, <1>2, MapGoes, MapSaves, MapIn DEF Delivery!Send
<1> QED BY <1>3 DEF Delivers, Delivery!Next

\* One message leaves as delivered.
LEMMA OneDelivers ==
  ASSUME TypeOK, Rises, Leaves, NEW i \in Items, OnItsWay(i), store' = Retired(store, {i}, "delivered"), UNCHANGED <<took, wishes>>
  PROVE  Delivers
<1>1. Becomes(store, store', {i}, "delivered") /\ {i} \in SUBSET InState(store, "dispatching")
  BY RetiredBecomes DEF TypeOK, OnItsWay, InState
<1> QED BY <1>1, DeliverDelivers

\* What an answer makes of its message.
LEMMA SettleDelivers ==
  ASSUME TypeOK, Rises, Leaves, NEW c \in calls, Settle(c)
  PROVE  Delivers
<1> USE DEF history
<1> DEFINE i == c.item
<1>0. store \in Store /\ i \in Items /\ UNCHANGED <<took, wishes>> /\ c.answer \in ANSWERS \cup {"none"}
  BY DEF TypeOK, Call, Settle
<1>1. CASE ~OnItsWay(i)
  BY <1>0, <1>1, QuietDelivers DEF Settle, OnItsWay
<1>2. CASE OnItsWay(i)
  <2>1. store' = Settled(store, i, c.answer) /\ {i} \in SUBSET InState(store, "dispatching")
    BY <1>0, <1>2, CommitStore DEF Settle, OnItsWay, InState
  <2> HIDE DEF i
  <2>2. CASE c.answer = "delivered"
    BY <1>0, <1>2, <2>1, <2>2, OneDelivers DEF Settled
  <2>3. CASE c.answer = "accepted"
    <3>1. \E stage : store' = Marked(store, i, "dispatching", stage)
      BY <2>1, <2>3 DEF Settled
    <3>2. Becomes(store, store', {i}, "dispatching")
      BY <1>0, <3>1, MarkedBecomes
    <3>3. Becomes(store, store', {}, "failed")
      BY <1>2, <3>2 DEF Becomes, OnItsWay
    <3> QED BY <1>0, <3>3, DoubtDelivers
  <2>4. CASE c.answer \in {"busy", "unsupported"}
    <3> DEFINE r == Marked(store, i, "queued", "none")
    <3>1. store' = Fronted(r, i) /\ Becomes(store, r, {i}, "queued")
      BY <1>0, <2>1, <2>4, MarkedBecomes DEF Settled
    <3>2. r \in Store
      <4>1. store.item[i].state \in PRESENT /\ "queued" \in PRESENT /\ "none" \in STAGES
        BY <1>2 DEF OnItsWay, PRESENT, WAITING, STAGES
      <4> QED BY <1>0, <4>1, MarkedStep DEF Follows
    <3> HIDE DEF r
    <3>3. Becomes(store, store', {i}, "queued") /\ Place("queued") = "queued"
      BY <1>0, <3>1, <3>2, FrontedStep DEF Becomes, Place
    <3>4. Delivery!Return(i)
      BY <1>0, <2>1, <3>3, MapGoes, MapSaves, MapIn DEF Delivery!Return
    <3> QED BY <1>0, <3>4 DEF Delivers, Delivery!Next
  <2>5. CASE c.answer \notin {"delivered", "accepted", "busy", "unsupported"}
    <3> DEFINE r == Marked(store, i, "failed", "none")
    <3>1. store' = Paused(r, "failed") /\ Becomes(store, r, {i}, "failed")
      BY <1>0, <2>1, <2>5, MarkedBecomes DEF Settled
    <3>2. r \in Store
      <4>1. store.item[i].state \in PRESENT /\ "failed" \in PRESENT /\ "none" \in STAGES
        BY <1>2 DEF OnItsWay, PRESENT, WAITING, STAGES
      <4> QED BY <1>0, <4>1, MarkedStep DEF Follows
    <3> HIDE DEF r
    <3>3. Becomes(store, store', {i}, "failed")
      BY <3>1, <3>2, PausedItems DEF Becomes
    <3> QED BY <1>0, <2>1, <3>3, DoubtDelivers
  <2> QED BY <2>2, <2>3, <2>4, <2>5
<1> QED BY <1>1, <1>2

\* What the Host makes of a report.
LEMMA ObserveDelivers ==
  ASSUME TypeOK, Rises, Leaves, ObserveBegan \/ ObserveNative \/ ObserveStarted \/ ObserveRefused \/ ObserveEnded
  PROVE  Delivers
<1> USE DEF history, hostVars, files
<1>0. store \in Store
  BY DEF TypeOK
<1>1. CASE ObserveBegan
  BY <1>1, QuietDelivers DEF ObserveBegan
<1>2. CASE ObserveNative
  <2> DEFINE i == Head(wire).item
  <2>1. i \in Items /\ UNCHANGED <<took, wishes>>
    BY <1>2, HeadType DEF ObserveNative
  <2>2. CASE OnItsWay(i) /\ store.item[i].stage # "native"
    <3>1. store' = Marked(store, i, "dispatching", "native")
      BY <1>2, <2>2, CommitStore DEF ObserveNative
    <3> HIDE DEF i
    <3>2. Becomes(store, store', {i}, "dispatching")
      BY <1>0, <2>1, <3>1, MarkedBecomes
    <3>3. Becomes(store, store', {}, "failed")
      BY <2>2, <3>2 DEF Becomes, OnItsWay
    <3> QED BY <2>1, <3>3, DoubtDelivers
  <2>3. CASE ~(OnItsWay(i) /\ store.item[i].stage # "native")
    BY <1>2, <2>1, <2>3, QuietDelivers DEF ObserveNative
  <2> QED BY <2>2, <2>3
<1>3. CASE ObserveStarted
  <2> DEFINE i == Head(wire).item
  <2>1. i \in Items /\ UNCHANGED <<took, wishes>>
    BY <1>3, HeadType DEF ObserveStarted
  <2>2. CASE OnItsWay(i)
    <3>1. store' = Retired(store, {i}, "delivered")
      BY <1>3, <2>2, CommitStore DEF ObserveStarted
    <3> QED BY <2>1, <2>2, <3>1, OneDelivers
  <2>3. CASE ~OnItsWay(i)
    BY <1>3, <2>1, <2>3, QuietDelivers DEF ObserveStarted
  <2> QED BY <2>2, <2>3
<1>4. CASE ObserveRefused
  <2> DEFINE i == Head(wire).item
             S == IF OnItsWay(i) THEN {i} ELSE {}
  <2>1. i \in Items /\ took' = [took EXCEPT ![i] = Less(@, 1)] /\ UNCHANGED wishes
    BY <1>4, HeadType DEF ObserveRefused
  <2>2. ASSUME OnItsWay(i) PROVE Becomes(store, store', {i}, "failed")
    <3> DEFINE r == Marked(store, i, "failed", "none")
    <3>1. store' = Paused(r, "failed")
      BY <1>4, <2>2, CommitStore DEF ObserveRefused
    <3>2. r \in Store
      <4>1. store.item[i].state \in PRESENT /\ "failed" \in PRESENT /\ "none" \in STAGES
        BY <2>2 DEF OnItsWay, PRESENT, WAITING, STAGES
      <4> QED BY <1>0, <2>1, <4>1, MarkedStep DEF Follows
    <3>3. Becomes(store, r, {i}, "failed")
      BY <1>0, <2>1, MarkedBecomes
    <3> HIDE DEF r, i
    <3> QED BY <2>2, <3>1, <3>2, <3>3, PausedItems DEF Becomes
  <2>3. ASSUME ~OnItsWay(i) PROVE store' = store
    BY <1>4, <2>3 DEF ObserveRefused
  <2> HIDE DEF i
  <2>4. Becomes(store, store', S, "failed") /\ Place("failed") = "stopped"
    BY <2>2, <2>3 DEF Becomes, Place
  <2>5. S \subseteq {i} \cap InState(store, "dispatching") /\ S \in SUBSET Items
    BY <2>1 DEF OnItsWay, InState
  <2>6. took' = Delivery!Fewer(took, {i})
    BY <2>1, MapFewer DEF TypeOK
  <2> HIDE DEF S
  <2>7. Delivery!Drop(i, S)
    BY <2>1, <2>4, <2>5, <2>6, MapGoes, MapSaves, MapIn DEF Delivery!Drop
  <2> QED BY <2>1, <2>5, <2>7 DEF Delivers, Delivery!Next, Delivery!Drop
<1>5. CASE ObserveEnded
  <2> DEFINE S == TakenIn(store)
  <2>1. store' = TurnEnded(store, Head(wire).outcome) /\ UNCHANGED <<took, wishes>>
    BY <1>5, CommitStore DEF ObserveEnded
  <2>2. S \in SUBSET InState(store, "dispatching") /\ S \in SUBSET Items
    BY DEF TakenIn, InState
  <2>3. CASE Head(wire).outcome = "completed"
    <3>1. store' = Retired(store, S, "delivered")
      BY <2>1, <2>3 DEF TurnEnded
    <3> HIDE DEF S
    <3> QED BY <1>0, <2>1, <2>2, <3>1, RetiredBecomes, DeliverDelivers
  <2>4. CASE Head(wire).outcome # "completed"
    <3> DEFINE r == AllChanged(store, S, "attention")
    <3>1. store' = Paused(r, Head(wire).outcome)
      BY <2>1, <2>4 DEF TurnEnded
    <3>2. r \in Store
      <4>1. S \in SUBSET Present(store) /\ "attention" \in PRESENT
        BY <2>2 DEF InState, Present, PRESENT, WAITING
      <4> QED BY <1>0, <4>1, AllChangedStep DEF Follows
    <3> HIDE DEF S
    <3>3. Becomes(store, r, S, "attention")
      BY <1>0, AllChangedBecomes
    <3> HIDE DEF r
    <3>4. Becomes(store, store', S, "attention")
      BY <3>1, <3>2, <3>3, PausedItems DEF Becomes
    <3> QED BY <2>1, <2>2, <3>4, DoubtDelivers
  <2> QED BY <2>3, <2>4
<1> QED BY <1>1, <1>2, <1>3, <1>4, <1>5

LEMMA ReclaimDelivers ==
  ASSUME TypeOK, Rises, Reclaim
  PROVE  Delivers
<1> DEFINE back == {i \in Held : OnItsWay(i)}
<1>1. PICK fresh \in SUBSET InState(store, "new") :
        /\ GivesBack(store, store', back, fresh)
        /\ took' = [i \in Items |-> IF i \in back THEN Less(took[i], 1) ELSE took[i]]
        /\ wishes' = Asked(back \cup fresh)
  BY ReclaimStep
<1>2. back \in SUBSET InState(store, "dispatching") /\ back \in SUBSET Items /\ fresh \in SUBSET Items
  BY DEF Held, OnItsWay, InState
<1> HIDE DEF back
<1>3. Becomes(store, store', back \cup fresh, "queued") /\ Place("queued") = "queued"
  <2>1. \A i \in Items : Changed(store.item[i], "queued", "none").state = "queued"
    BY ChangedState DEF TypeOK, Store
  <2> QED BY <1>1, <2>1 DEF GivesBack, Becomes, QueuedItem, Place
<1>4. took' = Delivery!Fewer(took, back)
  BY <1>1, MapFewer DEF TypeOK
<1>5. Delivery!TakeBack(back, fresh)
  BY <1>1, <1>2, <1>3, <1>4, MapGoes, MapSaves, MapIn, MapMore DEF Delivery!TakeBack
<1> QED BY <1>2, <1>5 DEF Delivers, Delivery!Next, Delivery!TakeBack

LEMMA HostDelivers ==
  ASSUME TypeOK, Rises, Leaves, HostNext
  PROVE  Delivers
<1> USE DEF history, files
<1>1. CASE DispatchBegins \/ DispatchYields
  BY <1>1, QuietDelivers DEF DispatchBegins, DispatchYields
<1>2. ASSUME NEW i \in Items, ConfirmExpires(i) PROVE Delivers
  <2>1. UNCHANGED <<took, wishes>>
    BY <1>2 DEF ConfirmExpires
  <2>2. CASE OnItsWay(i) /\ store.item[i].stage = "accepted"
    <3>1. store' = Retired(store, {i}, "delivered")
      BY <1>2, <2>2, CommitStore DEF ConfirmExpires, OnItsWay
    <3> QED BY <2>1, <2>2, <3>1, OneDelivers
  <2>3. CASE ~(OnItsWay(i) /\ store.item[i].stage = "accepted")
    BY <1>2, <2>1, <2>3, QuietDelivers DEF ConfirmExpires, OnItsWay
  <2> QED BY <2>2, <2>3
<1>3. ASSUME NEW c \in calls, TurnsBack(c) PROVE Delivers
  <2>1. c.item \in Items /\ UNCHANGED <<store, took, spent>>
    BY <1>3 DEF TypeOK, Call, TurnsBack
  <2>2. wishes' = wishes \/ wishes' = [wishes EXCEPT ![c.item] = Less(@, 1)]
    BY <1>3 DEF TurnsBack, Lapses
  <2> QED BY <2>1, <2>2, QuietDelivers, LapseDelivers
<1>4. ASSUME NEW c \in calls, HandsOver(c) PROVE Delivers
  BY <1>4, QuietDelivers DEF HandsOver
<1> QED BY <1>1, <1>2, <1>3, <1>4, SendDelivers, SettleDelivers, ObserveDelivers, ReclaimDelivers DEF HostNext

\* The agent is given a copy, on the wish of the call that brings it.
LEMMA CopyDelivers ==
  ASSUME TypeOK, NoSilentResend, NEW c \in calls, Live(c), NEW d, d.item = c.item, Replace(c, d), Takes(c),
         UNCHANGED store, spent'.saves = spent.saves
  PROVE  Delivers
<1> DEFINE i == c.item
<1>1. i \in Items /\ took \in [Items -> Nat] /\ wishes \in [Items -> Nat]
  BY DEF TypeOK, Call
<1>2. spent.saves = 0 => wishes[i] > 0
  <2>1. Going(i) >= 1 /\ Going(i) \in Nat
    BY <1>1, ReplaceGoing, GoingIs
  <2>2. spent.saves = 0 => Going(i) + (IF store.item[i].state = "queued" THEN 1 ELSE 0) <= wishes[i]
    BY <1>1 DEF NoSilentResend, NoSilentResendEver
  <2> QED BY <1>1, <2>1, <2>2
<1>3. wishes' = Delivery!Fewer(wishes, {i})
  BY <1>1, MapFewer DEF Takes
<1>4. took' = Delivery!More(took, {i})
  <2>1. took' = [j \in Items |-> IF j = i THEN took[j] + 1 ELSE took[j]]
    BY <1>1 DEF Takes
  <2>2. \A j \in Items : (IF j = i THEN took[j] + 1 ELSE took[j]) = took[j] + IF j \in {i} THEN 1 ELSE 0
    BY <1>1
  <2> HIDE DEF i
  <2> QED BY <2>1, <2>2 DEF Delivery!More
<1> HIDE DEF i
<1>5. Delivery!Copy(i)
  BY <1>2, <1>3, <1>4 DEF Delivery!Copy
<1> QED BY <1>1, <1>5 DEF Delivers, Delivery!Next

LEMMA AgentDelivers ==
  ASSUME TypeOK, NoSilentResend, AgentNext \/ Locks \/ Unlocks \/ UNCHANGED vars
  PROVE  Delivers
<1> USE DEF history, files, hostVars, agentVars
<1>0. Fault => spent'.saves = spent.saves
  BY DEF TypeOK, Spent, Fault
<1>1. ASSUME NEW c \in calls, AgentRuns(c) PROVE Delivers
  <2>1. PICK answer \in {"delivered", "accepted", "reject"} : Replace(c, Answered(c, answer))
    BY <1>1 DEF AgentRuns
  <2>2. Takes(c) /\ UNCHANGED store /\ spent'.saves = spent.saves /\ c.phase = "sent"
    BY <1>0, <1>1 DEF AgentRuns
  <2> QED BY <2>1, <2>2, AnsweredLive, CopyDelivers
<1>2. ASSUME NEW c \in calls, AgentHolds(c) PROVE Delivers
  <2>1. Replace(c, Answered(c, "accepted")) /\ Takes(c) /\ UNCHANGED <<store, spent>> /\ c.phase = "sent"
    BY <1>2 DEF AgentHolds
  <2> QED BY <2>1, AnsweredLive, CopyDelivers
<1>3. ASSUME NEW c \in calls, AgentDeclines(c) PROVE Delivers
  <2>1. c.item \in Items /\ UNCHANGED <<store, took>> /\ spent'.saves = spent.saves
    BY <1>0, <1>3 DEF TypeOK, Call, AgentDeclines
  <2>2. wishes' = wishes \/ wishes' = [wishes EXCEPT ![c.item] = Less(@, 1)]
    BY <1>3 DEF AgentDeclines, Lapses
  <2> QED BY <2>1, <2>2, QuietDelivers, LapseDelivers
<1>4. ASSUME NEW i \in Items, AgentStarts(i) \/ AgentQueues(i) \/ AgentRefuses(i) PROVE Delivers
  BY <1>4, QuietDelivers DEF AgentStarts, AgentQueues, AgentRefuses
<1>5. ASSUME NEW outcome \in OUTCOMES, AgentEnds(outcome) PROVE Delivers
  BY <1>5, QuietDelivers DEF AgentEnds
<1>6. CASE AgentExits \/ Locks \/ Unlocks \/ UNCHANGED vars
  BY <1>0, <1>6, QuietDelivers DEF AgentExits, Locks, Unlocks, vars
<1> QED BY <1>1, <1>2, <1>3, <1>4, <1>5, <1>6 DEF AgentNext

\* A restart that reads the index: what has its file and is in the index stays,
\* and nothing is sent for it; what had left has neither.
LEMMA FoundDelivers ==
  ASSUME TypeOK, TypeOK', FilesHeld, IndexHolds, InStep, NEW cut, Finds(disk, cut), NEW i \in Items
  PROVE  Place(store'.item[i].state) \in Delivery!After(Place(store.item[i].state))
<1> DEFINE s == store.item[i].state
           t == store'.item[i].state
<1>0. store \in Store /\ disk \in Store
  BY DEF TypeOK
<1>1. /\ s \notin PRESENT => t = s
      /\ s \in PRESENT => t \in WAITING
      /\ s \in PRESENT /\ spent.saves = 0 => t = IF s = "dispatching" THEN "attention" ELSE s
  <2>1. store'.item[i] = IF i \in Kept(disk, payload) THEN Restored(disk.item[i]) ELSE Forgotten(store.item[i])
    BY DEF Finds, Loaded
  <2>2. i \in Kept(disk, payload) <=> store.item[i].state \in PRESENT
    BY DEF Kept, FilesHeld, IndexHolds, Present
  <2>3. i \in Kept(disk, payload) => disk.item[i].state \in PRESENT
    BY DEF Kept, Present
  <2>4. Restored(disk.item[i]).state = IF disk.item[i].state = "dispatching" THEN "attention" ELSE disk.item[i].state
    BY <1>0 DEF Restored, Changed, Store, Item
  <2>5. store.item[i].state \notin PRESENT => Forgotten(store.item[i]) = store.item[i]
    BY DEF Forgotten
  <2> QED BY <2>1, <2>2, <2>3, <2>4, <2>5 DEF InStep, PRESENT, WAITING
<1>2. s \in STATES /\ t \in STATES
  BY DEF TypeOK, Store, Item
<1> QED BY <1>1, <1>2 DEF Delivery!After, Delivery!HERE, Place, STATES, PRESENT, WAITING

\* One that cannot read it loses everything that is there.
LEMMA WipedDelivers ==
  ASSUME TypeOK, NEW cut, Finds(Empty, cut), NEW i \in Items
  PROVE  Place(store'.item[i].state) = IF Place(store.item[i].state) \in Delivery!HERE THEN "lost" ELSE Place(store.item[i].state)
<1>1. store'.item[i] = Forgotten(store.item[i])
  BY EmptyStore DEF Finds, Loaded, Kept
<1>2. store'.item[i].state = IF store.item[i].state \in PRESENT THEN "lost" ELSE store.item[i].state
  BY <1>1 DEF Forgotten, NewItem
<1>3. store.item[i].state \in STATES
  BY DEF TypeOK, Store, Item
<1> QED BY <1>2, <1>3 DEF Delivery!HERE, Place, STATES, PRESENT, WAITING

LEMMA RestartDelivers ==
  ASSUME TypeOK, TypeOK', FilesHeld, IndexHolds, InStep, NoSilentResend', Restart
  PROVE  Delivers
<1> PICK index \in Store, cut \in SUBSET Items : index \in {disk, Empty} /\ Finds(index, cut)
  BY RestartFinds
<1>0. /\ wishes \in [Items -> Nat] /\ wishes' \in [Items -> Nat]
      /\ spent'.saves = spent.saves /\ took' = [i \in Items |-> 0]
  BY DEF TypeOK, Spent, Restart, Finds
<1>1. ASSUME NEW i \in Items PROVE Place(store'.item[i].state) \in Delivery!PLACES
  <2>1. store'.item[i].state \in STATES
    BY DEF TypeOK, Store, Item
  <2> QED BY <2>1 DEF Delivery!PLACES, Delivery!HERE, Place, STATES, PRESENT, WAITING
<1>2. Delivery!Found \/ Delivery!Wiped
  <2>1. CASE index = disk
    BY <1>1, <2>1, FoundDelivers DEF Delivery!Found
  <2>2. CASE index = Empty
    BY <2>2, WipedDelivers DEF Delivery!Wiped
  <2> QED BY <2>1, <2>2
<1>3. ASSUME NEW i \in Items
      PROVE  wishes'[i] <= wishes[i] /\ (spent.saves = 0 /\ Place(store'.item[i].state) = "queued" => wishes'[i] > 0)
  <2>1. Going(i) \in Nat /\ Going(i)' \in Nat
    BY GoingType
  <2>2. wishes'[i] = Less(wishes[i], Going(i))
    BY DEF Restart
  <2>3. spent'.saves = 0 => Going(i)' + (IF store'.item[i].state = "queued" THEN 1 ELSE 0) <= wishes'[i]
    BY DEF NoSilentResend, NoSilentResendEver
  <2>4. Place(store'.item[i].state) = "queued" => store'.item[i].state = "queued"
    BY DEF Place
  <2> QED BY <1>0, <2>1, <2>2, <2>3, <2>4 DEF Less
<1>4. Delivery!Crash
  BY <1>0, <1>2, <1>3 DEF Delivery!Crash
<1> QED BY <1>4 DEF Delivers, Delivery!Next

\* The queue implements MessageDelivery, for any number of messages, devices,
\* faults, failed writes and restarts: whatever calls, answers, reports, timers and
\* requests overlap, a person sees messages that are lost only together, in a
\* restart that cannot read the index, never come back, leave as delivered only
\* when the agent has had them, and reach it only for a send that was asked for
\* (composer-queue.js, composer-queue-drivers.js).
THEOREM QueueDelivers == Spec => ImplementsDelivery
<1>1. Init => Delivery!Init
  BY DEF Init, Delivery!Init, Empty, NewItem, Place
<1>2. TypeOK /\ TypeOK' /\ FilesHeld /\ IndexHolds /\ InStep /\ NothingLost /\ NoSilentResend /\ NoSilentResend'
        /\ [Next]_vars /\ [Leaves]_vars => [Delivery!Next]_Mapped
  <2> SUFFICES ASSUME TypeOK, TypeOK', FilesHeld, IndexHolds, InStep, NothingLost, NoSilentResend, NoSilentResend',
                      [Next]_vars, [Leaves]_vars
               PROVE  Delivers
    BY DEF Delivers
  <2>1. CASE UNCHANGED vars
    BY <2>1, AgentDelivers
  <2>2. CASE Next /\ Leaves
    <3>1. CASE Restart
      BY <3>1, RestartDelivers
    <3>2. CASE ~Restart
      <4>1. Rises
        BY <2>2, <3>2, NextSound DEF Sound, Rises, TypeOK, Spent
      <4> QED BY <2>2, <3>2, <4>1, PersonDelivers, HostDelivers, AgentDelivers DEF Next
    <3> QED BY <3>1, <3>2
  <2> QED BY <2>1, <2>2
<1> QED BY <1>1, <1>2, TypeCorrect, FilesKept, FilesSound, NoResend, LeavesAlways, PTL
        DEF Spec, ImplementsDelivery, Delivery!Spec, Mapped

=============================================================================
