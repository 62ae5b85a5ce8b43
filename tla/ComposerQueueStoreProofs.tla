----------------------- MODULE ComposerQueueStoreProofs -----------------------
(***************************************************************************)
(* Proofs about ComposerQueue's store and its files: no restart that can   *)
(* read the index forgets a message whose add was answered, and a revision *)
(* names one content.                                                      *)
(***************************************************************************)
EXTENDS ComposerQueueProofs

\* What the queue shows has a file of its own and is in the index, also when
\* the index is old.
IndexHolds == \A i \in Present(store) : i \in payload /\ i \in Present(disk)

\* While no write has failed the index is the store.
InStep == spent.saves = 0 => disk = store

\* How a message's record may change: it does not become new, does not come
\* back, and a change of what a page shows raises its revision.
Later(a, b) ==
  /\ a.state # "new" => b.state # "new"
  /\ a.state # "new" /\ b.state \in PRESENT =>
       /\ a.state \in PRESENT
       /\ b.rev > a.rev \/ (b.rev = a.rev /\ b.state = a.state /\ b.txt = a.txt)

\* No step but a restart loses a message, and only an edit changes its text.
Stays(a, b) == a.state # "lost" => b.state # "lost"
Says(a, b) == b.state \in PRESENT => b.txt = IF a.state = "new" THEN 0 ELSE a.txt

Advance(a, b) == Stays(a, b) /\ Later(a, b) /\ Says(a, b)
Advances(q, r) == \A i \in Items : Advance(q.item[i], r.item[i])
Follow(a, b) == Stays(a, b) /\ Later(a, b)
Moves(q, r) == \A i \in Items : Follow(q.item[i], r.item[i])

----------------------------------------------------------------------------
(* The store's operations *)

LEMMA ChangedAdvance ==
  ASSUME NEW it \in Item, it.state \in PRESENT, NEW state \in PRESENT, NEW stage \in STAGES
  PROVE  /\ Advance(it, Changed(it, state, stage))
         /\ \A words \in Nat : Follow(it, Changed([it EXCEPT !.txt = words], state, stage))
<1>1. it.rev \in Nat /\ it.rev + 1 > it.rev
  BY DEF Item
<1>2. /\ Changed(it, state, stage).rev = it.rev + 1
      /\ Changed(it, state, stage).state = state
      /\ Changed(it, state, stage).txt = it.txt
      /\ \A words \in Nat : /\ Changed([it EXCEPT !.txt = words], state, stage).rev = it.rev + 1
                           /\ Changed([it EXCEPT !.txt = words], state, stage).state = state
  BY DEF Item, Changed
<1>3. state # "lost" /\ state # "new" /\ it.state # "new"
  BY DEF PRESENT, WAITING
<1> QED BY <1>1, <1>2, <1>3 DEF Follow, Advance, Stays, Later, Says

LEMMA SameAdvance ==
  ASSUME NEW it \in Item
  PROVE  Advance(it, it)
BY DEF Advance, Stays, Later, Says, PRESENT, WAITING

LEMMA AdvancesTwice ==
  ASSUME NEW q \in Store, NEW r \in Store, NEW s \in Store, Advances(q, r), Advances(r, s)
  PROVE  Advances(q, s)
<1> SUFFICES ASSUME NEW i \in Items PROVE Advance(q.item[i], s.item[i])
  BY DEF Advances
<1>1. q.item[i].rev \in Nat /\ r.item[i].rev \in Nat /\ s.item[i].rev \in Nat
  BY DEF Store, Item
<1>2. Advance(q.item[i], r.item[i]) /\ Advance(r.item[i], s.item[i])
  BY DEF Advances
<1> QED BY <1>1, <1>2 DEF Advance, Stays, Later, Says

\* A store with the same records.
LEMMA SameAdvances ==
  ASSUME NEW q \in Store, NEW r, r.item = q.item
  PROVE  Advances(q, r)
<1>1. \A i \in Items : q.item[i] \in Item
  BY DEF Store
<1> QED BY <1>1, SameAdvance DEF Advances

LEMMA PutAdvances ==
  ASSUME NEW q \in Store, NEW i \in Items, NEW it, Advance(q.item[i], it)
  PROVE  Advances(q, Put(q, i, it))
<1>1. \A j \in Items : q.item[j] \in Item
  BY DEF Store
<1>2. Put(q, i, it).item[i] = it /\ \A j \in Items : j # i => Put(q, i, it).item[j] = q.item[j]
  BY DEF Store, Put
<1> QED BY <1>1, <1>2, SameAdvance DEF Advances

LEMMA AddedAdvances ==
  ASSUME NEW q \in Store, NEW i \in Items, q.item[i].state = "new"
  PROVE  Advances(q, Added(q, i))
<1>1. Advance(q.item[i], QueuedItem)
  BY DEF Advance, Stays, Later, Says, QueuedItem
<1>2. Added(q, i).item = Put(q, i, QueuedItem).item
  BY DEF Added, Put, Store
<1> QED BY <1>1, <1>2, PutAdvances DEF Advances

LEMMA EditedMoves ==
  ASSUME NEW q \in Store, NEW i \in Items, q.item[i].state \in PRESENT, NEW words \in Nat
  PROVE  /\ Moves(q, Edited(q, i, words))
         /\ \A j \in Items : IF j = i THEN Edited(q, i, words).item[j].txt = words
                                      ELSE Edited(q, i, words).item[j] = q.item[j]
<1> DEFINE it == q.item[i]
           state == IF it.state = "failed" THEN "queued" ELSE it.state
           jt == Changed([it EXCEPT !.txt = words], state, it.stage)
<1>1. it \in Item /\ it.stage \in STAGES /\ state \in PRESENT
  BY DEF Store, Item, PRESENT, WAITING
<1>2. Edited(q, i, words) = Put(q, i, jt)
  BY DEF Edited
<1>3. jt.txt = words
  BY <1>1 DEF Changed, Item
<1> HIDE DEF state
<1>4. Follow(it, jt)
  BY <1>1, ChangedAdvance
<1> HIDE DEF jt
<1>5. \A j \in Items : q.item[j] \in Item
  BY DEF Store
<1>6. Put(q, i, jt).item[i] = jt /\ \A j \in Items : j # i => Put(q, i, jt).item[j] = q.item[j]
  BY DEF Store, Put
<1> QED BY <1>2, <1>3, <1>4, <1>5, <1>6, SameAdvance DEF Moves, Advance, Follow

LEMMA MovedAdvances ==
  ASSUME NEW q \in Store, NEW i \in Items, q.item[i].state \in PRESENT, NEW k
  PROVE  Advances(q, Moved(q, i, k))
<1> DEFINE it == q.item[i]
<1>1. it \in Item /\ it.stage \in STAGES /\ it.state \in PRESENT
  BY DEF Store, Item
<1>2. Moved(q, i, k).item = Put(q, i, Changed(it, it.state, it.stage)).item
  BY DEF Moved, Put, Store
<1>3. Advance(it, Changed(it, it.state, it.stage))
  BY <1>1, ChangedAdvance
<1> QED BY <1>2, <1>3, PutAdvances DEF Advances

LEMMA MarkedAdvances ==
  ASSUME NEW q \in Store, NEW i \in Items, q.item[i].state \in PRESENT, NEW state \in PRESENT, NEW stage \in STAGES
  PROVE  Advances(q, Marked(q, i, state, stage))
<1>1. q.item[i] \in Item
  BY DEF Store
<1> QED BY <1>1, ChangedAdvance, PutAdvances DEF Marked

LEMMA ClaimedAdvances ==
  ASSUME NEW q \in Store, NEW i \in Items, q.item[i].state \in PRESENT
  PROVE  Advances(q, Claimed(q, i))
<1>1. Claimed(q, i) = Marked(q, i, "dispatching", "sending")
  BY DEF Claimed, Marked
<1>2. "dispatching" \in PRESENT /\ "sending" \in STAGES
  BY DEF PRESENT, STAGES
<1> QED BY <1>1, <1>2, MarkedAdvances

LEMMA AllChangedAdvances ==
  ASSUME NEW q \in Store, NEW S \in SUBSET Present(q), NEW state \in PRESENT
  PROVE  Advances(q, AllChanged(q, S, state))
<1> SUFFICES ASSUME NEW i \in Items PROVE Advance(q.item[i], AllChanged(q, S, state).item[i])
  BY DEF Advances
<1>1. q.item[i] \in Item /\ "none" \in STAGES
  BY DEF Store, STAGES
<1>2. AllChanged(q, S, state).item[i] = IF i \in S THEN Changed(q.item[i], state, "none") ELSE q.item[i]
  BY DEF AllChanged, Store
<1>3. i \in S => q.item[i].state \in PRESENT
  BY DEF Present
<1> QED BY <1>1, <1>2, <1>3, SameAdvance, ChangedAdvance

LEMMA ResumedAdvances ==
  ASSUME NEW q \in Store
  PROVE  Advances(q, Resumed(q))
<1> DEFINE r == AllChanged(q, InState(q, "failed"), "queued")
<1>1. InState(q, "failed") \in SUBSET Present(q) /\ "queued" \in PRESENT
  BY DEF InState, Present, PRESENT, WAITING
<1>2. Advances(q, r)
  BY <1>1, AllChangedAdvances
<1>3. r \in Store
  BY <1>1, AllChangedStep DEF Follows
<1> HIDE DEF r
<1>4. [r EXCEPT !.pause = "no"].item = r.item
  BY <1>3 DEF Store
<1>5. Resumed(q) = IF q.pause = "no" THEN q ELSE [r EXCEPT !.pause = "no"]
  BY DEF Resumed, r
<1> QED BY <1>2, <1>4, <1>5, SameAdvances DEF Advances

LEMMA RetiredAdvances ==
  ASSUME NEW q \in Store, NEW S \in SUBSET Items, NEW outcome \in {"delivered", "removed"}
  PROVE  Advances(q, Retired(q, S, outcome))
<1> SUFFICES ASSUME NEW i \in Items PROVE Advance(q.item[i], Retired(q, S, outcome).item[i])
  BY DEF Advances
<1>1. Retired(q, S, outcome).item[i] = IF i \in S THEN [NewItem EXCEPT !.state = outcome] ELSE q.item[i]
  BY DEF Retired, Store
<1>2. [NewItem EXCEPT !.state = outcome].state = outcome /\ outcome \notin PRESENT \cup {"new", "lost"}
  BY DEF NewItem, PRESENT, WAITING
<1>3. q.item[i] \in Item
  BY DEF Store
<1> QED BY <1>1, <1>2, <1>3, SameAdvance DEF Advance, Stays, Later, Says

LEMMA PausedAdvances ==
  ASSUME NEW q \in Store, NEW r \in Store, Advances(q, r), NEW reason
  PROVE  Advances(q, Paused(r, reason))
<1>1. Paused(r, reason).item = r.item
  BY DEF Paused, Store
<1> QED BY <1>1 DEF Advances

LEMMA SettledAdvances ==
  ASSUME NEW q \in Store, NEW i \in Items, NEW answer, q.item[i].state = "dispatching"
  PROVE  Advances(q, Settled(q, i, answer))
<1>0. q.item[i].state \in PRESENT /\ {"dispatching", "queued", "failed"} \subseteq PRESENT /\ {"none", "native", "accepted"} \subseteq STAGES
  BY DEF PRESENT, WAITING, STAGES
<1>1. CASE answer = "delivered"
  BY <1>1, RetiredAdvances DEF Settled
<1>2. CASE answer = "accepted"
  <2> DEFINE stage == IF q.item[i].stage = "native" THEN "native" ELSE "accepted"
  <2>1. stage \in STAGES
    BY <1>0
  <2>2. Settled(q, i, answer) = Marked(q, i, "dispatching", stage)
    BY <1>2 DEF Settled
  <2> HIDE DEF stage
  <2> QED BY <1>0, <2>1, <2>2, MarkedAdvances
<1>3. CASE answer \in {"busy", "unsupported"}
  <2>1. Settled(q, i, answer) = Fronted(Marked(q, i, "queued", "none"), i)
    BY <1>3 DEF Settled
  <2>2. Advances(q, Marked(q, i, "queued", "none")) /\ Follows(q, Marked(q, i, "queued", "none"), {})
    BY <1>0, MarkedStep, MarkedAdvances
  <2> QED BY <2>1, <2>2, FrontedStep DEF Follows, Advances
<1>4. CASE answer \notin {"delivered", "accepted", "busy", "unsupported"}
  <2>1. Settled(q, i, answer) = Paused(Marked(q, i, "failed", "none"), "failed")
    BY <1>4 DEF Settled
  <2>2. Advances(q, Marked(q, i, "failed", "none")) /\ Follows(q, Marked(q, i, "failed", "none"), {})
    BY <1>0, MarkedStep, MarkedAdvances
  <2> QED BY <2>1, <2>2, PausedAdvances DEF Follows
<1> QED BY <1>1, <1>2, <1>3, <1>4

LEMMA TurnEndedAdvances ==
  ASSUME NEW q \in Store, NEW outcome
  PROVE  Advances(q, TurnEnded(q, outcome))
<1>1. TakenIn(q) \in SUBSET Present(q) /\ TakenIn(q) \in SUBSET Items /\ "attention" \in PRESENT
  BY DEF TakenIn, InState, Present, PRESENT, WAITING
<1>2. CASE outcome = "completed"
  BY <1>1, <1>2, RetiredAdvances DEF TurnEnded
<1>3. CASE outcome # "completed"
  <2>1. Advances(q, AllChanged(q, TakenIn(q), "attention")) /\ Follows(q, AllChanged(q, TakenIn(q), "attention"), {})
    BY <1>1, AllChangedStep, AllChangedAdvances
  <2> QED BY <1>3, <2>1, PausedAdvances DEF TurnEnded, Follows
<1> QED BY <1>2, <1>3

LEMMA GivesBackAdvances ==
  ASSUME NEW q \in Store, NEW r, NEW S \in SUBSET Present(q), NEW fresh \in SUBSET InState(q, "new"), GivesBack(q, r, S, fresh)
  PROVE  Advances(q, r)
<1> SUFFICES ASSUME NEW i \in Items PROVE Advance(q.item[i], r.item[i])
  BY DEF Advances
<1>1. q.item[i] \in Item /\ "queued" \in PRESENT /\ "none" \in STAGES
  BY DEF Store, PRESENT, WAITING, STAGES
<1>2. r.item[i] = IF i \in fresh THEN QueuedItem ELSE IF i \in S THEN Changed(q.item[i], "queued", "none") ELSE q.item[i]
  BY DEF GivesBack
<1>3. CASE i \in fresh
  BY <1>2, <1>3 DEF Advance, Stays, Later, Says, InState, QueuedItem
<1>4. CASE i \notin fresh /\ i \in S
  <2>1. q.item[i].state \in PRESENT
    BY <1>4 DEF Present
  <2> QED BY <1>1, <1>2, <1>4, <2>1, ChangedAdvance
<1>5. CASE i \notin fresh /\ i \notin S
  BY <1>1, <1>2, <1>5, SameAdvance
<1> QED BY <1>3, <1>4, <1>5

----------------------------------------------------------------------------
(* The store and its file, action by action *)

Edits == \E d \in Devices, i \in Items : Edit(d, i)

Sound ==
  /\ Moves(store, store') /\ (Advances(store, store') \/ Edits)
  /\ IndexHolds' /\ InStep'
  /\ spent.saves <= spent'.saves

\* A change that retires the messages of S, saved or not.
LEMMA CommitSound ==
  ASSUME TypeOK, IndexHolds, InStep, NEW q, NEW a \in {0, 1}, Commit(q, a),
         NEW S, Follows(store, q, S), Advances(store, q) \/ (Moves(store, q) /\ Edits),
         \A i \in S : q.item[i].state \notin PRESENT, payload \ S \subseteq payload'
  PROVE  Sound
<1> PICK failed \in {0, 1} : /\ store' = q
                             /\ spent' = [spent EXCEPT !.acts = @ + a, !.saves = @ + failed]
                             /\ disk' = IF failed = 1 THEN disk ELSE q
  BY DEF Commit
<1>1. spent.saves \in Nat /\ spent'.saves = spent.saves + failed
  BY DEF TypeOK, Spent
<1>2. InStep' /\ spent.saves <= spent'.saves
  BY <1>1 DEF InStep
<1>3. ASSUME NEW i \in Present(store') PROVE i \in payload' /\ i \in Present(disk')
  <2>1. i \in Items /\ q.item[i].state \in PRESENT /\ i \notin S
    BY <1>3 DEF Present
  <2>2. i \in Present(store)
    BY <2>1 DEF Follows, Present
  <2> QED BY <2>1, <2>2 DEF IndexHolds, Present
<1>4. Moves(store, store') /\ (Advances(store, store') \/ Edits)
  BY DEF Advances, Advance, Moves, Follow
<1> QED BY <1>2, <1>3, <1>4 DEF Sound, IndexHolds

LEMMA QuietSound ==
  ASSUME TypeOK, IndexHolds, InStep, UNCHANGED <<store, disk, payload>>, spent' = spent \/ Fault
  PROVE  Sound
<1>1. spent.saves \in Nat /\ spent'.saves = spent.saves
  BY DEF TypeOK, Spent, Fault
<1>2. Advances(store, store')
  BY SameAdvances DEF TypeOK
<1> QED BY <1>1, <1>2 DEF Sound, IndexHolds, InStep, Present, Advances, Advance, Moves, Follow

LEMMA PersonSound ==
  ASSUME TypeOK, IndexHolds, InStep, PersonNext
  PROVE  Sound
<1> USE DEF hostVars, agentVars, history, files
<1>0. store \in Store /\ \A S : payload \ S \subseteq payload
  BY DEF TypeOK
<1>1. ASSUME NEW i \in Items, Add(i) PROVE Sound
  <2>1. store' = Added(store, i) /\ disk' = store' /\ spent' = spent /\ payload' = payload \cup {i} /\ store.item[i].state = "new"
    BY <1>1 DEF Add, CanAdd
  <2>2. Advances(store, store') /\ Follows(store, store', {i})
    BY <1>0, <2>1, AddedAdvances, AddedStep
  <2>3. IndexHolds'
    BY <2>1, <2>2 DEF IndexHolds, Follows, Present
  <2>4. spent.saves <= spent'.saves
    BY <2>1 DEF TypeOK, Spent
  <2>5. Moves(store, store')
    BY <2>2 DEF Advances, Advance, Moves, Follow
  <2> QED BY <2>1, <2>2, <2>3, <2>4, <2>5 DEF Sound, InStep
<1>2. ASSUME NEW d \in Devices, Read(d) \/ Conflict(d) PROVE Sound
  BY <1>2, QuietSound DEF Read, Conflict
<1>3. ASSUME NEW d \in Devices, NEW i \in Items, Edit(d, i) PROVE Sound
  <2>1. store.item[i].state \in PRESENT /\ text[i] + 1 \in Nat
    BY <1>3 DEF Edit, MayChange, Present, TypeOK
  <2>2. Moves(store, Edited(store, i, text[i] + 1)) /\ Follows(store, Edited(store, i, text[i] + 1), {})
    BY <1>0, <2>1, EditedStep, EditedMoves
  <2>3. Commit(Edited(store, i, text[i] + 1), 1) /\ payload' = payload /\ Edits
    BY <1>3 DEF Edit, Edits
  <2> QED BY <2>2, <2>3, CommitSound
<1>4. ASSUME NEW d \in Devices, NEW i \in Items, Withdraw(d, i) PROVE Sound
  <2> DEFINE q == Retired(store, {i}, "removed")
  <2>1. Advances(store, q) /\ Follows(store, q, {i}) /\ \A j \in {i} : q.item[j].state \notin PRESENT
    BY <1>0, RetiredStep, RetiredAdvances DEF PRESENT, WAITING
  <2>2. Commit(q, 1) /\ payload' = payload \ {i}
    BY <1>4 DEF Withdraw
  <2> HIDE DEF q
  <2> QED BY <2>1, <2>2, CommitSound
<1>5. ASSUME NEW d \in Devices, NEW i \in Items, Move(d, i) PROVE Sound
  <2>1. PICK k \in 1..Len(store.order) : Commit(Moved(store, i, k), 1)
    BY <1>5 DEF Move
  <2>2. Advances(store, Moved(store, i, k)) /\ Follows(store, Moved(store, i, k), {})
    BY <1>0, <1>5, MovedStep, MovedAdvances DEF Move, MayChange, Present
  <2> QED BY <1>5, <2>1, <2>2, CommitSound DEF Move
<1>6. ASSUME NEW d \in Devices, NEW i \in Items, SendNow(d, i) PROVE Sound
  <2> DEFINE r == Claimed(store, i)
             q == Resumed(r)
  <2>1. store.item[i].state \in PRESENT
    BY <1>6 DEF SendNow, MayChange, Present
  <2>2. Advances(store, r) /\ Follows(store, r, {})
    BY <1>0, <2>1, ClaimedStep, ClaimedAdvances
  <2>3. Advances(r, q) /\ Follows(r, q, {})
    BY <2>2, ResumedStep, ResumedAdvances DEF Follows
  <2>4. Commit(q, 1) /\ payload' = payload
    BY <1>6 DEF SendNow
  <2> HIDE DEF r, q
  <2>5. Advances(store, q)
    BY <1>0, <2>2, <2>3, AdvancesTwice DEF Follows
  <2>6. Follows(store, q, {})
    BY <2>2, <2>3 DEF Follows
  <2> QED BY <2>4, <2>5, <2>6, CommitSound
<1>7. CASE Resume \/ DirectSend
  <2>1. Advances(store, Resumed(store)) /\ Follows(store, Resumed(store), {})
    BY <1>0, ResumedStep, ResumedAdvances
  <2>2. (\E a \in {0, 1} : Commit(Resumed(store), a)) /\ payload' = payload
    BY <1>7 DEF Resume, DirectSend
  <2> QED BY <2>1, <2>2, CommitSound
<1>8. CASE Stop
  <2> DEFINE q == Paused(store, "stopped")
  <2>1. q \in Store /\ q.item = store.item
    BY <1>0, PausedStep DEF PAUSES
  <2>2. Commit(q, 1) /\ payload' = payload
    BY <1>8 DEF Stop
  <2> HIDE DEF q
  <2>3. Advances(store, q) /\ Follows(store, q, {})
    BY <1>0, <2>1, SameAdvances DEF Follows
  <2> QED BY <2>2, <2>3, CommitSound
<1>9. CASE Reopens
  BY <1>9, QuietSound DEF Reopens
<1> QED BY <1>1, <1>2, <1>3, <1>4, <1>5, <1>6, <1>7, <1>8, <1>9 DEF PersonNext

LEMMA HostSound ==
  ASSUME TypeOK, IndexHolds, InStep, HostNext
  PROVE  Sound
<1> USE DEF hostVars, agentVars, history, files
<1>0. store \in Store /\ "delivered" \notin PRESENT /\ "dispatching" \in PRESENT
  BY DEF TypeOK, PRESENT, WAITING
<1>1. CASE DispatchBegins \/ DispatchYields \/ ObserveBegan
  BY <1>1, QuietSound DEF DispatchBegins, DispatchYields, ObserveBegan
<1>2. ASSUME NEW i \in Items, DispatchClaims(i) PROVE Sound
  <2>1. store.item[i].state \in PRESENT
    BY <1>2 DEF DispatchClaims, IsReady, InState, PRESENT, WAITING
  <2>2. Advances(store, Claimed(store, i)) /\ Follows(store, Claimed(store, i), {})
    BY <1>0, <2>1, ClaimedStep, ClaimedAdvances
  <2>3. Commit(Claimed(store, i), 0) /\ payload' = payload
    BY <1>2 DEF DispatchClaims
  <2> QED BY <2>2, <2>3, CommitSound
<1>3. ASSUME NEW i \in Items, NEW q, q = Retired(store, {i}, "delivered"), Commit(q, 0), payload' = payload \ {i} PROVE Sound
  <2>1. Advances(store, q) /\ Follows(store, q, {i}) /\ \A j \in {i} : q.item[j].state \notin PRESENT
    BY <1>0, <1>3, RetiredStep, RetiredAdvances
  <2> QED BY <1>3, <2>1, CommitSound
<1>4. ASSUME NEW i \in Items, ConfirmExpires(i) PROVE Sound
  <2>1. CASE OnItsWay(i) /\ store.item[i].stage = "accepted"
    BY <1>3, <1>4, <2>1 DEF ConfirmExpires, OnItsWay
  <2>2. CASE ~ (OnItsWay(i) /\ store.item[i].stage = "accepted")
    BY <1>4, <2>2, QuietSound DEF ConfirmExpires, OnItsWay
  <2> QED BY <2>1, <2>2
<1>5. ASSUME NEW c \in calls, TurnsBack(c) \/ HandsOver(c) PROVE Sound
  BY <1>5, QuietSound DEF TurnsBack, HandsOver
<1>6. ASSUME NEW c \in calls, Settle(c) PROVE Sound
  <2> DEFINE i == c.item
             q == Settled(store, i, c.answer)
             S == IF c.answer = "delivered" THEN {i} ELSE {}
  <2>1. i \in Items
    BY DEF TypeOK, Call
  <2>2. CASE OnItsWay(i)
    <3>1. Advances(store, q) /\ Follows(store, q, S)
      BY <1>0, <2>1, <2>2, SettledType, SettledAdvances DEF OnItsWay
    <3>2. \A j \in S : q.item[j].state \notin PRESENT
      BY <1>0, <2>1, RetiredStep DEF Settled
    <3>3. Commit(q, 0) /\ payload' = payload \ S
      BY <1>6, <2>2 DEF Settle, OnItsWay
    <3> HIDE DEF q, S
    <3> QED BY <3>1, <3>2, <3>3, CommitSound
  <2>3. CASE ~OnItsWay(i)
    BY <1>6, <2>3, QuietSound DEF Settle, OnItsWay
  <2> QED BY <2>2, <2>3
<1>7. CASE ObserveNative
  <2> DEFINE i == Head(wire).item
  <2>1. i \in Items
    BY <1>7, HeadType DEF ObserveNative
  <2>2. CASE OnItsWay(i) /\ store.item[i].stage # "native"
    <3>1. Commit(Marked(store, i, "dispatching", "native"), 0) /\ payload' = payload
      BY <1>7, <2>2 DEF ObserveNative
    <3> HIDE DEF i
    <3>2. /\ Follows(store, Marked(store, i, "dispatching", "native"), {})
          /\ Advances(store, Marked(store, i, "dispatching", "native"))
      BY <1>0, <2>1, <2>2, MarkedStep, MarkedAdvances DEF OnItsWay, STAGES
    <3> QED BY <3>1, <3>2, CommitSound
  <2>3. CASE ~ (OnItsWay(i) /\ store.item[i].stage # "native")
    BY <1>7, <2>3, QuietSound DEF ObserveNative
  <2> QED BY <2>2, <2>3
<1>8. CASE ObserveStarted
  <2> DEFINE i == Head(wire).item
  <2>1. i \in Items
    BY <1>8, HeadType DEF ObserveStarted
  <2>2. CASE OnItsWay(i)
    BY <1>3, <1>8, <2>1, <2>2 DEF ObserveStarted
  <2>3. CASE ~OnItsWay(i)
    BY <1>8, <2>3, QuietSound DEF ObserveStarted
  <2> QED BY <2>2, <2>3
<1>9. CASE ObserveRefused
  <2> DEFINE i == Head(wire).item
             r == Marked(store, i, "failed", "none")
             q == Paused(r, "failed")
  <2>1. i \in Items
    BY <1>9, HeadType DEF ObserveRefused
  <2>2. CASE OnItsWay(i)
    <3>1. Commit(q, 0) /\ payload' = payload
      BY <1>9, <2>2 DEF ObserveRefused
    <3> HIDE DEF i
    <3>2. Follows(store, r, {}) /\ Advances(store, r)
      BY <1>0, <2>1, <2>2, MarkedStep, MarkedAdvances DEF OnItsWay, PRESENT, WAITING, STAGES
    <3>3. Follows(store, q, {}) /\ Advances(store, q)
      BY <1>0, <3>2, PausedStep, PausedAdvances DEF Follows, PAUSES
    <3> HIDE DEF r, q
    <3> QED BY <3>1, <3>3, CommitSound
  <2>3. CASE ~OnItsWay(i)
    BY <1>9, <2>3, QuietSound DEF ObserveRefused
  <2> QED BY <2>2, <2>3
<1>10. CASE ObserveEnded
  <2> DEFINE outcome == Head(wire).outcome
             q == TurnEnded(store, outcome)
             S == IF outcome = "completed" THEN TakenIn(store) ELSE {}
  <2>1. outcome \in OUTCOMES
    BY <1>10, HeadType DEF ObserveEnded
  <2>2. Commit(q, 0) /\ payload' = payload \ S
    BY <1>10 DEF ObserveEnded
  <2> HIDE DEF outcome
  <2>3. Follows(store, q, S) /\ Advances(store, q)
    BY <1>0, <2>1, TurnEndedType, TurnEndedAdvances
  <2>4. \A i \in S : i \in Items /\ q.item[i].state \notin PRESENT
    <3>1. CASE outcome = "completed"
      <4>1. TakenIn(store) \in SUBSET Items
        BY DEF TakenIn, InState
      <4> QED BY <1>0, <3>1, <4>1, RetiredStep DEF TurnEnded
    <3>2. CASE outcome # "completed"
      BY <3>2
    <3> QED BY <3>1, <3>2
  <2> HIDE DEF q, S
  <2> QED BY <2>2, <2>3, <2>4, CommitSound
<1>11. CASE Reclaim
  <2> DEFINE back == {i \in Held : OnItsWay(i)}
  <2>1. PICK fresh \in SUBSET InState(store, "new") :
          /\ GivesBack(store, store', back, fresh)
          /\ spent' \in Spent /\ spent.saves <= spent'.saves
          /\ \/ disk' = store'
             \/ spent.saves < spent'.saves /\ fresh = {} /\ disk' = disk
             \/ /\ spent.saves < spent'.saves
                /\ \E T \in SUBSET Present(store) : GivesBack(store, disk', T, fresh)
          /\ payload' = payload \cup fresh
    BY <1>11, ReclaimStep
  <2>2. back \in SUBSET Present(store)
    BY DEF Held, OnItsWay, Present, PRESENT
  <2> HIDE DEF back
  <2>3. Advances(store, store')
    BY <1>0, <2>1, <2>2, GivesBackAdvances
  <2>4. spent.saves \in Nat /\ spent'.saves \in Nat
    BY <2>1 DEF TypeOK, Spent
  <2>5. InStep'
    BY <2>1, <2>4 DEF InStep
  <2>6. ASSUME NEW i \in Present(store') PROVE i \in payload' /\ i \in Present(disk')
    <3>1. i \in Items /\ (i \in fresh \/ i \in Present(store))
      BY <2>1 DEF GivesBack, Follows, Present
    <3>2. CASE disk' = store'
      BY <2>1, <2>6, <3>1, <3>2 DEF IndexHolds
    <3>3. CASE fresh = {} /\ disk' = disk
      BY <2>1, <3>1, <3>3 DEF IndexHolds
    <3>4. ASSUME NEW T \in SUBSET Present(store), GivesBack(store, disk', T, fresh) PROVE i \in Present(disk')
      <4>1. i \in fresh => disk'.item[i] = QueuedItem
        BY <3>1, <3>4 DEF GivesBack
      <4>2. i \notin fresh => disk'.item[i].state \in PRESENT
        BY <3>1, <3>4 DEF GivesBack, Follows, Present
      <4> QED BY <3>1, <4>1, <4>2 DEF Present, QueuedItem, PRESENT, WAITING
    <3> QED BY <2>1, <3>1, <3>2, <3>3, <3>4 DEF IndexHolds
  <2> QED BY <2>1, <2>3, <2>5, <2>6 DEF Sound, IndexHolds, Advances, Advance, Moves, Follow
<1> QED BY <1>1, <1>2, <1>4, <1>5, <1>6, <1>7, <1>8, <1>9, <1>10, <1>11 DEF HostNext

LEMMA AgentSound ==
  ASSUME TypeOK, IndexHolds, InStep, AgentNext \/ Locks \/ Unlocks \/ UNCHANGED vars
  PROVE  Sound
<1>1. UNCHANGED <<store, disk, payload>>
  BY DEF AgentNext, AgentRuns, AgentHolds, AgentDeclines, AgentStarts, AgentQueues, AgentRefuses,
         AgentEnds, AgentExits, Locks, Unlocks, files, vars
<1>2. spent' = spent \/ Fault
  BY DEF AgentNext, AgentRuns, AgentHolds, AgentDeclines, AgentStarts, AgentQueues, AgentRefuses,
         AgentEnds, AgentExits, Locks, Unlocks, vars
<1> QED BY <1>1, <1>2, QuietSound

\* Only a restart meets an edit cut in two or an index it cannot read, and only
\* an edit writes a message's own file anew.
LEMMA MetStep ==
  ASSUME TypeOK, [Next]_vars
  PROVE  Restart \/ (spent'.cuts = spent.cuts /\ spent'.unread = spent.unread /\ (UNCHANGED text \/ Edits))
<1> DEFINE Met == spent'.cuts = spent.cuts /\ spent'.unread = spent.unread
<1> USE DEF hostVars, agentVars, history, files
<1>0. Fault \/ spent' = spent \/ (\E q, a : Commit(q, a)) => Met
  BY DEF Fault, Commit, TypeOK, Spent
<1> HIDE DEF Met
<1>1. CASE PersonNext
  BY <1>0, <1>1 DEF PersonNext, Add, Read, Conflict, Edit, Edits, Withdraw, Move, SendNow, Resume, Stop, DirectSend, Reopens, Met
<1>2. CASE HostNext
  <2>1. CASE Reclaim
    BY <2>1 DEF Reclaim, Met, TypeOK, Spent
  <2>2. ASSUME NEW i \in Items, DispatchClaims(i) \/ ConfirmExpires(i) PROVE Met /\ UNCHANGED text
    BY <1>0, <2>2 DEF DispatchClaims, ConfirmExpires
  <2>3. ASSUME NEW c \in calls, TurnsBack(c) \/ HandsOver(c) \/ Settle(c) PROVE Met /\ UNCHANGED text
    BY <1>0, <2>3 DEF TurnsBack, HandsOver, Settle
  <2>4. CASE DispatchBegins \/ DispatchYields
    BY <1>0, <2>4 DEF DispatchBegins, DispatchYields
  <2>5. ASSUME ObserveBegan \/ ObserveNative \/ ObserveStarted \/ ObserveRefused \/ ObserveEnded PROVE Met /\ UNCHANGED text
    BY <1>0, <2>5 DEF ObserveBegan, ObserveNative, ObserveStarted, ObserveRefused, ObserveEnded
  <2> QED BY <1>2, <2>1, <2>2, <2>3, <2>4, <2>5 DEF HostNext, Met, Reclaim
<1>3. CASE AgentNext
  BY <1>0, <1>3 DEF AgentNext, AgentRuns, AgentHolds, AgentDeclines, AgentStarts, AgentQueues, AgentRefuses, AgentEnds, AgentExits, Met
<1>4. CASE Locks \/ Unlocks \/ UNCHANGED vars
  BY <1>0, <1>4 DEF Locks, Unlocks, vars, Met
<1> QED BY <1>1, <1>2, <1>3, <1>4 DEF Next, Met

\* A restart that reads the index keeps what it and the files agree on, and that
\* is all the queue showed; one that does not keeps nothing.  What is restored of
\* a saved index only ever advances.
LEMMA RestartSound ==
  ASSUME TypeOK, IndexHolds, InStep, NothingLost, Restart
  PROVE  /\ NothingLost' /\ IndexHolds' /\ InStep' /\ spent'.saves = spent.saves
         /\ spent.saves = 0 => \A i \in Items : /\ Later(store.item[i], store'.item[i])
                                                /\ Says(store.item[i], store'.item[i])
<1> PICK index \in Store, cut \in SUBSET Items : index \in {disk, Empty} /\ Finds(index, cut)
  BY RestartFinds
<1>1. store' = Loaded(index, payload, store) /\ disk' = store' /\ payload' = Kept(index, payload)
  BY DEF Finds
<1>2. \A i \in Items : IF i \in Kept(index, payload) THEN store'.item[i].state \in PRESENT
                       ELSE store'.item[i].state = IF store.item[i].state \in PRESENT THEN "lost" ELSE store.item[i].state
  BY <1>1, LoadedStep DEF TypeOK
<1>3. IF index = disk THEN \A i \in Items : store.item[i].state \in PRESENT => i \in Kept(index, payload)
                      ELSE Kept(index, payload) = {}
  BY EmptyStore DEF IndexHolds, Kept, Present
<1>4. "lost" \notin PRESENT /\ "new" \notin PRESENT
  BY DEF PRESENT, WAITING
<1>5. NothingLost'
  <2>1. spent.unread \in Nat /\ spent'.unread = spent.unread + OneMore(index # disk)
    BY DEF Finds, TypeOK, Spent
  <2>2. spent'.unread = 0 => spent.unread = 0 /\ index = disk
    BY <2>1 DEF OneMore
  <2> QED BY <1>2, <1>3, <1>4, <2>2 DEF NothingLost, InState
<1>6. IndexHolds'
  <2> SUFFICES ASSUME NEW i \in Present(store') PROVE i \in Kept(index, payload)
    BY <1>1 DEF IndexHolds
  <2>1. i \in Items /\ store'.item[i].state \in PRESENT
    BY DEF Present
  <2> QED BY <1>2, <1>4, <2>1
<1>7. spent'.saves = spent.saves
  BY DEF Finds, TypeOK, Spent
<1>8. ASSUME spent.saves = 0, NEW i \in Items
      PROVE  Later(store.item[i], store'.item[i]) /\ Says(store.item[i], store'.item[i])
  <2>1. disk = store /\ store.item[i] \in Item
    BY <1>8 DEF InStep, TypeOK, Store
  <2>2. store'.item[i] = IF i \in Kept(index, payload) THEN Restored(index.item[i]) ELSE Forgotten(store.item[i])
    BY <1>1 DEF Loaded
  <2>3. i \in Kept(index, payload) => index = store /\ store.item[i].state \in PRESENT
    BY <1>3, <2>1 DEF Kept, Present
  <2>4. CASE i \in Kept(index, payload) /\ store.item[i].state = "dispatching"
    <3>1. "attention" \in PRESENT /\ "none" \in STAGES
      BY DEF PRESENT, WAITING, STAGES
    <3> QED BY <2>1, <2>2, <2>3, <2>4, <3>1, ChangedAdvance DEF Restored, Advance
  <2>5. CASE i \in Kept(index, payload) /\ store.item[i].state # "dispatching"
    <3>1. store'.item[i] = [store.item[i] EXCEPT !.stage = "none"]
      BY <2>2, <2>3, <2>5 DEF Restored
    <3> QED BY <1>4, <2>1, <2>3, <2>5, <3>1 DEF Item, Later, Says
  <2>6. CASE i \notin Kept(index, payload)
    <3>1. store'.item[i].state = IF store.item[i].state \in PRESENT THEN "lost" ELSE store.item[i].state
      BY <1>2, <2>6
    <3> QED BY <1>4, <3>1 DEF Later, Says
  <2> QED BY <2>4, <2>5, <2>6
<1> QED BY <1>1, <1>5, <1>6, <1>7, <1>8 DEF InStep

LEMMA StartSound == Init => IndexHolds /\ InStep /\ NothingLost
BY DEF Init, IndexHolds, InStep, NothingLost, Empty, Present, InState, NewItem, PRESENT, WAITING

\* Every step but a restart is sound, and a restart is while no write failed.
LEMMA NextSound ==
  ASSUME TypeOK, IndexHolds, InStep, [Next]_vars
  PROVE  Sound \/ Restart
BY PersonSound, HostSound, AgentSound DEF Next

----------------------------------------------------------------------------
(* What a restart keeps *)

\* The store, the index and the messages' own files agree as the definitions say.
LEMMA FilesSound == Spec => [](IndexHolds /\ InStep /\ NothingLost)
<1>1. TypeOK /\ IndexHolds /\ InStep /\ NothingLost /\ [Next]_vars => (IndexHolds /\ InStep /\ NothingLost)'
  <2> SUFFICES ASSUME TypeOK, IndexHolds, InStep, NothingLost, [Next]_vars PROVE (IndexHolds /\ InStep /\ NothingLost)'
    OBVIOUS
  <2>1. CASE Sound /\ ~Restart
    <3>1. spent'.unread = spent.unread
      BY <2>1, MetStep
    <3> QED BY <2>1, <3>1 DEF Sound, Moves, Follow, Stays, NothingLost, InState
  <2>2. CASE Restart
    BY <2>2, RestartSound
  <2> QED BY <2>1, <2>2, NextSound
<1> QED BY TypeCorrect, StartSound, <1>1, PTL DEF Spec

\* No restart that can read the index forgets a message whose add was answered,
\* for any number of messages, restarts, failed index writes and edits cut in two
\* by a crash: the queue shows only what has its own file and is in the index
\* (IndexHolds), because an add that is not saved is undone and no other change
\* brings a message in.
THEOREM NoneLost == Spec => []NothingLost
BY FilesSound, PTL

----------------------------------------------------------------------------
(* What a revision names *)

\* Record it is what the page that read v read, or has a later revision, or has left.
Behind(v, it) ==
  /\ it.state # "new"
  /\ it.state \in PRESENT => /\ it.rev >= v.rev
                             /\ it.rev = v.rev => it.state = v.state /\ it.txt = v.txt
Known(d, q) == view[d] # Nothing => Behind(view[d], q.item[view[d].item])
ViewsBehind == spent.saves = 0 => \A d \in Devices : Known(d, store)

LEMMA BehindStays ==
  ASSUME NEW v, v.rev \in Nat, NEW a \in Item, NEW b \in Item, Behind(v, a), Later(a, b)
  PROVE  Behind(v, b)
<1>1. a.rev \in Nat /\ b.rev \in Nat
  BY DEF Item
<1> QED BY <1>1 DEF Behind, Later

LEMMA ViewType ==
  ASSUME TypeOK, NEW d \in Devices, view[d] # Nothing
  PROVE  view[d].item \in Items /\ view[d].rev \in Nat
<1>1. view[d] \in View
  BY DEF TypeOK
<1> QED BY <1>1 DEF View

\* A step after which every device has read what it had, or nothing, or a
\* message as the queue shows it.
LEMMA ViewStep ==
  ASSUME TypeOK, [Next]_vars, NEW d \in Devices
  PROVE  \/ view'[d] = view[d]
         \/ view'[d] = Nothing
         \/ /\ UNCHANGED store
            /\ \E i \in Present(store) :
                 view'[d] = [item |-> i, rev |-> store.item[i].rev, state |-> store.item[i].state, txt |-> store.item[i].txt]
<1>0. \A v : \A e \in Devices : [view EXCEPT ![e] = v][d] = IF e = d THEN v ELSE view[d]
  BY DEF TypeOK
<1>1. CASE \E e \in Devices : Read(e)
  BY <1>0, <1>1 DEF Read
<1>2. CASE \E e \in Devices : Conflict(e) \/ \E i \in Items : Edit(e, i) \/ Withdraw(e, i) \/ Move(e, i) \/ SendNow(e, i)
  <2>1. PICK e \in Devices : Answer(e)
    BY <1>2 DEF Conflict, Edit, Withdraw, Move, SendNow
  <2> QED BY <1>0, <2>1 DEF Answer
<1>3. CASE (\E i \in Items : Add(i)) \/ Resume \/ Stop \/ DirectSend \/ Reopens
  BY <1>3 DEF Add, Resume, Stop, DirectSend, Reopens
<1>4. CASE HostNext
  BY <1>4 DEF HostNext, DispatchBegins, DispatchYields, DispatchClaims, ConfirmExpires, TurnsBack, HandsOver, Settle,
              ObserveBegan, ObserveNative, ObserveStarted, ObserveRefused, ObserveEnded, Reclaim
<1>5. CASE AgentNext
  BY <1>5 DEF AgentNext, AgentRuns, AgentHolds, AgentDeclines, AgentStarts, AgentQueues, AgentRefuses, AgentEnds, AgentExits
<1>6. CASE Locks \/ Unlocks \/ Restart \/ UNCHANGED vars
  BY <1>6 DEF Locks, Unlocks, Restart, vars
<1> QED BY <1>1, <1>2, <1>3, <1>4, <1>5, <1>6 DEF Next, PersonNext

\* While no write failed and no edit was cut in two, a message's own file says
\* what the index shows.
Agrees == \A i \in Items : /\ store.item[i].state = "new" => text[i] = 0
                           /\ store.item[i].state \in PRESENT => text[i] = store.item[i].txt
TextAgrees == spent.saves = 0 /\ spent.cuts = 0 => Agrees

LEMMA TextStep ==
  ASSUME TypeOK, TypeOK', IndexHolds, InStep, NothingLost, TextAgrees, [Next]_vars
  PROVE  TextAgrees'
<1> SUFFICES ASSUME spent'.saves = 0, spent'.cuts = 0 PROVE Agrees'
  BY DEF TextAgrees
<1>0. spent \in Spent /\ spent' \in Spent /\ "new" \notin PRESENT
  BY DEF TypeOK, PRESENT, WAITING
\* A step that changes no text, in the files or in the queue.
<1>1. ASSUME Agrees, UNCHANGED text,
             \A i \in Items : Later(store.item[i], store'.item[i]) /\ Says(store.item[i], store'.item[i])
      PROVE  Agrees'
  BY <1>0, <1>1 DEF Agrees, Later, Says
<1>2. CASE Restart
  <2> PICK index \in Store, cut \in SUBSET Items : Finds(index, cut)
    BY <1>2, RestartFinds
  <2>1. spent'.cuts = spent.cuts + OneMore(cut # {}) /\ text' = [i \in Items |-> text[i] + OneMore(i \in cut)]
    BY <1>0 DEF Finds, Spent
  <2>2. spent.cuts = 0 /\ cut = {}
    BY <1>0, <2>1 DEF OneMore, Spent
  <2>3. text' = text
    BY <2>1, <2>2 DEF OneMore, TypeOK
  <2>4. spent.saves = 0
    BY <1>2, RestartSound
  <2> QED BY <1>1, <1>2, <2>2, <2>3, <2>4, RestartSound DEF TextAgrees
<1>3. CASE Sound /\ ~Restart
  <2>1. spent.saves = 0 /\ spent.cuts = 0
    BY <1>0, <1>3, MetStep DEF Sound, Spent
  <2>2. Agrees
    BY <2>1 DEF TextAgrees
  <2>3. CASE Edits
    <3>1. PICK d \in Devices, i \in Items : Edit(d, i)
      BY <2>3 DEF Edits
    <3>2. store.item[i].state \in PRESENT /\ store' = Edited(store, i, text[i] + 1) /\ text' = [text EXCEPT ![i] = @ + 1]
      BY <3>1, CommitStore DEF Edit, MayChange, Present
    <3>3. /\ \A j \in Items : IF j = i THEN store'.item[j].txt = text[i] + 1 ELSE store'.item[j] = store.item[j]
          /\ store'.item[i].state # "new"
      BY <1>0, <3>2, EditedMoves DEF Moves, Follow, Later, TypeOK
    <3>4. \A j \in Items : text'[j] = IF j = i THEN text[i] + 1 ELSE text[j]
      BY <3>2 DEF TypeOK
    <3> QED BY <2>2, <3>3, <3>4 DEF Agrees
  <2>4. CASE ~Edits
    BY <1>1, <1>3, <2>2, <2>4, MetStep DEF Sound, Advances, Advance
  <2> QED BY <2>3, <2>4
<1> QED BY <1>2, <1>3, NextSound

\* While no index write has failed, a revision names one state and one text of a
\* message, for any number of devices and restarts: every change a page can show
\* raises the revision, what load changes included (ViewsBehind), a message that
\* left does not come back under an old revision, and unless a crash cut an edit
\* between its two writes the text sent is the text shown (TextAgrees).
THEOREM RevisionsName == Spec => []RevisionNamesContent
<1>1. Init => ViewsBehind /\ TextAgrees
  <2>1. Init => ViewsBehind
    BY DEF Init, ViewsBehind, Known
  <2>2. Init => TextAgrees
    BY DEF Init, TextAgrees, Agrees, Empty, NewItem, PRESENT, WAITING
  <2> QED BY <2>1, <2>2
<1>2. TypeOK /\ TypeOK' /\ IndexHolds /\ InStep /\ NothingLost /\ ViewsBehind /\ [Next]_vars => ViewsBehind'
  <2> SUFFICES ASSUME TypeOK, TypeOK', IndexHolds, InStep, NothingLost, ViewsBehind, [Next]_vars,
                      spent'.saves = 0, NEW d \in Devices, view'[d] # Nothing
               PROVE  Behind(view'[d], store'.item[view'[d].item])
    BY DEF ViewsBehind, Known
  <2>1. spent.saves \in Nat /\ (Sound => spent.saves <= spent'.saves)
    BY DEF TypeOK, Spent, Sound
  <2>2. spent.saves = 0
    BY <2>1, NextSound, RestartSound
  <2>3. \A i \in Items : Later(store.item[i], store'.item[i])
    BY <2>2, NextSound, RestartSound DEF Sound, Moves, Follow
  <2>4. CASE view'[d] = view[d]
    <3> DEFINE i == view[d].item
    <3>1. i \in Items /\ view[d].rev \in Nat /\ view[d] # Nothing
      BY <2>4, ViewType
    <3>2. store.item[i] \in Item /\ store'.item[i] \in Item
      BY <3>1 DEF TypeOK, Store
    <3>3. Behind(view[d], store.item[i]) /\ Later(store.item[i], store'.item[i])
      BY <2>2, <2>3, <3>1 DEF ViewsBehind, Known
    <3> QED BY <2>4, <3>1, <3>2, <3>3, BehindStays
  <2>5. ASSUME UNCHANGED store, NEW i \in Present(store),
               view'[d] = [item |-> i, rev |-> store.item[i].rev, state |-> store.item[i].state, txt |-> store.item[i].txt]
        PROVE  Behind(view'[d], store'.item[view'[d].item])
    <3>1. i \in Items /\ store.item[i].state \in PRESENT /\ store.item[i].rev \in Nat /\ "new" \notin PRESENT
      BY DEF Present, TypeOK, Store, Item, PRESENT, WAITING
    <3> QED BY <2>5, <3>1 DEF Behind
  <2> QED BY <2>4, <2>5, ViewStep
<1>3. TypeOK /\ ViewsBehind /\ TextAgrees => RevisionNamesContent
  <2> SUFFICES ASSUME TypeOK, ViewsBehind, TextAgrees, spent.saves = 0, NEW d \in Devices, view[d] # Nothing,
                      store.item[view[d].item].state \in PRESENT, store.item[view[d].item].rev = view[d].rev
               PROVE  /\ store.item[view[d].item].state = view[d].state /\ store.item[view[d].item].txt = view[d].txt
                      /\ spent.cuts = 0 => text[view[d].item] = view[d].txt
    BY DEF RevisionNamesContent
  <2>1. store.item[view[d].item].state = view[d].state /\ store.item[view[d].item].txt = view[d].txt
    BY DEF ViewsBehind, Known, Behind
  <2>2. view[d].item \in Items
    BY ViewType
  <2> QED BY <2>1, <2>2 DEF TextAgrees, Agrees
<1>4. TypeOK /\ TypeOK' /\ IndexHolds /\ InStep /\ NothingLost /\ TextAgrees /\ [Next]_vars => TextAgrees'
  BY TextStep
<1> QED BY TypeCorrect, FilesSound, <1>1, <1>2, <1>3, <1>4, PTL DEF Spec

=============================================================================
