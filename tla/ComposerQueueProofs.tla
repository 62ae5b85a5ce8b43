------------------------- MODULE ComposerQueueProofs -------------------------
(***************************************************************************)
(* Proofs about ComposerQueue: type correctness, that a message that has   *)
(* left the queue never comes back, and that the dispatcher sends one      *)
(* message at a time.                                                      *)
(***************************************************************************)
EXTENDS ComposerQueue, SequenceTheorems, FiniteSetTheorems, TLAPS

----------------------------------------------------------------------------
(* Sequences of messages *)

\* A part of a sequence of messages.
LEMMA PartType ==
  ASSUME NEW s \in Seq(Items), NEW m \in Nat \ {0}, NEW n \in 0..Len(s)
  PROVE  /\ SubSeq(s, m, n) \in Seq(Items)
         /\ Len(SubSeq(s, m, n)) = IF m <= n THEN n - m + 1 ELSE 0
<1>1. \A j \in m..n : s[j] \in Items
  BY ElementOfSeq
<1> QED BY <1>1, SubSeqProperties

\* Taking one message out of a sequence.
LEMMA RemoveAtType ==
  ASSUME NEW s \in Seq(Items), NEW k \in 1..Len(s)
  PROVE  RemoveAt(s, k) \in Seq(Items) /\ Len(RemoveAt(s, k)) = Len(s) - 1
<1> DEFINE a == SubSeq(s, 1, k - 1)
           b == SubSeq(s, k + 1, Len(s))
<1>1. Len(s) \in Nat
  BY LenProperties
<1>2. a \in Seq(Items) /\ Len(a) = k - 1
  BY <1>1, PartType
<1>3. b \in Seq(Items) /\ Len(b) = Len(s) - k
  BY <1>1, PartType
<1>4. RemoveAt(s, k) = a \o b
  BY DEF RemoveAt
<1> HIDE DEF a, b
<1>5. a \o b \in Seq(Items) /\ Len(a \o b) = Len(a) + Len(b)
  BY <1>2, <1>3, ConcatProperties
<1>6. Len(a) + Len(b) = Len(s) - 1
  BY <1>1, <1>2, <1>3
<1> QED BY <1>4, <1>5, <1>6

LEMMA WithoutType ==
  ASSUME NEW s \in Seq(Items), NEW i \in Items
  PROVE  Without(s, i) \in Seq(Items) /\ Len(Without(s, i)) \in {Len(s), Len(s) - 1}
<1>1. CASE i \in ToSet(s)
  <2> DEFINE k == CHOOSE n \in DOMAIN s : s[n] = i
  <2>1. k \in 1..Len(s)
    BY <1>1 DEF ToSet
  <2> HIDE DEF k
  <2>2. RemoveAt(s, k) \in Seq(Items) /\ Len(RemoveAt(s, k)) = Len(s) - 1
    BY <2>1, RemoveAtType
  <2> QED BY <1>1, <2>2 DEF Without, k
<1>2. CASE i \notin ToSet(s)
  BY <1>2 DEF Without
<1> QED BY <1>1, <1>2

LEMMA MovedOrderType ==
  ASSUME NEW s \in Seq(Items), NEW i \in Items, NEW k \in 1..Len(s)
  PROVE  InsertAt(Without(s, i), k, i) \in Seq(Items)
<1> DEFINE t == Without(s, i)
<1>1. t \in Seq(Items) /\ Len(t) \in {Len(s), Len(s) - 1}
  BY WithoutType
<1> HIDE DEF t
<1>2. Len(s) \in Nat /\ Len(t) \in Nat
  BY <1>1, LenProperties
<1> DEFINE a == SubSeq(t, 1, k - 1)
           b == SubSeq(t, k, Len(t))
<1>3. a \in Seq(Items)
  BY <1>1, <1>2, PartType
<1>4. b \in Seq(Items)
  BY <1>1, <1>2, PartType
<1>5. InsertAt(t, k, i) = a \o <<i>> \o b
  BY DEF InsertAt
<1> HIDE DEF a, b
<1>6. a \o <<i>> \in Seq(Items)
  BY <1>3, ConcatProperties
<1>7. InsertAt(t, k, i) \in Seq(Items)
  BY <1>4, <1>5, <1>6, ConcatProperties
<1> QED BY <1>7 DEF t

----------------------------------------------------------------------------
(* The store's operations *)

\* r is a well-formed store in which only messages of S may have come or gone.
Follows(q, r, S) ==
  /\ r \in Store
  /\ \A i \in Items : i \in S \/ r.item[i].state = q.item[i].state
                                \/ (q.item[i].state \in PRESENT /\ r.item[i].state \in PRESENT)

\* Changing one message's record.
LEMMA PutType ==
  ASSUME NEW q \in Store, NEW i \in Items, NEW it \in Item
  PROVE  /\ Put(q, i, it) \in Store
         /\ Put(q, i, it).item[i] = it
         /\ \A j \in Items : j # i => Put(q, i, it).item[j] = q.item[j]
BY DEF Store, Put

LEMMA ChangedType ==
  ASSUME NEW it \in Item, NEW state \in STATES, NEW stage \in STAGES
  PROVE  Changed(it, state, stage) \in Item /\ Changed(it, state, stage).state = state
<1>1. it.rev \in Nat /\ it.rev + 1 \in Nat
  BY DEF Item
<1> DEFINE n == it.rev + 1
<1>2. Changed(it, state, stage) = [it EXCEPT !.state = state, !.stage = stage, !.rev = n]
  BY DEF Changed
<1>3. n \in Nat
  BY <1>1
<1> HIDE DEF n
<1> QED BY <1>2, <1>3 DEF Item

\* Replacing the order.
LEMMA OrderedType ==
  ASSUME NEW q \in Store, NEW o \in Seq(Items)
  PROVE  [q EXCEPT !.order = o] \in Store /\ [q EXCEPT !.order = o].item = q.item
BY DEF Store

LEMMA AddedStep ==
  ASSUME NEW q \in Store, NEW i \in Items
  PROVE  Follows(q, Added(q, i), {i}) /\ Added(q, i).item[i].state = "queued"
<1> DEFINE r == Put(q, i, QueuedItem)
<1>1. QueuedItem \in Item /\ QueuedItem.state = "queued"
  BY DEF QueuedItem, Item, STATES, PRESENT, WAITING, STAGES
<1>2. r \in Store /\ r.item[i] = QueuedItem /\ \A j \in Items : j # i => r.item[j] = q.item[j]
  BY <1>1, PutType
<1>3. Append(q.order, i) \in Seq(Items)
  BY AppendProperties DEF Store
<1>4. Added(q, i) = [r EXCEPT !.order = Append(q.order, i)]
  BY DEF Added
<1> HIDE DEF r
<1>5. Added(q, i) \in Store /\ Added(q, i).item = r.item
  BY <1>2, <1>3, <1>4, OrderedType
<1> QED BY <1>1, <1>2, <1>5 DEF Follows

LEMMA EditedStep ==
  ASSUME NEW q \in Store, NEW i \in Items, q.item[i].state \in PRESENT, NEW words \in Nat
  PROVE  Follows(q, Edited(q, i, words), {})
<1> DEFINE it == [q.item[i] EXCEPT !.txt = words]
           state == IF q.item[i].state = "failed" THEN "queued" ELSE q.item[i].state
<1>1. it \in Item /\ q.item[i].stage \in STAGES
  BY DEF Store, Item
<1>2. state \in PRESENT /\ state \in STATES
  BY DEF STATES, PRESENT, WAITING
<1> HIDE DEF it, state
<1>3. Changed(it, state, q.item[i].stage) \in Item /\ Changed(it, state, q.item[i].stage).state = state
  BY <1>1, <1>2, ChangedType
<1>4. Edited(q, i, words) = Put(q, i, Changed(it, state, q.item[i].stage))
  BY DEF Edited, it, state
<1> QED BY <1>2, <1>3, <1>4, PutType DEF Follows

LEMMA MovedStep ==
  ASSUME NEW q \in Store, NEW i \in Items, NEW k \in 1..Len(q.order)
  PROVE  Follows(q, Moved(q, i, k), {})
<1> DEFINE it == Changed(q.item[i], q.item[i].state, q.item[i].stage)
           r == Put(q, i, it)
           o == InsertAt(Without(q.order, i), k, i)
<1>1. o \in Seq(Items)
  BY MovedOrderType DEF Store
<1>2. q.item[i] \in Item /\ q.item[i].state \in STATES /\ q.item[i].stage \in STAGES
  BY DEF Store, Item
<1>3. it \in Item /\ it.state = q.item[i].state
  BY <1>2, ChangedType
<1> HIDE DEF it
<1>4. r \in Store /\ r.item[i] = it /\ \A j \in Items : j # i => r.item[j] = q.item[j]
  BY <1>3, PutType
<1>5. Moved(q, i, k) = [r EXCEPT !.order = o]
  BY DEF Moved, it
<1> HIDE DEF r, o
<1>6. Moved(q, i, k) \in Store /\ Moved(q, i, k).item = r.item
  BY <1>1, <1>4, <1>5, OrderedType
<1> QED BY <1>3, <1>4, <1>6 DEF Follows

LEMMA MarkedStep ==
  ASSUME NEW q \in Store, NEW i \in Items, q.item[i].state \in PRESENT,
         NEW state \in PRESENT, NEW stage \in STAGES
  PROVE  Follows(q, Marked(q, i, state, stage), {})
<1>1. q.item[i] \in Item /\ state \in STATES
  BY DEF Store, STATES
<1>2. Changed(q.item[i], state, stage) \in Item /\ Changed(q.item[i], state, stage).state = state
  BY <1>1, ChangedType
<1> QED BY <1>2, PutType DEF Follows, Marked

LEMMA ClaimedStep ==
  ASSUME NEW q \in Store, NEW i \in Items, q.item[i].state \in PRESENT
  PROVE  Follows(q, Claimed(q, i), {}) /\ Claimed(q, i).item[i].rev \in Nat
<1>1. Claimed(q, i) = Marked(q, i, "dispatching", "sending")
  BY DEF Claimed, Marked
<1>2. Follows(q, Claimed(q, i), {})
  BY <1>1, MarkedStep DEF PRESENT, STAGES
<1> QED BY <1>2 DEF Follows, Store, Item

LEMMA FrontedStep ==
  ASSUME NEW q \in Store, NEW i \in Items
  PROVE  Fronted(q, i) \in Store /\ Fronted(q, i).item = q.item
<1>1. <<i>> \o Without(q.order, i) \in Seq(Items)
  BY WithoutType, ConcatProperties DEF Store
<1> QED BY <1>1, OrderedType DEF Fronted

LEMMA PausedStep ==
  ASSUME NEW q \in Store, NEW reason \in PAUSES
  PROVE  Paused(q, reason) \in Store /\ Paused(q, reason).item = q.item
BY DEF Paused, Store

LEMMA RetiredStep ==
  ASSUME NEW q \in Store, NEW S \in SUBSET Items, NEW outcome \in {"delivered", "removed"}
  PROVE  /\ Follows(q, Retired(q, S, outcome), S)
         /\ \A i \in Items : Retired(q, S, outcome).item[i].state = IF i \in S THEN outcome ELSE q.item[i].state
<1> DEFINE items == [i \in Items |-> IF i \in S THEN [NewItem EXCEPT !.state = outcome] ELSE q.item[i]]
           left == [q EXCEPT !.item = items]
<1>1. [NewItem EXCEPT !.state = outcome] \in Item /\ [NewItem EXCEPT !.state = outcome].state = outcome
  BY DEF NewItem, Item, STATES, STAGES
<1>2. items \in [Items -> Item]
  BY <1>1 DEF Store
<1>3. \A i \in Items : items[i].state = IF i \in S THEN outcome ELSE q.item[i].state
  BY <1>1
<1>4. Retired(q, S, outcome) = IF Present(left) = {} THEN [left EXCEPT !.pause = "no"] ELSE left
  BY DEF Retired
<1> HIDE DEF items
<1>5. left \in Store /\ left.item = items
  BY <1>2 DEF Store
<1> HIDE DEF left
<1>6. [left EXCEPT !.pause = "no"] \in Store /\ [left EXCEPT !.pause = "no"].item = items
  BY <1>5 DEF Store, PAUSES
<1>7. Retired(q, S, outcome) \in Store /\ Retired(q, S, outcome).item = items
  BY <1>4, <1>5, <1>6
<1> QED BY <1>3, <1>7 DEF Follows

LEMMA AllChangedStep ==
  ASSUME NEW q \in Store, NEW S \in SUBSET Present(q), NEW state \in PRESENT
  PROVE  Follows(q, AllChanged(q, S, state), {})
<1> DEFINE items == [i \in Items |-> IF i \in S THEN Changed(q.item[i], state, "none") ELSE q.item[i]]
<1>1. \A i \in Items : Changed(q.item[i], state, "none") \in Item /\ Changed(q.item[i], state, "none").state = state
  BY ChangedType DEF Store, STATES, STAGES
<1>2. items \in [Items -> Item]
  BY <1>1 DEF Store
<1>3. \A i \in Items : items[i].state = q.item[i].state \/ (items[i].state \in PRESENT /\ q.item[i].state \in PRESENT)
  BY <1>1 DEF Present
<1>4. AllChanged(q, S, state) = [q EXCEPT !.item = items]
  BY DEF AllChanged
<1> HIDE DEF items
<1>5. AllChanged(q, S, state) \in Store /\ AllChanged(q, S, state).item = items
  BY <1>2, <1>4 DEF Store
<1> QED BY <1>3, <1>5 DEF Follows

LEMMA ResumedStep ==
  ASSUME NEW q \in Store
  PROVE  Follows(q, Resumed(q), {})
<1> DEFINE r == AllChanged(q, InState(q, "failed"), "queued")
<1>1. Follows(q, r, {})
  <2>1. InState(q, "failed") \in SUBSET Present(q) /\ "queued" \in PRESENT
    BY DEF InState, Present, PRESENT, WAITING
  <2> QED BY <2>1, AllChangedStep
<1> HIDE DEF r
<1>2. r \in Store
  BY <1>1 DEF Follows
<1>3. [r EXCEPT !.pause = "no"] \in Store /\ [r EXCEPT !.pause = "no"].item = r.item
  BY <1>2 DEF Store, PAUSES
<1>4. Resumed(q) = IF q.pause = "no" THEN q ELSE [r EXCEPT !.pause = "no"]
  BY DEF Resumed, r
<1> QED BY <1>1, <1>3, <1>4 DEF Follows

LEMMA LoadedStep ==
  ASSUME NEW q \in Store, NEW before \in Store, NEW files_ \in SUBSET Items
  PROVE  /\ Loaded(q, files_, before) \in Store
         /\ \A i \in Items : IF i \in Kept(q, files_) THEN Loaded(q, files_, before).item[i].state \in PRESENT
                             ELSE Loaded(q, files_, before).item[i].state =
                                    IF before.item[i].state \in PRESENT THEN "lost" ELSE before.item[i].state
<1> DEFINE items == [i \in Items |-> IF i \in Kept(q, files_) THEN Restored(q.item[i]) ELSE Forgotten(before.item[i])]
           pause == IF Kept(q, files_) = {} THEN "no"
                    ELSE IF q.pause = "no" /\ (\E i \in Kept(q, files_) : items[i].state = "queued") THEN "restart" ELSE q.pause
<1>1. \A i \in Items : i \in Kept(q, files_) => Restored(q.item[i]) \in Item /\ Restored(q.item[i]).state \in PRESENT
  <2> TAKE i \in Items
  <2> HAVE i \in Kept(q, files_)
  <2>1. q.item[i] \in Item /\ q.item[i].state \in PRESENT
    BY DEF Kept, Present, Store
  <2>2. Changed(q.item[i], "attention", "none") \in Item /\ Changed(q.item[i], "attention", "none").state = "attention"
    BY <2>1, ChangedType DEF STATES, STAGES, PRESENT, WAITING
  <2>3. [q.item[i] EXCEPT !.stage = "none"] \in Item /\ [q.item[i] EXCEPT !.stage = "none"].state = q.item[i].state
    BY <2>1 DEF Item, STAGES
  <2> QED BY <2>1, <2>2, <2>3 DEF Restored, PRESENT, WAITING
<1>2. \A i \in Items : /\ Forgotten(before.item[i]) \in Item
                      /\ Forgotten(before.item[i]).state = IF before.item[i].state \in PRESENT THEN "lost" ELSE before.item[i].state
  BY DEF Forgotten, Store, Item, NewItem, STATES, STAGES
<1>3. items \in [Items -> Item]
  BY <1>1, <1>2
<1>4. pause \in PAUSES
  BY DEF Store, PAUSES
<1>5. Loaded(q, files_, before) = [order |-> q.order, item |-> items, pause |-> pause]
  BY DEF Loaded
<1> HIDE DEF pause
<1>6. \A i \in Items : items[i] = IF i \in Kept(q, files_) THEN Restored(q.item[i]) ELSE Forgotten(before.item[i])
  OBVIOUS
<1> HIDE DEF items
<1>7. Loaded(q, files_, before) \in Store /\ Loaded(q, files_, before).item = items
  BY <1>3, <1>4, <1>5 DEF Store
<1> QED BY <1>1, <1>2, <1>6, <1>7

\* A set of messages written out in some order.
LEMMA WrittenOut ==
  ASSUME NEW fresh \in SUBSET Items, NEW added \in SetToSeqs(fresh)
  PROVE  added \in Seq(Items) /\ ToSet(added) = fresh /\ (added # <<>> => fresh # {})
<1>1. IsFiniteSet(fresh) /\ Cardinality(fresh) \in Nat
  BY ItemsAssumption, FS_Subset, FS_CardinalityType
<1>2. added \in [1..Cardinality(fresh) -> fresh] /\ \A m, n \in 1..Cardinality(fresh) : m # n => added[m] # added[n]
  BY DEF SetToSeqs
<1>3. added \in Seq(Items)
  BY <1>1, <1>2, IsASeq
<1>4. ToSet(added) = fresh
  <2>1. added \in Injection(1..Cardinality(fresh), fresh)
    BY <1>2 DEF Injection, IsInjective
  <2>2. Cardinality(1..Cardinality(fresh)) = Cardinality(fresh)
    BY <1>1, FS_Interval
  <2>3. added \in Surjection(1..Cardinality(fresh), fresh)
    BY <1>1, <2>1, <2>2, FS_Injection
  <2> QED BY <1>2, <2>3 DEF Surjection, ToSet
<1>5. fresh = {} => added = <<>>
  <2>1. added # <<>> => 1 \in DOMAIN added
    BY <1>3, EmptySeq
  <2> QED BY <1>4, <2>1 DEF ToSet
<1> QED BY <1>3, <1>4, <1>5

\* r is q with the messages of S queued again and those of fresh added.
GivesBack(q, r, S, fresh) ==
  /\ Follows(q, r, fresh)
  /\ \A i \in Items : r.item[i] = IF i \in fresh THEN QueuedItem
                                 ELSE IF i \in S THEN Changed(q.item[i], "queued", "none") ELSE q.item[i]

LEMMA GivenBackStep ==
  ASSUME NEW q \in Store, NEW S \in SUBSET Present(q), NEW fresh \in SUBSET Items, NEW added \in SetToSeqs(fresh)
  PROVE  GivesBack(q, GivenBack(q, S, added), S, fresh)
<1> DEFINE back == AllChanged(q, S, "queued")
           items == [i \in Items |-> IF i \in ToSet(added) THEN QueuedItem ELSE back.item[i]]
           r == [order |-> q.order \o added, item |-> items, pause |-> q.pause]
<1>1. Follows(q, back, {})
  BY AllChangedStep DEF PRESENT, WAITING
<1>2. added \in Seq(Items) /\ ToSet(added) = fresh
  BY WrittenOut
<1>3. QueuedItem \in Item
  BY DEF QueuedItem, Item, STATES, PRESENT, WAITING, STAGES
<1>4. \A i \in Items : back.item[i] = IF i \in S THEN Changed(q.item[i], "queued", "none") ELSE q.item[i]
  BY DEF AllChanged, Store
<1> HIDE DEF back
<1>5. items \in [Items -> Item]
  BY <1>1, <1>3 DEF Follows, Store
<1>6. \A i \in Items : items[i] = IF i \in fresh THEN QueuedItem ELSE back.item[i]
  BY <1>2
<1> HIDE DEF items
<1>7. q.order \o added \in Seq(Items)
  BY <1>2, ConcatProperties DEF Store
<1>8. r \in Store /\ r.item = items
  BY <1>5, <1>7 DEF Store
<1>9. GivenBack(q, S, added) = r
  BY DEF GivenBack, items, back
<1> HIDE DEF r
<1> QED BY <1>1, <1>4, <1>6, <1>8, <1>9 DEF Follows, GivesBack

LEMMA ReclaimedStep ==
  ASSUME NEW q \in Store, NEW S \in SUBSET Present(q), NEW fresh \in SUBSET Items, NEW added \in SetToSeqs(fresh)
  PROVE  GivesBack(q, Reclaimed(q, S, added), S, fresh)
<1>1. GivesBack(q, GivenBack(q, S, added), S, fresh)
  BY GivenBackStep
<1>2. "stopped" \in PAUSES
  BY DEF PAUSES
<1>3. GivenBack(q, S, added) \in Store
  BY <1>1 DEF GivesBack, Follows
<1>4. /\ Reclaimed(q, S, added) \in Store
      /\ Reclaimed(q, S, added).item = GivenBack(q, S, added).item
  BY <1>2, <1>3, PausedStep DEF Reclaimed
<1> QED BY <1>1, <1>4 DEF GivesBack, Follows

----------------------------------------------------------------------------
(* What the actions' shared parts change *)

LEMMA CommitType ==
  ASSUME TypeOK, NEW q \in Store, NEW a \in {0, 1}, Commit(q, a)
  PROVE  store' = q /\ store' \in Store /\ disk' \in Store /\ spent' \in Spent
<1> PICK failed \in {0, 1} : /\ spent' = [spent EXCEPT !.acts = @ + a, !.saves = @ + failed]
                             /\ disk' = IF failed = 1 THEN disk ELSE q
  BY DEF Commit
<1>1. disk' \in Store
  BY DEF TypeOK
<1>2. spent \in Spent /\ spent.acts + a \in Nat /\ spent.saves + failed \in Nat
  BY DEF TypeOK, Spent
<1>3. spent' \in Spent
  BY <1>2 DEF Spent
<1> QED BY <1>1, <1>3 DEF Commit

LEMMA FaultType ==
  ASSUME TypeOK, Fault
  PROVE  spent' \in Spent
<1>1. spent \in Spent /\ spent.faults + 1 \in Nat
  BY DEF TypeOK, Spent
<1> QED BY <1>1 DEF Fault, Spent

LEMMA AskedType ==
  ASSUME TypeOK, NEW S
  PROVE  Asked(S) \in [Items -> Nat]
BY DEF TypeOK, Asked

LEMMA LessType ==
  ASSUME NEW n \in Nat, NEW k \in Nat
  PROVE  Less(n, k) \in Nat
BY DEF Less

LEMMA ReplaceType ==
  ASSUME TypeOK, NEW c \in calls, NEW d \in Call, Replace(c, d)
  PROVE  calls' \subseteq Call /\ IsFiniteSet(calls')
<1>1. calls' \subseteq Call
  BY DEF TypeOK, Replace
<1>2. IsFiniteSet(calls \ {c})
  BY FS_RemoveElement DEF TypeOK
<1>3. IsFiniteSet((calls \ {c}) \cup {d})
  BY <1>2, FS_AddElement
<1> QED BY <1>1, <1>3 DEF Replace

LEMMA AnsweredType ==
  ASSUME NEW c \in Call, NEW answer \in ANSWERS
  PROVE  Answered(c, answer) \in Call
BY DEF Answered, Call

LEMMA PreparedType ==
  ASSUME NEW q \in Store, NEW i \in Items, NEW jump \in BOOLEAN
  PROVE  Prepared(i, q, jump) \in Call
<1>1. q.item[i].rev \in Nat
  BY DEF Store, Item
<1> QED BY <1>1 DEF Prepared, Call

LEMMA HeadType ==
  ASSUME TypeOK, NEW kind, Report1(kind)
  PROVE  /\ wire' \in Seq(Report)
         /\ IF kind = "ended" THEN Head(wire).outcome \in OUTCOMES ELSE Head(wire).item \in Items
<1>1. Head(wire) \in Report /\ Tail(wire) \in Seq(Report)
  BY HeadTailProperties DEF TypeOK, Report1
<1> QED BY <1>1 DEF Report1, Report

LEMMA TellType ==
  ASSUME TypeOK, NEW report \in Report, Tell(report)
  PROVE  wire' \in Seq(Report)
BY AppendProperties DEF TypeOK, Tell

LEMMA ReportType ==
  /\ \A kind \in {"began", "native", "started", "refused"}, i \in Items : About(kind, i) \in Report
  /\ \A outcome \in OUTCOMES : Ended(outcome) \in Report
BY DEF About, Ended, Report

\* What Pi held is back in the queue or added to it; what was added is on disk.
LEMMA ReclaimStep ==
  ASSUME TypeOK, Reclaim
  PROVE  \E fresh \in SUBSET InState(store, "new") :
           LET back == {i \in Held : OnItsWay(i)} IN
           /\ GivesBack(store, store', back, fresh)
           /\ spent' \in Spent /\ spent.saves <= spent'.saves
           /\ \/ disk' = store'
              \/ spent.saves < spent'.saves /\ fresh = {} /\ disk' = disk
              \/ /\ spent.saves < spent'.saves
                 /\ \E T \in SUBSET Present(store) : GivesBack(store, disk', T, fresh)
           /\ payload' = payload \cup fresh
           /\ timers' = timers \ back
           /\ took' = [i \in Items |-> IF i \in back THEN Less(took[i], 1) ELSE took[i]]
           /\ wishes' = Asked(back \cup fresh)
<1> DEFINE back == {i \in Held : OnItsWay(i)}
<1>1. PICK fresh \in SUBSET InState(store, "new"), failed \in {0, 1} : \E added \in SetToSeqs(fresh) :
        /\ store' = Reclaimed(store, back, added)
        /\ disk' \in {store'} \cup IF failed = 0 THEN {}
                                  ELSE SavedBy(store, back, added) \cup (IF fresh = {} THEN {disk} ELSE {})
        /\ spent' = [spent EXCEPT !.saves = @ + failed]
        /\ payload' = payload \cup fresh
        /\ timers' = timers \ back
        /\ took' = [i \in Items |-> IF i \in back THEN Less(took[i], 1) ELSE took[i]]
        /\ wishes' = Asked(back \cup fresh)
  BY DEF Reclaim
<1>2. PICK added \in SetToSeqs(fresh) :
        /\ store' = Reclaimed(store, back, added)
        /\ disk' \in {store'} \cup IF failed = 0 THEN {}
                                  ELSE SavedBy(store, back, added) \cup (IF fresh = {} THEN {disk} ELSE {})
  BY <1>1
<1>3. store \in Store /\ back \in SUBSET Present(store) /\ fresh \in SUBSET Items
  BY DEF TypeOK, InState, Held, OnItsWay, Present, PRESENT
<1>4. spent \in Spent /\ spent.saves + failed \in Nat
  BY DEF TypeOK, Spent
<1>5. spent' \in Spent /\ spent'.saves = spent.saves + failed
  BY <1>1, <1>4 DEF Spent
<1> HIDE DEF back
<1>6. GivesBack(store, store', back, fresh)
  BY <1>2, <1>3, ReclaimedStep
<1>7. ASSUME disk' \in SavedBy(store, back, added)
      PROVE  \E T \in SUBSET Present(store) : GivesBack(store, disk', T, fresh)
  <2>1. PICK T \in SUBSET back : disk' = GivenBack(store, T, added)
    BY <1>7 DEF SavedBy
  <2>2. T \in SUBSET Present(store)
    BY <1>3
  <2>3. GivesBack(store, GivenBack(store, T, added), T, fresh)
    BY <1>3, <2>2, GivenBackStep
  <2> QED BY <2>1, <2>2, <2>3
<1>8. \/ disk' = store'
      \/ spent.saves < spent'.saves /\ fresh = {} /\ disk' = disk
      \/ /\ spent.saves < spent'.saves
         /\ \E T \in SUBSET Present(store) : GivesBack(store, disk', T, fresh)
  <2>1. spent.saves \in Nat /\ (failed = 1 => spent.saves < spent'.saves)
    BY <1>4, <1>5 DEF Spent
  <2> QED BY <1>2, <1>7, <2>1
<1>9. spent.saves <= spent'.saves
  BY <1>4, <1>5 DEF Spent
<1> QED BY <1>1, <1>5, <1>6, <1>8, <1>9 DEF back

----------------------------------------------------------------------------
(* Type correctness, action by action *)

LEMMA InitType == Init => TypeOK
<1> SUFFICES ASSUME Init PROVE TypeOK
  OBVIOUS
<1>1. NewItem \in Item
  BY DEF NewItem, Item, STATES, STAGES
<1>2. Empty \in Store
  BY <1>1 DEF Empty, Store, PAUSES
<1>3. IsFiniteSet({})
  BY FS_EmptySet
<1>4. <<>> \in Seq(Report) /\ Nothing \in View
  BY EmptySeq DEF View
<1>5. spent \in Spent
  BY DEF Init, Spent
<1> QED BY <1>2, <1>3, <1>4, <1>5 DEF Init, TypeOK

LEMMA PersonType ==
  ASSUME TypeOK, PersonNext
  PROVE  TypeOK'
<1> USE DEF hostVars, agentVars, history, files
<1>0. store \in Store /\ Nothing \in View
  BY DEF TypeOK, View
<1>1. ASSUME NEW i \in Items, Add(i) PROVE TypeOK'
  <2>1. store' \in Store
    BY <1>0, <1>1, AddedStep DEF Add, Follows
  <2> QED BY <1>1, <2>1, AskedType DEF Add, TypeOK
<1>2. ASSUME NEW d \in Devices, Read(d) PROVE TypeOK'
  <2>1. PICK i \in Items : view' = [view EXCEPT ![d] = [item |-> i, rev |-> store.item[i].rev, state |-> store.item[i].state, txt |-> store.item[i].txt]]
    BY <1>2 DEF Read, Present
  <2>2. store.item[i] \in Item
    BY <1>0 DEF Store
  <2>3. [item |-> i, rev |-> store.item[i].rev, state |-> store.item[i].state, txt |-> store.item[i].txt] \in View
    BY <2>2 DEF Item, View
  <2>4. view' \in [Devices -> View]
    BY <2>1, <2>3 DEF TypeOK
  <2> QED BY <1>2, <2>4 DEF Read, TypeOK
<1>3. ASSUME NEW d \in Devices, Conflict(d) PROVE TypeOK'
  BY <1>0, <1>3 DEF Conflict, Answer, TypeOK
<1>4. ASSUME NEW d \in Devices, NEW i \in Items, Edit(d, i) PROVE TypeOK'
  <2>1. Edited(store, i, text[i] + 1) \in Store
    BY <1>0, <1>4, EditedStep DEF Edit, MayChange, Present, Follows, TypeOK
  <2>2. store' \in Store /\ disk' \in Store /\ spent' \in Spent
    BY <1>4, <2>1, CommitType DEF Edit
  <2> QED BY <1>0, <1>4, <2>2, AskedType DEF Edit, Answer, TypeOK
<1>5. ASSUME NEW d \in Devices, NEW i \in Items, Withdraw(d, i) PROVE TypeOK'
  <2>1. Retired(store, {i}, "removed") \in Store
    BY <1>0, RetiredStep DEF Follows
  <2>2. store' \in Store /\ disk' \in Store /\ spent' \in Spent
    BY <1>5, <2>1, CommitType DEF Withdraw
  <2> QED BY <1>0, <1>5, <2>2 DEF Withdraw, Answer, TypeOK
<1>6. ASSUME NEW d \in Devices, NEW i \in Items, Move(d, i) PROVE TypeOK'
  <2>1. PICK k \in 1..Len(store.order) : Commit(Moved(store, i, k), 1)
    BY <1>6 DEF Move
  <2>2. Moved(store, i, k) \in Store
    BY <1>0, MovedStep DEF Follows
  <2>3. store' \in Store /\ disk' \in Store /\ spent' \in Spent
    BY <2>1, <2>2, CommitType
  <2> QED BY <1>0, <1>6, <2>3 DEF Move, Answer, TypeOK
<1>7. ASSUME NEW d \in Devices, NEW i \in Items, SendNow(d, i) PROVE TypeOK'
  <2> DEFINE q == Resumed(Claimed(store, i))
  <2>1. Claimed(store, i) \in Store
    BY <1>0, <1>7, ClaimedStep DEF SendNow, MayChange, Present, Follows
  <2>2. q \in Store
    BY <2>1, ResumedStep DEF Follows
  <2>3. Commit(q, 1) /\ calls' = calls \cup {Prepared(i, q, TRUE)}
    BY <1>7 DEF SendNow
  <2>4. Prepared(i, q, TRUE) \in Call
    BY <2>2, PreparedType
  <2> HIDE DEF q
  <2>5. store' \in Store /\ disk' \in Store /\ spent' \in Spent
    BY <2>2, <2>3, CommitType
  <2>6. calls' \subseteq Call /\ IsFiniteSet(calls')
    BY <2>3, <2>4, FS_AddElement DEF TypeOK
  <2> QED BY <1>0, <1>7, <2>5, <2>6, AskedType DEF SendNow, Answer, TypeOK
<1>8. CASE Resume
  <2>1. Resumed(store) \in Store
    BY <1>0, ResumedStep DEF Follows
  <2>2. store' \in Store /\ disk' \in Store /\ spent' \in Spent
    BY <1>8, <2>1, CommitType DEF Resume
  <2> QED BY <1>8, <2>2, AskedType DEF Resume, TypeOK
<1>9. CASE Stop
  <2>1. Paused(store, "stopped") \in Store
    BY <1>0, PausedStep DEF PAUSES
  <2>2. store' \in Store /\ disk' \in Store /\ spent' \in Spent
    BY <1>9, <2>1, CommitType DEF Stop
  <2> QED BY <1>9, <2>2 DEF Stop, TypeOK
<1>10. CASE DirectSend
  <2>1. Resumed(store) \in Store
    BY <1>0, ResumedStep DEF Follows
  <2>2. store' \in Store /\ disk' \in Store /\ spent' \in Spent
    BY <1>10, <2>1, CommitType DEF DirectSend
  <2> QED BY <1>10, <2>2, AskedType DEF DirectSend, TypeOK
<1>11. CASE Reopens
  BY <1>11 DEF Reopens, TypeOK
<1> QED BY <1>1, <1>2, <1>3, <1>4, <1>5, <1>6, <1>7, <1>8, <1>9, <1>10, <1>11 DEF PersonNext

LEMMA SettledType ==
  ASSUME NEW q \in Store, NEW i \in Items, NEW answer, q.item[i].state = "dispatching"
  PROVE  Follows(q, Settled(q, i, answer), IF answer = "delivered" THEN {i} ELSE {})
<1>0. q.item[i].state \in PRESENT /\ {"dispatching", "queued", "failed"} \subseteq PRESENT
  BY DEF PRESENT, WAITING
<1>1. CASE answer = "delivered"
  BY <1>1, RetiredStep DEF Settled
<1>2. CASE answer = "accepted"
  <2> DEFINE stage == IF q.item[i].stage = "native" THEN "native" ELSE "accepted"
  <2>1. stage \in STAGES
    BY DEF STAGES
  <2>2. Settled(q, i, answer) = Marked(q, i, "dispatching", stage)
    BY <1>2 DEF Settled
  <2> HIDE DEF stage
  <2> QED BY <1>0, <1>2, <2>1, <2>2, MarkedStep
<1>3. CASE answer \in {"busy", "unsupported"}
  <2>1. Settled(q, i, answer) = Fronted(Marked(q, i, "queued", "none"), i)
    BY <1>3 DEF Settled
  <2>2. Follows(q, Marked(q, i, "queued", "none"), {})
    BY <1>0, MarkedStep DEF STAGES
  <2> QED BY <1>3, <2>1, <2>2, FrontedStep DEF Follows
<1>4. CASE answer \notin {"delivered", "accepted", "busy", "unsupported"}
  <2>1. Settled(q, i, answer) = Paused(Marked(q, i, "failed", "none"), "failed")
    BY <1>4 DEF Settled
  <2>2. Follows(q, Marked(q, i, "failed", "none"), {})
    BY <1>0, MarkedStep DEF STAGES
  <2> QED BY <1>4, <2>1, <2>2, PausedStep DEF Follows, PAUSES
<1> QED BY <1>1, <1>2, <1>3, <1>4

LEMMA TurnEndedType ==
  ASSUME NEW q \in Store, NEW outcome \in OUTCOMES
  PROVE  /\ TakenIn(q) \in SUBSET Present(q)
         /\ Follows(q, TurnEnded(q, outcome), IF outcome = "completed" THEN TakenIn(q) ELSE {})
<1>1. TakenIn(q) \in SUBSET Present(q) /\ TakenIn(q) \in SUBSET Items
  BY DEF TakenIn, InState, Present, PRESENT
<1>2. CASE outcome = "completed"
  BY <1>1, <1>2, RetiredStep DEF TurnEnded
<1>3. CASE outcome # "completed"
  <2>1. Follows(q, AllChanged(q, TakenIn(q), "attention"), {})
    BY <1>1, AllChangedStep DEF PRESENT, WAITING
  <2>2. outcome \in PAUSES
    BY <1>3 DEF OUTCOMES, PAUSES
  <2> QED BY <1>1, <1>3, <2>1, <2>2, PausedStep DEF TurnEnded, Follows
<1> QED BY <1>1, <1>2, <1>3

LEMMA HostType ==
  ASSUME TypeOK, HostNext
  PROVE  TypeOK'
<1> USE DEF hostVars, agentVars, history, files
<1>0. store \in Store
  BY DEF TypeOK
<1>1. CASE DispatchBegins \/ DispatchYields
  BY <1>1 DEF DispatchBegins, DispatchYields, TypeOK
<1>2. ASSUME NEW i \in Items, DispatchClaims(i) PROVE TypeOK'
  <2> DEFINE q == Claimed(store, i)
  <2>1. store.item[i].state \in PRESENT
    BY <1>2 DEF DispatchClaims, IsReady, InState, PRESENT, WAITING
  <2>2. q \in Store
    BY <1>0, <2>1, ClaimedStep DEF Follows
  <2>3. Commit(q, 0) /\ calls' = calls \cup {Prepared(i, q, FALSE)}
    BY <1>2 DEF DispatchClaims
  <2>4. Prepared(i, q, FALSE) \in Call
    BY <2>2, PreparedType
  <2> HIDE DEF q
  <2>5. store' \in Store /\ disk' \in Store /\ spent' \in Spent
    BY <2>2, <2>3, CommitType
  <2>6. calls' \subseteq Call /\ IsFiniteSet(calls')
    BY <2>3, <2>4, FS_AddElement DEF TypeOK
  <2> QED BY <1>2, <2>5, <2>6 DEF DispatchClaims, TypeOK
<1>3. ASSUME NEW i \in Items, ConfirmExpires(i) PROVE TypeOK'
  <2>1. Retired(store, {i}, "delivered") \in Store
    BY <1>0, RetiredStep DEF Follows
  <2>2. store' \in Store /\ disk' \in Store /\ spent' \in Spent
    BY <1>3, <2>1, CommitType DEF ConfirmExpires, TypeOK
  <2> QED BY <1>3, <2>2 DEF ConfirmExpires, TypeOK
<1>4. ASSUME NEW c \in calls, TurnsBack(c) PROVE TypeOK'
  <2>1. c \in Call /\ c.item \in Items
    BY DEF TypeOK, Call
  <2>2. PICK answer \in Unsent(c) : Replace(c, Answered(c, answer)) /\ Lapses(c, answer)
    BY <1>4 DEF TurnsBack
  <2>3. Answered(c, answer) \in Call
    BY <2>1, AnsweredType DEF Unsent, ANSWERS
  <2>4. calls' \subseteq Call /\ IsFiniteSet(calls')
    BY <2>2, <2>3, ReplaceType
  <2>5. wishes' \in [Items -> Nat]
    BY <2>1, <2>2, LessType DEF Lapses, TypeOK
  <2> QED BY <1>4, <2>4, <2>5 DEF TurnsBack, TypeOK
<1>5. ASSUME NEW c \in calls, HandsOver(c) PROVE TypeOK'
  <2> DEFINE d == [c EXCEPT !.phase = "sent", !.via = Via(c.jump)]
  <2>1. c \in Call
    BY DEF TypeOK
  <2>2. d \in Call
    BY <2>1 DEF Via, Call
  <2>3. Replace(c, d)
    BY <1>5 DEF HandsOver
  <2> HIDE DEF d
  <2>4. calls' \subseteq Call /\ IsFiniteSet(calls')
    BY <2>2, <2>3, ReplaceType
  <2> QED BY <1>5, <2>4 DEF HandsOver, TypeOK
<1>6. ASSUME NEW c \in calls, Settle(c) PROVE TypeOK'
  <2>1. c \in Call /\ c.item \in Items
    BY DEF TypeOK, Call
  <2>2. store' \in Store /\ disk' \in Store /\ spent' \in Spent
    <3>1. CASE store.item[c.item].state = "dispatching"
      <4>1. Settled(store, c.item, c.answer) \in Store
        BY <1>0, <2>1, <3>1, SettledType DEF Follows
      <4> QED BY <1>6, <3>1, <4>1, CommitType DEF Settle
    <3>2. CASE store.item[c.item].state # "dispatching"
      BY <1>6, <3>2 DEF Settle, TypeOK
    <3> QED BY <3>1, <3>2
  <2>3. calls' \subseteq Call /\ IsFiniteSet(calls')
    BY <1>6, FS_RemoveElement DEF Settle, TypeOK
  <2>4. payload' \subseteq Items /\ timers' \subseteq Items
    BY <1>6, <2>1 DEF Settle, TypeOK
  <2> QED BY <1>6, <2>2, <2>3, <2>4 DEF Settle, Released, TypeOK
<1>7. CASE ObserveNative
  <2> DEFINE i == Head(wire).item
  <2>1. i \in Items /\ wire' \in Seq(Report)
    BY <1>7, HeadType DEF ObserveNative
  <2> HIDE DEF i
  <2>2. store' \in Store /\ disk' \in Store /\ spent' \in Spent
    <3>1. CASE OnItsWay(i) /\ store.item[i].stage # "native"
      <4>1. Marked(store, i, "dispatching", "native") \in Store
        BY <1>0, <2>1, <3>1, MarkedStep DEF OnItsWay, PRESENT, STAGES, Follows
      <4> QED BY <1>7, <3>1, <4>1, CommitType DEF ObserveNative, i
    <3>2. CASE ~ (OnItsWay(i) /\ store.item[i].stage # "native")
      BY <1>7, <3>2 DEF ObserveNative, TypeOK, i
    <3> QED BY <3>1, <3>2
  <2> QED BY <1>7, <2>1, <2>2 DEF ObserveNative, TypeOK
<1>8. CASE ObserveBegan
  <2>1. wire' \in Seq(Report)
    BY <1>8, HeadType DEF ObserveBegan
  <2> QED BY <1>8, <2>1 DEF ObserveBegan, TypeOK
<1>9. CASE ObserveStarted
  <2> DEFINE i == Head(wire).item
  <2>1. i \in Items /\ wire' \in Seq(Report)
    BY <1>9, HeadType DEF ObserveStarted
  <2> HIDE DEF i
  <2>2. Retired(store, {i}, "delivered") \in Store
    BY <1>0, <2>1, RetiredStep DEF Follows
  <2>3. store' \in Store /\ disk' \in Store /\ spent' \in Spent /\ payload' \subseteq Items /\ timers' \subseteq Items
    BY <1>9, <2>2, CommitType DEF ObserveStarted, TypeOK, i
  <2> QED BY <1>9, <2>1, <2>3 DEF ObserveStarted, TypeOK
<1>10. CASE ObserveRefused
  <2> DEFINE i == Head(wire).item
  <2>1. i \in Items /\ wire' \in Seq(Report)
    BY <1>10, HeadType DEF ObserveRefused
  <2>2. took' = [took EXCEPT ![i] = Less(@, 1)]
    BY <1>10 DEF ObserveRefused
  <2>3. took' \in [Items -> Nat]
    BY <2>1, <2>2, LessType DEF TypeOK
  <2> HIDE DEF i
  <2>4. store' \in Store /\ disk' \in Store /\ spent' \in Spent /\ timers' \subseteq Items
    <3>1. CASE OnItsWay(i)
      <4>1. Marked(store, i, "failed", "none") \in Store
        BY <1>0, <2>1, <3>1, MarkedStep DEF OnItsWay, PRESENT, WAITING, STAGES, Follows
      <4>2. Paused(Marked(store, i, "failed", "none"), "failed") \in Store
        BY <4>1, PausedStep DEF PAUSES
      <4> QED BY <1>10, <3>1, <4>2, CommitType DEF ObserveRefused, TypeOK, i
    <3>2. CASE ~OnItsWay(i)
      BY <1>10, <3>2 DEF ObserveRefused, TypeOK, i
    <3> QED BY <3>1, <3>2
  <2> QED BY <1>10, <2>1, <2>3, <2>4 DEF ObserveRefused, TypeOK
<1>11. CASE ObserveEnded
  <2>1. Head(wire).outcome \in OUTCOMES /\ wire' \in Seq(Report)
    BY <1>11, HeadType DEF ObserveEnded
  <2>2. TurnEnded(store, Head(wire).outcome) \in Store
    BY <1>0, <2>1, TurnEndedType DEF Follows
  <2>3. store' \in Store /\ disk' \in Store /\ spent' \in Spent
    BY <1>11, <2>2, CommitType DEF ObserveEnded
  <2> QED BY <1>11, <2>1, <2>3 DEF ObserveEnded, TypeOK
<1>12. CASE Reclaim
  <2> DEFINE back == {i \in Held : OnItsWay(i)}
  <2>1. PICK fresh \in SUBSET InState(store, "new") :
          /\ GivesBack(store, store', back, fresh) /\ spent' \in Spent
          /\ disk' = store' \/ disk' = disk \/ \E T : GivesBack(store, disk', T, fresh)
          /\ payload' = payload \cup fresh
          /\ timers' = timers \ back
          /\ took' = [i \in Items |-> IF i \in back THEN Less(took[i], 1) ELSE took[i]]
          /\ wishes' = Asked(back \cup fresh)
    BY <1>12, ReclaimStep
  <2>2. fresh \in SUBSET Items
    BY DEF InState
  <2> HIDE DEF back
  <2>3. store' \in Store /\ disk' \in Store
    BY <2>1 DEF GivesBack, Follows, TypeOK
  <2>4. took' \in [Items -> Nat]
    BY <2>1, LessType DEF TypeOK
  <2> QED BY <1>12, <2>1, <2>2, <2>3, <2>4, AskedType DEF Reclaim, TypeOK
<1> QED BY <1>1, <1>2, <1>3, <1>4, <1>5, <1>6, <1>7, <1>8, <1>9, <1>10, <1>11, <1>12 DEF HostNext

LEMMA TakesType ==
  ASSUME TypeOK, NEW c \in calls, Takes(c)
  PROVE  took' \in [Items -> Nat] /\ wishes' \in [Items -> Nat]
<1>1. c.item \in Items
  BY DEF TypeOK, Call
<1>2. took[c.item] + 1 \in Nat /\ Less(wishes[c.item], 1) \in Nat
  <2>1. took[c.item] \in Nat /\ wishes[c.item] \in Nat
    BY <1>1 DEF TypeOK
  <2>2. Less(wishes[c.item], 1) \in Nat
    BY <2>1, LessType
  <2> QED BY <2>1, <2>2
<1>3. took' = [took EXCEPT ![c.item] = took[c.item] + 1]
  BY <1>1 DEF Takes, TypeOK
<1>4. wishes' = [wishes EXCEPT ![c.item] = Less(wishes[c.item], 1)]
  BY <1>1 DEF Takes, TypeOK
<1>5. took' \in [Items -> Nat]
  BY <1>2, <1>3 DEF TypeOK
<1>6. wishes' \in [Items -> Nat]
  BY <1>2, <1>4 DEF TypeOK
<1> QED BY <1>5, <1>6

LEMMA AgentType ==
  ASSUME TypeOK, AgentNext
  PROVE  TypeOK'
<1> USE DEF hostVars, agentVars, history, files
<1>0. \A c \in calls : c \in Call /\ c.item \in Items
  BY DEF TypeOK, Call
<1>1. ASSUME NEW c \in calls, AgentRuns(c) PROVE TypeOK'
  <2>1. PICK answer \in ANSWERS : Replace(c, Answered(c, answer))
    BY <1>1 DEF AgentRuns, ANSWERS
  <2>2. calls' \subseteq Call /\ IsFiniteSet(calls')
    BY <1>0, <2>1, AnsweredType, ReplaceType
  <2>3. spent' \in Spent
    BY <1>1, FaultType DEF AgentRuns, TypeOK
  <2>4. wire' \in Seq(Report)
    BY <1>0, <1>1, ReportType, TellType DEF AgentRuns
  <2>5. took' \in [Items -> Nat] /\ wishes' \in [Items -> Nat]
    BY <1>1, TakesType DEF AgentRuns
  <2> QED BY <1>1, <2>2, <2>3, <2>4, <2>5 DEF AgentRuns, TypeOK
<1>2. ASSUME NEW c \in calls, AgentHolds(c) PROVE TypeOK'
  <2>1. calls' \subseteq Call /\ IsFiniteSet(calls')
    BY <1>0, <1>2, AnsweredType, ReplaceType DEF AgentHolds, ANSWERS
  <2>2. took' \in [Items -> Nat] /\ wishes' \in [Items -> Nat]
    BY <1>2, TakesType DEF AgentHolds
  <2> QED BY <1>2, <2>1, <2>2 DEF AgentHolds, TypeOK
<1>3. ASSUME NEW c \in calls, AgentDeclines(c) PROVE TypeOK'
  <2>1. PICK answer \in ANSWERS : Replace(c, Answered(c, answer))
    BY <1>3 DEF AgentDeclines, ANSWERS
  <2>2. calls' \subseteq Call /\ IsFiniteSet(calls')
    BY <1>0, <2>1, AnsweredType, ReplaceType
  <2>3. spent' \in Spent
    BY <1>3, FaultType DEF AgentDeclines, TypeOK
  <2>4. wire' \in Seq(Report)
    <3>1. Ended("stopped") \in Report
      BY ReportType DEF OUTCOMES
    <3> QED BY <1>3, <3>1, TellType DEF AgentDeclines, TypeOK
  <2>5. wishes' \in [Items -> Nat]
    <3>1. wishes[c.item] \in Nat
      BY <1>0 DEF TypeOK
    <3>2. Less(wishes[c.item], 1) \in Nat
      BY <3>1, LessType
    <3>3. CASE Lapses(c, "reject")
      <4>1. wishes' = [wishes EXCEPT ![c.item] = Less(wishes[c.item], 1)]
        BY <1>0, <3>3 DEF Lapses, TypeOK
      <4> QED BY <3>2, <4>1 DEF TypeOK
    <3>4. CASE UNCHANGED wishes
      BY <3>4 DEF TypeOK
    <3> QED BY <1>3, <3>3, <3>4 DEF AgentDeclines
  <2> QED BY <1>3, <2>2, <2>3, <2>4, <2>5 DEF AgentDeclines, TypeOK
<1>4. ASSUME NEW i \in Items, AgentStarts(i) \/ AgentQueues(i) \/ AgentRefuses(i) PROVE TypeOK'
  <2>1. wire' \in Seq(Report)
    BY <1>4, ReportType, TellType DEF AgentStarts, AgentQueues, AgentRefuses
  <2> QED BY <1>4, <2>1 DEF AgentStarts, AgentQueues, AgentRefuses, TypeOK
<1>5. ASSUME NEW outcome \in OUTCOMES, AgentEnds(outcome) PROVE TypeOK'
  <2>1. wire' \in Seq(Report)
    BY <1>5, ReportType, TellType DEF AgentEnds
  <2> QED BY <1>5, <2>1 DEF AgentEnds, TypeOK
<1>6. CASE AgentExits
  <2>1. Ended("stopped") \in Report
    BY ReportType DEF OUTCOMES
  <2>2. wire' \in Seq(Report) /\ spent' \in Spent
    BY <1>6, <2>1, TellType, FaultType DEF AgentExits
  <2> QED BY <1>6, <2>2 DEF AgentExits, TypeOK
<1> QED BY <1>1, <1>2, <1>3, <1>4, <1>5, <1>6 DEF AgentNext

LEMMA EmptyStore == Empty \in Store /\ Present(Empty) = {}
<1>1. NewItem \in Item /\ NewItem.state \notin PRESENT
  BY DEF NewItem, Item, STATES, STAGES, PRESENT, WAITING
<1>2. <<>> \in Seq(Items) /\ "no" \in PAUSES
  BY EmptySeq DEF PAUSES
<1> QED BY <1>1, <1>2 DEF Empty, Store, Present

\* What a restart finds of the index and the messages' own files.
LEMMA RestartFinds ==
  ASSUME TypeOK, Restart
  PROVE  \E index \in Store, cut \in SUBSET Items : index \in {disk, Empty} /\ Finds(index, cut)
<1>1. disk \in Store /\ Empty \in Store
  BY EmptyStore DEF TypeOK
<1>2. CASE \E i \in Editable : Finds(disk, {i})
  BY <1>1, <1>2 DEF Editable
<1>3. CASE Finds(disk, {}) \/ Finds(Empty, {})
  BY <1>1, <1>3
<1> QED BY <1>2, <1>3 DEF Restart

LEMMA RestartType ==
  ASSUME TypeOK, Restart
  PROVE  TypeOK'
<1> PICK index \in Store, cut \in SUBSET Items : Finds(index, cut)
  BY RestartFinds
<1>1. store' \in Store /\ payload' \subseteq Items
  BY LoadedStep DEF TypeOK, Finds, Kept
<1>5. text' \in [Items -> Nat]
  BY DEF TypeOK, Finds, OneMore
<1>2. IsFiniteSet({}) /\ <<>> \in Seq(Report)
  BY FS_EmptySet, EmptySeq
<1>3. spent' \in Spent
  <2>1. spent \in Spent /\ spent.crashes + 1 \in Nat
    BY DEF TypeOK, Spent
  <2>2. spent.cuts + OneMore(cut # {}) \in Nat /\ spent.unread + OneMore(index # disk) \in Nat
    BY <2>1 DEF Spent, OneMore
  <2> QED BY <2>1, <2>2 DEF Finds, Spent
<1>4. wishes' \in [Items -> Nat]
  <2>1. \A i \in Items : Going(i) \in Nat
    BY FS_Subset, FS_CardinalityType DEF TypeOK, Going
  <2> QED BY <2>1, LessType DEF TypeOK, Restart
<1> QED BY <1>1, <1>2, <1>3, <1>4, <1>5 DEF Restart, Finds, TypeOK

\* Type correctness: whatever the devices, the agent and the Host do, the store,
\* its file, the send calls and the reports keep their shape, and no pause has a
\* reason the queue does not know.
THEOREM TypeCorrect == Spec => []TypeOK
<1>1. TypeOK /\ [Next]_vars => TypeOK'
  <2> SUFFICES ASSUME TypeOK, [Next]_vars PROVE TypeOK'
    OBVIOUS
  <2>1. CASE PersonNext
    BY <2>1, PersonType
  <2>2. CASE HostNext
    BY <2>2, HostType
  <2>3. CASE AgentNext
    BY <2>3, AgentType
  <2>4. CASE Locks
    <3>1. spent' \in Spent
      BY <2>4, FaultType DEF Locks
    <3> QED BY <2>4, <3>1 DEF Locks, TypeOK, hostVars, files, history
  <2>5. CASE Unlocks
    BY <2>5 DEF Unlocks, TypeOK, hostVars, files, history
  <2>6. CASE Restart
    BY <2>6, RestartType
  <2>7. CASE UNCHANGED vars
    BY <2>7 DEF vars, TypeOK, hostVars, agentVars, files, history
  <2> QED BY <2>1, <2>2, <2>3, <2>4, <2>5, <2>6, <2>7 DEF Next
<1> QED BY <1>1, InitType, PTL DEF Spec

----------------------------------------------------------------------------
(* A message that left never comes back *)

LEFT == {"delivered", "removed"}

\* No message that left has a file of its own: what a restart restores, from
\* an index that may be old, is only what still has one.
FilesHeld == \A i \in payload : store.item[i].state \in PRESENT

LeftStays == \A i \in Items : store.item[i].state \in LEFT => store'.item[i].state = store.item[i].state

\* A step that retires or adds the messages of S, their files with them.
LEMMA StepKeeps ==
  ASSUME TypeOK, FilesHeld, NEW S, Follows(store, store', S),
         \A i \in S : store.item[i].state \notin LEFT,
         \A i \in payload' : i \in Items /\ IF i \in S THEN store'.item[i].state \in PRESENT ELSE i \in payload
  PROVE  LeftStays /\ FilesHeld'
<1>1. \A s \in PRESENT : s \notin LEFT
  BY DEF PRESENT, WAITING, LEFT
<1> QED BY <1>1 DEF Follows, FilesHeld, LeftStays

\* A step of the queue that changes neither the store nor the files.
LEMMA QuietKeeps ==
  ASSUME FilesHeld, UNCHANGED <<store, payload>>
  PROVE  LeftStays /\ FilesHeld'
BY DEF FilesHeld, LeftStays

LEMMA CommitStore ==
  ASSUME NEW q, NEW a, Commit(q, a)
  PROVE  store' = q
BY DEF Commit

LEMMA PersonKeeps ==
  ASSUME TypeOK, FilesHeld, PersonNext
  PROVE  LeftStays /\ FilesHeld'
<1> USE DEF hostVars, agentVars, history, files
<1>0. store \in Store /\ payload \subseteq Items /\ \A s \in PRESENT : s \notin LEFT
  BY DEF TypeOK, PRESENT, WAITING, LEFT
<1>1. ASSUME NEW i \in Items, Add(i) PROVE LeftStays /\ FilesHeld'
  <2>1. Follows(store, store', {i}) /\ store'.item[i].state = "queued"
    BY <1>0, <1>1, AddedStep DEF Add
  <2>2. store.item[i].state = "new" /\ payload' = payload \cup {i}
    BY <1>1 DEF Add, CanAdd
  <2> QED BY <1>0, <2>1, <2>2, StepKeeps DEF PRESENT, WAITING, LEFT
<1>2. ASSUME NEW d \in Devices, Read(d) \/ Conflict(d) PROVE LeftStays /\ FilesHeld'
  BY <1>2, QuietKeeps DEF Read, Conflict
<1>3. ASSUME NEW d \in Devices, NEW i \in Items, Edit(d, i) PROVE LeftStays /\ FilesHeld'
  <2>1. Follows(store, Edited(store, i, text[i] + 1), {})
    BY <1>0, <1>3, EditedStep DEF Edit, MayChange, Present, TypeOK
  <2>2. store' = Edited(store, i, text[i] + 1) /\ payload' = payload
    BY <1>3, CommitStore DEF Edit
  <2> QED BY <1>0, <2>1, <2>2, StepKeeps
<1>4. ASSUME NEW d \in Devices, NEW i \in Items, Withdraw(d, i) PROVE LeftStays /\ FilesHeld'
  <2>1. Follows(store, Retired(store, {i}, "removed"), {i})
    BY <1>0, RetiredStep
  <2>2. store' = Retired(store, {i}, "removed") /\ payload' = payload \ {i}
    BY <1>4, CommitStore DEF Withdraw
  <2>3. store.item[i].state \notin LEFT
    BY <1>0, <1>4 DEF Withdraw, MayChange, Present
  <2> QED BY <1>0, <2>1, <2>2, <2>3, StepKeeps
<1>5. ASSUME NEW d \in Devices, NEW i \in Items, Move(d, i) PROVE LeftStays /\ FilesHeld'
  <2>1. PICK k \in 1..Len(store.order) : Commit(Moved(store, i, k), 1)
    BY <1>5 DEF Move
  <2>2. Follows(store, store', {})
    BY <1>0, <2>1, MovedStep, CommitStore
  <2> QED BY <1>0, <1>5, <2>2, StepKeeps DEF Move
<1>6. ASSUME NEW d \in Devices, NEW i \in Items, SendNow(d, i) PROVE LeftStays /\ FilesHeld'
  <2>1. Follows(store, Claimed(store, i), {})
    BY <1>0, <1>6, ClaimedStep DEF SendNow, MayChange, Present
  <2>2. Follows(Claimed(store, i), Resumed(Claimed(store, i)), {})
    BY <2>1, ResumedStep DEF Follows
  <2>3. Follows(store, Resumed(Claimed(store, i)), {})
    BY <2>1, <2>2 DEF Follows
  <2>4. store' = Resumed(Claimed(store, i)) /\ payload' = payload
    BY <1>6, CommitStore DEF SendNow
  <2> QED BY <1>0, <2>3, <2>4, StepKeeps
<1>7. CASE Resume \/ DirectSend
  <2>1. Follows(store, Resumed(store), {})
    BY <1>0, ResumedStep
  <2>2. store' = Resumed(store) /\ payload' = payload
    BY <1>7, CommitStore DEF Resume, DirectSend
  <2> QED BY <1>0, <2>1, <2>2, StepKeeps
<1>8. CASE Stop
  <2>1. store' = Paused(store, "stopped") /\ payload' = payload
    BY <1>8, CommitStore DEF Stop
  <2>2. Follows(store, store', {})
    BY <1>0, <2>1, PausedStep DEF Follows, PAUSES
  <2> QED BY <1>0, <2>1, <2>2, StepKeeps
<1>9. CASE Reopens
  BY <1>9, QuietKeeps DEF Reopens
<1> QED BY <1>1, <1>2, <1>3, <1>4, <1>5, <1>6, <1>7, <1>8, <1>9 DEF PersonNext

LEMMA HostKeeps ==
  ASSUME TypeOK, FilesHeld, HostNext
  PROVE  LeftStays /\ FilesHeld'
<1> USE DEF hostVars, agentVars, history, files
<1>0. store \in Store /\ payload \subseteq Items /\ "dispatching" \notin LEFT
  BY DEF TypeOK, LEFT
<1>1. CASE DispatchBegins \/ DispatchYields \/ ObserveBegan
  BY <1>1, QuietKeeps DEF DispatchBegins, DispatchYields, ObserveBegan
<1>2. ASSUME NEW i \in Items, DispatchClaims(i) PROVE LeftStays /\ FilesHeld'
  <2>1. store.item[i].state \in PRESENT
    BY <1>2 DEF DispatchClaims, IsReady, InState, PRESENT, WAITING
  <2>2. Follows(store, Claimed(store, i), {})
    BY <1>0, <2>1, ClaimedStep
  <2>3. store' = Claimed(store, i) /\ payload' = payload
    BY <1>2, CommitStore DEF DispatchClaims
  <2> QED BY <1>0, <2>2, <2>3, StepKeeps
<1>3. ASSUME NEW i \in Items, ConfirmExpires(i) PROVE LeftStays /\ FilesHeld'
  <2>1. CASE OnItsWay(i) /\ store.item[i].stage = "accepted"
    <3>1. Follows(store, Retired(store, {i}, "delivered"), {i})
      BY <1>0, RetiredStep
    <3>2. store' = Retired(store, {i}, "delivered") /\ payload' = payload \ {i}
      BY <1>3, <2>1, CommitStore DEF ConfirmExpires, OnItsWay
    <3> QED BY <1>0, <2>1, <3>1, <3>2, StepKeeps DEF OnItsWay
  <2>2. CASE ~ (OnItsWay(i) /\ store.item[i].stage = "accepted")
    BY <1>3, <2>2, QuietKeeps DEF ConfirmExpires, OnItsWay
  <2> QED BY <2>1, <2>2
<1>4. ASSUME NEW c \in calls, TurnsBack(c) \/ HandsOver(c) PROVE LeftStays /\ FilesHeld'
  BY <1>4, QuietKeeps DEF TurnsBack, HandsOver
<1>5. ASSUME NEW c \in calls, Settle(c) PROVE LeftStays /\ FilesHeld'
  <2> DEFINE i == c.item
             S == IF c.answer = "delivered" THEN {i} ELSE {}
  <2>1. i \in Items
    BY DEF TypeOK, Call
  <2>2. CASE OnItsWay(i)
    <3>1. Follows(store, Settled(store, i, c.answer), S)
      BY <1>0, <2>1, <2>2, SettledType DEF OnItsWay
    <3>2. store' = Settled(store, i, c.answer) /\ payload' = payload \ S
      BY <1>5, <2>2, CommitStore DEF Settle, OnItsWay
    <3> QED BY <1>0, <2>2, <3>1, <3>2, StepKeeps DEF OnItsWay
  <2>3. CASE ~OnItsWay(i)
    BY <1>5, <2>3, QuietKeeps DEF Settle, OnItsWay
  <2> QED BY <2>2, <2>3
<1>6. CASE ObserveNative
  <2> DEFINE i == Head(wire).item
  <2>1. i \in Items
    BY <1>6, HeadType DEF ObserveNative
  <2>2. CASE OnItsWay(i) /\ store.item[i].stage # "native"
    <3>1. store' = Marked(store, i, "dispatching", "native") /\ payload' = payload
      BY <1>6, <2>2, CommitStore DEF ObserveNative
    <3> HIDE DEF i
    <3>2. Follows(store, store', {})
      BY <1>0, <2>1, <2>2, <3>1, MarkedStep DEF OnItsWay, PRESENT, STAGES
    <3> QED BY <1>0, <3>1, <3>2, StepKeeps
  <2>3. CASE ~ (OnItsWay(i) /\ store.item[i].stage # "native")
    BY <1>6, <2>3, QuietKeeps DEF ObserveNative
  <2> QED BY <2>2, <2>3
<1>7. CASE ObserveStarted
  <2> DEFINE i == Head(wire).item
  <2>1. i \in Items
    BY <1>7, HeadType DEF ObserveStarted
  <2>2. CASE OnItsWay(i)
    <3>1. store' = Retired(store, {i}, "delivered") /\ payload' = payload \ {i}
      BY <1>7, <2>2, CommitStore DEF ObserveStarted
    <3> HIDE DEF i
    <3>2. Follows(store, store', {i})
      BY <1>0, <2>1, <3>1, RetiredStep
    <3> QED BY <1>0, <2>2, <3>1, <3>2, StepKeeps DEF OnItsWay
  <2>3. CASE ~OnItsWay(i)
    BY <1>7, <2>3, QuietKeeps DEF ObserveStarted
  <2> QED BY <2>2, <2>3
<1>8. CASE ObserveRefused
  <2> DEFINE i == Head(wire).item
  <2>1. i \in Items
    BY <1>8, HeadType DEF ObserveRefused
  <2>2. CASE OnItsWay(i)
    <3>1. store' = Paused(Marked(store, i, "failed", "none"), "failed") /\ payload' = payload
      BY <1>8, <2>2, CommitStore DEF ObserveRefused
    <3> HIDE DEF i
    <3>2. Follows(store, Marked(store, i, "failed", "none"), {})
      BY <1>0, <2>1, <2>2, MarkedStep DEF OnItsWay, PRESENT, WAITING, STAGES
    <3>3. Follows(store, store', {})
      BY <3>1, <3>2, PausedStep DEF Follows, PAUSES
    <3> QED BY <1>0, <3>1, <3>3, StepKeeps
  <2>3. CASE ~OnItsWay(i)
    BY <1>8, <2>3, QuietKeeps DEF ObserveRefused
  <2> QED BY <2>2, <2>3
<1>9. CASE ObserveEnded
  <2> DEFINE outcome == Head(wire).outcome
             S == IF outcome = "completed" THEN TakenIn(store) ELSE {}
  <2>1. outcome \in OUTCOMES
    BY <1>9, HeadType DEF ObserveEnded
  <2>2. store' = TurnEnded(store, outcome) /\ payload' = payload \ S
    BY <1>9, CommitStore DEF ObserveEnded
  <2> HIDE DEF outcome
  <2>3. Follows(store, store', S)
    BY <1>0, <2>1, <2>2, TurnEndedType
  <2>4. \A i \in S : store.item[i].state \notin LEFT
    BY <1>0 DEF TakenIn, InState
  <2> QED BY <1>0, <2>2, <2>3, <2>4, StepKeeps
<1>10. CASE Reclaim
  <2> DEFINE back == {i \in Held : OnItsWay(i)}
  <2>1. PICK fresh \in SUBSET InState(store, "new") :
          GivesBack(store, store', back, fresh) /\ payload' = payload \cup fresh
    BY <1>10, ReclaimStep
  <2>2. QueuedItem.state \in PRESENT
    BY DEF QueuedItem, PRESENT, WAITING
  <2> HIDE DEF back
  <2>3. Follows(store, store', fresh) /\ \A i \in Items : i \in fresh => store'.item[i].state \in PRESENT
    BY <2>1, <2>2 DEF GivesBack
  <2> QED BY <1>0, <2>1, <2>3, StepKeeps DEF LEFT, InState
<1> QED BY <1>1, <1>2, <1>3, <1>4, <1>5, <1>6, <1>7, <1>8, <1>9, <1>10 DEF HostNext

LEMMA AgentKeeps ==
  ASSUME FilesHeld, AgentNext \/ Locks \/ Unlocks
  PROVE  LeftStays /\ FilesHeld'
<1>1. UNCHANGED <<store, payload>>
  BY DEF AgentNext, AgentRuns, AgentHolds, AgentDeclines, AgentStarts, AgentQueues, AgentRefuses,
         AgentEnds, AgentExits, Locks, Unlocks, files
<1> QED BY <1>1, QuietKeeps

LEMMA RestartKeeps ==
  ASSUME TypeOK, FilesHeld, Restart
  PROVE  LeftStays /\ FilesHeld'
<1> PICK index \in Store, cut \in SUBSET Items : Finds(index, cut)
  BY RestartFinds
<1>1. store' = Loaded(index, payload, store) /\ payload' = Kept(index, payload)
  BY DEF Finds
<1>2. \A i \in Items : IF i \in Kept(index, payload) THEN store'.item[i].state \in PRESENT
                       ELSE store'.item[i].state = IF store.item[i].state \in PRESENT THEN "lost" ELSE store.item[i].state
  BY <1>1, LoadedStep DEF TypeOK
<1>3. Kept(index, payload) \subseteq payload /\ payload \subseteq Items
  BY DEF Kept, TypeOK
<1>4. \A s \in PRESENT : s \notin LEFT
  BY DEF PRESENT, WAITING, LEFT
<1> QED BY <1>1, <1>2, <1>3, <1>4 DEF FilesHeld, LeftStays

LEMMA KeepsNext == TypeOK /\ FilesHeld /\ [Next]_vars => FilesHeld' /\ LeftStays
<1> SUFFICES ASSUME TypeOK, FilesHeld, [Next]_vars PROVE FilesHeld' /\ LeftStays
  OBVIOUS
<1>1. CASE UNCHANGED vars
  BY <1>1, QuietKeeps DEF vars, files
<1> QED BY <1>1, PersonKeeps, HostKeeps, AgentKeeps, RestartKeeps DEF Next

LEMMA FilesKept == Spec => []FilesHeld
<1>1. Init => FilesHeld
  BY DEF Init, FilesHeld
<1> QED BY TypeCorrect, <1>1, KeepsNext, PTL DEF Spec

\* A message that was delivered or removed never comes back, for any number of
\* messages, devices, restarts and failed index writes: the argument is that its
\* own file went with it (FilesHeld), and load restores nothing without one.
THEOREM LeftForGood == Spec => GoneStaysGone
<1>1. TypeOK /\ FilesHeld /\ [Next]_vars =>
        [\A i \in Items : store.item[i].state \in {"delivered", "removed"} => store'.item[i].state = store.item[i].state]_vars
  BY KeepsNext DEF LeftStays, LEFT
<1> QED BY TypeCorrect, FilesKept, <1>1, PTL DEF Spec, GoneStaysGone

----------------------------------------------------------------------------
(* The dispatcher sends one message at a time *)

Automatic == {c \in calls : ~c.jump}

\* A step that leaves the automatic calls and the dispatcher as they are.
LEMMA SameSends ==
  ASSUME OneAutomaticSend, UNCHANGED dispatch, \E d : Automatic' \subseteq {d}, Automatic' = {} <=> Automatic = {}
  PROVE  OneAutomaticSend'
<1>1. \A c, d \in calls' : ~c.jump /\ ~d.jump => c \in Automatic' /\ d \in Automatic'
  BY DEF Automatic
<1>2. dispatch' = "sending" <=> \E c \in calls' : ~c.jump
  BY DEF Automatic, OneAutomaticSend
<1> QED BY <1>1, <1>2 DEF OneAutomaticSend

\* A call that moves on stays the call of the same kind.
LEMMA ReplaceSends ==
  ASSUME OneAutomaticSend, UNCHANGED dispatch, NEW c \in calls, NEW d, d.jump = c.jump, Replace(c, d)
  PROVE  OneAutomaticSend'
<1>1. CASE c.jump
  <2>1. Automatic' = Automatic
    BY <1>1 DEF Automatic, Replace
  <2>2. \E e : Automatic \subseteq {e}
    BY DEF Automatic, OneAutomaticSend
  <2> QED BY <2>1, <2>2, SameSends
<1>2. CASE ~c.jump
  <2>1. Automatic = {c}
    BY <1>2 DEF Automatic, OneAutomaticSend
  <2>2. Automatic' = {d}
    BY <1>2, <2>1 DEF Automatic, Replace
  <2> QED BY <2>1, <2>2, SameSends
<1> QED BY <1>1, <1>2

LEMMA QuietSends ==
  ASSUME OneAutomaticSend, UNCHANGED calls, dispatch' = dispatch \/ {dispatch, dispatch'} \subseteq {"idle", "asking"}
  PROVE  OneAutomaticSend'
BY DEF OneAutomaticSend

\* The dispatcher sends one message at a time and is "sending" exactly while it
\* does: inFlight is set before the first await and cleared by the send itself,
\* so neither the sweep, nor a resume, nor a turn's end starts a second one.
THEOREM OneSend == Spec => []OneAutomaticSend
<1>1. Init => OneAutomaticSend
  BY DEF Init, OneAutomaticSend
<1>2. TypeOK /\ OneAutomaticSend /\ [Next]_vars => OneAutomaticSend'
  <2> SUFFICES ASSUME TypeOK, OneAutomaticSend, [Next]_vars PROVE OneAutomaticSend'
    OBVIOUS
  <2> USE DEF hostVars
  <2>0. calls \subseteq Call
    BY DEF TypeOK
  <2>1. CASE PersonNext
    <3>1. ASSUME NEW d \in Devices, NEW i \in Items, SendNow(d, i) PROVE OneAutomaticSend'
      <4> DEFINE c == Prepared(i, Resumed(Claimed(store, i)), TRUE)
      <4>1. calls' = calls \cup {c} /\ c.jump
        BY <3>1 DEF SendNow, Prepared
      <4> HIDE DEF c
      <4>2. Automatic' = Automatic
        BY <4>1 DEF Automatic
      <4>3. \E e : Automatic \subseteq {e}
        BY DEF Automatic, OneAutomaticSend
      <4> QED BY <3>1, <4>2, <4>3, SameSends DEF SendNow
    <3>2. ASSUME UNCHANGED <<calls, dispatch>> PROVE OneAutomaticSend'
      BY <3>2, QuietSends
    <3> QED BY <2>1, <3>1, <3>2
          DEF PersonNext, Add, Read, Conflict, Edit, Withdraw, Move, Resume, Stop, DirectSend, Reopens
  <2>2. CASE HostNext
    <3>1. CASE DispatchBegins \/ DispatchYields
      BY <3>1, QuietSends DEF DispatchBegins, DispatchYields
    <3>2. ASSUME NEW i \in Items, DispatchClaims(i) PROVE OneAutomaticSend'
      <4> DEFINE c == Prepared(i, Claimed(store, i), FALSE)
      <4>1. calls' = calls \cup {c} /\ ~c.jump
        BY <3>2 DEF DispatchClaims, Prepared
      <4> HIDE DEF c
      <4>2. dispatch = "asking" /\ dispatch' = "sending"
        BY <3>2 DEF DispatchClaims
      <4>3. \A d \in calls : d.jump
        BY <4>2 DEF OneAutomaticSend
      <4>4. \A d \in calls' : ~d.jump => d = c
        BY <4>1, <4>3
      <4>5. \E d \in calls' : ~d.jump
        BY <4>1
      <4> QED BY <4>2, <4>4, <4>5 DEF OneAutomaticSend
    <3>3. ASSUME NEW i \in Items, ConfirmExpires(i) PROVE OneAutomaticSend'
      BY <3>3, QuietSends DEF ConfirmExpires
    <3>4. ASSUME NEW c \in calls, TurnsBack(c) PROVE OneAutomaticSend'
      <4>1. PICK answer : Replace(c, Answered(c, answer))
        BY <3>4 DEF TurnsBack
      <4>2. Answered(c, answer).jump = c.jump
        BY <2>0 DEF Answered, Call
      <4> QED BY <3>4, <4>1, <4>2, ReplaceSends DEF TurnsBack
    <3>5. ASSUME NEW c \in calls, HandsOver(c) PROVE OneAutomaticSend'
      <4>1. [c EXCEPT !.phase = "sent", !.via = Via(c.jump)].jump = c.jump
        BY <2>0 DEF Call
      <4> QED BY <3>5, <4>1, ReplaceSends DEF HandsOver
    <3>6. ASSUME NEW c \in calls, Settle(c) PROVE OneAutomaticSend'
      <4>1. calls' = calls \ {c} /\ dispatch' = IF c.jump THEN dispatch ELSE "idle"
        BY <3>6 DEF Settle, Released
      <4> QED BY <4>1 DEF OneAutomaticSend
    <3>7. ASSUME UNCHANGED <<calls, dispatch>> PROVE OneAutomaticSend'
      BY <3>7, QuietSends
    <3> QED BY <2>2, <3>1, <3>2, <3>3, <3>4, <3>5, <3>6, <3>7
          DEF HostNext, ObserveBegan, ObserveNative, ObserveStarted, ObserveRefused, ObserveEnded, Reclaim
  <2>3. CASE AgentNext
    <3>1. ASSUME NEW c \in calls, AgentRuns(c) \/ AgentHolds(c) \/ AgentDeclines(c) PROVE OneAutomaticSend'
      <4>1. (\E answer : Replace(c, Answered(c, answer))) /\ UNCHANGED dispatch
        BY <3>1 DEF AgentRuns, AgentHolds, AgentDeclines
      <4>2. PICK answer : Replace(c, Answered(c, answer))
        BY <4>1
      <4>3. Answered(c, answer).jump = c.jump
        BY <2>0 DEF Answered, Call
      <4> QED BY <4>1, <4>2, <4>3, ReplaceSends
    <3>2. ASSUME UNCHANGED <<calls, dispatch>> PROVE OneAutomaticSend'
      BY <3>2, QuietSends
    <3> QED BY <2>3, <3>1, <3>2
          DEF AgentNext, AgentStarts, AgentQueues, AgentRefuses, AgentEnds, AgentExits
  <2>4. CASE Locks \/ Unlocks \/ UNCHANGED vars
    BY <2>4, QuietSends DEF Locks, Unlocks, vars
  <2>5. CASE Restart
    BY <2>5 DEF Restart, OneAutomaticSend
  <2> QED BY <2>1, <2>2, <2>3, <2>4, <2>5 DEF Next
<1> QED BY TypeCorrect, <1>1, <1>2, PTL DEF Spec

=============================================================================
