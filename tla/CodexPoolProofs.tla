---------------------------- MODULE CodexPoolProofs ----------------------------
(***************************************************************************)
(* Proofs about CodexPool, for every number of children, threads, requests *)
(* and slots.  A step is first reduced to what it does to the children and *)
(* the threads (Shrinks, Enters, Binds, Takes, Leaves or Empties) and to   *)
(* the one request it moves; the invariants follow from these.             *)
(***************************************************************************)
EXTENDS CodexPool, FiniteSetTheorems, SequenceTheorems, TLAPS

HasChild == {"eviction", "child", "answer", "then", "release"}
AtWork == {"child", "answer", "then"}

----------------------------------------------------------------------------
(* The inductive invariant *)

\* Who evicts holds the admission lock.
Lock == \A c \in Call : call[c].step = "eviction" => First(c)
\* A request names its child, a resume its thread; a start has none.
Named == \A c \in Call :
  /\ call[c].step \in HasChild => call[c].child \in Child
  /\ call[c].step \in {"admission", "eviction"} => call[c].kind \in {"start", "resume"}
  /\ call[c].kind = "resume" => call[c].thread \in Thread
  /\ call[c].kind = "start" => call[c].thread = None
\* One resume of a thread at a time.
Once == \A c, d \in Call :
  (call[c].kind = "resume" /\ call[d].kind = "resume" /\ call[c].thread = call[d].thread) => c = d
\* Only a child whose start has settled is asked.
Answers == \A c \in Call : call[c].step = "answer" => stage[call[c].child] \in {"ready", "idle", "busy", "gone"}

\* A child that is not gone, or not confirmed closed, holds a slot.
Slots == ~closed => \A e \in Child : (close[e] # "confirmed" \/ stage[e] # "gone") => e \in entries
\* The child found under a thread has that thread.
Owners == ~closed => \A t \in Thread : Owner(t) # None => thread[Owner(t)] = t
\* A resume works on a child of its thread while that is open.
Resumes == ~closed => \A c \in Call :
  (call[c].kind = "resume" /\ call[c].step \in AtWork /\ Open(call[c].child)) =>
    thread[call[c].child] = call[c].thread
\* Nobody gets the thread while a resume of it makes room.
Evicts == ~closed => \A c \in Call :
  (call[c].kind = "resume" /\ call[c].step = "eviction") => Owner(call[c].thread) = None
\* Nobody else uses the child of a start before it has its thread.
Starts == ~closed => \A c \in Call :
  (call[c].kind = "start" /\ call[c].step \in AtWork /\ Open(call[c].child)) =>
    /\ \A t \in Thread : byThread[t] # call[c].child
    /\ \A d \in Call \ {c} : call[d].step \in AtWork => call[d].child # call[c].child

Requests == Lock /\ Named /\ Once /\ Answers
Children == Slots /\ Owners /\ Resumes /\ Evicts /\ Starts /\ OpenChildIsReachable
Inv == TypeOK /\ Requests /\ Children


----------------------------------------------------------------------------
(* Types *)

LEMMA CallType ==
  ASSUME TypeOK, NEW c \in Call
  PROVE  /\ call[c] \in Request /\ call[c].step \in STEPS
         /\ call[c].kind \in {"start", "resume", "use"} /\ call[c].thread \in Thread \cup {None}
         /\ call[c].child \in Child \cup {None}
<1>1. call[c] \in Request
  BY DEF TypeOK
<1> QED BY <1>1 DEF Request

\* What a step may make of a request.
LEMMA MovesType ==
  ASSUME TypeOK, NEW c \in Call
  PROVE  /\ \A request \in Request : Becomes(c, request) => call' \in [Call -> Request]
         /\ NoRequest \in Request
         /\ \A step \in STEPS : [call[c] EXCEPT !.step = step] \in Request
         /\ \A step \in STEPS, e \in Child : [call[c] EXCEPT !.step = step, !.child = e] \in Request
         /\ \A step \in STEPS, e \in Child : [call[c] EXCEPT !.step = step, !.child = e, !.created = TRUE] \in Request
         /\ \A step \in STEPS, ok \in BOOLEAN : [call[c] EXCEPT !.step = step, !.ok = ok] \in Request
<1>1. call \in [Call -> Request] /\ NoRequest \in Request
  BY DEF TypeOK, NoRequest, Request, STEPS
<1>2. \A request \in Request : Becomes(c, request) => call' \in [Call -> Request]
  BY <1>1 DEF Becomes
<1>3. call[c] \in Request
  BY <1>1
<1>4. /\ \A step \in STEPS : [call[c] EXCEPT !.step = step] \in Request
      /\ \A step \in STEPS, e \in Child : [call[c] EXCEPT !.step = step, !.child = e] \in Request
      /\ \A step \in STEPS, e \in Child : [call[c] EXCEPT !.step = step, !.child = e, !.created = TRUE] \in Request
      /\ \A step \in STEPS, ok \in BOOLEAN : [call[c] EXCEPT !.step = step, !.ok = ok] \in Request
  BY <1>3 DEF Request
<1> QED BY <1>1, <1>2, <1>4

\* A release takes at most the child's own thread and opens nothing.
LEMMA ReleaseStep ==
  ASSUME TypeOK, NEW e, Release(e)
  PROVE  /\ byThread' \in [Thread -> Child \cup {None}] /\ close' \in [Child -> CLOSES]
         /\ \A f \in Child : f # e => close'[f] = close[f]
         /\ e \in Child => close'[e] # "open" /\ (close[e] = "confirmed" => close'[e] = "confirmed")
         /\ \A t \in Thread : \/ byThread'[t] = byThread[t]
                              \/ (byThread'[t] = None /\ byThread[t] = e)
BY DEF Release, Unmap, CloseOf, Open, TypeOK, CLOSES

----------------------------------------------------------------------------
(* Kinds of steps *)

\* Children close or leave, threads are taken from children that close.
Shrinks ==
  /\ entries' \subseteq entries /\ closed' = closed
  /\ \A e \in Child :
       /\ close'[e] # "confirmed" \/ stage'[e] # "gone" =>
            (close[e] # "confirmed" \/ stage[e] # "gone") /\ (e \in entries => e \in entries')
       /\ close'[e] = "open" => close[e] = "open" /\ thread'[e] = thread[e]
  /\ \A t \in Thread : byThread'[t] = byThread[t] \/ byThread'[t] = None
  /\ \A t \in Thread : byThread'[t] # byThread[t] => close'[byThread[t]] # "open"

Same(c) == call'[c].kind = call[c].kind /\ call'[c].thread = call[c].thread
\* A request gets the child that owns its thread.
Joins(c) == /\ call'[c].step = "child" /\ call'[c].kind # "start" /\ call'[c].child \in Child
            /\ call'[c].thread \in Thread /\ call'[c].child = Owner(call'[c].thread)
Clears(c) == /\ Same(c) /\ call'[c].step = "eviction"
             /\ call[c].kind = "resume" => Owner(call[c].thread) = None
Continues(c) == /\ Same(c) /\ call'[c].child = call[c].child
                /\ call[c].step \in AtWork /\ call'[c].step \in AtWork
Rests(c) == call'[c].step \notin AtWork \cup {"eviction"}
Move(c) == call'[c] = call[c] \/ Rests(c) \/ Joins(c) \/ Clears(c) \/ Continues(c)

LEMMA ShrinkStep ==
  ASSUME TypeOK, TypeOK', Requests, Requests', Children, Shrinks, \A c \in Call : Move(c)
  PROVE  Children'
<1>1. CASE closed'
  BY <1>1 DEF Children, Slots, Owners, Resumes, Evicts, Starts, OpenChildIsReachable
<1>2. CASE ~closed'
  <2>0. ~closed
    BY <1>2 DEF Shrinks
  <2>1. Slots'
    BY <2>0 DEF Children, Slots, Shrinks
  <2>2. \A t \in Thread : Owner(t)' = Owner(t) \/ Owner(t)' = None
    BY NamesAssumption DEF Shrinks, Owner, Open, TypeOK
  <2>3. Owners'
    BY <2>0, <2>2, NamesAssumption DEF Children, Owners, Shrinks, Owner, Open, TypeOK
  <2>4. OpenChildIsReachable'
    BY <2>0, NamesAssumption DEF Children, OpenChildIsReachable, Shrinks, Open, TypeOK
  <2>5. Evicts'
    BY <2>0, <2>2, NamesAssumption DEF Children, Evicts, Move, Rests, Joins, Clears, Continues, Same, AtWork, Requests, Named
  <2>6. Resumes'
    <3>1. SUFFICES ASSUME NEW c \in Call, call'[c].kind = "resume", call'[c].step \in AtWork, close'[call'[c].child] = "open"
                   PROVE  thread'[call'[c].child] = call'[c].thread
      BY DEF Resumes, Open
    <3>2. call'[c].child \in Child
      BY <3>1 DEF Requests, Named, HasChild, AtWork
    <3>3. Open(call'[c].child) /\ thread'[call'[c].child] = thread[call'[c].child]
      BY <3>1, <3>2 DEF Shrinks, Open
    <3>4. CASE call'[c] = call[c] \/ Continues(c)
      BY <2>0, <3>1, <3>3, <3>4 DEF Children, Resumes, Continues, Same
    <3>5. CASE Joins(c)
      BY <2>0, <3>3, <3>5, NamesAssumption DEF Children, Owners, Joins
    <3> QED BY <3>1, <3>4, <3>5 DEF Move, Rests, Clears, AtWork
  <2>7. Starts'
    <3>1. SUFFICES ASSUME NEW c \in Call, call'[c].kind = "start", call'[c].step \in AtWork, close'[call'[c].child] = "open"
                   PROVE  /\ \A t \in Thread : byThread'[t] # call'[c].child
                          /\ \A d \in Call \ {c} : call'[d].step \in AtWork => call'[d].child # call'[c].child
      BY DEF Starts, Open
    <3>2. call'[c].child \in Child
      BY <3>1 DEF Requests, Named, HasChild, AtWork
    <3>3. Open(call'[c].child)
      BY <3>1, <3>2 DEF Shrinks, Open
    <3>4. /\ call[c].kind = "start" /\ call[c].step \in AtWork /\ call'[c].child = call[c].child
      BY <3>1 DEF Move, Rests, Joins, Clears, Continues, Same, AtWork
    <3>5. /\ \A t \in Thread : byThread[t] # call[c].child
          /\ \A d \in Call \ {c} : call[d].step \in AtWork => call[d].child # call[c].child
      BY <2>0, <3>3, <3>4 DEF Children, Starts
    <3>6. \A t \in Thread : byThread'[t] # call'[c].child
      BY <3>2, <3>4, <3>5, NamesAssumption DEF Shrinks
    <3>7. ASSUME NEW d \in Call \ {c}, call'[d].step \in AtWork
          PROVE  call'[d].child # call'[c].child
      <4>1. CASE call'[d] = call[d] \/ Continues(d)
        BY <3>4, <3>5, <3>7, <4>1 DEF Continues
      <4>2. CASE Joins(d)
        BY <3>2, <3>4, <3>5, <4>2, NamesAssumption DEF Joins, Owner
      <4> QED BY <3>7, <4>1, <4>2 DEF Move, Rests, Clears, AtWork
    <3> QED BY <3>6, <3>7
  <2> QED BY <2>1, <2>3, <2>4, <2>5, <2>6, <2>7 DEF Children
<1> QED BY <1>1, <1>2

\* A new child enters under the admission lock, for a thread nobody owns.
LEMMA EnterStep ==
  ASSUME TypeOK, TypeOK', Requests, Requests', Children, UNCHANGED closed,
         NEW c \in Call, NEW e \in Unused(c), Enters(c, e),
         call[c].step \in {"admission", "eviction"},
         call[c].kind = "resume" => Owner(call[c].thread) = None
  PROVE  Children'
<1>1. CASE closed'
  BY <1>1 DEF Children, Slots, Owners, Resumes, Evicts, Starts, OpenChildIsReachable
<1>2. CASE ~closed'
  <2> DEFINE u == call[c].thread
  <2>0. /\ ~closed /\ e \in Child /\ e \notin entries /\ e # None /\ u \in Thread \cup {None}
        /\ call[c].kind \in {"start", "resume"} /\ (call[c].kind = "start" => u = None)
        /\ (call[c].kind = "resume" => u \in Thread)
        /\ \A d \in Call \ {c} : call[d].child # e
    BY <1>2, CallType, NamesAssumption DEF Unused, Requests, Named
  <2>1. /\ \A d \in Call \ {c} : call'[d] = call[d]
        /\ call'[c].kind = call[c].kind /\ call'[c].thread = u /\ call'[c].step = "child" /\ call'[c].child = e
    BY CallType DEF Enters, Becomes, TypeOK, Request
  <2>2. \A f \in Child : f # e => thread'[f] = thread[f] /\ close'[f] = close[f] /\ stage'[f] = stage[f]
    BY DEF Enters, TypeOK
  <2>3. thread'[e] = u /\ close'[e] = "open" /\ entries' = entries \cup {e}
    BY <2>0 DEF Enters, TypeOK
  <2>4. \A t \in Thread : byThread'[t] = IF t = u THEN e ELSE IF byThread[t] = e THEN None ELSE byThread[t]
    BY DEF Enters
  <2>5. \A t \in Thread : t # u => Owner(t)' = Owner(t) \/ Owner(t)' = None
    BY <2>2, <2>4, NamesAssumption DEF Owner, Open, TypeOK
  <2> HIDE DEF u
  <2>6. Slots'
    BY <2>0, <2>2, <2>3 DEF Children, Slots
  <2>7. Owners'
    <3>1. SUFFICES ASSUME NEW t \in Thread, Owner(t)' # None
                   PROVE  thread'[Owner(t)'] = t
      BY DEF Owners
    <3>2. CASE t = u
      BY <2>0, <2>3, <2>4, <3>2 DEF Owner, Open
    <3>3. CASE t # u
      <4>1. Owner(t) # None /\ thread[Owner(t)] = t /\ Owner(t)' = Owner(t)
        BY <2>0, <2>5, <3>1, <3>3 DEF Children, Owners
      <4>2. Owner(t)' # e /\ Owner(t)' \in Child
        BY <2>0, <2>4, <3>1, <3>3 DEF Owner, TypeOK
      <4> QED BY <2>2, <4>1, <4>2
    <3> QED BY <3>2, <3>3
  <2>8. OpenChildIsReachable'
    <3>1. SUFFICES ASSUME NEW f \in entries', close'[f] = "open", thread'[f] # None
                   PROVE  byThread'[thread'[f]] = f
      BY DEF OpenChildIsReachable, Open
    <3>2. CASE f = e
      BY <2>0, <2>3, <2>4, <3>1, <3>2
    <3>3. CASE f # e
      <4>1. f \in entries /\ f \in Child /\ thread'[f] = thread[f] /\ close[f] = "open" /\ thread[f] \in Thread
        BY <2>2, <2>3, <3>1, <3>3 DEF TypeOK
      <4>2. byThread[thread[f]] = f
        BY <2>0, <3>1, <4>1 DEF Children, OpenChildIsReachable, Open
      <4>3. thread[f] # u
        <5>1. Owner(thread[f]) = f /\ f # None
          BY <4>1, <4>2, NamesAssumption DEF Owner, Open
        <5> QED BY <2>0, <4>1, <5>1, NamesAssumption DEF u
      <4> QED BY <2>4, <3>3, <4>1, <4>2, <4>3
    <3> QED BY <3>2, <3>3
  <2>9. Evicts'
    <3> SUFFICES \A d \in Call : (call'[d].kind = "resume" /\ call'[d].step = "eviction") =>
                    \A t \in Thread : t = call'[d].thread => Owner(t)' = None
      BY DEF Evicts, Requests, Named
    <3>1. SUFFICES ASSUME NEW d \in Call, call'[d].kind = "resume", call'[d].step = "eviction",
                          NEW t \in Thread, t = call'[d].thread
                   PROVE  Owner(t)' = None
      OBVIOUS
    <3>2. d # c /\ call'[d] = call[d]
      BY <2>1, <3>1
    <3>3. t = call[d].thread /\ Owner(t) = None
      BY <2>0, <3>1, <3>2 DEF Children, Evicts
    <3>4. t # u
      BY <2>0, <3>1, <3>2, <3>3, NamesAssumption DEF Requests, Once, u
    <3> QED BY <2>5, <3>2, <3>3, <3>4
  <2>10. Resumes'
    <3>1. SUFFICES ASSUME NEW d \in Call, call'[d].kind = "resume", call'[d].step \in AtWork, close'[call'[d].child] = "open"
                   PROVE  thread'[call'[d].child] = call'[d].thread
      BY DEF Resumes, Open
    <3>2. CASE d = c
      BY <2>1, <2>3, <3>2
    <3>3. CASE d # c
      <4>1. call'[d] = call[d] /\ call[d].child \in Child /\ call[d].child # e
        BY <2>0, <2>1, <3>1, <3>3 DEF Requests, Named, HasChild, AtWork
      <4> QED BY <2>0, <2>2, <3>1, <4>1 DEF Children, Resumes, Open
    <3> QED BY <3>2, <3>3
  <2>11. Starts'
    <3>1. SUFFICES ASSUME NEW d \in Call, call'[d].kind = "start", call'[d].step \in AtWork, close'[call'[d].child] = "open"
                   PROVE  /\ \A t \in Thread : byThread'[t] # call'[d].child
                          /\ \A b \in Call \ {d} : call'[b].step \in AtWork => call'[b].child # call'[d].child
      BY DEF Starts, Open
    <3>2. CASE d = c
      <4>1. u = None
        BY <2>0, <2>1, <3>1, <3>2
      <4> QED BY <2>0, <2>1, <2>4, <3>2, <4>1, NamesAssumption
    <3>3. CASE d # c
      <4>1. call'[d] = call[d] /\ call[d].child \in Child /\ call[d].child # e
        BY <2>0, <2>1, <3>1, <3>3 DEF Requests, Named, HasChild, AtWork
      <4>2. /\ \A t \in Thread : byThread[t] # call[d].child
            /\ \A b \in Call \ {d} : call[b].step \in AtWork => call[b].child # call[d].child
        BY <2>0, <2>2, <3>1, <4>1 DEF Children, Starts, Open
      <4> QED BY <2>0, <2>1, <2>4, <3>3, <4>1, <4>2, NamesAssumption
    <3> QED BY <3>2, <3>3
  <2> QED BY <2>6, <2>7, <2>8, <2>9, <2>10, <2>11 DEF Children
<1> QED BY <1>1, <1>2

\* A start binds its child to the thread Codex gave it.
LEMMA BindStep ==
  ASSUME TypeOK, TypeOK', Requests, Requests', Children, UNCHANGED <<closed, entries, close, stage>>,
         NEW c \in Call, NEW t \in NewThreads, call[c].step = "then", call[c].kind = "start", Ends(c),
         thread' = [thread EXCEPT ![call[c].child] = t], byThread' = [byThread EXCEPT ![t] = call[c].child]
  PROVE  Children'
<1>1. CASE closed'
  BY <1>1 DEF Children, Slots, Owners, Resumes, Evicts, Starts, OpenChildIsReachable
<1>2. CASE ~closed'
  <2> DEFINE e == call[c].child
  <2>0. /\ ~closed /\ e \in Child /\ e # None /\ t \in Thread /\ byThread[t] = None
        /\ \A f \in entries : thread[f] # t
        /\ \A d \in Call : call[d].thread # t
    BY <1>2, NamesAssumption DEF NewThreads, Requests, Named, HasChild
  <2>1. /\ \A d \in Call \ {c} : call'[d] = call[d]
        /\ call'[c].kind = "use" /\ call'[c].step = "off"
    BY DEF Ends, Becomes, NoRequest, TypeOK
  <2>2. /\ \A f \in Child : thread'[f] = IF f = e THEN t ELSE thread[f]
        /\ \A u \in Thread : byThread'[u] = IF u = t THEN e ELSE byThread[u]
    BY <2>0 DEF TypeOK
  <2>3. close[e] = "open" =>
        /\ \A u \in Thread : byThread[u] # e
        /\ \A d \in Call \ {c} : call[d].step \in AtWork => call[d].child # e
    BY <2>0 DEF Children, Starts, AtWork, Open
  <2> HIDE DEF e
  <2>4. \A u \in Thread : u # t => Owner(u)' = Owner(u)
    BY <2>2 DEF Owner, Open
  <2>5. Slots'
    BY <2>0 DEF Children, Slots
  <2>6. Owners'
    <3>1. SUFFICES ASSUME NEW u \in Thread, Owner(u)' # None
                   PROVE  thread'[Owner(u)'] = u
      BY DEF Owners
    <3>2. CASE u = t
      BY <2>0, <2>2, <3>1, <3>2 DEF Owner
    <3>3. CASE u # t
      <4>1. Owner(u) # None /\ thread[Owner(u)] = u /\ Owner(u)' = Owner(u)
        BY <2>0, <2>4, <3>1, <3>3 DEF Children, Owners
      <4>2. Owner(u) # e /\ Owner(u) \in Child
        BY <2>0, <2>3, <4>1 DEF Owner, TypeOK, Open
      <4> QED BY <2>2, <4>1, <4>2
    <3> QED BY <3>2, <3>3
  <2>7. OpenChildIsReachable'
    <3>1. SUFFICES ASSUME NEW f \in entries, close[f] = "open", thread'[f] # None
                   PROVE  byThread'[thread'[f]] = f
      BY DEF OpenChildIsReachable, Open
    <3>2. f \in Child
      BY DEF TypeOK
    <3>3. CASE f = e
      BY <2>0, <2>2, <3>3
    <3>4. CASE f # e
      <4>1. thread'[f] = thread[f] /\ thread[f] \in Thread /\ thread[f] # t
        BY <2>0, <2>2, <3>1, <3>2, <3>4 DEF TypeOK
      <4>2. byThread[thread[f]] = f
        BY <2>0, <3>1, <4>1 DEF Children, OpenChildIsReachable, Open
      <4> QED BY <2>2, <4>1, <4>2
    <3> QED BY <3>3, <3>4
  <2>8. Evicts'
    <3> SUFFICES \A d \in Call : (call'[d].kind = "resume" /\ call'[d].step = "eviction") =>
                    \A u \in Thread : u = call'[d].thread => Owner(u)' = None
      BY DEF Evicts, Requests, Named
    <3> QED BY <2>0, <2>1, <2>4 DEF Children, Evicts
  <2>9. Resumes'
    <3>1. SUFFICES ASSUME NEW d \in Call, call'[d].kind = "resume", call'[d].step \in AtWork, close'[call'[d].child] = "open"
                   PROVE  thread'[call'[d].child] = call'[d].thread
      BY DEF Resumes, Open
    <3>2. call'[d] = call[d] /\ call[d].child \in Child /\ call[d].child # e
      BY <2>1, <2>3, <3>1 DEF Requests, Named, HasChild, AtWork
    <3> QED BY <2>0, <2>2, <3>1, <3>2 DEF Children, Resumes, Open
  <2>10. Starts'
    <3>1. SUFFICES ASSUME NEW d \in Call, call'[d].kind = "start", call'[d].step \in AtWork, close'[call'[d].child] = "open"
                   PROVE  /\ \A u \in Thread : byThread'[u] # call'[d].child
                          /\ \A b \in Call \ {d} : call'[b].step \in AtWork => call'[b].child # call'[d].child
      BY DEF Starts, Open
    <3>2. call'[d] = call[d] /\ call[d].child \in Child /\ call[d].child # e
      BY <2>1, <2>3, <3>1 DEF Requests, Named, HasChild, AtWork
    <3>3. /\ \A u \in Thread : byThread[u] # call[d].child
          /\ \A b \in Call \ {d} : call[b].step \in AtWork => call[b].child # call[d].child
      BY <2>0, <3>1, <3>2 DEF Children, Starts, Open
    <3> QED BY <2>1, <2>2, <3>2, <3>3, NamesAssumption DEF AtWork
  <2> QED BY <2>5, <2>6, <2>7, <2>8, <2>9, <2>10 DEF Children
<1> QED BY <1>1, <1>2

----------------------------------------------------------------------------
(* The steps of a request *)

\* What a step that makes no new child and binds none does.
Plain == TypeOK' /\ Requests' /\ Shrinks /\ \A c \in Call : Move(c)
Unmoved == UNCHANGED <<call, admission>>

\* The requests when the step moves only one of them, in or to a known step.
LEMMA OneMoves ==
  ASSUME TypeOK, TypeOK', Requests, NEW c \in Call, NEW request \in Request, Becomes(c, request),
         request = NoRequest \/ (request.kind = call[c].kind /\ request.thread = call[c].thread),
         request.step \in HasChild => request.child \in Child,
         request.step = "admission" => call[c].step = "admission",
         request.step = "eviction" => call[c].step \in {"admission", "eviction"} /\ First(c) /\ admission' = admission,
         request.step = "answer" => stage'[request.child] \in {"ready", "idle", "busy", "gone"},
         \A d \in Call \ {c} : call[d].step = "answer" =>
            stage'[call[d].child] \in {"ready", "idle", "busy", "gone"},
         admission' = admission \/ (admission' = Tail(admission) /\ First(c))
  PROVE  Requests' /\ \A d \in Call \ {c} : call'[d] = call[d]
<1>1. call'[c] = request /\ \A d \in Call \ {c} : call'[d] = call[d]
  BY DEF Becomes, TypeOK
<1>2. Lock'
  BY <1>1 DEF Requests, Lock, First, NoRequest
<1>3. Named'
  BY <1>1 DEF Requests, Named, NoRequest, HasChild
<1>4. Once'
  BY <1>1 DEF Requests, Once, NoRequest
<1>5. Answers'
  BY <1>1 DEF Requests, Answers, NoRequest
<1> QED BY <1>1, <1>2, <1>3, <1>4, <1>5 DEF Requests

SETTLED == {"ready", "idle", "busy", "gone"}
LEMMA NoneMoves ==
  ASSUME TypeOK, Requests, Unmoved,
         \A e \in Child : stage[e] \in SETTLED => stage'[e] \in SETTLED
  PROVE  Requests' /\ \A c \in Call : Move(c)
BY DEF Requests, Lock, First, Named, Once, Answers, Unmoved, Move, HasChild, SETTLED

LEMMA StartStep ==
  ASSUME Inv, NEW c \in Call, Start(c)
  PROVE  Plain
<1> USE DEF Start, Arrives
<1>1. Becomes(c, [NoRequest EXCEPT !.kind = "start", !.step = "admission", !.created = TRUE])
  OBVIOUS
<1>2. [NoRequest EXCEPT !.kind = "start", !.step = "admission", !.created = TRUE] \in Request
  BY DEF NoRequest, Request, STEPS
<1>3. /\ call'[c].step = "admission" /\ call'[c].kind = "start" /\ call'[c].thread = None
      /\ \A d \in Call \ {c} : call'[d] = call[d]
  BY DEF Becomes, Inv, TypeOK, NoRequest
<1>4. admission' \in Seq(Call) /\ (admission # <<>> => admission' # <<>> /\ Head(admission') = Head(admission))
  BY AppendProperties, HeadTailProperties, EmptySeq, LenProperties DEF Inv, TypeOK
<1>5. TypeOK'
  BY <1>1, <1>2, <1>4, MovesType DEF Inv, TypeOK, child
<1>6. Requests'
  <2>1. Lock'
    BY <1>3, <1>4 DEF Inv, Requests, Lock, First
  <2>2. Named'
    BY <1>3 DEF Inv, Requests, Named, HasChild
  <2>3. Once'
    BY <1>3 DEF Inv, Requests, Once
  <2>4. Answers'
    BY <1>3 DEF Inv, Requests, Answers, child
  <2> QED BY <2>1, <2>2, <2>3, <2>4 DEF Requests
<1>7. Shrinks
  BY DEF Shrinks, child
<1>8. \A d \in Call : Move(d)
  BY <1>3 DEF Move, Rests, AtWork
<1> QED BY <1>5, <1>6, <1>7, <1>8 DEF Plain

LEMMA ResumeStep ==
  ASSUME Inv, NEW c \in Call, NEW t \in Thread, Resume(c, t)
  PROVE  Plain
<1> USE DEF Resume, Arrives
<1>1. Becomes(c, [NoRequest EXCEPT !.kind = "resume", !.step = "admission", !.thread = t])
  OBVIOUS
<1>2. [NoRequest EXCEPT !.kind = "resume", !.step = "admission", !.thread = t] \in Request
  BY DEF NoRequest, Request, STEPS
<1>3. /\ call'[c].step = "admission" /\ call'[c].kind = "resume" /\ call'[c].thread = t
      /\ \A d \in Call \ {c} : call'[d] = call[d]
  BY DEF Becomes, Inv, TypeOK, NoRequest
<1>4. admission' \in Seq(Call) /\ (admission # <<>> => admission' # <<>> /\ Head(admission') = Head(admission))
  BY AppendProperties, HeadTailProperties, EmptySeq, LenProperties DEF Inv, TypeOK
<1>5. TypeOK'
  BY <1>1, <1>2, <1>4, MovesType DEF Inv, TypeOK, child
<1>6. Requests'
  <2>1. Lock'
    BY <1>3, <1>4 DEF Inv, Requests, Lock, First
  <2>2. Named'
    BY <1>3 DEF Inv, Requests, Named, HasChild
  <2>3. Once'
    <3>1. \A d \in Call \ {c} : call'[d] = call[d] /\ ~(call[d].kind = "resume" /\ call[d].thread = t)
      BY <1>3
    <3>2. Once
      BY DEF Inv, Requests
    <3> QED BY ONLY <1>3, <3>1, <3>2 DEF Once
  <2>4. Answers'
    BY <1>3 DEF Inv, Requests, Answers, child
  <2> QED BY <2>1, <2>2, <2>3, <2>4 DEF Requests
<1>7. Shrinks
  BY DEF Shrinks, child
<1>8. \A d \in Call : Move(d)
  BY <1>3 DEF Move, Rests, AtWork
<1> QED BY <1>5, <1>6, <1>7, <1>8 DEF Plain

LEMMA UseStep ==
  ASSUME Inv, NEW c \in Call, NEW t \in Thread, Use(c, t)
  PROVE  Plain
<1> USE DEF Use, Arrives
<1>1. Owner(t) \in Child
  BY DEF Owner, Inv, TypeOK
<1>2. Becomes(c, [NoRequest EXCEPT !.thread = t, !.step = "child", !.child = Owner(t)])
  OBVIOUS
<1>3. [NoRequest EXCEPT !.thread = t, !.step = "child", !.child = Owner(t)] \in Request
  BY <1>1 DEF NoRequest, Request, STEPS
<1>4. /\ call'[c].step = "child" /\ call'[c].kind = "use" /\ call'[c].thread = t /\ call'[c].child = Owner(t)
      /\ \A d \in Call \ {c} : call'[d] = call[d]
  BY DEF Becomes, Inv, TypeOK, NoRequest
<1>5. TypeOK'
  BY <1>2, <1>3, MovesType DEF Inv, TypeOK, child
<1>6. Requests'
  <2>1. Lock'
    BY <1>4 DEF Inv, Requests, Lock, First
  <2>2. Named'
    BY <1>1, <1>4 DEF Inv, Requests, Named, HasChild
  <2>3. Once'
    <3>1. Once
      BY DEF Inv, Requests
    <3> QED BY ONLY <1>4, <3>1 DEF Once
  <2>4. Answers'
    BY <1>4 DEF Inv, Requests, Answers, child
  <2> QED BY <2>1, <2>2, <2>3, <2>4 DEF Requests
<1>7. Shrinks
  BY DEF Shrinks, child
<1>8. Move(c)
  BY <1>1, <1>4 DEF Move, Joins
<1>9. \A d \in Call : Move(d)
  BY <1>4, <1>8 DEF Move
<1> QED BY <1>5, <1>6, <1>7, <1>9 DEF Plain

\* The children of the other requests that wait for an answer stay settled.
AnswersStay(c) == \A d \in Call \ {c} :
  call[d].step = "answer" => stage'[call[d].child] \in {"ready", "idle", "busy", "gone"}
LEMMA SameAnswers ==
  ASSUME Inv, NEW c \in Call, UNCHANGED stage
  PROVE  AnswersStay(c)
BY DEF AnswersStay, Inv, Requests, Answers

LEMMA EndMoves ==
  ASSUME TypeOK, TypeOK', Requests, NEW c \in Call, Ends(c),
         AnswersStay(c),
         admission' = admission \/ (admission' = Tail(admission) /\ First(c))
  PROVE  Requests' /\ \A d \in Call : Move(d)
<1>1. /\ call'[c].step = "off" /\ call'[c].kind = "use"
      /\ \A d \in Call \ {c} : call'[d] = call[d]
  BY DEF Ends, Becomes, NoRequest, TypeOK
<1>2. Lock'
  BY <1>1 DEF Requests, Lock, First
<1>3. Named'
  BY <1>1 DEF Requests, Named, HasChild
<1>4. Once'
  BY <1>1 DEF Requests, Once
<1>5. Answers'
  BY <1>1 DEF Requests, Answers, AnswersStay
<1> QED BY <1>1, <1>2, <1>3, <1>4, <1>5 DEF Requests, Move, Rests, AtWork

\* A step of a request that releases a child at most, and moves nothing else.
Lets(e) == Release(e) \/ UNCHANGED <<byThread, close>>
LEMMA LetsStep ==
  ASSUME Inv, NEW e, Lets(e), UNCHANGED <<entries, thread, closed>>,
         \A f \in Child : stage'[f] # "gone" => stage[f] # "gone"
  PROVE  /\ Shrinks /\ byThread' \in [Thread -> Child \cup {None}] /\ close' \in [Child -> CLOSES]
         /\ Release(e) /\ e \in Child => close'[e] # "open"
<1>1. CASE Release(e)
  BY <1>1, ReleaseStep, NamesAssumption DEF Shrinks, Inv, TypeOK
<1>2. CASE UNCHANGED <<byThread, close>>
  BY <1>2 DEF Shrinks, Inv, TypeOK, Release, CloseOf, Open
<1> QED BY <1>1, <1>2 DEF Lets

LEMMA TailType ==
  ASSUME TypeOK, NEW c \in Call, First(c)
  PROVE  Tail(admission) \in Seq(Call)
BY HeadTailProperties, EmptySeq DEF TypeOK, First

LEMMA MakesStep ==
  ASSUME Inv, NEW c \in Call, Makes(c), UNCHANGED closed, First(c),
         call[c].step \in {"admission", "eviction"},
         call[c].kind = "resume" /\ ~closed => Owner(call[c].thread) = None
  PROVE  TypeOK' /\ Requests' /\ Children' /\ (entries' = entries \/ (Room(c) /\ \E e \in Child : entries' = entries \cup {e}))
<1>0. /\ call[c] \in Request /\ call[c].thread \in Thread \cup {None} /\ call \in [Call -> Request]
      /\ stage \in [Child -> STAGES] /\ thread \in [Child -> Thread \cup {None}]
  BY CallType DEF Inv, TypeOK
<1>1. CASE \E e \in Unused(c) : e = (CHOOSE f \in Unused(c) : TRUE) /\ Enters(c, e) /\ Room(c)
  <2>1. PICK e \in Unused(c) : Enters(c, e) /\ Room(c)
    BY <1>1
  <2> DEFINE request == [call[c] EXCEPT !.step = "child", !.child = e, !.created = TRUE]
  <2>2. e \in Child /\ \A d \in Call \ {c} : call[d].child # e
    BY DEF Unused
  <2>3. request \in Request /\ Becomes(c, request)
    BY <2>1, <2>2, MovesType DEF Enters, Inv, STEPS
  <2>4. TypeOK'
    <3>1. call' \in [Call -> Request]
      BY <2>3, MovesType DEF Inv
    <3>2. admission' \in Seq(Call)
      BY <2>1, TailType DEF Enters, Inv
    <3>3. /\ stage' \in [Child -> STAGES] /\ thread' \in [Child -> Thread \cup {None}] /\ close' \in [Child -> CLOSES]
          /\ retire' \in [Child -> BOOLEAN] /\ retiring' \in [Child -> BOOLEAN] /\ process' \in [Child -> BOOLEAN]
          /\ entries' \subseteq Child
      BY <1>0, <2>1, <2>2 DEF Enters, Inv, TypeOK, STAGES, CLOSES
    <3>4. byThread' \in [Thread -> Child \cup {None}]
      BY <2>1, <2>2 DEF Enters, Inv, TypeOK
    <3> QED BY <3>1, <3>2, <3>3, <3>4 DEF TypeOK, Inv
  <2>5. request.kind = call[c].kind /\ request.thread = call[c].thread /\ request.step = "child" /\ request.child = e
    BY <1>0 DEF Request
  <2>6. \A d \in Call \ {c} : call[d].step = "answer" => stage'[call[d].child] \in {"ready", "idle", "busy", "gone"}
    BY <2>1, <2>2 DEF Enters, Inv, Requests, Answers, TypeOK, Named, HasChild
  <2> HIDE DEF request
  <2>7. Requests'
    BY <2>1, <2>2, <2>3, <2>4, <2>5, <2>6, OneMoves DEF Enters, Inv
  <2>8. Children'
    <3>1. CASE closed
      BY <3>1 DEF Children, Slots, Owners, Resumes, Evicts, Starts, OpenChildIsReachable
    <3>2. CASE ~closed
      BY <2>1, <2>4, <2>7, <3>2, EnterStep DEF Inv
    <3> QED BY <3>1, <3>2
  <2> QED BY <2>1, <2>2, <2>4, <2>7, <2>8 DEF Enters
<1>2. CASE \E e \in entries : /\ Idle(e) /\ Release(e) /\ GetsChild(c, "eviction", e)
                              /\ UNCHANGED <<entries, child, process, admission>>
  <2>1. PICK e \in entries : /\ Idle(e) /\ Release(e) /\ GetsChild(c, "eviction", e)
                             /\ UNCHANGED <<entries, child, process, admission>>
    BY <1>2
  <2>2. e \in Child
    BY DEF Inv, TypeOK
  <2> DEFINE request == [call[c] EXCEPT !.step = "eviction", !.child = e]
  <2>3. request \in Request /\ Becomes(c, request)
    BY <2>1, <2>2, MovesType DEF GetsChild, Inv, STEPS
  <2>4. request.kind = call[c].kind /\ request.thread = call[c].thread /\ request.step = "eviction" /\ request.child = e
    BY <1>0 DEF Request
  <2> HIDE DEF request
  <2>5. /\ Shrinks /\ byThread' \in [Thread -> Child \cup {None}] /\ close' \in [Child -> CLOSES]
    BY <2>1, LetsStep DEF Lets, child
  <2>6. TypeOK'
    BY <2>1, <2>3, <2>5, MovesType DEF Inv, TypeOK, child
  <2>7. Requests' /\ \A d \in Call \ {c} : call'[d] = call[d]
    BY <2>1, <2>2, <2>3, <2>4, <2>6, OneMoves DEF Inv, child, Requests, Answers
  <2>8. call'[c] = request
    BY <2>3 DEF Becomes, Inv, TypeOK
  <2>9. CASE closed
    BY <2>1, <2>6, <2>7, <2>9 DEF Children, Slots, Owners, Resumes, Evicts, Starts, OpenChildIsReachable
  <2>10. CASE ~closed
    <3>1. Clears(c)
      BY <2>4, <2>8, <2>10 DEF Clears, Same
    <3>2. \A d \in Call : Move(d)
      BY <2>7, <3>1 DEF Move
    <3> QED BY <2>1, <2>5, <2>6, <2>7, <3>2, ShrinkStep DEF Inv
  <2> QED BY <2>9, <2>10
<1>3. CASE Ends(c) /\ admission' = Tail(admission) /\ UNCHANGED <<entries, child, close, process, byThread>>
  <2>1. NoRequest \in Request /\ Becomes(c, NoRequest)
    BY <1>3, MovesType DEF Ends, Inv
  <2>2. TypeOK'
    BY <1>3, <2>1, MovesType, TailType DEF Inv, TypeOK, child
  <2>3. Requests' /\ \A d \in Call : Move(d)
    BY <1>3, <2>2, EndMoves, SameAnswers DEF Inv, child
  <2>6. Shrinks
    BY <1>3 DEF Shrinks, child
  <2> QED BY <1>3, <2>2, <2>3, <2>6, ShrinkStep DEF Inv
<1> QED BY <1>1, <1>2, <1>3 DEF Makes

Safe == TypeOK' /\ Requests' /\ Children'
Grows == \E c \in Call, e \in Child : Room(c) /\ entries' = entries \cup {e}
LEMMA PlainStep ==
  ASSUME Inv, Plain
  PROVE  Safe /\ entries' \subseteq entries
BY ShrinkStep DEF Inv, Plain, Safe, Shrinks

LEMMA AdmitStep ==
  ASSUME Inv, NEW c \in Call, Admit(c)
  PROVE  Safe /\ (entries' = entries \/ Grows)
<1> DEFINE owner == IF call[c].thread = None THEN None ELSE Owner(call[c].thread)
<1>0. /\ call[c] \in Request /\ First(c) /\ call[c].step = "admission" /\ UNCHANGED closed
      /\ call[c].kind \in {"start", "resume"} /\ (call[c].kind = "resume" => call[c].thread \in Thread)
      /\ (call[c].kind = "start" => call[c].thread = None)
  BY CallType DEF Admit, Inv, Requests, Named
<1>1. CASE closed /\ Ends(c) /\ admission' = Tail(admission) /\ UNCHANGED <<entries, child, close, process, byThread>>
  <2>1. NoRequest \in Request /\ Becomes(c, NoRequest)
    BY <1>1, MovesType DEF Ends, Inv
  <2>2. TypeOK'
    BY <1>0, <1>1, <2>1, MovesType, TailType DEF Inv, TypeOK, child
  <2>3. Requests'
    BY <1>0, <1>1, <2>2, EndMoves, SameAnswers DEF Inv, child
  <2>4. Children'
    BY <1>0, <1>1 DEF Children, Slots, Owners, Resumes, Evicts, Starts, OpenChildIsReachable
  <2> QED BY <1>1, <2>2, <2>3, <2>4 DEF Safe
<1>2. CASE /\ ~closed /\ owner # None
           /\ GetsChild(c, "child", owner)
           /\ admission' = Tail(admission)
           /\ UNCHANGED <<entries, child, close, process, byThread>>
  <2> DEFINE request == [call[c] EXCEPT !.step = "child", !.child = owner]
  <2>1. call[c].thread \in Thread /\ owner = Owner(call[c].thread) /\ call[c].kind = "resume"
    BY <1>0, <1>2
  <2>2. owner \in Child
    BY <1>2, <2>1 DEF Owner, Inv, TypeOK
  <2> HIDE DEF owner
  <2>3. request \in Request /\ Becomes(c, request)
    BY <1>2, <2>2, MovesType DEF GetsChild, Inv, STEPS
  <2>4. request.kind = call[c].kind /\ request.thread = call[c].thread /\ request.step = "child" /\ request.child = owner
    BY <1>0 DEF Request
  <2> HIDE DEF request
  <2>5. TypeOK'
    BY <1>0, <1>2, <2>3, MovesType, TailType DEF Inv, TypeOK, child
  <2>6. Requests' /\ \A d \in Call \ {c} : call'[d] = call[d]
    BY <1>0, <1>2, <2>2, <2>3, <2>4, <2>5, OneMoves DEF Inv, child, Requests, Answers
  <2>7. call'[c] = request
    BY <2>3 DEF Becomes, Inv, TypeOK
  <2>8. Joins(c)
    BY <2>1, <2>2, <2>4, <2>7 DEF Joins
  <2>9. Shrinks
    BY <1>0, <1>2 DEF Shrinks, child
  <2>10. \A d \in Call : Move(d)
    BY <2>6, <2>8 DEF Move
  <2> QED BY <1>2, <2>5, <2>6, <2>9, <2>10, PlainStep DEF Plain
<1>3. CASE ~closed /\ owner = None /\ Makes(c)
  <2>1. call[c].kind = "resume" => Owner(call[c].thread) = None
    BY <1>0, <1>3, NamesAssumption
  <2> QED BY <1>0, <1>3, <2>1, MakesStep DEF Safe, Grows
<1> QED BY <1>1, <1>2, <1>3 DEF Admit

LEMMA EvictedStep ==
  ASSUME Inv, NEW c \in Call, Evicted(c)
  PROVE  Safe /\ (entries' = entries \/ Grows)
<1>0. First(c) /\ call[c].step = "eviction" /\ UNCHANGED closed
  BY DEF Evicted, Inv, Requests, Lock
<1>1. CASE Makes(c)
  <2>1. call[c].kind = "resume" /\ ~closed => Owner(call[c].thread) = None
    BY <1>0 DEF Inv, Children, Evicts
  <2> QED BY <1>0, <1>1, <2>1, MakesStep DEF Safe, Grows
<1>2. CASE Ends(c) /\ admission' = Tail(admission) /\ UNCHANGED <<entries, child, close, process, byThread>>
  <2>1. NoRequest \in Request /\ Becomes(c, NoRequest)
    BY <1>2, MovesType DEF Ends, Inv
  <2>2. TypeOK'
    BY <1>0, <1>2, <2>1, MovesType, TailType DEF Inv, TypeOK, child
  <2>3. Requests' /\ \A d \in Call : Move(d)
    BY <1>0, <1>2, <2>2, EndMoves, SameAnswers DEF Inv, child
  <2>4. Shrinks
    BY <1>0, <1>2 DEF Shrinks, child
  <2> QED BY <1>2, <2>2, <2>3, <2>4, PlainStep DEF Plain
<1> QED BY <1>1, <1>2 DEF Evicted

\* A request that goes to another step.
LEMMA GoMoves ==
  ASSUME TypeOK, TypeOK', Requests, NEW c \in Call, NEW step \in {"answer", "then", "release"},
         call[c].step \in AtWork, call[c].child \in Child, UNCHANGED admission,
         NEW ok \in BOOLEAN, Becomes(c, [call[c] EXCEPT !.step = step, !.ok = ok]),
         step = "answer" => stage'[call[c].child] \in {"ready", "idle", "busy", "gone"},
         AnswersStay(c)
  PROVE  Requests' /\ \A d \in Call : Move(d)
<1> DEFINE request == [call[c] EXCEPT !.step = step, !.ok = ok]
<1>1. call[c] \in Request /\ request \in Request
  BY MovesType DEF TypeOK, STEPS
<1>2. request.kind = call[c].kind /\ request.thread = call[c].thread /\ request.step = step /\ request.child = call[c].child
  BY <1>1 DEF Request
<1>3. call' = [call EXCEPT ![c] = request]
  BY DEF Becomes
<1> HIDE DEF request
<1>4. Becomes(c, request)
  BY <1>3 DEF Becomes
<1>5. Requests' /\ \A d \in Call \ {c} : call'[d] = call[d]
  BY <1>1, <1>2, <1>4, OneMoves DEF AnswersStay, HasChild, AtWork
<1>6. call'[c] = request
  BY <1>3 DEF TypeOK
<1>7. Move(c)
  BY <1>2, <1>6 DEF Move, Rests, Continues, Same, AtWork
<1> QED BY <1>5, <1>7 DEF Move

LEMMA GoesIs ==
  ASSUME TypeOK, NEW c \in Call, NEW step \in STEPS, Goes(c, step)
  PROVE  /\ Becomes(c, [call[c] EXCEPT !.step = step, !.ok = call[c].ok])
         /\ call[c].ok \in BOOLEAN /\ call' \in [Call -> Request]
<1>1. call[c] \in Request
  BY DEF TypeOK
<1>2. call[c].ok \in BOOLEAN /\ [call[c] EXCEPT !.step = step] = [call[c] EXCEPT !.step = step, !.ok = call[c].ok]
  BY <1>1 DEF Request
<1> QED BY <1>2, MovesType DEF Goes, Becomes

LEMMA ChildOf ==
  ASSUME Inv, NEW c \in Call
  PROVE  /\ call[c].step \in HasChild => call[c].child \in Child
         /\ call[c].step = "answer" => stage[call[c].child] \in {"ready", "idle", "busy", "gone"}
         /\ call \in [Call -> Request] /\ NoRequest \in Request
BY MovesType DEF Inv, TypeOK, Requests, Named, Answers

Kept == UNCHANGED <<entries, stage, thread, retire, process, admission, closed>>
LEMMA FailsStep ==
  ASSUME Inv, NEW c \in Call, call[c].step \in {"child", "then"}, Fails(c), Kept, retiring' \in [Child -> BOOLEAN]
  PROVE  Plain
<1> DEFINE e == call[c].child
<1>1. e \in Child
  BY ChildOf DEF HasChild
<1>2. Lets(e)
  BY DEF Fails, Lets, Unreleased
<1>3. Shrinks /\ byThread' \in [Thread -> Child \cup {None}] /\ close' \in [Child -> CLOSES]
  BY <1>2, LetsStep DEF Kept
<1>4. CASE Goes(c, "release")
  <2>1. "release" \in STEPS
    BY DEF STEPS
  <2>2. TypeOK'
    BY <1>3, <1>4, <2>1, GoesIs DEF Kept, Inv, TypeOK
  <2>3. Requests' /\ \A d \in Call : Move(d)
    BY <1>1, <1>4, <2>1, <2>2, GoesIs, GoMoves, SameAnswers DEF Kept, Inv, AtWork
  <2> QED BY <1>3, <2>2, <2>3 DEF Plain
<1>5. CASE Ends(c)
  <2>1. call' \in [Call -> Request]
    BY <1>5, MovesType DEF Ends, Inv
  <2>2. TypeOK'
    BY <1>3, <2>1 DEF Kept, Inv, TypeOK
  <2>3. Requests' /\ \A d \in Call : Move(d)
    BY <1>5, <2>2, EndMoves, SameAnswers DEF Kept, Inv
  <2> QED BY <1>3, <2>2, <2>3 DEF Plain
<1> QED BY <1>4, <1>5 DEF Fails

LEMMA EnsureStep ==
  ASSUME Inv, NEW c \in Call, Ensure(c)
  PROVE  Plain
<1>1. call[c].child \in Child
  BY ChildOf DEF Ensure, HasChild
<1>2. TypeOK'
  BY <1>1 DEF Ensure, Inv, TypeOK, STAGES
<1>3. \A e \in Child : (stage[e] \in SETTLED => stage'[e] \in SETTLED) /\ (stage'[e] # "gone" => stage[e] # "gone")
  BY <1>1 DEF Ensure, Inv, TypeOK, SETTLED
<1>4. Requests' /\ \A d \in Call : Move(d)
  BY <1>3, NoneMoves DEF Ensure, Unmoved, Inv
<1>5. Shrinks
  BY <1>3 DEF Ensure, Shrinks
<1> QED BY <1>2, <1>4, <1>5 DEF Plain

LEMMA InvokeStep ==
  ASSUME Inv, NEW c \in Call, Invoke(c)
  PROVE  Plain
<1>1. /\ call[c].child \in Child /\ call[c].step = "child" /\ Kept /\ retiring' \in [Child -> BOOLEAN]
      /\ stage[call[c].child] \in {"ready", "idle", "busy", "gone"}
  BY ChildOf DEF Invoke, HasChild, Kept, child, Inv, TypeOK
<1>2. CASE Goes(c, "answer") /\ Unreleased
  <2>1. "answer" \in STEPS
    BY DEF STEPS
  <2>2. TypeOK'
    BY <1>1, <1>2, <2>1, GoesIs DEF Kept, Inv, TypeOK, Unreleased
  <2>3. Requests' /\ \A d \in Call : Move(d)
    BY <1>1, <1>2, <2>1, <2>2, GoesIs, GoMoves, SameAnswers DEF Kept, Inv, AtWork
  <2>4. Shrinks
    BY <1>1, <1>2 DEF Shrinks, Kept, Unreleased
  <2> QED BY <2>2, <2>3, <2>4 DEF Plain
<1>3. CASE Fails(c)
  BY <1>1, <1>3, FailsStep
<1>4. CASE Ends(c) /\ Unreleased
  <2>1. call' \in [Call -> Request]
    BY <1>4, MovesType DEF Ends, Inv
  <2>2. TypeOK'
    BY <1>1, <1>4, <2>1 DEF Kept, Inv, TypeOK, Unreleased
  <2>3. Requests' /\ \A d \in Call : Move(d)
    BY <1>1, <1>4, <2>2, EndMoves, SameAnswers DEF Kept, Inv
  <2>4. Shrinks
    BY <1>1, <1>4 DEF Shrinks, Kept, Unreleased
  <2> QED BY <2>2, <2>3, <2>4 DEF Plain
<1> QED BY <1>2, <1>3, <1>4 DEF Invoke

LEMMA ReleasedStep ==
  ASSUME Inv, NEW c \in Call, Released(c)
  PROVE  Plain
<1>1. call' \in [Call -> Request]
  BY MovesType DEF Released, Ends, Inv
<1>2. TypeOK'
  BY <1>1 DEF Released, child, Inv, TypeOK
<1>3. Requests' /\ \A d \in Call : Move(d)
  <2>1. AnswersStay(c)
    BY SameAnswers DEF Released, child
  <2>2. Ends(c) /\ TypeOK /\ Requests /\ admission' = admission
    BY DEF Released, Inv
  <2> QED BY <1>2, <2>1, <2>2, EndMoves
<1>4. Shrinks
  BY DEF Released, child, Shrinks
<1> QED BY <1>2, <1>3, <1>4 DEF Plain

LEMMA RetireStep ==
  ASSUME TypeOK, NEW e, NEW rest, ScheduleRetire(e, rest)
  PROVE  Lets(e) /\ retiring' \in [Child -> BOOLEAN]
BY DEF ScheduleRetire, Lets, Unreleased, TypeOK

LEMMA ReturnStep ==
  ASSUME Inv, NEW c \in Call, Return(c)
  PROVE  Plain
<1> DEFINE e == call[c].child
           rest == Active(e) \ {c}
<1>1. PICK ok \in BOOLEAN, fatal \in BOOLEAN :
        /\ \E s \in IF ok THEN After(c) ELSE AfterReject(c) : stage' = [stage EXCEPT ![e] = s]
        /\ retire' = [retire EXCEPT ![e] = @ \/ fatal]
        /\ IF retire'[e] /\ rest = {} /\ Open(e) THEN ScheduleRetire(e, rest) ELSE Unreleased /\ UNCHANGED retiring
        /\ IF call[c].kind = "use" THEN Ends(c) ELSE Becomes(c, [call[c] EXCEPT !.step = "then", !.ok = ok])
  BY DEF Return
<1>2. /\ e \in Child /\ call[c].step = "answer" /\ UNCHANGED <<entries, thread, process, admission, closed>>
      /\ call[c].kind \in {"start", "resume", "use"} /\ stage[e] \in SETTLED
  BY ChildOf, CallType DEF Return, HasChild, Inv, SETTLED
<1>3. PICK s \in IF ok THEN After(c) ELSE AfterReject(c) : stage' = [stage EXCEPT ![e] = s]
  BY <1>1
<1>4. s \in SETTLED /\ (stage[e] = "gone" => s = "gone")
  <2>1. CASE s \in After(c)
    BY <1>2, <2>1 DEF After, SETTLED
  <2>2. CASE s \in AfterReject(c)
    BY <1>2, <2>2 DEF AfterReject, SETTLED
  <2> QED BY <1>3, <2>1, <2>2
<1> HIDE DEF e
<1>5. /\ stage' \in [Child -> STAGES] /\ stage'[e] \in SETTLED
      /\ \A f \in Child : stage'[f] # "gone" => stage[f] # "gone"
      /\ \A f \in Child : stage[f] \in SETTLED => stage'[f] \in SETTLED
  BY <1>2, <1>3, <1>4 DEF Inv, TypeOK, SETTLED, STAGES
<1>6. Lets(e) /\ retiring' \in [Child -> BOOLEAN] /\ retire' \in [Child -> BOOLEAN]
  <2>1. Lets(e) /\ retiring' \in [Child -> BOOLEAN]
    <3>1. CASE ScheduleRetire(e, rest)
      BY <3>1, RetireStep DEF Inv
    <3>2. CASE Unreleased /\ UNCHANGED retiring
      BY <3>2 DEF Unreleased, Lets, Inv, TypeOK
    <3> QED BY <1>1, <3>1, <3>2
  <2>2. retire' \in [Child -> BOOLEAN]
    BY <1>1 DEF Inv, TypeOK
  <2> QED BY <2>1, <2>2
<1>7. Shrinks /\ byThread' \in [Thread -> Child \cup {None}] /\ close' \in [Child -> CLOSES]
  BY <1>2, <1>5, <1>6, LetsStep
<1>8. AnswersStay(c)
  BY <1>5, ChildOf DEF AnswersStay, HasChild, SETTLED
<1>9. CASE call[c].kind = "use" /\ Ends(c)
  <2>1. call' \in [Call -> Request]
    BY <1>9, MovesType DEF Ends, Inv
  <2>2. TypeOK'
    BY <1>2, <1>5, <1>6, <1>7, <2>1 DEF Inv, TypeOK
  <2>3. Requests' /\ \A d \in Call : Move(d)
    BY <1>2, <1>8, <1>9, <2>2, EndMoves DEF Inv
  <2> QED BY <1>7, <2>2, <2>3 DEF Plain
<1>10. CASE call[c].kind # "use" /\ Becomes(c, [call[c] EXCEPT !.step = "then", !.ok = ok])
  <2>1. call' \in [Call -> Request]
    BY <1>10, MovesType DEF Inv, STEPS
  <2>2. TypeOK'
    BY <1>2, <1>5, <1>6, <1>7, <2>1 DEF Inv, TypeOK
  <2>3. Requests' /\ \A d \in Call : Move(d)
    BY <1>2, <1>8, <1>10, <2>2, GoMoves DEF Inv, AtWork, e
  <2> QED BY <1>7, <2>2, <2>3 DEF Plain
<1> QED BY <1>1, <1>9, <1>10

LEMMA StartedStep ==
  ASSUME Inv, NEW c \in Call, Started(c)
  PROVE  Safe /\ entries' = entries
<1> DEFINE e == call[c].child
<1>1. /\ e \in Child /\ call[c].step = "then" /\ call[c].kind = "start"
      /\ UNCHANGED <<entries, stage, retire, retiring, process, admission, closed>>
  BY ChildOf DEF Started, HasChild
<1>2. CASE ~call[c].ok /\ Fails(c) /\ UNCHANGED thread
  BY <1>1, <1>2, FailsStep, PlainStep DEF Kept, Inv, TypeOK
<1>3. CASE /\ Ends(c) /\ UNCHANGED close
           /\ \E t \in NewThreads :
                thread' = [thread EXCEPT ![e] = t] /\ byThread' = [byThread EXCEPT ![t] = e]
  <2>1. PICK t \in NewThreads : thread' = [thread EXCEPT ![e] = t] /\ byThread' = [byThread EXCEPT ![t] = e]
    BY <1>3
  <2>2. t \in Thread
    BY DEF NewThreads
  <2>3. call' \in [Call -> Request]
    BY <1>3, MovesType DEF Ends, Inv
  <2>4. TypeOK'
    BY <1>1, <1>3, <2>1, <2>2, <2>3 DEF Inv, TypeOK
  <2>5. Requests'
    BY <1>1, <1>3, <2>4, EndMoves, SameAnswers DEF Inv
  <2>6. Children'
    BY <1>1, <1>3, <2>1, <2>4, <2>5, BindStep DEF Inv
  <2> QED BY <1>1, <2>4, <2>5, <2>6 DEF Safe
<1> QED BY <1>2, <1>3 DEF Started

LEMMA ResumedStep ==
  ASSUME Inv, NEW c \in Call, Resumed(c)
  PROVE  Safe /\ entries' = entries
<1> DEFINE e == call[c].child
           t == call[c].thread
<1>1. /\ e \in Child /\ call[c].step = "then" /\ call[c].kind = "resume" /\ t \in Thread
      /\ UNCHANGED <<entries, stage, thread, retire, process, admission, closed>>
  BY ChildOf DEF Resumed, HasChild, Inv, Requests, Named
<1>2. CASE Fails(c) /\ (UNCHANGED retiring \/ retiring' = [retiring EXCEPT ![e] = TRUE])
  BY <1>1, <1>2, FailsStep, PlainStep DEF Kept, Inv, TypeOK
<1>3. CASE Ends(c) /\ ScheduleRetire(e, Active(e))
  <2>1. Lets(e) /\ retiring' \in [Child -> BOOLEAN]
    BY <1>3, RetireStep DEF Inv
  <2>2. Shrinks /\ byThread' \in [Thread -> Child \cup {None}] /\ close' \in [Child -> CLOSES]
    BY <1>1, <2>1, LetsStep
  <2>3. call' \in [Call -> Request]
    BY <1>3, MovesType DEF Ends, Inv
  <2>4. TypeOK'
    BY <1>1, <2>1, <2>2, <2>3 DEF Inv, TypeOK
  <2>5. Requests' /\ \A d \in Call : Move(d)
    BY <1>1, <1>3, <2>4, EndMoves, SameAnswers DEF Inv
  <2> QED BY <1>1, <2>2, <2>4, <2>5, PlainStep DEF Plain
<1>4. CASE Open(e) /\ byThread' = [byThread EXCEPT ![t] = e] /\ Ends(c) /\ UNCHANGED <<close, retiring>>
  <2>1. call' \in [Call -> Request]
    BY <1>4, MovesType DEF Ends, Inv
  <2>2. TypeOK'
    BY <1>1, <1>4, <2>1 DEF Inv, TypeOK
  <2>3. Requests' /\ \A d \in Call : Move(d)
    BY <1>1, <1>4, <2>2, EndMoves, SameAnswers DEF Inv
  <2>4. CASE closed
    BY <1>1, <2>2, <2>3, <2>4 DEF Safe, Children, Slots, Owners, Resumes, Evicts, Starts, OpenChildIsReachable
  <2>5. CASE ~closed
    <3>1. e \in entries /\ thread[e] = t
      BY <1>1, <1>4, <2>5 DEF Inv, Children, Slots, Resumes, AtWork, Open
    <3>2. byThread[t] = e
      BY <1>1, <1>4, <2>5, <3>1, NamesAssumption DEF Inv, Children, OpenChildIsReachable
    <3>3. byThread' = byThread
      BY <1>1, <1>4, <3>2 DEF Inv, TypeOK
    <3>4. Shrinks
      BY <1>1, <1>4, <3>3 DEF Shrinks
    <3> QED BY <1>1, <2>2, <2>3, <3>4, PlainStep DEF Plain
  <2> QED BY <2>4, <2>5
<1> QED BY <1>2, <1>3, <1>4 DEF Resumed

----------------------------------------------------------------------------
(* The steps of a child *)

\* Such a step closes children, or lets some go, and keeps settled ones settled.
LEMMA ChildStep ==
  ASSUME Inv, TypeOK', Unmoved, Shrinks, \A e \in Child : stage[e] \in SETTLED => stage'[e] \in SETTLED
  PROVE  Plain
BY NoneMoves DEF Plain, Inv

\* A child that settles, and loses its thread at most.
LEMMA SettlesStep ==
  ASSUME Inv, NEW e \in Child, NEW quarantined \in BOOLEAN, Settles(e, quarantined),
         close[e] # "confirmed" \/ stage[e] # "gone",
         byThread' = byThread \/ byThread' = Unmap(e), process' \in [Child -> BOOLEAN]
  PROVE  Plain
<1>1. TypeOK'
  BY DEF Settles, Inv, TypeOK, Unmap, STAGES, CLOSES
<1>2. /\ \A f \in Child : close'[f] = (IF f # e THEN close[f] ELSE IF quarantined THEN "unconfirmed" ELSE "confirmed")
      /\ \A f \in Child : stage'[f] = IF f # e THEN stage[f] ELSE "gone"
      /\ \A f \in Child : f # e => thread'[f] = thread[f]
      /\ entries' = IF quarantined THEN entries ELSE entries \ {e}
      /\ closed' = closed
  BY DEF Settles, Inv, TypeOK
<1>3. \A f \in Child : stage[f] \in SETTLED => stage'[f] \in SETTLED
  BY <1>2 DEF SETTLED
<1>4. Shrinks
  BY <1>2 DEF Shrinks, Unmap, Inv, TypeOK
<1> QED BY <1>1, <1>3, <1>4, ChildStep DEF Settles, Unmoved

LEMMA MadeStep ==
  ASSUME Inv, NEW e \in Child, Made(e)
  PROVE  Plain
<1>1. process' \in [Child -> BOOLEAN] /\ stage[e] = "making"
  BY DEF Made, Inv, TypeOK
<1>2. CASE stage' = [stage EXCEPT ![e] = "starting"] /\ UNCHANGED <<entries, thread, retire, retiring, close, byThread, admission, call, closed>>
  <2>1. TypeOK'
    BY <1>1, <1>2 DEF Inv, TypeOK, STAGES
  <2>2. Shrinks /\ \A f \in Child : stage[f] \in SETTLED => stage'[f] \in SETTLED
    BY <1>1, <1>2 DEF Inv, TypeOK, Shrinks, SETTLED
  <2> QED BY <1>2, <2>1, <2>2, ChildStep DEF Unmoved
<1>3. CASE Breaks(e, FALSE)
  BY <1>1, <1>3, SettlesStep DEF Breaks
<1>4. CASE Breaks(e, close[e] = "unconfirmed")
  <2>1. (close[e] = "unconfirmed") \in BOOLEAN
    OBVIOUS
  <2> QED BY <1>1, <1>4, <2>1, SettlesStep DEF Breaks
<1> QED BY <1>2, <1>3, <1>4 DEF Made

LEMMA StartFailsStep ==
  ASSUME Inv, NEW e \in Child, StartFails(e)
  PROVE  Plain
<1>1. stage[e] # "gone"
  BY DEF StartFails
<1>2. process' \in [Child -> BOOLEAN]
  BY DEF StartFails, Inv, TypeOK
<1> QED BY <1>1, <1>2, SettlesStep DEF StartFails, Breaks

LEMMA ClosedStep ==
  ASSUME Inv, NEW e \in Child, Closed(e)
  PROVE  Plain
<1>1. close[e] = "closing" /\ byThread' = byThread
  BY DEF Closed
<1>2. ASSUME NEW running \in Stopped(e), process' = [process EXCEPT ![e] = running], Settles(e, running)
      PROVE  Plain
  <2>1. running \in BOOLEAN /\ process' \in [Child -> BOOLEAN]
    BY <1>2 DEF Stopped, Inv, TypeOK
  <2> QED BY <1>1, <1>2, <2>1, SettlesStep
<1>3. CASE Settles(e, FALSE) /\ process' \in [Child -> BOOLEAN]
  BY <1>1, <1>3, SettlesStep
<1>4. ASSUME NEW running \in BOOLEAN, process' = [process EXCEPT ![e] = running] PROVE process' \in [Child -> BOOLEAN]
  BY <1>4 DEF Inv, TypeOK
<1>5. UNCHANGED process => process' \in [Child -> BOOLEAN]
  BY DEF Inv, TypeOK
<1> QED BY <1>2, <1>3, <1>4, <1>5 DEF Closed

\* The app-server goes on, or ends, by itself.
LEMMA ServerStep ==
  ASSUME Inv, NEW e \in Child, Launched(e) \/ Probed(e) \/ Works(e) \/ Exits(e)
  PROVE  Plain
<1>1. /\ UNCHANGED <<entries, thread, retire, retiring, close, byThread, admission, call, closed>>
      /\ process' \in [Child -> BOOLEAN]
      /\ \/ stage' = stage
         \/ /\ stage[e] \in {"starting", "probing", "idle", "busy"}
            /\ \/ stage[e] = "starting" /\ stage' = [stage EXCEPT ![e] = "probing"]
               \/ stage' = [stage EXCEPT ![e] = "ready"]
               \/ stage' = [stage EXCEPT ![e] = "busy"]
               \/ stage' = [stage EXCEPT ![e] = "idle"]
  BY DEF Launched, Probed, Works, Exits, child, Inv, TypeOK
<1>2. TypeOK'
  BY <1>1 DEF Inv, TypeOK, STAGES
<1>3. Shrinks /\ \A f \in Child : stage[f] \in SETTLED => stage'[f] \in SETTLED
  BY <1>1 DEF Inv, TypeOK, Shrinks, SETTLED
<1> QED BY <1>1, <1>2, <1>3, ChildStep DEF Unmoved

LEMMA FailedStep ==
  ASSUME Inv, NEW e \in Child, Failed(e)
  PROVE  Plain
<1>1. Lets(e) /\ retiring' \in [Child -> BOOLEAN]
  <2>1. CASE ScheduleRetire(e, {})
    BY <2>1, RetireStep DEF Inv
  <2>2. CASE Unreleased /\ UNCHANGED retiring
    BY <2>2 DEF Unreleased, Lets, Inv, TypeOK
  <2> QED BY <2>1, <2>2 DEF Failed
<1>2. /\ stage' \in [Child -> STAGES] /\ retire' \in [Child -> BOOLEAN] /\ process' \in [Child -> BOOLEAN]
      /\ \A f \in Child : stage'[f] # "gone" => stage[f] # "gone"
      /\ \A f \in Child : stage[f] \in SETTLED => stage'[f] \in SETTLED
  BY DEF Failed, Inv, TypeOK, STAGES, SETTLED
<1>3. Shrinks /\ byThread' \in [Thread -> Child \cup {None}] /\ close' \in [Child -> CLOSES]
  BY <1>1, <1>2, LetsStep DEF Failed
<1>4. TypeOK'
  BY <1>1, <1>2, <1>3 DEF Failed, Inv, TypeOK
<1> QED BY <1>2, <1>3, <1>4, ChildStep DEF Failed, Unmoved

LEMMA ReleaseIdleStep ==
  ASSUME Inv, NEW e \in Child, ReleaseIdle(e)
  PROVE  Plain
<1>1. Shrinks /\ byThread' \in [Thread -> Child \cup {None}] /\ close' \in [Child -> CLOSES]
  BY LetsStep DEF ReleaseIdle, Lets, child
<1>2. TypeOK'
  BY <1>1 DEF ReleaseIdle, Inv, TypeOK, child
<1> QED BY <1>1, <1>2, ChildStep DEF ReleaseIdle, Unmoved, child

LEMMA FactoryLateStep ==
  ASSUME Inv, NEW e \in Child, FactoryLate(e)
  PROVE  Plain
<1>1. TypeOK'
  BY DEF FactoryLate, Inv, TypeOK, child, CLOSES
<1>2. Shrinks
  BY DEF FactoryLate, Inv, TypeOK, child, Shrinks
<1> QED BY <1>1, <1>2, ChildStep DEF FactoryLate, Unmoved, child

LEMMA RecycleIdleStep ==
  ASSUME Inv, RecycleIdle
  PROVE  Plain
<1> DEFINE idle == {e \in entries : Idle(e)}
<1>1. /\ byThread' = [t \in Thread |-> IF byThread[t] \in idle /\ thread[byThread[t]] = t THEN None ELSE byThread[t]]
      /\ close' = [e \in Child |-> IF e \in idle THEN CloseOf(e) ELSE close[e]]
      /\ UNCHANGED <<entries, child, process, admission, call, closed>>
  BY DEF RecycleIdle
<1>2. \A e \in idle : e \in Child /\ close[e] = "open" /\ CloseOf(e) \in {"waiting", "closing"}
  BY DEF Idle, CloseOf, Open, Inv, TypeOK
<1> HIDE DEF idle
<1>3. TypeOK'
  BY <1>1, <1>2 DEF Inv, TypeOK, child, CLOSES
<1>4. Shrinks
  BY <1>1, <1>2 DEF Inv, TypeOK, child, Shrinks
<1> QED BY <1>1, <1>3, <1>4, ChildStep DEF Unmoved, child

\* Once the pool is closed nothing more is said of its children.
LEMMA CloseStep ==
  ASSUME Inv, ClosePool \/ PoolClosed
  PROVE  Safe /\ entries' \subseteq entries
<1>1. closed' /\ entries' \subseteq entries /\ Unmoved /\ UNCHANGED <<child, process>>
  BY DEF ClosePool, PoolClosed, Unmoved
<1>2. TypeOK'
  BY <1>1 DEF ClosePool, PoolClosed, CloseOf, Inv, TypeOK, child, CLOSES, Unmoved
<1>3. Requests'
  BY <1>1, NoneMoves DEF Inv, child
<1>4. Children'
  BY <1>1 DEF Children, Slots, Owners, Resumes, Evicts, Starts, OpenChildIsReachable
<1> QED BY <1>1, <1>2, <1>3, <1>4 DEF Safe

----------------------------------------------------------------------------
(* The invariants of the pool *)

LEMMA InitInv == Init => Inv
<1> SUFFICES ASSUME Init PROVE Inv
  OBVIOUS
<1>1. TypeOK
  <2>1. call \in [Call -> Request]
    BY DEF Init, NoRequest, Request, STEPS
  <2>2. admission \in Seq(Call)
    BY EmptySeq DEF Init
  <2> QED BY <2>1, <2>2 DEF Init, TypeOK, STAGES, CLOSES
<1>2. Requests
  BY DEF Init, Requests, Lock, Named, Once, Answers, NoRequest, HasChild
<1>3. Children
  BY DEF Init, Children, Slots, Owners, Owner, Resumes, Evicts, Starts, OpenChildIsReachable, NoRequest, AtWork
<1> QED BY <1>1, <1>2, <1>3 DEF Inv

LEMMA NextInv ==
  ASSUME Inv, [Next]_vars
  PROVE  Inv' /\ (entries' \subseteq entries \/ Grows)
<1>1. CASE UNCHANGED vars
  <2>1. TypeOK' /\ Requests' /\ Children'
    BY <1>1 DEF vars, child, Inv, TypeOK, Requests, Lock, First, Named, Once, Answers, Children, Slots, Owners, Owner,
                Open, Resumes, Evicts, Starts, OpenChildIsReachable
  <2> QED BY <1>1, <2>1 DEF vars, Inv
<1>2. ASSUME NEW c \in Call, NEW t \in Thread, Resume(c, t) \/ Use(c, t)
      PROVE  Safe /\ entries' \subseteq entries
  BY <1>2, ResumeStep, UseStep, PlainStep
<1>3. ASSUME NEW c \in Call, Start(c) \/ Ensure(c) \/ Invoke(c) \/ Return(c) \/ Released(c)
      PROVE  Safe /\ entries' \subseteq entries
  BY <1>3, StartStep, EnsureStep, InvokeStep, ReturnStep, ReleasedStep, PlainStep
<1>4. ASSUME NEW c \in Call, Started(c) \/ Resumed(c)
      PROVE  Safe /\ entries' \subseteq entries
  BY <1>4, StartedStep, ResumedStep
<1>5. ASSUME NEW c \in Call, Admission(c)
      PROVE  Safe /\ (entries' \subseteq entries \/ Grows)
  BY <1>5, AdmitStep, EvictedStep DEF Admission
<1>6. ASSUME NEW e \in Child, Made(e) \/ Launched(e) \/ Probed(e) \/ StartFails(e) \/ Failed(e) \/ Exits(e)
      PROVE  Safe /\ entries' \subseteq entries
  BY <1>6, MadeStep, ServerStep, StartFailsStep, FailedStep, PlainStep
<1>7. ASSUME NEW e \in Child, Works(e) \/ ReleaseIdle(e) \/ Closing(e)
      PROVE  Safe /\ entries' \subseteq entries
  BY <1>7, ServerStep, ReleaseIdleStep, FactoryLateStep, ClosedStep, PlainStep DEF Closing
<1>8. ASSUME RecycleIdle \/ ClosePool \/ PoolClosed
      PROVE  Inv' /\ (entries' \subseteq entries \/ Grows)
  <2>1. CASE RecycleIdle
    <3>1. Plain
      BY <2>1, RecycleIdleStep
    <3> QED BY <3>1, PlainStep DEF Safe, Inv
  <2>2. CASE ClosePool \/ PoolClosed
    <3>1. Safe /\ entries' \subseteq entries
      BY <2>2, CloseStep
    <3> QED BY <3>1 DEF Safe, Inv
  <2> QED BY <1>8, <2>1, <2>2
<1>9. CASE Next
  <2>1. CASE \E c \in Call, t \in Thread : Resume(c, t) \/ Use(c, t)
    BY <1>2, <2>1 DEF Safe, Inv
  <2>2. CASE \E c \in Call : Start(c) \/ Admission(c) \/ Ensure(c) \/ Invoke(c) \/ Return(c)
    BY <1>3, <1>5, <2>2 DEF Safe, Inv
  <2>3. CASE \E c \in Call : Started(c) \/ Resumed(c) \/ Released(c)
    BY <1>3, <1>4, <2>3 DEF Safe, Inv
  <2>4. CASE \E e \in Child : Made(e) \/ Launched(e) \/ Probed(e) \/ StartFails(e) \/ Failed(e) \/ Exits(e)
    BY <1>6, <2>4 DEF Safe, Inv
  <2>5. CASE \E e \in Child : Works(e) \/ ReleaseIdle(e) \/ Closing(e)
    BY <1>7, <2>5 DEF Safe, Inv
  <2> QED BY <1>8, <1>9, <2>1, <2>2, <2>3, <2>4, <2>5 DEF Next
<1> QED BY <1>1, <1>9

LEMMA AlwaysInv == Spec => []Inv
<1>1. Inv /\ [Next]_vars => Inv'
  BY NextInv
<1> QED BY <1>1, InitInv, PTL DEF Spec

\* Every variable of the pool keeps its type in every behaviour.
THEOREM PoolTypeCorrect == Spec => []TypeOK
<1>1. Inv => TypeOK
  BY DEF Inv
<1> QED BY <1>1, AlwaysInv, PTL

\* No more than Limit children hold a slot: a child enters under the admission
\* lock, after the room was looked at again.
THEOREM CapacityKept == Spec => []Capacity
<1>1. Init => Capacity
  BY LimitAssumption, FS_EmptySet DEF Init, Capacity
<1>2. Inv /\ Capacity /\ [Next]_vars => Capacity'
  <2>1. SUFFICES ASSUME Inv, Capacity, [Next]_vars PROVE Capacity'
    OBVIOUS
  <2>2. IsFiniteSet(entries) /\ Cardinality(entries) \in Nat
    <3>1. entries \subseteq Child
      BY <2>1 DEF Inv, TypeOK
    <3>2. IsFiniteSet(Child)
      BY LimitAssumption
    <3>3. IsFiniteSet(entries)
      BY <3>1, <3>2, FS_Subset
    <3> QED BY <3>3, FS_CardinalityType
  <2>3. CASE entries' \subseteq entries
    <3>1. Cardinality(entries') <= Cardinality(entries) /\ Cardinality(entries') \in Nat
      BY <2>2, <2>3, FS_Subset, FS_CardinalityType
    <3> QED BY <2>1, <2>2, <3>1, LimitAssumption DEF Capacity
  <2>4. CASE Grows
    <3>1. PICK e \in Child : Cardinality(entries) < Limit /\ entries' = entries \cup {e}
      BY <2>4 DEF Grows, Room
    <3>2. Cardinality(entries \cup {e}) <= Cardinality(entries) + 1 /\ Cardinality(entries \cup {e}) \in Nat
      <4>1. Cardinality(entries \cup {e}) = Cardinality(entries) \/ Cardinality(entries \cup {e}) = Cardinality(entries) + 1
        BY <2>2, FS_AddElement, Zenon
      <4> QED BY <2>2, <4>1
    <3> QED BY <2>2, <3>1, <3>2, LimitAssumption DEF Capacity
  <2> QED BY <2>1, <2>3, <2>4, NextInv
<1> QED BY <1>1, <1>2, AlwaysInv, PTL DEF Spec

\* An open child is always found under its thread: no thread has two of them.
THEOREM ChildrenReachable == Spec => []OpenChildIsReachable
<1>1. Inv => OpenChildIsReachable
  BY DEF Inv, Children
<1> QED BY <1>1, AlwaysInv, PTL

\* An app-server that is connected, or that adapter.close could not see end, has
\* its slot.
THEOREM ProcessesHoldSlots == Spec => []KnownProcessHoldsSlot
<1>1. Inv => KnownProcessHoldsSlot
  BY DEF Inv, Children, Slots, KnownProcessHoldsSlot
<1> QED BY <1>1, AlwaysInv, PTL

----------------------------------------------------------------------------
(* What no step does *)

\* Only a request under way, of an open child, gets to wait for an answer, and
\* that step closes nothing.
LEMMA Asks ==
  ASSUME Inv, [Next]_vars, NEW c \in Call, call[c].step # "answer", call'[c].step = "answer"
  PROVE  Invoke(c) /\ MayInvoke(call[c].child) /\ call'[c].child = call[c].child /\ Unreleased
<1>0. call \in [Call -> Request]
  BY DEF Inv, TypeOK
<1>1. ASSUME NEW d \in Call, NEW request, Becomes(d, request)
      PROVE  d = c /\ request.step = "answer" /\ call'[c] = request
  BY <1>0, <1>1 DEF Becomes
<1>2. ~UNCHANGED call
  OBVIOUS
<1>3. /\ NoRequest.step # "answer"
      /\ \A d \in Call, step \in STEPS : step # "answer" => [call[d] EXCEPT !.step = step].step # "answer"
      /\ \A e : \A d \in Call, step \in {"child", "eviction"} : [call[d] EXCEPT !.step = step, !.child = e].step # "answer"
      /\ \A e : \A d \in Call : [call[d] EXCEPT !.step = "child", !.child = e, !.created = TRUE].step # "answer"
      /\ \A d \in Call, ok \in BOOLEAN : [call[d] EXCEPT !.step = "then", !.ok = ok].step # "answer"
  BY <1>0 DEF NoRequest, Request
<1>4. ASSUME NEW d \in Call, Ends(d) PROVE FALSE
  BY <1>1, <1>3, <1>4 DEF Ends
<1>5. ASSUME NEW d \in Call, Fails(d) PROVE FALSE
  BY <1>1, <1>3, <1>4, <1>5 DEF Fails, Goes, STEPS
<1>6. ASSUME NEW d \in Call, Makes(d) PROVE FALSE
  <2>1. ASSUME NEW e, Enters(d, e) PROVE FALSE
    BY <1>1, <1>3, <2>1 DEF Enters
  <2>2. ASSUME NEW e, GetsChild(d, "eviction", e) PROVE FALSE
    BY <1>1, <1>3, <2>2 DEF GetsChild
  <2> QED BY <1>4, <1>6, <2>1, <2>2 DEF Makes
<1>7. ASSUME NEW d \in Call, Admission(d) PROVE FALSE
  BY <1>1, <1>3, <1>4, <1>6, <1>7 DEF Admission, Admit, Evicted, GetsChild
<1>8. ASSUME NEW d \in Call, NEW t \in Thread, Resume(d, t) \/ Use(d, t) PROVE FALSE
  <2>1. [NoRequest EXCEPT !.kind = "resume", !.step = "admission", !.thread = t].step # "answer"
    BY DEF NoRequest
  <2>2. [NoRequest EXCEPT !.thread = t, !.step = "child", !.child = Owner(t)].step # "answer"
    BY DEF NoRequest
  <2> QED BY <1>1, <1>8, <2>1, <2>2 DEF Resume, Use, Arrives
<1>9. ASSUME NEW d \in Call, Start(d) PROVE FALSE
  <2>1. [NoRequest EXCEPT !.kind = "start", !.step = "admission", !.created = TRUE].step # "answer"
    BY DEF NoRequest
  <2> QED BY <1>1, <1>9, <2>1 DEF Start, Arrives
<1>10. ASSUME NEW d \in Call, Return(d) PROVE FALSE
  <2>1. PICK ok \in BOOLEAN :
          IF call[d].kind = "use" THEN Ends(d) ELSE Becomes(d, [call[d] EXCEPT !.step = "then", !.ok = ok])
    BY <1>10 DEF Return
  <2> QED BY <1>1, <1>3, <1>4, <2>1
<1>11. ASSUME NEW d \in Call, Ensure(d) \/ Started(d) \/ Resumed(d) \/ Released(d) PROVE FALSE
  BY <1>2, <1>4, <1>5, <1>11 DEF Ensure, Started, Resumed, Released
<1>12. ASSUME NEW e \in Child, \/ Made(e) \/ Launched(e) \/ Probed(e) \/ StartFails(e) \/ Failed(e) \/ Exits(e)
                               \/ Works(e) \/ ReleaseIdle(e) \/ Closing(e) PROVE FALSE
  BY <1>2, <1>12 DEF Made, Launched, Probed, StartFails, Failed, Exits, Works, ReleaseIdle, Closing, Closed, FactoryLate,
                     Breaks, Settles
<1>13. ~(RecycleIdle \/ ClosePool \/ PoolClosed)
  BY <1>2 DEF RecycleIdle, ClosePool, PoolClosed
<1>14. PICK d \in Call : Invoke(d)
  BY <1>2, <1>7, <1>8, <1>9, <1>10, <1>11, <1>12, <1>13 DEF Next, vars
<1>15. MayInvoke(call[d].child) /\ Goes(d, "answer") /\ Unreleased
  BY <1>4, <1>5, <1>14 DEF Invoke
<1>16. d = c /\ call'[c] = [call[c] EXCEPT !.step = "answer"]
  BY <1>1, <1>15 DEF Goes
<1>17. call'[c].child = call[c].child
  BY <1>0, <1>16 DEF Request
<1> QED BY <1>14, <1>15, <1>16, <1>17

\* No request goes to an app-server that is being closed, although its child was
\* awaited before.
THEOREM ClosingIsNotCalled == Spec => NoCallOfAClosingChild
<1>1. Inv /\ [Next]_vars =>
        \A c \in Call : (call[c].step # "answer" /\ call'[c].step = "answer") => close'[call'[c].child] = "open"
  BY Asks DEF MayInvoke, Open, Unreleased
<1>2. UNCHANGED vars =>
        \A c \in Call : (call[c].step # "answer" /\ call'[c].step = "answer") => close'[call'[c].child] = "open"
  BY DEF vars
<1> QED BY <1>1, <1>2, AlwaysInv, PTL DEF Spec, NoCallOfAClosingChild

Working(e) == Active(e) # {} \/ stage[e] = "busy"
Uncalled(e) == \A c \in Call : ~(call'[c].step = "answer" /\ call'[c].child = e)
Spared(e) == \/ closed' \/ \E c \in Call : call[c].child = e /\ call'[c].step = "release"
             \/ Uncalled(e) /\ (retire'[e] \/ ~Working(e))
Spares == \A e \in entries : (Open(e) /\ close'[e] # "open") => Spared(e)

\* A release closes at most its own child.
LEMMA SparesOthers ==
  ASSUME Inv, NEW e, Lets(e), e \in entries /\ Open(e) /\ close'[e] # "open" => Spared(e)
  PROVE  Spares
<1>1. \A f \in entries : f # e => close'[f] = close[f]
  BY ReleaseStep DEF Lets, Inv, TypeOK
<1> QED BY <1>1 DEF Spares, Open

\* The last call of a child is over: nobody else waits.
LEMMA LastCall ==
  ASSUME TypeOK, NEW c \in Call, NEW e, Active(e) \ {c} = {},
         \E request : Becomes(c, request) /\ request.step # "answer"
  PROVE  Uncalled(e)
<1>1. \A d \in Call \ {c} : call'[d] = call[d] /\ ~(call[d].step = "answer" /\ call[d].child = e)
  BY DEF Becomes, TypeOK, Active
<1>2. call'[c].step # "answer"
  BY DEF Becomes, TypeOK
<1> QED BY <1>1, <1>2 DEF Uncalled

LEMMA SparesFails ==
  ASSUME Inv, NEW c \in Call, call[c].step \in {"child", "then"}, Fails(c)
  PROVE  Spares
<1>1. CASE Release(call[c].child) /\ Goes(c, "release")
  <2>1. call'[c].step = "release"
    BY <1>1, ChildOf DEF Goes, Becomes, Request
  <2>2. Spared(call[c].child)
    BY <2>1 DEF Spared
  <2> QED BY <1>1, <2>2, SparesOthers DEF Lets
<1>2. CASE Unreleased
  BY <1>2 DEF Unreleased, Spares, Open
<1> QED BY <1>1, <1>2 DEF Fails

LEMMA SparesNext ==
  ASSUME Inv, [Next]_vars
  PROVE  Spares
<1>0. TypeOK /\ call \in [Call -> Request]
  BY DEF Inv, TypeOK
<1>1. ASSUME UNCHANGED close PROVE Spares
  BY <1>1 DEF Spares, Open
<1>2. ASSUME NEW e, Idle(e), Release(e), Uncalled(e) PROVE Spares
  <2>1. ~Working(e)
    BY <1>2 DEF Idle, ProvesIdle, Working
  <2>2. Spared(e)
    BY <1>2, <2>1 DEF Spared
  <2> QED BY <1>2, <2>2, SparesOthers DEF Lets
<1>3. ASSUME NEW c \in Call, Makes(c) PROVE Spares
  <2>1. ASSUME NEW e \in Unused(c), Enters(c, e) PROVE Spares
    <3>1. \A f \in entries : close'[f] = close[f]
      BY <2>1 DEF Enters, Unused, Inv, TypeOK
    <3> QED BY <3>1 DEF Spares, Open
  <2>2. ASSUME NEW e \in entries, Idle(e), Release(e), GetsChild(c, "eviction", e) PROVE Spares
    <3>1. [call[c] EXCEPT !.step = "eviction", !.child = e].step # "answer"
      BY <1>0 DEF Request
    <3>2. Active(e) \ {c} = {}
      BY <2>2 DEF Idle
    <3>3. Uncalled(e)
      BY <1>0, <2>2, <3>1, <3>2, LastCall DEF GetsChild
    <3> QED BY <1>2, <2>2, <3>3
  <2> QED BY <1>1, <1>3, <2>1, <2>2 DEF Makes
<1>4. ASSUME NEW c \in Call, Admission(c) PROVE Spares
  BY <1>1, <1>3, <1>4 DEF Admission, Admit, Evicted
<1>5. ASSUME NEW c \in Call, Invoke(c) PROVE Spares
  BY <1>1, <1>5, SparesFails DEF Invoke, Unreleased
<1>6. ASSUME NEW c \in Call, Return(c) PROVE Spares
  <2> DEFINE e == call[c].child
             rest == Active(e) \ {c}
  <2>1. \/ retire'[e] /\ rest = {} /\ ScheduleRetire(e, rest)
        \/ Unreleased
    BY <1>6 DEF Return
  <2>2. PICK ok \in BOOLEAN :
          IF call[c].kind = "use" THEN Ends(c) ELSE Becomes(c, [call[c] EXCEPT !.step = "then", !.ok = ok])
    BY <1>6 DEF Return
  <2>3. CASE retire'[e] /\ rest = {} /\ ScheduleRetire(e, rest)
    <3>1. NoRequest.step # "answer" /\ [call[c] EXCEPT !.step = "then", !.ok = ok].step # "answer"
      BY <1>0 DEF NoRequest, Request
    <3>2. \E request : Becomes(c, request) /\ request.step # "answer"
      BY <2>2, <3>1 DEF Ends
    <3>3. Spared(e)
      BY <1>0, <2>3, <3>2, LastCall DEF Spared
    <3> QED BY <2>3, <3>3, RetireStep, SparesOthers DEF Inv
  <2>4. CASE Unreleased
    BY <1>1, <2>4 DEF Unreleased
  <2> QED BY <2>1, <2>3, <2>4
<1>7. ASSUME NEW c \in Call, Started(c) PROVE Spares
  BY <1>1, <1>7, SparesFails DEF Started
<1>8. ASSUME NEW c \in Call, Resumed(c) PROVE Spares
  <2> DEFINE e == call[c].child
  <2>1. CASE Fails(c)
    BY <1>8, <2>1, SparesFails DEF Resumed
  <2>2. CASE (retire[e] \/ ~Open(e)) /\ Ends(c) /\ ScheduleRetire(e, Active(e))
    <3>1. Lets(e)
      BY <2>2, RetireStep DEF Inv
    <3>2. retire' = retire
      BY <1>8 DEF Resumed
    <3>3. Active(e) # {} => Unreleased
      BY <2>2 DEF ScheduleRetire
    <3>4. Active(e) = {} => Uncalled(e)
      <4>1. NoRequest.step # "answer"
        BY DEF NoRequest
      <4> QED BY <1>0, <2>2, <4>1, LastCall DEF Ends
    <3>5. e \in entries /\ Open(e) /\ close'[e] # "open" => Spared(e)
      BY <2>2, <3>2, <3>3, <3>4 DEF Spared, Unreleased, Open
    <3> QED BY <3>1, <3>5, SparesOthers
  <2> QED BY <1>1, <1>8, <2>1, <2>2 DEF Resumed
<1>9. ASSUME NEW e \in Child, NEW quarantined, Settles(e, quarantined),
             ~Open(e) \/ stage[e] \in {"making", "starting", "probing"} PROVE Spares
  <2>1. \A f \in entries : f # e => close'[f] = close[f]
    BY <1>9 DEF Settles, Inv, TypeOK
  <2>2. stage[e] \in {"making", "starting", "probing"} => Active(e) = {} /\ ~Working(e)
    BY DEF Working, Active, Inv, Requests, Answers
  <2>3. stage[e] \in {"making", "starting", "probing"} => Spared(e)
    BY <1>9, <2>2 DEF Spared, Uncalled, Active, Settles
  <2> QED BY <1>9, <2>1, <2>3 DEF Spares, Open
<1>10. ASSUME NEW e \in Child, Made(e) \/ StartFails(e) PROVE Spares
  BY <1>1, <1>9, <1>10 DEF Made, StartFails, Breaks
<1>11. ASSUME NEW e \in Child, Failed(e) PROVE Spares
  <2>1. retire'[e]
    BY <1>11 DEF Failed, Inv, TypeOK
  <2>2. (Active(e) = {} /\ Lets(e)) \/ UNCHANGED close
    BY <1>11, RetireStep DEF Failed, Unreleased, Inv
  <2>3. Active(e) = {} => Spared(e)
    BY <1>11, <2>1 DEF Spared, Uncalled, Active, Failed
  <2> QED BY <1>1, <2>2, <2>3, SparesOthers
<1>12. ASSUME NEW e \in Child, ReleaseIdle(e) PROVE Spares
  BY <1>2, <1>12 DEF ReleaseIdle, Uncalled, Idle, Active
<1>13. ASSUME NEW e \in Child, Closing(e) PROVE Spares
  <2>1. CASE FactoryLate(e)
    BY <2>1 DEF FactoryLate, Spares, Open, Inv, TypeOK
  <2>2. CASE Closed(e)
    BY <1>9, <2>2 DEF Closed, Open
  <2> QED BY <1>13, <2>1, <2>2 DEF Closing
<1>14. ASSUME RecycleIdle PROVE Spares
  <2>1. \A e \in entries : ~Idle(e) => close'[e] = close[e]
    BY <1>14 DEF RecycleIdle, Inv, TypeOK
  <2>2. \A e \in entries : Idle(e) => ~Working(e) /\ Uncalled(e)
    BY <1>14 DEF Idle, ProvesIdle, Working, Uncalled, Active, RecycleIdle
  <2> QED BY <2>1, <2>2 DEF Spares, Spared, Open
<1>15. ASSUME ClosePool \/ PoolClosed PROVE Spares
  BY <1>1, <1>15 DEF ClosePool, PoolClosed, Spares, Spared
<1>16. ASSUME NEW c \in Call, NEW t \in Thread, Resume(c, t) \/ Use(c, t) PROVE Spares
  BY <1>1, <1>16 DEF Resume, Use
<1>17. ASSUME NEW c \in Call, Start(c) \/ Ensure(c) \/ Released(c) PROVE Spares
  BY <1>1, <1>17 DEF Start, Ensure, Released
<1>18. ASSUME NEW e \in Child, Launched(e) \/ Probed(e) \/ Exits(e) \/ Works(e) PROVE Spares
  BY <1>1, <1>18 DEF Launched, Probed, Exits, Works
<1>19. CASE UNCHANGED vars
  BY <1>1, <1>19 DEF vars
<1>20. CASE Next
  BY <1>4, <1>5, <1>6, <1>7, <1>8, <1>10, <1>11, <1>12, <1>13, <1>14, <1>15, <1>16, <1>17, <1>18, <1>20 DEF Next
<1> QED BY <1>19, <1>20

\* A child is never closed under a call it has to answer, nor with a turn under
\* way for room, quiet or a new sign-in: only after its app-server failed or gave
\* a fatal answer, or when its maker failed or the pool closes.
THEOREM OnlyIdleChildrenGo == Spec => OnlyIdleGoes
<1>1. Inv /\ [Next]_vars => Spares
  BY SparesNext
<1>2. Spares =>
        \A e \in entries : (Open(e) /\ close'[e] # "open") =>
          \/ closed' \/ \E c \in Call : call[c].child = e /\ call'[c].step = "release"
          \/ Active(e)' = {} /\ (retire'[e] \/ (Active(e) = {} /\ stage[e] # "busy"))
  <2>1. ASSUME NEW e \in entries, Uncalled(e) PROVE Active(e)' = {}
    BY <2>1 DEF Uncalled, Active
  <2> QED BY <2>1 DEF Spares, Spared, Working
<1> QED BY <1>1, <1>2, AlwaysInv, PTL DEF Spec, OnlyIdleGoes

============================================================================
