------------------------------ MODULE CodexPool ------------------------------
(***************************************************************************)
(* The pool of Codex app-servers (server/codex-native-pool.js).  Every     *)
(* loaded thread has an app-server of its own, started when it is needed   *)
(* and let go when it is idle; at most Limit of them hold a slot.          *)
(*                                                                         *)
(* Interleaving at the code's awaits: the requests of browsers, Goals and  *)
(* the composer queue, the admission lock, the closing of children, and    *)
(* the app-servers themselves (server/codex-native-history-adapter.js and  *)
(* server/codex-app-server-transport.js), which start, work, fail and exit *)
(* by themselves.                                                          *)
(***************************************************************************)
EXTENDS Naturals, Sequences, FiniteSets

CONSTANTS
  Child,  \* children (entries) that can be told apart at one time
  Thread, \* Codex threads
  Call,   \* requests to the pool at one time
  Limit   \* maxChildren

None == "none"
ASSUME NamesAssumption == None \notin Child \cup Thread \cup Call
ASSUME LimitAssumption == Limit \in Nat \ {0} /\ IsFiniteSet(Child)

VARIABLES
  entries,   \* the children that hold a slot
  stage,     \* how far a child is: its readyPromise, adapter and transport
  thread,    \* entry.threadId
  close,     \* entry.closeRequested, closePromise and closeResult
  retire,    \* entry.failed with entry.retireRequested
  retiring,  \* entry.retirePromise was made
  process,   \* the app-server's process is running
  byThread,  \* the child that owns a thread
  admission, \* admissionTail: who waits for the lock; the first one holds it
  call,      \* the requests
  closed     \* the pool is closed

child == <<stage, thread, retire, retiring>>
vars == <<entries, child, close, process, byThread, admission, call, closed>>

----------------------------------------------------------------------------
(* Types *)

\* Reserved (no readyPromise), making (the factory runs), starting (the adapter
\* launches its app-server), probing (it is connected and checked), then as the
\* app-server reports: ready (no thread yet), idle, busy (a turn, an approval, a
\* compaction or a state to reconcile); gone when its start or transport failed,
\* or its adapter was closed.
STAGES == {"reserved", "making", "starting", "probing", "ready", "idle", "busy", "gone"}
\* Open, waiting (for a pending factory), closing (adapter.close), confirmed, or
\* unconfirmed: quarantined.
CLOSES == {"open", "waiting", "closing", "confirmed", "unconfirmed"}
\* A request waits for admission, for an eviction, for its child (ensureChild),
\* for the child's answer, has it (then: the caller of invokeEntry goes on), or
\* waits for a release.
STEPS == {"off", "admission", "eviction", "child", "answer", "then", "release"}
Request == [step : STEPS, kind : {"start", "resume", "use"}, thread : Thread \cup {None},
            child : Child \cup {None}, created : BOOLEAN, ok : BOOLEAN]
NoRequest == [step |-> "off", kind |-> "use", thread |-> None, child |-> None, created |-> FALSE, ok |-> FALSE]

\* Every variable keeps its type.
TypeOK ==
  /\ entries \subseteq Child
  /\ stage \in [Child -> STAGES] /\ thread \in [Child -> Thread \cup {None}]
  /\ close \in [Child -> CLOSES]
  /\ retire \in [Child -> BOOLEAN] /\ retiring \in [Child -> BOOLEAN]
  /\ process \in [Child -> BOOLEAN]
  /\ byThread \in [Thread -> Child \cup {None}]
  /\ admission \in Seq(Call) /\ call \in [Call -> Request] /\ closed \in BOOLEAN

----------------------------------------------------------------------------
(* What the code asks of the children *)

\* entry.activeCalls
Active(e) == {c \in Call : call[c].step = "answer" /\ call[c].child = e}
Open(e) == close[e] = "open"

\* An app-server that is starting for a new thread has none to prove.
ProvesIdle(e) == stage[e] = "idle" \/ (stage[e] \in {"probing", "ready"} /\ thread[e] = None)

\* Mutant: a child with a call in flight passes for idle.
BugIdle(e) == Open(e) /\ ~retire[e] /\ ProvesIdle(e)
\* childIsBusy, negated: only an app-server that proves it is idle counts.
Idle(e) == Open(e) /\ ~retire[e] /\ Active(e) = {} /\ ProvesIdle(e)

\* byThread.get, with the test of closeRequested.
Owner(t) == IF byThread[t] # None /\ Open(byThread[t]) THEN byThread[t] ELSE None

\* removeEntry
Unmap(e) == [t \in Thread |-> IF t = thread[e] /\ byThread[t] = e /\ e \in entries THEN None ELSE byThread[t]]
\* closeEntry, up to its first await: it waits a moment for a pending factory.
CloseOf(e) == IF ~Open(e) THEN close[e] ELSE IF stage[e] = "making" THEN "waiting" ELSE "closing"
Release(e) == byThread' = Unmap(e) /\ close' = [close EXCEPT ![e] = CloseOf(e)]
Unreleased == UNCHANGED <<byThread, close>>

\* scheduleRetire, of a child that the requests in rest still use.
ScheduleRetire(e, rest) ==
  /\ retiring' = [retiring EXCEPT ![e] = TRUE]
  /\ IF retiring[e] \/ rest # {} THEN Unreleased ELSE Release(e)

Becomes(c, request) == call' = [call EXCEPT ![c] = request]
Ends(c) == Becomes(c, NoRequest)
Goes(c, step) == Becomes(c, [call[c] EXCEPT !.step = step])
GetsChild(c, step, e) == Becomes(c, [call[c] EXCEPT !.step = step, !.child = e])

\* What a new entry object is made of: a child that left the pool and that no
\* other request refers to.  What was left of it is forgotten.
Unused(c) == {e \in Child \ entries : \A d \in Call \ {c} : call[d].child # e}
\* A thread Codex has just started has an id of its own.
NewThreads == {t \in Thread : /\ byThread[t] = None /\ \A e \in entries : thread[e] # t
                              /\ \A c \in Call : call[c].thread # t}
Arrives(c, request) == /\ call[c].step = "off" /\ c = (CHOOSE d \in Call : call[d].step = "off")
                       /\ Becomes(c, request)

----------------------------------------------------------------------------
(* Requests: startThread, resumeThread and the calls of a loaded thread *)

Start(c) ==
  /\ Arrives(c, [NoRequest EXCEPT !.kind = "start", !.step = "admission", !.created = TRUE])
  /\ admission' = Append(admission, c)
  /\ UNCHANGED <<entries, child, close, process, byThread, closed>>

\* A second resume of a thread joins the first one (resumeInFlight).
Resume(c, t) ==
  /\ \A d \in Call : ~(call[d].kind = "resume" /\ call[d].thread = t)
  /\ ~closed
  /\ Arrives(c, [NoRequest EXCEPT !.kind = "resume", !.step = "admission", !.thread = t])
  /\ admission' = Append(admission, c)
  /\ UNCHANGED <<entries, child, close, process, byThread, closed>>

\* startTurn, steerTurn, compactThread, interruptTurn, respondApproval,
\* setThreadName, changeThreadGoal, speedStatus and the reads.
Use(c, t) ==
  /\ Owner(t) # None
  /\ Arrives(c, [NoRequest EXCEPT !.thread = t, !.step = "child", !.child = Owner(t)])
  /\ UNCHANGED <<entries, child, close, process, byThread, admission, closed>>

Enters(c, e) ==
  /\ entries' = entries \cup {e}
  /\ stage' = [stage EXCEPT ![e] = "reserved"]
  /\ thread' = [thread EXCEPT ![e] = call[c].thread]
  /\ close' = [close EXCEPT ![e] = "open"]
  /\ retire' = [retire EXCEPT ![e] = FALSE] /\ retiring' = [retiring EXCEPT ![e] = FALSE]
  /\ process' = [process EXCEPT ![e] = FALSE]
  /\ byThread' = [t \in Thread |-> IF t = call[c].thread THEN e ELSE IF byThread[t] = e THEN None ELSE byThread[t]]
  /\ Becomes(c, [call[c] EXCEPT !.step = "child", !.child = e, !.created = TRUE])
  /\ admission' = Tail(admission)

\* Mutant: a child gives up its slot when it begins to close.
BugRoom(c) == Cardinality({e \in entries : Open(e)}) < Limit
\* reserveEntry asks again for room after every eviction.
Room(c) == Cardinality(entries) < Limit

\* reserveEntry's loop: a new child, the eviction of an idle one, or the refusal
\* codex_native_pool_capacity.
Makes(c) ==
  \/ /\ Room(c)
     /\ \E e \in Unused(c) : e = (CHOOSE f \in Unused(c) : TRUE) /\ Enters(c, e)
  \/ /\ ~Room(c)
     /\ \E e \in entries :
          /\ Idle(e) /\ Release(e)
          /\ GetsChild(c, "eviction", e)
     /\ UNCHANGED <<entries, child, process, admission>>
  \/ /\ ~Room(c) /\ \A e \in entries : ~Idle(e)
     /\ Ends(c) /\ admission' = Tail(admission)
     /\ UNCHANGED <<entries, child, close, process, byThread>>

First(c) == admission # <<>> /\ c = Head(admission)

\* reserveEntry, under the admission lock.
Admit(c) ==
  /\ First(c) /\ call[c].step = "admission"
  /\ LET owner == IF call[c].thread = None THEN None ELSE Owner(call[c].thread)
     IN \/ /\ closed
           /\ Ends(c) /\ admission' = Tail(admission)
           /\ UNCHANGED <<entries, child, close, process, byThread>>
        \/ /\ ~closed /\ owner # None
           /\ GetsChild(c, "child", owner)
           /\ admission' = Tail(admission)
           /\ UNCHANGED <<entries, child, close, process, byThread>>
        \/ ~closed /\ owner = None /\ Makes(c)
  /\ UNCHANGED closed

\* evictOneIdle has closed its child; unconfirmed, it made no room.
Evicted(c) ==
  /\ call[c].step = "eviction"
  /\ \/ close[call[c].child] = "confirmed" /\ Makes(c)
     \/ /\ close[call[c].child] = "unconfirmed"
        /\ Ends(c) /\ admission' = Tail(admission)
        /\ UNCHANGED <<entries, child, close, process, byThread>>
  /\ UNCHANGED closed

\* A request that fails gives back the child it made (releaseEntry).
Fails(c) ==
  IF call[c].created
  THEN Release(call[c].child) /\ Goes(c, "release")
  ELSE Ends(c) /\ Unreleased

\* ensureChild, called first: the factory starts.
Ensure(c) ==
  LET e == call[c].child
  IN /\ call[c].step = "child" /\ stage[e] = "reserved"
     /\ stage' = [stage EXCEPT ![e] = IF closed \/ ~Open(e) THEN "gone" ELSE "making"]
     /\ UNCHANGED <<entries, thread, retire, retiring, close, process, byThread, admission, call, closed>>

\* Mutant: the child is not looked at again after the wait for it.
BugMayInvoke(e) == TRUE
\* invokeEntry asks again after awaiting ensureChild.
MayInvoke(e) == Open(e) /\ ~closed

\* ensureChild has settled.  A turn, a steer and the like are refused for an
\* app-server that has lost its thread.
Invoke(c) ==
  LET e == call[c].child
  IN /\ call[c].step = "child" /\ stage[e] \in {"ready", "idle", "busy", "gone"}
     /\ \/ MayInvoke(e) /\ Goes(c, "answer") /\ Unreleased
        \/ ~MayInvoke(e) /\ Fails(c)
        \/ MayInvoke(e) /\ stage[e] = "gone" /\ call[c].kind = "use" /\ Ends(c) /\ Unreleased
     /\ UNCHANGED <<entries, child, process, admission, closed>>

\* What an answer that is not a refusal makes of the app-server.
After(c) ==
  LET e == call[c].child
  IN IF ~Open(e) \/ stage[e] = "gone" THEN {stage[e]}
     ELSE CASE call[c].kind = "start"  -> {"idle"}
            [] call[c].kind = "resume" -> {"idle", "busy"}
            [] call[c].kind = "use"    -> {stage[e]} \cup IF stage[e] = "idle" THEN {"busy"} ELSE {}
\* Mutant: a refused resume leaves a state the pool does not know.
BugAfterReject(c) == {"unloaded"}
\* A refused resume can leave a state to reconcile.
AfterReject(c) ==
  LET e == call[c].child
  IN {stage[e]} \cup IF call[c].kind = "resume" /\ Open(e) /\ stage[e] \in {"ready", "idle"} THEN {"busy"} ELSE {}

\* The end of invokeEntry: a child that failed, or that refused with one of the
\* FATAL_CHILD_CODES, goes with its last call.  The adapter also throws one of
\* them (native_response_invalid) for what a live app-server refuses, a read of a
\* thread it is compacting for one, so a fatal refusal needs no broken child.  A
\* resume of a thread that is under way, or of a start, is refused by the transport.
Return(c) ==
  LET e == call[c].child
      rest == Active(e) \ {c}
  IN /\ call[c].step = "answer"
     /\ \E ok \in BOOLEAN, fatal \in BOOLEAN :
          /\ ok => ~fatal /\ (call[c].kind = "use" \/ stage[e] \in {"ready", "idle", "gone"})
          /\ \E s \in IF ok THEN After(c) ELSE AfterReject(c) : stage' = [stage EXCEPT ![e] = s]
          /\ retire' = [retire EXCEPT ![e] = @ \/ fatal]
          /\ IF retire'[e] /\ rest = {} /\ Open(e) THEN ScheduleRetire(e, rest) ELSE Unreleased /\ UNCHANGED retiring
          /\ IF call[c].kind = "use" THEN Ends(c) ELSE Becomes(c, [call[c] EXCEPT !.step = "then", !.ok = ok])
     /\ UNCHANGED <<entries, thread, process, admission, closed>>

\* Mutant: a start that Codex answered is not entered under its thread.
BugStarted(c) ==
  /\ call[c].step = "then" /\ call[c].kind = "start" /\ Ends(c)
  /\ \E t \in NewThreads : thread' = [thread EXCEPT ![call[c].child] = t]
  /\ UNCHANGED <<entries, stage, retire, retiring, close, process, byThread, admission, closed>>
\* startThread goes on: bindEntry gives the new thread its child.
Started(c) ==
  LET e == call[c].child
  IN /\ call[c].step = "then" /\ call[c].kind = "start"
     /\ \/ ~call[c].ok /\ Fails(c) /\ UNCHANGED thread
        \/ /\ call[c].ok /\ Ends(c) /\ UNCHANGED close
           /\ \E t \in NewThreads :
                thread' = [thread EXCEPT ![e] = t] /\ byThread' = [byThread EXCEPT ![t] = e]
     /\ UNCHANGED <<entries, stage, retire, retiring, process, admission, closed>>

\* resumeThread goes on: a child that is going does not take the thread.
Resumed(c) ==
  LET e == call[c].child
  IN /\ call[c].step = "then" /\ call[c].kind = "resume"
     /\ \/ ~call[c].ok /\ Fails(c) /\ UNCHANGED retiring
        \/ /\ call[c].ok /\ (retire[e] \/ ~Open(e))
           /\ IF call[c].created
              THEN Fails(c) /\ retiring' = [retiring EXCEPT ![e] = TRUE]
              ELSE Ends(c) /\ ScheduleRetire(e, Active(e))
        \/ /\ call[c].ok /\ ~retire[e] /\ Open(e)
           /\ byThread' = [byThread EXCEPT ![call[c].thread] = e]
           /\ Ends(c) /\ UNCHANGED <<close, retiring>>
     /\ UNCHANGED <<entries, stage, thread, retire, process, admission, closed>>

\* closeEntry has settled for who waited for it.
Released(c) ==
  /\ call[c].step = "release" /\ close[call[c].child] \in {"confirmed", "unconfirmed"}
  /\ Ends(c)
  /\ UNCHANGED <<entries, child, close, process, byThread, admission, closed>>

----------------------------------------------------------------------------
(* The children *)

\* Mutant: a child leaves the pool however its closing ended.
BugSettles(e, quarantined) ==
  /\ stage' = [stage EXCEPT ![e] = "gone"]
  /\ close' = [close EXCEPT ![e] = IF quarantined THEN "unconfirmed" ELSE "confirmed"]
  /\ entries' = entries \ {e} /\ thread' = [thread EXCEPT ![e] = None]
  /\ retire' = [retire EXCEPT ![e] = FALSE] /\ retiring' = [retiring EXCEPT ![e] = FALSE]
  /\ UNCHANGED <<admission, call, closed>>
\* A child whose closing was confirmed leaves the pool, one whose was not keeps
\* its slot.  The fields of one that left are not read any more.
Settles(e, quarantined) ==
  /\ stage' = [stage EXCEPT ![e] = "gone"]
  /\ close' = [close EXCEPT ![e] = IF quarantined THEN "unconfirmed" ELSE "confirmed"]
  /\ entries' = IF quarantined THEN entries ELSE entries \ {e}
  /\ thread' = [thread EXCEPT ![e] = IF quarantined THEN @ ELSE None]
  /\ retire' = [retire EXCEPT ![e] = FALSE] /\ retiring' = [retiring EXCEPT ![e] = FALSE]
  /\ UNCHANGED <<admission, call, closed>>

\* The rest of ensureChild when a start fails.
Breaks(e, quarantined) == Settles(e, quarantined) /\ byThread' = Unmap(e)

\* The factory settles: its adapter is closed at once when the child is not
\* wanted any more.  A failure after the wait for it leaves the quarantine.
Made(e) ==
  /\ stage[e] = "making"
  /\ \/ Open(e) /\ ~closed /\ stage' = [stage EXCEPT ![e] = "starting"]
        /\ UNCHANGED <<entries, thread, retire, retiring, close, byThread, admission, call, closed>>
     \/ (closed \/ ~Open(e)) /\ Breaks(e, FALSE)
     \/ Breaks(e, close[e] = "unconfirmed")
  /\ UNCHANGED process

\* The app-server runs and has answered initialize.
Launched(e) ==
  /\ stage[e] = "starting"
  /\ stage' = [stage EXCEPT ![e] = "probing"] /\ process' = [process EXCEPT ![e] = TRUE]
  /\ UNCHANGED <<entries, thread, retire, retiring, close, byThread, admission, call, closed>>

Probed(e) ==
  /\ stage[e] = "probing"
  /\ stage' = [stage EXCEPT ![e] = "ready"]
  /\ UNCHANGED <<entries, thread, retire, retiring, close, process, byThread, admission, call, closed>>

\* The launch or the check fails.  A transport that broke is dropped while its
\* process is still being killed; one that only refused the check is closed here.
StartFails(e) ==
  /\ stage[e] \in {"starting", "probing"}
  /\ \/ \E running \in BOOLEAN : process' = [process EXCEPT ![e] = running] /\ Breaks(e, FALSE)
     \/ stage[e] = "probing" /\ Breaks(e, TRUE) /\ UNCHANGED process

\* transport.failed (noteChildEvent), for a process that is gone or is killed.
Failed(e) ==
  /\ stage[e] \in {"ready", "idle", "busy"} /\ e \in entries
  /\ stage' = [stage EXCEPT ![e] = "gone"] /\ retire' = [retire EXCEPT ![e] = TRUE]
  /\ \E running \in BOOLEAN : process' = [process EXCEPT ![e] = running /\ @]
  /\ IF Active(e) = {} /\ Open(e) THEN ScheduleRetire(e, {}) ELSE Unreleased /\ UNCHANGED retiring
  /\ UNCHANGED <<entries, thread, admission, call, closed>>

\* The process of a failed or abandoned app-server ends.
Exits(e) ==
  /\ process[e] /\ stage[e] = "gone"
  /\ process' = [process EXCEPT ![e] = FALSE]
  /\ UNCHANGED <<entries, child, close, byThread, admission, call, closed>>

\* A turn starts by itself (a Goal of Codex's own, an approval) or ends.
Works(e) ==
  /\ stage[e] \in {"idle", "busy"} /\ Open(e) /\ thread[e] # None
  /\ stage' = [stage EXCEPT ![e] = IF @ = "idle" THEN "busy" ELSE "idle"]
  /\ UNCHANGED <<entries, thread, retire, retiring, close, process, byThread, admission, call, closed>>

\* noteIdle and sweepIdle, when the child has been quiet long enough.
ReleaseIdle(e) ==
  /\ ~closed /\ e \in entries /\ thread[e] # None /\ Idle(e)
  /\ Release(e)
  /\ UNCHANGED <<entries, child, process, admission, call, closed>>

\* recycleIdle, after a sign-in or an update.
RecycleIdle ==
  LET idle == {e \in entries : Idle(e)}
  IN /\ ~closed /\ idle # {}
     /\ byThread' = [t \in Thread |-> IF byThread[t] \in idle /\ thread[byThread[t]] = t THEN None ELSE byThread[t]]
     /\ close' = [e \in Child |-> IF e \in idle THEN CloseOf(e) ELSE close[e]]
     /\ UNCHANGED <<entries, child, process, admission, call, closed>>

\* closeEntry does not wait longer for a factory.
FactoryLate(e) ==
  /\ close[e] = "waiting"
  /\ close' = [close EXCEPT ![e] = "unconfirmed"]
  /\ UNCHANGED <<entries, child, process, byThread, admission, call, closed>>

\* Mutant: adapter.close waits for the process as long as it takes.
BugStopped(e) == {running \in {FALSE} : ~process[e]}
\* adapter.close waits for the process a limited time.
Stopped(e) == {FALSE, process[e]}

\* The rest of closeEntry.  An adapter whose transport is gone, or was never
\* connected, confirms at once; an app-server it was still launching can come up
\* for all that, until the end of the launch finds nobody that wants it.
Closed(e) ==
  /\ close[e] = "closing"
  /\ \/ /\ stage[e] \in {"probing", "ready", "idle", "busy"}
        /\ \E running \in Stopped(e) : process' = [process EXCEPT ![e] = running] /\ Settles(e, running)
     \/ /\ stage[e] = "starting" /\ Settles(e, FALSE)
        /\ \E running \in BOOLEAN : process' = [process EXCEPT ![e] = running]
     \/ stage[e] \in {"reserved", "making", "gone"} /\ Settles(e, FALSE) /\ UNCHANGED process
  /\ UNCHANGED byThread

\* close: every child is closed, whatever it does; then the pool is empty.
ClosePool ==
  /\ ~closed /\ closed' = TRUE
  /\ close' = [e \in Child |-> IF e \in entries THEN CloseOf(e) ELSE close[e]]
  /\ UNCHANGED <<entries, child, process, byThread, admission, call>>
PoolClosed ==
  /\ closed /\ entries # {} /\ \A e \in entries : close[e] \in {"confirmed", "unconfirmed"}
  /\ entries' = {} /\ byThread' = [t \in Thread |-> None]
  /\ UNCHANGED <<child, close, process, admission, call, closed>>

----------------------------------------------------------------------------
Init ==
  /\ entries = {} /\ closed = FALSE
  /\ stage = [e \in Child |-> "gone"] /\ thread = [e \in Child |-> None]
  /\ close = [e \in Child |-> "confirmed"]
  /\ retire = [e \in Child |-> FALSE] /\ retiring = [e \in Child |-> FALSE]
  /\ process = [e \in Child |-> FALSE]
  /\ byThread = [t \in Thread |-> None]
  /\ admission = <<>> /\ call = [c \in Call |-> NoRequest]

Admission(c) == Admit(c) \/ Evicted(c)
Closing(e) == FactoryLate(e) \/ Closed(e)
Next ==
  \/ \E c \in Call, t \in Thread : Resume(c, t) \/ Use(c, t)
  \/ \E c \in Call : Start(c) \/ Admission(c) \/ Ensure(c) \/ Invoke(c) \/ Return(c)
  \/ \E c \in Call : Started(c) \/ Resumed(c) \/ Released(c)
  \/ \E e \in Child : Made(e) \/ Launched(e) \/ Probed(e) \/ StartFails(e) \/ Failed(e) \/ Exits(e)
  \/ \E e \in Child : Works(e) \/ ReleaseIdle(e) \/ Closing(e)
  \/ RecycleIdle \/ ClosePool \/ PoolClosed

Spec == Init /\ [][Next]_vars

\* The Host runs what it started, and the waits of closeEntry and adapter.close
\* end by a timer.  No app-server need ever answer, no factory settle.
Fairness == /\ \A c \in Call : WF_vars(Admission(c))
            /\ \A e \in Child : WF_vars(Closing(e))
FairSpec == Spec /\ Fairness

----------------------------------------------------------------------------
(* Properties *)

\* However many requests come at once, and whatever fails or cannot be closed,
\* no more than Limit children hold a slot ("capacity is atomic").
Capacity == Cardinality(entries) <= Limit

\* A child that is open is found under its thread: a thread never has two, and
\* none keeps a slot where no request can reach it.
OpenChildIsReachable == ~closed =>
  \A e \in entries : (Open(e) /\ thread[e] # None) => byThread[thread[e]] = e

\* An app-server the Host is connected to holds a slot, and so does one whose end
\* adapter.close waited for in vain, however late it ends.
KnownProcessHoldsSlot == ~closed =>
  \A e \in Child : (process[e] /\ (stage[e] # "gone" \/ close[e] = "unconfirmed")) => e \in entries

\* A child goes under another request's feet, or with a turn under way, only when
\* the request that made it failed or the pool closes; else its last call is over
\* and, if it had one or a turn under way, its app-server failed or gave an answer
\* that counts as fatal (a live one can): never for room, quiet or a new sign-in.
OnlyIdleGoes == [][\A e \in entries : (Open(e) /\ close'[e] # "open") =>
  \/ closed' \/ \E c \in Call : call[c].child = e /\ call'[c].step = "release"
  \/ Active(e)' = {} /\ (retire'[e] \/ (Active(e) = {} /\ stage[e] # "busy"))]_vars

\* No request is sent to an app-server that is being closed: it could be taken
\* and lost.
NoCallOfAClosingChild == [][\A c \in Call :
  (call[c].step # "answer" /\ call'[c].step = "answer") => close'[call'[c].child] = "open"]_vars

\* The admission lock is always given back, although an app-server or a factory
\* may never answer; unless there is room and no child is left to model it.
Waits(c) == call[c].step \in {"admission", "eviction"}
AdmissionGoesOn == \A c \in Call : Waits(c) ~> (~Waits(c) \/ (Room(c) /\ Unused(c) = {}))
=============================================================================
