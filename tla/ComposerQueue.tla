---------------------------- MODULE ComposerQueue ----------------------------
(***************************************************************************)
(* Messages sent while an agent works wait on the Host, one queue per      *)
(* conversation (server/composer-queue.js), and go in through the agent's  *)
(* driver (server/composer-queue-drivers.js).  One conversation is         *)
(* modelled: conversations share nothing but the revision clock and the    *)
(* index file.                                                             *)
(*                                                                         *)
(* Three kinds of actor interleave at the code's awaits and callbacks:     *)
(*   - persons on several devices, whose requests name the revision read;  *)
(*   - the Host: dispatcher, send calls, confirmation timers, observer of  *)
(*     the agent's reports, and its own crash and restart;                 *)
(*   - the agent process (external), which takes, refuses or drops what it *)
(*     is sent and reports in order on one pipe.                           *)
(***************************************************************************)
EXTENDS Naturals, FiniteSets, SequencesExt

CONSTANTS
  Items,         \* message ids
  Devices,       \* pages that show the queue
  Agents,        \* the agents this instance may be talking to
  MaxItems,      \* MAX_ITEMS
  MaxActs,       \* bound: requests by persons, adds and reads apart
  MaxFaults,     \* bound: exits, lost answers and unforeseen busy answers
  MaxCrashes,    \* bound: Host restarts
  MaxSaveFails,  \* bound: index writes that fail
  MaxWire        \* bound: reports not yet read

AGENTS == {"pi", "codex", "claude-code", "antigravity"}
ASSUME AgentsAssumption == Agents \subseteq AGENTS
ASSUME ItemsAssumption == IsFiniteSet(Items)
ASSUME BoundsAssumption ==
  /\ MaxItems \in Nat
  /\ MaxActs \in Nat
  /\ MaxFaults \in Nat
  /\ MaxCrashes \in Nat
  /\ MaxSaveFails \in Nat
  /\ MaxWire \in Nat

WAITING == {"queued", "failed", "attention"}
PRESENT == WAITING \cup {"dispatching"}
\* "new" has not been written yet; a message leaves as "delivered" or
\* "removed"; "lost" is where a message goes that a restart forgets.
STATES == PRESENT \cup {"new", "delivered", "removed", "lost"}
STAGES == {"none", "sending", "accepted", "native"}
PAUSES == {"no", "stopped", "failed", "restart"}
OUTCOMES == {"completed", "stopped", "failed"}
ANSWERS == {"delivered", "accepted", "busy", "unsupported", "reject"}

VARIABLES
  agent,      \* the conversation's agent, fixed
  store,      \* the conversation: [order, item, pause]
  payload,    \* the messages whose own file exists
  text,       \* what each message's own file says
  disk,       \* the index file: the last store that was saved
  dispatch,   \* the dispatcher: "idle", "asking" or "sending" (inFlight unless idle)
  calls,      \* send calls that have not returned to the queue
  timers,     \* confirmations: messages whose confirmation timer runs
  working,    \* what the Host believes: a turn is under way
  stopping,   \* Pi only: Stop has asked for what Pi still holds
  turn,       \* the agent: a turn runs
  holds,      \* the agent: messages taken that no turn has started yet
  wire,       \* the agent's reports, in order, not yet read
  open,       \* "yes", "locked" (a Goal or compaction) or "gone" (no process)
  view,       \* what each device read and is about to act on
  took,       \* history: how many copies the agent took and has not given back
  wishes,     \* history: how many sends of it persons asked for, not yet used
  spent       \* bounds used, and what the restarts met: [acts, faults, crashes, saves, cuts, unread]

hostVars  == <<dispatch, calls, timers, working, stopping>>
agentVars == <<turn, holds, wire, open>>
history   == <<took, wishes>>
files     == <<payload, disk>>
vars == <<agent, text, store, files, hostVars, agentVars, view, history, spent>>

----------------------------------------------------------------------------
(* Types *)

Item  == [state : STATES, stage : STAGES, rev : Nat, txt : Nat]
Store == [order : Seq(Items), item : [Items -> Item], pause : PAUSES]
Call  == [item : Items, rev : Nat, jump : BOOLEAN, phase : {"prepare", "sent", "answered"},
          via : {"none", "prompt", "steer", "frame"}, answer : ANSWERS \cup {"none"}]
Report == [kind : {"began", "native", "started", "refused"}, item : Items] \cup [kind : {"ended"}, outcome : OUTCOMES]
Nothing == [item |-> "nothing"]
View  == [item : Items, rev : Nat, state : STATES, txt : Nat] \cup {Nothing}
Spent == [acts : Nat, faults : Nat, crashes : Nat, saves : Nat, cuts : Nat, unread : Nat]

TypeOK ==
  /\ agent \in Agents
  /\ store \in Store /\ disk \in Store
  /\ payload \subseteq Items /\ text \in [Items -> Nat]
  /\ dispatch \in {"idle", "asking", "sending"}
  /\ calls \subseteq Call /\ IsFiniteSet(calls)
  /\ timers \subseteq Items
  /\ working \in BOOLEAN /\ stopping \in BOOLEAN
  /\ turn \in {"idle", "running"}
  /\ holds \in [Items -> {"no", "held", "queued"}]
  /\ wire \in Seq(Report)
  /\ open \in {"yes", "locked", "gone"}
  /\ view \in [Devices -> View]
  /\ took \in [Items -> Nat] /\ wishes \in [Items -> Nat]
  /\ spent \in Spent

----------------------------------------------------------------------------
(* The store (createComposerQueueStore): pure functions of a conversation. *)

NewItem == [state |-> "new", stage |-> "none", rev |-> 0, txt |-> 0]
Empty == [order |-> <<>>, item |-> [i \in Items |-> NewItem], pause |-> "no"]

Present(q) == {i \in Items : q.item[i].state \in PRESENT}
InState(q, s) == {i \in Items : q.item[i].state = s}
\* The order keeps the places of messages that have left; nobody sees them.
Ahead(q, i, j) == \E m, n \in DOMAIN q.order : m < n /\ q.order[m] = i /\ q.order[n] = j
Without(s, i) == IF i \in ToSet(s) THEN RemoveAt(s, CHOOSE k \in DOMAIN s : s[k] = i) ELSE s

Put(q, i, it) == [q EXCEPT !.item = [q.item EXCEPT ![i] = it]]
Changed(it, state, stage) == [it EXCEPT !.state = state, !.stage = stage, !.rev = it.rev + 1]

QueuedItem == [state |-> "queued", stage |-> "none", rev |-> 1, txt |-> 0]
Added(q, i) == [Put(q, i, QueuedItem) EXCEPT !.order = Append(q.order, i)]

Edited(q, i, words) ==
  LET it == q.item[i]
  IN  Put(q, i, Changed([it EXCEPT !.txt = words], IF it.state = "failed" THEN "queued" ELSE it.state, it.stage))

Moved(q, i, k) ==
  LET it == q.item[i]
  IN  [Put(q, i, Changed(it, it.state, it.stage)) EXCEPT !.order = InsertAt(Without(q.order, i), k, i)]

Claimed(q, i) == Put(q, i, Changed(q.item[i], "dispatching", "sending"))

\* Mutant: mark leaves the revision as it is.
BugMarked(q, i, state, stage) == Put(q, i, [q.item[i] EXCEPT !.state = state, !.stage = stage])

\* mark: the dispatcher's own change, made without naming a revision.
Marked(q, i, state, stage) == Put(q, i, Changed(q.item[i], state, stage))
Fronted(q, i) == [q EXCEPT !.order = <<i>> \o Without(q.order, i)]

\* A pause holds only a queue that holds messages.
Paused(q, reason) == IF Present(q) = {} THEN q ELSE [q EXCEPT !.pause = reason]

\* retire, for every message of S: when none is left the pause goes too.
Retired(q, S, outcome) ==
  LET left == [q EXCEPT !.item = [i \in Items |-> IF i \in S THEN [NewItem EXCEPT !.state = outcome] ELSE q.item[i]]]
  IN  IF Present(left) = {} THEN [left EXCEPT !.pause = "no"] ELSE left

\* Every message of S, marked.
AllChanged(q, S, state) ==
  [q EXCEPT !.item = [i \in Items |-> IF i \in S THEN Changed(q.item[i], state, "none") ELSE q.item[i]]]

\* resume: only a paused queue; a message that failed is tried again.
Resumed(q) ==
  IF q.pause = "no" THEN q ELSE [AllChanged(q, InState(q, "failed"), "queued") EXCEPT !.pause = "no"]

\* load: a message on its way when the Host stopped waits for the person, and
\* queued ones wait for a resume.  A row without its own file is dropped.
BugKept(q, files_) == Present(q)   \* mutant: no payloadExists test
Kept(q, files_) == Present(q) \cap files_
BugRestored(it) == [it EXCEPT !.state = IF @ = "dispatching" THEN "queued" ELSE @, !.stage = "none"]   \* mutant
Restored(it) == IF it.state = "dispatching" THEN Changed(it, "attention", "none")
                                            ELSE [it EXCEPT !.stage = "none"]
Forgotten(it) == IF it.state \in PRESENT THEN [NewItem EXCEPT !.state = "lost"] ELSE it
Loaded(q, files_, before) ==
  LET items == [i \in Items |-> IF i \in Kept(q, files_) THEN Restored(q.item[i]) ELSE Forgotten(before.item[i])]
      waits == \E i \in Kept(q, files_) : items[i].state = "queued"
  IN  [order |-> q.order, item |-> items,
       pause |-> IF Kept(q, files_) = {} THEN "no"
                 ELSE IF q.pause = "no" /\ waits THEN "restart" ELSE q.pause]

----------------------------------------------------------------------------
(* commit and save: a failed write of the index is ignored (except by add). *)

\* a is 1 for a person's request, 0 for the Host's own change.
Commit(q, a) ==
  /\ store' = q
  /\ \E failed \in {0, 1} :
       /\ failed = 1 => q # store
       /\ spent.acts + a <= MaxActs /\ spent.saves + failed <= MaxSaveFails
       /\ spent' = [spent EXCEPT !.acts = @ + a, !.saves = @ + failed]
       /\ disk' = IF failed = 1 THEN disk ELSE q
Fault == spent.faults < MaxFaults /\ spent' = [spent EXCEPT !.faults = @ + 1]

\* Calls that may still bring the agent a copy of i, or bring i back to the queue.
Going(i) == Cardinality({c \in calls : c.item = i /\ (c.phase # "answered" \/ c.answer \in {"busy", "unsupported"})})
Less(n, k) == IF n > k THEN n - k ELSE 0

\* Persons ask for a send when they add, send, edit or resume a message that is
\* not waiting to be sent already.
Asked(S) == [i \in Items |-> wishes[i] + IF i \in S THEN 1 ELSE 0]
RetriedIn(q) == IF q.pause = "no" THEN {} ELSE InState(q, "failed")

----------------------------------------------------------------------------
(* Persons.  A request names a message and the revision its page read. *)

Busy == working \/ \E c \in calls : c.phase = "sent"

Held == {i \in Items : holds[i] # "no"}

\* What shouldQueue asks before an ordinary send.
ShouldQueue == Busy \/ (store.pause = "no" /\ (InState(store, "queued") \cup InState(store, "dispatching")) # {})

Read(d) ==
  /\ view[d] = Nothing
  /\ \E i \in Present(store) :
       view' = [view EXCEPT ![d] = [item |-> i, rev |-> store.item[i].rev, state |-> store.item[i].state, txt |-> store.item[i].txt]]
  /\ UNCHANGED <<agent, text, store, files, hostVars, agentVars, history, spent>>

\* itemOf, then the WAITING test: the message d read, unchanged and not on its way.
MayChange(d, i) ==
  /\ view[d].item = i
  /\ i \in Present(store) /\ store.item[i].state \in WAITING
  /\ store.item[i].rev = view[d].rev

\* The request of d was let through, or is answered with the queue as it is.
Answer(d) == view' = [view EXCEPT ![d] = Nothing]
Conflict(d) ==
  /\ view[d] # Nothing /\ ~ \E i \in Items : MayChange(d, i)
  /\ Answer(d)
  /\ UNCHANGED <<agent, text, store, files, hostVars, agentVars, history, spent>>

CanAdd(i) ==
  /\ store.item[i].state = "new"
  /\ Cardinality(Present(store)) < MaxItems

\* Mutant: add ignores a failed save, as every other change does.
BugAdd(i) ==
  /\ open # "locked" /\ CanAdd(i)
  /\ payload' = payload \cup {i}
  /\ Commit(Added(store, i), 0)
  /\ wishes' = Asked({i})
  /\ UNCHANGED <<agent, text, hostVars, agentVars, view, took>>

\* add: the file first, then the index; without the index the add is undone,
\* so only the add that was saved changes anything.
Add(i) ==
  /\ open # "locked" /\ CanAdd(i)
  /\ payload' = payload \cup {i}
  /\ store' = Added(store, i) /\ disk' = store'
  /\ wishes' = Asked({i})
  /\ UNCHANGED <<agent, text, hostVars, agentVars, view, took, spent>>

\* edit: the message's own file first, then the index (its preview, length and
\* digest).  A crash between the two is a Restart that cuts the edit.
Edit(d, i) ==
  /\ MayChange(d, i) /\ Answer(d)
  /\ text' = [text EXCEPT ![i] = @ + 1]
  /\ Commit(Edited(store, i, text[i] + 1), 1)
  /\ wishes' = Asked({i} \cap InState(store, "failed"))
  /\ UNCHANGED <<agent, payload, hostVars, agentVars, took>>

\* remove, and take, which also hands the text back to the person.
Withdraw(d, i) ==
  /\ MayChange(d, i) /\ Answer(d)
  /\ payload' = payload \ {i}
  /\ Commit(Retired(store, {i}, "removed"), 1)
  /\ UNCHANGED <<agent, text, hostVars, agentVars, history>>

Move(d, i) ==
  /\ MayChange(d, i) /\ Answer(d)
  /\ \E k \in 1..Len(store.order) : Commit(Moved(store, i, k), 1)
  /\ UNCHANGED <<agent, text, payload, hostVars, agentVars, history>>

\* An answered call returns to the queue before the next request is read.
NoAnswer(i) == \A c \in calls : c.item = i => c.phase # "answered"

Prepared(i, q, jump) ==
  [item |-> i, rev |-> q.item[i].rev, jump |-> jump, phase |-> "prepare", via |-> "none", answer |-> "none"]

\* sendNow: claim, then resume the queue, then deliver into the turn.
SendNow(d, i) ==
  /\ open # "locked" /\ MayChange(d, i) /\ Answer(d) /\ NoAnswer(i)
  /\ LET q == Resumed(Claimed(store, i))
     IN  /\ Commit(q, 1)
         /\ calls' = calls \cup {Prepared(i, q, TRUE)}
         /\ wishes' = Asked(RetriedIn(store) \cup ({i} \ InState(store, "queued")))
  /\ UNCHANGED <<agent, text, payload, dispatch, timers, working, stopping, agentVars, took>>

Resume ==
  /\ store.pause # "no"
  /\ Commit(Resumed(store), 1)
  /\ wishes' = Asked(RetriedIn(store))
  /\ UNCHANGED <<agent, text, payload, hostVars, agentVars, view, took>>

\* Stop pauses; stopPi goes on to take back what Pi has not started.
Stop ==
  /\ Present(store) # {} \/ Held # {}
  /\ Commit(Paused(store, "stopped"), 1)
  /\ stopping' = (agent = "pi" /\ open # "gone")
  /\ UNCHANGED <<agent, text, payload, dispatch, calls, timers, working, agentVars, view, history>>

\* A message sent the ordinary way starts a turn and picks the queue up again.
DirectSend ==
  /\ open = "yes" /\ ~ShouldQueue /\ turn = "idle"
  /\ Commit(Resumed(store), 1)
  /\ turn' = "running" /\ working' = TRUE
  /\ wishes' = Asked(RetriedIn(store))
  /\ UNCHANGED <<agent, text, payload, dispatch, calls, timers, stopping, holds, wire, open, view, took>>

----------------------------------------------------------------------------
(* The Host: dispatch, deliver and the confirmation timer. *)

\* ready(): the first queued message of a queue that may go on.
IsReady(q, i) ==
  /\ q.pause = "no" /\ InState(q, "dispatching") = {}
  /\ i \in InState(q, "queued") /\ ~ \E j \in InState(q, "queued") : Ahead(q, j, i)

\* Mutant: dispatch does not ask whether one is in flight.
BugDispatchBegins ==
  /\ open = "yes"
  /\ \E i \in Items : IsReady(store, i)
  /\ dispatch' = "asking"
  /\ UNCHANGED <<agent, text, store, files, calls, timers, working, stopping, agentVars, view, history, spent>>

\* A turn's end, a new message, a resume and the sweep all call dispatch.
DispatchBegins ==
  /\ dispatch = "idle" /\ open = "yes"
  /\ \E i \in Items : IsReady(store, i)
  /\ dispatch' = "asking"
  /\ UNCHANGED <<agent, text, store, files, calls, timers, working, stopping, agentVars, view, history, spent>>

DispatchYields ==
  /\ dispatch = "asking"
  /\ Busy \/ ~ \E i \in Items : IsReady(store, i)
  /\ dispatch' = "idle"
  /\ UNCHANGED <<agent, text, store, files, calls, timers, working, stopping, agentVars, view, history, spent>>

\* After the agent is found free the queue is read again.
DispatchClaims(i) ==
  /\ dispatch = "asking" /\ ~Busy
  /\ IsReady(store, i) /\ NoAnswer(i)
  /\ LET q == Claimed(store, i)
     IN  Commit(q, 0) /\ calls' = calls \cup {Prepared(i, q, FALSE)}
  /\ dispatch' = "sending"
  /\ UNCHANGED <<agent, text, payload, timers, working, stopping, agentVars, view, history>>

\* The drivers: a message put into a turn under way is a steer (Pi, Codex); a
\* user frame goes to Claude at any time; anything else needs an idle agent.
Via(jump) ==
  IF agent = "claude-code" THEN "frame"
  ELSE IF ~working THEN "prompt"
  ELSE IF jump /\ agent \in {"pi", "codex"} THEN "steer" ELSE "none"

Replace(c, d) == calls' = (calls \ {c}) \cup {d}
Answered(c, answer) == [c EXCEPT !.phase = "answered", !.answer = answer]
\* A send that failed is not tried again before the next wish.
Lapses(c, answer) == wishes' = IF answer = "reject" THEN [wishes EXCEPT ![c.item] = Less(@, 1)] ELSE wishes

\* What a driver answers without sending: no process or a broken preparation,
\* a turn under way it cannot join, a speed the turn cannot carry, a compaction.
Unsent(c) ==
  {"reject"}
  \cup (IF working /\ c.jump THEN {"unsupported"} ELSE {})
  \cup (IF (Via(c.jump) = "none" /\ ~c.jump) \/ (agent = "claude-code" /\ open = "locked") THEN {"busy"} ELSE {})

TurnsBack(c) ==
  /\ c.phase = "prepare"
  /\ \E answer \in Unsent(c) : Replace(c, Answered(c, answer)) /\ Lapses(c, answer)
  /\ UNCHANGED <<agent, text, store, files, dispatch, timers, working, stopping, agentVars, view, took, spent>>

\* Between the claim and this step the driver opens the child, resumes the
\* thread or agrees on the speed; nothing reads the queue again.
HandsOver(c) ==
  /\ c.phase = "prepare" /\ open # "gone" /\ Via(c.jump) # "none"
  /\ Replace(c, [c EXCEPT !.phase = "sent", !.via = Via(c.jump)])
  /\ working' = (working \/ agent = "claude-code")
  /\ UNCHANGED <<agent, text, store, files, dispatch, timers, stopping, agentVars, view, history, spent>>

Confirms == agent \in {"claude-code", "antigravity"}

\* What deliver makes of an answer, if the message is still on its way.
Settled(q, i, answer) ==
  CASE answer = "delivered" -> Retired(q, {i}, "delivered")
    [] answer = "accepted"  -> Marked(q, i, "dispatching", IF q.item[i].stage = "native" THEN "native" ELSE "accepted")
    [] answer \in {"busy", "unsupported"} -> Fronted(Marked(q, i, "queued", "none"), i)
    [] OTHER -> Paused(Marked(q, i, "failed", "none"), "failed")

BugReleased(c) == dispatch   \* mutant: inFlight is not cleared when a send returns
Released(c) == IF c.jump THEN dispatch ELSE "idle"

Settle(c) ==
  /\ c.phase = "answered"
  /\ calls' = calls \ {c}
  /\ dispatch' = Released(c)
  /\ IF store.item[c.item].state = "dispatching"
     THEN /\ Commit(Settled(store, c.item, c.answer), 0)
          /\ payload' = IF c.answer = "delivered" THEN payload \ {c.item} ELSE payload
          /\ timers' = IF c.answer = "delivered" THEN timers \ {c.item}
                       ELSE IF c.answer = "accepted" /\ Confirms THEN timers \cup {c.item} ELSE timers
     ELSE UNCHANGED <<store, files, timers, spent>>
  /\ UNCHANGED <<agent, text, working, stopping, agentVars, view, history>>

\* Acceptance without further word counts as delivery.
ConfirmExpires(i) ==
  /\ i \in timers
  /\ timers' = timers \ {i}
  /\ IF store.item[i].state = "dispatching" /\ store.item[i].stage = "accepted"
     THEN Commit(Retired(store, {i}, "delivered"), 0) /\ payload' = payload \ {i}
     ELSE UNCHANGED <<store, files, spent>>
  /\ UNCHANGED <<agent, text, dispatch, calls, working, stopping, agentVars, view, history>>

----------------------------------------------------------------------------
(* The Host: observe, one report at a time. *)

Report1(kind) == wire # <<>> /\ Head(wire).kind = kind /\ wire' = Tail(wire)
OnItsWay(i) == store.item[i].state = "dispatching"

ObserveNative ==
  /\ Report1("native")
  /\ LET i == Head(wire).item
     IN  IF OnItsWay(i) /\ store.item[i].stage # "native"
         THEN Commit(Marked(store, i, "dispatching", "native"), 0)
         ELSE UNCHANGED <<store, disk, spent>>
  /\ UNCHANGED <<agent, text, payload, hostVars, turn, holds, open, view, history>>

\* A turn began with a message the queue is not told of.
ObserveBegan ==
  /\ Report1("began") /\ working' = TRUE
  /\ UNCHANGED <<agent, text, store, files, dispatch, calls, timers, stopping, turn, holds, open, view, history, spent>>

ObserveStarted ==
  /\ Report1("started")
  /\ working' = TRUE
  /\ LET i == Head(wire).item
     IN  IF OnItsWay(i)
         THEN /\ Commit(Retired(store, {i}, "delivered"), 0)
              /\ payload' = payload \ {i} /\ timers' = timers \ {i}
         ELSE UNCHANGED <<store, files, timers, spent>>
  /\ UNCHANGED <<agent, text, dispatch, calls, stopping, turn, holds, open, view, history>>

ObserveRefused ==
  /\ Report1("refused")
  /\ LET i == Head(wire).item
     IN  IF OnItsWay(i)
         THEN /\ Commit(Paused(Marked(store, i, "failed", "none"), "failed"), 0)
              /\ timers' = timers \ {i}
         ELSE UNCHANGED <<store, disk, timers, spent>>
  /\ took' = [took EXCEPT ![Head(wire).item] = Less(@, 1)]
  /\ UNCHANGED <<agent, text, payload, dispatch, calls, working, stopping, turn, holds, open, view, wishes>>

\* What the agent took into the turn that ended went with it, if the turn
\* completed; otherwise nobody knows, and the message waits for the person.
BugTakenIn(q) == InState(q, "dispatching")   \* mutant: also what is still being sent
TakenIn(q) == {i \in InState(q, "dispatching") : q.item[i].stage = "accepted"}
\* Mutant: every turn's end pauses the queue.
BugTurnEnded(q, outcome) ==
  Paused(IF outcome = "completed" THEN Retired(q, TakenIn(q), "delivered") ELSE q, outcome)
TurnEnded(q, outcome) ==
  IF outcome = "completed" THEN Retired(q, TakenIn(q), "delivered")
                           ELSE Paused(AllChanged(q, TakenIn(q), "attention"), outcome)

ObserveEnded ==
  /\ Report1("ended")
  /\ working' = FALSE
  /\ Commit(TurnEnded(store, Head(wire).outcome), 0)
  /\ payload' = IF Head(wire).outcome = "completed" THEN payload \ TakenIn(store) ELSE payload
  /\ timers' = timers \ TakenIn(store)
  /\ UNCHANGED <<agent, text, dispatch, calls, stopping, turn, holds, open, view, history>>

\* reclaim: Pi empties its own queue and says what was in it.  A message on its
\* way waits here again; a text the queue no longer holds is added anew.
GivenBack(q, S, added) ==
  LET back == AllChanged(q, S, "queued")
  IN  [order |-> q.order \o added,
       item  |-> [i \in Items |-> IF i \in ToSet(added) THEN QueuedItem ELSE back.item[i]],
       pause |-> q.pause]
Reclaimed(q, S, added) == Paused(GivenBack(q, S, added), "stopped")

\* A full queue takes no more: what does not fit is dropped.
Room == Min({MaxItems - Cardinality(Present(store)), Cardinality(InState(store, "new"))})

\* Every text is saved for itself and the pause comes last: an add that is not
\* saved is undone, so the index holds what was added whatever fails later.
SavedBy(q, S, added) == {GivenBack(q, T, added) : T \in {U \in SUBSET S : U # {} \/ added # <<>>}}

Reclaim ==
  /\ stopping /\ wire = <<>> /\ \A i \in Held : NoAnswer(i)
  /\ stopping' = FALSE
  /\ \E fresh \in SUBSET InState(store, "new"), failed \in {0, 1} : \E added \in SetToSeqs(fresh) :
       LET back == {i \in Held : OnItsWay(i)}
           fits == Min({Room, Cardinality(Held \ back)})
       IN
       /\ Cardinality(fresh) <= fits /\ (failed = 0 => Cardinality(fresh) = fits)
       /\ store' = Reclaimed(store, back, added)
       /\ disk' \in {store'} \cup IF failed = 0 THEN {}
                                 ELSE SavedBy(store, back, added) \cup (IF fresh = {} THEN {disk} ELSE {})
       /\ spent.saves + failed <= MaxSaveFails /\ spent' = [spent EXCEPT !.saves = @ + failed]
       /\ payload' = payload \cup fresh
       /\ timers' = timers \ back
       /\ took' = [i \in Items |-> IF i \in back THEN Less(took[i], 1) ELSE took[i]]
       /\ wishes' = Asked(back \cup fresh)
  /\ holds' = [i \in Items |-> "no"]
  /\ UNCHANGED <<agent, text, dispatch, calls, working, turn, wire, open, view>>

----------------------------------------------------------------------------
(* The agent (external): what the drivers' calls and events say of it. *)

Tell(report) == Len(wire) < MaxWire /\ wire' = Append(wire, report)
Ended(outcome) == [kind |-> "ended", outcome |-> outcome]
About(kind, i) == [kind |-> kind, item |-> i]
Takes(c) ==
  /\ took' = [took EXCEPT ![c.item] = @ + 1]
  /\ wishes' = [wishes EXCEPT ![c.item] = Less(@, 1)]

\* A prompt starts a turn; Pi and Antigravity report which message it was,
\* Codex only that it began.
\* Antigravity answers at once or when the turn ends.
AgentRuns(c) ==
  /\ c.phase = "sent" /\ c.via = "prompt" /\ turn = "idle" /\ open # "gone"
  /\ turn' = "running" /\ working' = TRUE
  /\ \/ /\ \E answer \in {"delivered"} \cup (IF agent = "antigravity" THEN {"accepted"} ELSE {}) : Replace(c, Answered(c, answer))
        /\ UNCHANGED spent
     \/ agent # "antigravity" /\ Fault /\ Replace(c, Answered(c, "reject"))   \* the answer came too late
  /\ Tell(About(IF agent = "codex" THEN "began" ELSE "started", c.item))
  /\ Takes(c)
  /\ UNCHANGED <<agent, text, store, files, dispatch, timers, stopping, holds, open, view>>

\* A steer, or Claude's user frame, is taken and started later.
AgentHolds(c) ==
  /\ c.phase = "sent" /\ open # "gone"
  /\ c.via = "frame" \/ (c.via = "steer" /\ turn = "running")
  /\ Replace(c, Answered(c, "accepted"))
  /\ holds' = [holds EXCEPT ![c.item] = "held"]
  /\ Takes(c)
  /\ UNCHANGED <<agent, text, store, files, dispatch, timers, working, stopping, turn, wire, open, view, spent>>

\* Refused, or the process is gone; busy is a turn the Host has not seen.  A frame Claude's pipe refuses ends the turn the Host had begun.
AgentDeclines(c) ==
  /\ c.phase = "sent"
  /\ \/ /\ Replace(c, Answered(c, "reject")) /\ Lapses(c, "reject") /\ UNCHANGED spent
        /\ IF agent = "claude-code" THEN Tell(Ended("stopped")) ELSE UNCHANGED wire
     \/ /\ agent # "claude-code" /\ Fault /\ Replace(c, Answered(c, "busy"))
        /\ UNCHANGED <<wire, wishes>>
  /\ UNCHANGED <<agent, text, store, files, dispatch, timers, working, stopping, turn, holds, open, view, took>>

AgentStarts(i) ==
  /\ holds[i] # "no" /\ open # "gone"
  /\ turn = "running" \/ agent = "claude-code"
  /\ holds' = [holds EXCEPT ![i] = "no"]
  /\ turn' = "running"
  /\ Tell(About("started", i))
  /\ UNCHANGED <<agent, text, store, files, hostVars, open, view, history, spent>>

\* Only Claude reports that it keeps a message for later, or drops one.
AgentQueues(i) ==
  /\ agent = "claude-code" /\ holds[i] = "held"
  /\ holds' = [holds EXCEPT ![i] = "queued"]
  /\ Tell(About("native", i))
  /\ UNCHANGED <<agent, text, store, files, hostVars, turn, open, view, history, spent>>

AgentRefuses(i) ==
  /\ agent = "claude-code" /\ holds[i] # "no"
  /\ holds' = [holds EXCEPT ![i] = "no"]
  /\ Tell(About("refused", i))
  /\ UNCHANGED <<agent, text, store, files, hostVars, turn, open, view, history, spent>>

\* What a turn held is dropped with it, except what Claude keeps for itself
\* and what Pi goes on with.
AgentEnds(outcome) ==
  /\ turn = "running" /\ turn' = "idle"
  /\ Tell(Ended(outcome))
  /\ IF agent \in {"claude-code", "pi"} THEN UNCHANGED holds ELSE holds' = [i \in Items |-> "no"]
  /\ UNCHANGED <<agent, text, store, files, hostVars, open, view, history, spent>>

AgentExits ==
  /\ open # "gone" /\ Fault
  /\ open' = "gone" /\ turn' = "idle"
  /\ holds' = [i \in Items |-> "no"]
  /\ Tell(Ended("stopped"))
  /\ UNCHANGED <<agent, text, store, files, hostVars, view, history>>

Reopens == 
  /\ open = "gone" /\ wire = <<>> /\ open' = "yes"
  /\ UNCHANGED <<agent, text, store, files, hostVars, turn, holds, wire, view, history, spent>>

\* A Goal or a compaction takes the conversation between turns and lets it go.
Locks ==
  /\ open = "yes" /\ Fault /\ open' = "locked"
  /\ UNCHANGED <<agent, text, store, files, hostVars, turn, holds, wire, view, history>>
Unlocks ==
  /\ open = "locked" /\ open' = "yes"
  /\ UNCHANGED <<agent, text, store, files, hostVars, turn, holds, wire, view, history, spent>>

----------------------------------------------------------------------------
(* A Host that stops takes its calls, timers and the agent's process along. *)

\* It may stop inside an edit; and an index that cannot be read or parsed, or
\* is too large, is taken for an empty one: every message's own file is deleted.
OneMore(b) == IF b THEN 1 ELSE 0

\* The messages that some page may just be editing.
Editable == {i \in Items : \E d \in Devices : MayChange(d, i)}

Finds(index, cut) ==
  /\ store' = Loaded(index, payload, store) /\ disk' = store'
  /\ payload' = Kept(index, payload)
  /\ text' = [i \in Items |-> text[i] + OneMore(i \in cut)]
  /\ spent' = [spent EXCEPT !.crashes = @ + 1, !.cuts = @ + OneMore(cut # {}), !.unread = @ + OneMore(index # disk)]

Restart ==
  /\ spent.crashes < MaxCrashes
  /\ \/ Finds(disk, {}) \/ \E i \in Editable : Finds(disk, {i})
     \/ disk # Empty /\ Finds(Empty, {})
  /\ dispatch' = "idle" /\ calls' = {} /\ timers' = {}
  /\ working' = FALSE /\ stopping' = FALSE
  /\ turn' = "idle" /\ holds' = [i \in Items |-> "no"] /\ wire' = <<>>
  /\ open' \in {"yes", "gone"}
  /\ took' = [i \in Items |-> 0]
  /\ wishes' = [i \in Items |-> Less(wishes[i], Going(i))]
  /\ UNCHANGED <<agent, view>>

Init ==
  /\ agent \in Agents
  /\ store = Empty /\ disk = Empty /\ payload = {} /\ text = [i \in Items |-> 0]
  /\ dispatch = "idle" /\ calls = {} /\ timers = {}
  /\ working = FALSE /\ stopping = FALSE
  /\ turn = "idle" /\ holds = [i \in Items |-> "no"] /\ wire = <<>> /\ open = "yes"
  /\ view = [d \in Devices |-> Nothing]
  /\ took = [i \in Items |-> 0] /\ wishes = [i \in Items |-> 0]
  /\ spent = [acts |-> 0, faults |-> 0, crashes |-> 0, saves |-> 0, cuts |-> 0, unread |-> 0]

PersonNext ==
  \/ \E i \in Items : Add(i)
  \/ \E d \in Devices : Read(d) \/ Conflict(d)
  \/ \E d \in Devices, i \in Items : Edit(d, i) \/ Withdraw(d, i) \/ Move(d, i) \/ SendNow(d, i)
  \/ Resume \/ Stop \/ DirectSend \/ Reopens

HostNext ==
  \/ DispatchBegins \/ DispatchYields
  \/ \E i \in Items : DispatchClaims(i) \/ ConfirmExpires(i)
  \/ \E c \in calls : TurnsBack(c) \/ HandsOver(c) \/ Settle(c)
  \/ ObserveBegan \/ ObserveNative \/ ObserveStarted \/ ObserveRefused \/ ObserveEnded
  \/ Reclaim

AgentNext ==
  \/ \E c \in calls : AgentRuns(c) \/ AgentHolds(c) \/ AgentDeclines(c)
  \/ \E i \in Items : AgentStarts(i) \/ AgentQueues(i) \/ AgentRefuses(i)
  \/ \E outcome \in OUTCOMES : AgentEnds(outcome)
  \/ AgentExits

Next == PersonNext \/ HostNext \/ AgentNext \/ Locks \/ Unlocks \/ Restart

\* The Host's own steps are kept going by its event loop and its sweep; the
\* agent answers, starts what it holds and ends its turns; a lock is let go.
Fairness ==
  /\ WF_vars(HostNext)
  /\ WF_vars(DispatchBegins)
  /\ WF_vars(DispatchYields)
  /\ \A i \in Items : WF_vars(DispatchClaims(i)) /\ WF_vars(ConfirmExpires(i)) /\ WF_vars(AgentStarts(i))
  /\ WF_vars(\E c \in calls : TurnsBack(c) \/ HandsOver(c))
  /\ WF_vars(\E c \in calls : Settle(c))
  /\ WF_vars(\E c \in calls : AgentRuns(c) \/ AgentHolds(c) \/ AgentDeclines(c))
  /\ WF_vars(ObserveBegan \/ ObserveNative \/ ObserveStarted \/ ObserveRefused \/ ObserveEnded)
  /\ WF_vars(Reclaim) /\ WF_vars(Unlocks)
  /\ WF_vars(\E outcome \in OUTCOMES : AgentEnds(outcome))

Spec == Init /\ [][Next]_vars
FairSpec == Spec /\ Fairness

----------------------------------------------------------------------------
(* Properties *)

\* While no index write has failed, every copy that is queued or on its way to
\* the agent has a person's wish of its own: the agent never gets a copy nobody
\* asked for, whatever a restart, a late answer, a turn's end, a message taken
\* back or a pause resumed does in between.
NoSilentResendEver ==
  \A i \in Items : Going(i) + (IF store.item[i].state = "queued" THEN 1 ELSE 0) <= wishes[i]
NoSilentResend == spent.saves = 0 => NoSilentResendEver

\* A message leaves as delivered only while the agent has it: a timer, a turn's
\* end or an answer left over from an earlier sending never speaks for a later one.
DeliveredWasTaken ==
  [][\A i \in Items : store'.item[i].state = "delivered" => store.item[i].state = "delivered" \/ took[i] > 0]_vars

\* While no index write has failed, a revision names one state and one text of
\* a message, the text shown and, unless a crash cut an edit in two, the text
\* sent: a device whose request is let through acts on what it read.
RevisionNamesContent ==
  spent.saves = 0 =>
    \A d \in Devices : view[d] # Nothing =>
      LET it == store.item[view[d].item]
      IN  it.state \in PRESENT /\ it.rev = view[d].rev =>
            /\ it.state = view[d].state /\ it.txt = view[d].txt
            /\ spent.cuts = 0 => text[view[d].item] = view[d].txt

\* The dispatcher sends one message at a time, and is busy exactly while it does:
\* neither the sweep nor an early return can start a second or leave it locked.
OneAutomaticSend ==
  /\ \A c, d \in calls : ~c.jump /\ ~d.jump => c = d
  /\ dispatch = "sending" <=> \E c \in calls : ~c.jump

\* No restart that could read the index forgets a message whose add was
\* answered, whichever of the writes before it failed or was cut short.
NothingLost == spent.unread = 0 => InState(store, "lost") = {}

\* A message that left never comes back, also when the index that said so was
\* not saved: its own file went with it.
GoneStaysGone ==
  [][\A i \in Items : store.item[i].state \in {"delivered", "removed"} => store'.item[i].state = store.item[i].state]_vars

\* What a state says to a person: failed and attention both wait for them.
Place(state) ==
  CASE state \in {"failed", "attention"} -> "stopped"
    [] state = "dispatching" -> "sending"
    [] OTHER -> state

\* The queue keeps what MessageDelivery promises: what becomes of each message,
\* how often the agent gets it and on whose request, in any order of calls,
\* answers, reports, timers, persons' requests and restarts.
Delivery == INSTANCE MessageDelivery WITH
  place <- [i \in Items |-> Place(store.item[i].state)], given <- took, wanted <- wishes, sound <- (spent.saves = 0)
ImplementsDelivery == Delivery!Spec

\* Nobody will report on i any more: no call, no timer, not with the agent, no
\* report on the wire and no turn whose end would settle it.
Orphaned(i) ==
  /\ OnItsWay(i) /\ i \notin timers
  /\ \A c \in calls : c.item # i
  /\ \A k \in DOMAIN wire : IF wire[k].kind = "ended" THEN store.item[i].stage # "accepted" ELSE wire[k].item # i \/ wire[k].kind = "began"
  /\ holds[i] = "no" \/ (agent # "claude-code" /\ turn = "idle")
  /\ turn = "idle" \/ store.item[i].stage # "accepted"

\* An open queue that nobody paused sends its next message in the end, unless
\* a message on its way is orphaned.
Waits == open = "yes" /\ store.pause = "no" /\ InState(store, "queued") # {}
QueueGoesOn == []<>(~Waits \/ \E i \in Items : Orphaned(i))

\* Stop pauses the queue: nothing more goes until a person says so.
NothingGoesAfterStop == [][\A c \in calls : HandsOver(c) => store.pause # "stopped"]_vars

\* When a turn ends the Host sends the next message by itself: an idle agent's
\* open queue that nobody paused does not wait for ever.
IdleQueueGoesOn == []<>~(Waits /\ ~Busy)
=============================================================================
