------------------------------ MODULE Workflows ------------------------------
(***************************************************************************)
(* Goals and schedules (server/workflows.js) and their bridge to the       *)
(* agents (server.js).  A run sends an objective to one conversation and   *)
(* keeps going, turn after turn, without a browser.                        *)
(*                                                                         *)
(* Interleaving at the code's awaits: one coroutine per run in flight      *)
(* (launch), one bridge.stop per run being stopped, the tick, whose loops  *)
(* visit schedules and runs one at a time, persons, other users of the     *)
(* same conversations, compactions, and the agents' own turns (external).  *)
(* A Host that stops keeps only the saved state.                           *)
(***************************************************************************)
EXTENDS Naturals, FiniteSets

CONSTANTS
  Runs,           \* places in state.runs; a new run takes a free or a trimmed one
  Schedules,      \* places in state.schedules
  Entries,        \* conversations
  Projects,       \* project folders, none within another
  ProjectOf,      \* the project of each conversation
  GoalOrders,     \* what persons start: [entry, cwd, mode]
  ScheduleOrders, \* what schedules start, once or repeatedly: [entry, cwd, mode, repeats]; entry is the target
  Agent,          \* "pi", "codex" (a send takes time) or "acp" (a send admits at once)
  Slots,          \* runs in flight at once
  MaxTurns,       \* the turn limit of every run
  MaxRetries,     \* the length of RETRY_DELAYS
  MaxComes,       \* bound: how often the time of a schedule comes
  Failing         \* what goes wrong here: "save" (a write of workflows.json), "crash",
                  \* "calendar" (no next time), and of the agents the failures of KINDS

None == "none"
ACTIVE == {"starting", "running", "waiting"}
RESUMABLE == {"paused", "blocked", "interrupted"}
FINISHED == {"limited", "completed", "failed", "stopped"}
\* "free" is a place without a run.
STATUSES == ACTIVE \cup RESUMABLE \cup FINISHED \cup {"queued", "stopping", "free"}
STOPS == {"paused", "stopped", "blocked", "limited"}
\* A coroutine is not there, before bridge.open, in it, in bridge.turn before
\* its last check, in the turn (its waiter is registered), in the pause
\* between turns, in the wait before a retry.
FLIGHTS == {"no", "open", "opening", "ready", "turn", "yield", "sleep"}
\* What failureKind tells apart.
KINDS == {"transient", "quota", "auth", "other"}

Order == [entry : Entries \cup {None}, cwd : Projects, mode : {"goal", "task"}]
Plan == [entry : Entries \cup {None}, cwd : Projects, mode : {"goal", "task"}, repeats : BOOLEAN]
ASSUME OrdersAssumption ==
  /\ ProjectOf \in [Entries -> Projects]
  /\ GoalOrders \subseteq Order /\ ScheduleOrders \subseteq Plan
  /\ \A o \in GoalOrders \cup ScheduleOrders : o.entry # None => o.cwd = ProjectOf[o.entry]
ASSUME NamesAssumption ==
  /\ None \notin Runs \cup Schedules \cup Entries \cup Projects
  /\ {"idle", "user", "compaction"} \cap Runs = {}
ASSUME AgentAssumption == Agent \in {"pi", "codex", "acp"} /\ Failing \subseteq {"save", "crash", "calendar"} \cup KINDS
ASSUME LimitsAssumption == Slots \in Nat /\ MaxTurns \in Nat /\ MaxRetries \in Nat /\ MaxComes \in Nat

VARIABLES
  run,       \* state.runs
  sched,     \* state.schedules
  disk,      \* workflows.json
  healthy,   \* the last save succeeded
  flight,    \* inflight: where each run's coroutine is
  aborted,   \* runs whose AbortController was aborted
  stopper,   \* bridge.stop of each run: "no", "called" (waits for a send) or "asked" (polls the agent)
  ticking,   \* what the tick awaits
  fresh,     \* preparations still holds the tick's admission
  sends,     \* sends not acknowledged yet (workflowDispatches, for Codex)
  owned,     \* workflowOwnedTurns
  native,    \* who works in each conversation: "idle", "user", "compaction" or a run
  comes,     \* how often the time of each schedule has come
  unsure     \* history: runs in a turn when the Host stopped, not resumed since

stored == <<run, sched, disk, healthy>>
coroutines == <<flight, aborted, stopper>>
tickVars == <<ticking, fresh>>
agents == <<sends, owned, native>>
vars == <<stored, coroutines, tickVars, agents, comes, unsure>>

----------------------------------------------------------------------------
(* Types *)

Run == [status : STATUSES, entry : Entries \cup {None}, cwd : Projects \cup {None}, bound : BOOLEAN,
        mode : {"goal", "task"}, sched : Schedules \cup {None}, occ : Nat, again : BOOLEAN, turns : Nat, retries : Nat,
        later : BOOLEAN, stop : STOPS \cup {None}, unconfirmed : BOOLEAN]
\* again is history: the schedule did not leave the occurrence of this run behind.
\* next is the number of the time it waits for, 0 for none.
NoPlan == [entry |-> None, cwd |-> None, mode |-> "goal", repeats |-> FALSE]
Schedule == [is : BOOLEAN, enabled : BOOLEAN, next : Nat, order : Plan \cup {NoPlan}]

NoRun == [status |-> "free", entry |-> None, cwd |-> None, bound |-> FALSE, mode |-> "goal", sched |-> None,
          occ |-> 0, again |-> FALSE, turns |-> 0, retries |-> 0, later |-> FALSE, stop |-> None, unconfirmed |-> FALSE]
NoSchedule == [is |-> FALSE, enabled |-> FALSE, next |-> 0, order |-> NoPlan]
Idle == [what |-> "idle", run |-> None]

\* Every variable keeps its type.
TypeOK ==
  /\ run \in [Runs -> Run] /\ sched \in [Schedules -> Schedule]
  /\ disk \in [run : [Runs -> Run], sched : [Schedules -> Schedule]] /\ healthy \in BOOLEAN
  /\ flight \in [Runs -> FLIGHTS] /\ aborted \subseteq Runs
  /\ stopper \in [Runs -> {"no", "called", "asked"}]
  /\ ticking \in [what : {"stop", "prepare"}, run : Runs] \cup {Idle} /\ fresh \in BOOLEAN
  /\ sends \subseteq Runs /\ owned \subseteq Runs
  /\ native \in [Entries -> {"idle", "user", "compaction"} \cup Runs]
  /\ comes \in [Schedules -> Nat] /\ unsure \subseteq Runs

----------------------------------------------------------------------------
(* What the code asks of the runs *)

InFlight == {r \in Runs : flight[r] # "no"}
Live(r) == healthy /\ r \notin aborted
Pending(r) == run[r].status \in ACTIVE \cup {"queued", "stopping"}

\* A scheduled run that still waits does not reserve its conversation.
Locks(r) == run[r].status \in ACTIVE \cup {"stopping"} \/ (run[r].status = "queued" /\ ~run[r].bound)
Locked(e, except) == e # None /\ \E r \in Runs \ {except} : run[r].entry = e /\ Locks(r)

\* Mutant: a Goal that is paused or needs attention does not count.
BugTargetBusy(e, except) == Locked(e, except)
TargetBusy(e, except) ==
  \/ Locked(e, except)
  \/ \E r \in Runs \ {except} : run[r].entry = e /\ run[r].mode = "goal" /\ run[r].status \in RESUMABLE

\* Mutant: a run that is being stopped no longer counts.
BugProjectBusy(r) == \E q \in Runs \ {r} : run[q].status \in ACTIVE /\ run[q].cwd = run[r].cwd
ProjectBusy(r) ==
  \E q \in Runs \ {r} : (flight[q] # "no" \/ run[q].status \in ACTIVE \cup {"stopping"}) /\ run[q].cwd = run[r].cwd

\* workflowTargetReady: may the bound run go into its conversation?
TargetReady(r) == native[run[r].entry] = "idle" /\ ~TargetBusy(run[r].entry, r)

----------------------------------------------------------------------------
(* Saving and stopping *)

\* bridge.stop of run r, up to what it waits for: a send that is not answered
\* yet, or, when the turn is the run's own, the agent it asked to stop.
BugAsking(r) == IF stopper[r] # "no" THEN stopper[r] ELSE "asked"   \* mutant: without asking whose turn it is
Asking(r) ==
  IF stopper[r] # "no" THEN stopper[r]
  ELSE IF r \in sends /\ Agent = "codex" THEN "called"
  ELSE IF r \in owned THEN "asked" ELSE "no"

\* A handler leaves these runs, schedules and coroutines and saves.  A save that
\* fails ends the handler, its coroutine too, and stops everything in flight.
BugSave(runs, rows, fl, ab, st) ==   \* mutant: a failed save leaves the others alone
  /\ run' = runs /\ sched' = rows
  /\ \/ /\ disk' = IF healthy THEN [run |-> runs, sched |-> rows] ELSE disk
        /\ flight' = fl /\ aborted' = ab /\ stopper' = st
        /\ UNCHANGED healthy
     \/ /\ "save" \in Failing /\ healthy /\ healthy' = FALSE
        /\ flight' = [r \in Runs |-> IF fl[r] = flight[r] THEN fl[r] ELSE "no"]
        /\ UNCHANGED <<disk, aborted, stopper>>
Save(runs, rows, fl, ab, st) ==
  /\ run' = runs /\ sched' = rows
  /\ \/ /\ disk' = IF healthy THEN [run |-> runs, sched |-> rows] ELSE disk
        /\ flight' = fl /\ aborted' = ab /\ stopper' = st
        /\ UNCHANGED healthy
     \/ /\ "save" \in Failing /\ healthy /\ healthy' = FALSE
        /\ flight' = [r \in Runs |-> IF fl[r] = flight[r] THEN fl[r] ELSE "no"]
        /\ aborted' = {r \in Runs : flight'[r] # "no"}
        /\ stopper' = [r \in Runs |-> IF flight'[r] # "no" THEN Asking(r) ELSE stopper[r]]
        /\ UNCHANGED disk

Finished(rec, status) == [rec EXCEPT !.status = status, !.unconfirmed = FALSE]

\* The coroutine of run r goes on at `at`, with its bridge.stop at st.
Goes(r, rec, at, st) ==
  Save([run EXCEPT ![r] = rec], sched, [flight EXCEPT ![r] = at], aborted, [stopper EXCEPT ![r] = st])

BugLeaves(r, rec, st) ==   \* mutant: ended as if it was being stopped
  Save([run EXCEPT ![r] = IF healthy THEN Finished(rec, rec.stop) ELSE rec],
       sched, [flight EXCEPT ![r] = "no"], aborted \ {r}, [stopper EXCEPT ![r] = st])
BugLeaves2(r, rec, st) ==   \* mutant: a run being stopped is not ended
  Save([run EXCEPT ![r] = rec], sched, [flight EXCEPT ![r] = "no"], aborted \ {r}, [stopper EXCEPT ![r] = st])

\* finally: the coroutine is over, and a run being stopped ends with it.
Leaves(r, rec, st) ==
  LET last == IF rec.status = "stopping" /\ healthy THEN Finished(rec, rec.stop) ELSE rec
  IN  Save([run EXCEPT ![r] = last], sched, [flight EXCEPT ![r] = "no"], aborted \ {r}, [stopper EXCEPT ![r] = st])

\* A turn that is tried again is not charged.
Uncounted(r) ==
  [run[r] EXCEPT !.turns = IF flight[r] \in {"ready", "turn"} /\ run[r].turns > 0 THEN run[r].turns - 1 ELSE run[r].turns]

\* catch: what becomes of a run whose step failed.
Fails(r, kind, st) ==
  IF ~Live(r) THEN Leaves(r, run[r], st)
  ELSE \/ /\ kind = "target_busy"
          /\ Goes(r, [Uncounted(r) EXCEPT !.status = "queued"], "no", st)
       \/ /\ kind = "transient" /\ run[r].retries < MaxRetries
          /\ Goes(r, [Uncounted(r) EXCEPT !.retries = run[r].retries + 1], "sleep", st)
       \/ /\ kind = "quota"
          /\ Goes(r, [Uncounted(r) EXCEPT !.status = "queued", !.later = TRUE], "no", st)
       \/ /\ kind \in {"auth", "quota"}
          /\ Leaves(r, Finished(run[r], "blocked"), st)
       \/ /\ kind = "other" \/ (kind = "transient" /\ run[r].retries = MaxRetries)
          /\ Leaves(r, Finished(run[r], "failed"), st)

----------------------------------------------------------------------------
(* The coroutine of a run: launch *)

Starting(r) == [run[r] EXCEPT !.status = "starting", !.later = FALSE, !.stop = None, !.unconfirmed = FALSE]
Launch(r) == Goes(r, Starting(r), "open", stopper[r])

\* bridge.open looks before it opens or resumes the conversation.
OpenChecks(r) ==
  /\ flight[r] = "open"
  /\ LET e == run[r].entry
     IN  IF run[r].bound /\ ~TargetReady(r) THEN Fails(r, "target_busy", stopper[r])
         ELSE IF e # None /\ native[e] = "compaction" THEN Fails(r, "other", stopper[r])
         ELSE IF e # None /\ native[e] # "idle" THEN Fails(r, "transient", stopper[r])
         ELSE flight' = [flight EXCEPT ![r] = "opening"] /\ UNCHANGED <<stored, aborted, stopper>>
  /\ UNCHANGED <<tickVars, agents, comes, unsure>>

\* The next turn, unless a limit is reached: its turns, or its time or tokens.
NextTurn(r, rec) ==
  \/ Leaves(r, Finished(rec, "limited"), stopper[r])
  \/ /\ rec.turns < MaxTurns
     /\ Goes(r, [rec EXCEPT !.turns = rec.turns + 1, !.status = "running"], "ready", stopper[r])

\* A conversation of the project that nothing refers to yet.
Unused(e) ==
  /\ native[e] = "idle" /\ \A q \in Runs : run[q].entry # e
  /\ \A o \in GoalOrders \cup ScheduleOrders : o.entry # e

OpenReturns(r) ==
  /\ flight[r] = "opening"
  /\ \/ \E e \in Entries :
          /\ e = run[r].entry \/ (run[r].entry = None /\ Unused(e) /\ ProjectOf[e] = run[r].cwd)
          /\ LET rec == [run[r] EXCEPT !.entry = e]
             IN  IF Live(r) THEN NextTurn(r, rec) ELSE Leaves(r, rec, stopper[r])
     \/ \E kind \in KINDS \cap Failing : Fails(r, kind, stopper[r])
  /\ UNCHANGED <<tickVars, agents, comes, unsure>>

\* readyToSend, then the send: nothing comes in between.
Readies(r) ==
  /\ flight[r] = "ready"
  /\ LET e == run[r].entry
     IN  IF run[r].bound /\ ~TargetReady(r) THEN Fails(r, "target_busy", stopper[r]) /\ UNCHANGED agents
         ELSE IF native[e] # "idle" THEN Fails(r, "transient", stopper[r]) /\ UNCHANGED agents
         ELSE IF r \in aborted THEN Leaves(r, run[r], stopper[r]) /\ UNCHANGED agents
         ELSE /\ flight' = [flight EXCEPT ![r] = "turn"] /\ UNCHANGED <<stored, aborted, stopper>>
              /\ IF Agent = "acp" THEN /\ owned' = owned \cup {r} /\ native' = [native EXCEPT ![e] = r]
                                       /\ UNCHANGED sends
                                  ELSE sends' = sends \cup {r} /\ UNCHANGED <<owned, native>>
  /\ UNCHANGED <<tickVars, comes, unsure>>

\* A turn's activity; that an approval waits is not saved.
Waits(r) ==
  /\ flight[r] = "turn" /\ r \in owned /\ run[r].status \in {"running", "waiting"}
  /\ run' = [run EXCEPT ![r].status = IF run[r].status = "running" THEN "waiting" ELSE "running"]
  /\ UNCHANGED <<sched, disk, healthy, coroutines, tickVars, agents, comes, unsure>>

YieldOver(r) ==
  /\ flight[r] = "yield"
  /\ IF Live(r) THEN NextTurn(r, run[r]) ELSE Leaves(r, run[r], stopper[r])
  /\ UNCHANGED <<tickVars, agents, comes, unsure>>

\* The wait before a retry is over, or an abort ends it.
SleepOver(r) ==
  /\ flight[r] = "sleep"
  /\ IF Live(r) THEN flight' = [flight EXCEPT ![r] = "open"] /\ UNCHANGED <<stored, aborted, stopper>>
                ELSE Leaves(r, run[r], stopper[r])
  /\ UNCHANGED <<tickVars, agents, comes, unsure>>

----------------------------------------------------------------------------
(* External: the agents, and who else works in their conversations *)

\* An agent takes the prompt; a stop that waited for this asks it to stop.
Accepts(r) ==
  /\ r \in sends /\ native[run[r].entry] = "idle"
  /\ native' = [native EXCEPT ![run[r].entry] = r]
  /\ sends' = sends \ {r} /\ owned' = owned \cup {r}
  /\ stopper' = [stopper EXCEPT ![r] = IF stopper[r] = "called" THEN "asked" ELSE stopper[r]]
  /\ UNCHANGED <<stored, flight, aborted, tickVars, comes, unsure>>

\* Or refuses it, always while someone else works there: a bound run then waits again.
Rejects(r) ==
  /\ r \in sends /\ sends' = sends \ {r}
  /\ LET st == IF stopper[r] = "called" THEN "no" ELSE stopper[r]
     IN  \E kind \in KINDS \cup {"target_busy"} :
           /\ kind = "target_busy" => run[r].bound
           /\ kind \in Failing \/ (kind \in {"other", "target_busy"} /\ native[run[r].entry] # "idle")
           /\ IF flight[r] = "turn" THEN Fails(r, kind, st)
              ELSE stopper' = [stopper EXCEPT ![r] = st] /\ UNCHANGED <<stored, flight, aborted>>
  /\ UNCHANGED <<tickVars, owned, native, comes, unsure>>

\* A turn of a run ends: a task is over; a Goal is complete, blocked (by its
\* own word, or after turns without progress), or goes on.
TurnSucceeds(r) ==
  IF ~Live(r) THEN Leaves(r, run[r], stopper[r])
  ELSE IF run[r].mode = "task" THEN Leaves(r, Finished(run[r], "completed"), stopper[r])
  ELSE \/ \E status \in {"completed", "blocked", "limited"} :
            /\ status = "limited" \/ run[r].turns > 0
            /\ Leaves(r, Finished([run[r] EXCEPT !.retries = 0], status), stopper[r])
       \/ /\ run[r].turns < MaxTurns
          /\ Goes(r, [run[r] EXCEPT !.retries = 0], "yield", stopper[r])

TurnEnds(r) ==
  /\ \E e \in Entries : native[e] = r /\ native' = [native EXCEPT ![e] = "idle"]
  /\ IF flight[r] = "turn"
     THEN /\ owned' = owned \ {r}
          /\ TurnSucceeds(r) \/ \E kind \in KINDS \cap Failing : Fails(r, kind, stopper[r])
     ELSE UNCHANGED <<owned, stored, flight, aborted, stopper>>
  /\ UNCHANGED <<tickVars, sends, comes, unsure>>

\* Someone works in a conversation, through the Host or not, or compacts it,
\* which the Host starts only without an active Goal.
OthersBegin(e) ==
  /\ native[e] = "idle"
  /\ \E who \in {"user", "compaction"} :
       /\ who = "compaction" => ~Locked(e, None)
       /\ native' = [native EXCEPT ![e] = who]
  /\ UNCHANGED <<stored, coroutines, tickVars, sends, owned, comes, unsure>>

OthersEnd(e) ==
  /\ native[e] \in {"user", "compaction"} /\ native' = [native EXCEPT ![e] = "idle"]
  /\ UNCHANGED <<stored, coroutines, tickVars, sends, owned, comes, unsure>>

----------------------------------------------------------------------------
(* Stopping a run *)

StopRun(r, status) ==
  /\ fresh' = (fresh /\ ~(ticking.what = "prepare" /\ ticking.run = r))
  /\ IF flight[r] = "no"
     THEN Save([run EXCEPT ![r] = Finished(run[r], status)], sched, flight, aborted, stopper)
     ELSE Save([run EXCEPT ![r] = [run[r] EXCEPT !.status = "stopping", !.stop = status, !.unconfirmed = FALSE]],
               sched, flight, aborted \cup {r}, [stopper EXCEPT ![r] = Asking(r)])

BugStopConfirmed(r) ==   \* mutant: without looking
  /\ stopper[r] = "asked"
  /\ IF flight[r] = "turn"
     THEN Fails(r, "other", "no") /\ owned' = owned \ {r}
     ELSE stopper' = [stopper EXCEPT ![r] = "no"] /\ UNCHANGED <<stored, flight, aborted, owned>>
  /\ UNCHANGED <<tickVars, sends, native, comes, unsure>>

\* bridge.stop sees the conversation idle, and ends the waiter if it still waits.
StopConfirmed(r) ==
  /\ stopper[r] = "asked" /\ native[run[r].entry] = "idle"
  /\ IF flight[r] = "turn"
     THEN Fails(r, "other", "no") /\ owned' = owned \ {r}
     ELSE stopper' = [stopper EXCEPT ![r] = "no"] /\ UNCHANGED <<stored, flight, aborted, owned>>
  /\ UNCHANGED <<tickVars, sends, native, comes, unsure>>

BugStopGivesUp(r) ==   \* mutant: the error is not kept
  /\ stopper[r] = "asked" /\ native[run[r].entry] # "idle"
  /\ Goes(r, run[r], flight[r], "no")
  /\ UNCHANGED <<tickVars, agents, comes, unsure>>

\* It was never seen idle: the agent refused to stop or went on too long.
StopGivesUp(r) ==
  /\ stopper[r] = "asked" /\ native[run[r].entry] # "idle"
  /\ Goes(r, [run[r] EXCEPT !.unconfirmed = TRUE], flight[r], "no")
  /\ UNCHANGED <<tickVars, agents, comes, unsure>>

----------------------------------------------------------------------------
(* The tick *)

Ticks == healthy /\ ticking = Idle

\* A place for one more run: a free one, or that of a run that is over.
Room(r) ==
  /\ \/ run[r].status = "free"
     \/ run[r].status \in FINISHED /\ \A q \in Runs : run[q].status # "free"
  /\ r \notin sends \cup owned /\ stopper[r] = "no" /\ \A e \in Entries : native[e] # r

NewRun(o, s, n) ==
  [NoRun EXCEPT !.status = "queued", !.entry = o.entry, !.cwd = o.cwd, !.mode = o.mode,
                !.bound = (s # None /\ o.entry # None), !.sched = s, !.occ = n]

\* Makes a run for schedule s, and row its schedule, in one save.
BugMakes(r, s, n, row) ==   \* mutant: the schedule is not saved with its run
  /\ run' = [run EXCEPT ![r] = NewRun(sched[s].order, s, n)] /\ sched' = [sched EXCEPT ![s] = row]
  /\ disk' = [run |-> run', sched |-> sched] /\ unsure' = unsure \ {r}
  /\ UNCHANGED <<healthy, flight, aborted, stopper>>
Makes(r, s, n, row) ==
  /\ Save([run EXCEPT ![r] = NewRun(sched[s].order, s, n)], [sched EXCEPT ![s] = row], flight, aborted, stopper)
  /\ unsure' = unsure \ {r}

\* An occurrence is due.  Missed ones are one; it waits for the one before.
Due(s) ==
  /\ sched[s].is /\ sched[s].enabled /\ sched[s].next # 0 /\ sched[s].next <= comes[s]
  /\ \A q \in Runs : run[q].sched = s => ~Pending(q)

TickFires(s, r) ==
  LET row == sched[s]
  IN  /\ Ticks /\ Due(s) /\ Room(r)
      /\ Makes(r, s, row.next, [row EXCEPT !.enabled = row.order.repeats, !.next = IF row.order.repeats THEN comes[s] + 1 ELSE 0])
      /\ UNCHANGED <<tickVars, agents, comes>>

\* nextOccurrence finds no next time (a weekly time that the next clock change
\* skips) and throws: the tick is over with the run made, in memory only, and
\* the time of the schedule still due.
TickSlips(s, r) ==
  /\ "calendar" \in Failing /\ Ticks /\ Due(s) /\ sched[s].order.repeats /\ Room(r)
  /\ run' = [run EXCEPT ![r] = [NewRun(sched[s].order, s, sched[s].next) EXCEPT !.again = TRUE]]
  /\ unsure' = unsure \ {r}
  /\ UNCHANGED <<sched, disk, healthy, coroutines, tickVars, agents, comes>>

\* A run is out of time or tokens, or its approval waited too long.
TickStops(r) ==
  /\ Ticks /\ run[r].status \in ACTIVE
  /\ \E status \in {"limited", "blocked"} :
       /\ status = "blocked" => run[r].status = "waiting" /\ flight[r] = "turn"
       /\ StopRun(r, status)
  /\ ticking' = IF stopper'[r] # "no" /\ healthy' THEN [what |-> "stop", run |-> r] ELSE Idle
  /\ UNCHANGED <<agents, comes, unsure>>

TickSaves(r) ==
  /\ Ticks /\ run[r].status \in ACTIVE
  /\ Save(run, sched, flight, aborted, stopper)
  /\ UNCHANGED <<tickVars, agents, comes, unsure>>

\* A queued run starts; a bound one when its conversation has been looked at.
TickAdmits(r) ==
  /\ Ticks /\ run[r].status = "queued" /\ flight[r] = "no"
  /\ Cardinality(InFlight) < Slots /\ ~run[r].later /\ ~ProjectBusy(r)
  /\ IF run[r].bound
     THEN /\ ~TargetBusy(run[r].entry, r)
          /\ ticking' = [what |-> "prepare", run |-> r] /\ fresh' = TRUE
          /\ UNCHANGED <<stored, coroutines>>
     ELSE Launch(r) /\ UNCHANGED tickVars
  /\ UNCHANGED <<agents, comes, unsure>>

\* bridge.prepare answers, as of some moment before now.
TickPrepared(r) ==
  LET current == fresh /\ run[r].status = "queued" /\ healthy
  IN  /\ ticking = [what |-> "prepare", run |-> r]
      /\ ticking' = Idle /\ fresh' = FALSE
      /\ \/ UNCHANGED <<stored, coroutines>>   \* busy, or not current
         \/ current /\ Launch(r)
         \/ /\ current /\ "other" \in Failing
            /\ Save([run EXCEPT ![r] = Finished(run[r], "failed")], sched, flight, aborted, stopper)
      /\ UNCHANGED <<agents, comes, unsure>>

\* The stop it waited for returned.
TickGoesOn ==
  /\ ticking.what = "stop" /\ stopper[ticking.run] = "no"
  /\ ticking' = Idle
  /\ UNCHANGED <<stored, coroutines, fresh, agents, comes, unsure>>

\* The clock: a schedule's time comes, a usage limit is reset.
TimeComes(s) ==
  /\ comes[s] < MaxComes /\ comes' = [comes EXCEPT ![s] = comes[s] + 1]
  /\ UNCHANGED <<stored, coroutines, tickVars, agents, unsure>>
ResetComes(r) ==
  /\ run[r].later /\ run' = [run EXCEPT ![r].later = FALSE]
  /\ UNCHANGED <<sched, disk, healthy, coroutines, tickVars, agents, comes, unsure>>

----------------------------------------------------------------------------
(* Persons *)

CreateGoal(r, o) ==
  /\ healthy /\ Room(r) /\ ~Locked(o.entry, None)
  /\ o.entry # None => native[o.entry] # "compaction"
  /\ Save([run EXCEPT ![r] = NewRun(o, None, 0)], sched, flight, aborted, stopper)
  /\ unsure' = unsure \ {r}
  /\ UNCHANGED <<tickVars, agents, comes>>

RunNow(s, r) ==
  /\ healthy /\ sched[s].is /\ Room(r)
  /\ \A q \in Runs : run[q].sched = s => ~Pending(q)
  /\ Makes(r, s, 0, sched[s])
  /\ UNCHANGED <<tickVars, agents, comes>>

\* Create or edit, pause, resume, delete a schedule.  A schedule that fires once
\* and whose time is past is not resumed: it has lost its time, and nothing is saved.
SetSchedule(s) ==
  LET row == sched[s]
      Set(new) == Save(run, [sched EXCEPT ![s] = new], flight, aborted, stopper)
  IN  /\ healthy
      /\ \/ \E o \in ScheduleOrders, enabled \in BOOLEAN :
              /\ row.is \/ enabled
              /\ Set([is |-> TRUE, enabled |-> enabled, next |-> comes[s] + 1, order |-> o])
         \/ row.is /\ Set([row EXCEPT !.enabled = FALSE])
         \/ row.is /\ row.order.repeats /\ Set([row EXCEPT !.enabled = TRUE, !.next = comes[s] + 1])
         \/ row.is /\ ~row.order.repeats /\ row.next > comes[s] /\ Set([row EXCEPT !.enabled = TRUE])
         \/ /\ row.is /\ ~row.order.repeats /\ row.next <= comes[s]
            /\ sched' = [sched EXCEPT ![s].next = 0] /\ UNCHANGED <<run, disk, healthy, coroutines>>
         \/ row.is /\ Set(NoSchedule)
      /\ UNCHANGED <<tickVars, agents, comes, unsure>>

\* Pause, and Stop, which takes a run that waits too; Remove stops one that waits.
PersonStops(r) ==
  /\ healthy
  /\ \E status \in {"paused", "stopped"} :
       /\ \/ run[r].status \in ACTIVE \cup {"queued"}
          \/ status = "stopped" /\ run[r].status \in RESUMABLE
          \/ status = "stopped" /\ run[r].status = "stopping" /\ run[r].unconfirmed
       /\ StopRun(r, status)
  /\ UNCHANGED <<ticking, agents, comes, unsure>>

Resume(r) ==
  /\ healthy /\ run[r].status \in RESUMABLE /\ flight[r] = "no"
  /\ ~Locked(run[r].entry, None) /\ run[r].turns < MaxTurns
  /\ Save([run EXCEPT ![r] = [run[r] EXCEPT !.status = "queued", !.later = FALSE, !.retries = 0, !.unconfirmed = FALSE]],
          sched, flight, aborted, stopper)
  /\ unsure' = unsure \ {r}
  /\ UNCHANGED <<tickVars, agents, comes>>

----------------------------------------------------------------------------
(* The Host stops and starts again.  What still works then is not the Host's. *)

BugInterrupted(rec) ==   \* mutant: a run whose approval waited is forgotten
  IF rec.status \in {"starting", "running", "stopping"} THEN [rec EXCEPT !.status = "interrupted"] ELSE rec
\* A send whose outcome is not known is never replayed.
Interrupted(rec) ==
  IF rec.status \in ACTIVE \cup {"stopping"} THEN [rec EXCEPT !.status = "interrupted", !.unconfirmed = TRUE] ELSE rec

Restart ==
  /\ "crash" \in Failing
  /\ run' = [r \in Runs |-> Interrupted(disk.run[r])]
  /\ sched' = disk.sched /\ disk' = [run |-> run', sched |-> sched'] /\ healthy' = TRUE
  /\ flight' = [r \in Runs |-> "no"] /\ aborted' = {} /\ stopper' = [r \in Runs |-> "no"]
  /\ ticking' = Idle /\ fresh' = FALSE /\ sends' = {} /\ owned' = {}
  /\ \E still \in SUBSET {e \in Entries : native[e] # "idle"} :
       native' = [e \in Entries |-> IF e \in still THEN "user" ELSE "idle"]
  /\ unsure' = unsure \cup {r \in Runs : flight[r] = "turn"}
  /\ UNCHANGED comes

----------------------------------------------------------------------------
Init ==
  /\ run = [r \in Runs |-> NoRun] /\ sched = [s \in Schedules |-> NoSchedule]
  /\ disk = [run |-> run, sched |-> sched] /\ healthy = TRUE
  /\ flight = [r \in Runs |-> "no"] /\ aborted = {} /\ stopper = [r \in Runs |-> "no"]
  /\ ticking = Idle /\ fresh = FALSE
  /\ sends = {} /\ owned = {} /\ native = [e \in Entries |-> "idle"]
  /\ comes = [s \in Schedules |-> 0] /\ unsure = {}

Coroutine(r) == OpenChecks(r) \/ OpenReturns(r) \/ Readies(r) \/ YieldOver(r) \/ SleepOver(r)
Next ==
  \/ \E r \in Runs : Coroutine(r) \/ Waits(r) \/ StopConfirmed(r) \/ StopGivesUp(r)
  \/ \E r \in Runs : Accepts(r) \/ Rejects(r) \/ TurnEnds(r)
  \/ \E e \in Entries : OthersBegin(e) \/ OthersEnd(e)
  \/ \E r \in Runs : TickStops(r) \/ TickSaves(r) \/ TickAdmits(r) \/ TickPrepared(r) \/ ResetComes(r)
  \/ \E s \in Schedules, r \in Runs : TickFires(s, r) \/ TickSlips(s, r) \/ RunNow(s, r)
  \/ \E s \in Schedules : TimeComes(s) \/ SetSchedule(s)
  \/ \E r \in Runs : PersonStops(r) \/ Resume(r)
  \/ \E r \in Runs, o \in GoalOrders : CreateGoal(r, o)
  \/ TickGoesOn \/ Restart

Spec == Init /\ [][Next]_vars

\* The Host runs what it started, a send is answered (the transports time out),
\* and bridge.stop polls sixty times at most.  No turn need ever end, no person act.
Fairness == \A r \in Runs :
  /\ WF_vars(Coroutine(r)) /\ WF_vars(Accepts(r) \/ Rejects(r))
  /\ WF_vars(StopConfirmed(r) \/ StopGivesUp(r))
FairSpec == Spec /\ Fairness

----------------------------------------------------------------------------
(* Properties *)

\* Two runs in flight never share a project: neither what is being stopped and
\* not settled yet, nor what a bound run's preparation overtook, is forgotten
\* (projectBusy).
OneRunPerProject == \A r, q \in InFlight : r # q => run[r].cwd # run[q].cwd

\* A scheduled run bound to a conversation is never in a turn there while a
\* person's own Goal holds it, under way or waiting for that person, however
\* that Goal came between the run's admission and its send (targetBusy).
PersonsGoalFirst == \A r, q \in Runs :
  (/\ flight[r] = "turn" /\ run[r].bound /\ healthy
   /\ run[q].entry = run[r].entry /\ run[q].mode = "goal" /\ ~run[q].bound)
    => ~(Locks(q) \/ run[q].status \in RESUMABLE)

\* A run that was in a turn when the Host stopped is never sent again before a
\* person resumes it.
InterruptedWaits == \A r \in unsure : run[r].status \notin ACTIVE \cup {"queued", "stopping"}

\* One occurrence of a schedule makes one run, whatever crash or failed write
\* comes between firing it and sending it; more only when the calendar finds no
\* next time as it fires.  It then fires again whenever its run is over, although
\* "DST gaps are skipped and folded wall times run once" (nextOccurrence).
FireOnce == \A r, q \in Runs :
  (/\ run[r].sched # None /\ run[r].sched = run[q].sched /\ run[r].occ = run[q].occ /\ run[r].occ # 0
   /\ ~run[r].again /\ ~run[q].again) => r = q

\* A stop that returned without complaint leaves no turn of its run at work.
StopIsQuiet == \A r \in Runs, e \in Entries :
  native[e] = r => ~(healthy /\ run[r].status = "stopping" /\ ~run[r].unconfirmed /\ stopper[r] = "no")

\* The Host waits for every turn it started: no waiter is released while its
\* turn is at work ("The bridge does not release its waiter until native work
\* has settled", workflows.js).
WaiterKept == \A r \in Runs, e \in Entries : native[e] = r => flight[r] = "turn"

\* Only a run's own turn is ever asked to stop, never a user's or another run's.
\* (Of a run whose waiter a stale stop has released this does not hold.)
OnlyOwnTurns == [][\A r \in Runs :
  (stopper[r] # "asked" /\ stopper'[r] = "asked") => native'[run[r].entry] = r]_vars

\* "Could not save tasks; no further work will be started": after a failed save
\* no send begins, and a prompt that a send under way still hands to its agent
\* is asked to stop as soon as it is taken, unless a stop of that run has
\* already said that it could not be confirmed.  (A Pi send, which no stop
\* waits for, hands its prompt over unasked.)
BeginsSend(r) == r \notin sends \cup owned /\ r \in sends' \cup owned'
TakesPrompt(r) == flight[r] = "turn" /\ \E e \in Entries : native[e] # r /\ native'[e] = r
NothingUnsaved == [][\A r \in Runs : ~healthy =>
  ~BeginsSend(r) /\ (TakesPrompt(r) => stopper'[r] = "asked" \/ run[r].unconfirmed)]_vars

\* A run that is being stopped settles or says that it could not be confirmed,
\* although its turn may never end by itself.
StopSettles == \A r \in Runs :
  (run[r].status = "stopping" /\ ~run[r].unconfirmed) ~> (run[r].status # "stopping" \/ run[r].unconfirmed \/ ~healthy)
=============================================================================
