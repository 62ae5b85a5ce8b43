------------------------------ MODULE AgentTasks ------------------------------
(***************************************************************************)
(* One agent task: a CLI owned by a detached supervisor                    *)
(* (server/agent-task-supervisor.js), the Host's task service that         *)
(* attaches to the supervisor over a socket (server/agent-connectors.js),  *)
(* and the durable journal of the task's run, approvals and receipts       *)
(* (server/generic-session-journal.js, protocol/transaction-state.js,      *)
(* public/modules/lifecycle.js).                                           *)
(*                                                                         *)
(* The supervisor and its CLI live on when the Host stops; the Host reads  *)
(* what it missed when it attaches again.  A person's answer to an         *)
(* approval is committed before it is sent, and the run goes on only when  *)
(* the CLI has acknowledged it.                                            *)
(***************************************************************************)
EXTENDS Naturals, Sequences

CONSTANTS
  Approval,    \* approvals the CLI may ask for
  MaxUpsets,   \* bound: stops of the Host or of the task, connections that break,
               \* journal calls that are refused or not answered
  MaxTail      \* bound: a person decides while fewer operations than this wait

ASSUME BoundsAssumption == {MaxUpsets, MaxTail} \subseteq Nat

VARIABLES
  \* the CLI and its supervisor
  cli,       \* where the CLI is with each approval
  got,       \* how often the CLI was given a decision
  sup,       \* the supervisor and the status it keeps
  stopped,   \* the supervisor's stopRequested
  reused,    \* the supervisor's pid is another process's now
  log,       \* the supervisor's events
  \* the connection
  linked,    \* the supervisor has the Host's socket among its clients
  up, down,  \* what is on its way to the supervisor and to the Host
  \* the Host's task object
  host,
  \* the journal, durable
  run, approval, receipt, expired,
  \* how often the bounded things have happened
  upsets

cliVars == <<cli, got, sup, stopped, reused, log>>
wire == <<linked, up, down>>
journal == <<run, approval, receipt>>
vars == <<cliVars, wire, host, journal, expired, upsets>>

----------------------------------------------------------------------------
(* Types *)

\* launching: its socket is not open yet; ended: completed, failed or stopped
\* (its metadata file says so); gone: the process has exited after that; dead:
\* it was killed, or the machine was restarted.
SUPS == {"launching", "running", "ended", "gone", "dead"}
\* "ended" stands for completed, failed and stopped.
STATUSES == {"starting", "running", "waiting", "reconnecting", "ended", "orphaned"}
Terminal(s) == s \in {"ended", "orphaned"}
RUNS == {"starting", "running", "waiting", "ended", "orphaned"}
APPROVALS == {"none", "pending", "decided", "acked", "over"}
UPSETS == {"crash", "break", "refusal", "stop"}
RECEIPTS == {"none", "accepted", "dispatching", "awaiting", "succeeded", "failed", "uncertain"}

Event == [type : {"request", "ack"}, of : Approval] \cup [type : {"status", "exit"}]
Message == [type : {"snapshot"}, seq : Nat, status : {"running", "ended"}] \cup
           [type : {"event"}, seq : Nat] \cup [type : {"close"}]
Command == [op : {"attach"}, after : Nat] \cup [op : {"resolve"}, of : Approval] \cup [op : {"stop"}]
\* Operations on the journal; an answer to an approval is admitted, dispatched
\* (two transactions) and then sent.
Operation == [op : {"request", "admit", "dispatch", "send", "pipe", "ack"}, of : Approval] \cup
             [op : {"start", "resume", "terminal", "orphaned"}]

Task == [status   : STATUSES,
         control  : {"none", "opening", "ready"},  \* task.control, controlReady
         cursor   : Nat,             \* supervisorEventSeq
         pcursor  : Nat,             \* supervisorProtocolEventSeq
         observed : SUBSET Approval, \* approvalState
         shut     : BOOLEAN,         \* approvalState is closed
         tail     : Seq(Operation),  \* journalTail
         ready    : BOOLEAN,         \* journalState, and the journal's client lives
         started  : BOOLEAN,         \* journalStarted
         terminal : BOOLEAN,         \* journalTerminal
         settled  : BOOLEAN,         \* settledNotified
         timer    : BOOLEAN,         \* reconnectTimer, or an attempt that is due
         opening  : BOOLEAN,         \* open has not answered yet
         stopping : {"no", "asked", "sent"}] \* stopPromise, sentOn

\* Every variable keeps its type.
TypeOK ==
  /\ cli \in [Approval -> {"idle", "asked", "answered", "acked"}]
  /\ got \in [Approval -> Nat] /\ sup \in SUPS /\ stopped \in BOOLEAN /\ reused \in BOOLEAN /\ log \in Seq(Event)
  /\ linked \in BOOLEAN /\ up \in Seq(Command) /\ down \in Seq(Message)
  /\ host \in Task
  /\ run \in RUNS /\ approval \in [Approval -> APPROVALS] /\ receipt \in [Approval -> RECEIPTS]
  /\ expired \subseteq Approval
  /\ upsets \in [UPSETS -> Nat]

Upset(u) ==
  /\ upsets["crash"] + upsets["break"] + upsets["refusal"] + upsets["stop"] < MaxUpsets
  /\ upsets' = [upsets EXCEPT ![u] = @ + 1]

----------------------------------------------------------------------------
(* The Host's task object *)

Active(h) == ~Terminal(h.status)

\* queueCanonical
Queued(h, operation) == IF h.ready THEN [h EXCEPT !.tail = Append(@, operation)] ELSE h
RecordStart(h) ==
  IF h.started \/ ~h.ready THEN h ELSE Queued([h EXCEPT !.started = TRUE], [op |-> "start"])
RecordEnd(h, operation) == IF h.terminal THEN h ELSE Queued(h, [op |-> operation])
NotifySettled(h) == IF Terminal(h.status) THEN [h EXCEPT !.settled = TRUE] ELSE h

SetStatus(h, s) ==
  LET g == [h EXCEPT !.status = s, !.shut = @ \/ Terminal(s)]
  IN CASE s = "running"  -> RecordStart(g)
       [] s = "ended"    -> NotifySettled(RecordEnd(g, "terminal"))
       [] s = "orphaned" -> NotifySettled(RecordEnd(g, "orphaned"))
       [] OTHER          -> g

\* applySupervisorSnapshot and what connectSupervisor does with it
Snapshot(h, m) ==
  LET g == [h EXCEPT !.cursor = IF m.seq >= @ THEN m.seq ELSE @, !.status = m.status, !.shut = @ \/ Terminal(m.status),
                     !.control = "ready", !.timer = FALSE]
  IN IF h.status = "reconnecting" THEN SetStatus(g, m.status) ELSE g

\* handleSupervisorEvent of a structured observation: a cursor of its own.
Observe(h, seq, a) ==
  LET g == [h EXCEPT !.pcursor = seq, !.cursor = IF seq > @ THEN seq ELSE @]
  IN IF seq <= h.pcursor THEN h
     ELSE IF Terminal(h.status) \/ h.shut \/ a \in h.observed THEN g
     ELSE Queued([g EXCEPT !.observed = @ \cup {a}], [op |-> "request", of |-> a])

\* Mutant: the CLI's exit is a status of its own.
BugExit(h) == [h EXCEPT !.status = "exited", !.control = "none", !.timer = FALSE]
\* task_exit: the control socket is given up at once.
Exit(h) ==
  LET g == IF h.status = "ended" THEN h ELSE SetStatus(h, "ended")
  IN NotifySettled([g EXCEPT !.control = "none", !.timer = FALSE, !.stopping = IF @ = "sent" THEN "asked" ELSE @])

\* handleSupervisorEvent of the others
Handle(h, seq, e) ==
  LET g == [h EXCEPT !.cursor = seq]
  IN CASE e.type = "request"                -> Observe(h, seq, e.of)
       [] e.type # "request" /\ seq <= h.cursor -> h
       [] e.type = "ack" /\ seq > h.cursor    -> IF Terminal(h.status) THEN g ELSE Queued(g, [op |-> "ack", of |-> e.of])
       [] e.type = "status" /\ seq > h.cursor -> SetStatus(g, "ended")
       [] e.type = "exit" /\ seq > h.cursor   -> Exit(g)

\* Mutant: a socket that closes while the task reconnects is not tried again.
BugCloses(h) ==
  LET g == [h EXCEPT !.control = "none", !.stopping = IF @ = "sent" THEN "asked" ELSE @]
  IN IF Terminal(h.status) \/ h.status = "reconnecting" THEN g
     ELSE [SetStatus(g, "reconnecting") EXCEPT !.timer = TRUE]
\* The control socket's close, and scheduleSupervisorReconnect
Closes(h) ==
  LET g == [h EXCEPT !.control = "none", !.stopping = IF @ = "sent" THEN "asked" ELSE @]
  IN IF Terminal(h.status) THEN g
     ELSE IF h.status = "reconnecting" THEN [g EXCEPT !.timer = TRUE]
     ELSE [SetStatus(g, "reconnecting") EXCEPT !.timer = TRUE]

----------------------------------------------------------------------------
(* The journal: one operation of the task's tail at a time *)

Unsettled == {a \in Approval : approval[a] \in {"pending", "decided"}}

\* The planners' and the reducers' conditions
Accepts(o) ==
  CASE o.op = "start"    -> run = "starting"
    [] o.op = "request"  -> run \in {"running", "waiting"} /\ approval[o.of] = "none" /\ o.of \notin expired
    [] o.op = "admit"    -> run = "waiting" /\ approval[o.of] = "pending" /\ o.of \notin expired
    [] o.op = "dispatch" -> run = "waiting" /\ receipt[o.of] = "accepted" /\ o.of \notin expired
    [] o.op = "pipe"     -> receipt[o.of] = "dispatching"
    [] o.op = "ack"      -> receipt[o.of] = "awaiting"
    [] o.op = "resume"   -> run = "waiting" /\ Unsettled = {}
    [] o.op = "terminal" -> run # "ended"
    [] o.op = "orphaned" -> run \notin {"ended", "orphaned"}
    [] OTHER             -> FALSE

\* Mutant: a run that ends takes what was sent to it for taken.
BugRunEnds ==
  /\ run' = "ended"
  /\ approval' = [a \in Approval |-> IF approval[a] = "pending" THEN "over" ELSE approval[a]]
  /\ receipt' = [a \in Approval |-> CASE receipt[a] = "accepted" -> "failed"
                                      [] receipt[a] \in {"dispatching", "awaiting"} -> "succeeded"
                                      [] OTHER -> receipt[a]]
\* planRunTerminal: no decision is left open, no delivery is claimed.
RunEnds ==
  /\ run' = "ended"
  /\ approval' = [a \in Approval |-> IF approval[a] = "pending" THEN "over" ELSE approval[a]]
  /\ receipt' = [a \in Approval |-> CASE receipt[a] = "accepted" -> "failed"
                                      [] receipt[a] \in {"dispatching", "awaiting"} -> "uncertain"
                                      [] OTHER -> receipt[a]]

\* Mutant: what the socket took counts as taken by the CLI.
BugReceives(a, state) == receipt' = [receipt EXCEPT ![a] = IF state = "awaiting" THEN "succeeded" ELSE state]
Receives(a, state) == receipt' = [receipt EXCEPT ![a] = state]
Decides(a, state) == approval' = [approval EXCEPT ![a] = state]

Commits(o) ==
  \/ o.op = "start" /\ run' = "running" /\ UNCHANGED <<approval, receipt>>
  \/ o.op = "request" /\ run' = "waiting" /\ Decides(o.of, "pending") /\ UNCHANGED receipt
  \/ o.op = "admit" /\ Decides(o.of, "decided") /\ Receives(o.of, "accepted") /\ UNCHANGED run
  \/ o.op = "dispatch" /\ Receives(o.of, "dispatching") /\ UNCHANGED <<run, approval>>
  \/ o.op = "pipe" /\ Receives(o.of, "awaiting") /\ UNCHANGED <<run, approval>>
  \/ o.op = "ack" /\ Decides(o.of, "acked") /\ Receives(o.of, "succeeded") /\ UNCHANGED run
  \/ o.op = "resume" /\ run' = "running" /\ UNCHANGED <<approval, receipt>>
  \/ o.op = "terminal" /\ RunEnds
  \/ o.op = "orphaned" /\ run' = "orphaned" /\ UNCHANGED <<approval, receipt>>

Popped(h) == [h EXCEPT !.tail = Tail(@)]

\* What the Host does with a committed operation
After(h, o) ==
  CASE o.op = "request"  -> IF Terminal(h.status) THEN Popped(h) ELSE SetStatus(Popped(h), "waiting")
    [] o.op = "admit"    -> [h EXCEPT !.tail[1].op = "dispatch"]
    [] o.op = "dispatch" -> [h EXCEPT !.tail[1].op = "send"]
    [] o.op = "ack"      -> Queued(Popped(h), [op |-> "resume"])
    [] o.op = "resume"   -> SetStatus(Popped(h), "running")
    [] o.op = "terminal" -> [Popped(h) EXCEPT !.terminal = TRUE]
    [] OTHER             -> Popped(h)

\* Mutant: a decision that was made before is sent once more.
BugReplayed(h, o) == IF o.op = "admit" THEN [h EXCEPT !.tail[1].op = "send"] ELSE Popped(h)
\* A run that is over already, an approval that is acknowledged already: replays.
Replayed(h, o) ==
  CASE o.op = "terminal" /\ run = "ended"               -> After(h, o)
    [] o.op = "ack" /\ receipt[o.of] = "succeeded"      -> After(h, o)
    [] OTHER                                            -> Popped(h)

InTail(op) == host.tail # <<>> /\ Head(host.tail).op = op
Calls == host.tail # <<>> /\ ~InTail("send")

JournalRuns ==
  /\ Calls
  /\ LET o == Head(host.tail)
     IN IF Accepts(o) THEN Commits(o) /\ host' = After(host, o)
                      ELSE UNCHANGED journal /\ host' = Replayed(host, o)
  /\ UNCHANGED <<cliVars, wire, expired, upsets>>

\* journal_busy; or a run that never started did not complete (run_conflict).
JournalRefuses ==
  /\ Calls
  /\ \/ Upset("refusal")
     \/ InTail("terminal") /\ run = "starting" /\ UNCHANGED upsets
  /\ host' = Popped(host)
  /\ UNCHANGED <<cliVars, wire, journal, expired>>

\* A call is not answered in time: the client is given up for the Host's life
\* and every call is answered journal_result_uncertain, this one committed or not.
JournalFails ==
  /\ Calls /\ Upset("refusal")
  /\ \/ Accepts(Head(host.tail)) /\ Commits(Head(host.tail))
     \/ UNCHANGED journal
  /\ host' = [host EXCEPT !.ready = FALSE, !.tail = <<>>]
  /\ UNCHANGED <<cliVars, wire, expired>>

\* resolveApprovalDurable: a person decides, on any device, once or again.
Resolve(a) ==
  /\ host.ready /\ ~Terminal(host.status) /\ approval[a] # "none"
  /\ Len(host.tail) < MaxTail
  /\ host' = Queued(host, [op |-> "admit", of |-> a])
  /\ UNCHANGED <<cliVars, wire, journal, expired, upsets>>

\* Mutant: nobody records that the pipe took the decision.
BugSends ==
  /\ InTail("send") /\ host' = Popped(host)
  /\ up' = IF host.control = "ready" THEN Append(up, [op |-> "resolve", of |-> Head(host.tail).of]) ELSE up
  /\ UNCHANGED <<cliVars, linked, down, journal, expired, upsets>>
\* resolveApprovalDurable, after its dispatch is committed: writeControl, and
\* the record that the pipe took it.
Sends ==
  /\ InTail("send")
  /\ LET a == Head(host.tail).of
     IN IF host.control = "ready"
        THEN /\ up' = Append(up, [op |-> "resolve", of |-> a])
             /\ host' = Queued(Popped(host), [op |-> "pipe", of |-> a])
        ELSE /\ host' = Popped(host)
             /\ UNCHANGED up
  /\ UNCHANGED <<cliVars, linked, down, journal, expired, upsets>>

Expires(a) ==
  /\ cli[a] # "idle" /\ expired' = expired \cup {a}
  /\ UNCHANGED <<cliVars, wire, host, journal, upsets>>

----------------------------------------------------------------------------
(* The supervisor and its CLI *)

Listens == sup \in {"running", "ended"}
Alive == sup \in {"launching", "running", "ended"}

\* pushEvent: kept for replay, and to the socket that is attached.
Pushes(events) ==
  /\ log' = log \o events
  /\ down' = IF linked THEN down \o [i \in DOMAIN events |-> [type |-> "event", seq |-> Len(log) + i]] ELSE down

\* The socket is open and the CLI is started; both go before any connection.
Launched ==
  /\ sup = "launching" /\ sup' = "running"
  /\ UNCHANGED <<cli, got, stopped, reused, log, wire, host, journal, expired, upsets>>

Asks(a) ==
  /\ sup = "running" /\ cli[a] = "idle"
  /\ cli' = [cli EXCEPT ![a] = "asked"]
  /\ Pushes(<<[type |-> "request", of |-> a]>>)
  /\ UNCHANGED <<got, sup, stopped, reused, linked, up, host, journal, expired, upsets>>

Acks(a) ==
  /\ sup = "running" /\ cli[a] = "answered"
  /\ cli' = [cli EXCEPT ![a] = "acked"]
  /\ Pushes(<<[type |-> "ack", of |-> a]>>)
  /\ UNCHANGED <<got, sup, stopped, reused, linked, up, host, journal, expired, upsets>>

\* finishProcess
Exits ==
  /\ sup = "running" /\ sup' = "ended"
  /\ Pushes(<<[type |-> "status"], [type |-> "exit"]>>)
  /\ UNCHANGED <<cli, got, stopped, reused, linked, up, host, journal, expired, upsets>>

\* closeAndExit, a moment later
SupExits ==
  /\ sup = "ended" /\ sup' = "gone"
  /\ linked' = FALSE /\ up' = <<>>
  /\ down' = IF linked THEN Append(down, [type |-> "close"]) ELSE down
  /\ UNCHANGED <<cli, got, stopped, reused, log, host, journal, expired, upsets>>

\* Killed, or the machine was restarted: its metadata file still says running.
SupDies ==
  /\ sup \in {"launching", "running"} /\ sup' = "dead"
  /\ linked' = FALSE /\ up' = <<>>
  /\ down' = IF linked THEN Append(down, [type |-> "close"]) ELSE down
  /\ UNCHANGED <<cli, got, stopped, reused, log, host, journal, expired, upsets>>

\* Another process gets the pid of a supervisor that is gone, or gives it back.
PidPasses ==
  /\ ~Alive /\ reused' = ~reused
  /\ UNCHANGED <<cli, got, sup, stopped, log, wire, host, journal, expired, upsets>>

SnapshotNow == [type |-> "snapshot", seq |-> Len(log), status |-> sup]

\* handleCommand
Attached(after) ==
  /\ down' = (down \o <<SnapshotNow>>) \o [i \in 1 .. (Len(log) - after) |-> [type |-> "event", seq |-> after + i]]
  /\ UNCHANGED cliVars

Decided(a) ==
  /\ IF sup = "running" /\ ~stopped
     THEN /\ got' = [got EXCEPT ![a] = @ + 1]
          /\ cli' = [cli EXCEPT ![a] = IF @ = "asked" THEN "answered" ELSE @]
     ELSE UNCHANGED <<cli, got>>
  /\ UNCHANGED <<sup, stopped, reused, log, down>>

SupReads ==
  /\ Listens /\ linked /\ up # <<>> /\ up' = Tail(up)
  /\ LET c == Head(up)
     IN CASE c.op = "attach"  -> Attached(c.after)
          [] c.op = "resolve" -> Decided(c.of)
          [] c.op = "stop"    -> stopped' = (stopped \/ sup = "running") /\ UNCHANGED <<cli, got, sup, reused, log, down>>
  /\ UNCHANGED <<linked, host, journal, expired, upsets>>

----------------------------------------------------------------------------
(* The connection *)

\* connectSupervisor, and the supervisor's accept, which answers with a snapshot.
Connect ==
  /\ host.control = "none" /\ Listens
  /\ host.timer \/ host.opening \/ (host.stopping # "no" /\ Active(host))
  /\ host' = [host EXCEPT !.control = "opening", !.timer = FALSE]
  /\ linked' = TRUE /\ down' = <<SnapshotNow>>
  /\ up' = <<[op |-> "attach", after |-> IF host.cursor < host.pcursor THEN host.cursor ELSE host.pcursor]>>
  /\ UNCHANGED <<cliVars, journal, expired, upsets>>

\* Nobody listens: the socket closes.
ConnectFails ==
  /\ host.control = "none" /\ ~Listens
  /\ host.timer \/ host.opening \/ (host.stopping # "no" /\ Active(host))
  /\ host' = Closes(host)
  /\ UNCHANGED <<cliVars, wire, journal, expired, upsets>>

\* Mutant: the backoff ends whether or not the supervisor lives.
BugGivesUp ==
  /\ host.control = "none" /\ host.timer /\ Active(host)
  /\ host' = SetStatus([host EXCEPT !.timer = FALSE], "orphaned")
  /\ UNCHANGED <<cliVars, wire, journal, expired, upsets>>
\* processIsAlive(supervisorPid): whoever has the number.
PidAlive == Alive \/ reused
\* After the last delay of the backoff a supervisor whose pid is free is given up.
GivesUp ==
  /\ host.control = "none" /\ host.timer /\ Active(host) /\ ~PidAlive
  /\ host' = SetStatus([host EXCEPT !.timer = FALSE], "orphaned")
  /\ UNCHANGED <<cliVars, wire, journal, expired, upsets>>

\* A timer that finds the task over does not start another.
TimerEnds ==
  /\ host.timer /\ host.control = "none" /\ ~Active(host) /\ ~Listens
  /\ host' = [host EXCEPT !.timer = FALSE]
  /\ UNCHANGED <<cliVars, wire, journal, expired, upsets>>

HostReads ==
  /\ host.control # "none" /\ down # <<>>
  /\ LET m == Head(down)
         h == CASE m.type = "snapshot" -> Snapshot(host, m)
                [] m.type = "event"    -> Handle(host, m.seq, log[m.seq])
                [] m.type = "close"    -> Closes(host)
     IN /\ host' = h
        /\ down' = IF h.control = "none" THEN <<>> ELSE Tail(down)
        /\ linked' = (linked /\ h.control # "none")
        /\ up' = IF h.control = "none" THEN <<>> ELSE up
  /\ UNCHANGED <<cliVars, journal, expired, upsets>>

\* A socket that is too slow is destroyed, a socket breaks: what is on it is lost.
Loses ==
  /\ host.control # "none" /\ Upset("break")
  /\ host' = Closes(host)
  /\ linked' = FALSE /\ up' = <<>> /\ down' = <<>>
  /\ UNCHANGED <<cliVars, journal, expired>>

----------------------------------------------------------------------------
(* Requests, and the Host itself *)

\* open, after waitForSupervisor
Opened ==
  /\ host.opening /\ host.control = "ready" /\ host.tail = <<>>
  /\ LET g == [host EXCEPT !.opening = FALSE]
     IN host' = IF host.status = "running" THEN RecordStart(g) ELSE g
  /\ UNCHANGED <<cliVars, wire, journal, expired, upsets>>

\* waitForSupervisor took too long and its last socket closed: failed, and
\* SIGTERM for the supervisor.
OpenFails ==
  /\ host.opening /\ host.control = "none"
  /\ host' = SetStatus([host EXCEPT !.opening = FALSE], "ended")
  /\ stopped' = (stopped \/ sup = "running")
  /\ sup' = IF sup = "launching" THEN "dead" ELSE sup
  /\ UNCHANGED <<cli, got, reused, log, wire, journal, expired, upsets>>

\* A message or a key: what is waiting runs again.
Send ==
  /\ host.control = "ready" /\ host.stopping = "no" /\ host.status = "waiting"
  /\ host' = SetStatus(host, "running")
  /\ UNCHANGED <<cliVars, wire, journal, expired, upsets>>

Stop ==
  /\ host.stopping = "no" /\ Active(host)
  /\ Upset("stop")
  /\ host' = [host EXCEPT !.stopping = "asked"]
  /\ UNCHANGED <<cliVars, wire, journal, expired>>

StopSends ==
  /\ host.stopping = "asked" /\ Active(host) /\ host.control = "ready"
  /\ host' = [host EXCEPT !.stopping = "sent"]
  /\ up' = Append(up, [op |-> "stop"])
  /\ UNCHANGED <<cliVars, linked, down, journal, expired, upsets>>

\* The task is over, or ten seconds are.
StopEnds ==
  /\ host.stopping # "no"
  /\ host' = [host EXCEPT !.stopping = "no"]
  /\ UNCHANGED <<cliVars, wire, journal, expired, upsets>>

\* createAgentTaskService: the task is read from its files.
Reloaded(status, started) ==
  LET h == [status |-> status, control |-> "none", cursor |-> Len(log), pcursor |-> 0, observed |-> {},
            shut |-> Terminal(status), tail |-> <<>>, ready |-> TRUE, started |-> started,
            terminal |-> host.terminal, settled |-> host.settled, timer |-> ~Terminal(status),
            opening |-> FALSE, stopping |-> "no"]
  IN NotifySettled(IF status = "orphaned" THEN RecordEnd(h, "orphaned") ELSE h)

\* The Host stops, at any moment, and comes back.
Restart ==
  /\ Upset("crash")
  /\ \E status \in CASE sup \in {"ended", "gone"} -> {"ended"}
                     [] sup = "dead"              -> {"reconnecting"} \cup (IF reused THEN {} ELSE {"orphaned"})
                                                       \cup ({host.status} \cap {"ended"})
                     [] OTHER                     -> {"reconnecting"} :
       \E started \in {host.started} \cup {FALSE : i \in {j \in DOMAIN host.tail : host.tail[j].op = "start"}} :
         host' = Reloaded(status, started)
  /\ linked' = FALSE /\ up' = <<>> /\ down' = <<>>
  /\ UNCHANGED <<cliVars, journal, expired>>

----------------------------------------------------------------------------
(* The specification *)

\* open has created the journal's session and launched the supervisor.
Init ==
  /\ cli = [a \in Approval |-> "idle"] /\ got = [a \in Approval |-> 0]
  /\ sup = "launching" /\ stopped = FALSE /\ reused = FALSE /\ log = <<>>
  /\ linked = FALSE /\ up = <<>> /\ down = <<>>
  /\ host = [status |-> "starting", control |-> "none", cursor |-> 0, pcursor |-> 0, observed |-> {},
             shut |-> FALSE, tail |-> <<>>, ready |-> TRUE, started |-> FALSE, terminal |-> FALSE,
             settled |-> FALSE, timer |-> FALSE, opening |-> TRUE, stopping |-> "no"]
  /\ run = "starting" /\ approval = [a \in Approval |-> "none"] /\ receipt = [a \in Approval |-> "none"]
  /\ expired = {}
  /\ upsets = [u \in UPSETS |-> 0]

Supervisor == Launched \/ Exits \/ SupExits \/ SupDies \/ PidPasses \/ SupReads \/ \E a \in Approval : Asks(a) \/ Acks(a)
Connection == Connect \/ ConnectFails \/ GivesUp \/ TimerEnds \/ HostReads \/ Loses
Journal == JournalRuns \/ JournalRefuses \/ JournalFails \/ Sends
Requests == Opened \/ OpenFails \/ Send \/ Stop \/ StopSends \/ StopEnds \/ \E a \in Approval : Resolve(a)

Next == Supervisor \/ Connection \/ Journal \/ Requests \/ Restart \/ \E a \in Approval : Expires(a)

Spec == Init /\ [][Next]_vars

----------------------------------------------------------------------------
(* Fairness *)

Fairness ==
  /\ WF_vars(Launched) /\ WF_vars(SupReads) /\ WF_vars(SupExits)
  /\ WF_vars(Connect) /\ WF_vars(GivesUp) /\ WF_vars(HostReads)

FairSpec == Spec /\ Fairness

----------------------------------------------------------------------------
(* Properties *)

\* What is on its way to the CLI
Resolves(a) == {i \in DOMAIN up : up[i] = [op |-> "resolve", of |-> a]}

\* However often persons decide, connections break, calls are lost and the Host
\* restarts, the CLI is given one decision of an approval at most, and only one
\* whose dispatch is in the journal (resolveApprovalDurable, admitApproval).
OneDecision ==
  \A a \in Approval :
    /\ got[a] <= 1 /\ (Resolves(a) # {} => got[a] = 0)
    /\ \A i, j \in Resolves(a) : i = j
    /\ (got[a] = 1 \/ Resolves(a) # {}) => receipt[a] \in {"dispatching", "awaiting", "succeeded", "uncertain"}

\* A decision counts as taken only when the CLI has said so, and the run goes on
\* only when every approval it asked for is (planApprovalAcknowledgement,
\* run.resumed): a socket write is not an acknowledgement.
GoesOnWhenAcked ==
  /\ \A a \in Approval : (approval[a] = "acked" \/ receipt[a] = "succeeded") => cli[a] = "acked"
  /\ run = "running" => \A a \in Approval : approval[a] \in {"none", "acked"}

\* The CLI's acknowledgement never comes before the record that its decision was
\* sent, in the journal's order: but for a crash between the two and for journal
\* calls that were refused, it is not turned away for having come too early.  (Of a
\* run that has ended, whose deliveries are uncertain, it comes too late.)
AckIsTaken ==
  (upsets["crash"] = 0 /\ upsets["refusal"] = 0 /\ InTail("ack")) =>
    receipt[Head(host.tail).of] \in {"awaiting", "uncertain"}

\* A task is given up as orphaned only when its supervisor is gone, whatever the
\* Host could reach when (scheduleSupervisorReconnect, supervisorLooksAlive); of
\* tasks whose supervisor's pid the Host was told when it launched it.
OrphanIsGone == host.status = "orphaned" => ~Alive

\* The delivery of a decision is what ApprovalDelivery promises.
Stage(a) == IF receipt[a] = "succeeded" THEN "acknowledged"
            ELSE IF got[a] > 0 THEN "delivered"
            ELSE IF receipt[a] # "none" THEN "decided"
            ELSE IF approval[a] # "none" THEN "open" ELSE "unasked"
Phase == IF run \in {"ended", "orphaned"} THEN "over" ELSE run
Delivery == INSTANCE ApprovalDelivery WITH stage <- [a \in Approval |-> Stage(a)], phase <- Phase

\* The whole of it, supervisor, socket, Host and journal, with crashes and losses,
\* decides once, delivers what was decided, believes only the CLI's word and lets
\* the run go on only then.
ImplementsDelivery == Delivery!Spec

\* A task that looks for its supervisor finds it, finds it ended, or is orphaned
\* (scheduleSupervisorReconnect); unless another process has the supervisor's pid,
\* which the backoff takes for the supervisor, every thirty seconds again.
ReconnectEnds == host.status = "reconnecting" ~> (host.status # "reconnecting" \/ reused)

=============================================================================
