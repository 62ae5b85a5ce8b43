-------------------------- MODULE ClaudeConversation --------------------------
(***************************************************************************)
(* One saved Claude Code conversation and who may use it: messages, pages  *)
(* that open it, a Goal and compactions, which all want its process, and   *)
(* the release of processes that are idle.                                 *)
(*                                                                         *)
(* server.js opens, finds, closes and locks the conversation;              *)
(* server/claude-idle-release.js and server/claude-structured-launch.js    *)
(* let processes go; server/agent-compaction.js and its bridge compact it; *)
(* server/claude-code-structured-adapter.js holds a process.  Steps are    *)
(* split where the code lets a socket, a timer or a process come between.  *)
(* Claude starts and ends turns, fails and exits as it likes.              *)
(***************************************************************************)
EXTENDS Naturals, Sequences, FiniteSets

CONSTANTS
  Messages,   \* what persons and the composer queue send
  Opens,      \* pages that open the conversation (/api/agent/open)
  Goal,       \* the Goal of the conversation
  Requests,   \* compactions that may be asked for at a time
  Procs,      \* processes: each has a session and a local key of its own
  First,      \* the process the conversation was created in
  LocalNames, \* a page may still name the conversation by First's local key
  Desktop     \* the desktop helper runs the processes and needs room for others

None == "none"
Callers == Messages \cup Opens \cup {Goal}
Frames == Messages \cup {Goal} \cup Requests
\* What a caller may name the conversation by: Claude's own id, a local key.
Names == {"native"} \cup (IF LocalNames THEN {First} ELSE {})

ASSUME NamesAssumption ==
  /\ First \in Procs /\ {LocalNames, Desktop} \subseteq BOOLEAN
  /\ {None, "native"} \cap (Callers \cup Requests \cup Procs) = {}
  /\ Goal \notin Messages \cup Opens /\ Messages \cap Opens = {}
  /\ Requests \cap Callers = {}

VARIABLES
  life,       \* the process: not started, starting, ready (initialized), ended
  shut,       \* its session: open, failed, closed by somebody, or let go
  working,    \* the session's state is not "waiting"
  inputs,     \* pendingUserInputs and a compaction, before their frame is written
  compacting, \* compactionPending
  sessions,   \* claudeStructuredSessions
  record,     \* the local key in the conversation's workspace entry
  gates,      \* claudeResumeGates: who opens under a name; the first goes on
  at, has,    \* how far a caller is, and with which process
  again,      \* a message is on its second try
  op, scope,  \* the compactions; the record each was admitted for
  wrote       \* how often a message was written to a process

adapter == <<shut, working, inputs, compacting>>
process == <<life, adapter>>
caller == <<at, has, again>>
compaction == <<op, scope>>
vars == <<process, sessions, record, gates, caller, compaction, wrote>>

----------------------------------------------------------------------------
(* Types *)

\* A caller waits to open (gate), for a stopped process (closing) or for its own
\* (launch), or for its session to write (sending), and is answered; one that left
\* closes what it launched (leaving).  The Goal holds the conversation from locked
\* on: it has a session between turns (found) and is in a turn.
STEPS == {"off", "find", "locked", "gate", "closing", "launch", "leaving", "found",
          "sending", "turn", "sent", "refused"}
\* asked: its admission awaits describe; accepted: running, before native work.
OPS == {"none", "asked", "accepted", "native"}

\* Every variable keeps its type.
TypeOK ==
  /\ life \in [Procs -> {"unused", "starting", "ready", "ended"}]
  /\ shut \in [Procs -> {"open", "failed", "closed", "letgo"}]
  /\ working \in [Procs -> BOOLEAN]
  /\ inputs \in [Procs -> SUBSET Frames]
  /\ compacting \in [Procs -> Requests \cup {None}]
  /\ sessions \subseteq Procs /\ record \in Procs
  /\ gates \in [Names -> Seq(Callers)]
  /\ at \in [Callers -> STEPS] /\ has \in [Callers -> Procs \cup {None}]
  /\ again \in [Messages -> BOOLEAN]
  /\ op \in [Requests -> OPS] /\ scope \in [Requests -> Procs \cup {None}]
  /\ wrote \in [Messages -> Nat]

----------------------------------------------------------------------------
(* What the code asks *)

Alive(p) == life[p] \in {"starting", "ready"}
\* session.status().closed
Over(p) == shut[p] \in {"closed", "letgo"}
Open(p) == shut[p] = "open"
\* The sessions a name finds (resolveClaudeStructuredSession, attached).
BugNamed(n) == {p \in sessions : n \in {"native", p} /\ Open(p)}
Named(n) == {p \in sessions : n \in {"native", p}}

\* workflows.locked and compactions.locked of the conversation's entry
BugGoalLocked == at[Goal] \in {"sending", "turn"}
GoalLocked == at[Goal] # "off"
Holds(r) == op[r] # "none"
BugCompactionLocked == \E r \in Requests : op[r] \in {"accepted", "native"}
CompactionLocked == \E r \in Requests : Holds(r)

\* workflowBusy: publicClaudeStructuredTask(...).isRunning
Busy(p) == p \in sessions /\ IF Open(p) THEN working[p] ELSE life[p] # "ended"

\* isIdle of the session
BugIdle(p) == life[p] = "ready" /\ Open(p) /\ ~working[p] /\ compacting[p] = None
Idle(p) ==
  /\ life[p] = "ready" /\ Open(p) /\ ~working[p]
  /\ compacting[p] = None /\ inputs[p] = {}

Goes(c, step) == at' = [at EXCEPT ![c] = step] /\ has' = [has EXCEPT ![c] = None]
GoesWith(c, step, p) == at' = [at EXCEPT ![c] = step] /\ has' = [has EXCEPT ![c] = p]

\* finishCompaction: the operation of a pending compaction ends.
FinishCompaction(p) ==
  LET r == compacting[p] IN
  /\ compacting' = [compacting EXCEPT ![p] = None]
  /\ op' = IF r = None THEN op ELSE [op EXCEPT ![r] = "none"]
  /\ scope' = IF r = None THEN scope ELSE [scope EXCEPT ![r] = None]

\* rate.turn.ended or a result: the Goal's waiter takes it for its turn's end, and
\* the Goal goes on or ends (workflowEvents).
Waits(p) == at[Goal] \in {"sending", "turn"} /\ has[Goal] = p
TurnEnded(p) ==
  IF Waits(p) THEN Goes(Goal, "off") \/ GoesWith(Goal, "found", p) ELSE UNCHANGED <<at, has>>

\* close, suspend or failure of a session, up to the wait for its process.
BugShut(p, how) ==
  /\ shut' = [shut EXCEPT ![p] = how] /\ working' = [working EXCEPT ![p] = FALSE]
  /\ TurnEnded(p) /\ UNCHANGED <<inputs, compacting, compaction>>
Shut(p, how) ==
  /\ shut' = [shut EXCEPT ![p] = how]
  /\ working' = [working EXCEPT ![p] = FALSE]
  /\ FinishCompaction(p) /\ TurnEnded(p) /\ UNCHANGED inputs

----------------------------------------------------------------------------
(* Messages (readJSON, sendToClaudeStructured) *)

Waiting(c) == Goes(c, "gate") /\ gates' = [gates EXCEPT !["native"] = Append(@, c)]

\* session.send: refused during a compaction, else it waits its turn (settingsTail,
\* initializeNative), which keeps the process from being let go.
Sends(m, p) ==
  IF compacting[p] # None
  THEN Goes(m, "refused") /\ UNCHANGED inputs
  ELSE GoesWith(m, "sending", p) /\ inputs' = [inputs EXCEPT ![p] = @ \cup {m}]

\* readJSON refuses a message while a Goal or a compaction holds the conversation.
Post(m) ==
  /\ at[m] = "off" /\ ~GoalLocked /\ ~CompactionLocked
  /\ Goes(m, "find")
  /\ UNCHANGED <<process, sessions, record, gates, again, compaction, wrote>>

\* claudeSessionForSend: the live session, also a failed one; else it is opened.
Find(m) ==
  /\ at[m] = "find"
  /\ \/ \E p \in Named("native") : ~Over(p) /\ Sends(m, p) /\ UNCHANGED gates
     \/ (\A p \in Named("native") : Over(p)) /\ Waiting(m) /\ UNCHANGED inputs
  /\ UNCHANGED <<life, shut, working, compacting, sessions, record, again, compaction, wrote>>

----------------------------------------------------------------------------
(* Opening (openAgentTask) *)

\* A page opens the conversation by one of its names.
Ask(o, n) ==
  /\ at[o] = "off" /\ Goes(o, "gate")
  /\ gates' = [gates EXCEPT ![n] = Append(@, o)]
  /\ UNCHANGED <<process, sessions, record, again, compaction, wrote>>

Holder(c, n) == gates[n] # <<>> /\ Head(gates[n]) = c
LeavesGate(n) == gates' = [gates EXCEPT ![n] = Tail(@)]
\* An open that ends without a session: its page left, it failed, or the id it
\* resumes is not Claude's.
GivesUp(c, n) == LeavesGate(n) /\ Goes(c, IF c \in Messages THEN "refused" ELSE "off")
\* workspaceResult: the entry names the session's process from now on.
BugReturns(c, n, p) ==
  /\ LeavesGate(n) /\ record' = "native" /\ UNCHANGED inputs
  /\ IF c = Goal THEN GoesWith(c, "found", p) ELSE Goes(c, "off")
Returns(c, n, p) ==
  /\ LeavesGate(n) /\ record' = p
  /\ IF c \in Messages THEN Sends(c, p)
     ELSE UNCHANGED inputs /\ IF c = Goal THEN GoesWith(c, "found", p) ELSE Goes(c, "off")

\* The gate's holder finds what its name finds: a live session is shared, one that
\* is closed or failed is ended first.
Enter(c, n) ==
  /\ Holder(c, n) /\ at[c] = "gate"
  /\ \/ c \notin Messages /\ GivesUp(c, n) /\ UNCHANGED <<adapter, record, compaction>>
     \/ \E p \in Named(n) : Open(p) /\ Returns(c, n, p) /\ UNCHANGED <<shut, working, compacting, compaction>>
     \/ \E p \in Named(n) : /\ ~Open(p) /\ GoesWith(c, "closing", p)
                            /\ shut' = [shut EXCEPT ![p] = IF Over(p) THEN @ ELSE "closed"]
                            /\ FinishCompaction(p) /\ UNCHANGED <<working, inputs, record, gates>>
     \/ /\ Named(n) = {} /\ IF n = "native" THEN Goes(c, "launch") /\ UNCHANGED gates ELSE GivesUp(c, n)
        /\ UNCHANGED <<adapter, record, compaction>>
  /\ UNCHANGED <<life, sessions, again, wrote>>

\* The wait for a closed session's process ends when it has, or by its timer: Claude
\* Code is still stopping, try again in a moment (claude_session_ending).
CloseEnds(c, n) ==
  /\ Holder(c, n) /\ at[c] = "closing"
  /\ \/ /\ life[has[c]] = "ended" /\ sessions' = sessions \ {has[c]}
        /\ Goes(c, "launch") /\ UNCHANGED gates
     \/ Alive(has[c]) /\ GivesUp(c, n) /\ UNCHANGED sessions
  /\ UNCHANGED <<process, record, again, compaction, wrote>>

\* launchClaudeStructuredSession.  An open whose page left meanwhile closes what
\* it launched.  One that fails leaves no process: of the Host's own processes that
\* is so, of the desktop helper's it is not (the answer to a launch can be lost).
Fresh == {p \in Procs : life[p] = "unused"}
Launch(c, n) ==
  /\ Holder(c, n) /\ at[c] = "launch"
  /\ \/ /\ Fresh # {}
        /\ LET p == CHOOSE q \in Fresh : TRUE IN
           /\ life' = [life EXCEPT ![p] = "starting"] /\ sessions' = sessions \cup {p}
           /\ \/ Returns(c, n, p) /\ UNCHANGED shut
              \/ /\ c \notin Messages /\ GoesWith(c, "leaving", p)
                 /\ shut' = [shut EXCEPT ![p] = "closed"] /\ UNCHANGED <<inputs, gates, record>>
     \/ GivesUp(c, n) /\ UNCHANGED <<life, sessions, shut, inputs, record>>
  /\ UNCHANGED <<working, compacting, again, compaction, wrote>>
BugLeave(c, n) ==
  /\ Holder(c, n) /\ at[c] = "leaving" /\ Goes(c, "off")
  /\ sessions' = IF life[has[c]] = "ended" THEN sessions \ {has[c]} ELSE sessions
  /\ UNCHANGED <<process, record, gates, again, compaction, wrote>>
Leave(c, n) ==
  /\ Holder(c, n) /\ at[c] = "leaving" /\ GivesUp(c, n)
  /\ sessions' = IF life[has[c]] = "ended" THEN sessions \ {has[c]} ELSE sessions
  /\ UNCHANGED <<process, record, again, compaction, wrote>>

----------------------------------------------------------------------------
(* The Goal (workflows.js launch, and open and turn of its bridge) *)

\* launch: the conversation is locked from here on.
GoalStarts ==
  /\ at[Goal] = "off" /\ Goes(Goal, "locked")
  /\ UNCHANGED <<process, sessions, record, gates, again, compaction, wrote>>

\* open: not during a compaction or other work, and in the live session if any.
GoalOpens ==
  /\ at[Goal] = "locked"
  /\ IF CompactionLocked \/ Busy(record)
     THEN Goes(Goal, "off") /\ UNCHANGED gates
     ELSE IF record \in sessions /\ ~Over(record)
          THEN GoesWith(Goal, "found", record) /\ UNCHANGED gates
          ELSE Waiting(Goal)
  /\ UNCHANGED <<process, sessions, record, again, compaction, wrote>>

\* turn: readyToSend and the send; a session that went or is busy ends the Goal.
GoalSends ==
  /\ at[Goal] = "found"
  /\ LET p == has[Goal] IN
     /\ Goal \notin inputs[p]
     /\ IF p \notin sessions \/ Busy(p) \/ compacting[p] # None
        THEN Goes(Goal, "off") /\ UNCHANGED inputs
        ELSE GoesWith(Goal, "sending", p) /\ inputs' = [inputs EXCEPT ![p] = @ \cup {Goal}]
  /\ UNCHANGED <<life, shut, working, compacting, sessions, record, gates, again, compaction, wrote>>

\* Between turns the Goal is done, or a person stops it.
GoalEnds ==
  /\ at[Goal] = "found" /\ Goes(Goal, "off")
  /\ UNCHANGED <<process, sessions, record, gates, again, compaction, wrote>>

----------------------------------------------------------------------------
(* Compactions (createAgentCompaction) *)

\* describe of the conversation's process: supported and not busy.
Able(p) == p \in sessions /\ Open(p) /\ ~working[p] /\ compacting[p] = None
Allowed(r) == record = scope[r] /\ ~GoalLocked /\ Able(record)
Ends(r) == op' = [op EXCEPT ![r] = "none"] /\ scope' = [scope EXCEPT ![r] = None]

\* start: a second request is refused while one is admitted or runs.
Compact(r) ==
  /\ op[r] = "none" /\ ~CompactionLocked /\ ~GoalLocked /\ \A p \in Procs : r \notin inputs[p]
  /\ op' = [op EXCEPT ![r] = "asked"] /\ scope' = [scope EXCEPT ![r] = record]
  /\ UNCHANGED <<process, sessions, record, gates, caller, wrote>>

\* After describe everything is looked at again; a refusal leaves no operation.
Admit(r) ==
  /\ op[r] = "asked"
  /\ IF Allowed(r) THEN op' = [op EXCEPT ![r] = "accepted"] /\ UNCHANGED scope ELSE Ends(r)
  /\ UNCHANGED <<process, sessions, record, gates, caller, wrote>>

\* execute, and compact of the session.
Execute(r) ==
  /\ op[r] = "accepted"
  /\ IF Allowed(r)
     THEN /\ op' = [op EXCEPT ![r] = "native"] /\ UNCHANGED scope
          /\ compacting' = [compacting EXCEPT ![record] = r]
          /\ inputs' = [inputs EXCEPT ![record] = @ \cup {r}]
     ELSE Ends(r) /\ UNCHANGED <<compacting, inputs>>
  /\ UNCHANGED <<life, shut, working, sessions, record, gates, caller, wrote>>

----------------------------------------------------------------------------
(* The session (createClaudeStructuredSession) *)

\* initializeNative, or a handshake that fails.
Ready(p) ==
  /\ life[p] = "starting" /\ Open(p) /\ life' = [life EXCEPT ![p] = "ready"]
  /\ UNCHANGED <<adapter, sessions, record, gates, caller, compaction, wrote>>

\* What a message is answered: a write that takes too long is refused, although it
\* may arrive (claude_input_timeout).
BugWritten(late) == IF late THEN "find" ELSE "sent"
Written(late) == IF late THEN "refused" ELSE "sent"

\* sendUser writes a frame.
Write(p, f) ==
  /\ f \in inputs[p] /\ Open(p) /\ life[p] = "ready"
  /\ inputs' = [inputs EXCEPT ![p] = @ \ {f}]
  /\ working' = [working EXCEPT ![p] = TRUE]
  /\ wrote' = IF f \in Messages THEN [wrote EXCEPT ![f] = @ + 1] ELSE wrote
  /\ \E late \in BOOLEAN :
       /\ CASE f \in Messages -> Goes(f, Written(late))
            [] f = Goal /\ at[Goal] = "sending" /\ has[Goal] = p ->
                 IF late THEN Goes(Goal, "off") ELSE GoesWith(Goal, "turn", p)
            [] OTHER -> UNCHANGED <<at, has>>
       /\ IF late /\ compacting[p] = f THEN FinishCompaction(p) ELSE UNCHANGED <<compacting, compaction>>
  /\ UNCHANGED <<life, shut, sessions, record, gates, again>>

\* A frame is refused unwritten: by ensureOpen, or when the speed is not confirmed
\* or the input full.  What a closed session refuses was never taken, and goes once
\* more (sendToClaudeStructured).
Refuse(p, f) ==
  /\ f \in inputs[p] /\ (Open(p) => life[p] = "ready")
  /\ inputs' = [inputs EXCEPT ![p] = @ \ {f}]
  /\ IF f \in Messages /\ Over(p) /\ ~again[f]
     THEN Goes(f, "find") /\ again' = [again EXCEPT ![f] = TRUE]
     ELSE /\ IF f \in Messages THEN Goes(f, "refused")
             ELSE IF f = Goal /\ at[Goal] = "sending" /\ has[Goal] = p THEN Goes(Goal, "off")
             ELSE UNCHANGED <<at, has>>
          /\ UNCHANGED again
  /\ IF compacting[p] = f THEN FinishCompaction(p) ELSE UNCHANGED <<compacting, compaction>>
  /\ UNCHANGED <<life, shut, working, sessions, record, gates, wrote>>

\* interrupt, and Claude's word that it has.
Interrupt(p) ==
  /\ p \in sessions /\ Open(p) /\ working' = [working EXCEPT ![p] = TRUE]
  /\ UNCHANGED <<life, shut, inputs, compacting, sessions, record, gates, caller, compaction, wrote>>
Interrupted(p) ==
  /\ Open(p) /\ working[p]
  /\ working' = [working EXCEPT ![p] = FALSE] /\ TurnEnded(p)
  /\ UNCHANGED <<life, shut, inputs, compacting, sessions, record, gates, again, compaction, wrote>>

\* A protocol error, or a handshake nobody answers (setNativeFailure).
Fail(p) ==
  /\ Alive(p) /\ Open(p) /\ Shut(p, "failed")
  /\ UNCHANGED <<life, sessions, record, gates, again, wrote>>

\* An error event of the process or of its input, before its close event.
Breaks(p) ==
  /\ Alive(p) /\ Open(p)
  /\ shut' = [shut EXCEPT ![p] = "failed"] /\ working' = [working EXCEPT ![p] = FALSE] /\ TurnEnded(p)
  /\ UNCHANGED <<life, inputs, compacting, sessions, record, gates, again, compaction, wrote>>

\* The process's close event.
Exit(p) ==
  /\ Alive(p) /\ life' = [life EXCEPT ![p] = "ended"]
  /\ Shut(p, IF Open(p) THEN "failed" ELSE shut[p])
  /\ UNCHANGED <<sessions, record, gates, again, wrote>>

\* system/init begins a turn: of what was written, or one Claude starts by itself.
TurnBegins(p) ==
  /\ life[p] = "ready" /\ Open(p) /\ ~working[p]
  /\ working' = [working EXCEPT ![p] = TRUE]
  /\ UNCHANGED <<life, shut, inputs, compacting, sessions, record, gates, caller, compaction, wrote>>

\* A result ends the turn, and with it a pending compaction, whichever turn it is of.
Result(p) ==
  /\ life[p] = "ready" /\ Open(p) /\ working[p]
  /\ working' = [working EXCEPT ![p] = FALSE] /\ TurnEnded(p) /\ FinishCompaction(p)
  /\ UNCHANGED <<life, shut, inputs, sessions, record, gates, again, wrote>>

----------------------------------------------------------------------------
(* Letting processes go *)

\* /api/claude/structured/close, and the end of its wait or of release's.
Close(p) ==
  /\ p \in sessions /\ ~Over(p) /\ Shut(p, "closed")
  /\ UNCHANGED <<life, sessions, record, gates, again, wrote>>
Closed(p) ==
  /\ p \in sessions /\ Over(p) /\ life[p] = "ended" /\ sessions' = sessions \ {p}
  /\ UNCHANGED <<process, record, gates, caller, compaction, wrote>>

\* release, with eligible and claudeReleaseAllowed.  Another conversation that needs
\* the helper's room asks neither lock (parkIdleClaudeStructuredSession).
LetGo(p) ==
  /\ p \in sessions /\ Idle(p)
  /\ Desktop \/ (~GoalLocked /\ ~CompactionLocked)
  /\ Shut(p, "letgo")
  /\ UNCHANGED <<life, sessions, record, gates, again, wrote>>

----------------------------------------------------------------------------
(* Specification *)

\* The conversation was created here and its first process still runs, or the Host
\* has just started and it is only saved.
Init ==
  /\ sessions \in SUBSET {First} /\ record = First
  /\ life = [p \in Procs |-> IF p \in sessions THEN "ready" ELSE IF p = First THEN "ended" ELSE "unused"]
  /\ shut = [p \in Procs |-> "open"] /\ working = [p \in Procs |-> FALSE]
  /\ inputs = [p \in Procs |-> {}] /\ compacting = [p \in Procs |-> None]
  /\ gates = [n \in Names |-> <<>>]
  /\ at = [c \in Callers |-> "off"] /\ has = [c \in Callers |-> None]
  /\ again = [m \in Messages |-> FALSE]
  /\ op = [r \in Requests |-> "none"] /\ scope = [r \in Requests |-> None]
  /\ wrote = [m \in Messages |-> 0]

Opening(c) == \E n \in Names : Enter(c, n) \/ CloseEnds(c, n) \/ Launch(c, n) \/ Leave(c, n)
Sending(p, f) == Write(p, f) \/ Refuse(p, f)
Next ==
  \/ \E m \in Messages : Post(m) \/ Find(m)
  \/ \E o \in Opens, n \in Names : Ask(o, n)
  \/ \E c \in Callers : Opening(c)
  \/ GoalStarts \/ GoalOpens \/ GoalSends \/ GoalEnds
  \/ \E r \in Requests : Compact(r) \/ Admit(r) \/ Execute(r)
  \/ \E p \in Procs, f \in Frames : Sending(p, f)
  \/ \E p \in Procs : Ready(p) \/ Interrupt(p) \/ Interrupted(p) \/ Fail(p) \/ Breaks(p) \/ Exit(p)
  \/ \E p \in Procs : TurnBegins(p) \/ Result(p) \/ Close(p) \/ Closed(p) \/ LetGo(p)

Spec == Init /\ [][Next]_vars

\* The Host goes on with what it may: gates are passed, waits and handshakes end
\* by timers.  Nothing is asked of Claude, of persons or of the Goal's turns.
Fairness ==
  /\ \A m \in Messages : WF_vars(Find(m)) /\ \A p \in Procs : WF_vars(Sending(p, m))
  /\ \A c \in Callers : WF_vars(Opening(c))
  /\ \A p \in Procs : WF_vars(Ready(p) \/ Fail(p))
FairSpec == Spec /\ Fairness

----------------------------------------------------------------------------
(* Properties *)

\* Two processes never work on one transcript, which would let both answer the
\* same prompt (openAgentTask); of a Host whose processes are its own, since the
\* helper's can live on after a launch or a connection that was lost.
OneProcess == \A p, q \in Procs : (Alive(p) /\ Alive(q)) => p = q

\* A message is written to one process at most, and what was answered as sent was
\* written: the second try is made only of what the first never took.
SentOnce == \A m \in Messages : wrote[m] <= 1 /\ (at[m] = "sent" => wrote[m] = 1)

\* What a message waits in is not let go: a process the Host let go refuses one only
\* as long as it is still ending, to a message that came after and waits for that
\* (claude_session_ending), never one in its session's input or once it has ended.
LetGoRefusesNothing == [][\A m \in Messages :
  (at[m] \in {"sending", "closing"} /\ at'[m] = "refused" /\ shut[has[m]] = "letgo")
    => at[m] = "closing" /\ Alive(has[m])]_vars

\* One compaction holds the conversation at a time, and none is at its native
\* work while the Goal works through it.
OneHolder ==
  /\ \A r, s \in Requests : (Holds(r) /\ Holds(s)) => r = s
  /\ (\E r \in Requests : op[r] = "native") => at[Goal] \notin {"found", "sending", "turn"}

\* A compaction is held to be at work exactly as long as the session of a live process
\* waits for its result: no end of a process leaves the conversation locked, and no message
\* is refused for a compaction that is over.
HeldByLiveWork ==
  /\ \A r \in Requests : op[r] = "native" => \E p \in Procs : compacting[p] = r /\ Alive(p) /\ ~Over(p)
  /\ \A p \in Procs : compacting[p] # None => op[compacting[p]] = "native"

\* The Host lets no process go that a Goal is working through.
GoalKeepsProcess == at[Goal] \in {"found", "sending", "turn"} => shut[has[Goal]] # "letgo"

\* Every message is answered and every open ends, whatever Claude does: a gate is
\* always given back.
Under(c) == at[c] \in {"find", "gate", "closing", "launch", "leaving", "sending"}
EveryoneIsAnswered == \A c \in Messages \cup Opens : Under(c) ~> ~Under(c)
=============================================================================
