-------------------------- MODULE WorkflowsTurnProofs --------------------------
(***************************************************************************)
(* Proofs about the turns of Workflows: with an agent that admits a send   *)
(* at once, a run's waiter, its ownership and the agent's own turn are one *)
(* thing, and a stop that is not confirmed keeps asking.                   *)
(***************************************************************************)
EXTENDS WorkflowsProofs

\* A run is in a turn exactly while it owns one and its agent works on it, in
\* the run's own conversation.
TurnOf(q) ==
  /\ q \notin sends /\ stopper[q] # "called"
  /\ q \in owned <=> flight[q] = "turn"
  /\ flight[q] \in {"ready", "turn", "yield"} => run[q].entry # None
  /\ flight[q] = "turn" => native[run[q].entry] = q
  /\ \A e \in Entries : native[e] = q => flight[q] = "turn" /\ run[q].entry = e
\* What is being stopped is aborted, and in a turn the agent is asked to stop,
\* until that turn is seen over or the run says that it was not.
Stopped(q) ==
  healthy /\ run[q].status = "stopping" /\ flight[q] # "no" =>
    q \in aborted /\ (flight[q] = "turn" /\ ~run[q].unconfirmed => stopper[q] = "asked")
OwnTurns == \A q \in Runs : TurnOf(q) /\ Stopped(q)

----------------------------------------------------------------------------
(* What a step does to the turn of run q *)

Stays(q) == flight'[q] = flight[q] /\ run'[q].entry = run[q].entry
Apart(q) == flight'[q] # "turn" /\ (flight'[q] \in {"ready", "yield"} => run'[q].entry # None)
\* Only a run that owns a turn, and stays in it, becomes one whose agent is asked to stop.
Asked(q) == stopper'[q] # "called" /\ (stopper'[q] = "asked" => stopper[q] = "asked" \/ (q \in owned /\ Stays(q)))
Turn(q) == (Stays(q) \/ (flight[q] # "turn" /\ Apart(q))) /\ Asked(q) /\ Stopped(q)'
Over(q) == Apart(q) /\ Asked(q) /\ Stopped(q)'

\* What every step of the system keeps.
Holds == OwnTurns' /\ \A q \in Runs : Asked(q)

\* A step that neither ends nor begins a turn.
LEMMA PlainTurns ==
  ASSUME OwnTurns, UNCHANGED agents, \A q \in Runs : Turn(q)
  PROVE  Holds
<1> SUFFICES ASSUME NEW q \in Runs PROVE TurnOf(q)' /\ Stopped(q)' /\ Asked(q)
  BY DEF Holds, OwnTurns
<1>1. Turn(q) /\ TurnOf(q)
  BY DEF OwnTurns
<1> QED BY <1>1 DEF Turn, TurnOf, Stays, Apart, Asked, agents

\* Run r leaves the turn that its agent ended in conversation e.
LEMMA TurnOver ==
  ASSUME TypeOK, OwnTurns, NEW r \in Runs, NEW e \in Entries, native[e] = r, Over(r),
         \A q \in Runs : q # r => Turn(q),
         native' = [native EXCEPT ![e] = "idle"], owned' = owned \ {r}, sends' = sends
  PROVE  Holds
<1> SUFFICES ASSUME NEW q \in Runs PROVE TurnOf(q)' /\ Stopped(q)' /\ Asked(q)
  BY DEF Holds, OwnTurns
<1>0. \A f \in Entries : native'[f] = IF f = e THEN "idle" ELSE native[f]
  BY DEF TypeOK
<1>1. TurnOf(q) /\ TurnOf(r) /\ r \notin {"idle"} /\ q \notin {"idle"}
  BY NamesAssumption DEF OwnTurns
<1>2. CASE q = r
  BY <1>0, <1>1, <1>2 DEF Over, TurnOf, Apart, Asked
<1>3. CASE q # r
  <2>1. Turn(q)
    BY <1>3
  <2>2. flight[q] = "turn" => run[q].entry # e
    BY <1>1, <1>3 DEF TurnOf
  <2>3. flight[q] = "turn" => run[q].entry \in Entries
    BY <1>1 DEF TurnOf, TypeOK, Run
  <2> QED BY <1>0, <1>1, <1>3, <2>1, <2>2, <2>3 DEF Turn, TurnOf, Stays, Apart, Asked
<1> QED BY <1>2, <1>3

----------------------------------------------------------------------------
(* Handlers that save *)

LEMMA AskingIs ==
  ASSUME TypeOK, OwnTurns, Agent = "acp", NEW q \in Runs
  PROVE  Asking(q) \in {stopper[q], "asked", "no"} /\ (Asking(q) = "asked" => stopper[q] = "asked" \/ q \in owned)
         /\ Asking(q) # "called" /\ (q \in owned => Asking(q) = "asked")
BY DEF TypeOK, OwnTurns, TurnOf, Asking

\* What a save gives run q.
Given(q, rec, at, ab, s) ==
  /\ run'[q] = rec
  /\ flight'[q] \in {at, "no"} /\ (at = flight[q] => flight'[q] = at)
  /\ healthy' => healthy /\ flight'[q] = at /\ (q \in aborted' <=> q \in ab) /\ stopper'[q] = s
  /\ \/ stopper'[q] \in {s, stopper[q]}
     \/ stopper'[q] = Asking(q) /\ flight'[q] = flight[q]

LEMMA SaveGives ==
  ASSUME TypeOK, NEW runs, NEW rows, NEW fl, NEW ab, NEW st, Save(runs, rows, fl, ab, st), NEW q \in Runs
  PROVE  Given(q, runs[q], fl[q], ab, st[q])
<1>1. run' = runs
  BY DEF Save
<1>2. CASE flight' = fl /\ aborted' = ab /\ stopper' = st /\ UNCHANGED healthy
  BY <1>1, <1>2 DEF Given
<1>3. CASE /\ healthy /\ healthy' = FALSE
           /\ flight' = [r \in Runs |-> IF fl[r] = flight[r] THEN fl[r] ELSE "no"]
           /\ aborted' = {r \in Runs : flight'[r] # "no"}
           /\ stopper' = [r \in Runs |-> IF flight'[r] # "no" THEN Asking(r) ELSE stopper[r]]
  <2>1. flight'[q] = IF fl[q] = flight[q] THEN fl[q] ELSE "no"
    BY <1>3
  <2>2. stopper'[q] = IF flight'[q] # "no" THEN Asking(q) ELSE stopper[q]
    BY <1>3
  <2> QED BY <1>1, <1>3, <2>1, <2>2 DEF Given
<1> QED BY <1>2, <1>3 DEF Save

\* A run that a save leaves as it was.
LEMMA KeptTurn ==
  ASSUME TypeOK, OwnTurns, Agent = "acp", NEW q \in Runs, NEW rec, NEW ab, NEW s,
         Given(q, rec, flight[q], ab, s), rec.entry = run[q].entry, s \in {stopper[q], Asking(q)},
         healthy' /\ rec.status = "stopping" /\ flight[q] # "no" =>
           q \in ab /\ (flight[q] = "turn" /\ ~rec.unconfirmed => s = "asked")
  PROVE  Turn(q) /\ Stays(q)
<1>1. Asking(q) # "called" /\ (Asking(q) = "asked" => stopper[q] = "asked" \/ q \in owned) /\ stopper[q] # "called"
  BY AskingIs DEF OwnTurns, TurnOf
<1>2. Stays(q)
  BY DEF Given, Stays
<1>3. stopper'[q] \in {stopper[q], Asking(q)}
  BY DEF Given
<1>4. Stopped(q)'
  BY DEF Given, Stopped
<1> QED BY <1>1, <1>2, <1>3, <1>4 DEF Turn, Asked

LEMMA SameTurn ==
  ASSUME TypeOK, OwnTurns, Agent = "acp", NEW q \in Runs, NEW ab, q \in ab <=> q \in aborted,
         Given(q, run[q], flight[q], ab, stopper[q])
  PROVE  Turn(q) /\ Stays(q)
BY KeptTurn DEF OwnTurns, Stopped, Given

\* What a handler does that changes run r and its coroutine alone.
LEMMA OneTurn ==
  ASSUME TypeOK, OwnTurns, Agent = "acp", NEW r \in Runs, NEW rec, NEW rows, NEW at, NEW ab, NEW s,
         \A q \in Runs : q # r => (q \in ab <=> q \in aborted),
         Save([run EXCEPT ![r] = rec], rows, [flight EXCEPT ![r] = at], ab, [stopper EXCEPT ![r] = s])
  PROVE  Given(r, rec, at, ab, s) /\ \A q \in Runs : q # r => Turn(q) /\ Stays(q)
<1> DEFINE runs == [run EXCEPT ![r] = rec]
           fl == [flight EXCEPT ![r] = at]
           st == [stopper EXCEPT ![r] = s]
<1>1. /\ runs[r] = rec /\ fl[r] = at /\ st[r] = s
      /\ \A q \in Runs : q # r => runs[q] = run[q] /\ fl[q] = flight[q] /\ st[q] = stopper[q]
  BY DEF TypeOK
<1>2. Save(runs, rows, fl, ab, st)
  OBVIOUS
<1> HIDE DEF runs, fl, st
<1>3. \A q \in Runs : Given(q, runs[q], fl[q], ab, st[q])
  BY <1>2, SaveGives
<1>4. Given(r, rec, at, ab, s)
  BY <1>1, <1>3
<1>5. ASSUME NEW q \in Runs, q # r PROVE Turn(q) /\ Stays(q)
  <2>1. Given(q, run[q], flight[q], ab, stopper[q])
    BY <1>1, <1>3, <1>5
  <2> QED BY <1>5, <2>1, SameTurn
<1> QED BY <1>4, <1>5

\* A save that gives run r a new record and leaves the coroutines alone.
LEMMA RecordTurn ==
  ASSUME TypeOK, OwnTurns, Agent = "acp", NEW r \in Runs, NEW rec, NEW rows,
         Save([run EXCEPT ![r] = rec], rows, flight, aborted, stopper),
         rec.status # "stopping", flight[r] = "no" \/ rec.entry = run[r].entry
  PROVE  \A q \in Runs : Turn(q)
<1> DEFINE at == flight[r]
           s == stopper[r]
<1>1. flight = [flight EXCEPT ![r] = at] /\ stopper = [stopper EXCEPT ![r] = s]
  BY DEF TypeOK
<1> HIDE DEF at, s
<1>2. Save([run EXCEPT ![r] = rec], rows, [flight EXCEPT ![r] = at], aborted, [stopper EXCEPT ![r] = s])
  BY <1>1
<1>3. Given(r, rec, at, aborted, s) /\ \A q \in Runs : q # r => Turn(q) /\ Stays(q)
  BY <1>2, OneTurn
<1>4. Given(r, rec, flight[r], aborted, stopper[r])
  BY <1>3 DEF at, s
<1>5. Turn(r)
  <2>1. CASE rec.entry = run[r].entry
    BY <1>4, <2>1, KeptTurn
  <2>2. CASE flight[r] = "no"
    <3>1. flight'[r] = "no"
      BY <1>4, <2>2 DEF Given
    <3>2. Asked(r)
      <4>1. stopper'[r] \in {stopper[r], Asking(r)} /\ r \notin owned
        BY <1>4, <2>2 DEF Given, OwnTurns, TurnOf
      <4> QED BY <4>1, AskingIs DEF Asked, OwnTurns, TurnOf
    <3> QED BY <2>2, <3>1, <3>2 DEF Turn, Apart, Stopped
  <2> QED BY <2>1, <2>2
<1> QED BY <1>3, <1>5

LEMMA PlaceTurn ==
  ASSUME TypeOK, OwnTurns, Agent = "acp", NEW r \in Runs, NEW rec, NEW at, NEW ab, Given(r, rec, at, ab, stopper[r]) \/ Given(r, rec, at, ab, "no"),
         at # "turn", at # flight[r], at \in {"ready", "yield"} => rec.entry # None,
         healthy' /\ rec.status = "stopping" => at = "no"
  PROVE  Over(r)
<1>1. flight'[r] \in {at, "no"} /\ run'[r] = rec
  BY DEF Given
<1>2. Asked(r)
  <2>1. CASE flight'[r] # flight[r]
    BY <2>1 DEF Given, Asked, OwnTurns, TurnOf
  <2>2. CASE flight'[r] = flight[r]
    <3>1. flight[r] # "turn"
      BY <1>1, <2>2
    <3>2. r \notin owned
      BY <3>1 DEF OwnTurns, TurnOf
    <3> QED BY <3>2, AskingIs DEF Given, Asked, OwnTurns, TurnOf
  <2> QED BY <2>1, <2>2
<1>3. Stopped(r)'
  BY DEF Given, Stopped
<1> QED BY <1>1, <1>2, <1>3 DEF Over, Apart

----------------------------------------------------------------------------
(* Steps of a coroutine *)

CoTurn(r) == Over(r) /\ \A q \in Runs : q # r => Turn(q)

LEMMA GoesTurn ==
  ASSUME TypeOK, OwnTurns, Agent = "acp", NEW r \in Runs, NEW rec, NEW at \in {"no", "sleep", "ready", "yield"}, at # flight[r],
         at \in {"ready", "yield"} => rec.entry # None,
         rec.status = "stopping" => at = "no",
         Goes(r, rec, at, stopper[r])
  PROVE  CoTurn(r)
<1> DEFINE s == stopper[r]
<1>1. Save([run EXCEPT ![r] = rec], sched, [flight EXCEPT ![r] = at], aborted, [stopper EXCEPT ![r] = s])
  BY DEF Goes
<1> HIDE DEF s
<1>2. Given(r, rec, at, aborted, s) /\ \A q \in Runs : q # r => Turn(q) /\ Stays(q)
  BY <1>1, OneTurn
<1>3. Given(r, rec, at, aborted, stopper[r])
  BY <1>2 DEF s
<1>4. Over(r)
  BY <1>3, PlaceTurn
<1> QED BY <1>2, <1>4 DEF CoTurn

LEMMA LeavesTurn ==
  ASSUME TypeOK, OwnTurns, Agent = "acp", NEW r \in Runs, flight[r] # "no", NEW rec, Leaves(r, rec, stopper[r])
  PROVE  CoTurn(r)
<1> DEFINE last == IF rec.status = "stopping" /\ healthy THEN Finished(rec, rec.stop) ELSE rec
           ab == aborted \ {r}
           s == stopper[r]
           at == "no"
<1>1. Save([run EXCEPT ![r] = last], sched, [flight EXCEPT ![r] = at], ab, [stopper EXCEPT ![r] = s])
  BY DEF Leaves
<1>2. \A q \in Runs : q # r => (q \in ab <=> q \in aborted)
  OBVIOUS
<1>3. at # flight[r] /\ at \notin {"turn", "ready", "yield"} /\ at = "no"
  OBVIOUS
<1> HIDE DEF s, ab, last, at
<1>4. Given(r, last, at, ab, s) /\ \A q \in Runs : q # r => Turn(q) /\ Stays(q)
  BY <1>1, <1>2, OneTurn
<1>5. Given(r, last, at, ab, stopper[r])
  BY <1>4 DEF s
<1>6. Over(r)
  BY <1>3, <1>5, PlaceTurn
<1> QED BY <1>4, <1>6 DEF CoTurn

LEMMA LiveTurn ==
  ASSUME OwnTurns, NEW r \in Runs, flight[r] # "no", Live(r)
  PROVE  run[r].status # "stopping"
BY DEF OwnTurns, Stopped, Live

LEMMA FailsTurn ==
  ASSUME TypeOK, StopNamed, OwnTurns, Agent = "acp", NEW r \in Runs, flight[r] \notin {"no", "sleep"}, NEW kind, Fails(r, kind, stopper[r])
  PROVE  CoTurn(r)
<1>1. CASE Leaves(r, run[r], stopper[r]) \/ Leaves(r, Finished(run[r], "blocked"), stopper[r]) \/ Leaves(r, Finished(run[r], "failed"), stopper[r])
  BY <1>1, LeavesTurn
<1>2. CASE Live(r) /\ Goes(r, [Uncounted(r) EXCEPT !.status = "queued"], "no", stopper[r])
  BY <1>2, GoesTurn
<1>3. CASE Live(r) /\ Goes(r, [Uncounted(r) EXCEPT !.status = "queued", !.later = TRUE], "no", stopper[r])
  BY <1>3, GoesTurn
<1>4. CASE Live(r) /\ Goes(r, [Uncounted(r) EXCEPT !.retries = run[r].retries + 1], "sleep", stopper[r])
  <2> DEFINE rec == [Uncounted(r) EXCEPT !.retries = run[r].retries + 1]
  <2>1. run[r].retries + 1 \in Nat
    BY DEF TypeOK, Run
  <2>2. rec.status = run[r].status
    BY <2>1, RecordStep DEF Next1, Run
  <2>3. Goes(r, rec, "sleep", stopper[r])
    BY <1>4
  <2> HIDE DEF rec
  <2> QED BY <1>4, <2>2, <2>3, GoesTurn, LiveTurn
<1> QED BY <1>1, <1>2, <1>3, <1>4 DEF Fails

LEMMA NextTurnTurn ==
  ASSUME TypeOK, OwnTurns, Agent = "acp", NEW r \in Runs, flight[r] \notin {"no", "ready"},
         NEW rec \in Run, rec.entry # None, NextTurn(r, rec)
  PROVE  CoTurn(r)
<1>1. CASE Leaves(r, Finished(rec, "limited"), stopper[r])
  BY <1>1, LeavesTurn
<1>2. CASE Goes(r, [rec EXCEPT !.turns = rec.turns + 1, !.status = "running"], "ready", stopper[r])
  <2> DEFINE next == [rec EXCEPT !.turns = rec.turns + 1, !.status = "running"]
  <2>1. next.status = "running" /\ next.entry = rec.entry
    BY DEF Run
  <2>2. Goes(r, next, "ready", stopper[r])
    BY <1>2
  <2> HIDE DEF next
  <2> QED BY <2>1, <2>2, GoesTurn
<1> QED BY <1>1, <1>2 DEF NextTurn

LEMMA MovesTurn ==
  ASSUME TypeOK, OwnTurns, NEW r \in Runs, flight[r] # "no", NEW at \in {"open", "opening"},
         flight' = [flight EXCEPT ![r] = at], UNCHANGED <<stored, aborted, stopper>>
  PROVE  CoTurn(r)
<1>1. flight'[r] = at /\ \A q \in Runs : q # r => flight'[q] = flight[q]
  BY DEF TypeOK
<1>2. \A q \in Runs : Asked(q)
  BY DEF Asked, OwnTurns, TurnOf
<1>3. Over(r)
  BY <1>1, <1>2 DEF Over, Apart, OwnTurns, Stopped, stored
<1>4. ASSUME NEW q \in Runs, q # r PROVE Turn(q)
  BY <1>1, <1>2, <1>4 DEF Turn, Stays, OwnTurns, Stopped, stored
<1> QED BY <1>3, <1>4 DEF CoTurn

\* A coroutine that is not in a turn.
LEMMA OutsideTurn ==
  ASSUME NEW r \in Runs, flight[r] # "turn", CoTurn(r)
  PROVE  \A q \in Runs : Turn(q)
BY DEF CoTurn, Over, Turn

LEMMA CoroutineTurns ==
  ASSUME TypeOK, StopNamed, OwnTurns, Agent = "acp", NEW r \in Runs, Coroutine(r)
  PROVE  Holds
<1>0. run[r] \in Run /\ TurnOf(r) /\ Stopped(r)
  BY DEF TypeOK, OwnTurns
<1>1. ASSUME CoTurn(r), flight[r] # "turn", UNCHANGED agents PROVE Holds
  BY <1>1, OutsideTurn, PlainTurns
<1>2. CASE OpenChecks(r)
  <2>1. \/ \E kind : Fails(r, kind, stopper[r])
        \/ flight' = [flight EXCEPT ![r] = "opening"] /\ UNCHANGED <<stored, aborted, stopper>>
    BY <1>2 DEF OpenChecks
  <2>2. flight[r] = "open" /\ UNCHANGED agents
    BY <1>2 DEF OpenChecks
  <2> QED BY <1>1, <2>1, <2>2, FailsTurn, MovesTurn
<1>3. CASE OpenReturns(r)
  <2>1. flight[r] = "opening" /\ UNCHANGED agents
    BY <1>3 DEF OpenReturns
  <2>2. ASSUME NEW kind, Fails(r, kind, stopper[r]) PROVE Holds
    BY <1>1, <2>1, <2>2, FailsTurn
  <2>3. ASSUME NEW e \in Entries, NEW rec, rec = [run[r] EXCEPT !.entry = e], NextTurn(r, rec) \/ Leaves(r, rec, stopper[r])
        PROVE  Holds
    <3>1. rec \in Run /\ rec.entry # None
      BY <1>0, <2>3, NamesAssumption DEF Run
    <3> QED BY <1>1, <2>1, <2>3, <3>1, NextTurnTurn, LeavesTurn
  <2>4. \/ \E kind : Fails(r, kind, stopper[r])
        \/ \E e \in Entries : \E rec : rec = [run[r] EXCEPT !.entry = e] /\ (NextTurn(r, rec) \/ Leaves(r, rec, stopper[r]))
    BY <1>3 DEF OpenReturns
  <2> QED BY <2>2, <2>3, <2>4
<1>4. CASE Readies(r)
  <2> DEFINE e == run[r].entry
  <2>0. flight[r] = "ready" /\ e \in Entries /\ r # None
    BY <1>0, <1>4, NamesAssumption DEF Readies, TurnOf, Run
  <2>1. CASE UNCHANGED agents /\ ((\E kind : Fails(r, kind, stopper[r])) \/ Leaves(r, run[r], stopper[r]))
    BY <1>1, <2>0, <2>1, FailsTurn, LeavesTurn
  <2>2. CASE /\ r \notin aborted /\ native[e] = "idle"
             /\ flight' = [flight EXCEPT ![r] = "turn"] /\ UNCHANGED <<stored, aborted, stopper>>
             /\ owned' = owned \cup {r} /\ native' = [native EXCEPT ![e] = r] /\ UNCHANGED sends
    <3>1. \A q \in Runs : flight'[q] = IF q = r THEN "turn" ELSE flight[q]
      BY <2>2 DEF TypeOK
    <3>2. \A f \in Entries : native'[f] = IF f = e THEN r ELSE native[f]
      BY <2>0, <2>2 DEF TypeOK
    <3> SUFFICES ASSUME NEW q \in Runs PROVE TurnOf(q)' /\ Stopped(q)'
      BY <2>2 DEF Holds, OwnTurns, Asked, TurnOf
    <3>3. TurnOf(q) /\ Stopped(q)
      BY DEF OwnTurns
    <3>4. CASE q = r
      BY <1>0, <2>0, <2>2, <3>1, <3>2, <3>4 DEF TurnOf, Stopped, stored
    <3>5. CASE q # r
      <4>1. q # "idle" /\ (flight[q] = "turn" => run[q].entry \in Entries)
        BY <3>3, NamesAssumption DEF TurnOf, TypeOK, Run
      <4> QED BY <2>0, <2>2, <3>1, <3>2, <3>3, <3>5, <4>1 DEF TurnOf, Stopped, stored
    <3> QED BY <3>4, <3>5
  <2> QED BY <1>4, <2>1, <2>2 DEF Readies
<1>5. CASE YieldOver(r)
  <2>1. flight[r] = "yield" /\ UNCHANGED agents /\ run[r].entry # None
    BY <1>0, <1>5 DEF YieldOver, TurnOf
  <2> QED BY <1>0, <1>1, <1>5, <2>1, NextTurnTurn, LeavesTurn DEF YieldOver
<1>6. CASE SleepOver(r)
  <2>1. flight[r] = "sleep" /\ UNCHANGED agents
    BY <1>6 DEF SleepOver
  <2> QED BY <1>1, <1>6, <2>1, MovesTurn, LeavesTurn DEF SleepOver
<1> QED BY <1>2, <1>3, <1>4, <1>5, <1>6 DEF Coroutine

----------------------------------------------------------------------------
(* The agents' steps *)

LEMMA AgentTurns ==
  ASSUME TypeOK, StopNamed, OwnTurns, Agent = "acp", NEW r \in Runs,
         Waits(r) \/ StopConfirmed(r) \/ StopGivesUp(r) \/ Accepts(r) \/ Rejects(r) \/ TurnEnds(r)
  PROVE  Holds
<1>0. run[r] \in Run /\ TurnOf(r) /\ Stopped(r) /\ r # "idle"
  BY NamesAssumption DEF TypeOK, OwnTurns
<1>00. \A q \in Runs : stopper'[q] \in {stopper[q], "no"} => Asked(q)
  BY DEF Asked, OwnTurns, TurnOf
<1>1. CASE Waits(r)
  <2> DEFINE status == IF run[r].status = "running" THEN "waiting" ELSE "running"
  <2>1. run' = [run EXCEPT ![r] = [run[r] EXCEPT !.status = status]]
    BY <1>1 DEF Waits
  <2>2. [run[r] EXCEPT !.status = status].status # "stopping" /\ [run[r] EXCEPT !.status = status].entry = run[r].entry
    BY <1>0 DEF Run
  <2> HIDE DEF status
  <2>3. /\ run'[r].status # "stopping" /\ run'[r].entry = run[r].entry
        /\ \A q \in Runs : q # r => run'[q] = run[q]
    BY <2>1, <2>2 DEF TypeOK
  <2>4. UNCHANGED <<healthy, coroutines, agents>>
    BY <1>1 DEF Waits
  <2>5. \A q \in Runs : Turn(q)
    BY <1>00, <2>3, <2>4 DEF Turn, Stays, OwnTurns, Stopped, coroutines
  <2> QED BY <2>4, <2>5, PlainTurns
<1>2. CASE StopConfirmed(r)
  <2>1. flight[r] # "turn"
    BY <1>0, <1>2 DEF StopConfirmed, TurnOf
  <2>2. /\ stopper' = [stopper EXCEPT ![r] = "no"]
        /\ UNCHANGED <<stored, flight, aborted, agents>>
    BY <1>2, <2>1 DEF StopConfirmed, agents
  <2>3. \A q \in Runs : stopper'[q] = IF q = r THEN "no" ELSE stopper[q]
    BY <2>2 DEF TypeOK
  <2>4. \A q \in Runs : Turn(q)
    BY <1>00, <2>1, <2>2, <2>3 DEF Turn, Stays, OwnTurns, Stopped, stored
  <2> QED BY <2>2, <2>4, PlainTurns
<1>3. CASE StopGivesUp(r)
  <2> DEFINE rec == [run[r] EXCEPT !.unconfirmed = TRUE]
             at == flight[r]
  <2>1. rec.unconfirmed /\ rec.status = run[r].status /\ rec.entry = run[r].entry
    BY <1>0 DEF Run
  <2>2. Save([run EXCEPT ![r] = rec], sched, [flight EXCEPT ![r] = at], aborted, [stopper EXCEPT ![r] = "no"])
    BY <1>3 DEF StopGivesUp, Goes
  <2> HIDE DEF rec, at
  <2>3. Given(r, rec, at, aborted, "no") /\ \A q \in Runs : q # r => Turn(q)
    BY <2>2, OneTurn
  <2>4. Turn(r)
    <3>1. Stays(r)
      BY <2>1, <2>3 DEF Given, Stays, at
    <3>2. Asked(r)
      BY <1>0, <1>3, <2>3, AskingIs DEF Given, Asked, StopGivesUp, TurnOf
    <3>3. Stopped(r)'
      BY <1>0, <2>1, <2>3 DEF Given, Stopped, at
    <3> QED BY <3>1, <3>2, <3>3 DEF Turn
  <2>5. UNCHANGED agents
    BY <1>3 DEF StopGivesUp
  <2> QED BY <2>3, <2>4, <2>5, PlainTurns
<1>4. CASE Accepts(r) \/ Rejects(r)
  BY <1>0, <1>4 DEF Accepts, Rejects, TurnOf
<1>5. CASE TurnEnds(r)
  <2>1. PICK e \in Entries : native[e] = r /\ native' = [native EXCEPT ![e] = "idle"]
    BY <1>5 DEF TurnEnds
  <2>2. flight[r] = "turn" /\ run[r].entry # None
    BY <1>0, <2>1 DEF TurnOf
  <2>3. /\ owned' = owned \ {r} /\ UNCHANGED sends
        /\ TurnSucceeds(r) \/ \E kind \in KINDS : Fails(r, kind, stopper[r])
    BY <1>5, <2>2 DEF TurnEnds
  <2>4. ASSUME TurnSucceeds(r) PROVE CoTurn(r)
    <3> DEFINE rec == [run[r] EXCEPT !.retries = 0]
    <3>1. rec.status = run[r].status /\ rec.entry = run[r].entry
      BY <1>0 DEF Run
    <3> HIDE DEF rec
    <3>2. ASSUME NEW last, Leaves(r, last, stopper[r]) PROVE CoTurn(r)
      BY <2>2, <3>2, LeavesTurn
    <3>3. CASE Live(r) /\ Goes(r, rec, "yield", stopper[r])
      BY <2>2, <3>1, <3>3, GoesTurn, LiveTurn
    <3> QED BY <2>4, <3>2, <3>3 DEF TurnSucceeds, rec
  <2>5. CoTurn(r)
    BY <2>2, <2>3, <2>4, FailsTurn
  <2> QED BY <2>1, <2>3, <2>5, TurnOver DEF CoTurn
<1> QED BY <1>1, <1>2, <1>3, <1>4, <1>5

LEMMA OthersTurns ==
  ASSUME TypeOK, OwnTurns, NEW e \in Entries, OthersBegin(e) \/ OthersEnd(e)
  PROVE  Holds
<1>1. PICK who \in {"idle", "user", "compaction"} : native' = [native EXCEPT ![e] = who]
  BY DEF OthersBegin, OthersEnd
<1>2. \A f \in Entries : native'[f] = IF f = e THEN who ELSE native[f]
  BY <1>1 DEF TypeOK
<1>3. native[e] \notin Runs /\ who \notin Runs
  BY NamesAssumption DEF OthersBegin, OthersEnd
<1>4. UNCHANGED <<stored, coroutines, sends, owned>>
  BY DEF OthersBegin, OthersEnd
<1> SUFFICES ASSUME NEW q \in Runs PROVE TurnOf(q)' /\ Stopped(q)' /\ Asked(q)
  BY DEF Holds, OwnTurns
<1>5. TurnOf(q) /\ Stopped(q) /\ (flight[q] = "turn" => run[q].entry \in Entries)
  BY DEF OwnTurns, TurnOf, TypeOK, Run
<1> QED BY <1>2, <1>3, <1>4, <1>5 DEF TurnOf, Stopped, Asked, stored, coroutines

----------------------------------------------------------------------------
(* Stops, the tick and persons *)

LEMMA StopRunTurn ==
  ASSUME TypeOK, OwnTurns, Agent = "acp", NEW r \in Runs, NEW status \in STOPS, StopRun(r, status)
  PROVE  \A q \in Runs : Turn(q)
<1>0. run[r] \in Run /\ TurnOf(r) /\ Stopped(r)
  BY DEF TypeOK, OwnTurns
<1>1. CASE flight[r] = "no"
  <2>1. Save([run EXCEPT ![r] = Finished(run[r], status)], sched, flight, aborted, stopper)
    BY <1>1 DEF StopRun
  <2>2. Finished(run[r], status).status # "stopping"
    BY <1>0 DEF Finished, Run, STOPS
  <2> QED BY <1>1, <2>1, <2>2, RecordTurn
<1>2. CASE flight[r] # "no"
  <2> DEFINE rec == [run[r] EXCEPT !.status = "stopping", !.stop = status, !.unconfirmed = FALSE]
             at == flight[r]
             ab == aborted \cup {r}
             s == Asking(r)
  <2>1. rec.entry = run[r].entry
    BY <1>0 DEF Run
  <2>2. flight = [flight EXCEPT ![r] = at]
    BY DEF TypeOK
  <2>3. Save([run EXCEPT ![r] = rec], sched, flight, ab, [stopper EXCEPT ![r] = s])
    BY <1>2 DEF StopRun
  <2>4. r \in ab /\ \A q \in Runs : q # r => (q \in ab <=> q \in aborted)
    OBVIOUS
  <2> HIDE DEF rec, at, ab, s
  <2>5. Save([run EXCEPT ![r] = rec], sched, [flight EXCEPT ![r] = at], ab, [stopper EXCEPT ![r] = s])
    BY <2>2, <2>3
  <2>6. Given(r, rec, at, ab, s) /\ \A q \in Runs : q # r => Turn(q)
    BY <2>4, <2>5, OneTurn
  <2>7. Given(r, rec, flight[r], ab, s) /\ s \in {stopper[r], Asking(r)}
    BY <2>6 DEF at, s
  <2>8. flight[r] = "turn" => s = "asked"
    BY <1>0, AskingIs DEF TurnOf, s
  <2>9. Turn(r)
    BY <2>1, <2>4, <2>7, <2>8, KeptTurn
  <2> QED BY <2>6, <2>9
<1> QED BY <1>1, <1>2

\* A save of what is there.
LEMMA AgainTurn ==
  ASSUME TypeOK, OwnTurns, Agent = "acp", NEW rows, Save(run, rows, flight, aborted, stopper)
  PROVE  \A q \in Runs : Turn(q)
<1> SUFFICES ASSUME NEW q \in Runs PROVE Turn(q)
  OBVIOUS
<1>1. Given(q, run[q], flight[q], aborted, stopper[q])
  BY SaveGives
<1> QED BY <1>1, SameTurn

\* Nothing of the runs changes.
LEMMA QuietTurn ==
  ASSUME OwnTurns, UNCHANGED <<run, healthy, coroutines>>
  PROVE  \A q \in Runs : Turn(q)
BY DEF OwnTurns, TurnOf, Turn, Stays, Asked, Stopped, coroutines

LEMMA LaunchTurn ==
  ASSUME TypeOK, OwnTurns, Agent = "acp", NEW r \in Runs, flight[r] = "no", Launch(r)
  PROVE  \A q \in Runs : Turn(q)
<1> DEFINE rec == Starting(r)
           at == "open"
           s == stopper[r]
<1>1. rec.status = "starting"
  BY DEF Starting, TypeOK, Run
<1>2. Save([run EXCEPT ![r] = rec], sched, [flight EXCEPT ![r] = at], aborted, [stopper EXCEPT ![r] = s])
  BY DEF Launch, Goes
<1>3. at # flight[r] /\ at \notin {"turn", "ready", "yield"}
  OBVIOUS
<1> HIDE DEF rec, at, s
<1>4. Given(r, rec, at, aborted, s) /\ \A q \in Runs : q # r => Turn(q)
  BY <1>2, OneTurn
<1>5. Given(r, rec, at, aborted, stopper[r])
  BY <1>4 DEF s
<1>6. Over(r)
  BY <1>1, <1>3, <1>5, PlaceTurn
<1> QED BY <1>4, <1>6 DEF Over, Turn

LEMMA TickTurns ==
  ASSUME TypeOK, Working, OwnTurns, Agent = "acp", NEW r \in Runs,
         TickStops(r) \/ TickSaves(r) \/ TickAdmits(r) \/ TickPrepared(r) \/ ResetComes(r) \/ PersonStops(r) \/ Resume(r)
  PROVE  Holds
<1>0. run[r] \in Run /\ (run[r].status = "queued" => flight[r] = "no")
  BY DEF TypeOK, Working, AtWork, ACTIVE
<1>1. UNCHANGED agents
  BY DEF TickStops, TickSaves, TickAdmits, TickPrepared, ResetComes, PersonStops, Resume
<1>2. ASSUME \A q \in Runs : Turn(q) PROVE Holds
  BY <1>1, <1>2, PlainTurns
<1>3. CASE TickStops(r) \/ PersonStops(r)
  <2>1. PICK status \in {"limited", "blocked", "paused", "stopped"} : StopRun(r, status)
    BY <1>3 DEF TickStops, PersonStops
  <2> QED BY <1>2, <2>1, StopRunTurn DEF STOPS
<1>4. CASE TickSaves(r)
  BY <1>2, <1>4, AgainTurn DEF TickSaves
<1>5. CASE TickAdmits(r)
  <2>1. flight[r] = "no" /\ (Launch(r) \/ UNCHANGED <<stored, coroutines>>)
    BY <1>5 DEF TickAdmits
  <2>2. CASE UNCHANGED <<stored, coroutines>>
    BY <1>2, <2>2, QuietTurn DEF stored
  <2> QED BY <1>2, <2>1, <2>2, LaunchTurn
<1>6. CASE TickPrepared(r)
  <2>1. CASE UNCHANGED <<stored, coroutines>>
    BY <1>2, <2>1, QuietTurn DEF stored
  <2>2. CASE run[r].status = "queued" /\ Launch(r)
    BY <1>0, <1>2, <2>2, LaunchTurn
  <2>3. CASE run[r].status = "queued" /\ Save([run EXCEPT ![r] = Finished(run[r], "failed")], sched, flight, aborted, stopper)
    <3>1. Finished(run[r], "failed").status # "stopping"
      BY <1>0 DEF Finished, Run
    <3> QED BY <1>0, <1>2, <2>3, <3>1, RecordTurn
  <2> QED BY <1>6, <2>1, <2>2, <2>3 DEF TickPrepared
<1>7. CASE ResetComes(r)
  <2>1. run' = [run EXCEPT ![r] = [run[r] EXCEPT !.later = FALSE]] /\ UNCHANGED <<healthy, coroutines>>
    BY <1>7 DEF ResetComes
  <2>2. \A q \in Runs : run'[q].entry = run[q].entry /\ run'[q].status = run[q].status /\ run'[q].unconfirmed = run[q].unconfirmed
    <3>1. [run[r] EXCEPT !.later = FALSE].entry = run[r].entry /\ [run[r] EXCEPT !.later = FALSE].status = run[r].status
          /\ [run[r] EXCEPT !.later = FALSE].unconfirmed = run[r].unconfirmed
      BY <1>0 DEF Run
    <3> QED BY <2>1, <3>1 DEF TypeOK
  <2>3. \A q \in Runs : Turn(q)
    BY <2>1, <2>2 DEF OwnTurns, TurnOf, Turn, Stays, Asked, Stopped, coroutines
  <2> QED BY <1>2, <2>3
<1>8. CASE Resume(r)
  <2> DEFINE rec == [run[r] EXCEPT !.status = "queued", !.later = FALSE, !.retries = 0, !.unconfirmed = FALSE]
  <2>1. rec.status = "queued" /\ rec.entry = run[r].entry
    BY <1>0 DEF Run
  <2>2. Save([run EXCEPT ![r] = rec], sched, flight, aborted, stopper)
    BY <1>8 DEF Resume
  <2> HIDE DEF rec
  <2> QED BY <1>2, <2>1, <2>2, RecordTurn
<1> QED BY <1>3, <1>4, <1>5, <1>6, <1>7, <1>8

LEMMA NewTurns ==
  ASSUME TypeOK, Working, OwnTurns, Agent = "acp", NEW r \in Runs,
         (\E s \in Schedules : TickFires(s, r) \/ TickSlips(s, r) \/ RunNow(s, r)) \/ \E o \in GoalOrders : CreateGoal(r, o)
  PROVE  Holds
<1>1. UNCHANGED agents /\ Room(r)
  BY DEF TickFires, TickSlips, RunNow, CreateGoal
<1>2. flight[r] = "no"
  BY <1>1 DEF Room, Working, AtWork, ACTIVE, FINISHED
<1>3. CASE \E o, s, n, rows : Save([run EXCEPT ![r] = NewRun(o, s, n)], rows, flight, aborted, stopper)
  <2>1. PICK o, s, n, rows : Save([run EXCEPT ![r] = NewRun(o, s, n)], rows, flight, aborted, stopper)
    BY <1>3
  <2>2. NewRun(o, s, n).status # "stopping"
    BY DEF NewRun, NoRun
  <2>3. \A q \in Runs : Turn(q)
    BY <1>2, <2>1, <2>2, RecordTurn
  <2> QED BY <1>1, <2>3, PlainTurns
<1>4. ASSUME NEW s \in Schedules, TickSlips(s, r) PROVE Holds
  <2>1. run' = [run EXCEPT ![r] = [NewRun(sched[s].order, s, sched[s].next) EXCEPT !.again = TRUE]] /\ UNCHANGED <<healthy, coroutines>>
    BY <1>4 DEF TickSlips
  <2>2. [NewRun(sched[s].order, s, sched[s].next) EXCEPT !.again = TRUE].status = "queued"
    BY DEF NewRun, NoRun
  <2>3. run'[r].status = "queued" /\ \A q \in Runs : q # r => run'[q] = run[q]
    BY <2>1, <2>2 DEF TypeOK
  <2>4. \A q \in Runs : Asked(q)
    BY <2>1 DEF Asked, OwnTurns, TurnOf, coroutines
  <2>5. \A q \in Runs : Turn(q)
    BY <1>2, <2>1, <2>3, <2>4 DEF OwnTurns, Turn, Stays, Apart, Stopped, coroutines
  <2> QED BY <1>1, <2>5, PlainTurns
<1> QED BY <1>3, <1>4 DEF TickFires, RunNow, CreateGoal, Makes

LEMMA RestTurns ==
  ASSUME TypeOK, OwnTurns, Agent = "acp",
         (\E s \in Schedules : TimeComes(s) \/ SetSchedule(s)) \/ TickGoesOn \/ UNCHANGED vars
  PROVE  Holds
<1>1. UNCHANGED agents
  BY DEF TimeComes, SetSchedule, TickGoesOn, vars
<1>2. UNCHANGED <<run, healthy, coroutines>> \/ \E rows : Save(run, rows, flight, aborted, stopper)
  BY DEF TimeComes, SetSchedule, TickGoesOn, vars, stored
<1>3. \A q \in Runs : Turn(q)
  BY <1>2, AgainTurn, QuietTurn
<1> QED BY <1>1, <1>3, PlainTurns

LEMMA RestartTurns ==
  ASSUME TypeOK, Restart
  PROVE  Holds
<1>1. /\ \A q \in Runs : flight'[q] = "no" /\ stopper'[q] = "no"
      /\ sends' = {} /\ owned' = {} /\ \A e \in Entries : native'[e] \in {"user", "idle"}
  BY DEF Restart
<1> QED BY <1>1, NamesAssumption DEF Holds, OwnTurns, TurnOf, Stopped, Asked

LEMMA TurnsNext ==
  ASSUME TypeOK, StopNamed, Working, OwnTurns, Agent = "acp", [Next]_vars
  PROVE  Holds
BY CoroutineTurns, AgentTurns, OthersTurns, TickTurns, NewTurns, RestTurns, RestartTurns DEF Next

\* With an agent that admits a send at once a run's waiter, its ownership and
\* the agent's turn begin and end together, and a stop keeps asking, whatever
\* is stopped, fails or restarts.
THEOREM TurnsAlways ==
  ASSUME Agent = "acp"
  PROVE  Spec => []OwnTurns
<1>1. Init => OwnTurns
  BY NamesAssumption DEF Init, OwnTurns, TurnOf, Stopped
<1>2. TypeOK /\ StopNamed /\ Working /\ OwnTurns /\ [Next]_vars => OwnTurns'
  BY TurnsNext DEF Holds
<1> QED BY <1>1, <1>2, WorkflowsTyped, PTL DEF Spec

\* With such an agent the Host waits for every turn it started: no waiter is
\* released while its turn is at work ("The bridge does not release its waiter
\* until native work has settled", stop in workflows.js).
THEOREM WaitersKept ==
  ASSUME Agent = "acp"
  PROVE  Spec => []WaiterKept
<1>1. OwnTurns => WaiterKept
  BY DEF OwnTurns, TurnOf, WaiterKept
<1> QED BY <1>1, TurnsAlways, PTL

\* With such an agent a turn that is being stopped is asked to stop, or the
\* run says that the stop was not confirmed (stop in workflows.js, and the
\* bridge's stop in server.js).
THEOREM StopsQuiet ==
  ASSUME Agent = "acp"
  PROVE  Spec => []StopIsQuiet
<1>1. OwnTurns => StopIsQuiet
  BY DEF OwnTurns, TurnOf, Stopped, StopIsQuiet
<1> QED BY <1>1, TurnsAlways, PTL

\* With such an agent only a run's own turn is asked to stop, never a user's or
\* another run's (the bridge's stop in server.js, which looks at workflowOwnedTurns).
THEOREM OwnTurnsOnly ==
  ASSUME Agent = "acp"
  PROVE  Spec => OnlyOwnTurns
<1>1. TypeOK /\ StopNamed /\ Working /\ OwnTurns /\ [Next]_vars =>
        \A r \in Runs : (stopper[r] # "asked" /\ stopper'[r] = "asked") => native'[run[r].entry] = r
  <2> SUFFICES ASSUME TypeOK, StopNamed, Working, OwnTurns, [Next]_vars, NEW r \in Runs,
                      stopper[r] # "asked", stopper'[r] = "asked"
               PROVE  native'[run[r].entry] = r
    OBVIOUS
  <2>1. OwnTurns' /\ Asked(r)
    BY TurnsNext DEF Holds
  <2>2. r \in owned /\ Stays(r)
    BY <2>1 DEF Asked
  <2>3. flight[r] = "turn"
    BY <2>2 DEF OwnTurns, TurnOf
  <2>4. TurnOf(r)'
    BY <2>1 DEF OwnTurns
  <2> QED BY <2>2, <2>3, <2>4 DEF TurnOf, Stays
<1> QED BY <1>1, WorkflowsTyped, TurnsAlways, PTL DEF Spec, OnlyOwnTurns

----------------------------------------------------------------------------
(* After a failed save *)

\* A send under way when a save failed is waited for by a stop, unless a stop
\* of its run has already said that it was not confirmed.
Quiets(q) == (~healthy /\ flight[q] = "turn" /\ q \in sends) => stopper[q] # "no" \/ run[q].unconfirmed
SendsStop == (Agent = "acp" => sends = {}) /\ \A q \in Runs : Quiets(q)

LEMMA SavesQuiet ==
  ASSUME TypeOK, SendsStop, Agent # "pi", NEW runs, NEW rows, NEW fl, NEW ab, NEW st, Save(runs, rows, fl, ab, st),
         sends' \subseteq sends, NEW q \in Runs, fl[q] = "turn" => flight[q] = "turn",
         (~healthy /\ fl[q] = "turn") =>
           (st[q] = stopper[q] /\ runs[q].unconfirmed = run[q].unconfirmed) \/ st[q] # "no" \/ runs[q].unconfirmed
  PROVE  Quiets(q)'
<1>1. run' = runs
  BY DEF Save
<1>2. CASE flight' = fl /\ stopper' = st /\ UNCHANGED healthy
  BY <1>1, <1>2 DEF Quiets, SendsStop
<1>3. CASE /\ healthy
           /\ flight' = [r \in Runs |-> IF fl[r] = flight[r] THEN fl[r] ELSE "no"]
           /\ stopper' = [r \in Runs |-> IF flight'[r] # "no" THEN Asking(r) ELSE stopper[r]]
  <2> SUFFICES ASSUME flight'[q] = "turn", q \in sends PROVE stopper'[q] # "no"
    BY DEF Quiets
  <2>1. stopper'[q] = Asking(q)
    BY <1>3
  <2>2. Agent = "codex"
    BY AgentAssumption DEF SendsStop
  <2> QED BY <2>1, <2>2 DEF Asking
<1> QED BY <1>2, <1>3 DEF Save

\* A handler that changes one run and its coroutine.
LEMMA OneQuiet ==
  ASSUME TypeOK, SendsStop, Agent # "pi", NEW r \in Runs, NEW rec, NEW at, NEW ab, NEW s,
         at # "turn" \/ (at = flight[r] /\ rec.unconfirmed),
         Save([run EXCEPT ![r] = rec], sched, [flight EXCEPT ![r] = at], ab, [stopper EXCEPT ![r] = s]),
         sends' \subseteq sends
  PROVE  \A q \in Runs : Quiets(q)'
<1> SUFFICES ASSUME NEW q \in Runs PROVE Quiets(q)'
  OBVIOUS
<1> DEFINE runs == [run EXCEPT ![r] = rec]
           fl == [flight EXCEPT ![r] = at]
           st == [stopper EXCEPT ![r] = s]
<1>1. /\ runs[r] = rec /\ fl[r] = at
      /\ q # r => runs[q] = run[q] /\ fl[q] = flight[q] /\ st[q] = stopper[q]
  BY DEF TypeOK
<1>2. Save(runs, sched, fl, ab, st)
  OBVIOUS
<1> HIDE DEF runs, fl, st
<1>3. fl[q] = "turn" => flight[q] = "turn"
  BY <1>1
<1>4. fl[q] = "turn" => (st[q] = stopper[q] /\ runs[q].unconfirmed = run[q].unconfirmed) \/ runs[q].unconfirmed
  BY <1>1
<1> QED BY <1>2, <1>3, <1>4, SavesQuiet

LEMMA LeavesQuiet ==
  ASSUME TypeOK, SendsStop, Agent # "pi", NEW r \in Runs, NEW rec, NEW st, Leaves(r, rec, st), sends' \subseteq sends
  PROVE  \A q \in Runs : Quiets(q)'
<1> DEFINE last == IF rec.status = "stopping" /\ healthy THEN Finished(rec, rec.stop) ELSE rec
           ab == aborted \ {r}
<1>1. Save([run EXCEPT ![r] = last], sched, [flight EXCEPT ![r] = "no"], ab, [stopper EXCEPT ![r] = st])
  BY DEF Leaves
<1> HIDE DEF last, ab
<1> QED BY <1>1, OneQuiet

LEMMA GoesQuiet ==
  ASSUME TypeOK, SendsStop, Agent # "pi", NEW r \in Runs, NEW rec, NEW at, NEW st, Goes(r, rec, at, st),
         at # "turn" \/ (at = flight[r] /\ rec.unconfirmed), sends' \subseteq sends
  PROVE  \A q \in Runs : Quiets(q)'
BY OneQuiet DEF Goes

LEMMA FailsQuiet ==
  ASSUME TypeOK, SendsStop, Agent # "pi", NEW r \in Runs, NEW kind, NEW st, Fails(r, kind, st), sends' \subseteq sends
  PROVE  \A q \in Runs : Quiets(q)'
<1>1. \/ \E rec : Leaves(r, rec, st)
      \/ \E rec : Goes(r, rec, "no", st) \/ Goes(r, rec, "sleep", st)
  BY DEF Fails
<1> QED BY <1>1, LeavesQuiet, GoesQuiet

LEMMA NextTurnQuiet ==
  ASSUME TypeOK, SendsStop, Agent # "pi", NEW r \in Runs, NEW rec, NextTurn(r, rec), sends' \subseteq sends
  PROVE  \A q \in Runs : Quiets(q)'
<1>1. \/ \E last : Leaves(r, last, stopper[r])
      \/ \E next : Goes(r, next, "ready", stopper[r])
  BY DEF NextTurn
<1> QED BY <1>1, LeavesQuiet, GoesQuiet

\* A handler that saves while the storage is healthy and begins no turn.
LEMMA HealthyQuiet ==
  ASSUME TypeOK, SendsStop, Agent # "pi", healthy, NEW runs, NEW rows, NEW ab, NEW st,
         Save(runs, rows, flight, ab, st), sends' \subseteq sends
  PROVE  \A q \in Runs : Quiets(q)'
<1> SUFFICES ASSUME NEW q \in Runs PROVE Quiets(q)'
  OBVIOUS
<1> QED BY SavesQuiet

\* A step that saves nothing and begins no turn.
LEMMA IdleQuiet ==
  ASSUME SendsStop, healthy' = healthy, sends' \subseteq sends,
         \A q \in Runs : flight'[q] = "turn" /\ q \in sends' =>
           flight[q] = "turn" /\ stopper'[q] = stopper[q] /\ run'[q].unconfirmed = run[q].unconfirmed
  PROVE  \A q \in Runs : Quiets(q)'
BY DEF SendsStop, Quiets

LEMMA CoroutineQuiets ==
  ASSUME TypeOK, SendsStop, Flights, Agent # "pi", NEW r \in Runs, Coroutine(r)
  PROVE  SendsStop'
<1>1. ASSUME sends' \subseteq sends, \A q \in Runs : Quiets(q)' PROVE SendsStop'
  BY <1>1 DEF SendsStop
<1>2. CASE Readies(r)
  <2>1. CASE sends' = sends /\ ((\E kind : Fails(r, kind, stopper[r])) \/ Leaves(r, run[r], stopper[r]))
    BY <1>1, <2>1, FailsQuiet, LeavesQuiet
  <2>2. CASE r \notin aborted /\ UNCHANGED stored /\ (Agent = "acp" => sends' = sends)
    <3>1. healthy
      BY <1>2, <2>2 DEF Flights, Aborts, InFlight, Readies
    <3> QED BY <2>2, <3>1 DEF stored, SendsStop, Quiets
  <2> QED BY <1>2, <2>1, <2>2 DEF Readies, agents
<1>3. CASE OpenChecks(r) \/ SleepOver(r)
  <2>1. CASE (\E kind : Fails(r, kind, stopper[r])) \/ Leaves(r, run[r], stopper[r])
    BY <1>1, <1>3, <2>1, FailsQuiet, LeavesQuiet DEF OpenChecks, SleepOver, agents
  <2>2. ASSUME NEW at \in {"open", "opening"}, flight' = [flight EXCEPT ![r] = at], UNCHANGED <<stored, aborted, stopper>>
        PROVE  SendsStop'
    <3>1. \A q \in Runs : flight'[q] = "turn" => flight[q] = "turn"
      BY <2>2 DEF TypeOK
    <3> QED BY <1>1, <1>3, <2>2, <3>1, IdleQuiet DEF OpenChecks, SleepOver, agents, stored
  <2> QED BY <1>3, <2>1, <2>2 DEF OpenChecks, SleepOver
<1>4. CASE OpenReturns(r) \/ YieldOver(r)
  <2>1. sends' = sends
    BY <1>4 DEF OpenReturns, YieldOver, agents
  <2>2. \/ \E kind : Fails(r, kind, stopper[r])
        \/ \E rec : NextTurn(r, rec) \/ Leaves(r, rec, stopper[r])
    BY <1>4 DEF OpenReturns, YieldOver
  <2> QED BY <1>1, <2>1, <2>2, FailsQuiet, NextTurnQuiet, LeavesQuiet
<1> QED BY <1>2, <1>3, <1>4 DEF Coroutine

LEMMA AgentQuiets ==
  ASSUME TypeOK, SendsStop, Agent # "pi", NEW r \in Runs,
         Waits(r) \/ StopConfirmed(r) \/ StopGivesUp(r) \/ Accepts(r) \/ Rejects(r) \/ TurnEnds(r)
  PROVE  SendsStop'
<1>1. ASSUME sends' \subseteq sends, \A q \in Runs : Quiets(q)' PROVE SendsStop'
  BY <1>1 DEF SendsStop
<1>2. sends' \subseteq sends
  BY DEF Waits, StopConfirmed, StopGivesUp, Accepts, Rejects, TurnEnds, agents
<1>3. CASE Waits(r)
  <2>1. \A q \in Runs : run'[q].unconfirmed = run[q].unconfirmed
    BY <1>3 DEF Waits, TypeOK, Run
  <2> QED BY <1>1, <1>2, <1>3, <2>1, IdleQuiet DEF Waits, coroutines
<1>4. CASE \E kind, st : Fails(r, kind, st)
  BY <1>1, <1>2, <1>4, FailsQuiet
<1>5. CASE StopGivesUp(r)
  <2> DEFINE rec == [run[r] EXCEPT !.unconfirmed = TRUE]
  <2>1. rec.unconfirmed
    BY DEF TypeOK, Run
  <2>2. Goes(r, rec, flight[r], "no")
    BY <1>5 DEF StopGivesUp
  <2> HIDE DEF rec
  <2> QED BY <1>1, <1>2, <2>1, <2>2, GoesQuiet
<1>6. CASE Accepts(r)
  <2>1. r \notin sends' /\ UNCHANGED <<stored, flight>> /\ \A q \in Runs : q # r => stopper'[q] = stopper[q]
    BY <1>6 DEF Accepts, TypeOK
  <2> QED BY <1>1, <1>2, <2>1, IdleQuiet DEF stored
<1>7. CASE flight[r] # "turn" /\ UNCHANGED <<stored, flight>> /\ \A q \in Runs : q # r => stopper'[q] = stopper[q]
  BY <1>1, <1>2, <1>7, IdleQuiet DEF stored
<1>8. CASE TurnEnds(r) /\ TurnSucceeds(r)
  <2>1. \/ \E rec : Leaves(r, rec, stopper[r])
        \/ \E rec : Goes(r, rec, "yield", stopper[r])
    BY <1>8 DEF TurnSucceeds
  <2> QED BY <1>1, <1>2, <2>1, LeavesQuiet, GoesQuiet
<1>9. CASE StopConfirmed(r) \/ Rejects(r)
  <2>1. CASE flight[r] = "turn"
    BY <1>4, <1>9, <2>1 DEF StopConfirmed, Rejects
  <2>2. CASE flight[r] # "turn"
    <3>1. UNCHANGED <<stored, flight>> /\ \A q \in Runs : q # r => stopper'[q] = stopper[q]
      BY <1>9, <2>2 DEF StopConfirmed, Rejects, TypeOK
    <3> QED BY <1>7, <2>2, <3>1
  <2> QED BY <2>1, <2>2
<1>10. CASE TurnEnds(r)
  BY <1>4, <1>7, <1>8, <1>10 DEF TurnEnds
<1> QED BY <1>3, <1>5, <1>6, <1>9, <1>10

LEMMA OtherQuiets ==
  ASSUME TypeOK, SendsStop, Agent # "pi",
         \/ \E e \in Entries : OthersBegin(e) \/ OthersEnd(e)
         \/ \E r \in Runs : TickStops(r) \/ TickSaves(r) \/ TickAdmits(r) \/ TickPrepared(r) \/ ResetComes(r)
         \/ \E s \in Schedules, r \in Runs : TickFires(s, r) \/ TickSlips(s, r) \/ RunNow(s, r)
         \/ \E s \in Schedules : TimeComes(s) \/ SetSchedule(s)
         \/ \E r \in Runs : PersonStops(r) \/ Resume(r)
         \/ \E r \in Runs, o \in GoalOrders : CreateGoal(r, o)
         \/ TickGoesOn \/ Restart \/ UNCHANGED vars
  PROVE  SendsStop'
<1>1. ASSUME sends' \subseteq sends, \A q \in Runs : Quiets(q)' PROVE SendsStop'
  BY <1>1 DEF SendsStop
<1>2. CASE Restart
  BY <1>2 DEF Restart, SendsStop, Quiets
<1>3. CASE ~Restart
  <2>1. sends' = sends
    BY <1>3 DEF OthersBegin, OthersEnd, TickStops, TickSaves, TickAdmits, TickPrepared, ResetComes, TickFires, TickSlips,
                RunNow, TimeComes, SetSchedule, PersonStops, Resume, CreateGoal, TickGoesOn, vars, agents
  <2>2. CASE healthy /\ \E runs, rows, ab, st : Save(runs, rows, flight, ab, st)
    BY <1>1, <2>1, <2>2, HealthyQuiet
  <2>3. CASE UNCHANGED <<run, healthy, coroutines>>
    BY <1>1, <2>1, <2>3, IdleQuiet DEF coroutines
  <2>4. ASSUME NEW r \in Runs, Launch(r) PROVE SendsStop'
    BY <1>1, <2>1, <2>4, GoesQuiet DEF Launch
  <2>5. ASSUME NEW r \in Runs, ResetComes(r) PROVE SendsStop'
    <3>1. \A q \in Runs : run'[q].unconfirmed = run[q].unconfirmed
      BY <2>5 DEF ResetComes, TypeOK, Run
    <3> QED BY <1>1, <2>1, <2>5, <3>1, IdleQuiet DEF ResetComes, coroutines
  <2>6. ASSUME NEW s \in Schedules, NEW r \in Runs, TickSlips(s, r) PROVE SendsStop'
    BY <1>1, <2>1, <2>6 DEF TickSlips, Ticks, Quiets
  <2>7. ASSUME NEW r \in Runs, TickStops(r) \/ PersonStops(r) PROVE SendsStop'
    <3>1. healthy /\ \E status : StopRun(r, status)
      BY <2>7 DEF TickStops, PersonStops, Ticks
    <3> QED BY <2>2, <3>1 DEF StopRun
  <2>8. ASSUME NEW r \in Runs, TickPrepared(r) PROVE SendsStop'
    <3>1. \/ UNCHANGED <<stored, coroutines>> \/ Launch(r)
          \/ healthy /\ \E runs : Save(runs, sched, flight, aborted, stopper)
      BY <2>8 DEF TickPrepared
    <3> QED BY <2>2, <2>3, <2>4, <3>1 DEF stored
  <2>9. ASSUME NEW r \in Runs, TickAdmits(r) PROVE SendsStop'
    BY <2>3, <2>4, <2>9 DEF TickAdmits, stored
  <2>10. ASSUME NEW s \in Schedules, NEW r \in Runs, TickFires(s, r) \/ RunNow(s, r) PROVE SendsStop'
    BY <2>2, <2>10 DEF TickFires, RunNow, Makes, Ticks
  <2>11. ASSUME NEW s \in Schedules, SetSchedule(s) PROVE SendsStop'
    <3>1. healthy /\ ((\E rows : Save(run, rows, flight, aborted, stopper)) \/ UNCHANGED <<run, healthy, coroutines>>)
      BY <2>11 DEF SetSchedule
    <3> QED BY <2>2, <2>3, <3>1
  <2>12. ASSUME NEW r \in Runs, TickSaves(r) \/ Resume(r) \/ \E o \in GoalOrders : CreateGoal(r, o) PROVE SendsStop'
    BY <2>2, <2>12 DEF TickSaves, Ticks, Resume, CreateGoal
  <2>13. CASE (\E e \in Entries : OthersBegin(e) \/ OthersEnd(e)) \/ (\E s \in Schedules : TimeComes(s)) \/ TickGoesOn \/ UNCHANGED vars
    BY <2>3, <2>13 DEF OthersBegin, OthersEnd, TimeComes, TickGoesOn, vars, stored
  <2> QED BY <1>3, <2>5, <2>6, <2>7, <2>8, <2>9, <2>10, <2>11, <2>12, <2>13
<1> QED BY <1>2, <1>3

\* Only Readies begins a send, and only Readies and Accepts hand a prompt over.
LEMMA Sending ==
  ASSUME TypeOK, [Next]_vars, NEW r \in Runs, BeginsSend(r) \/ TakesPrompt(r)
  PROVE  \/ Readies(r) /\ r \notin aborted
         \/ Accepts(r) /\ ~BeginsSend(r)
<1>1. PICK q \in Runs : Readies(q) \/ Accepts(q)
  <2>1. CASE BeginsSend(r)
    BY <2>1 DEF BeginsSend, Next, vars, agents, Coroutine, OpenChecks, OpenReturns, YieldOver, SleepOver, Waits,
                StopConfirmed, StopGivesUp, Rejects, TurnEnds, OthersBegin, OthersEnd, TickStops, TickSaves,
                TickAdmits, TickPrepared, ResetComes, TickFires, TickSlips, RunNow, TimeComes, SetSchedule, PersonStops,
                Resume, CreateGoal, TickGoesOn, Restart
  <2>2. CASE TakesPrompt(r)
    <3>1. PICK e \in Entries : native[e] # r /\ native'[e] = r
      BY <2>2 DEF TakesPrompt
    <3>2. r \notin {"idle", "user", "compaction"}
      BY NamesAssumption
    <3>3. CASE \E f \in Entries : OthersBegin(f) \/ OthersEnd(f)
      BY <3>1, <3>2, <3>3 DEF OthersBegin, OthersEnd, TypeOK
    <3>4. CASE \E q \in Runs : TurnEnds(q)
      BY <3>1, <3>2, <3>4 DEF TurnEnds, TypeOK
    <3>5. CASE Restart
      BY <3>1, <3>2, <3>5 DEF Restart
    <3>6. CASE native' = native
      BY <3>1, <3>6
    <3> QED BY <3>3, <3>4, <3>5, <3>6 DEF Next, vars, agents, Coroutine, OpenChecks, OpenReturns, YieldOver, SleepOver, Waits,
                StopConfirmed, StopGivesUp, Rejects, TickStops, TickSaves,
                TickAdmits, TickPrepared, ResetComes, TickFires, TickSlips, RunNow, TimeComes, SetSchedule, PersonStops,
                Resume, CreateGoal, TickGoesOn
  <2> QED BY <2>1, <2>2
<1>2. CASE Readies(q)
  <2>1. q = r /\ r \notin aborted
    BY <1>2 DEF Readies, BeginsSend, TakesPrompt, TypeOK, agents
  <2> QED BY <1>2, <2>1
<1>3. CASE Accepts(q)
  <2>1. ~BeginsSend(r)
    BY <1>3 DEF Accepts, BeginsSend
  <2>2. q = r
    BY <1>3, <2>1 DEF Accepts, TakesPrompt, TypeOK
  <2> QED BY <1>3, <2>1, <2>2
<1> QED BY <1>1, <1>2, <1>3

\* With every agent but Pi no send begins after a failed save, and a prompt
\* that a send under way still hands over is asked to stop ("no further work
\* will be started", save in workflows.js).
THEOREM SavedFirst ==
  ASSUME Agent # "pi"
  PROVE  Spec => NothingUnsaved
<1>1. Init => SendsStop
  BY DEF Init, SendsStop, Quiets
<1>2. ASSUME TypeOK, Flights, SendsStop, [Next]_vars PROVE SendsStop'
  BY <1>2, CoroutineQuiets, AgentQuiets, OtherQuiets DEF Next
<1>3. ASSUME TypeOK, Flights, SendsStop, [Next]_vars, NEW r \in Runs, ~healthy
      PROVE  ~BeginsSend(r) /\ (TakesPrompt(r) => stopper'[r] = "asked" \/ run[r].unconfirmed)
  <2> SUFFICES ASSUME BeginsSend(r) \/ TakesPrompt(r)
               PROVE  ~BeginsSend(r) /\ (TakesPrompt(r) => stopper'[r] = "asked" \/ run[r].unconfirmed)
    OBVIOUS
  <2>1. CASE Readies(r) /\ r \notin aborted
    BY <1>3, <2>1 DEF Readies, Flights, Aborts, InFlight
  <2>2. CASE Accepts(r) /\ ~BeginsSend(r)
    <3>1. r \in sends /\ stopper'[r] = IF stopper[r] = "called" THEN "asked" ELSE stopper[r]
      BY <1>3, <2>2 DEF Accepts, TypeOK
    <3>2. TakesPrompt(r) => stopper[r] # "no" \/ run[r].unconfirmed
      BY <1>3, <3>1 DEF TakesPrompt, SendsStop, Quiets
    <3>3. stopper[r] \in {"no", "called", "asked"}
      BY <1>3 DEF TypeOK
    <3> QED BY <2>2, <3>1, <3>2, <3>3
  <2> QED BY <1>3, <2>1, <2>2, Sending
<1>4. TypeOK /\ Flights /\ SendsStop /\ [Next]_vars =>
        [\A r \in Runs : ~healthy =>
           ~BeginsSend(r) /\ (TakesPrompt(r) => stopper'[r] = "asked" \/ run[r].unconfirmed)]_vars
  BY <1>3
<1> QED BY WorkflowsTypeCorrect, FlightsAlways, <1>1, <1>2, <1>4, PTL DEF Spec, NothingUnsaved

=============================================================================
