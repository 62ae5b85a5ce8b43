---------------------------- MODULE WorkflowsProofs ----------------------------
(***************************************************************************)
(* Proofs about Workflows.  Every step but a restart is first reduced to   *)
(* what it does to each run (Change) and to the stored state (Frame); the  *)
(* invariants are then proved from these few kinds of change.              *)
(***************************************************************************)
EXTENDS Workflows, TLAPS

AtWork == ACTIVE \cup {"stopping"}
STOPPERS == {"no", "called", "asked"}

\* A run being stopped knows what it becomes.
StopNamed == \A r \in Runs : run[r].status = "stopping" => run[r].stop # None

StoredType ==
  /\ run \in [Runs -> Run] /\ sched \in [Schedules -> Schedule]
  /\ disk \in [run : [Runs -> Run], sched : [Schedules -> Schedule]] /\ healthy \in BOOLEAN
  /\ flight \in [Runs -> FLIGHTS] /\ aborted \subseteq Runs
  /\ stopper \in [Runs -> STOPPERS]

----------------------------------------------------------------------------
(* What a step does to run q *)

\* What a run is, but for its conversation.
Same(q) ==
  /\ run'[q].cwd = run[q].cwd /\ run'[q].mode = run[q].mode /\ run'[q].bound = run[q].bound
  /\ run'[q].sched = run[q].sched /\ run'[q].occ = run[q].occ /\ run'[q].again = run[q].again
Keeps(q) == Same(q) /\ run'[q].entry = run[q].entry
Alone(q) == \A p \in Runs : p # q => run'[p] = run[p] /\ flight'[p] = flight[p]
Admitted(q) == ticking.what = "prepare" /\ ticking.run = q /\ fresh
HoldsBack(q) == ~(fresh' /\ ticking'.what = "prepare" /\ ticking'.run = q)

Rests(q) == Keeps(q) /\ run'[q].status = run[q].status /\ flight'[q] = flight[q]
Works(q) ==
  /\ flight[q] # "no" /\ Same(q) /\ Alone(q)
  /\ \/ run'[q].entry = run[q].entry
     \/ run[q].entry = None /\ flight[q] = "opening" /\ Unused(run'[q].entry)
  /\ flight'[q] # "no" => run'[q].status \in AtWork \cup {run[q].status}
  /\ flight'[q] = "turn" =>
       /\ run'[q].entry = run[q].entry
       /\ flight[q] = "turn" \/ (run[q].bound => ~TargetBusy(run[q].entry, q))
Halts(q) ==
  /\ flight[q] = "no" /\ flight'[q] = "no" /\ Keeps(q) /\ Alone(q) /\ HoldsBack(q)
  /\ run[q].status \notin FINISHED \cup {"free"}
  /\ run'[q].status \in STOPS \cup {"failed"}
Starts(q) ==
  /\ flight[q] = "no" /\ run[q].status = "queued" /\ Keeps(q) /\ Alone(q) /\ HoldsBack(q)
  /\ run'[q].status = "starting" /\ flight'[q] # "turn" /\ (ticking' = Idle \/ ticking'.what = "stop")
  /\ Admitted(q) \/ ~ProjectBusy(q)
Made(q) ==
  /\ run[q].status \in FINISHED \cup {"free"} /\ flight'[q] = flight[q] /\ Alone(q)
  /\ run'[q].status = "queued" /\ q \notin unsure'
  /\ run'[q].bound => run'[q].entry # None
  /\ \/ run'[q].sched = None /\ run'[q].occ = 0 /\ ~Locked(run'[q].entry, None)
     \/ /\ run'[q].sched \in Schedules
        /\ run'[q].bound \/ run'[q].entry = None
        /\ \/ run'[q].occ = 0
           \/ /\ run'[q].occ = sched[run'[q].sched].next /\ run'[q].occ <= comes[run'[q].sched]
              /\ run'[q].again \/ sched'[run'[q].sched].next \in {0, comes[run'[q].sched] + 1}
Resumes(q) ==
  /\ run[q].status \in RESUMABLE /\ flight[q] = "no" /\ flight'[q] = "no"
  /\ Keeps(q) /\ Alone(q) /\ run'[q].status = "queued" /\ q \notin unsure'
Change(q) == Rests(q) \/ Works(q) \/ Halts(q) \/ Starts(q) \/ Made(q) \/ Resumes(q)

\* What it does to the stored state and to the tick.
Frame ==
  /\ disk' = disk \/ disk' = [run |-> run', sched |-> sched']
  /\ healthy' => healthy
  /\ \A q \in Runs : flight'[q] # "no" /\ flight[q] = "no" => healthy' /\ disk' = [run |-> run', sched |-> sched']
  /\ ~healthy' => \A q \in Runs : flight'[q] # "no" => q \in aborted' \/ (~healthy /\ flight[q] # "no" /\ q \notin aborted)
Frame2 ==
  /\ unsure' \subseteq unsure
  /\ (ticking'.what = "prepare" /\ fresh') =>
       \/ ticking' = ticking /\ fresh
       \/ /\ run' = run /\ flight' = flight
          /\ run[ticking'.run].status = "queued" /\ flight[ticking'.run] = "no" /\ ~ProjectBusy(ticking'.run)
  /\ \A s \in Schedules : comes[s] <= comes'[s] /\ sched'[s].next \in {sched[s].next, 0, comes[s] + 1}

----------------------------------------------------------------------------
(* Invariants *)

\* A run in flight is at work, in memory and on disk.
Working == \A r \in Runs :
  flight[r] # "no" => run[r].status \in AtWork /\ disk.run[r].status \in AtWork
\* The run that the tick prepares is the next of its project.
Admission ==
  (ticking.what = "prepare" /\ fresh) =>
    /\ run[ticking.run].status = "queued" /\ flight[ticking.run] = "no"
    /\ \A q \in InFlight : run[q].cwd # run[ticking.run].cwd
\* After a failed save everything in flight is being stopped.
Aborts == ~healthy => InFlight \subseteq aborted
\* An interrupted turn waits, in memory and on disk.
NotResent == \A r \in unsure :
  /\ run[r].status \notin AtWork \cup {"queued"}
  /\ disk.run[r].status \notin AtWork \cup {"queued"}
Flights == Working /\ OneRunPerProject /\ Admission /\ Aborts /\ NotResent

\* The occurrences of a schedule: each run has its own, all before the next,
\* but for runs made when the calendar found no next time.
Numbered(runs, rows) ==
  /\ \A r \in Runs : LET s == runs[r].sched IN
       (s # None /\ runs[r].occ # 0) =>
         runs[r].occ <= comes[s] /\ (runs[r].again \/ rows[s].next = 0 \/ runs[r].occ < rows[s].next)
  /\ \A r, q \in Runs :
       (/\ runs[r].sched # None /\ runs[r].sched = runs[q].sched /\ runs[r].occ = runs[q].occ /\ runs[r].occ # 0
        /\ ~runs[r].again /\ ~runs[q].again) => r = q
Numbers == Numbered(run, sched) /\ Numbered(disk.run, disk.sched)

\* A bound run has its conversation from the beginning.
Bound == \A r \in Runs :
  /\ run[r].bound => run[r].entry # None
  /\ disk.run[r].bound => disk.run[r].entry # None

----------------------------------------------------------------------------
(* Handlers that save *)

\* A save takes the runs, the schedules and the coroutines it is given; if it
\* fails, a coroutine the handler moved is over and the others are aborted.
LEMMA SaveStep ==
  ASSUME TypeOK, NEW runs \in [Runs -> Run], NEW rows \in [Schedules -> Schedule],
         NEW fl \in [Runs -> FLIGHTS], NEW ab \in SUBSET Runs, NEW st \in [Runs -> STOPPERS],
         Save(runs, rows, fl, ab, st),
         \A q \in Runs : fl[q] # "no" => (flight[q] # "no" /\ (q \in ab \/ q \notin aborted)) \/ healthy
  PROVE  /\ StoredType' /\ Frame /\ run' = runs /\ sched' = rows
         /\ \A q \in Runs : flight'[q] = fl[q] \/ (flight'[q] = "no" /\ fl[q] # flight[q])
<1>1. CASE /\ disk' = IF healthy THEN [run |-> runs, sched |-> rows] ELSE disk
           /\ flight' = fl /\ aborted' = ab /\ stopper' = st
           /\ UNCHANGED healthy
  <2>1. run' = runs /\ sched' = rows
    BY DEF Save
  <2>2. StoredType'
    BY <1>1, <2>1 DEF StoredType, TypeOK
  <2>3. Frame
    BY <1>1, <2>1 DEF Frame, TypeOK
  <2> QED BY <1>1, <2>1, <2>2, <2>3
<1>2. CASE /\ "save" \in Failing /\ healthy /\ healthy' = FALSE
           /\ flight' = [r \in Runs |-> IF fl[r] = flight[r] THEN fl[r] ELSE "no"]
           /\ aborted' = {r \in Runs : flight'[r] # "no"}
           /\ stopper' = [r \in Runs |-> IF flight'[r] # "no" THEN Asking(r) ELSE stopper[r]]
           /\ UNCHANGED disk
  <2>1. run' = runs /\ sched' = rows
    BY DEF Save
  <2>2. \A r \in Runs : Asking(r) \in STOPPERS /\ stopper[r] \in STOPPERS
    BY DEF Asking, TypeOK, STOPPERS
  <2>3. flight' \in [Runs -> FLIGHTS]
    BY <1>2 DEF FLIGHTS
  <2>4. StoredType'
    BY <1>2, <2>1, <2>2, <2>3 DEF StoredType, TypeOK
  <2>5. Frame
    BY <1>2, <2>1 DEF Frame, TypeOK
  <2> QED BY <1>2, <2>1, <2>4, <2>5
<1> QED BY <1>1, <1>2 DEF Save

\* The same of a handler that changes one run and its coroutine.
LEMMA OneRunStep ==
  ASSUME TypeOK, StopNamed, NEW r \in Runs, NEW rec \in Run, NEW at \in FLIGHTS,
         NEW ab \in SUBSET Runs, NEW st \in [Runs -> STOPPERS],
         rec.status = "stopping" => rec.stop # None,
         at # "no" => flight[r] # "no" \/ healthy,
         aborted \subseteq ab \/ (at = "no" /\ aborted \ {r} \subseteq ab),
         Save([run EXCEPT ![r] = rec], sched, [flight EXCEPT ![r] = at], ab, st)
  PROVE  /\ StoredType' /\ StopNamed' /\ Frame /\ sched' = sched /\ Alone(r)
         /\ run'[r] = rec /\ flight'[r] \in {at, "no"} /\ (at = flight[r] => flight'[r] = at)
         /\ \A q \in Runs : q # r => Rests(q)
<1> DEFINE runs == [run EXCEPT ![r] = rec]
           fl == [flight EXCEPT ![r] = at]
<1>1. runs \in [Runs -> Run] /\ fl \in [Runs -> FLIGHTS] /\ sched \in [Schedules -> Schedule]
  BY DEF TypeOK
<1>2. /\ runs[r] = rec /\ fl[r] = at
      /\ \A q \in Runs : q # r => runs[q] = run[q] /\ fl[q] = flight[q]
  BY DEF TypeOK
<1>3. Save(runs, sched, fl, ab, st)
  OBVIOUS
<1> HIDE DEF runs, fl
<1>4. \A q \in Runs : fl[q] # "no" => (flight[q] # "no" /\ (q \in ab \/ q \notin aborted)) \/ healthy
  BY <1>2
<1>5. /\ StoredType' /\ Frame /\ run' = runs /\ sched' = sched
      /\ \A q \in Runs : flight'[q] = fl[q] \/ (flight'[q] = "no" /\ fl[q] # flight[q])
  BY <1>1, <1>3, <1>4, SaveStep
<1>6. Alone(r) /\ run'[r] = rec /\ flight'[r] \in {at, "no"} /\ (at = flight[r] => flight'[r] = at)
  BY <1>2, <1>5 DEF Alone
<1>7. StopNamed'
  BY <1>2, <1>5 DEF StopNamed
<1>8. \A q \in Runs : q # r => Rests(q)
  BY <1>6 DEF Alone, Rests, Keeps, Same
<1> QED BY <1>5, <1>6, <1>7, <1>8

\* A step of the coroutine of run r.
CoStep(r) == StoredType' /\ StopNamed' /\ Frame /\ sched' = sched /\ \A q \in Runs : IF q = r THEN Works(q) ELSE Rests(q)
\* What a coroutine may make of its run's record.
Next1(r, rec) ==
  /\ rec \in Run /\ rec.cwd = run[r].cwd /\ rec.mode = run[r].mode /\ rec.bound = run[r].bound
  /\ rec.sched = run[r].sched /\ rec.occ = run[r].occ /\ rec.again = run[r].again
  /\ rec.status = "stopping" => rec.stop # None
  /\ rec.entry = run[r].entry \/ (run[r].entry = None /\ flight[r] = "opening" /\ Unused(rec.entry))

LEMMA GoesStep ==
  ASSUME TypeOK, StopNamed, NEW r \in Runs, flight[r] # "no", NEW rec, Next1(r, rec),
         NEW at \in FLIGHTS \ {"turn"}, NEW st \in STOPPERS,
         at # "no" => rec.status \in AtWork \cup {run[r].status},
         Goes(r, rec, at, st)
  PROVE  CoStep(r)
<1>1. [stopper EXCEPT ![r] = st] \in [Runs -> STOPPERS] /\ aborted \in SUBSET Runs /\ rec \in Run
  BY DEF TypeOK, STOPPERS, Next1
<1>2. Save([run EXCEPT ![r] = rec], sched, [flight EXCEPT ![r] = at], aborted, [stopper EXCEPT ![r] = st])
  BY DEF Goes
<1>3. /\ StoredType' /\ StopNamed' /\ Frame /\ sched' = sched /\ Alone(r)
      /\ run'[r] = rec /\ flight'[r] \in {at, "no"}
      /\ \A q \in Runs : q # r => Rests(q)
  BY <1>1, <1>2, OneRunStep DEF Next1
<1>4. Works(r)
  BY <1>3 DEF Works, Same, Next1
<1> QED BY <1>3, <1>4 DEF CoStep

LEMMA LeavesStep ==
  ASSUME TypeOK, StopNamed, NEW r \in Runs, flight[r] # "no", NEW rec, Next1(r, rec), NEW st \in STOPPERS,
         Leaves(r, rec, st)
  PROVE  CoStep(r)
<1> DEFINE last == IF rec.status = "stopping" /\ healthy THEN Finished(rec, rec.stop) ELSE rec
<1>0. STOPS \subseteq STATUSES \ {"stopping"}
  BY DEF STATUSES, FINISHED, RESUMABLE, STOPS
<1>1. last \in Run /\ (last.status = "stopping" => last.stop # None)
  <2>1. rec \in Run /\ (rec.status = "stopping" => rec.stop \in STOPS)
    BY DEF Next1, Run
  <2>2. CASE rec.status = "stopping" /\ healthy
    <3>1. rec.stop \in STATUSES \ {"stopping"}
      BY <1>0, <2>1, <2>2
    <3>2. Finished(rec, rec.stop) \in Run /\ Finished(rec, rec.stop).status = rec.stop
      BY <2>1, <3>1 DEF Finished, Run
    <3> QED BY <2>2, <3>1, <3>2
  <2>3. CASE ~(rec.status = "stopping" /\ healthy)
    BY <2>3 DEF Next1
  <2> QED BY <2>2, <2>3
<1>2. /\ last.cwd = rec.cwd /\ last.mode = rec.mode /\ last.bound = rec.bound
      /\ last.sched = rec.sched /\ last.occ = rec.occ /\ last.again = rec.again /\ last.entry = rec.entry
  BY DEF Finished, Next1, Run
<1>3. Save([run EXCEPT ![r] = last], sched, [flight EXCEPT ![r] = "no"], aborted \ {r}, [stopper EXCEPT ![r] = st])
  BY DEF Leaves
<1>4. [stopper EXCEPT ![r] = st] \in [Runs -> STOPPERS] /\ aborted \ {r} \in SUBSET Runs /\ "no" \in FLIGHTS
  BY DEF TypeOK, STOPPERS, FLIGHTS
<1> HIDE DEF last
<1>5. /\ StoredType' /\ StopNamed' /\ Frame /\ sched' = sched /\ Alone(r)
      /\ run'[r] = last /\ flight'[r] = "no"
      /\ \A q \in Runs : q # r => Rests(q)
  BY <1>1, <1>3, <1>4, OneRunStep
<1>6. Works(r)
  BY <1>2, <1>5 DEF Works, Same, Next1
<1> QED BY <1>5, <1>6 DEF CoStep

LEMMA RecordStep ==
  ASSUME TypeOK, StopNamed, NEW r \in Runs
  PROVE  /\ Next1(r, run[r])
         /\ Next1(r, Uncounted(r))
         /\ \A n \in Nat : Next1(r, [Uncounted(r) EXCEPT !.retries = n]) /\ Next1(r, [run[r] EXCEPT !.retries = n])
         /\ Next1(r, [Uncounted(r) EXCEPT !.status = "queued"])
         /\ Next1(r, [Uncounted(r) EXCEPT !.status = "queued", !.later = TRUE])
         /\ Uncounted(r).status = run[r].status
<1>1. run[r] \in Run /\ (run[r].status = "stopping" => run[r].stop # None)
  BY DEF TypeOK, StopNamed
<1>2. (IF flight[r] \in {"ready", "turn"} /\ run[r].turns > 0 THEN run[r].turns - 1 ELSE run[r].turns) \in Nat
  BY <1>1 DEF Run
<1>3. Next1(r, run[r])
  BY <1>1 DEF Next1
<1>4. Next1(r, Uncounted(r)) /\ Uncounted(r).status = run[r].status
  BY <1>1, <1>2 DEF Next1, Uncounted, Run
<1>5. \A n \in Nat : Next1(r, [Uncounted(r) EXCEPT !.retries = n]) /\ Next1(r, [run[r] EXCEPT !.retries = n])
  BY <1>3, <1>4 DEF Next1, Run
<1>6. /\ Next1(r, [Uncounted(r) EXCEPT !.status = "queued"])
      /\ Next1(r, [Uncounted(r) EXCEPT !.status = "queued", !.later = TRUE])
  BY <1>4 DEF Next1, Run, STATUSES
<1> QED BY <1>3, <1>4, <1>5, <1>6

LEMMA FinishedStep ==
  ASSUME NEW r \in Runs, NEW rec, Next1(r, rec), NEW status \in STATUSES \ {"stopping"}
  PROVE  Next1(r, Finished(rec, status)) /\ Finished(rec, status).status = status
BY DEF Next1, Finished, Run

LEMMA FailsStep ==
  ASSUME TypeOK, StopNamed, NEW r \in Runs, flight[r] # "no", NEW kind, NEW st \in STOPPERS, Fails(r, kind, st)
  PROVE  CoStep(r)
<1>1. /\ Next1(r, run[r]) /\ Next1(r, Uncounted(r)) /\ Uncounted(r).status = run[r].status
      /\ Next1(r, [Uncounted(r) EXCEPT !.status = "queued"])
      /\ Next1(r, [Uncounted(r) EXCEPT !.status = "queued", !.later = TRUE])
  BY RecordStep
<1>2. {"no", "sleep"} \subseteq FLIGHTS \ {"turn"} /\ {"blocked", "failed"} \subseteq STATUSES \ {"stopping"}
  BY DEF FLIGHTS, STATUSES, RESUMABLE, FINISHED
<1>3. CASE Leaves(r, run[r], st)
  BY <1>1, <1>3, LeavesStep
<1>4. CASE Goes(r, [Uncounted(r) EXCEPT !.status = "queued"], "no", st)
  BY <1>1, <1>2, <1>4, GoesStep
<1>5. CASE Goes(r, [Uncounted(r) EXCEPT !.retries = run[r].retries + 1], "sleep", st)
  <2> DEFINE rec == [Uncounted(r) EXCEPT !.retries = run[r].retries + 1]
  <2>1. run[r].retries + 1 \in Nat
    BY DEF TypeOK, Run
  <2>2. Next1(r, rec)
    BY <2>1, RecordStep
  <2>3. rec.status = run[r].status
    BY <1>1 DEF Next1, Run
  <2>4. Goes(r, rec, "sleep", st)
    BY <1>5
  <2> HIDE DEF rec
  <2> QED BY <1>2, <2>2, <2>3, <2>4, GoesStep
<1>6. CASE Goes(r, [Uncounted(r) EXCEPT !.status = "queued", !.later = TRUE], "no", st)
  BY <1>1, <1>2, <1>6, GoesStep
<1>7. CASE Leaves(r, Finished(run[r], "blocked"), st) \/ Leaves(r, Finished(run[r], "failed"), st)
  <2>1. Next1(r, Finished(run[r], "blocked")) /\ Next1(r, Finished(run[r], "failed"))
    BY <1>1, <1>2, FinishedStep
  <2> QED BY <1>7, <2>1, LeavesStep
<1> QED BY <1>3, <1>4, <1>5, <1>6, <1>7 DEF Fails

LEMMA NextTurnStep ==
  ASSUME TypeOK, StopNamed, NEW r \in Runs, flight[r] # "no", NEW rec, Next1(r, rec), NextTurn(r, rec)
  PROVE  CoStep(r)
<1>1. stopper[r] \in STOPPERS
  BY DEF TypeOK, STOPPERS
<1>2. CASE Leaves(r, Finished(rec, "limited"), stopper[r])
  <2>1. Next1(r, Finished(rec, "limited"))
    BY FinishedStep DEF STATUSES, FINISHED
  <2> QED BY <1>1, <1>2, <2>1, LeavesStep
<1>3. CASE Goes(r, [rec EXCEPT !.turns = rec.turns + 1, !.status = "running"], "ready", stopper[r])
  <2> DEFINE next == [rec EXCEPT !.turns = rec.turns + 1, !.status = "running"]
  <2>0. rec.turns + 1 \in Nat /\ "running" \in STATUSES
    BY DEF Next1, Run, STATUSES, ACTIVE
  <2>1. Next1(r, next) /\ next.status = "running"
    BY <2>0 DEF Next1, Run
  <2>2. Goes(r, next, "ready", stopper[r])
    BY <1>3
  <2>3. "running" \in AtWork /\ "ready" \in FLIGHTS \ {"turn"}
    BY DEF AtWork, ACTIVE, FLIGHTS
  <2> HIDE DEF next
  <2> QED BY <1>1, <2>1, <2>2, <2>3, GoesStep
<1> QED BY <1>2, <1>3 DEF NextTurn

----------------------------------------------------------------------------
(* Every step but a restart *)

AgentsType ==
  /\ sends \subseteq Runs /\ owned \subseteq Runs
  /\ native \in [Entries -> {"idle", "user", "compaction"} \cup Runs]
Step == TypeOK' /\ StopNamed' /\ Frame /\ Frame2 /\ \A q \in Runs : Change(q)

LEMMA CoStepIsStep ==
  ASSUME TypeOK, NEW r \in Runs, CoStep(r), AgentsType', UNCHANGED <<tickVars, comes, unsure>>
  PROVE  Step
<1>1. TypeOK'
  BY DEF TypeOK, CoStep, StoredType, AgentsType, tickVars, STOPPERS
<1>2. Frame2
  <2>1. \A s \in Schedules : comes[s] <= comes'[s]
    BY DEF TypeOK
  <2> QED BY <2>1 DEF Frame2, CoStep, tickVars
<1>3. \A q \in Runs : Change(q)
  BY DEF CoStep, Change
<1> QED BY <1>1, <1>2, <1>3 DEF Step, CoStep

\* A step that leaves what is stored and the places of the coroutines alone.
LEMMA QuietStep ==
  ASSUME TypeOK, StopNamed, UNCHANGED <<stored, flight, aborted>>, stopper' \in [Runs -> STOPPERS], AgentsType',
         UNCHANGED <<tickVars, unsure>>, comes' \in [Schedules -> Nat], \A s \in Schedules : comes[s] <= comes'[s]
  PROVE  Step
<1>1. TypeOK'
  BY DEF TypeOK, AgentsType, tickVars, STOPPERS, stored
<1>2. Frame /\ Frame2 /\ StopNamed'
  BY DEF Frame, Frame2, StopNamed, stored, tickVars
<1>3. \A q \in Runs : Change(q)
  BY DEF Change, Rests, Keeps, Same, stored
<1> QED BY <1>1, <1>2, <1>3 DEF Step

\* A coroutine that goes on from one place to another without a save.
LEMMA MovesStep ==
  ASSUME TypeOK, StopNamed, NEW r \in Runs, NEW at \in FLIGHTS, flight[r] # "no",
         at = "turn" => (run[r].bound => ~TargetBusy(run[r].entry, r)),
         flight' = [flight EXCEPT ![r] = at], UNCHANGED <<stored, aborted, stopper>>
  PROVE  CoStep(r)
<1>1. flight' \in [Runs -> FLIGHTS] /\ flight'[r] = at /\ \A q \in Runs : q # r => flight'[q] = flight[q]
  BY DEF TypeOK
<1>2. StoredType' /\ StopNamed'
  BY <1>1 DEF StoredType, TypeOK, StopNamed, stored, STOPPERS
<1>3. Frame
  BY <1>1 DEF Frame, stored
<1>4. \A q \in Runs : IF q = r THEN Works(q) ELSE Rests(q)
  BY <1>1 DEF Works, Rests, Keeps, Same, Alone, stored
<1> QED BY <1>2, <1>3, <1>4 DEF CoStep, stored

LEMMA AgentsKeepType ==
  ASSUME TypeOK, UNCHANGED agents
  PROVE  AgentsType'
BY DEF TypeOK, AgentsType, agents

LEMMA CoroutineStep ==
  ASSUME TypeOK, StopNamed, NEW r \in Runs, Coroutine(r)
  PROVE  Step
<1>0. stopper[r] \in STOPPERS
  BY DEF TypeOK, STOPPERS
<1>1. CASE OpenChecks(r)
  <2>0. flight[r] # "no" /\ "opening" \in FLIGHTS
    BY <1>1 DEF OpenChecks, FLIGHTS
  <2>1. AgentsType'
    BY <1>1, AgentsKeepType DEF OpenChecks
  <2>2. \/ \E kind : Fails(r, kind, stopper[r])
        \/ flight' = [flight EXCEPT ![r] = "opening"] /\ UNCHANGED <<stored, aborted, stopper>>
    BY <1>1 DEF OpenChecks
  <2>3. CoStep(r)
    BY <1>0, <2>0, <2>2, FailsStep, MovesStep
  <2> QED BY <1>1, <2>1, <2>3, CoStepIsStep DEF OpenChecks
<1>2. CASE OpenReturns(r)
  <2>0. flight[r] = "opening" /\ flight[r] # "no"
    BY <1>2 DEF OpenReturns
  <2>1. AgentsType'
    BY <1>2, AgentsKeepType DEF OpenReturns
  <2>2. ASSUME NEW kind \in KINDS, Fails(r, kind, stopper[r])
        PROVE  CoStep(r)
    BY <1>0, <2>0, <2>2, FailsStep
  <2>3. ASSUME NEW e \in Entries, e = run[r].entry \/ (run[r].entry = None /\ Unused(e)),
               NEW rec, rec = [run[r] EXCEPT !.entry = e], NextTurn(r, rec) \/ Leaves(r, rec, stopper[r])
        PROVE  CoStep(r)
    <3>0. Next1(r, run[r])
      BY RecordStep
    <3>1. Next1(r, rec)
      BY <2>0, <2>3, <3>0 DEF Next1, Run
    <3> QED BY <1>0, <2>0, <2>3, <3>1, NextTurnStep, LeavesStep
  <2>4. \/ \E kind \in KINDS : Fails(r, kind, stopper[r])
        \/ \E e \in Entries :
             /\ e = run[r].entry \/ (run[r].entry = None /\ Unused(e))
             /\ \E rec : rec = [run[r] EXCEPT !.entry = e] /\ (NextTurn(r, rec) \/ Leaves(r, rec, stopper[r]))
    BY <1>2 DEF OpenReturns
  <2>5. CoStep(r)
    BY <2>2, <2>3, <2>4
  <2> QED BY <1>2, <2>1, <2>5, CoStepIsStep DEF OpenReturns
<1>3. CASE Readies(r)
  <2>0. flight[r] # "no" /\ "turn" \in FLIGHTS
    BY <1>3 DEF Readies, FLIGHTS
  <2>1. AgentsType'
    BY <1>3 DEF Readies, TypeOK, AgentsType, agents
  <2>2. \/ \E kind : Fails(r, kind, stopper[r])
        \/ Leaves(r, run[r], stopper[r])
        \/ /\ flight' = [flight EXCEPT ![r] = "turn"] /\ UNCHANGED <<stored, aborted, stopper>>
           /\ run[r].bound => ~TargetBusy(run[r].entry, r)
    BY <1>3 DEF Readies, TargetReady
  <2>3. CoStep(r)
    BY <1>0, <2>0, <2>2, RecordStep, FailsStep, LeavesStep, MovesStep
  <2> QED BY <1>3, <2>1, <2>3, CoStepIsStep DEF Readies
<1>4. CASE YieldOver(r)
  <2>0. flight[r] # "no"
    BY <1>4 DEF YieldOver
  <2>1. AgentsType'
    BY <1>4, AgentsKeepType DEF YieldOver
  <2>2. CoStep(r)
    BY <1>0, <1>4, <2>0, RecordStep, NextTurnStep, LeavesStep DEF YieldOver
  <2> QED BY <1>4, <2>1, <2>2, CoStepIsStep DEF YieldOver
<1>5. CASE SleepOver(r)
  <2>0. flight[r] # "no" /\ "open" \in FLIGHTS
    BY <1>5 DEF SleepOver, FLIGHTS
  <2>1. AgentsType'
    BY <1>5, AgentsKeepType DEF SleepOver
  <2>2. CoStep(r)
    BY <1>0, <1>5, <2>0, RecordStep, MovesStep, LeavesStep DEF SleepOver
  <2> QED BY <1>5, <2>1, <2>2, CoStepIsStep DEF SleepOver
<1> QED BY <1>1, <1>2, <1>3, <1>4, <1>5 DEF Coroutine

LEMMA AgentStep ==
  ASSUME TypeOK, StopNamed, NEW r \in Runs,
         Waits(r) \/ StopConfirmed(r) \/ StopGivesUp(r) \/ Accepts(r) \/ Rejects(r) \/ TurnEnds(r)
  PROVE  Step
<1>0. stopper[r] \in STOPPERS /\ {"no", "asked"} \subseteq STOPPERS
  BY DEF TypeOK, STOPPERS
<1>1. CASE Waits(r)
  <2>1. /\ flight[r] = "turn" /\ UNCHANGED <<sched, disk, healthy, coroutines, tickVars, agents, comes, unsure>>
        /\ run' = [run EXCEPT ![r].status = IF run[r].status = "running" THEN "waiting" ELSE "running"]
    BY <1>1 DEF Waits
  <2> DEFINE status == IF run[r].status = "running" THEN "waiting" ELSE "running"
             rec == [run[r] EXCEPT !.status = status]
  <2>2. status \in ACTIVE /\ ACTIVE \subseteq STATUSES /\ ACTIVE \subseteq AtWork /\ status # "stopping"
    BY DEF ACTIVE, STATUSES, AtWork
  <2>3. run' = [run EXCEPT ![r] = rec]
    BY <2>1
  <2> HIDE DEF status
  <2>4. Next1(r, rec) /\ rec.status = status
    <3>1. Next1(r, run[r])
      BY RecordStep
    <3> QED BY <2>2, <3>1 DEF Next1, Run
  <2> HIDE DEF rec
  <2>5. run' \in [Runs -> Run] /\ run'[r] = rec /\ \A q \in Runs : q # r => run'[q] = run[q]
    BY <2>3, <2>4 DEF TypeOK, Next1
  <2>6. StoredType' /\ StopNamed' /\ Frame
    BY <2>1, <2>2, <2>4, <2>5 DEF StoredType, TypeOK, StopNamed, Frame, coroutines, STOPPERS
  <2>7. Works(r) /\ \A q \in Runs : q # r => Rests(q)
    BY <2>1, <2>2, <2>4, <2>5 DEF Works, Rests, Keeps, Same, Alone, Next1, coroutines
  <2>8. CoStep(r)
    BY <2>1, <2>6, <2>7 DEF CoStep
  <2>9. AgentsType'
    BY <2>1, AgentsKeepType
  <2> QED BY <2>1, <2>8, <2>9, CoStepIsStep
<1>2. CASE StopConfirmed(r)
  <2>1. AgentsType'
    BY <1>2 DEF StopConfirmed, TypeOK, AgentsType
  <2>2. CASE flight[r] = "turn"
    <3>1. flight[r] # "no" /\ Fails(r, "other", "no")
      BY <1>2, <2>2 DEF StopConfirmed
    <3>2. CoStep(r)
      BY <1>0, <3>1, FailsStep
    <3> QED BY <1>2, <2>1, <3>2, CoStepIsStep DEF StopConfirmed
  <2>3. CASE flight[r] # "turn"
    <3>1. stopper' \in [Runs -> STOPPERS] /\ UNCHANGED <<stored, flight, aborted, tickVars, unsure, comes>>
      BY <1>0, <1>2, <2>3 DEF StopConfirmed, TypeOK, STOPPERS
    <3> QED BY <2>1, <3>1, QuietStep DEF TypeOK
  <2> QED BY <2>2, <2>3
<1>3. CASE StopGivesUp(r)
  <2> DEFINE rec == [run[r] EXCEPT !.unconfirmed = TRUE]
  <2>1. AgentsType'
    BY <1>3, AgentsKeepType DEF StopGivesUp
  <2>2. Next1(r, rec) /\ rec.status = run[r].status /\ rec.entry = run[r].entry /\ rec \in Run
    <3>1. Next1(r, run[r])
      BY RecordStep
    <3> QED BY <3>1 DEF Next1, Run
  <2>3. Goes(r, rec, flight[r], "no")
    BY <1>3 DEF StopGivesUp
  <2> HIDE DEF rec
  <2>4. [stopper EXCEPT ![r] = "no"] \in [Runs -> STOPPERS] /\ aborted \in SUBSET Runs /\ flight[r] \in FLIGHTS
    BY <1>0 DEF TypeOK, STOPPERS
  <2>5. /\ StoredType' /\ StopNamed' /\ Frame /\ sched' = sched /\ Alone(r)
        /\ run'[r] = rec /\ flight'[r] = flight[r]
        /\ \A q \in Runs : q # r => Rests(q)
    <3> DEFINE at == flight[r]
               st == [stopper EXCEPT ![r] = "no"]
    <3>1. Save([run EXCEPT ![r] = rec], sched, [flight EXCEPT ![r] = at], aborted, st)
      BY <2>3 DEF Goes
    <3>2. rec.status = "stopping" => rec.stop # None
      BY <2>2 DEF Next1
    <3>3. at \in FLIGHTS /\ st \in [Runs -> STOPPERS] /\ (at # "no" => flight[r] # "no") /\ at = flight[r]
      BY <2>4
    <3> HIDE DEF at, st
    <3>4. /\ StoredType' /\ StopNamed' /\ Frame /\ sched' = sched /\ Alone(r)
          /\ run'[r] = rec /\ (at = flight[r] => flight'[r] = at)
          /\ \A q \in Runs : q # r => Rests(q)
      BY <2>2, <2>4, <3>1, <3>2, <3>3, OneRunStep
    <3> QED BY <3>3, <3>4
  <2>6. Rests(r)
    BY <2>2, <2>5 DEF Rests, Keeps, Same, Next1
  <2>7. TypeOK'
    BY <1>3, <2>1, <2>5 DEF StopGivesUp, TypeOK, StoredType, AgentsType, tickVars, STOPPERS
  <2>8. Frame2
    BY <1>3, <2>5 DEF StopGivesUp, Frame2, tickVars, TypeOK
  <2> QED BY <2>5, <2>6, <2>7, <2>8 DEF Step, Change
<1>4. CASE Accepts(r)
  <2>1. AgentsType'
    BY <1>4 DEF Accepts, TypeOK, AgentsType
  <2>2. stopper' \in [Runs -> STOPPERS] /\ UNCHANGED <<stored, flight, aborted, tickVars, unsure, comes>>
    BY <1>0, <1>4 DEF Accepts, TypeOK, STOPPERS
  <2> QED BY <2>1, <2>2, QuietStep DEF TypeOK
<1>5. CASE Rejects(r)
  <2> DEFINE st == IF stopper[r] = "called" THEN "no" ELSE stopper[r]
  <2>1. AgentsType'
    BY <1>5 DEF Rejects, TypeOK, AgentsType
  <2>2. st \in STOPPERS
    BY <1>0
  <2>3. PICK kind : IF flight[r] = "turn" THEN Fails(r, kind, st)
                    ELSE stopper' = [stopper EXCEPT ![r] = st] /\ UNCHANGED <<stored, flight, aborted>>
    BY <1>5 DEF Rejects
  <2> HIDE DEF st
  <2>4. CASE flight[r] = "turn"
    <3>1. CoStep(r)
      BY <2>2, <2>3, <2>4, FailsStep
    <3> QED BY <1>5, <2>1, <3>1, CoStepIsStep DEF Rejects
  <2>5. CASE flight[r] # "turn"
    <3>1. stopper' \in [Runs -> STOPPERS] /\ UNCHANGED <<stored, flight, aborted, tickVars, unsure, comes>>
      BY <1>5, <2>2, <2>3, <2>5 DEF Rejects, TypeOK, STOPPERS
    <3> QED BY <2>1, <3>1, QuietStep DEF TypeOK
  <2> QED BY <2>4, <2>5
<1>6. CASE TurnEnds(r)
  <2>1. AgentsType'
    BY <1>6 DEF TurnEnds, TypeOK, AgentsType
  <2>2. CASE flight[r] = "turn"
    <3>0. flight[r] # "no" /\ Next1(r, run[r])
      BY <2>2, RecordStep
    <3>1. ASSUME NEW kind \in KINDS, Fails(r, kind, stopper[r])
          PROVE  CoStep(r)
      BY <1>0, <3>0, <3>1, FailsStep
    <3>2. ASSUME TurnSucceeds(r)
          PROVE  CoStep(r)
      <4>1. Next1(r, [run[r] EXCEPT !.retries = 0]) /\ [run[r] EXCEPT !.retries = 0].status = run[r].status
        BY <3>0 DEF Next1, Run
      <4>2. \A status \in {"completed", "blocked", "limited"} :
              Next1(r, Finished([run[r] EXCEPT !.retries = 0], status)) /\ Next1(r, Finished(run[r], status))
        BY <3>0, <4>1, FinishedStep DEF STATUSES, RESUMABLE, FINISHED
      <4>3. \/ Leaves(r, run[r], stopper[r])
            \/ Leaves(r, Finished(run[r], "completed"), stopper[r])
            \/ \E status \in {"completed", "blocked", "limited"} :
                 Leaves(r, Finished([run[r] EXCEPT !.retries = 0], status), stopper[r])
            \/ Goes(r, [run[r] EXCEPT !.retries = 0], "yield", stopper[r])
        BY <3>2 DEF TurnSucceeds
      <4>4. CASE Goes(r, [run[r] EXCEPT !.retries = 0], "yield", stopper[r])
        BY <1>0, <3>0, <4>1, <4>4, GoesStep DEF FLIGHTS
      <4>5. ASSUME NEW rec, Next1(r, rec), Leaves(r, rec, stopper[r]) PROVE CoStep(r)
        BY <1>0, <3>0, <4>5, LeavesStep
      <4> QED BY <3>0, <4>2, <4>3, <4>4, <4>5
    <3>3. CoStep(r)
      BY <1>6, <2>2, <3>1, <3>2 DEF TurnEnds
    <3> QED BY <1>6, <2>1, <3>3, CoStepIsStep DEF TurnEnds
  <2>3. CASE flight[r] # "turn"
    <3>1. stopper' \in [Runs -> STOPPERS] /\ UNCHANGED <<stored, flight, aborted, tickVars, unsure, comes>>
      BY <1>6, <2>3 DEF TurnEnds, TypeOK, STOPPERS
    <3> QED BY <2>1, <3>1, QuietStep DEF TypeOK
  <2> QED BY <2>2, <2>3
<1> QED BY <1>1, <1>2, <1>3, <1>4, <1>5, <1>6

LEMMA OthersStep ==
  ASSUME TypeOK, StopNamed, NEW e \in Entries, OthersBegin(e) \/ OthersEnd(e)
  PROVE  Step
<1>1. AgentsType'
  BY DEF OthersBegin, OthersEnd, TypeOK, AgentsType
<1>2. stopper' \in [Runs -> STOPPERS] /\ UNCHANGED <<stored, flight, aborted, tickVars, unsure, comes>>
  BY DEF OthersBegin, OthersEnd, TypeOK, STOPPERS, coroutines
<1> QED BY <1>1, <1>2, QuietStep DEF TypeOK

\* A run without a coroutine that comes to rest.
LEMMA HaltStep ==
  ASSUME TypeOK, StopNamed, NEW r \in Runs, NEW status \in STOPS \cup {"failed"}, flight[r] = "no",
         run[r].status \notin FINISHED \cup {"free"}, HoldsBack(r),
         Save([run EXCEPT ![r] = Finished(run[r], status)], sched, flight, aborted, stopper)
  PROVE  /\ StoredType' /\ StopNamed' /\ Frame /\ sched' = sched
         /\ \A q \in Runs : Change(q)
<1> DEFINE rec == Finished(run[r], status)
           fl == [flight EXCEPT ![r] = "no"]
<1>1. Next1(r, rec) /\ rec.status = status /\ rec.entry = run[r].entry
  <2>1. Next1(r, run[r])
    BY RecordStep
  <2>2. status \in STATUSES \ {"stopping"}
    BY DEF STOPS, STATUSES, RESUMABLE, FINISHED
  <2>3. Next1(r, Finished(run[r], status)) /\ Finished(run[r], status).status = status
    BY <2>1, <2>2, FinishedStep
  <2> QED BY <2>1, <2>3 DEF Finished, Next1, Run
<1>2. fl = flight
  BY DEF TypeOK
<1>3. Save([run EXCEPT ![r] = rec], sched, fl, aborted, stopper)
  BY <1>2
<1>4. stopper \in [Runs -> STOPPERS] /\ aborted \in SUBSET Runs /\ "no" \in FLIGHTS
  BY DEF TypeOK, STOPPERS, FLIGHTS
<1> HIDE DEF rec
<1>5. rec \in Run /\ (rec.status = "stopping" => rec.stop # None)
  BY <1>1 DEF Next1
<1>6. /\ StoredType' /\ StopNamed' /\ Frame /\ sched' = sched /\ Alone(r)
      /\ run'[r] = rec /\ flight'[r] = "no"
      /\ \A q \in Runs : q # r => Rests(q)
  BY <1>3, <1>4, <1>5, OneRunStep
<1>7. Halts(r)
  BY <1>1, <1>6 DEF Halts, Keeps, Same, Next1
<1> QED BY <1>6, <1>7 DEF Change

LEMMA StopRunStep ==
  ASSUME TypeOK, StopNamed, NEW r \in Runs, NEW status \in STOPS, run[r].status \notin FINISHED \cup {"free"},
         StopRun(r, status), UNCHANGED <<agents, comes, unsure>>,
         ticking' = ticking \/ ticking' = Idle \/ ticking' = [what |-> "stop", run |-> r]
  PROVE  Step
<1>1. fresh' \in BOOLEAN /\ (fresh' => fresh) /\ HoldsBack(r)
  <2>1. fresh' = (fresh /\ ~(ticking.what = "prepare" /\ ticking.run = r)) /\ fresh \in BOOLEAN
    BY DEF StopRun, TypeOK
  <2>2. fresh' \in BOOLEAN /\ (fresh' => fresh /\ ~(ticking.what = "prepare" /\ ticking.run = r))
    BY <2>1
  <2>3. ticking' = ticking \/ ticking'.what # "prepare"
    BY DEF Idle
  <2> QED BY <2>2, <2>3 DEF HoldsBack
<1>2. STOPS \subseteq STATUSES \ {"stopping"} /\ "stopping" \in STATUSES \cap AtWork
  BY DEF STOPS, STATUSES, RESUMABLE, FINISHED, AtWork
<1>3. /\ StoredType' /\ StopNamed' /\ Frame /\ sched' = sched
      /\ \A q \in Runs : Change(q)
  <2>1. CASE flight[r] = "no"
    <3>1. Save([run EXCEPT ![r] = Finished(run[r], status)], sched, flight, aborted, stopper)
      BY <2>1 DEF StopRun
    <3> QED BY <1>1, <2>1, <3>1, HaltStep
  <2>2. CASE flight[r] # "no"
    <3> DEFINE rec == [run[r] EXCEPT !.status = "stopping", !.stop = status, !.unconfirmed = FALSE]
               at == flight[r]
               fl == [flight EXCEPT ![r] = at]
               ab == aborted \cup {r}
               st == [stopper EXCEPT ![r] = Asking(r)]
    <3>1. Next1(r, rec) /\ rec.status = "stopping" /\ rec.entry = run[r].entry
      <4>1. Next1(r, run[r])
        BY RecordStep
      <4>2. status # None
        BY DEF STOPS, None
      <4> QED BY <1>2, <4>1, <4>2 DEF Next1, Run
    <3>2. fl = flight
      BY DEF TypeOK
    <3>3. Save([run EXCEPT ![r] = rec], sched, fl, ab, st)
      BY <2>2, <3>2 DEF StopRun
    <3>4. st \in [Runs -> STOPPERS] /\ ab \in SUBSET Runs /\ at \in FLIGHTS /\ aborted \subseteq ab /\ at = flight[r]
      BY DEF TypeOK, STOPPERS, Asking
    <3> HIDE DEF rec, ab, st, at
    <3>5. rec \in Run /\ (rec.status = "stopping" => rec.stop # None)
      BY <3>1 DEF Next1
    <3>6. /\ StoredType' /\ StopNamed' /\ Frame /\ sched' = sched /\ Alone(r)
          /\ run'[r] = rec /\ flight'[r] = at
          /\ \A q \in Runs : q # r => Rests(q)
      BY <2>2, <3>3, <3>4, <3>5, OneRunStep
    <3>7. Works(r)
      BY <1>2, <2>2, <3>1, <3>4, <3>6 DEF Works, Same, Next1
    <3> QED BY <3>6, <3>7 DEF Change
  <2> QED BY <2>1, <2>2
<1>4. TypeOK'
  BY <1>1, <1>3, AgentsKeepType DEF TypeOK, StoredType, AgentsType, STOPPERS
<1>5. Frame2
  BY <1>1, <1>3 DEF Frame2, TypeOK, Idle
<1> QED BY <1>3, <1>4, <1>5 DEF Step

\* A new run in place r, made with these schedules.
LEMMA NewRunStep ==
  ASSUME TypeOK, StopNamed, NEW r \in Runs, NEW o, NEW s \in Schedules \cup {None}, NEW n \in Nat,
         o.entry \in Entries \cup {None}, o.cwd \in Projects \cup {None}, o.mode \in {"goal", "task"},
         NEW rows \in [Schedules -> Schedule],
         Save([run EXCEPT ![r] = NewRun(o, s, n)], rows, flight, aborted, stopper)
  PROVE  /\ StoredType' /\ StopNamed' /\ Frame /\ sched' = rows /\ Alone(r) /\ flight' = flight
         /\ run'[r].status = "queued" /\ run'[r].sched = s /\ run'[r].occ = n /\ run'[r].entry = o.entry
         /\ run'[r].bound = (s # None /\ o.entry # None)
         /\ \A q \in Runs : q # r => Rests(q)
<1> DEFINE rec == NewRun(o, s, n)
           runs == [run EXCEPT ![r] = rec]
<1>1. /\ rec \in Run /\ rec.status = "queued" /\ rec.sched = s /\ rec.occ = n /\ rec.entry = o.entry
      /\ rec.bound = (s # None /\ o.entry # None)
  BY DEF NewRun, NoRun, Run, STATUSES
<1>2. Save(runs, rows, flight, aborted, stopper)
  OBVIOUS
<1> HIDE DEF rec
<1>3. runs \in [Runs -> Run] /\ runs[r] = rec /\ \A q \in Runs : q # r => runs[q] = run[q]
  BY <1>1 DEF TypeOK
<1> HIDE DEF runs
<1>4. flight \in [Runs -> FLIGHTS] /\ aborted \in SUBSET Runs /\ stopper \in [Runs -> STOPPERS]
  BY DEF TypeOK, STOPPERS
<1>5. /\ StoredType' /\ Frame /\ run' = runs /\ sched' = rows
      /\ \A q \in Runs : flight'[q] = flight[q] \/ (flight'[q] = "no" /\ flight[q] # flight[q])
  BY <1>2, <1>3, <1>4, SaveStep
<1>6. flight' = flight
  BY <1>4, <1>5 DEF StoredType
<1>7. StopNamed'
  BY <1>1, <1>3, <1>5 DEF StopNamed
<1>8. Alone(r) /\ \A q \in Runs : q # r => Rests(q)
  BY <1>3, <1>5, <1>6 DEF Alone, Rests, Keeps, Same
<1> QED BY <1>1, <1>3, <1>5, <1>6, <1>7, <1>8

LEMMA LaunchStep ==
  ASSUME TypeOK, StopNamed, NEW r \in Runs, flight[r] = "no", run[r].status = "queued", healthy,
         Launch(r), Admitted(r) \/ ~ProjectBusy(r), ticking' = Idle
  PROVE  /\ StoredType' /\ StopNamed' /\ Frame /\ sched' = sched
         /\ \A q \in Runs : Change(q)
<1> DEFINE rec == Starting(r)
           st == [stopper EXCEPT ![r] = stopper[r]]
<1>1. rec \in Run /\ rec.status = "starting"
  <2>1. run[r] \in Run
    BY DEF TypeOK
  <2> DEFINE started == [run[r] EXCEPT !.status = "starting"]
             cleared == [started EXCEPT !.later = FALSE, !.stop = None]
  <2>2. started \in Run /\ started.status = "starting"
    BY <2>1 DEF Run, STATUSES, ACTIVE
  <2>3. rec = [cleared EXCEPT !.unconfirmed = FALSE]
    BY DEF Starting
  <2> HIDE DEF started, rec
  <2>4. cleared \in Run /\ cleared.status = "starting"
    BY <2>2 DEF Run
  <2> HIDE DEF cleared
  <2> QED BY <2>3, <2>4 DEF Run
<1>2. rec.cwd = run[r].cwd /\ rec.mode = run[r].mode /\ rec.bound = run[r].bound /\ rec.sched = run[r].sched
      /\ rec.occ = run[r].occ /\ rec.again = run[r].again /\ rec.entry = run[r].entry
  <2>1. run[r] \in Run
    BY DEF TypeOK
  <2>2. rec.cwd = run[r].cwd /\ rec.mode = run[r].mode /\ rec.bound = run[r].bound /\ rec.sched = run[r].sched
    BY <2>1, SMTT(30) DEF Starting, Run
  <2>3. rec.occ = run[r].occ /\ rec.again = run[r].again /\ rec.entry = run[r].entry
    BY <2>1, SMTT(30) DEF Starting, Run
  <2> HIDE DEF rec
  <2> QED BY <2>2, <2>3
<1>3. Save([run EXCEPT ![r] = rec], sched, [flight EXCEPT ![r] = "open"], aborted, st)
  BY DEF Launch, Goes
<1>4. st \in [Runs -> STOPPERS] /\ aborted \in SUBSET Runs /\ "open" \in FLIGHTS
  BY DEF TypeOK, STOPPERS, FLIGHTS
<1> HIDE DEF rec, st
<1>5. /\ StoredType' /\ StopNamed' /\ Frame /\ sched' = sched /\ Alone(r)
      /\ run'[r] = rec /\ flight'[r] \in {"open", "no"}
      /\ \A q \in Runs : q # r => Rests(q)
  BY <1>1, <1>3, <1>4, OneRunStep
<1>6. Starts(r)
  BY <1>1, <1>2, <1>5 DEF Starts, Keeps, Same, HoldsBack, Idle
<1> QED BY <1>5, <1>6 DEF Change

LEMMA TickStep ==
  ASSUME TypeOK, StopNamed, Working, NEW r \in Runs,
         TickStops(r) \/ TickSaves(r) \/ TickAdmits(r) \/ TickPrepared(r) \/ ResetComes(r)
  PROVE  Step
<1>0. /\ [what |-> "stop", run |-> r] \in [what : {"stop", "prepare"}, run : Runs]
      /\ [what |-> "prepare", run |-> r] \in [what : {"stop", "prepare"}, run : Runs]
  OBVIOUS
<1>1. CASE TickStops(r)
  <2>1. PICK status \in {"limited", "blocked"} : StopRun(r, status)
    BY <1>1 DEF TickStops
  <2>2. status \in STOPS /\ run[r].status \notin FINISHED \cup {"free"}
    BY <1>1 DEF TickStops, STOPS, ACTIVE, FINISHED
  <2> QED BY <1>1, <2>1, <2>2, StopRunStep DEF TickStops
<1>2. CASE TickSaves(r)
  <2>1. Save(run, sched, flight, aborted, stopper)
    BY <1>2 DEF TickSaves
  <2>2. /\ run \in [Runs -> Run] /\ sched \in [Schedules -> Schedule] /\ flight \in [Runs -> FLIGHTS]
        /\ aborted \in SUBSET Runs /\ stopper \in [Runs -> STOPPERS]
    BY DEF TypeOK, STOPPERS
  <2>3. /\ StoredType' /\ Frame /\ run' = run /\ sched' = sched
        /\ \A q \in Runs : flight'[q] = flight[q] \/ (flight'[q] = "no" /\ flight[q] # flight[q])
    BY <2>1, <2>2, SaveStep
  <2>4. \A q \in Runs : Rests(q)
    BY <2>3 DEF Rests, Keeps, Same
  <2>5. StopNamed' /\ Frame2
    BY <1>2, <2>3 DEF StopNamed, Frame2, TickSaves, tickVars, TypeOK
  <2>6. TypeOK'
    BY <1>2, <2>3, AgentsKeepType DEF TickSaves, TypeOK, StoredType, AgentsType, STOPPERS, tickVars
  <2> QED BY <2>3, <2>4, <2>5, <2>6 DEF Step, Change
<1>3. CASE TickAdmits(r)
  <2>1. /\ healthy /\ run[r].status = "queued" /\ flight[r] = "no" /\ ~ProjectBusy(r) /\ ticking = Idle
        /\ UNCHANGED <<agents, comes, unsure>>
    BY <1>3 DEF TickAdmits, Ticks
  <2>2. CASE run[r].bound
    <3>1. ticking' = [what |-> "prepare", run |-> r] /\ fresh' = TRUE /\ UNCHANGED <<stored, coroutines>>
      BY <1>3, <2>2 DEF TickAdmits
    <3>2. TypeOK'
      BY <1>0, <2>1, <3>1 DEF TypeOK, stored, coroutines, agents
    <3>3. StopNamed' /\ Frame
      BY <3>1 DEF StopNamed, Frame, stored, coroutines
    <3>4. Frame2
      BY <2>1, <3>1 DEF Frame2, stored, coroutines, TypeOK
    <3>5. \A q \in Runs : Rests(q)
      BY <3>1 DEF Rests, Keeps, Same, stored, coroutines
    <3> QED BY <3>2, <3>3, <3>4, <3>5 DEF Step, Change
  <2>3. CASE ~run[r].bound
    <3>1. Launch(r) /\ UNCHANGED tickVars
      BY <1>3, <2>3 DEF TickAdmits
    <3>2. ticking' = Idle
      BY <2>1, <3>1 DEF tickVars
    <3>3. /\ StoredType' /\ StopNamed' /\ Frame /\ sched' = sched
          /\ \A q \in Runs : Change(q)
      BY <2>1, <3>1, <3>2, LaunchStep
    <3>4. TypeOK'
      BY <2>1, <3>1, <3>3, AgentsKeepType DEF TypeOK, StoredType, AgentsType, STOPPERS, tickVars
    <3>5. Frame2
      BY <2>1, <3>1, <3>3 DEF Frame2, TypeOK, tickVars
    <3> QED BY <3>3, <3>4, <3>5 DEF Step
  <2> QED BY <2>2, <2>3
<1>4. CASE TickPrepared(r)
  <2>1. /\ ticking.what = "prepare" /\ ticking.run = r
        /\ ticking' = Idle /\ fresh' = FALSE /\ UNCHANGED <<agents, comes, unsure>>
    BY <1>4 DEF TickPrepared
  <2>2. CASE UNCHANGED <<stored, coroutines>>
    <3>1. TypeOK'
      BY <2>1, <2>2 DEF TypeOK, stored, coroutines, agents
    <3>2. StopNamed' /\ Frame /\ Frame2
      BY <2>1, <2>2 DEF StopNamed, Frame, Frame2, stored, coroutines, TypeOK
    <3>3. \A q \in Runs : Rests(q)
      BY <2>2 DEF Rests, Keeps, Same, stored, coroutines
    <3> QED BY <3>1, <3>2, <3>3 DEF Step, Change
  <2>3. ASSUME run[r].status = "queued" PROVE flight[r] = "no"
    BY <2>3 DEF Working, AtWork, ACTIVE
  <2>4. ASSUME StoredType' /\ StopNamed' /\ Frame /\ sched' = sched, \A q \in Runs : Change(q) PROVE Step
    <3>1. TypeOK'
      BY <2>1, <2>4, AgentsKeepType DEF TypeOK, StoredType, AgentsType, STOPPERS
    <3>2. Frame2
      BY <2>1, <2>4 DEF Frame2, TypeOK
    <3> QED BY <2>4, <3>1, <3>2 DEF Step
  <2>5. CASE fresh /\ run[r].status = "queued" /\ healthy /\ Launch(r)
    <3>1. /\ StoredType' /\ StopNamed' /\ Frame /\ sched' = sched
          /\ \A q \in Runs : Change(q)
      BY <2>1, <2>3, <2>5, LaunchStep DEF Admitted
    <3> QED BY <2>4, <3>1
  <2>6. CASE run[r].status = "queued" /\ Save([run EXCEPT ![r] = Finished(run[r], "failed")], sched, flight, aborted, stopper)
    <3>1. HoldsBack(r) /\ run[r].status \notin FINISHED \cup {"free"}
      BY <2>1, <2>6 DEF HoldsBack, FINISHED
    <3>2. /\ StoredType' /\ StopNamed' /\ Frame /\ sched' = sched
          /\ \A q \in Runs : Change(q)
      BY <2>3, <2>6, <3>1, HaltStep
    <3> QED BY <2>4, <3>2
  <2> QED BY <1>4, <2>2, <2>5, <2>6 DEF TickPrepared
<1>5. CASE ResetComes(r)
  <2> DEFINE rec == [run[r] EXCEPT !.later = FALSE]
  <2>1. /\ run' = [run EXCEPT ![r] = rec]
        /\ UNCHANGED <<sched, disk, healthy, coroutines, tickVars, agents, comes, unsure>>
    BY <1>5 DEF ResetComes
  <2>2. Next1(r, rec) /\ rec.status = run[r].status /\ rec.entry = run[r].entry
    <3>1. Next1(r, run[r])
      BY RecordStep
    <3> QED BY <3>1 DEF Next1, Run
  <2> HIDE DEF rec
  <2>3. run' \in [Runs -> Run] /\ run'[r] = rec /\ \A q \in Runs : q # r => run'[q] = run[q]
    BY <2>1, <2>2 DEF TypeOK, Next1
  <2>4. TypeOK'
    BY <2>1, <2>3 DEF TypeOK, coroutines, tickVars, agents
  <2>5. StopNamed' /\ Frame
    BY <2>1, <2>2, <2>3 DEF StopNamed, Frame, Next1, coroutines
  <2>6. Frame2
    BY <2>1 DEF Frame2, tickVars, TypeOK
  <2>7. \A q \in Runs : Rests(q)
    BY <2>1, <2>2, <2>3 DEF Rests, Keeps, Same, Next1, coroutines
  <2> QED BY <2>4, <2>5, <2>6, <2>7 DEF Step, Change
<1> QED BY <1>1, <1>2, <1>3, <1>4, <1>5

LEMMA ClockStep ==
  ASSUME TypeOK, StopNamed, TickGoesOn \/ \E s \in Schedules : TimeComes(s)
  PROVE  Step
<1>1. CASE TickGoesOn
  <2>1. TypeOK'
    BY <1>1 DEF TickGoesOn, TypeOK, stored, coroutines, agents
  <2>2. StopNamed' /\ Frame /\ Frame2
    BY <1>1 DEF TickGoesOn, StopNamed, Frame, Frame2, stored, coroutines, TypeOK, Idle
  <2>3. \A q \in Runs : Rests(q)
    BY <1>1 DEF TickGoesOn, Rests, Keeps, Same, stored, coroutines
  <2> QED BY <2>1, <2>2, <2>3 DEF Step, Change
<1>2. ASSUME NEW s \in Schedules, TimeComes(s) PROVE Step
  <2>1. comes' \in [Schedules -> Nat] /\ \A z \in Schedules : comes[z] <= comes'[z]
    <3>1. comes[s] + 1 \in Nat /\ comes' = [comes EXCEPT ![s] = comes[s] + 1]
      BY <1>2 DEF TimeComes, TypeOK
    <3> QED BY <3>1 DEF TypeOK
  <2>2. AgentsType' /\ stopper' \in [Runs -> STOPPERS] /\ UNCHANGED <<stored, flight, aborted, tickVars, unsure>>
    BY <1>2, AgentsKeepType DEF TimeComes, TypeOK, STOPPERS, coroutines
  <2> QED BY <2>1, <2>2, QuietStep
<1> QED BY <1>1, <1>2

LEMMA FireStep ==
  ASSUME TypeOK, StopNamed, Working, NEW s \in Schedules, NEW r \in Runs, TickFires(s, r) \/ RunNow(s, r)
  PROVE  Step
<1> DEFINE o == sched[s].order
<1>1. PICK n \in Nat, row \in Schedule :
        /\ Makes(r, s, n, row)
        /\ \/ n = 0 /\ row = sched[s]
           \/ n = sched[s].next /\ n <= comes[s] /\ row.next \in {0, comes[s] + 1}
  <2>1. CASE TickFires(s, r)
    <3> DEFINE row == [sched[s] EXCEPT !.enabled = sched[s].order.repeats, !.next = IF sched[s].order.repeats THEN comes[s] + 1 ELSE 0]
    <3>1. sched[s] \in Schedule /\ comes[s] + 1 \in Nat /\ sched[s].next \in Nat
      BY DEF TypeOK, Schedule
    <3>2. sched[s].order.repeats \in BOOLEAN
      <4>1. sched[s].order \in Plan \cup {NoPlan}
        BY <3>1 DEF Schedule
      <4>2. \A p \in Plan : p.repeats \in BOOLEAN
        BY DEF Plan
      <4>3. NoPlan.repeats = FALSE
        BY DEF NoPlan
      <4> QED BY <4>1, <4>2, <4>3
    <3>3. row \in Schedule /\ row.next \in {0, comes[s] + 1}
      BY <3>1, <3>2 DEF Schedule
    <3>4. Makes(r, s, sched[s].next, row) /\ sched[s].next <= comes[s]
      BY <2>1 DEF TickFires, Due
    <3> HIDE DEF row
    <3> QED BY <3>1, <3>3, <3>4
  <2>2. CASE RunNow(s, r)
    <3>1. Makes(r, s, 0, sched[s]) /\ sched[s] \in Schedule
      BY <2>2 DEF RunNow, TypeOK
    <3> QED BY <3>1
  <2> QED BY <2>1, <2>2
<1> DEFINE rows == [sched EXCEPT ![s] = row]
<1>2. o.entry \in Entries \cup {None} /\ o.cwd \in Projects \cup {None} /\ o.mode \in {"goal", "task"}
  <2>1. o \in Plan \cup {NoPlan}
    BY DEF TypeOK, Schedule
  <2> QED BY <2>1 DEF Plan, NoPlan
<1>3. /\ rows \in [Schedules -> Schedule] /\ rows[s] = row
      /\ \A z \in Schedules : z # s => rows[z] = sched[z]
  BY DEF TypeOK
<1>4. Save([run EXCEPT ![r] = NewRun(o, s, n)], rows, flight, aborted, stopper) /\ unsure' = unsure \ {r}
  BY <1>1 DEF Makes
<1>5. UNCHANGED <<tickVars, agents, comes>> /\ run[r].status \in FINISHED \cup {"free"}
  BY DEF TickFires, RunNow, Room
<1> HIDE DEF o, rows
<1>6. /\ StoredType' /\ StopNamed' /\ Frame /\ sched' = rows /\ Alone(r) /\ flight' = flight
      /\ run'[r].status = "queued" /\ run'[r].sched = s /\ run'[r].occ = n /\ run'[r].entry = o.entry
      /\ run'[r].bound = (s # None /\ o.entry # None)
      /\ \A q \in Runs : q # r => Rests(q)
  BY <1>2, <1>3, <1>4, NewRunStep
<1>7. s # None
  BY NamesAssumption
<1>8. Made(r)
  <2>1. n = 0 \/ (n = sched[s].next /\ n <= comes[s] /\ sched'[s].next \in {0, comes[s] + 1})
    BY <1>1, <1>3, <1>6
  <2>2. (run'[r].bound => run'[r].entry # None) /\ (run'[r].bound \/ run'[r].entry = None)
    BY <1>6, <1>7
  <2> QED BY <1>4, <1>5, <1>6, <2>1, <2>2 DEF Made
<1>9. TypeOK'
  BY <1>4, <1>5, <1>6, AgentsKeepType DEF TypeOK, StoredType, AgentsType, STOPPERS, tickVars
<1>10. Frame2
  <2>1. \A z \in Schedules : sched'[z].next \in {sched[z].next, 0, comes[z] + 1}
    BY <1>1, <1>3, <1>6
  <2>2. \A z \in Schedules : comes[z] <= comes'[z]
    BY <1>5 DEF TypeOK
  <2> QED BY <1>4, <1>5, <2>1, <2>2 DEF Frame2, tickVars
<1> QED BY <1>6, <1>8, <1>9, <1>10 DEF Step, Change

\* A run that is made when the calendar finds no next time: nothing is saved.
LEMMA SlipStep ==
  ASSUME TypeOK, StopNamed, NEW s \in Schedules, NEW r \in Runs, TickSlips(s, r)
  PROVE  Step
<1> DEFINE o == sched[s].order
           n == sched[s].next
           rec == [NewRun(o, s, n) EXCEPT !.again = TRUE]
<1>1. o.entry \in Entries \cup {None} /\ o.cwd \in Projects \cup {None} /\ o.mode \in {"goal", "task"} /\ n \in Nat
  <2>1. o \in Plan \cup {NoPlan} /\ n \in Nat
    BY DEF TypeOK, Schedule
  <2> QED BY <2>1 DEF Plan, NoPlan
<1>2. /\ run[r].status \in FINISHED \cup {"free"} /\ n <= comes[s] /\ unsure' = unsure \ {r}
      /\ UNCHANGED <<sched, disk, healthy, coroutines, tickVars, agents, comes>>
  BY DEF TickSlips, Room, Due
<1>3. run' = [run EXCEPT ![r] = rec]
  BY DEF TickSlips
<1>4. s # None
  BY NamesAssumption
<1>5. n = sched[s].next
  OBVIOUS
<1> HIDE DEF o, n
<1>6. /\ rec \in Run /\ rec.status = "queued" /\ rec.sched = s /\ rec.occ = n /\ rec.entry = o.entry /\ rec.again
      /\ rec.bound = (s # None /\ o.entry # None)
  BY <1>1 DEF NewRun, NoRun, Run, STATUSES
<1> HIDE DEF rec
<1>7. run' \in [Runs -> Run] /\ run'[r] = rec /\ \A q \in Runs : q # r => run'[q] = run[q]
  BY <1>3, <1>6 DEF TypeOK
<1>8. Made(r)
  <2>1. Alone(r) /\ flight'[r] = flight[r] /\ r \notin unsure'
    BY <1>2, <1>7 DEF Alone, coroutines
  <2>2. run'[r].bound \/ run'[r].entry = None
    BY <1>4, <1>6, <1>7
  <2> QED BY <1>2, <1>5, <1>6, <1>7, <2>1, <2>2 DEF Made
<1>9. \A q \in Runs : q # r => Rests(q)
  BY <1>2, <1>7 DEF Rests, Keeps, Same, coroutines
<1>10. TypeOK'
  BY <1>2, <1>7 DEF TypeOK, coroutines, tickVars, agents
<1>11. StopNamed' /\ Frame
  BY <1>2, <1>6, <1>7 DEF StopNamed, Frame, coroutines
<1>12. Frame2
  BY <1>2 DEF Frame2, tickVars, TypeOK
<1> QED BY <1>8, <1>9, <1>10, <1>11, <1>12 DEF Step, Change

\* A schedule whose only time is past loses it: nothing is saved.
LEMMA LapseStep ==
  ASSUME TypeOK, StopNamed, NEW s \in Schedules, sched' = [sched EXCEPT ![s].next = 0],
         UNCHANGED <<run, disk, healthy, coroutines, tickVars, agents, comes, unsure>>
  PROVE  Step
<1>1. [sched[s] EXCEPT !.next = 0] \in Schedule /\ [sched[s] EXCEPT !.next = 0].next = 0
  BY DEF TypeOK, Schedule
<1>2. sched' \in [Schedules -> Schedule] /\ \A z \in Schedules : sched'[z].next \in {sched[z].next, 0}
  BY <1>1 DEF TypeOK
<1>3. TypeOK'
  BY <1>2 DEF TypeOK, coroutines, tickVars, agents
<1>4. StopNamed' /\ Frame
  BY DEF StopNamed, Frame, coroutines
<1>5. Frame2
  BY <1>2 DEF Frame2, tickVars, TypeOK
<1>6. \A q \in Runs : Rests(q)
  BY DEF Rests, Keeps, Same, coroutines
<1> QED BY <1>3, <1>4, <1>5, <1>6 DEF Step, Change

LEMMA ScheduleStep ==
  ASSUME TypeOK, StopNamed, NEW s \in Schedules, SetSchedule(s)
  PROVE  Step
<1>0. CASE sched' = [sched EXCEPT ![s].next = 0] /\ UNCHANGED <<run, disk, healthy, coroutines>>
  BY <1>0, LapseStep DEF SetSchedule
<1> SUFFICES ASSUME ~(sched' = [sched EXCEPT ![s].next = 0] /\ UNCHANGED <<run, disk, healthy, coroutines>>)
             PROVE  Step
  BY <1>0
<1>1. PICK new \in Schedule :
        /\ Save(run, [sched EXCEPT ![s] = new], flight, aborted, stopper)
        /\ new.next \in {sched[s].next, 0, comes[s] + 1}
  <2> DEFINE Set(new) == Save(run, [sched EXCEPT ![s] = new], flight, aborted, stopper)
  <2>0. sched[s] \in Schedule /\ comes[s] + 1 \in Nat
    BY DEF TypeOK
  <2>1. ASSUME NEW o \in ScheduleOrders, NEW enabled \in BOOLEAN
        PROVE  LET new == [is |-> TRUE, enabled |-> enabled, next |-> comes[s] + 1, order |-> o]
               IN  new \in Schedule /\ new.next = comes[s] + 1
    BY <2>0, OrdersAssumption DEF Schedule
  <2>2. \A b \in BOOLEAN : [sched[s] EXCEPT !.enabled = b] \in Schedule /\ [sched[s] EXCEPT !.enabled = b].next = sched[s].next
    BY <2>0 DEF Schedule
  <2>3. /\ [sched[s] EXCEPT !.enabled = TRUE, !.next = comes[s] + 1] \in Schedule
        /\ [sched[s] EXCEPT !.enabled = TRUE, !.next = comes[s] + 1].next = comes[s] + 1
    BY <2>0 DEF Schedule
  <2>4. NoSchedule \in Schedule /\ NoSchedule.next = 0
    BY DEF NoSchedule, Schedule
  <2>5. \/ \E o \in ScheduleOrders, enabled \in BOOLEAN :
             Set([is |-> TRUE, enabled |-> enabled, next |-> comes[s] + 1, order |-> o])
        \/ Set([sched[s] EXCEPT !.enabled = FALSE])
        \/ Set([sched[s] EXCEPT !.enabled = TRUE, !.next = comes[s] + 1])
        \/ Set([sched[s] EXCEPT !.enabled = TRUE])
        \/ Set(NoSchedule)
    BY DEF SetSchedule
  <2> HIDE DEF Set
  <2>6. \E new \in Schedule : Set(new) /\ new.next \in {sched[s].next, 0, comes[s] + 1}
    BY <2>1, <2>2, <2>3, <2>4, <2>5
  <2> QED BY <2>6 DEF Set
<1> DEFINE rows == [sched EXCEPT ![s] = new]
<1>2. /\ run \in [Runs -> Run] /\ rows \in [Schedules -> Schedule] /\ flight \in [Runs -> FLIGHTS]
      /\ aborted \in SUBSET Runs /\ stopper \in [Runs -> STOPPERS]
  BY DEF TypeOK, STOPPERS
<1>3. \A z \in Schedules : rows[z].next \in {sched[z].next, 0, comes[z] + 1}
  BY <1>1 DEF TypeOK
<1>4. UNCHANGED <<tickVars, agents, comes, unsure>>
  BY DEF SetSchedule
<1> HIDE DEF rows
<1>5. /\ StoredType' /\ Frame /\ run' = run /\ sched' = rows
      /\ \A q \in Runs : flight'[q] = flight[q] \/ (flight'[q] = "no" /\ flight[q] # flight[q])
  BY <1>1, <1>2, SaveStep DEF rows
<1>6. \A q \in Runs : Rests(q)
  BY <1>5 DEF Rests, Keeps, Same
<1>7. StopNamed'
  BY <1>5 DEF StopNamed
<1>8. Frame2
  BY <1>3, <1>4, <1>5 DEF Frame2, tickVars, TypeOK
<1>9. TypeOK'
  BY <1>4, <1>5, AgentsKeepType DEF TypeOK, StoredType, AgentsType, STOPPERS, tickVars
<1> QED BY <1>5, <1>6, <1>7, <1>8, <1>9 DEF Step, Change

LEMMA PersonStep ==
  ASSUME TypeOK, StopNamed, NEW r \in Runs,
         PersonStops(r) \/ Resume(r) \/ \E o \in GoalOrders : CreateGoal(r, o)
  PROVE  Step
<1>1. CASE PersonStops(r)
  <2>1. PICK status \in {"paused", "stopped"} :
          /\ run[r].status \in ACTIVE \cup {"queued"} \cup RESUMABLE \cup {"stopping"}
          /\ StopRun(r, status)
    BY <1>1 DEF PersonStops
  <2>2. status \in STOPS /\ run[r].status \notin FINISHED \cup {"free"}
    BY <2>1 DEF STOPS, ACTIVE, FINISHED, RESUMABLE
  <2>3. UNCHANGED <<ticking, agents, comes, unsure>>
    BY <1>1 DEF PersonStops
  <2> QED BY <2>1, <2>2, <2>3, StopRunStep
<1>2. CASE Resume(r)
  <2> DEFINE rec == [run[r] EXCEPT !.status = "queued", !.later = FALSE, !.retries = 0, !.unconfirmed = FALSE]
             fl == [flight EXCEPT ![r] = "no"]
  <2>1. /\ run[r].status \in RESUMABLE /\ flight[r] = "no" /\ unsure' = unsure \ {r}
        /\ UNCHANGED <<tickVars, agents, comes>>
        /\ Save([run EXCEPT ![r] = rec], sched, flight, aborted, stopper)
    BY <1>2 DEF Resume
  <2>2. Next1(r, rec) /\ rec.status = "queued" /\ rec.entry = run[r].entry
    <3>1. Next1(r, run[r]) /\ "queued" \in STATUSES
      BY RecordStep DEF STATUSES
    <3> QED BY <3>1 DEF Next1, Run
  <2>3. fl = flight
    BY <2>1 DEF TypeOK
  <2>4. Save([run EXCEPT ![r] = rec], sched, fl, aborted, stopper)
    BY <2>1, <2>3
  <2>5. stopper \in [Runs -> STOPPERS] /\ aborted \in SUBSET Runs /\ "no" \in FLIGHTS
    BY DEF TypeOK, STOPPERS, FLIGHTS
  <2> HIDE DEF rec
  <2>6. rec \in Run /\ (rec.status = "stopping" => rec.stop # None)
    BY <2>2 DEF Next1
  <2>7. /\ StoredType' /\ StopNamed' /\ Frame /\ sched' = sched /\ Alone(r)
        /\ run'[r] = rec /\ flight'[r] = "no"
        /\ \A q \in Runs : q # r => Rests(q)
    BY <2>4, <2>5, <2>6, OneRunStep
  <2>8. Resumes(r)
    BY <2>1, <2>2, <2>7 DEF Resumes, Keeps, Same, Next1
  <2>9. TypeOK'
    BY <2>1, <2>7, AgentsKeepType DEF TypeOK, StoredType, AgentsType, STOPPERS, tickVars
  <2>10. Frame2
    BY <2>1, <2>7 DEF Frame2, tickVars, TypeOK
  <2> QED BY <2>7, <2>8, <2>9, <2>10 DEF Step, Change
<1>3. ASSUME NEW o \in GoalOrders, CreateGoal(r, o) PROVE Step
  <2>1. o.entry \in Entries \cup {None} /\ o.cwd \in Projects \cup {None} /\ o.mode \in {"goal", "task"}
    BY OrdersAssumption DEF Order
  <2>2. /\ Save([run EXCEPT ![r] = NewRun(o, None, 0)], sched, flight, aborted, stopper)
        /\ unsure' = unsure \ {r} /\ UNCHANGED <<tickVars, agents, comes>>
        /\ run[r].status \in FINISHED \cup {"free"} /\ ~Locked(o.entry, None)
    BY <1>3 DEF CreateGoal, Room
  <2>3. sched \in [Schedules -> Schedule] /\ 0 \in Nat
    BY DEF TypeOK
  <2>4. /\ StoredType' /\ StopNamed' /\ Frame /\ sched' = sched /\ Alone(r) /\ flight' = flight
        /\ run'[r].status = "queued" /\ run'[r].sched = None /\ run'[r].occ = 0 /\ run'[r].entry = o.entry
        /\ run'[r].bound = (None # None /\ o.entry # None)
        /\ \A q \in Runs : q # r => Rests(q)
    BY <2>1, <2>2, <2>3, NewRunStep
  <2>5. Made(r)
    BY <2>2, <2>4 DEF Made
  <2>6. TypeOK'
    BY <2>2, <2>4, AgentsKeepType DEF TypeOK, StoredType, AgentsType, STOPPERS, tickVars
  <2>7. Frame2
    BY <2>2, <2>4 DEF Frame2, tickVars, TypeOK
  <2> QED BY <2>4, <2>5, <2>6, <2>7 DEF Step, Change
<1> QED BY <1>1, <1>2, <1>3

LEMMA NextIsStep ==
  ASSUME TypeOK, StopNamed, Working, Next, ~Restart
  PROVE  Step
<1>1. CASE \E r \in Runs : Coroutine(r)
  BY <1>1, CoroutineStep
<1>2. CASE \E r \in Runs : \/ Waits(r) \/ StopConfirmed(r) \/ StopGivesUp(r)
                           \/ Accepts(r) \/ Rejects(r) \/ TurnEnds(r)
  BY <1>2, AgentStep
<1>3. CASE \E e \in Entries : OthersBegin(e) \/ OthersEnd(e)
  BY <1>3, OthersStep
<1>4. CASE \E r \in Runs : TickStops(r) \/ TickSaves(r) \/ TickAdmits(r) \/ TickPrepared(r) \/ ResetComes(r)
  BY <1>4, TickStep
<1>5. CASE TickGoesOn \/ \E s \in Schedules : TimeComes(s)
  BY <1>5, ClockStep
<1>6. CASE \E s \in Schedules, r \in Runs : TickFires(s, r) \/ TickSlips(s, r) \/ RunNow(s, r)
  BY <1>6, FireStep, SlipStep
<1>7. CASE \E s \in Schedules : SetSchedule(s)
  BY <1>7, ScheduleStep
<1>8. CASE \E r \in Runs : PersonStops(r) \/ Resume(r) \/ \E o \in GoalOrders : CreateGoal(r, o)
  BY <1>8, PersonStep
<1> QED BY <1>1, <1>2, <1>3, <1>4, <1>5, <1>6, <1>7, <1>8 DEF Next

LEMMA StutterIsStep ==
  ASSUME TypeOK, StopNamed, UNCHANGED vars
  PROVE  Step
<1>1. AgentsType' /\ stopper' \in [Runs -> STOPPERS] /\ \A s \in Schedules : comes[s] <= comes'[s]
  BY AgentsKeepType DEF vars, TypeOK, STOPPERS, coroutines
<1> QED BY <1>1, QuietStep DEF vars, coroutines, TypeOK

----------------------------------------------------------------------------
(* A restart *)

LEMMA RestartStep ==
  ASSUME TypeOK, Restart
  PROVE  /\ TypeOK' /\ StopNamed'
         /\ run' = [r \in Runs |-> Interrupted(disk.run[r])] /\ sched' = disk.sched
         /\ disk' = [run |-> run', sched |-> sched'] /\ healthy'
         /\ \A r \in Runs :
              /\ flight'[r] = "no" /\ run'[r].status \notin AtWork
              /\ run'[r].entry = disk.run[r].entry /\ run'[r].bound = disk.run[r].bound
              /\ run'[r].sched = disk.run[r].sched /\ run'[r].occ = disk.run[r].occ /\ run'[r].again = disk.run[r].again
              /\ run'[r].status = disk.run[r].status \/ (disk.run[r].status \in AtWork /\ run'[r].status = "interrupted")
<1>1. /\ run' = [r \in Runs |-> Interrupted(disk.run[r])] /\ sched' = disk.sched
      /\ disk' = [run |-> run', sched |-> sched'] /\ healthy' = TRUE
      /\ flight' = [r \in Runs |-> "no"] /\ aborted' = {} /\ stopper' = [r \in Runs |-> "no"]
      /\ ticking' = Idle /\ fresh' = FALSE /\ sends' = {} /\ owned' = {}
      /\ comes' = comes /\ unsure' = unsure \cup {r \in Runs : flight[r] = "turn"}
  BY DEF Restart
<1>2. native' \in [Entries -> {"idle", "user", "compaction"} \cup Runs]
  BY DEF Restart
<1>3. \A r \in Runs : disk.run[r] \in Run
  BY DEF TypeOK
<1>4. ASSUME NEW rec \in Run
      PROVE  /\ Interrupted(rec) \in Run /\ Interrupted(rec).status \notin AtWork
             /\ Interrupted(rec).entry = rec.entry /\ Interrupted(rec).bound = rec.bound
             /\ Interrupted(rec).sched = rec.sched /\ Interrupted(rec).occ = rec.occ /\ Interrupted(rec).again = rec.again
             /\ Interrupted(rec).status = rec.status \/ (rec.status \in AtWork /\ Interrupted(rec).status = "interrupted")
  <2>1. "interrupted" \in STATUSES /\ "interrupted" \notin AtWork
    BY DEF STATUSES, RESUMABLE, AtWork, ACTIVE
  <2> QED BY <2>1 DEF Interrupted, Run, AtWork
<1>5. run' \in [Runs -> Run] /\ sched' \in [Schedules -> Schedule]
  BY <1>1, <1>3, <1>4 DEF TypeOK
<1>6. TypeOK'
  BY <1>1, <1>2, <1>5 DEF TypeOK, FLIGHTS
<1>7. StopNamed'
  BY <1>1, <1>3, <1>4 DEF StopNamed, AtWork
<1> QED BY <1>1, <1>3, <1>4, <1>6, <1>7

----------------------------------------------------------------------------
(* Types, and that a run in flight is at work *)

LEMMA InitType ==
  ASSUME Init
  PROVE  TypeOK /\ StopNamed /\ Working
<1>1. NoRun \in Run /\ NoSchedule \in Schedule
  BY DEF NoRun, Run, NoSchedule, Schedule, STATUSES
<1>2. TypeOK
  BY <1>1 DEF Init, TypeOK, FLIGHTS
<1> QED BY <1>2 DEF Init, StopNamed, NoRun, Working

LEMMA WorkingStep ==
  ASSUME TypeOK, Working, Step
  PROVE  Working'
<1> SUFFICES ASSUME NEW r \in Runs, flight'[r] # "no"
             PROVE  run'[r].status \in AtWork /\ disk'.run[r].status \in AtWork
  BY DEF Working
<1>1. run'[r].status \in AtWork
  <2>1. Change(r)
    BY DEF Step
  <2> QED BY <2>1 DEF Change, Rests, Works, Halts, Starts, Made, Resumes, Working, AtWork, ACTIVE, FINISHED
<1>2. disk'.run[r].status \in AtWork
  BY <1>1 DEF Step, Frame, Working
<1> QED BY <1>1, <1>2

\* Every variable of the Goals keeps its type, and a run whose coroutine is
\* there has a status that says so, in memory and in workflows.json.
THEOREM WorkflowsTyped == Spec => [](TypeOK /\ StopNamed /\ Working)
<1>1. ASSUME TypeOK, StopNamed, Working, [Next]_vars
      PROVE  TypeOK' /\ StopNamed' /\ Working'
  <2>1. CASE Restart
    BY <1>1, <2>1, RestartStep DEF Working
  <2>2. CASE ~Restart
    <3>1. Step
      BY <1>1, <2>2, NextIsStep, StutterIsStep
    <3> QED BY <1>1, <3>1, WorkingStep DEF Step
  <2> QED BY <2>1, <2>2
<1> QED BY InitType, <1>1, PTL DEF Spec

\* TypeOK as the runs check it.
THEOREM WorkflowsTypeCorrect == Spec => []TypeOK
BY WorkflowsTyped, PTL

----------------------------------------------------------------------------
(* Runs in flight: one per project, none unsaved, none sent again by itself *)

LEMMA FlightsStep ==
  ASSUME TypeOK, Flights, Step
  PROVE  Flights'
<1>1. Working'
  BY WorkingStep DEF Flights
<1>2. \A q \in Runs : Change(q)
  BY DEF Step
\* A run keeps its project while it is in flight, and only one that starts enters.
<1>3. ASSUME NEW q \in Runs, flight'[q] # "no"
      PROVE  run'[q].cwd = run[q].cwd /\ (flight[q] # "no" \/ Starts(q))
  <2>1. Change(q)
    BY <1>2
  <2>2. flight[q] # "no" => run[q].status \in AtWork
    BY DEF Flights, Working
  <2> QED BY <1>3, <2>1, <2>2
      DEF Change, Rests, Works, Halts, Starts, Made, Resumes, Keeps, Same, AtWork, ACTIVE, FINISHED
<1>4. ASSUME NEW q \in Runs, Starts(q), NEW p \in InFlight
      PROVE  p # q /\ run[p].cwd # run[q].cwd
  BY <1>4 DEF Starts, Admitted, ProjectBusy, InFlight, Flights, Admission
<1>5. OneRunPerProject'
  <2> SUFFICES ASSUME NEW r \in Runs, NEW q \in Runs, flight'[r] # "no", flight'[q] # "no", r # q
               PROVE  run'[r].cwd # run'[q].cwd
    BY DEF OneRunPerProject, InFlight
  <2>1. CASE flight[r] # "no" /\ flight[q] # "no"
    BY <1>3, <2>1 DEF Flights, OneRunPerProject, InFlight
  <2>2. CASE Starts(r)
    <3>1. flight[q] # "no"
      BY <2>2 DEF Starts, Alone
    <3> QED BY <1>3, <1>4, <2>2, <3>1 DEF InFlight
  <2>3. CASE Starts(q)
    <3>1. flight[r] # "no"
      BY <2>3 DEF Starts, Alone
    <3> QED BY <1>3, <1>4, <2>3, <3>1 DEF InFlight
  <2> QED BY <1>3, <2>1, <2>2, <2>3
<1>6. Admission'
  <2> SUFFICES ASSUME ticking'.what = "prepare", fresh'
               PROVE  /\ run'[ticking'.run].status = "queued" /\ flight'[ticking'.run] = "no"
                      /\ \A q \in Runs : flight'[q] # "no" => run'[q].cwd # run'[ticking'.run].cwd
    BY DEF Admission, InFlight
  <2> DEFINE r == ticking'.run
  <2>0. r \in Runs
    BY DEF Step, TypeOK, Idle
  <2> HIDE DEF r
  <2>1. CASE ticking' = ticking /\ fresh
    <3>1. /\ run[r].status = "queued" /\ flight[r] = "no"
          /\ \A q \in InFlight : run[q].cwd # run[r].cwd
      BY <2>1 DEF Flights, Admission, r
    <3>2. ~HoldsBack(r)
      BY DEF HoldsBack, r
    <3>3. Change(r)
      BY <1>2, <2>0
    <3>4. Rests(r)
      BY <3>1, <3>2, <3>3 DEF Change, Works, Halts, Starts, Made, Resumes, FINISHED, RESUMABLE
    <3>5. ASSUME NEW q \in Runs, flight'[q] # "no"
          PROVE  run'[q].cwd # run'[r].cwd
      <4>1. ~Starts(q)
        <5>1. q # r
          BY <3>1, <3>4, <3>5 DEF Rests
        <5> QED BY <5>1 DEF Starts, Idle
      <4> QED BY <1>3, <3>1, <3>4, <3>5, <4>1 DEF InFlight, Rests, Keeps, Same
    <3> QED BY <3>1, <3>4, <3>5 DEF Rests, r
  <2>2. CASE /\ run' = run /\ flight' = flight
             /\ run[r].status = "queued" /\ flight[r] = "no" /\ ~ProjectBusy(r)
    BY <2>0, <2>2 DEF ProjectBusy, r
  <2> QED BY <2>1, <2>2 DEF Step, Frame2, r
<1>7. Aborts'
  BY DEF Step, Frame, Flights, Aborts, InFlight
<1>8. NotResent'
  <2> SUFFICES ASSUME NEW r \in unsure'
               PROVE  /\ run'[r].status \notin AtWork \cup {"queued"}
                      /\ disk'.run[r].status \notin AtWork \cup {"queued"}
    BY DEF NotResent
  <2>1. r \in unsure /\ r \in Runs
    BY DEF Step, Frame2, TypeOK
  <2>2. run[r].status \notin AtWork \cup {"queued"} /\ disk.run[r].status \notin AtWork \cup {"queued"} /\ flight[r] = "no"
    BY <2>1 DEF Flights, NotResent, Working
  <2>3. Change(r)
    BY <1>2, <2>1
  <2>4. run'[r].status \notin AtWork \cup {"queued"}
    BY <2>1, <2>2, <2>3 DEF Change, Rests, Works, Halts, Starts, Made, Resumes, AtWork, ACTIVE, STOPS
  <2> QED BY <2>1, <2>2, <2>4 DEF Step, Frame
<1> QED BY <1>1, <1>5, <1>6, <1>7, <1>8 DEF Flights

LEMMA FlightsRestart ==
  ASSUME TypeOK, Flights, Restart
  PROVE  Flights'
<1>1. /\ healthy' /\ disk' = [run |-> run', sched |-> sched']
      /\ \A r \in Runs :
           /\ flight'[r] = "no" /\ run'[r].status \notin AtWork
           /\ run'[r].status = disk.run[r].status \/ (disk.run[r].status \in AtWork /\ run'[r].status = "interrupted")
  BY RestartStep
<1>2. NotResent'
  <2> SUFFICES ASSUME NEW r \in unsure'
               PROVE  run'[r].status \notin AtWork \cup {"queued"}
    BY <1>1 DEF NotResent
  <2>1. r \in Runs /\ (r \in unsure \/ flight[r] = "turn")
    BY DEF Restart, TypeOK
  <2>2. disk.run[r].status # "queued"
    BY <2>1 DEF Flights, NotResent, Working, AtWork, ACTIVE
  <2> QED BY <1>1, <2>1, <2>2 DEF AtWork, ACTIVE
<1>3. ticking'.what # "prepare"
  BY DEF Restart, Idle
<1> QED BY <1>1, <1>2, <1>3 DEF Flights, Working, OneRunPerProject, InFlight, Admission, Aborts

\* The invariant of the runs in flight.
THEOREM FlightsAlways == Spec => []Flights
<1>1. Init => Flights
  BY DEF Init, Flights, Working, OneRunPerProject, InFlight, Admission, Aborts, NotResent, Idle
<1>2. ASSUME TypeOK, StopNamed, Working, Flights, [Next]_vars
      PROVE  Flights'
  <2>1. CASE Restart
    BY <1>2, <2>1, FlightsRestart
  <2>2. CASE ~Restart
    <3>1. Step
      BY <1>2, <2>2, NextIsStep, StutterIsStep
    <3> QED BY <1>2, <3>1, FlightsStep
  <2> QED BY <2>1, <2>2
<1> QED BY WorkflowsTyped, <1>1, <1>2, PTL DEF Spec

\* Two runs in flight never share a project, for any projects, conversations,
\* schedules, limits and agents, whatever fails (projectBusy).
THEOREM ProjectsApart == Spec => []OneRunPerProject
<1>1. Flights => OneRunPerProject
  BY DEF Flights
<1> QED BY FlightsAlways, <1>1, PTL

\* No run that was in a turn when the Host stopped is at work or queued again
\* before a person resumes it (the restart of createWorkflows).
THEOREM InterruptedRunsWait == Spec => []InterruptedWaits
<1>1. Flights => InterruptedWaits
  BY DEF Flights, NotResent, InterruptedWaits, AtWork
<1> QED BY FlightsAlways, <1>1, PTL

----------------------------------------------------------------------------
(* Occurrences *)

LEMMA NumbersStep ==
  ASSUME TypeOK, Numbers, Step
  PROVE  Numbers'
<1>1. /\ \A s \in Schedules : comes[s] \in Nat /\ comes'[s] \in Nat /\ comes[s] <= comes'[s]
      /\ \A s \in Schedules : sched[s].next \in Nat /\ sched'[s].next \in {sched[s].next, 0, comes[s] + 1}
      /\ \A r \in Runs : run[r].occ \in Nat /\ run[r].again \in BOOLEAN /\ run[r].sched \in Schedules \cup {None}
      /\ \A r \in Runs : disk.run[r].occ \in Nat /\ disk.run[r].sched \in Schedules \cup {None}
      /\ \A s \in Schedules : disk.sched[s].next \in Nat
  BY DEF Step, Frame2, TypeOK, Run, Schedule
\* A run keeps its occurrence, unless it is made for the next one.
<1>2. ASSUME NEW r \in Runs
      PROVE  \/ run'[r].sched = run[r].sched /\ run'[r].occ = run[r].occ /\ run'[r].again = run[r].again
             \/ Made(r)
  BY DEF Step, Change, Rests, Works, Halts, Starts, Resumes, Keeps, Same
<1>3. ASSUME NEW r \in Runs, run'[r].sched # None, run'[r].occ # 0
      PROVE  /\ run'[r].occ <= comes'[run'[r].sched]
             /\ run'[r].again \/ sched'[run'[r].sched].next = 0 \/ run'[r].occ < sched'[run'[r].sched].next
  <2>1. CASE run'[r].sched = run[r].sched /\ run'[r].occ = run[r].occ /\ run'[r].again = run[r].again
    <3> DEFINE s == run[r].sched
    <3>1. s \in Schedules /\ run[r].occ <= comes[s] /\ (run[r].again \/ sched[s].next = 0 \/ run[r].occ < sched[s].next)
      BY <1>1, <1>3, <2>1 DEF Numbers, Numbered
    <3> QED BY <1>1, <2>1, <3>1
  <2>2. CASE Made(r)
    <3> DEFINE s == run'[r].sched
    <3>1. s \in Schedules /\ run'[r].occ = sched[s].next /\ run'[r].occ <= comes[s] /\ (run'[r].again \/ sched'[s].next \in {0, comes[s] + 1})
      BY <1>3, <2>2 DEF Made
    <3> QED BY <1>1, <3>1
  <2> QED BY <1>2, <2>1, <2>2
\* The next occurrence is no other run's.
<1>4. ASSUME NEW r \in Runs, NEW q \in Runs, Made(r), r # q,
             run'[r].sched # None, run'[r].sched = run'[q].sched, run'[r].occ # 0, ~run'[q].again
      PROVE  run'[r].occ # run'[q].occ
  <2> DEFINE s == run'[r].sched
  <2>1. s \in Schedules /\ run'[r].occ = sched[s].next
    BY <1>4 DEF Made
  <2>2. run[q].sched = s /\ run[q].occ = run'[q].occ /\ ~run[q].again
    BY <1>4 DEF Made, Alone
  <2>3. run[q].occ # 0 => run[q].occ < sched[s].next \/ sched[s].next = 0
    BY <1>4, <2>2 DEF Numbers, Numbered
  <2> QED BY <1>1, <1>4, <2>1, <2>2, <2>3
<1>5. ASSUME NEW r \in Runs, NEW q \in Runs,
             run'[r].sched # None, run'[r].sched = run'[q].sched, run'[r].occ = run'[q].occ, run'[r].occ # 0,
             ~run'[r].again, ~run'[q].again
      PROVE  r = q
  <2>1. ~Made(r) /\ ~Made(q) => r = q
    BY <1>2, <1>5 DEF Numbers, Numbered
  <2> QED BY <1>4, <1>5, <2>1
<1>6. Numbered(run, sched)'
  BY <1>3, <1>5 DEF Numbered
<1>7. Numbered(disk.run, disk.sched)'
  <2>1. CASE disk' = disk
    <3>1. ASSUME NEW r \in Runs, disk.run[r].sched # None, disk.run[r].occ # 0
          PROVE  disk.run[r].occ <= comes'[disk.run[r].sched]
      <4>1. disk.run[r].occ <= comes[disk.run[r].sched]
        BY <3>1 DEF Numbers, Numbered
      <4> QED BY <1>1, <3>1, <4>1
    <3> QED BY <2>1, <3>1 DEF Numbers, Numbered
  <2>2. CASE disk' = [run |-> run', sched |-> sched']
    BY <1>6, <2>2 DEF Numbered
  <2> QED BY <2>1, <2>2 DEF Step, Frame
<1> QED BY <1>6, <1>7 DEF Numbers

LEMMA NumbersRestart ==
  ASSUME TypeOK, Numbers, Restart
  PROVE  Numbers'
<1>1. /\ sched' = disk.sched /\ disk' = [run |-> run', sched |-> sched'] /\ comes' = comes
      /\ \A r \in Runs : run'[r].sched = disk.run[r].sched /\ run'[r].occ = disk.run[r].occ /\ run'[r].again = disk.run[r].again
  BY RestartStep DEF Restart
<1> QED BY <1>1 DEF Numbers, Numbered

\* One occurrence of a schedule makes one run, whatever crash or failed write
\* comes between, unless the calendar finds no next time as it fires (tick).
THEOREM OccurrencesOnce == Spec => []FireOnce
<1>1. Init => Numbers
  BY DEF Init, Numbers, Numbered, NoRun
<1>2. ASSUME TypeOK, StopNamed, Working, Numbers, [Next]_vars
      PROVE  Numbers'
  <2>1. CASE Restart
    BY <1>2, <2>1, NumbersRestart
  <2>2. CASE ~Restart
    <3>1. Step
      BY <1>2, <2>2, NextIsStep, StutterIsStep
    <3> QED BY <1>2, <3>1, NumbersStep
  <2> QED BY <2>1, <2>2
<1>3. Numbers => FireOnce
  BY DEF Numbers, Numbered, FireOnce
<1> QED BY WorkflowsTyped, <1>1, <1>2, <1>3, PTL DEF Spec

----------------------------------------------------------------------------
(* A person's Goal comes first *)

LEMMA BoundStep ==
  ASSUME TypeOK, Bound, Step
  PROVE  Bound'
<1>1. ASSUME NEW r \in Runs, run'[r].bound
      PROVE  run'[r].entry # None
  <2>1. Change(r)
    BY DEF Step
  <2> QED BY <1>1, <2>1 DEF Change, Rests, Works, Halts, Starts, Made, Resumes, Keeps, Same, Bound
<1>2. ASSUME NEW r \in Runs, disk'.run[r].bound
      PROVE  disk'.run[r].entry # None
  BY <1>1, <1>2 DEF Step, Frame, Bound
<1> QED BY <1>1, <1>2 DEF Bound

LEMMA GoalFirstStep ==
  ASSUME TypeOK, Working, Bound, PersonsGoalFirst, Step
  PROVE  PersonsGoalFirst'
<1> SUFFICES ASSUME NEW r \in Runs, NEW q \in Runs,
                    flight'[r] = "turn", run'[r].bound, healthy',
                    run'[q].entry = run'[r].entry, run'[q].mode = "goal", ~run'[q].bound,
                    run'[q].status \in AtWork \cup RESUMABLE \cup {"queued"}
             PROVE  FALSE
  BY DEF PersonsGoalFirst, Locks, AtWork
<1>1. Change(r) /\ Change(q) /\ healthy
  BY DEF Step, Frame
<1>2. q # r /\ q # None /\ r # None
  BY NamesAssumption
\* The run is in the turn already, or has just looked whose the conversation is.
<1>3. /\ run[r].bound /\ run[r].entry = run'[r].entry /\ run[r].entry # None
      /\ \/ flight[r] = "turn"
         \/ Alone(r) /\ ~TargetBusy(run[r].entry, r)
  <2>1. flight[r] # "no" => run[r].status \in AtWork
    BY DEF Working
  <2>2. Rests(r) \/ Works(r)
    BY <1>1, <2>1 DEF Change, Halts, Starts, Made, Resumes, AtWork, ACTIVE, FINISHED
  <2>3. run[r].bound => run[r].entry # None
    BY DEF Bound
  <2> QED BY <2>2, <2>3 DEF Rests, Works, Keeps, Same
<1>4. CASE Alone(r) /\ ~TargetBusy(run[r].entry, r)
  <2>1. run'[q] = run[q]
    BY <1>2, <1>4 DEF Alone
  <2> QED BY <1>2, <1>3, <1>4, <2>1 DEF TargetBusy, Locked, Locks, AtWork
<1>5. CASE flight[r] = "turn"
  <2>1. run[r].status \in AtWork
    BY <1>5 DEF Working
  <2>2. Locked(run[r].entry, None)
    BY <1>2, <1>3, <2>1 DEF Locked, Locks, AtWork
  \* The Goal was not there before this step.
  <2>3. (run[q].entry = run[r].entry /\ run[q].mode = "goal" /\ ~run[q].bound)
          => run[q].status \notin AtWork \cup RESUMABLE \cup {"queued"}
    BY <1>1, <1>3, <1>5 DEF PersonsGoalFirst, Locks, AtWork
  <2>4. CASE Rests(q)
    BY <1>3, <2>3, <2>4 DEF Rests, Keeps, Same
  <2>5. CASE Works(q)
    <3>1. run[q].status \in AtWork
      BY <2>5 DEF Works, Working
    <3>2. run[q].entry # run[r].entry
      BY <2>3, <2>5, <3>1 DEF Works, Same
    <3>3. Unused(run[r].entry)
      BY <1>3, <2>5, <3>2 DEF Works
    <3> QED BY <3>3 DEF Unused
  <2>6. CASE Halts(q) \/ Starts(q) \/ Resumes(q)
    <3>1. run[q].status \in AtWork \cup RESUMABLE \cup {"queued"}
      BY <2>6 DEF Halts, Starts, Resumes, TypeOK, Run, STATUSES, AtWork
    <3> QED BY <1>3, <2>3, <2>6, <3>1 DEF Halts, Starts, Resumes, Keeps, Same
  <2>7. CASE Made(q)
    <3>1. run'[q].entry # None /\ Locked(run'[q].entry, None)
      BY <1>3, <2>2
    <3> QED BY <2>7, <3>1 DEF Made
  <2> QED BY <1>1, <2>4, <2>5, <2>6, <2>7 DEF Change
<1> QED BY <1>3, <1>4, <1>5

\* A scheduled run bound to a conversation is never in a turn there while a
\* person's own Goal holds it (targetBusy, workflowTargetReady).
THEOREM PersonsComeFirst == Spec => []PersonsGoalFirst
<1>1. Init => Bound /\ PersonsGoalFirst
  BY DEF Init, Bound, PersonsGoalFirst, NoRun
<1>2. ASSUME TypeOK, StopNamed, Working, Bound, PersonsGoalFirst, [Next]_vars
      PROVE  Bound' /\ PersonsGoalFirst'
  <2>1. CASE Restart
    <3>1. /\ disk' = [run |-> run', sched |-> sched']
          /\ \A r \in Runs : /\ flight'[r] = "no" /\ run'[r].entry = disk.run[r].entry
                             /\ run'[r].bound = disk.run[r].bound
      BY <1>2, <2>1, RestartStep
    <3> QED BY <1>2, <3>1 DEF Bound, PersonsGoalFirst
  <2>2. CASE ~Restart
    <3>1. Step
      BY <1>2, <2>2, NextIsStep, StutterIsStep
    <3> QED BY <1>2, <3>1, BoundStep, GoalFirstStep
  <2> QED BY <2>1, <2>2
<1> QED BY WorkflowsTyped, <1>1, <1>2, PTL DEF Spec

=============================================================================
