------------------------ MODULE ClaudeConversationProofs ------------------------
(***************************************************************************)
(* Proofs about ClaudeConversation, for every number of messages, pages,   *)
(* compactions and processes.                                              *)
(***************************************************************************)
EXTENDS ClaudeConversation, SequenceTheorems, TLAPS

----------------------------------------------------------------------------
(* What the parts of a step do *)

LEMMA NamesApart ==
  /\ Goal \in Callers /\ Goal \notin Messages /\ Goal \in Frames
  /\ Messages \subseteq Callers /\ Opens \subseteq Callers
  /\ Messages \subseteq Frames /\ Requests \subseteq Frames
  /\ None \notin Callers \cup Requests \cup Procs /\ First \in Procs
  /\ \A r \in Requests : r \notin Callers
BY NamesAssumption DEF Callers, Frames

\* Only the caller that goes is moved.
Moved(c, step, p) ==
  /\ at' \in [Callers -> STEPS] /\ has' \in [Callers -> Procs \cup {None}]
  /\ at'[c] = step /\ has'[c] = p
  /\ \A d \in Callers : d # c => at'[d] = at[d] /\ has'[d] = has[d]

LEMMA GoesMoves ==
  ASSUME TypeOK, NEW c \in Callers, NEW step \in STEPS
  PROVE  /\ Goes(c, step) => Moved(c, step, None)
         /\ \A p \in Procs : GoesWith(c, step, p) => Moved(c, step, p)
BY DEF TypeOK, Goes, GoesWith, Moved

\* Nobody is moved but a Goal whose turn ends.
Turned(p) ==
  \/ UNCHANGED <<at, has>>
  \/ Waits(p) /\ (Moved(Goal, "off", None) \/ Moved(Goal, "found", p))

LEMMA TurnEndedMoves ==
  ASSUME TypeOK, NEW p \in Procs, TurnEnded(p)
  PROVE  Turned(p)
BY GoesMoves, NamesApart DEF TurnEnded, Turned, STEPS

\* The compaction of p ends, if there is one.
Finished(p) ==
  /\ compacting' \in [Procs -> Requests \cup {None}]
  /\ op' \in [Requests -> OPS] /\ scope' \in [Requests -> Procs \cup {None}]
  /\ compacting'[p] = None
  /\ \A q \in Procs : q # p => compacting'[q] = compacting[q]
  /\ \A r \in Requests : op'[r] = (IF r = compacting[p] THEN "none" ELSE op[r])

LEMMA FinishCompactionEnds ==
  ASSUME TypeOK, NEW p \in Procs, FinishCompaction(p)
  PROVE  Finished(p)
<1>1. CASE compacting[p] = None
  BY <1>1, NamesApart DEF TypeOK, FinishCompaction, Finished, OPS
<1>2. CASE compacting[p] # None
  <2>1. compacting[p] \in Requests
    BY <1>2 DEF TypeOK
  <2> QED  BY <1>2, <2>1 DEF TypeOK, FinishCompaction, Finished, OPS
<1> QED  BY <1>1, <1>2

\* A gate's queue has its types, and is left by its head only.
LEMMA GatesType ==
  ASSUME TypeOK, NEW n \in Names
  PROVE  /\ \A c \in Callers : Holder(c, n) /\ LeavesGate(n) => gates' \in [Names -> Seq(Callers)]
         /\ \A c \in Callers : gates' = [gates EXCEPT ![n] = Append(@, c)] => gates' \in [Names -> Seq(Callers)]
<1>1. gates[n] \in Seq(Callers)
  BY DEF TypeOK
<1>2. \A c \in Callers : Append(gates[n], c) \in Seq(Callers)
  BY <1>1
<1>3. gates[n] # <<>> => Tail(gates[n]) \in Seq(Callers)
  BY <1>1
<1> QED  BY <1>2, <1>3 DEF TypeOK, Holder, LeavesGate

----------------------------------------------------------------------------
(* Types *)

LEMMA SendsType ==
  ASSUME TypeOK, NEW m \in Messages, NEW p \in Procs, Sends(m, p)
  PROVE  /\ inputs' \in [Procs -> SUBSET Frames]
         /\ \/ compacting[p] # None /\ Moved(m, "refused", None) /\ inputs' = inputs
            \/ compacting[p] = None /\ Moved(m, "sending", p) /\ inputs' = [inputs EXCEPT ![p] = @ \cup {m}]
<1>1. CASE compacting[p] # None
  BY <1>1, GoesMoves, NamesApart DEF Sends, TypeOK, STEPS
<1>2. CASE compacting[p] = None
  <2>1. inputs' = [inputs EXCEPT ![p] = @ \cup {m}] /\ Moved(m, "sending", p)
    BY <1>2, GoesMoves, NamesApart DEF Sends, STEPS
  <2>2. inputs' \in [Procs -> SUBSET Frames]
    BY <2>1, NamesApart DEF TypeOK
  <2> QED  BY <1>2, <2>1, <2>2
<1> QED  BY <1>1, <1>2

LEMMA MessagesType ==
  ASSUME TypeOK, NEW m \in Messages, Post(m) \/ Find(m)
  PROVE  TypeOK'
<1>1. m \in Callers /\ "native" \in Names
  BY NamesApart DEF Names
<1>2. \A step \in STEPS : Goes(m, step) => Moved(m, step, None)
  BY <1>1, GoesMoves
<1>3. \A p \in Procs, step \in STEPS : GoesWith(m, step, p) => Moved(m, step, p)
  BY <1>1, GoesMoves
<1>4. CASE Post(m)
  BY <1>2, <1>4 DEF Post, TypeOK, Moved, process, adapter, compaction, STEPS
<1>5. CASE Find(m)
  <2>1. CASE \E p \in Named("native") : ~Over(p) /\ Sends(m, p) /\ UNCHANGED gates
    <3>1. PICK p \in Named("native") : ~Over(p) /\ Sends(m, p) /\ UNCHANGED gates
      BY <2>1
    <3>2. p \in Procs
      BY DEF Named, TypeOK
    <3> QED  BY <1>5, <3>1, <3>2, SendsType DEF Find, TypeOK, Moved, compaction
  <2>2. CASE Waiting(m) /\ UNCHANGED inputs
    BY <1>1, <1>2, <1>5, <2>2, GatesType DEF Find, Waiting, TypeOK, Moved, compaction, STEPS
  <2> QED  BY <1>5, <2>1, <2>2 DEF Find
<1> QED  BY <1>4, <1>5

LEMMA OpensType ==
  ASSUME TypeOK, NEW o \in Opens, NEW n \in Names, Ask(o, n)
  PROVE  TypeOK'
<1>1. o \in Callers
  BY NamesApart
<1>2. Moved(o, "gate", None)
  BY <1>1, GoesMoves DEF Ask, STEPS
<1> QED  BY <1>1, <1>2, GatesType DEF Ask, TypeOK, Moved, process, adapter, compaction

LEMMA ReturnsType ==
  ASSUME TypeOK, NEW c \in Callers, NEW n \in Names, NEW p \in Procs, Holder(c, n), Returns(c, n, p)
  PROVE  /\ gates' \in [Names -> Seq(Callers)] /\ record' = p /\ inputs' \in [Procs -> SUBSET Frames]
         /\ \/ c \in Messages /\ compacting[p] # None /\ Moved(c, "refused", None) /\ inputs' = inputs
            \/ /\ c \in Messages /\ compacting[p] = None /\ Moved(c, "sending", p)
               /\ inputs' = [inputs EXCEPT ![p] = @ \cup {c}]
            \/ c = Goal /\ Moved(c, "found", p) /\ inputs' = inputs
            \/ c \in Opens /\ c # Goal /\ Moved(c, "off", None) /\ inputs' = inputs
<1>1. gates' \in [Names -> Seq(Callers)]
  BY GatesType DEF Returns
<1>2. CASE c \in Messages
  BY <1>1, <1>2, SendsType DEF Returns
<1>3. CASE c \notin Messages
  BY <1>1, <1>3, GoesMoves, NamesApart DEF Returns, TypeOK, STEPS, Callers
<1> QED  BY <1>2, <1>3

LEMMA GivesUpType ==
  ASSUME TypeOK, NEW c \in Callers, NEW n \in Names, Holder(c, n), GivesUp(c, n)
  PROVE  /\ gates' \in [Names -> Seq(Callers)]
         /\ Moved(c, IF c \in Messages THEN "refused" ELSE "off", None)
BY GatesType, GoesMoves DEF GivesUp, STEPS

LEMMA OpeningType ==
  ASSUME TypeOK, NEW c \in Callers, Opening(c)
  PROVE  TypeOK'
<1>1. PICK n \in Names : Enter(c, n) \/ CloseEnds(c, n) \/ Launch(c, n) \/ Leave(c, n)
  BY DEF Opening
<1>2. Holder(c, n)
  BY <1>1 DEF Enter, CloseEnds, Launch, Leave
<1>3. GivesUp(c, n) => at' \in [Callers -> STEPS] /\ has' \in [Callers -> Procs \cup {None}] /\ gates' \in [Names -> Seq(Callers)]
  BY <1>2, GivesUpType DEF Moved
<1>4. \A p \in Procs : Returns(c, n, p) =>
        /\ at' \in [Callers -> STEPS] /\ has' \in [Callers -> Procs \cup {None}] /\ gates' \in [Names -> Seq(Callers)]
        /\ record' \in Procs /\ inputs' \in [Procs -> SUBSET Frames]
  BY <1>2, ReturnsType DEF Moved
<1>5. \A p \in Procs : /\ GoesWith(c, "closing", p) => at' \in [Callers -> STEPS] /\ has' \in [Callers -> Procs \cup {None}]
                       /\ GoesWith(c, "leaving", p) => at' \in [Callers -> STEPS] /\ has' \in [Callers -> Procs \cup {None}]
  BY GoesMoves DEF Moved, STEPS
<1>6. Goes(c, "launch") => at' \in [Callers -> STEPS] /\ has' \in [Callers -> Procs \cup {None}]
  BY GoesMoves DEF Moved, STEPS
<1>7. CASE Enter(c, n)
  <2>1. CASE GivesUp(c, n) /\ UNCHANGED <<adapter, record, compaction>>
    BY <1>3, <1>7, <2>1 DEF Enter, TypeOK, adapter, compaction
  <2>2. CASE \E p \in Named(n) : Open(p) /\ Returns(c, n, p) /\ UNCHANGED <<shut, working, compacting, compaction>>
    BY <1>4, <1>7, <2>2 DEF Enter, TypeOK, Named, compaction
  <2>3. ASSUME NEW p \in Named(n), GoesWith(c, "closing", p), shut' = [shut EXCEPT ![p] = IF Over(p) THEN @ ELSE "closed"],
               FinishCompaction(p), UNCHANGED <<working, inputs, record, gates>>
        PROVE  TypeOK'
    <3>1. p \in Procs
      BY DEF Named, TypeOK
    <3>2. Finished(p)
      BY <2>3, <3>1, FinishCompactionEnds
    <3> QED  BY <1>5, <1>7, <2>3, <3>1, <3>2 DEF Enter, TypeOK, Finished
  <2>4. CASE Goes(c, "launch") /\ UNCHANGED <<gates, adapter, record, compaction>>
    BY <1>6, <1>7, <2>4 DEF Enter, TypeOK, adapter, compaction
  <2> QED  BY <1>7, <2>1, <2>2, <2>3, <2>4 DEF Enter
<1>8. CASE CloseEnds(c, n)
  BY <1>3, <1>6, <1>8 DEF CloseEnds, TypeOK, process, adapter, compaction
<1>9. CASE Launch(c, n)
  <2>1. CASE GivesUp(c, n) /\ UNCHANGED <<life, sessions, shut, inputs, record>>
    BY <1>3, <1>9, <2>1 DEF Launch, TypeOK, compaction
  <2>2. ASSUME NEW p \in Procs, life' = [life EXCEPT ![p] = "starting"], sessions' = sessions \cup {p},
               Returns(c, n, p), UNCHANGED shut
        PROVE  TypeOK'
    BY <1>4, <1>9, <2>2 DEF Launch, TypeOK, compaction
  <2>3. ASSUME NEW p \in Procs, life' = [life EXCEPT ![p] = "starting"], sessions' = sessions \cup {p},
               GoesWith(c, "leaving", p), shut' = [shut EXCEPT ![p] = "closed"], UNCHANGED <<inputs, gates, record>>
        PROVE  TypeOK'
    BY <1>5, <1>9, <2>3 DEF Launch, TypeOK, compaction
  <2>4. Fresh # {} => (CHOOSE q \in Fresh : TRUE) \in Procs
    BY DEF Fresh
  <2> QED  BY <1>9, <2>1, <2>2, <2>3, <2>4 DEF Launch
<1>10. CASE Leave(c, n)
  BY <1>3, <1>10 DEF Leave, TypeOK, process, adapter, compaction
<1> QED  BY <1>1, <1>7, <1>8, <1>9, <1>10

LEMMA GoalType ==
  ASSUME TypeOK, GoalStarts \/ GoalOpens \/ GoalSends \/ GoalEnds
  PROVE  TypeOK'
<1>1. \A step \in STEPS : Goes(Goal, step) => Moved(Goal, step, None)
  BY NamesApart, GoesMoves
<1>2. \A p \in Procs, step \in STEPS : GoesWith(Goal, step, p) => Moved(Goal, step, p)
  BY NamesApart, GoesMoves
<1>3. CASE GoalStarts
  BY <1>1, <1>3 DEF GoalStarts, TypeOK, Moved, process, adapter, compaction, STEPS
<1>4. CASE GoalOpens
  <2>1. CASE Goes(Goal, "off") /\ UNCHANGED gates
    BY <1>1, <1>4, <2>1 DEF GoalOpens, TypeOK, Moved, process, adapter, compaction, STEPS
  <2>2. CASE GoesWith(Goal, "found", record) /\ UNCHANGED gates
    BY <1>2, <1>4, <2>2 DEF GoalOpens, TypeOK, Moved, process, adapter, compaction, STEPS
  <2>3. CASE Waiting(Goal)
    <3>1. "native" \in Names
      BY DEF Names
    <3> QED  BY <1>1, <1>4, <2>3, <3>1, NamesApart, GatesType DEF GoalOpens, Waiting, TypeOK, Moved, process, adapter, compaction, STEPS
  <2> QED  BY <1>4, <2>1, <2>2, <2>3 DEF GoalOpens
<1>5. CASE GoalSends
  <2>1. CASE Goes(Goal, "off") /\ UNCHANGED inputs
    BY <1>1, <1>5, <2>1 DEF GoalSends, TypeOK, Moved, compaction, STEPS
  <2>2. CASE GoesWith(Goal, "sending", has[Goal]) /\ has[Goal] \in sessions /\ inputs' = [inputs EXCEPT ![has[Goal]] = @ \cup {Goal}]
    <3>1. inputs' \in [Procs -> SUBSET Frames] /\ has[Goal] \in Procs
      BY <2>2, NamesApart DEF TypeOK
    <3> QED  BY <1>2, <1>5, <2>2, <3>1 DEF GoalSends, TypeOK, Moved, compaction, STEPS
  <2> QED  BY <1>5, <2>1, <2>2 DEF GoalSends
<1>6. CASE GoalEnds
  BY <1>1, <1>6 DEF GoalEnds, TypeOK, Moved, process, adapter, compaction, STEPS
<1> QED  BY <1>3, <1>4, <1>5, <1>6

LEMMA CompactionType ==
  ASSUME TypeOK, NEW r \in Requests, Compact(r) \/ Admit(r) \/ Execute(r)
  PROVE  TypeOK'
<1>1. CASE Compact(r)
  BY <1>1 DEF Compact, TypeOK, process, adapter, caller, OPS
<1>2. CASE Admit(r)
  BY <1>2 DEF Admit, Ends, TypeOK, process, adapter, caller, OPS
<1>3. CASE Execute(r)
  <2>1. CASE Ends(r) /\ UNCHANGED <<compacting, inputs>>
    BY <1>3, <2>1 DEF Execute, Ends, TypeOK, caller, OPS
  <2>2. CASE /\ op' = [op EXCEPT ![r] = "native"] /\ UNCHANGED scope
             /\ compacting' = [compacting EXCEPT ![record] = r]
             /\ inputs' = [inputs EXCEPT ![record] = @ \cup {r}]
    <3>1. inputs' \in [Procs -> SUBSET Frames]
      BY <2>2, NamesApart DEF TypeOK
    <3> QED  BY <1>3, <2>2, <3>1 DEF Execute, TypeOK, caller, OPS
  <2> QED  BY <1>3, <2>1, <2>2 DEF Execute
<1> QED  BY <1>1, <1>2, <1>3

\* A turn's end and a compaction's leave every caller and request its type.
LEMMA EndsType ==
  ASSUME TypeOK, NEW p \in Procs
  PROVE  /\ TurnEnded(p) => at' \in [Callers -> STEPS] /\ has' \in [Callers -> Procs \cup {None}]
         /\ FinishCompaction(p) => /\ compacting' \in [Procs -> Requests \cup {None}]
                                   /\ op' \in [Requests -> OPS] /\ scope' \in [Requests -> Procs \cup {None}]
BY TurnEndedMoves, FinishCompactionEnds DEF Turned, Moved, Finished, TypeOK

LEMMA SendingType ==
  ASSUME TypeOK, NEW p \in Procs, NEW f \in Frames, Sending(p, f)
  PROVE  TypeOK'
<1>1. f \in Messages => f \in Callers
  BY NamesApart
<1>2. \A step \in STEPS :
        /\ Goes(Goal, step) \/ GoesWith(Goal, step, p) \/ (f \in Messages /\ Goes(f, step)) =>
             at' \in [Callers -> STEPS] /\ has' \in [Callers -> Procs \cup {None}]
  <2>1. \A c \in Callers, step \in STEPS : Goes(c, step) \/ GoesWith(c, step, p) =>
          at' \in [Callers -> STEPS] /\ has' \in [Callers -> Procs \cup {None}]
    BY GoesMoves DEF Moved
  <2> QED  BY <1>1, <2>1, NamesApart
<1>3. (IF compacting[p] = f THEN FinishCompaction(p) ELSE UNCHANGED <<compacting, compaction>>) =>
        /\ compacting' \in [Procs -> Requests \cup {None}]
        /\ op' \in [Requests -> OPS] /\ scope' \in [Requests -> Procs \cup {None}]
  BY EndsType DEF compaction, TypeOK
<1>4. CASE Write(p, f)
  <2>1. PICK late \in BOOLEAN :
       /\ CASE f \in Messages -> Goes(f, Written(late))
            [] f = Goal /\ at[Goal] = "sending" /\ has[Goal] = p ->
                 IF late THEN Goes(Goal, "off") ELSE GoesWith(Goal, "turn", p)
            [] OTHER -> UNCHANGED <<at, has>>
       /\ IF late /\ compacting[p] = f THEN FinishCompaction(p) ELSE UNCHANGED <<compacting, compaction>>
    BY <1>4 DEF Write
  <2>2. Written(late) \in STEPS
    BY DEF Written, STEPS
  <2>3. at' \in [Callers -> STEPS] /\ has' \in [Callers -> Procs \cup {None}]
    BY <1>2, <2>1, <2>2, NamesApart DEF TypeOK, STEPS
  <2>4. /\ compacting' \in [Procs -> Requests \cup {None}]
        /\ op' \in [Requests -> OPS] /\ scope' \in [Requests -> Procs \cup {None}]
    BY <2>1, EndsType DEF compaction, TypeOK
  <2>5. inputs' \in [Procs -> SUBSET Frames] /\ wrote' \in [Messages -> Nat]
    BY <1>4 DEF Write, TypeOK
  <2> QED  BY <1>4, <2>3, <2>4, <2>5 DEF Write, TypeOK
<1>5. CASE Refuse(p, f)
  <2>1. at' \in [Callers -> STEPS] /\ has' \in [Callers -> Procs \cup {None}] /\ again' \in [Messages -> BOOLEAN]
    BY <1>2, <1>5 DEF Refuse, TypeOK, STEPS
  <2>2. inputs' \in [Procs -> SUBSET Frames]
    BY <1>5 DEF Refuse, TypeOK
  <2> QED  BY <1>3, <1>5, <2>1, <2>2 DEF Refuse, TypeOK
<1> QED  BY <1>4, <1>5 DEF Sending

LEMMA ProcessType ==
  ASSUME TypeOK, NEW p \in Procs,
         \/ Ready(p) \/ Interrupt(p) \/ Interrupted(p) \/ Fail(p) \/ Breaks(p) \/ Exit(p)
         \/ TurnBegins(p) \/ Result(p) \/ Close(p) \/ Closed(p) \/ LetGo(p)
  PROVE  TypeOK'
<1>1. \A how \in {"failed", "closed", "letgo", shut[p]} : Shut(p, how) =>
        /\ shut' \in [Procs -> {"open", "failed", "closed", "letgo"}] /\ working' \in [Procs -> BOOLEAN]
        /\ compacting' \in [Procs -> Requests \cup {None}] /\ inputs' = inputs
        /\ op' \in [Requests -> OPS] /\ scope' \in [Requests -> Procs \cup {None}]
        /\ at' \in [Callers -> STEPS] /\ has' \in [Callers -> Procs \cup {None}]
  <2>1. SUFFICES ASSUME NEW how \in {"failed", "closed", "letgo", shut[p]}, Shut(p, how)
                 PROVE  /\ shut' \in [Procs -> {"open", "failed", "closed", "letgo"}] /\ working' \in [Procs -> BOOLEAN]
                        /\ inputs' = inputs /\ FinishCompaction(p) /\ TurnEnded(p)
    BY EndsType
  <2>2. how \in {"open", "failed", "closed", "letgo"}
    BY DEF TypeOK
  <2> QED  BY <2>1, <2>2 DEF Shut, TypeOK
<1>2. CASE Ready(p)
  BY <1>2 DEF Ready, TypeOK, adapter, caller, compaction
<1>3. CASE Interrupt(p)
  BY <1>3 DEF Interrupt, TypeOK, caller, compaction
<1>4. CASE Interrupted(p)
  BY <1>4, EndsType DEF Interrupted, TypeOK, compaction
<1>5. CASE Fail(p)
  BY <1>1, <1>5 DEF Fail, TypeOK
<1>6. CASE Breaks(p)
  BY <1>6, EndsType DEF Breaks, TypeOK, compaction
<1>7. CASE Exit(p)
  BY <1>1, <1>7 DEF Exit, TypeOK
<1>8. CASE TurnBegins(p)
  BY <1>8 DEF TurnBegins, TypeOK, caller, compaction
<1>9. CASE Result(p)
  BY <1>9, EndsType DEF Result, TypeOK
<1>10. CASE Close(p) \/ LetGo(p)
  BY <1>1, <1>10 DEF Close, LetGo, TypeOK
<1>11. CASE Closed(p)
  BY <1>11 DEF Closed, TypeOK, process, adapter, caller, compaction
<1> QED  BY <1>2, <1>3, <1>4, <1>5, <1>6, <1>7, <1>8, <1>9, <1>10, <1>11

LEMMA TypeStep ==
  ASSUME TypeOK, [Next]_vars
  PROVE  TypeOK'
<1>1. CASE UNCHANGED vars
  BY <1>1 DEF vars, TypeOK, process, adapter, caller, compaction
<1>2. CASE Next
  BY <1>2, MessagesType, OpensType, OpeningType, GoalType, CompactionType, SendingType, ProcessType DEF Next
<1> QED  BY <1>1, <1>2

LEMMA InitType == Init => TypeOK
BY NamesApart DEF Init, TypeOK, STEPS, OPS

\* Every variable of a conversation keeps its type.
THEOREM TypeCorrect == Spec => []TypeOK
BY InitType, TypeStep, PTL DEF Spec

----------------------------------------------------------------------------
(* Sessions: one that is open has a live process *)

Sessions == \A p \in Procs :
  /\ life[p] = "unused" => p \notin sessions /\ shut[p] = "open"
  /\ p \in sessions /\ Open(p) => Alive(p)

LEMMA ShutEnds ==
  ASSUME TypeOK, NEW p \in Procs, NEW how, Shut(p, how)
  PROVE  /\ shut'[p] = how /\ \A q \in Procs : q # p => shut'[q] = shut[q]
         /\ Finished(p) /\ Turned(p) /\ inputs' = inputs
BY FinishCompactionEnds, TurnEndedMoves DEF Shut, TypeOK

LEMMA OpeningSessions ==
  ASSUME TypeOK, Sessions, NEW c \in Callers, Opening(c)
  PROVE  Sessions'
<1>1. PICK n \in Names : Enter(c, n) \/ CloseEnds(c, n) \/ Launch(c, n) \/ Leave(c, n)
  BY DEF Opening
<1>2. CASE Enter(c, n)
  <2>1. CASE UNCHANGED shut
    BY <1>2, <2>1 DEF Enter, Sessions, Open, Alive
  <2>2. CASE \E p \in Named(n) : ~Open(p) /\ shut' = [shut EXCEPT ![p] = IF Over(p) THEN @ ELSE "closed"]
    BY <1>2, <2>2 DEF Enter, Sessions, Open, Over, Alive, Named, TypeOK
  <2> QED  BY <1>2, <2>1, <2>2 DEF Enter, adapter
<1>3. CASE CloseEnds(c, n) \/ Leave(c, n)
  BY <1>3 DEF CloseEnds, Leave, process, adapter, Sessions, Open, Alive
<1>4. CASE Launch(c, n)
  <2>1. CASE UNCHANGED <<life, sessions, shut>>
    BY <2>1 DEF Sessions, Open, Alive
  <2>2. ASSUME NEW p \in Fresh, life' = [life EXCEPT ![p] = "starting"], sessions' = sessions \cup {p},
               shut' = shut \/ shut' = [shut EXCEPT ![p] = "closed"]
        PROVE  Sessions'
    BY <2>2 DEF Fresh, Sessions, Open, Alive, TypeOK
  <2>3. Fresh # {} => (CHOOSE q \in Fresh : TRUE) \in Fresh
    OBVIOUS
  <2> QED  BY <1>4, <2>1, <2>2, <2>3 DEF Launch
<1> QED  BY <1>1, <1>2, <1>3, <1>4

LEMMA ProcessSessions ==
  ASSUME TypeOK, Sessions, NEW p \in Procs,
         \/ Ready(p) \/ Interrupt(p) \/ Interrupted(p) \/ Fail(p) \/ Breaks(p) \/ Exit(p)
         \/ TurnBegins(p) \/ Result(p) \/ Close(p) \/ Closed(p) \/ LetGo(p)
  PROVE  Sessions'
<1>1. CASE Ready(p)
  BY <1>1 DEF Ready, adapter, Sessions, Open, Alive, TypeOK
<1>2. CASE Interrupt(p) \/ Interrupted(p) \/ TurnBegins(p) \/ Result(p)
  BY <1>2 DEF Interrupt, Interrupted, TurnBegins, Result, Sessions, Open, Alive
<1>3. CASE Fail(p) \/ Breaks(p)
  BY <1>3, ShutEnds DEF Fail, Breaks, Sessions, Open, Alive, TypeOK
<1>4. CASE Exit(p)
  BY <1>4, ShutEnds DEF Exit, Sessions, Open, Alive, TypeOK
<1>5. CASE Close(p) \/ LetGo(p)
  BY <1>5, ShutEnds DEF Close, LetGo, Sessions, Open, Alive, TypeOK
<1>6. CASE Closed(p)
  BY <1>6 DEF Closed, process, adapter, Sessions, Open, Alive
<1> QED  BY <1>1, <1>2, <1>3, <1>4, <1>5, <1>6

LEMMA SessionsStep ==
  ASSUME TypeOK, Sessions, [Next]_vars
  PROVE  Sessions'
<1>1. CASE UNCHANGED <<life, shut, sessions>>
  BY <1>1 DEF Sessions, Open, Alive
<1>2. CASE UNCHANGED vars
  BY <1>1, <1>2 DEF vars, process, adapter
<1>3. ASSUME NEW m \in Messages, Post(m) \/ Find(m)
      PROVE  Sessions'
  BY <1>1, <1>3 DEF Post, Find, process, adapter
<1>4. ASSUME NEW o \in Opens, NEW n \in Names, Ask(o, n)
      PROVE  Sessions'
  BY <1>1, <1>4 DEF Ask, process, adapter
<1>5. CASE GoalStarts \/ GoalOpens \/ GoalSends \/ GoalEnds
  BY <1>1, <1>5 DEF GoalStarts, GoalOpens, GoalSends, GoalEnds, process, adapter
<1>6. ASSUME NEW r \in Requests, Compact(r) \/ Admit(r) \/ Execute(r)
      PROVE  Sessions'
  BY <1>1, <1>6 DEF Compact, Admit, Execute, process, adapter
<1>7. ASSUME NEW p \in Procs, NEW f \in Frames, Sending(p, f)
      PROVE  Sessions'
  BY <1>1, <1>7 DEF Sending, Write, Refuse
<1> QED  BY <1>2, <1>3, <1>4, <1>5, <1>6, <1>7, OpeningSessions, ProcessSessions DEF Next

----------------------------------------------------------------------------
(* Messages: what waits in a session was never written *)

Unwritten == {"off", "find", "gate", "closing", "launch", "sending"}
Posted ==
  /\ \A m \in Messages :
       /\ at[m] \in Unwritten \cup {"sent", "refused"}
       /\ at[m] \in Unwritten => wrote[m] = 0
       /\ at[m] = "sent" => wrote[m] = 1
       /\ wrote[m] <= 1
  /\ \A m \in Messages, p \in Procs : m \in inputs[p] => at[m] = "sending" /\ has[m] = p /\ shut[p] # "letgo"

\* No message moves, and none gets into a session or waits in one that is let go.
Stays(M) ==
  /\ wrote' = wrote /\ \A m \in M : at'[m] = at[m] /\ has'[m] = has[m]
  /\ \A p \in Procs : \A m \in M : m \in inputs'[p] => m \in inputs[p]
  /\ \A p \in Procs : shut'[p] = "letgo" => shut[p] = "letgo" \/ inputs[p] = {}

LEMMA StaysPosted ==
  ASSUME TypeOK, Posted, Stays(Messages)
  PROVE  Posted'
BY DEF Posted, Stays

\* A message moves before it is in any session.
LEMMA MovedPosted ==
  ASSUME TypeOK, Posted, NEW m \in Messages, at[m] \in Unwritten \ {"sending"},
         NEW step \in (Unwritten \ {"sending"}) \cup {"refused"}, Moved(m, step, None) \/ (\E p \in Procs : Moved(m, step, p)),
         Stays(Messages \ {m}), \A p \in Procs : m \in inputs'[p] => m \in inputs[p]
  PROVE  Posted'
<1>1. at'[m] = step /\ \A k \in Messages \ {m} : at'[k] = at[k] /\ has'[k] = has[k]
  BY NamesApart DEF Moved
<1>2. \A p \in Procs : m \notin inputs'[p]
  BY DEF Posted
<1> QED  BY <1>1, <1>2 DEF Posted, Stays, Unwritten

LEMMA SendsPosted ==
  ASSUME TypeOK, Posted, NEW m \in Messages, NEW p \in Procs, at[m] \in Unwritten \ {"sending"}, Sends(m, p),
         wrote' = wrote, \A q \in Procs : shut'[q] = "letgo" => shut[q] = "letgo" /\ q # p
  PROVE  Posted'
<1>1. CASE compacting[p] # None
  BY <1>1, SendsType, MovedPosted, NamesApart DEF Moved, Stays, Unwritten
<1>2. CASE compacting[p] = None
  <2>1. Moved(m, "sending", p) /\ inputs' = [inputs EXCEPT ![p] = @ \cup {m}]
    BY <1>2, SendsType
  <2>2. at'[m] = "sending" /\ has'[m] = p /\ \A k \in Messages \ {m} : at'[k] = at[k] /\ has'[k] = has[k]
    BY <2>1, NamesApart DEF Moved
  <2>3. \A k \in Messages, q \in Procs : k \in inputs'[q] => k \in inputs[q] \/ (k = m /\ q = p)
    BY <2>1 DEF TypeOK
  <2> QED  BY <2>2, <2>3 DEF Posted, Unwritten
<1> QED  BY <1>1, <1>2

LEMMA OpeningPosted ==
  ASSUME TypeOK, Sessions, Posted, NEW c \in Callers, Opening(c)
  PROVE  Posted'
<1>1. PICK n \in Names : Enter(c, n) \/ CloseEnds(c, n) \/ Launch(c, n) \/ Leave(c, n)
  BY DEF Opening
<1>2. Holder(c, n) /\ at[c] \in {"gate", "closing", "launch", "leaving"} /\ wrote' = wrote
  BY <1>1 DEF Enter, CloseEnds, Launch, Leave
<1>3. c \in Messages => at[c] \in Unwritten \ {"sending"}
  BY <1>2 DEF Posted, Unwritten
<1>4. ASSUME NEW step \in STEPS, NEW p \in Procs \cup {None}, Moved(c, step, p), inputs' = inputs,
             c \in Messages => step \in (Unwritten \ {"sending"}) \cup {"refused"},
             \A q \in Procs : shut'[q] = "letgo" => shut[q] = "letgo"
      PROVE  Posted'
  <2>1. Stays(Messages \ {c})
    BY <1>2, <1>4, NamesApart DEF Moved, Stays
  <2>2. CASE c \in Messages
    BY <1>3, <1>4, <2>1, <2>2, MovedPosted
  <2>3. CASE c \notin Messages
    BY <2>1, <2>3, StaysPosted
  <2> QED  BY <2>2, <2>3
<1>5. ASSUME GivesUp(c, n), inputs' = inputs, shut' = shut
      PROVE  Posted'
  BY <1>2, <1>4, <1>5, GivesUpType DEF STEPS, Unwritten
<1>6. ASSUME NEW p \in Procs, Returns(c, n, p), shut' = shut, shut[p] # "letgo"
      PROVE  Posted'
  <2>1. CASE c \in Messages
    BY <1>2, <1>3, <1>6, <2>1, SendsPosted DEF Returns
  <2>2. CASE c \notin Messages
    BY <1>2, <1>4, <1>6, <2>2, ReturnsType DEF STEPS
  <2> QED  BY <2>1, <2>2
<1>7. \A p \in Procs : /\ GoesWith(c, "closing", p) => Moved(c, "closing", p)
                       /\ GoesWith(c, "leaving", p) => Moved(c, "leaving", p)
  BY GoesMoves DEF STEPS
<1>8. Goes(c, "launch") => Moved(c, "launch", None)
  BY GoesMoves DEF STEPS
<1>9. CASE Enter(c, n)
  <2>1. CASE GivesUp(c, n) /\ UNCHANGED <<adapter, record, compaction>>
    BY <1>5, <2>1 DEF adapter
  <2>2. CASE \E p \in Named(n) : Open(p) /\ Returns(c, n, p) /\ UNCHANGED <<shut, working, compacting, compaction>>
    BY <1>6, <2>2 DEF Named, Open, TypeOK
  <2>3. ASSUME NEW p \in Named(n), GoesWith(c, "closing", p), shut' = [shut EXCEPT ![p] = IF Over(p) THEN @ ELSE "closed"],
               inputs' = inputs
        PROVE  Posted'
    BY <1>4, <1>7, <2>3 DEF Named, TypeOK, STEPS, Unwritten
  <2>4. CASE Goes(c, "launch") /\ UNCHANGED <<gates, adapter, record, compaction>>
    BY <1>4, <1>8, <2>4 DEF adapter, STEPS, Unwritten
  <2> QED  BY <1>9, <2>1, <2>2, <2>3, <2>4 DEF Enter
<1>10. CASE CloseEnds(c, n)
  BY <1>4, <1>5, <1>8, <1>10 DEF CloseEnds, process, adapter, STEPS, Unwritten
<1>11. CASE Launch(c, n)
  <2>1. CASE GivesUp(c, n) /\ UNCHANGED <<life, sessions, shut, inputs, record>>
    BY <1>5, <2>1
  <2>2. ASSUME NEW p \in Fresh, Returns(c, n, p), UNCHANGED shut
        PROVE  Posted'
    BY <1>6, <2>2 DEF Fresh, Sessions
  <2>3. ASSUME NEW p \in Fresh, c \notin Messages, GoesWith(c, "leaving", p), shut' = [shut EXCEPT ![p] = "closed"],
               UNCHANGED inputs
        PROVE  Posted'
    BY <1>4, <1>7, <2>3 DEF Fresh, TypeOK, STEPS
  <2>4. Fresh # {} => (CHOOSE q \in Fresh : TRUE) \in Fresh
    OBVIOUS
  <2> QED  BY <1>11, <2>1, <2>2, <2>3, <2>4 DEF Launch
<1>12. CASE Leave(c, n)
  BY <1>5, <1>12 DEF Leave, process, adapter
<1> QED  BY <1>1, <1>9, <1>10, <1>11, <1>12

LEMMA SendingPosted ==
  ASSUME TypeOK, Posted, NEW p \in Procs, NEW f \in Frames, Sending(p, f)
  PROVE  Posted'
<1>1. f \in inputs[p] /\ inputs' = [inputs EXCEPT ![p] = @ \ {f}] /\ shut' = shut
  BY DEF Sending, Write, Refuse
<1>2. \A k \in Messages, q \in Procs : k \in inputs'[q] => k \in inputs[q] /\ (k = f => q # p)
  BY <1>1 DEF TypeOK
<1>3. CASE f \in Messages
  <2>1. at[f] = "sending" /\ has[f] = p /\ wrote[f] = 0
    BY <1>1, <1>3 DEF Posted, Unwritten
  <2>2. \A q \in Procs : f \notin inputs'[q]
    BY <1>2, <1>3, <2>1 DEF Posted
  <2>3. f \in Callers /\ \A step \in STEPS : Goes(f, step) => Moved(f, step, None)
    BY <1>3, NamesApart, GoesMoves
  <2>4. CASE Write(p, f)
    <3>1. PICK late \in BOOLEAN : Goes(f, Written(late))
      BY <1>3, <2>4, NamesApart DEF Write
    <3>2. Written(late) \in {"sent", "refused"} /\ Moved(f, Written(late), None)
      BY <2>3, <3>1 DEF Written, STEPS
    <3>3. wrote' = [wrote EXCEPT ![f] = @ + 1]
      BY <1>3, <2>4 DEF Write
    <3> QED  BY <1>1, <1>2, <1>3, <2>1, <2>2, <3>2, <3>3, NamesApart DEF Posted, Moved, Unwritten, TypeOK
  <2>5. CASE Refuse(p, f)
    <3>1. wrote' = wrote /\ (Moved(f, "find", None) \/ Moved(f, "refused", None))
      BY <1>3, <2>3, <2>5 DEF Refuse, STEPS
    <3> QED  BY <1>1, <1>2, <1>3, <2>1, <2>2, <3>1, NamesApart DEF Posted, Moved, Unwritten
  <2> QED  BY <2>4, <2>5 DEF Sending
<1>4. CASE f \notin Messages
  <2>1. wrote' = wrote
    BY <1>4 DEF Sending, Write, Refuse
  <2>2. UNCHANGED <<at, has>> \/ \E step \in STEPS : Goes(Goal, step) \/ GoesWith(Goal, step, p)
    BY <1>4 DEF Sending, Write, Refuse, STEPS
  <2>3. \A m \in Messages : at'[m] = at[m] /\ has'[m] = has[m]
    BY <2>2, GoesMoves, NamesApart DEF Moved
  <2> QED  BY <1>1, <1>2, <2>1, <2>3, StaysPosted DEF Stays
<1> QED  BY <1>3, <1>4

LEMMA ProcessPosted ==
  ASSUME TypeOK, Posted, NEW p \in Procs,
         \/ Ready(p) \/ Interrupt(p) \/ Interrupted(p) \/ Fail(p) \/ Breaks(p) \/ Exit(p)
         \/ TurnBegins(p) \/ Result(p) \/ Close(p) \/ Closed(p) \/ LetGo(p)
  PROVE  Posted'
<1>1. wrote' = wrote /\ inputs' = inputs
  BY DEF Ready, Interrupt, Interrupted, Fail, Breaks, Exit, TurnBegins, Result, Close, Closed, LetGo, Shut, process, adapter
<1>2. UNCHANGED <<at, has>> \/ TurnEnded(p)
  BY DEF Ready, Interrupt, Interrupted, Fail, Breaks, Exit, TurnBegins, Result, Close, Closed, LetGo, Shut, caller
<1>3. \A m \in Messages : at'[m] = at[m] /\ has'[m] = has[m]
  BY <1>2, TurnEndedMoves, NamesApart DEF Turned, Moved
<1>4. \A q \in Procs : shut'[q] = "letgo" => shut[q] = "letgo" \/ inputs[q] = {}
  <2>1. CASE LetGo(p)
    BY <2>1, ShutEnds DEF LetGo, Idle
  <2>2. CASE shut' = shut
    BY <2>2
  <2>3. CASE Fail(p) \/ Exit(p) \/ Close(p)
    BY <2>3, ShutEnds DEF Fail, Exit, Close, TypeOK
  <2>4. CASE Breaks(p)
    BY <2>4 DEF Breaks, TypeOK
  <2> QED  BY <2>1, <2>2, <2>3, <2>4 DEF Ready, Interrupt, Interrupted, TurnBegins, Result, Closed, process, adapter
<1> QED  BY <1>1, <1>3, <1>4, StaysPosted DEF Stays

LEMMA PostedStep ==
  ASSUME TypeOK, Sessions, Posted, [Next]_vars
  PROVE  Posted'
<1>1. CASE UNCHANGED vars
  BY <1>1, StaysPosted DEF vars, process, adapter, caller, Stays
<1>2. ASSUME NEW m \in Messages, Post(m) \/ Find(m)
      PROVE  Posted'
  <2>1. \A step \in STEPS : Goes(m, step) => Moved(m, step, None)
    BY GoesMoves, NamesApart
  <2>2. wrote' = wrote /\ shut' = shut
    BY <1>2 DEF Post, Find, process, adapter
  <2>3. CASE \E step \in {"find", "gate"} : Goes(m, step) /\ inputs' = inputs
    BY <1>2, <2>1, <2>2, <2>3, MovedPosted, NamesApart DEF Post, Find, Stays, Moved, Unwritten, STEPS
  <2>4. ASSUME NEW p \in Named("native"), ~Over(p), Sends(m, p), Find(m)
        PROVE  Posted'
    BY <2>2, <2>4, SendsPosted DEF Find, Named, Over, TypeOK, Unwritten
  <2> QED  BY <1>2, <2>3, <2>4 DEF Post, Find, Waiting, process, adapter
<1>3. ASSUME NEW o \in Opens, NEW n \in Names, Ask(o, n)
      PROVE  Posted'
  <2>1. o \notin Messages /\ Moved(o, "gate", None)
    BY <1>3, GoesMoves, NamesApart, NamesAssumption DEF Ask, STEPS
  <2> QED  BY <1>3, <2>1, StaysPosted, NamesApart DEF Ask, Stays, Moved, process, adapter
<1>4. CASE GoalStarts \/ GoalOpens \/ GoalSends \/ GoalEnds
  <2>1. shut' = shut /\ wrote' = wrote
    BY <1>4 DEF GoalStarts, GoalOpens, GoalSends, GoalEnds, process, adapter
  <2>2. \E step \in STEPS : Goes(Goal, step) \/ \E p \in Procs : GoesWith(Goal, step, p)
    BY <1>4 DEF GoalStarts, GoalOpens, GoalSends, GoalEnds, Waiting, TypeOK, STEPS
  <2>3. \A m \in Messages : at'[m] = at[m] /\ has'[m] = has[m]
    BY <2>2, GoesMoves, NamesApart DEF Moved
  <2>4. \A m \in Messages, p \in Procs : m \in inputs'[p] => m \in inputs[p]
    BY <1>4, NamesApart DEF GoalStarts, GoalOpens, GoalSends, GoalEnds, process, adapter, TypeOK
  <2> QED  BY <2>1, <2>3, <2>4, StaysPosted DEF Stays
<1>5. ASSUME NEW r \in Requests, Compact(r) \/ Admit(r) \/ Execute(r)
      PROVE  Posted'
  <2>1. /\ shut' = shut /\ wrote' = wrote /\ at' = at /\ has' = has
    BY <1>5 DEF Compact, Admit, Execute, process, adapter, caller
  <2>2. \A m \in Messages, p \in Procs : m \in inputs'[p] => m \in inputs[p]
    <3>1. inputs' = inputs \/ inputs' = [inputs EXCEPT ![record] = @ \cup {r}]
      BY <1>5 DEF Compact, Admit, Execute, process, adapter
    <3>2. r \notin Messages
      BY NamesApart
    <3>3. CASE inputs' = [inputs EXCEPT ![record] = @ \cup {r}]
      <4>1. inputs \in [Procs -> SUBSET Frames]
        BY DEF TypeOK
      <4> QED  BY <3>2, <3>3, <4>1
    <3> QED  BY <3>1, <3>3
  <2> QED  BY <2>1, <2>2, StaysPosted DEF Stays
<1> QED  BY <1>1, <1>2, <1>3, <1>4, <1>5, OpeningPosted, SendingPosted, ProcessPosted DEF Next

----------------------------------------------------------------------------
(* Compactions: apart from each other and from the Goal, held by live work *)

Apart ==
  /\ \A r, s \in Requests : (Holds(r) /\ Holds(s)) => r = s
  /\ CompactionLocked => at[Goal] \in {"off", "locked"}
Work ==
  /\ \A p \in Procs : compacting[p] # None => op[compacting[p]] = "native" /\ Alive(p) /\ ~Over(p)
  /\ \A p, q \in Procs : (compacting[p] # None /\ compacting[q] # None) => p = q
  /\ \A r \in Requests : op[r] = "native" => \E p \in Procs : compacting[p] = r

\* No compaction begins, and the Goal takes the conversation from none.
Falls == \A r \in Requests : op'[r] # "none" => op[r] # "none"
Yields == at'[Goal] = at[Goal] \/ at'[Goal] \in {"off", "locked"} \/ at[Goal] \notin {"off", "locked"} \/ ~CompactionLocked

LEMMA ApartKept ==
  ASSUME Apart, Falls, Yields
  PROVE  Apart'
BY DEF Apart, Falls, Yields, Holds, CompactionLocked

\* What the processes with a compaction are does not change, but for E.
Lives(E) == \A p \in Procs \ E : compacting[p] # None => Alive(p)' /\ ~Over(p)'

LEMMA WorkKept ==
  ASSUME TypeOK, Work, compacting' = compacting, Lives({}), \A r \in Requests : op'[r] = "native" <=> op[r] = "native"
  PROVE  Work'
<1>1. \A p \in Procs : compacting[p] # None => compacting[p] \in Requests
  BY DEF TypeOK
<1> QED  BY <1>1 DEF Work, Lives

LEMMA WorkFinished ==
  ASSUME TypeOK, Work, NEW p \in Procs, Finished(p), Lives({p})
  PROVE  Work' /\ Falls
<1>1. \A q \in Procs : compacting[q] # None => compacting[q] \in Requests
  BY DEF TypeOK
<1>2. Falls
  BY DEF Finished, Falls
<1>3. ASSUME NEW q \in Procs, compacting'[q] # None
      PROVE  q # p /\ compacting'[q] = compacting[q] /\ compacting[p] = None /\ op'[compacting[q]] = "native"
  BY <1>1, <1>3 DEF Finished, Work
<1>4. ASSUME NEW r \in Requests, op'[r] = "native"
      PROVE  \E q \in Procs : compacting'[q] = r
  BY <1>4 DEF Finished, Work
<1> QED  BY <1>2, <1>3, <1>4 DEF Work, Lives

LEMMA OpeningWork ==
  ASSUME TypeOK, Sessions, Apart, Work, NEW c \in Callers, Opening(c)
  PROVE  Apart' /\ Work'
<1>1. PICK n \in Names : Enter(c, n) \/ CloseEnds(c, n) \/ Launch(c, n) \/ Leave(c, n)
  BY DEF Opening
<1>2. \E step \in STEPS : at[c] \notin {"off", "locked"} /\ (Goes(c, step) \/ \E p \in Procs : GoesWith(c, step, p))
  <2>1. at[c] \notin {"off", "locked"}
    BY <1>1 DEF Enter, CloseEnds, Launch, Leave
  <2>2. \A p \in Procs : Returns(c, n, p) => \E step \in STEPS : Goes(c, step) \/ GoesWith(c, step, p)
    BY DEF Returns, Sends, STEPS
  <2>3. GivesUp(c, n) => \E step \in STEPS : Goes(c, step)
    BY DEF GivesUp, STEPS
  <2>4. \E step \in STEPS : Goes(c, step) \/ \E p \in Procs : GoesWith(c, step, p)
    <3>1. CASE Enter(c, n)
      BY <2>2, <2>3, <3>1 DEF Enter, Named, TypeOK, STEPS
    <3>2. CASE CloseEnds(c, n) \/ Leave(c, n)
      BY <2>3, <3>2 DEF CloseEnds, Leave, STEPS
    <3>3. CASE Launch(c, n)
      BY <2>2, <2>3, <3>3 DEF Launch, Fresh, STEPS
    <3> QED  BY <1>1, <3>1, <3>2, <3>3
  <2> QED  BY <2>1, <2>4
<1>3. Yields
  BY <1>2, GoesMoves, NamesApart DEF Yields, Moved
<1>4. ASSUME UNCHANGED <<compacting, op>>, \A p \in Procs : life'[p] = life[p] \/ life[p] = "unused",
             \A p \in Procs : shut'[p] = shut[p] \/ life[p] = "unused"
      PROVE  Apart' /\ Work'
  <2>1. \A p \in Procs : compacting[p] # None => life[p] # "unused"
    BY DEF Work, Alive
  <2>2. Lives({})
    BY <1>4, <2>1 DEF Lives, Work, Alive, Over
  <2> QED  BY <1>3, <1>4, <2>2, ApartKept, WorkKept DEF Falls
<1>5. CASE Enter(c, n)
  <2>1. CASE UNCHANGED <<shut, compacting, compaction>>
    BY <1>4, <1>5, <2>1 DEF Enter, compaction
  <2>2. ASSUME NEW p \in Named(n), shut' = [shut EXCEPT ![p] = IF Over(p) THEN @ ELSE "closed"], FinishCompaction(p)
        PROVE  Apart' /\ Work'
    <3>1. p \in Procs
      BY DEF Named, TypeOK
    <3>2. Lives({p})
      BY <1>5, <2>2, <3>1 DEF Enter, Lives, Work, Alive, Over, TypeOK
    <3> QED  BY <1>3, <2>2, <3>1, <3>2, FinishCompactionEnds, WorkFinished, ApartKept
  <2> QED  BY <1>5, <2>1, <2>2 DEF Enter, adapter
<1>6. CASE CloseEnds(c, n) \/ Leave(c, n)
  BY <1>4, <1>6 DEF CloseEnds, Leave, process, adapter, compaction
<1>7. CASE Launch(c, n)
  <2>1. Fresh # {} => (CHOOSE q \in Fresh : TRUE) \in Fresh
    OBVIOUS
  <2> QED  BY <1>4, <1>7, <2>1 DEF Launch, Fresh, compaction, TypeOK
<1> QED  BY <1>1, <1>5, <1>6, <1>7

LEMMA GoalWork ==
  ASSUME TypeOK, Apart, Work, GoalStarts \/ GoalOpens \/ GoalSends \/ GoalEnds
  PROVE  Apart' /\ Work'
<1>1. UNCHANGED <<compacting, op, life, shut>>
  BY DEF GoalStarts, GoalOpens, GoalSends, GoalEnds, process, adapter, compaction
<1>2. Yields
  BY GoesMoves, NamesApart DEF GoalStarts, GoalOpens, GoalSends, GoalEnds, Yields, Moved, STEPS
<1> QED  BY <1>1, <1>2, ApartKept, WorkKept DEF Falls, Lives, Work, Alive, Over

LEMMA CompactionWork ==
  ASSUME TypeOK, Sessions, Apart, Work, NEW r \in Requests, Compact(r) \/ Admit(r) \/ Execute(r)
  PROVE  Apart' /\ Work'
<1>1. UNCHANGED <<at, has, life, shut>>
  BY DEF Compact, Admit, Execute, process, adapter, caller
<1>2. Yields
  BY <1>1 DEF Yields
<1>3. CASE compacting' = compacting /\ \E o \in OPS \ {"native"} : op[r] \in {"asked", "accepted"} /\ op' = [op EXCEPT ![r] = o]
  BY <1>1, <1>2, <1>3, ApartKept, WorkKept DEF Falls, Lives, Work, Alive, Over, TypeOK
<1>4. CASE Compact(r)
  <2>1. compacting' = compacting /\ op' = [op EXCEPT ![r] = "asked"] /\ op[r] = "none" /\ ~CompactionLocked /\ at[Goal] = "off"
    BY <1>4 DEF Compact, process, adapter, GoalLocked
  <2>2. Apart'
    BY <1>1, <2>1 DEF Apart, CompactionLocked, Holds, TypeOK
  <2>3. Work'
    BY <1>1, <2>1, WorkKept DEF Lives, Work, Alive, Over, TypeOK
  <2> QED  BY <2>2, <2>3
<1>5. CASE Admit(r)
  BY <1>3, <1>5 DEF Admit, Ends, process, adapter, OPS
<1>6. CASE Execute(r)
  <2>1. CASE Ends(r) /\ UNCHANGED compacting
    BY <1>3, <1>6, <2>1 DEF Execute, Ends, OPS
  <2>2. CASE Allowed(r) /\ op' = [op EXCEPT ![r] = "native"] /\ compacting' = [compacting EXCEPT ![record] = r]
    <3>1. op[r] = "accepted" /\ record \in Procs /\ record \in sessions /\ Open(record)
      BY <1>6, <2>2 DEF Execute, Allowed, Able, TypeOK
    <3>2. Alive(record) /\ ~Over(record)
      BY <3>1 DEF Sessions, Open, Over
    <3>3. \A p \in Procs : compacting[p] = None
      <4>1. \A p \in Procs : compacting[p] # None => compacting[p] \in Requests /\ op[compacting[p]] = "native"
        BY DEF Work, TypeOK
      <4> QED  BY <3>1, <4>1 DEF Apart, Holds
    <3>4. \A s \in Requests : op[s] # "native"
      BY <3>3, NamesApart DEF Work
    <3>5. Work'
      BY <1>1, <2>2, <3>1, <3>2, <3>3, <3>4, NamesApart DEF Work, Alive, Over, TypeOK
    <3>6. Falls
      BY <2>2, <3>1 DEF Falls, TypeOK
    <3> QED  BY <1>2, <3>5, <3>6, ApartKept
  <2> QED  BY <1>6, <2>1, <2>2 DEF Execute
<1> QED  BY <1>4, <1>5, <1>6

LEMMA SendingWork ==
  ASSUME TypeOK, Posted, Apart, Work, NEW p \in Procs, NEW f \in Frames, Sending(p, f)
  PROVE  Apart' /\ Work'
<1>1. UNCHANGED <<life, shut>>
  BY DEF Sending, Write, Refuse
<1>2. \/ UNCHANGED <<at, has>>
      \/ \E m \in Messages, step \in STEPS : Goes(m, step)
      \/ at[Goal] = "sending" /\ \E step \in STEPS : Goes(Goal, step) \/ GoesWith(Goal, step, p)
  BY DEF Sending, Write, Refuse, Written, STEPS
<1>3. Yields
  BY <1>2, GoesMoves, NamesApart DEF Yields, Moved
<1>4. CASE FinishCompaction(p)
  <2>1. Lives({p})
    BY <1>1 DEF Lives, Work, Alive, Over
  <2> QED  BY <1>3, <1>4, <2>1, FinishCompactionEnds, WorkFinished, ApartKept
<1>5. CASE UNCHANGED <<compacting, compaction>>
  BY <1>1, <1>3, <1>5, ApartKept, WorkKept DEF compaction, Falls, Lives, Work, Alive, Over
<1>6. FinishCompaction(p) \/ UNCHANGED <<compacting, compaction>>
  BY DEF Sending, Write, Refuse
<1> QED  BY <1>4, <1>5, <1>6

LEMMA ProcessWork ==
  ASSUME TypeOK, Apart, Work, NEW p \in Procs,
         \/ Ready(p) \/ Interrupt(p) \/ Interrupted(p) \/ Fail(p) \/ Breaks(p) \/ Exit(p)
         \/ TurnBegins(p) \/ Result(p) \/ Close(p) \/ Closed(p) \/ LetGo(p)
  PROVE  Apart' /\ Work'
<1>1. UNCHANGED <<at, has>> \/ TurnEnded(p)
  BY DEF Ready, Interrupt, Interrupted, Fail, Breaks, Exit, TurnBegins, Result, Close, Closed, LetGo, Shut, caller
<1>2. Yields
  BY <1>1, TurnEndedMoves, NamesApart DEF Turned, Waits, Moved, Yields
<1>3. \A q \in Procs \ {p} : life'[q] = life[q] /\ shut'[q] = shut[q]
  BY DEF Ready, Interrupt, Interrupted, Fail, Breaks, Exit, TurnBegins, Result, Close, Closed, LetGo, Shut, process, adapter, TypeOK
<1>4. CASE FinishCompaction(p)
  <2>1. Lives({p})
    BY <1>3 DEF Lives, Work, Alive, Over
  <2> QED  BY <1>2, <1>4, <2>1, FinishCompactionEnds, WorkFinished, ApartKept
<1>5. CASE UNCHANGED <<compacting, compaction>>
  <2>1. compacting[p] # None => Alive(p)' /\ ~Over(p)'
    <3>1. CASE Ready(p)
      BY <3>1 DEF Ready, adapter, Work, Alive, Over, TypeOK
    <3>2. CASE Breaks(p)
      BY <3>2 DEF Breaks, Work, Alive, Over, TypeOK
    <3>3. CASE Interrupt(p) \/ Interrupted(p) \/ TurnBegins(p) \/ Result(p) \/ Closed(p)
      BY <3>3 DEF Interrupt, Interrupted, TurnBegins, Result, Closed, process, adapter, Work, Alive, Over
    <3>4. CASE Fail(p) \/ Exit(p) \/ Close(p) \/ LetGo(p)
      <4>1. compacting[p] = None
        BY <1>5, <3>4, FinishCompactionEnds DEF Fail, Exit, Close, LetGo, Shut, Finished
      <4> QED  BY <4>1
    <3> QED  BY <3>1, <3>2, <3>3, <3>4
  <2>2. Lives({})
    BY <1>3, <2>1 DEF Lives, Work, Alive, Over
  <2> QED  BY <1>2, <1>5, <2>2, ApartKept, WorkKept DEF compaction, Falls
<1>6. FinishCompaction(p) \/ UNCHANGED <<compacting, compaction>>
  BY DEF Ready, Interrupt, Interrupted, Fail, Breaks, Exit, TurnBegins, Result, Close, Closed, LetGo, Shut, process, adapter
<1> QED  BY <1>4, <1>5, <1>6

LEMMA WorkStep ==
  ASSUME TypeOK, Sessions, Posted, Apart, Work, [Next]_vars
  PROVE  Apart' /\ Work'
<1>1. ASSUME UNCHANGED <<compacting, op, life, shut>>, at'[Goal] = at[Goal]
      PROVE  Apart' /\ Work'
  BY <1>1, ApartKept, WorkKept DEF Falls, Yields, Lives, Work, Alive, Over
<1>2. CASE UNCHANGED vars
  BY <1>1, <1>2 DEF vars, process, adapter, caller, compaction
<1>3. ASSUME NEW c \in Callers \ {Goal}, UNCHANGED <<compacting, op, life, shut>>,
             \E step \in STEPS : Goes(c, step) \/ \E p \in Procs : GoesWith(c, step, p)
      PROVE  Apart' /\ Work'
  BY <1>1, <1>3, GoesMoves, NamesApart DEF Moved
<1>4. ASSUME NEW m \in Messages, Post(m) \/ Find(m)
      PROVE  Apart' /\ Work'
  <2>1. UNCHANGED <<compacting, op, life, shut>>
    BY <1>4 DEF Post, Find, process, adapter, compaction
  <2>2. \E step \in STEPS : Goes(m, step) \/ \E p \in Procs : GoesWith(m, step, p)
    BY <1>4 DEF Post, Find, Waiting, Sends, Named, TypeOK, STEPS
  <2> QED  BY <1>3, <2>1, <2>2, NamesApart
<1>5. ASSUME NEW o \in Opens, NEW n \in Names, Ask(o, n)
      PROVE  Apart' /\ Work'
  BY <1>3, <1>5, NamesApart, NamesAssumption DEF Ask, process, adapter, compaction, STEPS
<1> QED  BY <1>2, <1>4, <1>5, OpeningWork, GoalWork, CompactionWork, SendingWork, ProcessWork DEF Next

----------------------------------------------------------------------------
(* The Goal's process, and one process at a time *)

\* GoalKeepsProcess, with the Goal's process named.
GoalKept == at[Goal] \in {"found", "sending", "turn"} =>
  has[Goal] \in Procs /\ (~Desktop => shut[has[Goal]] # "letgo")

\* Under one gate only its holder opens, and it starts a process when none is left.
Inside(c) == gates["native"] # <<>> /\ Head(gates["native"]) = c
Gate ==
  /\ \A p, q \in sessions : p = q
  /\ \A p \in Procs : Alive(p) => p \in sessions
  /\ \A c \in Callers :
       /\ at[c] \in {"closing", "launch", "leaving"} => Inside(c)
       /\ at[c] = "closing" => sessions \subseteq {has[c]}
       /\ at[c] = "launch" => sessions = {}

\* No process starts, an ended one may be forgotten, nobody gets into the gate.
Outside ==
  /\ sessions' \subseteq sessions
  /\ \A p \in Procs : Alive(p)' => Alive(p) /\ (p \in sessions => p \in sessions')
  /\ \A c \in Callers : at'[c] \in {"closing", "launch", "leaving"} => at'[c] = at[c] /\ has'[c] = has[c]
  /\ \/ gates' = gates
     \/ \E n \in Names, c \in Callers : gates' = [gates EXCEPT ![n] = Append(@, c)]

LEMMA OutsideGate ==
  ASSUME TypeOK, Gate, Outside
  PROVE  Gate'
<1>1. \A c \in Callers : Inside(c) => Inside(c)'
  <2>1. CASE gates' = gates
    BY <2>1 DEF Inside
  <2>2. ASSUME NEW n \in Names, NEW d \in Callers, gates' = [gates EXCEPT ![n] = Append(@, d)]
        PROVE  \A c \in Callers : Inside(c) => Inside(c)'
    <3>1. gates["native"] \in Seq(Callers) /\ "native" \in Names
      BY DEF TypeOK, Names
    <3>2. gates'["native"] = gates["native"] \/ gates'["native"] = Append(gates["native"], d)
      BY <2>2, <3>1 DEF TypeOK
    <3>3. gates["native"] # <<>> => /\ Append(gates["native"], d) # <<>>
                                    /\ Head(Append(gates["native"], d)) = Head(gates["native"])
      BY <3>1
    <3> QED  BY <3>2, <3>3 DEF Inside
  <2> QED  BY <2>1, <2>2 DEF Outside
<1> QED  BY <1>1 DEF Gate, Outside

LEMMA OpeningGate ==
  ASSUME TypeOK, Sessions, Gate, ~LocalNames, NEW c \in Callers, Opening(c)
  PROVE  Gate'
<1>1. PICK n \in Names : Enter(c, n) \/ CloseEnds(c, n) \/ Launch(c, n) \/ Leave(c, n)
  BY DEF Opening
<1>2. n = "native" /\ Named(n) = sessions /\ Inside(c)
  BY <1>1 DEF Names, Named, Enter, CloseEnds, Launch, Leave, Holder, Inside
<1>3. \A d \in Callers \ {c} : at[d] \notin {"closing", "launch", "leaving"}
  BY <1>2 DEF Gate, Inside
<1>4. ASSUME NEW step \in STEPS \ {"closing", "launch", "leaving"}, NEW p \in Procs \cup {None}, Moved(c, step, p),
             sessions' \subseteq sessions, \A q \in Procs : Alive(q)' => Alive(q) /\ (q \in sessions => q \in sessions')
      PROVE  Gate'
  BY <1>3, <1>4 DEF Gate, Moved
<1>5. GivesUp(c, n) => \E step \in STEPS \ {"closing", "launch", "leaving"} : Moved(c, step, None)
  BY <1>1, GivesUpType DEF Enter, CloseEnds, Launch, Leave, STEPS
<1>6. \A p \in Procs : Returns(c, n, p) =>
        \E step \in STEPS \ {"closing", "launch", "leaving"}, q \in Procs \cup {None} : Moved(c, step, q)
  BY <1>1, ReturnsType DEF Enter, CloseEnds, Launch, Leave, STEPS
<1>7. CASE Enter(c, n)
  <2>1. CASE GivesUp(c, n) /\ UNCHANGED <<adapter, record, compaction>>
    BY <1>4, <1>5, <1>7, <2>1 DEF Enter, adapter, Alive
  <2>2. CASE \E p \in Named(n) : Open(p) /\ Returns(c, n, p) /\ UNCHANGED <<shut, working, compacting, compaction>>
    BY <1>4, <1>6, <1>7, <2>2 DEF Enter, Named, TypeOK, Alive
  <2>3. ASSUME NEW p \in Named(n), GoesWith(c, "closing", p), UNCHANGED gates
        PROVE  Gate'
    <3>1. p \in sessions /\ Moved(c, "closing", p)
      BY <1>2, <2>3, GoesMoves DEF TypeOK, STEPS
    <3> QED  BY <1>2, <1>3, <1>7, <2>3, <3>1 DEF Enter, Gate, Moved, Alive, Inside
  <2>4. CASE Named(n) = {} /\ Goes(c, "launch") /\ UNCHANGED gates
    <3>1. Moved(c, "launch", None)
      BY <2>4, GoesMoves DEF STEPS
    <3> QED  BY <1>2, <1>3, <1>7, <2>4, <3>1 DEF Enter, Gate, Moved, Alive, Inside
  <2> QED  BY <1>2, <1>7, <2>1, <2>2, <2>3, <2>4 DEF Enter
<1>8. CASE CloseEnds(c, n)
  <2>1. CASE GivesUp(c, n) /\ UNCHANGED sessions
    BY <1>4, <1>5, <1>8, <2>1 DEF CloseEnds, process, Alive
  <2>2. CASE life[has[c]] = "ended" /\ sessions' = sessions \ {has[c]} /\ Goes(c, "launch") /\ UNCHANGED gates
    <3>1. Moved(c, "launch", None)
      BY <2>2, GoesMoves DEF STEPS
    <3>2. sessions' = {}
      BY <1>8, <2>2 DEF CloseEnds, Gate
    <3>3. \A q \in Procs : ~Alive(q)'
      BY <1>8, <2>2 DEF CloseEnds, process, Gate, Alive
    <3> QED  BY <1>2, <1>3, <2>2, <3>1, <3>2, <3>3 DEF Gate, Moved, Inside
  <2> QED  BY <1>8, <2>1, <2>2 DEF CloseEnds
<1>9. CASE Launch(c, n)
  <2>0. sessions = {} /\ \A q \in Procs : ~Alive(q)
    BY <1>9 DEF Launch, Gate
  <2>1. CASE GivesUp(c, n) /\ UNCHANGED <<life, sessions, shut, inputs, record>>
    BY <1>4, <1>5, <2>1 DEF Alive
  <2>2. ASSUME NEW p \in Procs, life' = [life EXCEPT ![p] = "starting"], sessions' = sessions \cup {p},
               \/ Returns(c, n, p)
               \/ GoesWith(c, "leaving", p) /\ UNCHANGED gates
        PROVE  Gate'
    <3>1. sessions' = {p} /\ \A q \in Procs : Alive(q)' => q = p
      BY <2>0, <2>2 DEF Alive, TypeOK
    <3>2. CASE Returns(c, n, p)
      BY <1>3, <1>6, <3>1, <3>2 DEF Gate, Moved
    <3>3. CASE GoesWith(c, "leaving", p) /\ UNCHANGED gates
      <4>1. Moved(c, "leaving", p)
        BY <3>3, GoesMoves DEF STEPS
      <4> QED  BY <1>2, <1>3, <3>1, <3>3, <4>1 DEF Gate, Moved, Inside
    <3> QED  BY <2>2, <3>2, <3>3
  <2>3. Fresh # {} => (CHOOSE q \in Fresh : TRUE) \in Procs
    BY DEF Fresh
  <2> QED  BY <1>9, <2>1, <2>2, <2>3 DEF Launch
<1>10. CASE Leave(c, n)
  <2>1. GivesUp(c, n) /\ life' = life
    BY <1>10 DEF Leave, process
  <2>2. sessions' = IF life[has[c]] = "ended" THEN sessions \ {has[c]} ELSE sessions
    BY <1>10 DEF Leave
  <2> QED  BY <1>4, <1>5, <2>1, <2>2 DEF Alive
<1> QED  BY <1>1, <1>7, <1>8, <1>9, <1>10

LEMMA GateStep ==
  ASSUME TypeOK, Sessions, Gate, ~LocalNames, [Next]_vars
  PROVE  Gate'
<1>1. \A c \in Callers, step \in STEPS \ {"closing", "launch", "leaving"} :
        Goes(c, step) \/ (\E p \in Procs : GoesWith(c, step, p)) =>
          \A d \in Callers : at'[d] \in {"closing", "launch", "leaving"} => at'[d] = at[d] /\ has'[d] = has[d]
  BY GoesMoves DEF Moved
<1>2. \A p \in Procs : TurnEnded(p) =>
        \A d \in Callers : at'[d] \in {"closing", "launch", "leaving"} => at'[d] = at[d] /\ has'[d] = has[d]
  BY TurnEndedMoves DEF Turned, Moved
<1>3. "native" \in Names
  BY DEF Names
<1>4. CASE UNCHANGED vars
  BY <1>4, OutsideGate DEF vars, process, caller, Outside, Alive
<1>5. ASSUME NEW m \in Messages, Post(m) \/ Find(m)
      PROVE  Gate'
  <2>1. \E step \in STEPS \ {"closing", "launch", "leaving"} : Goes(m, step) \/ \E p \in Procs : GoesWith(m, step, p)
    BY <1>5 DEF Post, Find, Waiting, Sends, Named, TypeOK, STEPS
  <2>2. gates' = gates \/ gates' = [gates EXCEPT !["native"] = Append(@, m)]
    BY <1>5 DEF Post, Find, Waiting
  <2>3. UNCHANGED <<life, sessions>>
    BY <1>5 DEF Post, Find, process
  <2> QED  BY <1>1, <1>3, <2>1, <2>2, <2>3, OutsideGate, NamesApart DEF Outside, Alive
<1>6. ASSUME NEW o \in Opens, NEW n \in Names, Ask(o, n)
      PROVE  Gate'
  BY <1>1, <1>6, OutsideGate, NamesApart DEF Ask, process, Outside, Alive, STEPS
<1>7. CASE GoalStarts \/ GoalOpens \/ GoalSends \/ GoalEnds
  <2>1. \E step \in STEPS \ {"closing", "launch", "leaving"} : Goes(Goal, step) \/ \E p \in Procs : GoesWith(Goal, step, p)
    BY <1>7 DEF GoalStarts, GoalOpens, GoalSends, GoalEnds, Waiting, TypeOK, STEPS
  <2>2. gates' = gates \/ gates' = [gates EXCEPT !["native"] = Append(@, Goal)]
    BY <1>7 DEF GoalStarts, GoalOpens, GoalSends, GoalEnds, Waiting
  <2>3. UNCHANGED <<life, sessions>>
    BY <1>7 DEF GoalStarts, GoalOpens, GoalSends, GoalEnds, process
  <2> QED  BY <1>1, <1>3, <2>1, <2>2, <2>3, OutsideGate, NamesApart DEF Outside, Alive
<1>8. ASSUME NEW r \in Requests, Compact(r) \/ Admit(r) \/ Execute(r)
      PROVE  Gate'
  BY <1>8, OutsideGate DEF Compact, Admit, Execute, process, caller, Outside, Alive
<1>9. ASSUME NEW p \in Procs, NEW f \in Frames, Sending(p, f)
      PROVE  Gate'
  <2>1. \/ UNCHANGED <<at, has>>
        \/ \E c \in Callers, step \in STEPS \ {"closing", "launch", "leaving"} : Goes(c, step) \/ GoesWith(c, step, p)
    BY <1>9, NamesApart DEF Sending, Write, Refuse, Written, STEPS
  <2> QED  BY <1>1, <1>9, <2>1, OutsideGate DEF Sending, Write, Refuse, Outside, Alive
<1>10. ASSUME NEW p \in Procs,
              \/ Ready(p) \/ Interrupt(p) \/ Interrupted(p) \/ Fail(p) \/ Breaks(p) \/ Exit(p)
              \/ TurnBegins(p) \/ Result(p) \/ Close(p) \/ Closed(p) \/ LetGo(p)
       PROVE  Gate'
  <2>1. UNCHANGED <<at, has>> \/ TurnEnded(p)
    BY <1>10 DEF Ready, Interrupt, Interrupted, Fail, Breaks, Exit, TurnBegins, Result, Close, Closed, LetGo, Shut, caller
  <2>2. gates' = gates
    BY <1>10 DEF Ready, Interrupt, Interrupted, Fail, Breaks, Exit, TurnBegins, Result, Close, Closed, LetGo
  <2>3. sessions' = sessions \/ (sessions' = sessions \ {p} /\ ~Alive(p) /\ life' = life)
    BY <1>10 DEF Ready, Interrupt, Interrupted, Fail, Breaks, Exit, TurnBegins, Result, Close, Closed, LetGo, process, Alive
  <2>4. life' = life \/ (Alive(p) /\ \A q \in Procs \ {p} : life'[q] = life[q])
    BY <1>10 DEF Ready, Interrupt, Interrupted, Fail, Breaks, Exit, TurnBegins, Result, Close, Closed, LetGo, process, Alive, TypeOK
  <2> QED  BY <1>2, <2>1, <2>2, <2>3, <2>4, OutsideGate DEF Outside, Alive
<1> QED  BY <1>4, <1>5, <1>6, <1>7, <1>8, <1>9, <1>10, OpeningGate DEF Next

\* The Goal stays with its process, and no process is let go from under it.
Through(step) == step \in {"found", "sending", "turn"}
Stay ==
  /\ Through(at'[Goal]) => Through(at[Goal]) /\ has'[Goal] = has[Goal]
  /\ \A p \in Procs : shut'[p] = "letgo" => shut[p] = "letgo" \/ Desktop \/ ~Through(at[Goal])

LEMMA StayKept ==
  ASSUME TypeOK, GoalKept, Stay
  PROVE  GoalKept'
BY DEF GoalKept, Stay, Through

LEMMA OpeningKept ==
  ASSUME TypeOK, Sessions, GoalKept, NEW c \in Callers, Opening(c)
  PROVE  GoalKept'
<1>1. PICK n \in Names : Enter(c, n) \/ CloseEnds(c, n) \/ Launch(c, n) \/ Leave(c, n)
  BY DEF Opening
<1>2. \A p \in Procs : shut'[p] = "letgo" => shut[p] = "letgo"
  BY <1>1 DEF Enter, CloseEnds, Launch, Leave, GivesUp, Named, Fresh, process, adapter, TypeOK
<1>3. ASSUME NEW step \in STEPS, ~Through(step), NEW p \in Procs \cup {None}, Moved(c, step, p)
      PROVE  GoalKept'
  BY <1>2, <1>3, StayKept, NamesApart DEF Stay, Moved, Through
<1>4. \A step \in STEPS : Goes(c, step) => Moved(c, step, None)
  BY GoesMoves
<1>5. GivesUp(c, n) => GoalKept'
  BY <1>3, <1>4 DEF GivesUp, Through, STEPS
<1>6. ASSUME NEW p \in Procs, Returns(c, n, p), shut'[p] # "letgo"
      PROVE  GoalKept'
  <2>1. Holder(c, n)
    BY <1>1 DEF Enter, CloseEnds, Launch, Leave
  <2>2. CASE c = Goal
    <3>1. Moved(Goal, "found", p)
      BY <1>6, <2>1, <2>2, ReturnsType, NamesApart
    <3> QED  BY <1>6, <3>1 DEF GoalKept, Moved
  <2>3. CASE c # Goal
    <3>1. \E step \in STEPS, q \in Procs \cup {None} : Moved(c, step, q)
      BY <1>6, <2>1, ReturnsType DEF STEPS
    <3> QED  BY <1>2, <2>3, <3>1, StayKept, NamesApart DEF Stay, Moved
  <2> QED  BY <2>2, <2>3
<1>7. \A p \in Procs, step \in STEPS : GoesWith(c, step, p) => Moved(c, step, p)
  BY GoesMoves
<1>8. CASE Enter(c, n)
  <2>1. CASE \E p \in Named(n) : Open(p) /\ Returns(c, n, p) /\ UNCHANGED <<shut, working, compacting, compaction>>
    BY <1>6, <2>1 DEF Named, Open, TypeOK
  <2>2. CASE \E p \in Named(n) : GoesWith(c, "closing", p)
    BY <1>3, <1>7, <2>2 DEF Named, Through, TypeOK, STEPS
  <2>3. CASE Goes(c, "launch")
    BY <1>3, <1>4, <2>3 DEF Through, STEPS
  <2> QED  BY <1>5, <1>8, <2>1, <2>2, <2>3 DEF Enter
<1>9. CASE CloseEnds(c, n) \/ Leave(c, n)
  BY <1>3, <1>4, <1>5, <1>9 DEF CloseEnds, Leave, Through, STEPS
<1>10. CASE Launch(c, n)
  <2>1. ASSUME NEW p \in Fresh, Returns(c, n, p), UNCHANGED shut
        PROVE  GoalKept'
    <3>1. p \in Procs /\ shut'[p] # "letgo"
      BY <2>1 DEF Fresh, Sessions
    <3> QED  BY <1>6, <2>1, <3>1
  <2>2. ASSUME NEW p \in Fresh, GoesWith(c, "leaving", p)
        PROVE  GoalKept'
    BY <1>3, <1>7, <2>2 DEF Fresh, Through, STEPS
  <2> QED  BY <1>5, <1>10, <2>1, <2>2 DEF Launch
<1> QED  BY <1>1, <1>8, <1>9, <1>10

LEMMA GoalKeptStep ==
  ASSUME TypeOK, Sessions, GoalKept, [Next]_vars
  PROVE  GoalKept'
<1>1. ASSUME UNCHANGED shut, UNCHANGED <<at, has>> \/ \E c \in Callers \ {Goal}, step \in STEPS :
               Goes(c, step) \/ \E p \in Procs : GoesWith(c, step, p)
      PROVE  GoalKept'
  BY <1>1, GoesMoves, StayKept, NamesApart DEF Moved, Stay
<1>2. CASE UNCHANGED vars
  BY <1>1, <1>2 DEF vars, process, adapter, caller
<1>3. ASSUME NEW m \in Messages, Post(m) \/ Find(m)
      PROVE  GoalKept'
  <2>1. UNCHANGED shut
    BY <1>3 DEF Post, Find, process, adapter
  <2>2. \E step \in STEPS : Goes(m, step) \/ \E p \in Procs : GoesWith(m, step, p)
    BY <1>3 DEF Post, Find, Waiting, Sends, Named, TypeOK, STEPS
  <2> QED  BY <1>1, <2>1, <2>2, NamesApart
<1>4. ASSUME NEW o \in Opens, NEW n \in Names, Ask(o, n)
      PROVE  GoalKept'
  BY <1>1, <1>4, NamesApart, NamesAssumption DEF Ask, process, adapter, STEPS
<1>5. CASE GoalStarts \/ GoalOpens \/ GoalSends \/ GoalEnds
  <2>1. UNCHANGED shut
    BY <1>5 DEF GoalStarts, GoalOpens, GoalSends, GoalEnds, process, adapter
  <2>2. ASSUME NEW step \in STEPS, ~Through(step), Goes(Goal, step)
        PROVE  GoalKept'
    <3>1. Moved(Goal, step, None)
      BY <2>2, GoesMoves, NamesApart
    <3> QED  BY <2>2, <3>1 DEF GoalKept, Moved, Through
  <2>3. CASE GoalOpens /\ GoesWith(Goal, "found", record) /\ ~Over(record)
    <3>1. Moved(Goal, "found", record) /\ record \in Procs
      BY <2>3, GoesMoves, NamesApart DEF TypeOK, STEPS
    <3> QED  BY <2>1, <2>3, <3>1 DEF GoalKept, Moved, Over
  <2>4. CASE GoalSends /\ has[Goal] \in sessions /\ GoesWith(Goal, "sending", has[Goal])
    <3>1. Moved(Goal, "sending", has[Goal])
      BY <2>4, GoesMoves, NamesApart DEF TypeOK, STEPS
    <3> QED  BY <2>1, <2>4, <3>1, StayKept DEF GoalSends, Moved, Stay, Through
  <2> QED  BY <1>5, <2>2, <2>3, <2>4 DEF GoalStarts, GoalOpens, GoalSends, GoalEnds, Waiting, Through, STEPS
<1>6. ASSUME NEW r \in Requests, Compact(r) \/ Admit(r) \/ Execute(r)
      PROVE  GoalKept'
  BY <1>1, <1>6 DEF Compact, Admit, Execute, process, adapter, caller
<1>7. ASSUME NEW p \in Procs, NEW f \in Frames, Sending(p, f)
      PROVE  GoalKept'
  <2>1. UNCHANGED shut
    BY <1>7 DEF Sending, Write, Refuse
  <2>2. \/ UNCHANGED <<at, has>>
        \/ \E m \in Messages, step \in STEPS : Goes(m, step)
        \/ /\ at[Goal] = "sending" /\ has[Goal] = p
           /\ Goes(Goal, "off") \/ GoesWith(Goal, "turn", p)
    BY <1>7 DEF Sending, Write, Refuse, Written, STEPS
  <2>3. CASE \E m \in Messages, step \in STEPS : Goes(m, step)
    BY <1>1, <2>1, <2>3, NamesApart
  <2>4. CASE /\ at[Goal] = "sending" /\ has[Goal] = p
             /\ Goes(Goal, "off") \/ GoesWith(Goal, "turn", p)
    <3>1. Moved(Goal, "off", None) \/ Moved(Goal, "turn", p)
      BY <2>4, GoesMoves, NamesApart DEF STEPS
    <3> QED  BY <2>1, <2>4, <3>1, StayKept DEF Moved, Stay, Through
  <2> QED  BY <1>1, <2>1, <2>2, <2>3, <2>4
<1>8. ASSUME NEW p \in Procs,
             \/ Ready(p) \/ Interrupt(p) \/ Interrupted(p) \/ Fail(p) \/ Breaks(p) \/ Exit(p)
             \/ TurnBegins(p) \/ Result(p) \/ Close(p) \/ Closed(p) \/ LetGo(p)
      PROVE  GoalKept'
  <2>1. UNCHANGED <<at, has>> \/ TurnEnded(p)
    BY <1>8 DEF Ready, Interrupt, Interrupted, Fail, Breaks, Exit, TurnBegins, Result, Close, Closed, LetGo, Shut, caller
  <2>2. Through(at'[Goal]) => Through(at[Goal]) /\ has'[Goal] = has[Goal]
    BY <2>1, TurnEndedMoves DEF Turned, Waits, Moved, Through
  <2>3. \A q \in Procs : shut'[q] = "letgo" => shut[q] = "letgo" \/ LetGo(p)
    BY <1>8 DEF Ready, Interrupt, Interrupted, Fail, Breaks, Exit, TurnBegins, Result, Close, Closed, Shut, process, adapter, TypeOK
  <2>4. LetGo(p) => Desktop \/ ~Through(at[Goal])
    BY DEF LetGo, GoalLocked, Through
  <2> QED  BY <2>2, <2>3, <2>4, StayKept DEF Stay
<1> QED  BY <1>2, <1>3, <1>4, <1>5, <1>6, <1>7, <1>8, OpeningKept DEF Next

----------------------------------------------------------------------------
(* The theorems *)

\* What a message waits in is not let go, so a let-go session can only refuse one that
\* waits for its end.
LEMMA RefusedByTheLiving ==
  ASSUME TypeOK, Posted, NEW m \in Messages, at[m] \in {"sending", "closing"}, at'[m] = "refused",
         shut[has[m]] = "letgo", [Next]_vars
  PROVE  at[m] = "closing" /\ Alive(has[m])
<1>1. \A c \in Callers \ {m} : \A step \in STEPS :
        /\ Goes(c, step) => at'[m] = at[m]
        /\ \A p \in Procs : GoesWith(c, step, p) => at'[m] = at[m]
  BY GoesMoves, NamesApart DEF Moved
<1>2. \A p \in Procs : TurnEnded(p) => at'[m] = at[m]
  BY TurnEndedMoves, NamesApart DEF Turned, Moved
<1>3. ASSUME NEW p \in Procs, NEW f \in Frames, Sending(p, f)
      PROVE  FALSE
  <2>1. CASE f = m
    <3>1. has[m] = p /\ shut[p] # "letgo"
      BY <1>3, <2>1 DEF Posted, Sending, Write, Refuse
    <3> QED  BY <3>1
  <2>2. CASE f # m
    <3>1. \/ UNCHANGED <<at, has>>
          \/ \E c \in Callers \ {m}, step \in STEPS : Goes(c, step) \/ GoesWith(c, step, p)
      BY <1>3, <2>2, NamesApart DEF Sending, Write, Refuse, Written, STEPS
    <3> QED  BY <1>1, <3>1
  <2> QED  BY <2>1, <2>2
<1>4. ASSUME NEW c \in Callers, Opening(c), ~(at[m] = "closing" /\ Alive(has[m]))
      PROVE  FALSE
  <2>1. PICK n \in Names : Enter(c, n) \/ CloseEnds(c, n) \/ Launch(c, n) \/ Leave(c, n)
    BY <1>4 DEF Opening
  <2>0. ASSUME c = m PROVE FALSE
    <3>1. CloseEnds(m, n) /\ ~Alive(has[m])
      BY <1>4, <2>0, <2>1 DEF Enter, CloseEnds, Launch, Leave
    <3>2. Moved(m, "launch", None)
      BY <2>0, <3>1, GoesMoves DEF CloseEnds, STEPS
    <3> QED  BY <2>0, <3>2 DEF Moved
  <2>2. c # m /\ Holder(c, n)
    BY <2>0, <2>1 DEF Enter, CloseEnds, Launch, Leave
  <2>3. Fresh # {} => (CHOOSE q \in Fresh : TRUE) \in Procs
    BY DEF Fresh
  <2>4. /\ GivesUp(c, n) => at'[m] = at[m]
        /\ \A p \in Procs : Returns(c, n, p) => at'[m] = at[m]
    BY <2>2, GivesUpType, ReturnsType, NamesApart DEF Moved
  <2>5. at'[m] = at[m]
    BY <1>1, <2>1, <2>2, <2>3, <2>4 DEF Enter, CloseEnds, Launch, Leave, Named, TypeOK, STEPS
  <2> QED  BY <2>5
<1>5. ASSUME NEW k \in Messages, Post(k) \/ Find(k)
      PROVE  FALSE
  <2>1. k # m /\ \E step \in STEPS : Goes(k, step) \/ \E p \in Procs : GoesWith(k, step, p)
    BY <1>5 DEF Post, Find, Waiting, Sends, Named, TypeOK, STEPS
  <2> QED  BY <1>1, <2>1, NamesApart
<1>6. ASSUME NEW o \in Opens, NEW n \in Names, Ask(o, n)
      PROVE  FALSE
  BY <1>1, <1>6, NamesApart DEF Ask, STEPS
<1>7. CASE GoalStarts \/ GoalOpens \/ GoalSends \/ GoalEnds
  <2>1. \E step \in STEPS : Goes(Goal, step) \/ \E p \in Procs : GoesWith(Goal, step, p)
    BY <1>7 DEF GoalStarts, GoalOpens, GoalSends, GoalEnds, Waiting, TypeOK, STEPS
  <2> QED  BY <1>1, <2>1, NamesApart
<1>8. CASE UNCHANGED vars \/ \E r \in Requests : Compact(r) \/ Admit(r) \/ Execute(r)
  BY <1>8 DEF vars, Compact, Admit, Execute, caller
<1>9. ASSUME NEW p \in Procs,
             \/ Ready(p) \/ Interrupt(p) \/ Interrupted(p) \/ Fail(p) \/ Breaks(p) \/ Exit(p)
             \/ TurnBegins(p) \/ Result(p) \/ Close(p) \/ Closed(p) \/ LetGo(p)
      PROVE  FALSE
  <2>1. UNCHANGED <<at, has>> \/ TurnEnded(p)
    BY <1>9 DEF Ready, Interrupt, Interrupted, Fail, Breaks, Exit, TurnBegins, Result, Close, Closed, LetGo, Shut, caller
  <2> QED  BY <1>2, <2>1
<1> QED  BY <1>3, <1>4, <1>5, <1>6, <1>7, <1>8, <1>9 DEF Next

\* The strengthened invariant: each part needs the ones before it.
IInv == TypeOK /\ Sessions /\ Posted /\ Apart /\ Work /\ GoalKept

LEMMA InitIInv == Init => IInv
<1> SUFFICES ASSUME Init PROVE IInv
  OBVIOUS
<1>1. TypeOK
  BY InitType
<1>2. Sessions
  BY DEF Init, Sessions, Open, Alive
<1>3. Posted
  BY NamesApart DEF Init, Posted, Unwritten
<1>4. Apart /\ Work
  BY NamesApart DEF Init, Apart, Work, Holds, CompactionLocked
<1>5. GoalKept
  BY NamesApart DEF Init, GoalKept
<1> QED  BY <1>1, <1>2, <1>3, <1>4, <1>5 DEF IInv

LEMMA IInvStep == IInv /\ [Next]_vars => IInv'
BY TypeStep, SessionsStep, PostedStep, WorkStep, GoalKeptStep DEF IInv

LEMMA Inductive == Spec => []IInv
BY InitIInv, IInvStep, PTL DEF Spec

LEMMA InitGate == Init => Gate
BY NamesApart DEF Init, Gate, Alive

\* A message is written to one process at most, and what was answered as sent was
\* written (sendToClaudeStructured).
THEOREM WrittenOnce == Spec => []SentOnce
<1>1. IInv => SentOnce
  BY DEF IInv, Posted, SentOnce
<1> QED  BY <1>1, Inductive, PTL

\* No message in the input of a session is refused because the Host let its process go
\* (release and its eligible); one that comes later is, only while that process ends.
THEOREM LetGoRefuses == Spec => LetGoRefusesNothing
<1>1. IInv /\ [Next]_vars => [\A m \in Messages :
        (at[m] \in {"sending", "closing"} /\ at'[m] = "refused" /\ shut[has[m]] = "letgo")
          => at[m] = "closing" /\ Alive(has[m])]_vars
  BY RefusedByTheLiving DEF IInv
<1> QED  BY <1>1, Inductive, PTL DEF Spec, LetGoRefusesNothing

\* One compaction holds the conversation at a time, and none is at its native work
\* while the Goal works through it (workflows.locked and compactions.locked).
THEOREM HoldersApart == Spec => []OneHolder
<1>1. IInv => OneHolder
  BY DEF IInv, Apart, OneHolder, Holds, CompactionLocked
<1> QED  BY <1>1, Inductive, PTL

\* The lock of a compaction at its native work and the pending work of a live session
\* are there together or not at all (finishCompaction).
THEOREM LiveWorkHolds == Spec => []HeldByLiveWork
<1>1. IInv => HeldByLiveWork
  <2> SUFFICES ASSUME IInv PROVE HeldByLiveWork
    OBVIOUS
  <2>1. \A r \in Requests : r # None
    BY NamesApart
  <2> QED  BY <2>1 DEF IInv, Work, HeldByLiveWork
<1> QED  BY <1>1, Inductive, PTL

\* Without the desktop helper's room the Host lets no process go that a Goal is
\* working through (claudeReleaseAllowed).
THEOREM GoalsProcessStays == Spec => [](~Desktop => GoalKeepsProcess)
<1>1. IInv => (~Desktop => GoalKeepsProcess)
  BY DEF IInv, GoalKept, GoalKeepsProcess
<1> QED  BY <1>1, Inductive, PTL

\* As long as everybody names the conversation by Claude's own id and the Host runs the
\* processes itself, two of them never work on one transcript (claudeResumeGates).  With
\* the desktop helper it is not claimed: an uncertain launch, or a connection that was
\* lost, leaves a process behind that no session stands for (claude-desktop-client.js).
THEOREM OneProcessLives == Spec => []((~LocalNames /\ ~Desktop) => OneProcess)
<1>1. Init => (~LocalNames => Gate)
  BY InitGate
<1>2. IInv /\ (~LocalNames => Gate) /\ [Next]_vars => (~LocalNames => Gate)'
  BY GateStep DEF IInv
<1>3. (~LocalNames => Gate) => ((~LocalNames /\ ~Desktop) => OneProcess)
  BY DEF Gate, OneProcess
<1> QED  BY <1>1, <1>2, <1>3, Inductive, PTL DEF Spec

=============================================================================
