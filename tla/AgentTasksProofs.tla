--------------------------- MODULE AgentTasksProofs ---------------------------
(***************************************************************************)
(* Proofs about AgentTasks, for any approvals and bounds.  The handlers of *)
(* the Host are first reduced to what they do to the task's status, socket *)
(* and tail of journal operations (Extends); what they leave alone needs   *)
(* no further argument.                                                    *)
(***************************************************************************)
EXTENDS AgentTasks, SequenceTheorems, TLAPS

\* Operations that carry no decision
Quiet == {o \in Operation : o.op \in {"request", "start", "resume", "terminal", "orphaned"}}
Extends(h, g) == g.tail = h.tail \/ \E o \in Quiet : g.tail = Append(h.tail, o)
Keeps(h, g) == g \in Task /\ g.status = h.status /\ g.control = h.control /\ Extends(h, g)

----------------------------------------------------------------------------
(* The Host's handlers *)

LEMMA Operations ==
  /\ [op |-> "start"] \in Quiet /\ [op |-> "resume"] \in Quiet
  /\ [op |-> "terminal"] \in Quiet /\ [op |-> "orphaned"] \in Quiet
  /\ \A a \in Approval : [op |-> "request", of |-> a] \in Quiet
  /\ \A a \in Approval : [op |-> "admit", of |-> a] \in Operation
  /\ \A a \in Approval : [op |-> "pipe", of |-> a] \in Operation
  /\ \A a \in Approval : [op |-> "ack", of |-> a] \in Operation
BY DEF Quiet, Operation

LEMMA QueuedIs ==
  ASSUME NEW h \in Task, NEW o \in Operation
  PROVE  /\ Queued(h, o) \in Task
         /\ \/ Queued(h, o) = h
            \/ Queued(h, o) = [h EXCEPT !.tail = Append(h.tail, o)] /\ Queued(h, o).tail = Append(h.tail, o)
         /\ Queued(h, o).status = h.status /\ Queued(h, o).control = h.control
<1> DEFINE g == [h EXCEPT !.tail = Append(h.tail, o)]
<1>1. h.tail \in Seq(Operation) /\ Append(h.tail, o) \in Seq(Operation)
  BY AppendProperties DEF Task
<1>2. g \in Task /\ g.tail = Append(h.tail, o) /\ g.status = h.status /\ g.control = h.control
  BY <1>1 DEF Task
<1> QED  BY <1>2 DEF Queued

LEMMA QueuedKeeps ==
  ASSUME NEW h \in Task, NEW o \in Quiet
  PROVE  Keeps(h, Queued(h, o))
BY QueuedIs DEF Keeps, Extends, Quiet

LEMMA RecordsKeep ==
  ASSUME NEW h \in Task
  PROVE  /\ Keeps(h, RecordStart(h)) /\ Keeps(h, NotifySettled(h))
         /\ Keeps(h, RecordEnd(h, "terminal")) /\ Keeps(h, RecordEnd(h, "orphaned"))
<1>0. Keeps(h, h)
  BY DEF Keeps, Extends
<1>1. Keeps(h, RecordStart(h))
  <2> DEFINE g == [h EXCEPT !.started = TRUE]
  <2>1. g \in Task /\ g.tail = h.tail /\ g.status = h.status /\ g.control = h.control
    BY DEF Task
  <2>2. Keeps(g, Queued(g, [op |-> "start"]))
    BY <2>1, Operations, QueuedKeeps
  <2>3. Keeps(h, Queued(g, [op |-> "start"]))
    BY <2>1, <2>2 DEF Keeps, Extends
  <2> QED  BY <1>0, <2>3 DEF RecordStart
<1>2. Keeps(h, RecordEnd(h, "terminal")) /\ Keeps(h, RecordEnd(h, "orphaned"))
  BY <1>0, Operations, QueuedKeeps DEF RecordEnd
<1>3. Keeps(h, NotifySettled(h))
  <2> DEFINE g == [h EXCEPT !.settled = TRUE]
  <2>1. g \in Task /\ g.tail = h.tail /\ g.status = h.status /\ g.control = h.control
    BY DEF Task
  <2> QED  BY <1>0, <2>1 DEF NotifySettled, Keeps, Extends
<1> QED  BY <1>1, <1>2, <1>3

LEMMA SetStatusIs ==
  ASSUME NEW h \in Task, NEW s \in STATUSES
  PROVE  /\ SetStatus(h, s) \in Task /\ SetStatus(h, s).status = s
         /\ SetStatus(h, s).control = h.control /\ Extends(h, SetStatus(h, s))
<1> DEFINE g == [h EXCEPT !.status = s, !.shut = @ \/ Terminal(s)]
<1>1. g \in Task /\ g.tail = h.tail /\ g.status = s /\ g.control = h.control
  BY DEF Task, Terminal
<1>2. \A k \in Task : Keeps(g, k) => k \in Task /\ k.status = s /\ k.control = h.control /\ Extends(h, k)
  BY <1>1 DEF Keeps, Extends
<1>3. Keeps(g, g)
  BY <1>1 DEF Keeps, Extends
<1>4. Keeps(g, RecordStart(g))
  BY <1>1, RecordsKeep
<1>5. ASSUME NEW k \in Task, Keeps(g, k) PROVE Keeps(g, NotifySettled(k))
  <2> DEFINE n == [k EXCEPT !.settled = TRUE]
  <2>1. n \in Task /\ n.tail = k.tail /\ n.status = k.status /\ n.control = k.control
    BY DEF Task
  <2> QED  BY <1>5, <2>1 DEF NotifySettled, Keeps, Extends
<1>6. Keeps(g, NotifySettled(RecordEnd(g, "terminal"))) /\ Keeps(g, NotifySettled(RecordEnd(g, "orphaned")))
  BY <1>1, <1>5, RecordsKeep DEF Keeps
<1>7. SetStatus(h, s) \in {g, RecordStart(g), NotifySettled(RecordEnd(g, "terminal")), NotifySettled(RecordEnd(g, "orphaned"))}
  BY DEF SetStatus
<1> QED  BY <1>2, <1>3, <1>4, <1>6, <1>7 DEF Keeps

LEMMA SnapshotIs ==
  ASSUME NEW h \in Task, NEW m \in Message, m.type = "snapshot"
  PROVE  /\ Snapshot(h, m) \in Task /\ Snapshot(h, m).status \in {"running", "ended"}
         /\ Extends(h, Snapshot(h, m))
<1> DEFINE g == [h EXCEPT !.cursor = IF m.seq >= @ THEN m.seq ELSE @, !.status = m.status, !.shut = @ \/ Terminal(m.status),
                          !.control = "ready", !.timer = FALSE]
<1>1. m.seq \in Nat /\ m.status \in {"running", "ended"}
  BY DEF Message
<1>2. g \in Task /\ g.tail = h.tail /\ g.status = m.status
  BY <1>1 DEF Task, STATUSES, Terminal
<1>3. SetStatus(g, m.status) \in Task /\ SetStatus(g, m.status).status = m.status /\ Extends(g, SetStatus(g, m.status))
  BY <1>1, <1>2, SetStatusIs DEF STATUSES
<1> QED  BY <1>1, <1>2, <1>3 DEF Snapshot, Extends

LEMMA ObserveIs ==
  ASSUME NEW h \in Task, NEW seq \in Nat, NEW a \in Approval
  PROVE  Keeps(h, Observe(h, seq, a))
<1> DEFINE g == [h EXCEPT !.pcursor = seq, !.cursor = IF seq > @ THEN seq ELSE @]
           k == [g EXCEPT !.observed = @ \cup {a}]
<1>1. g \in Task /\ g.tail = h.tail /\ g.status = h.status /\ g.control = h.control
  BY DEF Task
<1>2. k \in Task /\ k.tail = h.tail /\ k.status = h.status /\ k.control = h.control
  BY <1>1 DEF Task
<1>3. Keeps(k, Queued(k, [op |-> "request", of |-> a]))
  BY <1>2, Operations, QueuedKeeps
<1> QED  BY <1>1, <1>2, <1>3 DEF Observe, Keeps, Extends

LEMMA ExitIs ==
  ASSUME NEW h \in Task
  PROVE  Exit(h) \in Task /\ Exit(h).status = "ended" /\ Extends(h, Exit(h))
<1> DEFINE g == IF h.status = "ended" THEN h ELSE SetStatus(h, "ended")
           k == [g EXCEPT !.control = "none", !.timer = FALSE, !.stopping = IF @ = "sent" THEN "asked" ELSE @]
<1>1. g \in Task /\ g.status = "ended" /\ Extends(h, g)
  BY SetStatusIs DEF STATUSES, Extends
<1>2. k \in Task /\ k.status = "ended" /\ k.tail = g.tail
  <2>1. \A n \in Task :
          LET m == [n EXCEPT !.control = "none", !.timer = FALSE, !.stopping = IF @ = "sent" THEN "asked" ELSE @]
          IN m \in Task /\ m.status = n.status /\ m.tail = n.tail
    BY DEF Task
  <2> HIDE DEF g
  <2> QED  BY <1>1, <2>1
<1>3. Keeps(k, NotifySettled(k))
  BY <1>2, RecordsKeep
<1>4. NotifySettled(k) = [k EXCEPT !.settled = TRUE]
  BY <1>2 DEF NotifySettled, Terminal
<1>5. NotifySettled(k).tail = k.tail
  BY <1>2, <1>4 DEF Task
<1> QED  BY <1>1, <1>2, <1>3, <1>5 DEF Exit, Keeps, Extends

LEMMA HandleIs ==
  ASSUME NEW h \in Task, NEW seq \in Nat, NEW e \in Event
  PROVE  /\ Handle(h, seq, e) \in Task /\ Handle(h, seq, e).status \in {h.status, "ended"}
         /\ \/ Extends(h, Handle(h, seq, e))
            \/ e.type = "ack" /\ Handle(h, seq, e).tail = Append(h.tail, [op |-> "ack", of |-> e.of])
<1> DEFINE g == [h EXCEPT !.cursor = seq]
<1>1. g \in Task /\ g.tail = h.tail /\ g.status = h.status
  BY DEF Task
<1>2. e.type \in {"request", "ack", "status", "exit"} /\ (e.type \in {"request", "ack"} => e.of \in Approval)
  BY DEF Event
<1>3. CASE e.type = "request"
  BY <1>2, <1>3, ObserveIs DEF Handle, Keeps
<1>4. CASE e.type # "request" /\ seq <= h.cursor
  <2>1. h.cursor \in Nat
    BY DEF Task
  <2>2. Handle(h, seq, e) = h
    BY <1>4, <2>1 DEF Handle
  <2> QED  BY <2>2 DEF Extends
<1>5. CASE e.type = "ack" /\ seq > h.cursor
  <2>1. Queued(g, [op |-> "ack", of |-> e.of]) \in Task
        /\ Queued(g, [op |-> "ack", of |-> e.of]).status = h.status
        /\ Queued(g, [op |-> "ack", of |-> e.of]).tail \in {h.tail, Append(h.tail, [op |-> "ack", of |-> e.of])}
    BY <1>1, <1>2, <1>5, Operations, QueuedIs
  <2>2. Handle(h, seq, e) \in {g, Queued(g, [op |-> "ack", of |-> e.of])}
    BY <1>5 DEF Handle, Task
  <2> QED  BY <1>1, <1>5, <2>1, <2>2 DEF Extends
<1>6. CASE e.type = "status" /\ seq > h.cursor
  <2>1. Handle(h, seq, e) = SetStatus(g, "ended")
    BY <1>6 DEF Handle, Task
  <2>2. SetStatus(g, "ended") \in Task /\ SetStatus(g, "ended").status = "ended" /\ Extends(g, SetStatus(g, "ended"))
    BY <1>1, SetStatusIs DEF STATUSES
  <2> QED  BY <1>1, <2>1, <2>2 DEF Extends
<1>7. CASE e.type = "exit" /\ seq > h.cursor
  <2>1. Handle(h, seq, e) = Exit(g)
    BY <1>7 DEF Handle, Task
  <2> QED  BY <1>1, <2>1, ExitIs DEF Extends
<1>8. h.cursor \in Nat
  BY DEF Task
<1> QED  BY <1>2, <1>3, <1>4, <1>5, <1>6, <1>7, <1>8

LEMMA ClosesIs ==
  ASSUME NEW h \in Task
  PROVE  /\ Closes(h) \in Task /\ Closes(h).status \in {h.status, "reconnecting"}
         /\ Extends(h, Closes(h))
<1> DEFINE g == [h EXCEPT !.control = "none", !.stopping = IF @ = "sent" THEN "asked" ELSE @]
           k == SetStatus(g, "reconnecting")
<1>1. g \in Task /\ g.tail = h.tail /\ g.status = h.status
  BY DEF Task
<1>2. k \in Task /\ k.status = "reconnecting" /\ Extends(g, k)
  BY <1>1, SetStatusIs DEF STATUSES
<1>3. \A n \in Task : [n EXCEPT !.timer = TRUE] \in Task /\ [n EXCEPT !.timer = TRUE].tail = n.tail
                      /\ [n EXCEPT !.timer = TRUE].status = n.status
  BY DEF Task
<1> QED  BY <1>1, <1>2, <1>3 DEF Closes, Extends

LEMMA ReloadedIs ==
  ASSUME TypeOK, NEW s \in STATUSES, NEW b \in BOOLEAN
  PROVE  /\ Reloaded(s, b) \in Task /\ Reloaded(s, b).status = s
         /\ Reloaded(s, b).tail \in {<<>>} \cup {<<o>> : o \in Quiet}
<1> DEFINE h == [status |-> s, control |-> "none", cursor |-> Len(log), pcursor |-> 0, observed |-> {},
                 shut |-> Terminal(s), tail |-> <<>>, ready |-> TRUE, started |-> b,
                 terminal |-> host.terminal, settled |-> host.settled, timer |-> ~Terminal(s),
                 opening |-> FALSE, stopping |-> "no"]
<1>1. h \in Task /\ h.status = s /\ h.tail = <<>>
  BY LenProperties DEF TypeOK, Task, Terminal
<1>2. Keeps(h, RecordEnd(h, "orphaned"))
  BY <1>1, RecordsKeep
<1>3. \A k \in Task : k.status = s /\ Extends(h, k) => Keeps(k, NotifySettled(k)) /\ NotifySettled(k).tail = k.tail
  <2> SUFFICES ASSUME NEW k \in Task, k.status = s PROVE Keeps(k, NotifySettled(k)) /\ NotifySettled(k).tail = k.tail
    OBVIOUS
  <2>1. [k EXCEPT !.settled = TRUE].tail = k.tail
    BY DEF Task
  <2> QED  BY <2>1, RecordsKeep DEF NotifySettled
<1>4. CASE s = "orphaned"
  <2> DEFINE k == RecordEnd(h, "orphaned")
  <2>1. k \in Task /\ k.status = s /\ Extends(h, k)
    BY <1>1, <1>2 DEF Keeps
  <2>2. Reloaded(s, b) = NotifySettled(k)
    BY <1>4 DEF Reloaded
  <2>3. \A o \in Quiet : Append(<<>>, o) = <<o>>
    OBVIOUS
  <2> HIDE DEF h, k
  <2>4. k.tail \in {<<>>} \cup {<<o>> : o \in Quiet}
    BY <1>1, <2>1, <2>3 DEF Extends
  <2> QED  BY <1>3, <2>1, <2>2, <2>4 DEF Keeps
<1>5. CASE s # "orphaned"
  <2>1. Reloaded(s, b) = NotifySettled(h)
    BY <1>5 DEF Reloaded
  <2> HIDE DEF h
  <2> QED  BY <1>1, <1>3, <2>1 DEF Keeps, Extends
<1> QED  BY <1>4, <1>5

----------------------------------------------------------------------------
(* Sequences: the tail, the events that are on their way, the commands *)

\* What a tail may hold: an acknowledgement of what the CLI acknowledged, and at
\* its head only, a decision that is being dispatched or about to be sent.
Fit(t, acked, fresh) ==
  \A i \in 1 .. Len(t) :
    /\ t[i].op = "ack" => t[i].of \in acked
    /\ t[i].op \in {"dispatch", "send"} => i = 1
    /\ t[i].op = "send" => t[i].of \in fresh
Within(d, n) == \A i \in 1 .. Len(d) : d[i].type = "event" => d[i].seq \in 1 .. n
Sent(u, a) == {i \in DOMAIN u : u[i] = [op |-> "resolve", of |-> a]}

LEMMA FitAppend ==
  ASSUME NEW t \in Seq(Operation), NEW o \in Operation, NEW K, NEW F, Fit(t, K, F),
         o.op \notin {"dispatch", "send"}, o.op = "ack" => o.of \in K
  PROVE  Fit(Append(t, o), K, F)
BY AppendProperties, LenProperties DEF Fit

LEMMA FitTail ==
  ASSUME NEW t \in Seq(Operation), t # <<>>, NEW K, NEW F, NEW G, Fit(t, K, F)
  PROVE  Fit(Tail(t), K, G)
<1>1. /\ Len(t) \in Nat /\ Len(Tail(t)) = Len(t) - 1
      /\ \A i \in 1 .. Len(Tail(t)) : Tail(t)[i] = t[i + 1]
  BY HeadTailProperties, LenProperties
<1> QED  BY <1>1 DEF Fit

LEMMA FitGrows ==
  ASSUME NEW t, NEW K, NEW F, NEW L, NEW G, Fit(t, K, F), K \subseteq L, F \subseteq G
  PROVE  Fit(t, L, G)
BY DEF Fit

LEMMA FitExtends ==
  ASSUME NEW h \in Task, NEW g \in Task, Extends(h, g), NEW K, NEW F, Fit(h.tail, K, F)
  PROVE  Fit(g.tail, K, F)
<1>1. h.tail \in Seq(Operation)
  BY DEF Task
<1>2. \A o \in Quiet : Fit(Append(h.tail, o), K, F)
  BY <1>1, FitAppend DEF Quiet
<1> QED  BY <1>2 DEF Extends

LEMMA FitReloaded ==
  ASSUME NEW t \in {<<>>} \cup {<<o>> : o \in Quiet}, NEW K, NEW F
  PROVE  Fit(t, K, F)
BY DEF Fit, Quiet

LEMMA WithinAppend ==
  ASSUME NEW d \in Seq(Message), NEW m \in Message, NEW n \in Nat, Within(d, n), m.type # "event"
  PROVE  Append(d, m) \in Seq(Message) /\ Within(Append(d, m), n)
BY AppendProperties, LenProperties DEF Within

LEMMA WithinTail ==
  ASSUME NEW d \in Seq(Message), d # <<>>, NEW n \in Nat, Within(d, n)
  PROVE  Tail(d) \in Seq(Message) /\ Within(Tail(d), n)
<1>1. /\ Len(d) \in Nat /\ Len(Tail(d)) = Len(d) - 1
      /\ \A i \in 1 .. Len(Tail(d)) : Tail(d)[i] = d[i + 1]
  BY HeadTailProperties, LenProperties
<1> QED  BY <1>1, HeadTailProperties DEF Within

LEMMA WithinGrows ==
  ASSUME NEW d, NEW n \in Nat, NEW k \in Nat, Within(d, n), n <= k
  PROVE  Within(d, k)
BY DEF Within

\* Events from a to b are sent after what is on its way.
LEMMA WithinReplay ==
  ASSUME NEW d \in Seq(Message), NEW n \in Nat, NEW a \in Nat, NEW k \in Int, a + k <= n, Within(d, n)
  PROVE  LET e == [i \in 1 .. k |-> [type |-> "event", seq |-> a + i]]
         IN d \o e \in Seq(Message) /\ Within(d \o e, n)
<1> DEFINE e == [i \in 1 .. k |-> [type |-> "event", seq |-> a + i]]
           c == IF k >= 0 THEN k ELSE 0
<1>1. c \in Nat /\ 1 .. k = 1 .. c
  OBVIOUS
<1>2. \A i \in 1 .. c : [type |-> "event", seq |-> a + i] \in Message
  BY <1>1 DEF Message
<1>3. e \in [1 .. c -> Message]
  BY <1>1, <1>2
<1>4. e \in Seq(Message) /\ Len(e) = c
  <2> HIDE DEF e, c
  <2> QED  BY <1>1, <1>3
<1>5. \A i \in 1 .. c : e[i].type = "event" /\ e[i].seq \in 1 .. n
  BY <1>1
<1> HIDE DEF e, c
<1>6. d \o e \in Seq(Message) /\ Len(d \o e) = Len(d) + c /\ Len(d) \in Nat
      /\ \A i \in 1 .. Len(d) + c : (d \o e)[i] = IF i <= Len(d) THEN d[i] ELSE e[i - Len(d)]
  BY <1>4, ConcatProperties, LenProperties
<1>7. Within(d \o e, n)
  BY <1>1, <1>5, <1>6 DEF Within
<1> QED  BY <1>6, <1>7 DEF e

LEMMA SentTail ==
  ASSUME NEW u \in Seq(Command), u # <<>>, NEW a
  PROVE  /\ \A i \in Sent(Tail(u), a) : i \in Nat /\ i + 1 \in Sent(u, a) /\ i >= 1
         /\ Head(u) = [op |-> "resolve", of |-> a] => 1 \in Sent(u, a)
<1>1. /\ Len(u) \in Nat \ {0} /\ Len(Tail(u)) = Len(u) - 1 /\ DOMAIN u = 1 .. Len(u)
      /\ DOMAIN Tail(u) = 1 .. Len(Tail(u))
      /\ \A i \in 1 .. Len(Tail(u)) : Tail(u)[i] = u[i + 1]
  BY HeadTailProperties, LenProperties, EmptySeq
<1>2. Head(u) = u[1]
  OBVIOUS
<1> QED  BY <1>1, <1>2 DEF Sent

LEMMA SentAppend ==
  ASSUME NEW u \in Seq(Command), NEW c \in Command, NEW a
  PROVE  Sent(Append(u, c), a) = IF c = [op |-> "resolve", of |-> a] THEN Sent(u, a) \cup {Len(u) + 1} ELSE Sent(u, a)
<1>1. /\ Len(u) \in Nat /\ DOMAIN u = 1 .. Len(u) /\ Append(u, c) \in Seq(Command)
      /\ DOMAIN Append(u, c) = 1 .. Len(u) + 1
      /\ \A i \in 1 .. Len(u) : Append(u, c)[i] = u[i]
      /\ Append(u, c)[Len(u) + 1] = c
  BY AppendProperties, LenProperties
<1>2. \A i \in 1 .. Len(u) + 1 : i = Len(u) + 1 \/ i \in 1 .. Len(u)
  BY <1>1
<1> QED  BY <1>1, <1>2 DEF Sent

----------------------------------------------------------------------------
(* What the Host does when the journal has answered *)

LEMMA OperationIs ==
  ASSUME NEW o \in Operation
  PROVE  /\ o.op \in {"request", "admit", "dispatch", "send", "pipe", "ack", "start", "resume", "terminal", "orphaned"}
         /\ o.op \in {"request", "admit", "dispatch", "send", "pipe", "ack"} =>
              /\ o.of \in Approval /\ o = [op |-> o.op, of |-> o.of]
              /\ \A p \in {"dispatch", "send"} : [o EXCEPT !.op = p] \in Operation
                   /\ [o EXCEPT !.op = p].op = p /\ [o EXCEPT !.op = p].of = o.of
BY DEF Operation

LEMMA PoppedIs ==
  ASSUME NEW h \in Task, h.tail # <<>>, NEW K, NEW F, NEW G, Fit(h.tail, K, F)
  PROVE  /\ Popped(h) \in Task /\ Popped(h).status = h.status /\ Popped(h).control = h.control
         /\ Popped(h).tail = Tail(h.tail) /\ Fit(Popped(h).tail, K, G)
         /\ Head(h.tail) \in Operation /\ Head(h.tail) = h.tail[1]
         /\ Head(h.tail).op = "ack" => Head(h.tail).of \in K
         /\ Head(h.tail).op = "send" => Head(h.tail).of \in F
<1>1. h.tail \in Seq(Operation)
  BY DEF Task
<1>2. Tail(h.tail) \in Seq(Operation) /\ Head(h.tail) \in Operation /\ Fit(Tail(h.tail), K, G)
  BY <1>1, FitTail, HeadTailProperties
<1>3. /\ Popped(h) \in Task /\ Popped(h).status = h.status /\ Popped(h).control = h.control
      /\ Popped(h).tail = Tail(h.tail)
  BY <1>2 DEF Popped, Task
<1>4. Len(h.tail) >= 1 /\ Head(h.tail) = h.tail[1]
  BY <1>1, EmptySeq
<1>5. 1 \in 1 .. Len(h.tail)
  BY <1>1, <1>4, LenProperties
<1> QED  BY <1>2, <1>3, <1>4, <1>5 DEF Fit

\* The head of the tail becomes its next transaction.
LEMMA RelabelIs ==
  ASSUME NEW h \in Task, h.tail # <<>>, NEW K, NEW F, NEW G, Fit(h.tail, K, F), NEW p \in {"dispatch", "send"},
         Head(h.tail).op \in {"admit", "dispatch"}, p = "send" => Head(h.tail).of \in G
  PROVE  LET g == [h EXCEPT !.tail[1].op = p]
         IN g \in Task /\ g.status = h.status /\ g.control = h.control /\ Fit(g.tail, K, G)
<1> DEFINE g == [h EXCEPT !.tail[1].op = p]
           e == [h.tail[1] EXCEPT !.op = p]
           t == [h.tail EXCEPT ![1] = e]
<1>1. h.tail \in Seq(Operation)
  BY DEF Task
<1>2. Len(h.tail) \in Nat /\ 1 \in 1 .. Len(h.tail) /\ Head(h.tail) = h.tail[1] /\ Head(h.tail) \in Operation
  BY <1>1, EmptySeq, LenProperties, HeadTailProperties
<1>3. e \in Operation /\ e.op = p /\ e.of = Head(h.tail).of
  BY <1>2, OperationIs
<1>4. t \in Seq(Operation) /\ Len(t) = Len(h.tail) /\ \A j \in 1 .. Len(h.tail) : t[j] = IF j = 1 THEN e ELSE h.tail[j]
  <2> HIDE DEF e
  <2> QED  BY <1>1, <1>2, <1>3, ExceptSeq
<1>5. g = [h EXCEPT !.tail = t]
  BY DEF Task
<1>6. g \in Task /\ g.tail = t /\ g.status = h.status /\ g.control = h.control
  <2> HIDE DEF t
  <2> QED  BY <1>4, <1>5 DEF Task
<1>7. Fit(t, K, G)
  <2> HIDE DEF t, e
  <2> QED  BY <1>2, <1>3, <1>4 DEF Fit
<1> QED  BY <1>6, <1>7

LEMMA AfterIs ==
  ASSUME NEW h \in Task, h.tail # <<>>, NEW K, NEW F, NEW G, Fit(h.tail, K, F), Head(h.tail).op # "send",
         Head(h.tail).op = "dispatch" => Head(h.tail).of \in G
  PROVE  LET g == After(h, Head(h.tail))
         IN g \in Task /\ Fit(g.tail, K, G) /\ (g.status = "orphaned" => h.status = "orphaned")
<1> DEFINE o == Head(h.tail)
           g == After(h, o)
<1>1. /\ Popped(h) \in Task /\ Popped(h).status = h.status
      /\ Fit(Popped(h).tail, K, G) /\ o \in Operation
  BY PoppedIs
<1>2. /\ o.op \in {"request", "admit", "dispatch", "pipe", "ack", "start", "resume", "terminal", "orphaned"}
      /\ o.op \in {"request", "admit", "dispatch", "pipe", "ack"} => o.of \in Approval
  BY <1>1, OperationIs
<1> DEFINE Fine(n) == n \in Task /\ Fit(n.tail, K, G) /\ (n.status = "orphaned" => h.status = "orphaned")
<1>3. \A s \in {"waiting", "running"} : Fine(SetStatus(Popped(h), s))
  <2> SUFFICES ASSUME NEW s \in {"waiting", "running"} PROVE Fine(SetStatus(Popped(h), s))
    OBVIOUS
  <2>1. SetStatus(Popped(h), s) \in Task /\ SetStatus(Popped(h), s).status = s /\ Extends(Popped(h), SetStatus(Popped(h), s))
    BY <1>1, SetStatusIs DEF STATUSES
  <2> QED  BY <1>1, <2>1, FitExtends
<1>4. CASE o.op \in {"request", "resume"}
  BY <1>1, <1>3, <1>4 DEF After
<1>5. CASE o.op = "admit"
  BY <1>5, RelabelIs DEF After
<1>6. CASE o.op = "dispatch"
  BY <1>6, RelabelIs DEF After
<1>7. CASE o.op = "ack"
  <2>1. Keeps(Popped(h), Queued(Popped(h), [op |-> "resume"]))
    BY <1>1, Operations, QueuedKeeps
  <2> QED  BY <1>1, <1>7, <2>1, FitExtends DEF After, Keeps
<1>8. CASE o.op = "terminal"
  <2>1. \A n \in Task : [n EXCEPT !.terminal = TRUE] \in Task /\ [n EXCEPT !.terminal = TRUE].tail = n.tail
                        /\ [n EXCEPT !.terminal = TRUE].status = n.status
    BY DEF Task
  <2> QED  BY <1>1, <1>8, <2>1 DEF After
<1>9. CASE o.op \in {"pipe", "start", "orphaned"}
  BY <1>1, <1>9 DEF After
<1> QED  BY <1>2, <1>4, <1>5, <1>6, <1>7, <1>8, <1>9

LEMMA ReplayedIs ==
  ASSUME NEW h \in Task, h.tail # <<>>, NEW K, NEW F, NEW G, Fit(h.tail, K, F), Head(h.tail).op # "send"
  PROVE  LET g == Replayed(h, Head(h.tail))
         IN g \in Task /\ Fit(g.tail, K, G) /\ (g.status = "orphaned" => h.status = "orphaned")
<1>1. CASE Replayed(h, Head(h.tail)) = Popped(h)
  BY <1>1, PoppedIs
<1>2. CASE Head(h.tail).op \in {"terminal", "ack"} /\ Replayed(h, Head(h.tail)) = After(h, Head(h.tail))
  BY <1>2, AfterIs
<1> QED  BY <1>1, <1>2 DEF Replayed

----------------------------------------------------------------------------
(* The invariant *)

Acked == {a \in Approval : cli[a] = "acked"}
Fresh == {a \in Approval : receipt[a] = "dispatching" /\ got[a] = 0 /\ Resolves(a) = {}}

\* The connection carries events the supervisor has.
Wire == Within(down, Len(log))
\* The supervisor reports what the CLI did, which answers only what it was given.
Words ==
  /\ \A i \in 1 .. Len(log) : log[i].type = "ack" => log[i].of \in Acked
  /\ \A a \in Approval : cli[a] \in {"answered", "acked"} => got[a] > 0
\* What is about to be sent was dispatched and never sent.
Tails == Fit(host.tail, Acked, Fresh)
\* The journal's records of the run, its approvals and its receipts agree.
Row ==
  /\ \A a \in Approval :
       /\ approval[a] \in {"none", "pending"} => receipt[a] = "none"
       /\ approval[a] = "decided" => receipt[a] # "none"
       /\ approval[a] = "acked" => receipt[a] = "succeeded"
       /\ receipt[a] = "succeeded" => approval[a] = "acked" /\ a \in Acked
       /\ approval[a] = "over" => run = "ended"
  /\ run = "starting" => \A a \in Approval : approval[a] = "none"
  /\ run = "running" => \A a \in Approval : approval[a] \in {"none", "acked"}

Inv == TypeOK /\ Wire /\ Words /\ Tails /\ OneDecision /\ Row /\ OrphanIsGone

LEMMA SentOnce ==
  ASSUME OneDecision, NEW a \in Approval
  PROVE  /\ got[a] <= 1 /\ (Sent(up, a) # {} => got[a] = 0)
         /\ \A i, j \in Sent(up, a) : i = j
         /\ (got[a] = 1 \/ Sent(up, a) # {}) => receipt[a] \in {"dispatching", "awaiting", "succeeded", "uncertain"}
BY DEF OneDecision, Resolves, Sent

\* No decision is put on its way.
Carries == \A a \in Approval :
             (Sent(up', a) # {} => Sent(up, a) # {}) /\ \A i, j \in Sent(up', a) : i = j

LEMMA CarriesSame ==
  ASSUME Inv, up' \in {up, <<>>}
  PROVE  Carries
BY DEF Inv, OneDecision, Carries, Resolves, Sent

\* Nothing new is sent and nothing is recorded.
LEMMA Quietly ==
  ASSUME Inv, UNCHANGED <<got, journal>>, Acked \subseteq Acked', Carries,
         Fit(host'.tail, Acked', Fresh)
  PROVE  Tails' /\ OneDecision' /\ Row'
<1>1. Fresh \subseteq Fresh'
  BY DEF Fresh, Carries, journal, Resolves, Sent
<1>2. Tails'
  BY <1>1, FitGrows DEF Tails, Fit
<1>3. OneDecision'
  <2> SUFFICES ASSUME NEW a \in Approval
               PROVE  /\ got'[a] <= 1 /\ (Sent(up', a) # {} => got'[a] = 0)
                      /\ \A i, j \in Sent(up', a) : i = j
                      /\ (got'[a] = 1 \/ Sent(up', a) # {}) => receipt'[a] \in {"dispatching", "awaiting", "succeeded", "uncertain"}
    BY DEF OneDecision, Resolves, Sent
  <2> QED  BY SentOnce DEF Inv, Carries, journal
<1>4. Row'
  BY DEF Inv, Row, journal
<1> QED  BY <1>2, <1>3, <1>4

----------------------------------------------------------------------------
(* Steps of the supervisor and its CLI *)

LEMMA PushesIs ==
  ASSUME TypeOK, Wire, NEW s, \E e \in Event : s = <<e>> \/ \E f \in Event : s = <<e, f>>, Pushes(s)
  PROVE  /\ log' \in Seq(Event) /\ down' \in Seq(Message) /\ Within(down', Len(log'))
         /\ Len(log) \in Nat /\ Len(log') = Len(log) + Len(s) /\ s \in Seq(Event)
         /\ \A i \in 1 .. Len(log') : log'[i] = IF i <= Len(log) THEN log[i] ELSE s[i - Len(log)]
<1>1. s \in Seq(Event) /\ Len(s) \in Nat /\ DOMAIN s = 1 .. Len(s)
  <2>1. PICK e \in Event : s = <<e>> \/ \E f \in Event : s = <<e, f>>
    OBVIOUS
  <2>2. <<e>> \in Seq(Event) /\ \A f \in Event : <<e, f>> \in Seq(Event)
    OBVIOUS
  <2>3. s \in Seq(Event)
    BY <2>1, <2>2
  <2> QED  BY <2>3, LenProperties
<1>2. log \in Seq(Event) /\ down \in Seq(Message) /\ Len(log) \in Nat
  BY LenProperties DEF TypeOK
<1>3. /\ log' \in Seq(Event) /\ Len(log') = Len(log) + Len(s)
      /\ \A i \in 1 .. Len(log') : log'[i] = IF i <= Len(log) THEN log[i] ELSE s[i - Len(log)]
  BY <1>1, <1>2, ConcatProperties DEF Pushes
<1>4. Within(down, Len(log'))
  BY <1>1, <1>2, <1>3, WithinGrows DEF Wire
<1>5. LET e == [i \in 1 .. Len(s) |-> [type |-> "event", seq |-> Len(log) + i]]
      IN down \o e \in Seq(Message) /\ Within(down \o e, Len(log'))
  BY <1>1, <1>2, <1>3, <1>4, WithinReplay
<1>6. down' \in Seq(Message) /\ Within(down', Len(log'))
  BY <1>1, <1>2, <1>4, <1>5 DEF Pushes
<1> QED  BY <1>1, <1>2, <1>3, <1>6

LEMMA PushStep ==
  ASSUME Inv, NEW s, \E e \in Event : s = <<e>> \/ \E f \in Event : s = <<e, f>>, Pushes(s),
         sup = "running", sup' \in {"running", "ended"}, cli' \in [Approval -> {"idle", "asked", "answered", "acked"}],
         \A i \in 1 .. Len(s) : s[i].type = "ack" => s[i].of \in Acked',
         \A a \in Approval : cli'[a] \in {"answered", "acked"} => got[a] > 0,
         Acked \subseteq Acked',
         UNCHANGED <<got, stopped, reused, linked, up, host, journal, expired, upsets>>
  PROVE  Inv'
<1>1. /\ log' \in Seq(Event) /\ down' \in Seq(Message) /\ Within(down', Len(log'))
      /\ Len(log) \in Nat /\ Len(log') = Len(log) + Len(s) /\ Len(s) \in Nat
      /\ \A i \in 1 .. Len(log') : log'[i] = IF i <= Len(log) THEN log[i] ELSE s[i - Len(log)]
  BY PushesIs, LenProperties DEF Inv
<1>2. TypeOK'
  BY <1>1 DEF Inv, TypeOK, SUPS, journal
<1>3. Wire'
  BY <1>1 DEF Wire, Within
<1>4. Words'
  BY <1>1 DEF Inv, Words
<1>5. Tails' /\ OneDecision' /\ Row'
  <2>1. Fit(host'.tail, Acked', Fresh)
    BY FitGrows DEF Inv, Tails
  <2> QED  BY <2>1, CarriesSame, Quietly
<1>6. OrphanIsGone'
  BY DEF Inv, OrphanIsGone, Alive
<1> QED  BY <1>2, <1>3, <1>4, <1>5, <1>6 DEF Inv

LEMMA AsksStep ==
  ASSUME Inv, NEW a \in Approval, Asks(a)
  PROVE  Inv'
<1> DEFINE e == [type |-> "request", of |-> a]
<1>1. e \in Event /\ Len(<<e>>) = 1 /\ <<e>>[1] = e /\ e.type = "request"
  BY DEF Event
<1>2. cli \in [Approval -> {"idle", "asked", "answered", "acked"}]
  BY DEF Inv, TypeOK
<1>3. cli' \in [Approval -> {"idle", "asked", "answered", "acked"}] /\ Acked \subseteq Acked'
      /\ \A b \in Approval : cli'[b] \in {"answered", "acked"} => got[b] > 0
  BY <1>2 DEF Asks, Acked, Inv, Words
<1>4. \A i \in 1 .. Len(<<e>>) : <<e>>[i].type # "ack"
  BY <1>1
<1> QED  BY <1>1, <1>3, <1>4, PushStep DEF Asks

LEMMA AcksStep ==
  ASSUME Inv, NEW a \in Approval, Acks(a)
  PROVE  Inv'
<1> DEFINE e == [type |-> "ack", of |-> a]
<1>1. e \in Event /\ Len(<<e>>) = 1 /\ <<e>>[1] = e /\ e.type = "ack" /\ e.of = a
  BY DEF Event
<1>2. cli \in [Approval -> {"idle", "asked", "answered", "acked"}]
  BY DEF Inv, TypeOK
<1>3. cli' \in [Approval -> {"idle", "asked", "answered", "acked"}] /\ Acked \subseteq Acked' /\ a \in Acked'
      /\ \A b \in Approval : cli'[b] \in {"answered", "acked"} => got[b] > 0
  BY <1>2 DEF Acks, Acked, Inv, Words
<1>4. \A i \in 1 .. Len(<<e>>) : <<e>>[i].of \in Acked'
  BY <1>1, <1>3
<1> QED  BY <1>1, <1>3, <1>4, PushStep DEF Acks

LEMMA ExitsStep ==
  ASSUME Inv, Exits
  PROVE  Inv'
<1> DEFINE e == [type |-> "status"]
           f == [type |-> "exit"]
<1>1. e \in Event /\ f \in Event /\ Len(<<e, f>>) = 2 /\ <<e, f>>[1] = e /\ <<e, f>>[2] = f
      /\ e.type # "ack" /\ f.type # "ack"
  BY DEF Event
<1>2. \A i \in 1 .. Len(<<e, f>>) : <<e, f>>[i].type # "ack"
  BY <1>1
<1>3. cli' \in [Approval -> {"idle", "asked", "answered", "acked"}] /\ Acked \subseteq Acked'
      /\ \A b \in Approval : cli'[b] \in {"answered", "acked"} => got[b] > 0
  BY DEF Exits, Acked, Inv, Words, TypeOK
<1> QED  BY <1>1, <1>2, <1>3, PushStep DEF Exits

\* The supervisor starts or goes; what was on its way to it is lost.
LEMMA SupStep ==
  ASSUME Inv, Launched \/ SupExits \/ SupDies \/ PidPasses
  PROVE  Inv'
<1>1. [type |-> "close"] \in Message /\ [type |-> "close"].type # "event"
  BY DEF Message
<1>2. down \in Seq(Message) /\ Len(log) \in Nat
  BY LenProperties DEF Inv, TypeOK
<1>3. down' \in Seq(Message) /\ Within(down', Len(log))
  BY <1>1, <1>2, WithinAppend DEF Launched, SupExits, SupDies, PidPasses, Inv, Wire, wire
<1>4. /\ up' \in {up, <<>>} /\ sup' \in SUPS /\ linked' \in BOOLEAN /\ (~Alive => ~Alive')
      /\ UNCHANGED <<cli, got, stopped, log, host, journal, expired, upsets>> /\ reused' \in BOOLEAN
  BY DEF Launched, SupExits, SupDies, PidPasses, SUPS, Alive, Inv, TypeOK, wire
<1>5. TypeOK'
  <2>1. up' \in Seq(Command)
    BY <1>4, EmptySeq DEF Inv, TypeOK
  <2> QED  BY <1>3, <1>4, <2>1 DEF Inv, TypeOK, journal
<1>6. Wire' /\ Words' /\ OrphanIsGone'
  BY <1>3, <1>4 DEF Inv, Wire, Within, Words, Acked, OrphanIsGone
<1>7. Tails' /\ OneDecision' /\ Row'
  <2>1. Acked' = Acked
    BY <1>4 DEF Acked
  <2>2. Fit(host'.tail, Acked', Fresh)
    BY <1>4, <2>1 DEF Inv, Tails
  <2> QED  BY <1>4, <2>1, <2>2, CarriesSame, Quietly
<1> QED  BY <1>5, <1>6, <1>7 DEF Inv

\* The supervisor reads a command.
LEMMA SupReadsStep ==
  ASSUME Inv, SupReads
  PROVE  /\ Inv'
         /\ \/ got' = got
            \/ \E a \in Approval : got' = [got EXCEPT ![a] = 1] /\ got[a] = 0 /\ Sent(up, a) # {}
<1> DEFINE c == Head(up)
<1>1. /\ up \in Seq(Command) /\ up # <<>> /\ up' = Tail(up) /\ c \in Command /\ up' \in Seq(Command)
      /\ down \in Seq(Message) /\ Len(log) \in Nat /\ sup \in {"running", "ended"}
      /\ Within(down, Len(log)) /\ got \in [Approval -> Nat]
      /\ cli \in [Approval -> {"idle", "asked", "answered", "acked"}]
  BY HeadTailProperties, LenProperties DEF SupReads, Inv, TypeOK, Wire, Listens
<1>2. UNCHANGED <<sup, log, linked, host, journal, expired, upsets>>
  BY <1>1 DEF SupReads, Attached, Decided, cliVars, Command
<1>3. \A a \in Approval : \A i \in Sent(up', a) : i \in Nat /\ i >= 1 /\ i + 1 \in Sent(up, a)
  BY <1>1, SentTail
<1>4. \A a \in Approval : \A i, j \in Sent(up', a) : i = j
  <2> SUFFICES ASSUME NEW a \in Approval, NEW i \in Sent(up', a), NEW j \in Sent(up', a) PROVE i = j
    OBVIOUS
  <2>1. i \in Nat /\ j \in Nat /\ i + 1 \in Sent(up, a) /\ j + 1 \in Sent(up, a)
    BY <1>3
  <2>2. i + 1 = j + 1
    BY <2>1, SentOnce DEF Inv
  <2> QED  BY <2>1, <2>2
<1>5. Carries
  BY <1>3, <1>4 DEF Carries
<1>6. \A a \in Approval : c = [op |-> "resolve", of |-> a] => 1 \in Sent(up, a) /\ Sent(up', a) = {}
  <2> SUFFICES ASSUME NEW a \in Approval, c = [op |-> "resolve", of |-> a]
               PROVE  1 \in Sent(up, a) /\ Sent(up', a) = {}
    OBVIOUS
  <2>1. 1 \in Sent(up, a)
    BY <1>1, SentTail
  <2>2. \A i, j \in Sent(up, a) : i = j
    BY SentOnce DEF Inv
  <2>3. \A i \in Sent(up', a) : i \in Nat /\ i >= 1 /\ i + 1 = 1
    BY <1>3, <2>1, <2>2
  <2> QED  BY <2>1, <2>3
<1>7. OrphanIsGone'
  BY <1>2 DEF Inv, OrphanIsGone, Alive
<1>8. ASSUME UNCHANGED <<cli, got>>, stopped' \in BOOLEAN, reused' \in BOOLEAN, down' \in Seq(Message), Within(down', Len(log))
      PROVE  Inv' /\ got' = got
  <2>1. TypeOK'
    BY <1>1, <1>2, <1>8 DEF Inv, TypeOK, journal
  <2>2. Wire' /\ Words' /\ Acked' = Acked
    BY <1>2, <1>8 DEF Inv, Wire, Within, Words, Acked
  <2>3. Fit(host'.tail, Acked', Fresh)
    BY <1>2, <2>2 DEF Inv, Tails
  <2> QED  BY <1>2, <1>5, <1>7, <1>8, <2>1, <2>2, <2>3, Quietly DEF Inv
<1>9. CASE c.op = "attach"
  <2> DEFINE k == Len(log) - c.after
             d == Append(down, SnapshotNow)
             e == [i \in 1 .. k |-> [type |-> "event", seq |-> c.after + i]]
  <2>1. c.after \in Nat /\ k \in Int /\ c.after + k <= Len(log)
    BY <1>1, <1>9 DEF Command
  <2>2. SnapshotNow \in Message /\ SnapshotNow.type # "event"
    BY <1>1 DEF SnapshotNow, Message
  <2>3. d \in Seq(Message) /\ Within(d, Len(log)) /\ d = down \o <<SnapshotNow>>
    <3> HIDE DEF SnapshotNow
    <3>1. d = down \o <<SnapshotNow>>
      BY <1>1, <2>2, AppendIsConcat
    <3> QED  BY <1>1, <2>2, <3>1, WithinAppend
  <2>4. d \o e \in Seq(Message) /\ Within(d \o e, Len(log))
    <3> HIDE DEF d
    <3> QED  BY <1>1, <2>1, <2>3, WithinReplay
  <2>5. UNCHANGED cliVars /\ down' = d \o e
    BY <1>9, <2>3 DEF SupReads, Attached
  <2> QED  BY <1>8, <2>4, <2>5 DEF cliVars, Inv, TypeOK
<1>10. CASE c.op = "stop"
  BY <1>1, <1>8, <1>10 DEF SupReads, Inv, TypeOK
<1>11. CASE c.op = "resolve" /\ ~(sup = "running" /\ ~stopped)
  BY <1>1, <1>8, <1>11 DEF SupReads, Decided, Inv, TypeOK
<1>12. CASE c.op = "resolve" /\ sup = "running" /\ ~stopped
  <2> DEFINE a == c.of
  <2>1. a \in Approval /\ c = [op |-> "resolve", of |-> a]
    BY <1>1, <1>12 DEF Command
  <2>2. 1 \in Sent(up, a) /\ Sent(up', a) = {}
    <3> HIDE DEF a, c
    <3> QED  BY <1>6, <2>1
  <2>3. /\ got[a] = 0 /\ receipt[a] \in {"dispatching", "awaiting", "succeeded", "uncertain"}
    BY <2>1, <2>2, SentOnce DEF Inv
  <2>4. /\ got' = [got EXCEPT ![a] = 1] /\ cli' = [cli EXCEPT ![a] = IF @ = "asked" THEN "answered" ELSE @]
        /\ UNCHANGED <<stopped, reused, down>>
    <3>1. Decided(a)
      BY <1>12 DEF SupReads
    <3> HIDE DEF a
    <3>2. got[a] + 1 = 1
      BY <2>3
    <3> QED  BY <1>12, <3>1, <3>2 DEF Decided
  <2>5. /\ cli' \in [Approval -> {"idle", "asked", "answered", "acked"}] /\ got' \in [Approval -> Nat]
        /\ Acked' = Acked
    BY <1>1, <2>1, <2>4 DEF Acked
  <2>6. TypeOK'
    BY <1>1, <1>2, <2>4, <2>5 DEF Inv, TypeOK, journal
  <2>7. Wire' /\ Words'
    BY <1>1, <1>2, <2>1, <2>4, <2>5 DEF Inv, Wire, Within, Words
  <2>8. Fresh \subseteq Fresh'
    <3> SUFFICES ASSUME NEW b \in Fresh PROVE b \in Fresh'
      OBVIOUS
    <3>1. b \in Approval /\ receipt[b] = "dispatching" /\ got[b] = 0 /\ Sent(up, b) = {} /\ b # a
      BY <2>2 DEF Fresh, Resolves, Sent
    <3>2. Sent(up', b) = {} /\ got'[b] = 0 /\ receipt'[b] = "dispatching"
      BY <1>1, <1>2, <1>5, <2>4, <3>1 DEF Carries, journal
    <3> QED  BY <3>1, <3>2 DEF Fresh, Resolves, Sent
  <2>9. Tails'
    <3>1. Fit(host.tail, Acked', Fresh')
      BY <2>5, <2>8, FitGrows DEF Inv, Tails
    <3> QED  BY <1>2, <3>1 DEF Tails, Fit
  <2>10. OneDecision'
    <3> SUFFICES ASSUME NEW b \in Approval
                 PROVE  /\ got'[b] <= 1 /\ (Sent(up', b) # {} => got'[b] = 0)
                        /\ \A i, j \in Sent(up', b) : i = j
                        /\ (got'[b] = 1 \/ Sent(up', b) # {}) => receipt'[b] \in {"dispatching", "awaiting", "succeeded", "uncertain"}
      BY DEF OneDecision, Resolves, Sent
    <3>1. CASE b = a
      <4>1. got'[a] = 1
        BY <1>1, <2>1, <2>4
      <4> HIDE DEF a
      <4> QED  BY <1>2, <2>2, <2>3, <3>1, <4>1 DEF journal
    <3>2. CASE b # a
      BY <1>1, <1>2, <1>5, <2>1, <2>4, <3>2, SentOnce DEF Inv, Carries, journal
    <3> QED  BY <3>1, <3>2
  <2>11. Row'
    BY <1>2, <2>5 DEF Inv, Row, journal
  <2> QED  BY <1>7, <2>1, <2>2, <2>3, <2>4, <2>6, <2>7, <2>9, <2>10, <2>11 DEF Inv
<1> QED  BY <1>1, <1>9, <1>10, <1>11, <1>12 DEF Command

----------------------------------------------------------------------------
(* Steps of the Host that record nothing *)

LEMMA HostStep ==
  ASSUME Inv, host' \in Task, Fit(host'.tail, Acked, Fresh), Carries,
         host'.status = "orphaned" => host.status = "orphaned" \/ ~Alive,
         UNCHANGED <<cli, got, log, journal>>,
         up' \in Seq(Command), down' \in Seq(Message), Within(down', Len(log)),
         linked' \in BOOLEAN, sup' \in SUPS, stopped' \in BOOLEAN, reused' \in BOOLEAN, ~Alive => ~Alive',
         expired' \subseteq Approval, upsets' \in [UPSETS -> Nat]
  PROVE  Inv'
<1>1. TypeOK'
  BY DEF Inv, TypeOK, journal
<1>2. Wire' /\ Words' /\ Acked' = Acked /\ OrphanIsGone'
  BY DEF Inv, Wire, Within, Words, Acked, OrphanIsGone
<1>3. Tails' /\ OneDecision' /\ Row'
  BY <1>2, Quietly
<1> QED  BY <1>1, <1>2, <1>3 DEF Inv

LEMMA UpsetIs ==
  ASSUME TypeOK, NEW u \in UPSETS, Upset(u)
  PROVE  upsets' \in [UPSETS -> Nat]
BY DEF Upset, TypeOK

\* What Inv says of the state a handler starts from
LEMMA HostHas ==
  ASSUME Inv
  PROVE  /\ host \in Task /\ Fit(host.tail, Acked, Fresh) /\ host.tail \in Seq(Operation)
         /\ up \in Seq(Command) /\ down \in Seq(Message) /\ Within(down, Len(log)) /\ Len(log) \in Nat
         /\ linked \in BOOLEAN /\ sup \in SUPS /\ stopped \in BOOLEAN /\ reused \in BOOLEAN
         /\ expired \subseteq Approval /\ upsets \in [UPSETS -> Nat] /\ log \in Seq(Event)
         /\ host.cursor \in Nat /\ host.pcursor \in Nat
BY LenProperties DEF Inv, TypeOK, Wire, Tails, Task

LEMMA ConnectStep ==
  ASSUME Inv, Connect
  PROVE  Inv'
<1> DEFINE k == IF host.cursor < host.pcursor THEN host.cursor ELSE host.pcursor
           g == [host EXCEPT !.control = "opening", !.timer = FALSE]
           c == [op |-> "attach", after |-> k]
<1>1. k \in Nat
  BY HostHas
<1>2. g \in Task /\ g.tail = host.tail /\ g.status = host.status
  BY HostHas DEF Task
<1>3. c \in Command /\ c.op = "attach"
  BY <1>1 DEF Command
<1>4. SnapshotNow \in Message /\ SnapshotNow.type = "snapshot"
  BY HostHas DEF Connect, Listens, SnapshotNow, Message
<1>5. /\ host' = g /\ linked' = TRUE /\ down' = <<SnapshotNow>> /\ up' = <<c>>
      /\ UNCHANGED <<cliVars, journal, expired, upsets>>
  BY DEF Connect
<1>6. up' \in Seq(Command) /\ down' \in Seq(Message) /\ Within(down', Len(log))
  <2> HIDE DEF c, SnapshotNow
  <2> QED  BY <1>3, <1>4, <1>5 DEF Within
<1>7. Carries
  <2>1. \A a : <<c>>[1] # [op |-> "resolve", of |-> a] /\ DOMAIN <<c>> = {1}
    BY <1>3
  <2>2. \A a : Sent(<<c>>, a) = {}
    BY <2>1 DEF Sent
  <2> QED  BY <1>5, <2>2 DEF Carries
<1>8. Fit(host'.tail, Acked, Fresh) /\ host' \in Task /\ host'.status = host.status
  BY <1>2, <1>5, HostHas
<1>9. UNCHANGED <<cli, got, log, journal, sup, stopped, reused, expired, upsets>> /\ (~Alive => ~Alive') /\ linked' \in BOOLEAN
  BY <1>5 DEF cliVars, Alive
<1> QED  BY <1>6, <1>7, <1>8, <1>9, HostHas, HostStep

LEMMA HostReadsStep ==
  ASSUME Inv, HostReads
  PROVE  Inv'
<1> DEFINE m == Head(down)
           h == CASE m.type = "snapshot" -> Snapshot(host, m)
                  [] m.type = "event"    -> Handle(host, m.seq, log[m.seq])
                  [] m.type = "close"    -> Closes(host)
<1>1. /\ down # <<>> /\ host' = h /\ down' = (IF h.control = "none" THEN <<>> ELSE Tail(down))
      /\ linked' = (linked /\ h.control # "none") /\ up' = (IF h.control = "none" THEN <<>> ELSE up)
      /\ UNCHANGED <<cliVars, journal, expired, upsets>>
  BY DEF HostReads
<1>2. m \in Message /\ Len(down) \in Nat /\ m = down[1] /\ 1 \in 1 .. Len(down)
  BY <1>1, HostHas, HeadTailProperties, EmptySeq, LenProperties
<1>3. m.type \in {"snapshot", "event", "close"}
  BY <1>2 DEF Message
<1>4. h \in Task /\ Fit(h.tail, Acked, Fresh) /\ (h.status = "orphaned" => host.status = "orphaned")
  <2>1. CASE m.type = "snapshot"
    <3>1. h = Snapshot(host, m)
      BY <2>1
    <3>2. Snapshot(host, m) \in Task /\ Snapshot(host, m).status \in {"running", "ended"} /\ Extends(host, Snapshot(host, m))
      BY <1>2, <2>1, HostHas, SnapshotIs
    <3> HIDE DEF h, m
    <3> QED  BY <3>1, <3>2, HostHas, FitExtends
  <2>2. CASE m.type = "close"
    <3>1. h = Closes(host)
      BY <2>2
    <3>2. Closes(host) \in Task /\ Closes(host).status \in {host.status, "reconnecting"} /\ Extends(host, Closes(host))
      BY HostHas, ClosesIs
    <3> HIDE DEF h, m
    <3> QED  BY <3>1, <3>2, HostHas, FitExtends
  <2>3. CASE m.type = "event"
    <3> DEFINE e == log[m.seq]
    <3>1. h = Handle(host, m.seq, e)
      BY <2>3
    <3>2. m.seq \in 1 .. Len(log) /\ m.seq \in Nat
      BY <1>2, <2>3, HostHas DEF Within
    <3>3. e \in Event
      BY <3>2, HostHas, ElementOfSeq
    <3>4. e.type = "ack" => e.of \in Acked
      BY <3>2 DEF Inv, Words
    <3>5. e.type = "ack" => [op |-> "ack", of |-> e.of] \in Operation
      BY <3>3 DEF Event, Operation
    <3> HIDE DEF h, m, e
    <3>6. /\ h \in Task /\ h.status \in {host.status, "ended"}
          /\ \/ Extends(host, h)
             \/ e.type = "ack" /\ h.tail = Append(host.tail, [op |-> "ack", of |-> e.of])
      BY <3>1, <3>2, <3>3, HostHas, HandleIs
    <3>7. CASE Extends(host, h)
      BY <3>6, <3>7, HostHas, FitExtends
    <3>8. CASE e.type = "ack" /\ h.tail = Append(host.tail, [op |-> "ack", of |-> e.of])
      BY <3>4, <3>5, <3>6, <3>8, HostHas, FitAppend
    <3> QED  BY <3>6, <3>7, <3>8
  <2> HIDE DEF h, m
  <2> QED  BY <1>3, <2>1, <2>2, <2>3
<1> HIDE DEF h
<1>5. down' \in Seq(Message) /\ Within(down', Len(log))
  <2>1. Tail(down) \in Seq(Message) /\ Within(Tail(down), Len(log))
    BY <1>1, HostHas, WithinTail
  <2>2. <<>> \in Seq(Message) /\ Within(<<>>, Len(log))
    BY EmptySeq DEF Within
  <2> QED  BY <1>1, <2>1, <2>2
<1>6. up' \in {up, <<>>} /\ up' \in Seq(Command) /\ linked' \in BOOLEAN
  BY <1>1, HostHas, EmptySeq
<1>7. UNCHANGED <<cli, got, log, sup, stopped, reused, journal, expired, upsets>> /\ (~Alive => ~Alive')
  BY <1>1 DEF cliVars, Alive
<1> QED  BY <1>1, <1>4, <1>5, <1>6, <1>7, CarriesSame, HostHas, HostStep

\* The task object alone changes.
LEMMA TaskStep ==
  ASSUME Inv, host' \in Task, Fit(host'.tail, Acked, Fresh),
         host'.status = "orphaned" => host.status = "orphaned" \/ ~Alive,
         UNCHANGED <<cliVars, wire, journal>>, expired' \subseteq Approval, upsets' \in [UPSETS -> Nat]
  PROVE  Inv'
BY CarriesSame, HostHas, HostStep DEF cliVars, wire, Alive

LEMMA TimerStep ==
  ASSUME Inv, ConnectFails \/ GivesUp \/ TimerEnds
  PROVE  Inv'
<1>1. CASE ConnectFails
  <2>1. host' = Closes(host) /\ UNCHANGED <<cliVars, wire, journal, expired, upsets>>
    BY <1>1 DEF ConnectFails
  <2>2. Closes(host) \in Task /\ Closes(host).status \in {host.status, "reconnecting"} /\ Extends(host, Closes(host))
    BY HostHas, ClosesIs
  <2> QED  BY <2>1, <2>2, HostHas, FitExtends, TaskStep
<1>2. CASE GivesUp
  <2> DEFINE g == [host EXCEPT !.timer = FALSE]
             k == SetStatus(g, "orphaned")
  <2>1. host' = k /\ ~Alive /\ UNCHANGED <<cliVars, wire, journal, expired, upsets>>
    BY <1>2 DEF GivesUp, PidAlive
  <2>2. g \in Task /\ g.tail = host.tail
    BY HostHas DEF Task
  <2>3. k \in Task /\ Extends(g, k)
    BY <2>2, SetStatusIs DEF STATUSES
  <2> HIDE DEF g, k
  <2>4. Fit(k.tail, Acked, Fresh)
    BY <2>2, <2>3, HostHas, FitExtends
  <2> QED  BY <2>1, <2>3, <2>4, HostHas, TaskStep
<1>3. CASE TimerEnds
  <2> DEFINE g == [host EXCEPT !.timer = FALSE]
  <2>1. host' = g /\ UNCHANGED <<cliVars, wire, journal, expired, upsets>>
    BY <1>3 DEF TimerEnds
  <2>2. g \in Task /\ g.tail = host.tail /\ g.status = host.status
    BY HostHas DEF Task
  <2> QED  BY <2>1, <2>2, HostHas, TaskStep
<1> QED  BY <1>1, <1>2, <1>3

LEMMA LosesStep ==
  ASSUME Inv, Loses
  PROVE  Inv'
<1>1. /\ host' = Closes(host) /\ linked' = FALSE /\ up' = <<>> /\ down' = <<>>
      /\ UNCHANGED <<cliVars, journal, expired>> /\ upsets' \in [UPSETS -> Nat]
  BY UpsetIs DEF Loses, Inv, UPSETS
<1>2. Closes(host) \in Task /\ Closes(host).status \in {host.status, "reconnecting"} /\ Extends(host, Closes(host))
  BY HostHas, ClosesIs
<1>3. up' \in Seq(Command) /\ down' \in Seq(Message) /\ Within(down', Len(log))
  BY <1>1, EmptySeq DEF Within
<1>4. UNCHANGED <<cli, got, log, sup, stopped, reused, journal, expired>> /\ (~Alive => ~Alive')
  BY <1>1 DEF cliVars, Alive
<1>5. Fit(host'.tail, Acked, Fresh)
  BY <1>1, <1>2, HostHas, FitExtends
<1> QED  BY <1>1, <1>2, <1>3, <1>4, <1>5, CarriesSame, HostHas, HostStep

LEMMA RequestStep ==
  ASSUME Inv, Opened \/ Send \/ Stop \/ StopEnds
  PROVE  Inv'
<1>1. CASE Opened
  <2> DEFINE g == [host EXCEPT !.opening = FALSE]
  <2>1. g \in Task /\ g.tail = host.tail /\ g.status = host.status
    BY HostHas DEF Task
  <2>2. host' \in {g, RecordStart(g)} /\ UNCHANGED <<cliVars, wire, journal, expired, upsets>>
    BY <1>1 DEF Opened
  <2>3. Keeps(g, RecordStart(g))
    BY <2>1, RecordsKeep
  <2> HIDE DEF g
  <2>4. host' \in Task /\ host'.status = host.status /\ Extends(g, host')
    BY <2>1, <2>2, <2>3 DEF Keeps, Extends
  <2>5. Fit(host'.tail, Acked, Fresh)
    BY <2>1, <2>4, HostHas, FitExtends
  <2> QED  BY <2>2, <2>4, <2>5, HostHas, TaskStep
<1>2. CASE Send
  <2>1. host' = SetStatus(host, "running") /\ UNCHANGED <<cliVars, wire, journal, expired, upsets>>
    BY <1>2 DEF Send
  <2>2. SetStatus(host, "running") \in Task /\ SetStatus(host, "running").status = "running"
        /\ Extends(host, SetStatus(host, "running"))
    BY HostHas, SetStatusIs DEF STATUSES
  <2> QED  BY <2>1, <2>2, HostHas, FitExtends, TaskStep
<1>3. CASE Stop \/ StopEnds
  <2> DEFINE g == [host EXCEPT !.stopping = "asked"]
             k == [host EXCEPT !.stopping = "no"]
  <2>1. g \in Task /\ g.tail = host.tail /\ g.status = host.status
    BY HostHas DEF Task
  <2>2. k \in Task /\ k.tail = host.tail /\ k.status = host.status
    BY HostHas DEF Task
  <2>3. host' \in {g, k} /\ UNCHANGED <<cliVars, wire, journal, expired>> /\ upsets' \in [UPSETS -> Nat]
    BY <1>3, HostHas, UpsetIs DEF Stop, StopEnds, Inv, UPSETS
  <2> HIDE DEF g, k
  <2> QED  BY <2>1, <2>2, <2>3, HostHas, TaskStep
<1> QED  BY <1>1, <1>2, <1>3

LEMMA OpenFailsStep ==
  ASSUME Inv, OpenFails
  PROVE  Inv'
<1> DEFINE g == [host EXCEPT !.opening = FALSE]
           k == SetStatus(g, "ended")
<1>1. host' = k /\ UNCHANGED <<cli, got, log, wire, journal, expired, upsets>>
  BY DEF OpenFails
<1>2. stopped' \in BOOLEAN /\ reused' \in BOOLEAN /\ sup' \in SUPS /\ (~Alive => ~Alive')
  BY HostHas DEF OpenFails, SUPS, Alive
<1>3. g \in Task /\ g.tail = host.tail
  BY HostHas DEF Task
<1>4. k \in Task /\ Extends(g, k) /\ k.status = "ended"
  BY <1>3, SetStatusIs DEF STATUSES
<1> HIDE DEF g, k
<1>5. Fit(k.tail, Acked, Fresh)
  BY <1>3, <1>4, HostHas, FitExtends
<1> QED  BY <1>1, <1>2, <1>4, <1>5, HostHas, CarriesSame, HostStep DEF wire

LEMMA StopSendsStep ==
  ASSUME Inv, StopSends
  PROVE  Inv'
<1> DEFINE g == [host EXCEPT !.stopping = "sent"]
           c == [op |-> "stop"]
<1>1. host' = g /\ up' = Append(up, c) /\ UNCHANGED <<cliVars, linked, down, journal, expired, upsets>>
  BY DEF StopSends
<1>2. g \in Task /\ g.tail = host.tail /\ g.status = host.status
  BY HostHas DEF Task
<1>3. c \in Command /\ c.op # "resolve"
  BY DEF Command
<1>4. \A a : c # [op |-> "resolve", of |-> a]
  <2> SUFFICES ASSUME NEW a, c = [op |-> "resolve", of |-> a] PROVE FALSE
    OBVIOUS
  <2> QED  BY <1>3
<1> HIDE DEF g, c
<1>5. up' \in Seq(Command) /\ \A a : Sent(up', a) = Sent(up, a)
  BY <1>1, <1>3, <1>4, HostHas, AppendProperties, SentAppend
<1>6. Carries
  BY <1>5, SentOnce DEF Carries, Inv
<1>7. UNCHANGED <<cli, got, log, sup, stopped, reused, linked, down, journal, expired, upsets>> /\ (~Alive => ~Alive')
  BY <1>1 DEF cliVars, Alive
<1> QED  BY <1>1, <1>2, <1>5, <1>6, <1>7, HostHas, HostStep

LEMMA ResolveStep ==
  ASSUME Inv, NEW a \in Approval, Resolve(a)
  PROVE  Inv'
<1> DEFINE o == [op |-> "admit", of |-> a]
<1>1. host' = Queued(host, o) /\ UNCHANGED <<cliVars, wire, journal, expired, upsets>>
  BY DEF Resolve
<1>2. o \in Operation /\ o.op = "admit"
  BY Operations
<1> HIDE DEF o
<1>3. host' \in Task /\ host'.status = host.status /\ host'.tail \in {host.tail, Append(host.tail, o)}
  BY <1>1, <1>2, HostHas, QueuedIs
<1>4. Fit(host'.tail, Acked, Fresh)
  BY <1>2, <1>3, HostHas, FitAppend
<1> QED  BY <1>1, <1>3, <1>4, HostHas, TaskStep

LEMMA ExpiresStep ==
  ASSUME Inv, NEW a \in Approval, Expires(a)
  PROVE  Inv'
BY HostHas, TaskStep DEF Expires

LEMMA RestartStep ==
  ASSUME Inv, Restart
  PROVE  Inv'
<1>1. PICK s \in STATUSES, b \in BOOLEAN :
        host' = Reloaded(s, b) /\ (s = "orphaned" => ~Alive)
  BY HostHas DEF Restart, STATUSES, Task, Alive
<1>2. /\ linked' = FALSE /\ up' = <<>> /\ down' = <<>>
      /\ UNCHANGED <<cliVars, journal, expired>> /\ upsets' \in [UPSETS -> Nat]
  BY UpsetIs DEF Restart, Inv, UPSETS
<1>3. host' \in Task /\ host'.status = s /\ host'.tail \in {<<>>} \cup {<<o>> : o \in Quiet}
  BY <1>1, ReloadedIs DEF Inv
<1>4. Fit(host'.tail, Acked, Fresh)
  BY <1>3, FitReloaded
<1>5. up' \in Seq(Command) /\ down' \in Seq(Message) /\ Within(down', Len(log))
  BY <1>2, EmptySeq DEF Within
<1>6. UNCHANGED <<cli, got, log, sup, stopped, reused, journal, expired>> /\ (~Alive => ~Alive')
  BY <1>2 DEF cliVars, Alive
<1> QED  BY <1>1, <1>2, <1>3, <1>4, <1>5, <1>6, CarriesSame, HostHas, HostStep

LEMMA JournalRefusesStep ==
  ASSUME Inv, JournalRefuses
  PROVE  Inv'
<1>1. /\ host' = Popped(host) /\ host.tail # <<>> /\ UNCHANGED <<cliVars, wire, journal, expired>>
      /\ upsets' \in [UPSETS -> Nat]
  BY HostHas, UpsetIs DEF JournalRefuses, Calls, Inv, UPSETS
<1>2. Popped(host) \in Task /\ Popped(host).status = host.status /\ Fit(Popped(host).tail, Acked, Fresh)
  BY <1>1, HostHas, PoppedIs
<1> QED  BY <1>1, <1>2, HostHas, TaskStep

----------------------------------------------------------------------------
(* Decisions that are sent, and what the journal records *)

LEMMA SendsStep ==
  ASSUME Inv, Sends
  PROVE  Inv' /\ UNCHANGED <<got, journal>>
<1> DEFINE a == Head(host.tail).of
           c == [op |-> "resolve", of |-> a]
           o == [op |-> "pipe", of |-> a]
<1>1. host.tail # <<>> /\ Head(host.tail).op = "send" /\ UNCHANGED <<cliVars, linked, down, journal, expired, upsets>>
  BY DEF Sends, InTail
<1>2. /\ Popped(host) \in Task /\ Popped(host).status = host.status
      /\ Fit(Popped(host).tail, Acked, {}) /\ Fit(Popped(host).tail, Acked, Fresh)
      /\ a \in Fresh
  BY <1>1, HostHas, PoppedIs
<1>3. CASE host.control # "ready"
  <2>1. host' = Popped(host) /\ UNCHANGED up
    BY <1>3 DEF Sends
  <2> QED  BY <1>1, <1>2, <2>1, HostHas, TaskStep DEF wire, cliVars
<1>4. CASE host.control = "ready"
  <2>1. up' = Append(up, c) /\ host' = Queued(Popped(host), o)
    BY <1>4 DEF Sends
  <2>2. /\ a \in Approval /\ receipt[a] = "dispatching" /\ got[a] = 0 /\ Sent(up, a) = {}
    BY <1>2 DEF Fresh, Resolves, Sent
  <2>3. c \in Command /\ o \in Operation /\ o.op = "pipe"
    BY <2>2, Operations DEF Command
  <2>4. \A b : c = [op |-> "resolve", of |-> b] <=> b = a
    OBVIOUS
  <2> HIDE DEF c, o, a
  <2>5. up' \in Seq(Command) /\ \A b : Sent(up', b) = IF b = a THEN {Len(up) + 1} ELSE Sent(up, b)
    <3>1. up \in Seq(Command) /\ Append(up, c) \in Seq(Command)
      BY <2>3, HostHas, AppendProperties
    <3>2. ASSUME NEW b PROVE Sent(Append(up, c), b) = IF b = a THEN {Len(up) + 1} ELSE Sent(up, b)
      <4>1. Sent(Append(up, c), b) = IF c = [op |-> "resolve", of |-> b] THEN Sent(up, b) \cup {Len(up) + 1} ELSE Sent(up, b)
        BY <2>3, <3>1, SentAppend
      <4>2. CASE b = a
        BY <2>2, <2>4, <4>1, <4>2
      <4>3. CASE b # a
        BY <2>4, <4>1, <4>3
      <4> QED  BY <4>2, <4>3
    <3> QED  BY <2>1, <3>1, <3>2
  <2>6. /\ host' \in Task /\ host'.status = host.status
        /\ host'.tail \in {Popped(host).tail, Append(Popped(host).tail, o)}
    BY <1>2, <2>1, <2>3, QueuedIs
  <2>7. Fit(host'.tail, Acked, {})
    <3>1. Popped(host).tail \in Seq(Operation)
      BY <1>2 DEF Task
    <3> QED  BY <1>2, <2>3, <2>6, <3>1, FitAppend
  <2>8. TypeOK'
    BY <1>1, <2>5, <2>6 DEF Inv, TypeOK, cliVars, journal
  <2>9. Wire' /\ Words' /\ Acked' = Acked /\ OrphanIsGone'
    BY <1>1, <2>6 DEF Inv, Wire, Within, Words, Acked, OrphanIsGone, Alive, cliVars
  <2>10. Tails'
    BY <2>7, <2>9, FitGrows DEF Tails, Fit
  <2>11. OneDecision'
    <3> SUFFICES ASSUME NEW b \in Approval
                 PROVE  /\ got'[b] <= 1 /\ (Sent(up', b) # {} => got'[b] = 0)
                        /\ \A i, j \in Sent(up', b) : i = j
                        /\ (got'[b] = 1 \/ Sent(up', b) # {}) => receipt'[b] \in {"dispatching", "awaiting", "succeeded", "uncertain"}
      BY DEF OneDecision, Resolves, Sent
    <3>1. CASE b = a
      BY <1>1, <2>2, <2>5, <3>1 DEF journal, cliVars
    <3>2. CASE b # a
      BY <1>1, <2>5, <3>2, SentOnce DEF Inv, journal, cliVars
    <3> QED  BY <3>1, <3>2
  <2>12. Row'
    BY <1>1, <2>9 DEF Inv, Row, journal
  <2> QED  BY <1>1, <2>8, <2>9, <2>10, <2>11, <2>12 DEF Inv, cliVars
<1> QED  BY <1>1, <1>3, <1>4 DEF cliVars

\* A committed operation keeps the records true.
LEMMA CommitsIs ==
  ASSUME Inv, NEW o \in Operation, Accepts(o), Commits(o), o.op = "ack" => o.of \in Acked,
         UNCHANGED <<cli, got, up>>
  PROVE  /\ run' \in RUNS /\ approval' \in [Approval -> APPROVALS] /\ receipt' \in [Approval -> RECEIPTS]
         /\ Row' /\ OneDecision' /\ (o.op = "dispatch" => o.of \in Fresh')
<1>1. /\ run \in RUNS /\ approval \in [Approval -> APPROVALS] /\ receipt \in [Approval -> RECEIPTS]
      /\ got \in [Approval -> Nat]
  BY DEF Inv, TypeOK
<1>2. o.op \in {"request", "admit", "dispatch", "pipe", "ack"} => o.of \in Approval
  BY OperationIs
<1>3. Acked' = Acked
  BY DEF Acked
<1>4. run' \in RUNS /\ approval' \in [Approval -> APPROVALS] /\ receipt' \in [Approval -> RECEIPTS]
  BY <1>1, <1>2 DEF Commits, RunEnds, Decides, Receives, RUNS, APPROVALS, RECEIPTS
<1>5. \A a \in Approval : receipt[a] \in {"dispatching", "awaiting", "succeeded", "uncertain"}
                          => receipt'[a] \in {"dispatching", "awaiting", "succeeded", "uncertain"}
  <2> SUFFICES ASSUME NEW a \in Approval, receipt[a] \in {"dispatching", "awaiting", "succeeded", "uncertain"}
               PROVE  receipt'[a] \in {"dispatching", "awaiting", "succeeded", "uncertain"}
    OBVIOUS
  <2>1. o.op = "admit" => o.of # a
    BY DEF Accepts, Inv, Row
  <2> QED  BY <1>1, <1>2, <2>1 DEF Commits, RunEnds, Receives
<1>6. OneDecision'
  <2> SUFFICES ASSUME NEW b \in Approval
               PROVE  /\ got'[b] <= 1 /\ (Sent(up', b) # {} => got'[b] = 0)
                      /\ \A i, j \in Sent(up', b) : i = j
                      /\ (got'[b] = 1 \/ Sent(up', b) # {}) => receipt'[b] \in {"dispatching", "awaiting", "succeeded", "uncertain"}
    BY DEF OneDecision, Resolves, Sent
  <2> QED  BY <1>5, SentOnce DEF Inv
<1>7. o.op = "dispatch" => o.of \in Fresh'
  <2> SUFFICES ASSUME o.op = "dispatch" PROVE o.of \in Fresh'
    OBVIOUS
  <2>1. receipt[o.of] = "accepted" /\ o.of \in Approval /\ receipt' = [receipt EXCEPT ![o.of] = "dispatching"]
    BY <1>2 DEF Accepts, Commits, Receives
  <2>2. got[o.of] = 0 /\ Sent(up, o.of) = {}
    BY <1>1, <2>1, SentOnce DEF Inv
  <2> QED  BY <1>1, <2>1, <2>2 DEF Fresh, Resolves, Sent
<1>8. Row'
  <2>1. \A a \in Approval :
       /\ approval'[a] \in {"none", "pending"} => receipt'[a] = "none"
       /\ approval'[a] = "decided" => receipt'[a] # "none"
       /\ approval'[a] = "acked" => receipt'[a] = "succeeded"
       /\ receipt'[a] = "succeeded" => approval'[a] = "acked" /\ a \in Acked
       /\ approval'[a] = "over" => run' = "ended"
    <3> SUFFICES ASSUME NEW a \in Approval
                 PROVE  /\ approval'[a] \in {"none", "pending"} => receipt'[a] = "none"
                        /\ approval'[a] = "decided" => receipt'[a] # "none"
                        /\ approval'[a] = "acked" => receipt'[a] = "succeeded"
                        /\ receipt'[a] = "succeeded" => approval'[a] = "acked" /\ a \in Acked
                        /\ approval'[a] = "over" => run' = "ended"
      OBVIOUS
    <3>1. /\ approval[a] \in {"none", "pending"} => receipt[a] = "none"
          /\ approval[a] = "decided" => receipt[a] # "none"
          /\ approval[a] = "acked" => receipt[a] = "succeeded"
          /\ receipt[a] = "succeeded" => approval[a] = "acked" /\ a \in Acked
          /\ approval[a] = "over" => run = "ended"
          /\ approval[a] \in APPROVALS /\ receipt[a] \in RECEIPTS
      BY <1>1 DEF Inv, Row
    <3>2. CASE o.op \in {"start", "resume", "orphaned"}
      BY <1>1, <3>1, <3>2 DEF Commits, Accepts
    <3>3. CASE o.op = "terminal"
      BY <1>1, <3>1, <3>3 DEF Commits, RunEnds, APPROVALS, RECEIPTS
    <3>4. CASE o.op \in {"request", "admit", "dispatch", "pipe", "ack"} /\ o.of # a
      BY <1>1, <1>2, <3>1, <3>4 DEF Commits, Accepts, Decides, Receives
    <3>5. CASE o.op \in {"request", "admit", "dispatch", "pipe", "ack"} /\ o.of = a
      BY <1>1, <3>1, <3>5 DEF Commits, Accepts, Decides, Receives, APPROVALS
    <3> QED  BY <3>2, <3>3, <3>4, <3>5 DEF Commits
  <2>2. run' = "starting" => \A a \in Approval : approval'[a] = "none"
    <3> SUFFICES ASSUME run' = "starting", NEW a \in Approval PROVE approval'[a] = "none"
      OBVIOUS
    <3>1. run = "starting"
      BY DEF Commits, RunEnds
    <3>2. \A b \in Approval : approval[b] = "none" /\ receipt[b] = "none"
      BY <3>1 DEF Inv, Row
    <3>3. o.op \notin {"admit", "ack"}
      BY <1>2, <3>1, <3>2 DEF Accepts
    <3>4. approval' = approval
      BY <3>3 DEF Commits, RunEnds
    <3> QED  BY <3>2, <3>4
  <2>3. run' = "running" => \A a \in Approval : approval'[a] \in {"none", "acked"}
    <3> SUFFICES ASSUME run' = "running", NEW a \in Approval PROVE approval'[a] \in {"none", "acked"}
      OBVIOUS
    <3>1. approval[a] = "over" => run = "ended"
      BY DEF Inv, Row
    <3>2. CASE o.op = "start"
      BY <3>2 DEF Commits, Accepts, Inv, Row
    <3>3. CASE o.op = "resume"
      BY <1>1, <3>1, <3>3 DEF Commits, Accepts, Unsettled, APPROVALS
    <3>4. CASE o.op \in {"admit", "dispatch", "pipe", "ack"}
      <4>1. run = "running" /\ o.op \in {"pipe", "ack"}
        <5>1. run' = run
          BY <3>4 DEF Commits
        <5>2. o.op \in {"admit", "dispatch"} => run = "waiting"
          BY DEF Accepts
        <5> QED  BY <3>4, <5>1, <5>2
      <4>2. \A b \in Approval : approval[b] \in {"none", "acked"}
        BY <4>1 DEF Inv, Row
      <4>3. approval' = approval \/ approval' = [approval EXCEPT ![o.of] = "acked"]
        BY <4>1 DEF Commits, Decides
      <4> QED  BY <1>1, <1>2, <4>1, <4>2, <4>3
    <3> QED  BY <3>2, <3>3, <3>4 DEF Commits, RunEnds
  <2> QED  BY <1>3, <2>1, <2>2, <2>3 DEF Row
<1> QED  BY <1>4, <1>6, <1>7, <1>8

LEMMA JournalStep ==
  ASSUME Inv, JournalRuns \/ JournalFails
  PROVE  /\ Inv' /\ UNCHANGED got
         /\ \/ UNCHANGED journal
            \/ \E o \in Operation : Accepts(o) /\ Commits(o) /\ (o.op = "ack" => o.of \in Acked)
<1> DEFINE o == Head(host.tail)
<1>1. /\ host.tail # <<>> /\ o.op # "send" /\ UNCHANGED <<cliVars, wire, expired>> /\ upsets' \in [UPSETS -> Nat]
  BY HostHas, UpsetIs DEF JournalRuns, JournalFails, Calls, InTail, Inv, UPSETS
<1>2. o \in Operation /\ (o.op = "ack" => o.of \in Acked)
  BY <1>1, HostHas, PoppedIs
<1>3. \/ UNCHANGED journal /\ host' = Replayed(host, o)
      \/ Accepts(o) /\ Commits(o) /\ host' = After(host, o)
      \/ /\ host' = [host EXCEPT !.ready = FALSE, !.tail = <<>>]
         /\ UNCHANGED journal \/ (Accepts(o) /\ Commits(o))
  BY DEF JournalRuns, JournalFails
<1> HIDE DEF o
<1>4. \A g \in Task : [g EXCEPT !.ready = FALSE, !.tail = <<>>] \in Task
                      /\ [g EXCEPT !.ready = FALSE, !.tail = <<>>].tail = <<>>
                      /\ [g EXCEPT !.ready = FALSE, !.tail = <<>>].status = g.status
  BY EmptySeq DEF Task
<1>5. \A G : Fit(<<>>, Acked, G)
  BY DEF Fit
<1>6. CASE UNCHANGED journal /\ host' = Replayed(host, o)
  <2>1. host' \in Task /\ Fit(host'.tail, Acked, Fresh) /\ (host'.status = "orphaned" => host.status = "orphaned")
    BY <1>1, <1>6, HostHas, ReplayedIs DEF o
  <2> QED  BY <1>1, <1>6, <2>1, HostHas, TaskStep DEF cliVars
<1>7. CASE UNCHANGED journal /\ host' = [host EXCEPT !.ready = FALSE, !.tail = <<>>]
  BY <1>1, <1>4, <1>5, <1>7, HostHas, TaskStep DEF cliVars
<1>8. CASE /\ Accepts(o) /\ Commits(o)
           /\ host' \in {After(host, o), [host EXCEPT !.ready = FALSE, !.tail = <<>>]}
  <2>1. /\ run' \in RUNS /\ approval' \in [Approval -> APPROVALS] /\ receipt' \in [Approval -> RECEIPTS]
        /\ Row' /\ OneDecision' /\ (o.op = "dispatch" => o.of \in Fresh')
    BY <1>1, <1>2, <1>8, CommitsIs DEF cliVars, wire
  <2>2. host' \in Task /\ Fit(host'.tail, Acked, Fresh') /\ (host'.status = "orphaned" => host.status = "orphaned")
    <3>1. CASE host' = After(host, o)
      BY <1>1, <2>1, <3>1, HostHas, AfterIs DEF o
    <3>2. CASE host' = [host EXCEPT !.ready = FALSE, !.tail = <<>>]
      BY <1>4, <1>5, <3>2, HostHas
    <3> QED  BY <1>8, <3>1, <3>2
  <2>3. Acked' = Acked
    BY <1>1 DEF Acked, cliVars
  <2>4. Tails'
    BY <2>2, <2>3 DEF Tails, Fit
  <2>5. TypeOK'
    BY <1>1, <2>1, <2>2 DEF Inv, TypeOK, cliVars, wire
  <2>6. Wire' /\ Words' /\ OrphanIsGone'
    BY <1>1, <2>2, <2>3 DEF Inv, Wire, Within, Words, OrphanIsGone, Alive, cliVars, wire
  <2> QED  BY <1>1, <1>2, <1>8, <2>1, <2>4, <2>5, <2>6 DEF Inv, cliVars
<1> QED  BY <1>3, <1>6, <1>7, <1>8

LEMMA Initially == Init => Inv
<1> SUFFICES ASSUME Init PROVE Inv
  OBVIOUS
<1>1. host \in Task /\ host.tail = <<>> /\ host.status = "starting"
  BY EmptySeq DEF Init, Task, STATUSES
<1>2. TypeOK
  BY <1>1, EmptySeq DEF Init, TypeOK, SUPS, RUNS, APPROVALS, RECEIPTS
<1>3. Wire /\ Tails
  BY <1>1 DEF Init, Wire, Tails, Within, Fit
<1>4. \A a \in Approval : Resolves(a) = {} /\ got[a] = 0
  <2>1. up = <<>> /\ DOMAIN up = {} /\ got = [a \in Approval |-> 0]
    BY DEF Init
  <2> QED  BY <2>1 DEF Resolves
<1>5. Words /\ Row
  BY DEF Init, Words, Row
<1>6. OneDecision
  <2> SUFFICES ASSUME NEW a \in Approval
               PROVE  /\ got[a] <= 1 /\ (Resolves(a) # {} => got[a] = 0)
                      /\ \A i, j \in Resolves(a) : i = j
                      /\ (got[a] = 1 \/ Resolves(a) # {}) => receipt[a] \in {"dispatching", "awaiting", "succeeded", "uncertain"}
    BY DEF OneDecision
  <2>1. Resolves(a) = {} /\ got[a] = 0
    BY <1>4
  <2> HIDE DEF Resolves
  <2> QED  BY <2>1
<1>7. OrphanIsGone
  BY <1>1 DEF OrphanIsGone
<1> QED  BY <1>2, <1>3, <1>5, <1>6, <1>7 DEF Inv

LEMMA InvStep == Inv /\ [Next]_vars => Inv'
<1> SUFFICES ASSUME Inv, [Next]_vars PROVE Inv'
  OBVIOUS
<1>1. CASE UNCHANGED vars
  BY <1>1, HostHas, TaskStep DEF vars
<1>2. CASE Supervisor
  BY <1>2, SupStep, ExitsStep, SupReadsStep, AsksStep, AcksStep DEF Supervisor
<1>3. CASE Connection
  BY <1>3, ConnectStep, TimerStep, HostReadsStep, LosesStep DEF Connection
<1>4. CASE Journal
  BY <1>4, JournalStep, JournalRefusesStep, SendsStep DEF Journal
<1>5. CASE Requests
  BY <1>5, RequestStep, OpenFailsStep, StopSendsStep, ResolveStep DEF Requests
<1>6. CASE Restart
  BY <1>6, RestartStep
<1>7. ASSUME NEW a \in Approval, Expires(a) PROVE Inv'
  BY <1>7, ExpiresStep
<1> QED  BY <1>1, <1>2, <1>3, <1>4, <1>5, <1>6, <1>7 DEF Next

\* Whatever crashes, breaks or is lost: the records, the words of the CLI and
\* what is on its way keep fitting each other.
THEOREM Invariance == Spec => []Inv
BY Initially, InvStep, PTL DEF Spec

\* Every variable keeps its type.
THEOREM TypeCorrect == Spec => []TypeOK
<1>1. Inv => TypeOK
  BY DEF Inv
<1> QED  BY <1>1, Invariance, PTL

\* The CLI is given one decision of an approval at most, and only one whose
\* dispatch is in the journal (resolveApprovalDurable).
THEOREM DecidesOnce == Spec => []OneDecision
<1>1. Inv => OneDecision
  BY DEF Inv
<1> QED  BY <1>1, Invariance, PTL

\* A decision counts as taken when the CLI has said so, and the run goes on when
\* every approval it asked for is (planApprovalAcknowledgement, run.resumed).
THEOREM WaitsForTheAck == Spec => []GoesOnWhenAcked
<1>1. Inv => GoesOnWhenAcked
  BY DEF Inv, Row, GoesOnWhenAcked, Acked
<1> QED  BY <1>1, Invariance, PTL

\* A task is given up as orphaned only when its supervisor is gone.
THEOREM OrphansAreGone == Spec => []OrphanIsGone
<1>1. Inv => OrphanIsGone
  BY DEF Inv
<1> QED  BY <1>1, Invariance, PTL

----------------------------------------------------------------------------
(* The refinement: every step is one of ApprovalDelivery's, or none of them *)

StageMap == [a \in Approval |-> Stage(a)]

LEMMA QuietSteps ==
  ASSUME UNCHANGED <<got, journal>>
  PROVE  UNCHANGED <<StageMap, Phase>>
BY DEF StageMap, Stage, Phase, journal

\* A decision that reaches the CLI
LEMMA DecidedDelivers ==
  ASSUME Inv, NEW a \in Approval, got' = [got EXCEPT ![a] = 1], got[a] = 0, Resolves(a) # {}, UNCHANGED journal
  PROVE  Delivery!Deliver(a)
<1>1. receipt[a] \in {"dispatching", "awaiting", "succeeded", "uncertain"} /\ got \in [Approval -> Nat]
  BY DEF Inv, OneDecision, TypeOK
<1>2. receipt[a] # "succeeded"
  BY DEF Inv, Row, Words, Acked
<1>3. Stage(a) = "decided"
  BY <1>1, <1>2 DEF Stage
<1>4. Phase' = Phase
  BY DEF Phase, journal
<1>5. StageMap' = [StageMap EXCEPT ![a] = "delivered"]
  <2>1. \A b \in Approval : Stage(b)' = IF b = a THEN "delivered" ELSE Stage(b)
    BY <1>1, <1>2 DEF Stage, journal
  <2> QED  BY <2>1 DEF StageMap
<1> QED  BY <1>3, <1>4, <1>5 DEF Delivery!Deliver, Delivery!Comes, StageMap

\* An operation that the journal takes
LEMMA CommitDelivers ==
  ASSUME Inv, NEW o \in Operation, Accepts(o), Commits(o), o.op = "ack" => o.of \in Acked, UNCHANGED got
  PROVE  Delivery!Next \/ UNCHANGED <<StageMap, Phase>>
<1>1. /\ run \in RUNS /\ approval \in [Approval -> APPROVALS] /\ receipt \in [Approval -> RECEIPTS]
      /\ got \in [Approval -> Nat]
  BY DEF Inv, TypeOK
<1>2. \A a \in Approval : /\ approval[a] \in {"none", "pending"} => receipt[a] = "none"
                          /\ approval[a] = "decided" => receipt[a] # "none"
                          /\ approval[a] = "acked" => receipt[a] = "succeeded"
                          /\ approval[a] = "over" => run = "ended"
                          /\ receipt[a] = "succeeded" => got[a] > 0
                          /\ got[a] > 0 => receipt[a] \in {"dispatching", "awaiting", "succeeded", "uncertain"}
  BY <1>1, SentOnce DEF Inv, Row, Words, Acked
<1>3. o.op \in {"request", "admit", "dispatch", "pipe", "ack"} => o.of \in Approval
  BY OperationIs
<1>4. CASE o.op = "start"
  <2>1. run = "starting" /\ run' = "running" /\ UNCHANGED <<approval, receipt>>
    BY <1>4 DEF Accepts, Commits
  <2>2. Phase = "starting" /\ Phase' = "running" /\ UNCHANGED StageMap
    BY <2>1 DEF Phase, StageMap, Stage
  <2> QED  BY <2>2 DEF Delivery!Next, Delivery!Start, StageMap
<1>5. CASE o.op = "request"
  <2> DEFINE a == o.of
  <2>1. /\ a \in Approval /\ run \in {"running", "waiting"} /\ approval[a] = "none" /\ run' = "waiting"
        /\ approval' = [approval EXCEPT ![a] = "pending"] /\ UNCHANGED receipt
    BY <1>3, <1>5 DEF Accepts, Commits, Decides
  <2> HIDE DEF a
  <2>2. receipt[a] = "none" /\ got[a] = 0
    BY <1>1, <1>2, <2>1
  <2>3. Phase = run /\ Phase' = "waiting" /\ Stage(a) = "unasked"
    BY <2>1, <2>2 DEF Phase, Stage
  <2>4. StageMap' = [StageMap EXCEPT ![a] = "open"]
    <3>1. \A b \in Approval : Stage(b)' = IF b = a THEN "open" ELSE Stage(b)
      BY <1>1, <2>1, <2>2 DEF Stage
    <3> QED  BY <3>1 DEF StageMap
  <2>5. Delivery!Ask(a)
    BY <2>1, <2>3, <2>4 DEF Delivery!Ask, Delivery!Comes, StageMap
  <2> QED  BY <2>1, <2>5 DEF Delivery!Next
<1>6. CASE o.op = "admit"
  <2> DEFINE a == o.of
  <2>1. /\ a \in Approval /\ run = "waiting" /\ approval[a] = "pending" /\ UNCHANGED run
        /\ approval' = [approval EXCEPT ![a] = "decided"] /\ receipt' = [receipt EXCEPT ![a] = "accepted"]
    BY <1>3, <1>6 DEF Accepts, Commits, Decides, Receives
  <2> HIDE DEF a
  <2>2. receipt[a] = "none" /\ got[a] = 0
    BY <1>1, <1>2, <2>1
  <2>3. Phase = "waiting" /\ Phase' = Phase /\ Stage(a) = "open"
    BY <2>1, <2>2 DEF Phase, Stage
  <2>4. StageMap' = [StageMap EXCEPT ![a] = "decided"]
    <3>1. \A b \in Approval : Stage(b)' = IF b = a THEN "decided" ELSE Stage(b)
      BY <1>1, <2>1, <2>2 DEF Stage
    <3> QED  BY <3>1 DEF StageMap
  <2>5. Delivery!Decide(a)
    BY <2>1, <2>3, <2>4 DEF Delivery!Decide, Delivery!Comes, StageMap
  <2> QED  BY <2>1, <2>5 DEF Delivery!Next
<1>7. CASE o.op \in {"dispatch", "pipe"}
  <2> DEFINE a == o.of
  <2>1. /\ a \in Approval /\ receipt[a] \in {"accepted", "dispatching"} /\ UNCHANGED <<run, approval>>
        /\ \E r \in {"dispatching", "awaiting"} : receipt' = [receipt EXCEPT ![a] = r]
    BY <1>3, <1>7 DEF Accepts, Commits, Receives
  <2> HIDE DEF a
  <2>2. \A b \in Approval : Stage(b)' = Stage(b)
    BY <1>1, <2>1 DEF Stage
  <2> QED  BY <2>1, <2>2 DEF StageMap, Phase
<1>8. CASE o.op = "ack"
  <2> DEFINE a == o.of
  <2>1. /\ a \in Approval /\ receipt[a] = "awaiting" /\ UNCHANGED run /\ a \in Acked
        /\ approval' = [approval EXCEPT ![a] = "acked"] /\ receipt' = [receipt EXCEPT ![a] = "succeeded"]
    BY <1>3, <1>8 DEF Accepts, Commits, Decides, Receives
  <2> HIDE DEF a
  <2>2. got[a] > 0
    BY <2>1 DEF Inv, Words, Acked
  <2>3. Phase' = Phase /\ Stage(a) = "delivered"
    BY <2>1, <2>2 DEF Phase, Stage
  <2>4. StageMap' = [StageMap EXCEPT ![a] = "acknowledged"]
    <3>1. \A b \in Approval : b # a => approval[b] = approval'[b] /\ receipt[b] = receipt'[b]
      BY <1>1, <2>1
    <3>2. \A b \in Approval : Stage(b)' = IF b = a THEN "acknowledged" ELSE Stage(b)
      BY <1>1, <1>2, <2>1, <2>2, <3>1 DEF Stage
    <3> QED  BY <3>2 DEF StageMap
  <2>5. Delivery!Acknowledge(a)
    BY <2>1, <2>3, <2>4 DEF Delivery!Acknowledge, Delivery!Comes, StageMap
  <2> QED  BY <2>1, <2>5 DEF Delivery!Next
<1>9. CASE o.op = "resume"
  <2>1. run = "waiting" /\ run' = "running" /\ Unsettled = {} /\ UNCHANGED <<approval, receipt>>
    BY <1>9 DEF Accepts, Commits
  <2>2. Phase = "waiting" /\ Phase' = "running" /\ UNCHANGED StageMap
    BY <2>1 DEF Phase, StageMap, Stage
  <2>3. \A a \in Approval : Stage(a) \in {"unasked", "acknowledged"}
    <3> SUFFICES ASSUME NEW a \in Approval PROVE Stage(a) \in {"unasked", "acknowledged"}
      OBVIOUS
    <3>1. approval[a] \in {"none", "acked"}
      BY <1>1, <1>2, <2>1 DEF Unsettled, APPROVALS
    <3> QED  BY <1>1, <1>2, <3>1 DEF Stage
  <2> QED  BY <2>2, <2>3 DEF Delivery!Next, Delivery!Resume, StageMap
<1>10. CASE o.op \in {"terminal", "orphaned"}
  <2>1. /\ run' \in {"ended", "orphaned"}
        /\ \A a \in Approval : /\ approval'[a] = "none" <=> approval[a] = "none"
                               /\ receipt'[a] = "none" <=> receipt[a] = "none"
                               /\ receipt'[a] = "succeeded" <=> receipt[a] = "succeeded"
    BY <1>1, <1>10 DEF Commits, RunEnds, APPROVALS, RECEIPTS
  <2>2. Phase' = "over" /\ UNCHANGED StageMap
    BY <2>1 DEF Phase, StageMap, Stage
  <2> QED  BY <2>2 DEF Delivery!Next, Delivery!End, StageMap
<1> QED  BY <1>4, <1>5, <1>6, <1>7, <1>8, <1>9, <1>10 DEF Commits

LEMMA StepDelivers ==
  ASSUME Inv, [Next]_vars
  PROVE  Delivery!Next \/ UNCHANGED <<StageMap, Phase>>
<1>1. CASE SupReads
  <2>1. UNCHANGED journal
    BY <1>1 DEF SupReads
  <2>2. CASE got' = got
    BY <2>1, <2>2, QuietSteps
  <2>3. ASSUME NEW a \in Approval, got' = [got EXCEPT ![a] = 1], got[a] = 0, Sent(up, a) # {}
        PROVE  Delivery!Next
    <3>1. Resolves(a) # {}
      BY <2>3 DEF Resolves, Sent
    <3> QED  BY <2>1, <2>3, <3>1, DecidedDelivers DEF Delivery!Next
  <2> QED  BY <1>1, <2>2, <2>3, SupReadsStep
<1>2. CASE JournalRuns \/ JournalFails
  <2>1. CASE UNCHANGED journal
    BY <1>2, <2>1, JournalStep, QuietSteps
  <2> QED  BY <1>2, <2>1, JournalStep, CommitDelivers
<1>3. CASE UNCHANGED vars
  BY <1>3, QuietSteps DEF vars, cliVars
<1>4. CASE Supervisor /\ ~SupReads
  BY <1>4, QuietSteps DEF Supervisor, Launched, Asks, Acks, Exits, SupExits, SupDies, PidPasses
<1>5. CASE Connection
  BY <1>5, QuietSteps DEF Connection, Connect, ConnectFails, GivesUp, TimerEnds, HostReads, Loses, cliVars
<1>6. CASE JournalRefuses \/ Sends
  BY <1>6, QuietSteps DEF JournalRefuses, Sends, cliVars
<1>7. CASE Requests
  BY <1>7, QuietSteps DEF Requests, Opened, OpenFails, Send, Stop, StopSends, StopEnds, Resolve, cliVars
<1>8. CASE Restart \/ \E a \in Approval : Expires(a)
  BY <1>8, QuietSteps DEF Restart, Expires, cliVars
<1> QED  BY <1>1, <1>2, <1>3, <1>4, <1>5, <1>6, <1>7, <1>8 DEF Next, Journal

\* The supervisor, the socket, the Host and its journal, with crashes and losses,
\* deliver decisions as ApprovalDelivery promises (resolveApprovalDurable,
\* planApprovalAcknowledgement).
THEOREM Delivers == Spec => ImplementsDelivery
<1>1. Init => Delivery!Init
  BY DEF Init, Delivery!Init, Stage, Phase
<1>2. Inv /\ [Next]_vars => [Delivery!Next]_<<StageMap, Phase>>
  BY StepDelivers
<1> QED  BY <1>1, <1>2, Invariance, PTL DEF Spec, ImplementsDelivery, Delivery!Spec, StageMap

----------------------------------------------------------------------------
(* The order of the tail: that a decision was sent is recorded before the *)
(* CLI's acknowledgement of it                                             *)

\* No journal call was lost and the Host has not restarted.
Undisturbed == upsets["crash"] = 0 /\ upsets["refusal"] = 0
\* Sent, and the record of it waits in the tail
Unrecorded == {a \in Approval : receipt[a] = "dispatching" /\ (got[a] > 0 \/ Resolves(a) # {})}
Taken == {a \in Approval : receipt[a] = "succeeded"}
\* The CLI has acknowledged it and the Host has not read that yet.
Unheard == {a \in Approval : \E s \in 1 .. Len(log) : log[s] = [type |-> "ack", of |-> a] /\ s > host.cursor}

Piped(t, n, a) == \E i \in 1 .. n : t[i] = [op |-> "pipe", of |-> a]
\* A tail of operations: of every approval in O the pipe's record waits, before
\* its acknowledgement when that waits, too; nothing in X is being acknowledged.
Lined(t, X, O) ==
  /\ \A a \in O : Piped(t, Len(t), a)
  /\ \A j \in 1 .. Len(t) : t[j].op = "ack" =>
       /\ t[j].of \notin X /\ (t[j].of \in O => Piped(t, j - 1, t[j].of))
       /\ \A k \in 1 .. Len(t) : t[k].op = "ack" /\ t[k].of = t[j].of => k = j

\* The CLI acknowledges a decision once.
Told == \A s, u \in 1 .. Len(log) : log[s].type = "ack" /\ log[s] = log[u] => s = u
Line == host.ready /\ Lined(host.tail, Taken \cup Unheard, Unrecorded) /\ Taken \cap Unheard = {}
Order == Told /\ (Undisturbed => Line)

LEMMA LinedAppend ==
  ASSUME NEW t \in Seq(Operation), NEW o \in Operation, o.op # "ack", NEW X, NEW O, NEW Y, NEW P, Lined(t, X, O),
         Y \subseteq X,
         \A a \in P : a \in O \/ (o = [op |-> "pipe", of |-> a] /\ \A j \in 1 .. Len(t) : ~(t[j].op = "ack" /\ t[j].of = a))
  PROVE  Lined(Append(t, o), Y, P)
<1> DEFINE r == Append(t, o)
           n == Len(t)
<1>1. n \in Nat /\ Len(r) = n + 1 /\ r[n + 1] = o /\ \A i \in 1 .. n : r[i] = t[i]
  BY AppendProperties, LenProperties
<1> HIDE DEF r
<1>2. ASSUME NEW a \in P PROVE Piped(r, n + 1, a)
  BY <1>1, <1>2 DEF Lined, Piped
<1>3. ASSUME NEW j \in 1 .. n + 1, r[j].op = "ack"
      PROVE  /\ r[j].of \notin Y /\ (r[j].of \in P => Piped(r, j - 1, r[j].of))
             /\ \A k \in 1 .. n + 1 : r[k].op = "ack" /\ r[k].of = r[j].of => k = j
  <2>1. j \in 1 .. n /\ t[j].op = "ack" /\ r[j] = t[j]
    BY <1>1, <1>3
  <2>2. r[j].of \in P => Piped(t, j - 1, r[j].of)
    BY <1>1, <2>1 DEF Lined
  <2> QED BY <1>1, <2>1, <2>2 DEF Lined, Piped
<1> QED BY <1>1, <1>2, <1>3 DEF Lined, r

LEMMA LinedAck ==
  ASSUME NEW t \in Seq(Operation), NEW a, [op |-> "ack", of |-> a] \in Operation, NEW X, NEW O, NEW Y, Lined(t, X, O),
         a \in X, Y \subseteq X \ {a}
  PROVE  Lined(Append(t, [op |-> "ack", of |-> a]), Y, O)
<1> DEFINE o == [op |-> "ack", of |-> a]
           r == Append(t, o)
           n == Len(t)
<1>1. n \in Nat /\ Len(r) = n + 1 /\ r[n + 1] = o /\ \A i \in 1 .. n : r[i] = t[i]
  BY AppendProperties, LenProperties
<1>2. o.op = "ack" /\ o.of = a
  OBVIOUS
<1> HIDE DEF r, o
<1>3. ASSUME NEW b \in O PROVE Piped(r, n + 1, b) /\ Piped(r, n, b)
  BY <1>1, <1>3 DEF Lined, Piped
<1>4. ASSUME NEW j \in 1 .. n + 1, r[j].op = "ack"
      PROVE  /\ r[j].of \notin Y /\ (r[j].of \in O => Piped(r, j - 1, r[j].of))
             /\ \A k \in 1 .. n + 1 : r[k].op = "ack" /\ r[k].of = r[j].of => k = j
  <2>1. CASE j \in 1 .. n
    <3>1. t[j].op = "ack" /\ r[j] = t[j] /\ r[j].of # a
      BY <1>1, <1>4, <2>1 DEF Lined
    <3>2. r[j].of \in O => Piped(t, j - 1, r[j].of)
      BY <2>1, <3>1 DEF Lined
    <3>3. r[j].of \in O => Piped(r, j - 1, r[j].of)
      BY <1>1, <2>1, <3>2 DEF Piped
    <3>4. r[n + 1].of # r[j].of
      BY <1>1, <1>2, <3>1
    <3>5. \A k \in 1 .. n : r[k].op = "ack" /\ r[k].of = r[j].of => k = j
      BY <1>1, <2>1, <3>1 DEF Lined
    <3>6. r[j].of \notin Y
      BY <2>1, <3>1 DEF Lined
    <3> QED BY <1>1, <3>3, <3>4, <3>5, <3>6
  <2>2. CASE j = n + 1
    <3>1. \A k \in 1 .. n : ~(r[k].op = "ack" /\ r[k].of = a)
      BY <1>1 DEF Lined
    <3>2. Piped(r, j - 1, r[j].of) \/ r[j].of \notin O
      BY <1>1, <1>3, <2>2
    <3> QED BY <1>1, <1>2, <2>2, <3>1, <3>2
  <2> QED BY <1>1, <2>1, <2>2
<1> QED BY <1>1, <1>3, <1>4 DEF Lined, r, o

\* The head of the tail is done: X may grow by what it acknowledged, O is rid of
\* what it recorded.
LEMMA LinedTail ==
  ASSUME NEW t \in Seq(Operation), t # <<>>, NEW X, NEW O, NEW Y, NEW P, Lined(t, X, O), P \subseteq O,
         \A a \in P : Head(t) # [op |-> "pipe", of |-> a],
         \A a \in Y : a \in X \/ (Head(t).op = "ack" /\ Head(t).of = a)
  PROVE  Lined(Tail(t), Y, P)
<1> DEFINE r == Tail(t)
           n == Len(r)
<1>1. n \in Nat /\ Len(t) = n + 1 /\ Head(t) = t[1] /\ \A i \in 1 .. n : r[i] = t[i + 1]
  BY HeadTailProperties, LenProperties, EmptySeq
<1> HIDE DEF r
<1>2. ASSUME NEW a \in P, NEW k \in 0 .. n, Piped(t, k + 1, a) PROVE Piped(r, k, a)
  <2>1. PICK i \in 1 .. k + 1 : t[i] = [op |-> "pipe", of |-> a]
    BY <1>2 DEF Piped
  <2>2. i # 1
    BY <1>1, <1>2, <2>1
  <2>3. i - 1 \in 1 .. k /\ i - 1 \in 1 .. n /\ (i - 1) + 1 = i
    BY <1>1, <1>2, <2>2
  <2> QED BY <1>1, <2>1, <2>3 DEF Piped
<1>3. ASSUME NEW a \in P PROVE Piped(r, n, a)
  BY <1>1, <1>2, <1>3 DEF Lined
<1>4. ASSUME NEW j \in 1 .. n, r[j].op = "ack"
      PROVE  /\ r[j].of \notin Y /\ (r[j].of \in P => Piped(r, j - 1, r[j].of))
             /\ \A k \in 1 .. n : r[k].op = "ack" /\ r[k].of = r[j].of => k = j
  <2>1. /\ j + 1 \in 1 .. Len(t) /\ 1 \in 1 .. Len(t) /\ t[j + 1].op = "ack" /\ r[j] = t[j + 1] /\ j + 1 # 1
        /\ \A k \in 1 .. n : k + 1 \in 1 .. Len(t) /\ (k + 1 = j + 1 => k = j)
    BY <1>1, <1>4
  <2>2. r[j].of \notin X /\ ~(Head(t).op = "ack" /\ Head(t).of = r[j].of)
    BY <1>1, <2>1 DEF Lined
  <2>3. r[j].of \in P => Piped(t, (j - 1) + 1, r[j].of)
    <3>1. r[j].of \in P => Piped(t, (j + 1) - 1, r[j].of)
      BY <2>1 DEF Lined
    <3> QED BY <1>1, <3>1
  <2>4. r[j].of \in P => Piped(r, j - 1, r[j].of)
    BY <1>1, <1>2, <2>3
  <2>5. \A k \in 1 .. n : r[k].op = "ack" /\ r[k].of = r[j].of => k = j
    BY <1>1, <2>1 DEF Lined
  <2> QED BY <2>2, <2>4, <2>5
<1> QED BY <1>3, <1>4 DEF Lined, r

\* The head becomes its next transaction.
LEMMA LinedRelabel ==
  ASSUME NEW t \in Seq(Operation), t # <<>>, NEW e \in Operation, NEW X, NEW O, NEW Y, NEW P, Lined(t, X, O),
         e.op # "ack", Head(t).op \notin {"ack", "pipe"}, Y \subseteq X, P \subseteq O
  PROVE  Lined([t EXCEPT ![1] = e], Y, P)
<1> DEFINE r == [t EXCEPT ![1] = e]
           n == Len(t)
<1>1. n \in Nat /\ Len(r) = n /\ Head(t) = t[1] /\ 1 \in 1 .. n /\ \A i \in 1 .. n : r[i] = IF i = 1 THEN e ELSE t[i]
  BY HeadTailProperties, LenProperties, EmptySeq, ExceptSeq
<1> HIDE DEF r
<1>2. ASSUME NEW a, NEW k \in 0 .. n, Piped(t, k, a) PROVE Piped(r, k, a)
  <2>1. PICK i \in 1 .. k : t[i] = [op |-> "pipe", of |-> a]
    BY <1>2 DEF Piped
  <2>2. i # 1 /\ i \in 1 .. n
    BY <1>1, <1>2, <2>1
  <2> QED BY <1>1, <2>1, <2>2 DEF Piped
<1>3. ASSUME NEW a \in P PROVE Piped(r, n, a)
  BY <1>1, <1>2, <1>3 DEF Lined
<1>4. ASSUME NEW j \in 1 .. n, r[j].op = "ack"
      PROVE  /\ r[j].of \notin Y /\ (r[j].of \in P => Piped(r, j - 1, r[j].of))
             /\ \A k \in 1 .. n : r[k].op = "ack" /\ r[k].of = r[j].of => k = j
  <2>1. j # 1 /\ r[j] = t[j] /\ t[j].op = "ack" /\ j - 1 \in 0 .. n
    BY <1>1, <1>4
  <2>2. r[j].of \in P => Piped(t, j - 1, r[j].of)
    BY <1>4, <2>1 DEF Lined
  <2>3. r[j].of \in P => Piped(r, j - 1, r[j].of)
    BY <1>2, <2>1, <2>2
  <2> QED BY <1>1, <2>1, <2>3 DEF Lined
<1> QED BY <1>1, <1>3, <1>4 DEF Lined, r

----------------------------------------------------------------------------
(* The Host's handlers give nothing up of what they have read *)

Onward(h, g) == g.ready = h.ready /\ g.cursor >= h.cursor

LEMMA QueuedOn ==
  ASSUME NEW h \in Task, NEW o
  PROVE  /\ Queued(h, o).ready = h.ready /\ Queued(h, o).cursor = h.cursor
         /\ h.ready => Queued(h, o).tail = Append(h.tail, o)
BY DEF Queued, Task

LEMMA SetStatusOn ==
  ASSUME NEW h \in Task, NEW s \in STATUSES
  PROVE  SetStatus(h, s).ready = h.ready /\ SetStatus(h, s).cursor = h.cursor
<1> DEFINE Same(k) == k \in Task /\ k.ready = h.ready /\ k.cursor = h.cursor
           g == [h EXCEPT !.status = s, !.shut = @ \/ Terminal(s)]
           b == [g EXCEPT !.started = TRUE]
<1>1. Same(g) /\ Same(b)
  BY DEF Task, Terminal
<1> HIDE DEF g, b
<1>2. \A k \in Task, o \in Operation : Same(k) => Same(Queued(k, o))
  BY QueuedOn, QueuedIs
<1>3. \A k \in Task : Same(k) => Same(NotifySettled(k))
  <2>1. \A k \in Task : LET n == [k EXCEPT !.settled = TRUE] IN n \in Task /\ n.ready = k.ready /\ n.cursor = k.cursor
    BY DEF Task
  <2> QED BY <2>1 DEF NotifySettled
<1> HIDE DEF Same
<1>4. Same(RecordStart(g))
  BY <1>1, <1>2, Operations DEF RecordStart, b, Same, Quiet
<1>5. Same(RecordEnd(g, "terminal")) /\ Same(RecordEnd(g, "orphaned"))
  BY <1>1, <1>2, Operations DEF RecordEnd, Same, Quiet
<1>6. SetStatus(h, s) \in {g, RecordStart(g), NotifySettled(RecordEnd(g, "terminal")), NotifySettled(RecordEnd(g, "orphaned"))}
  BY DEF SetStatus, g
<1> QED BY <1>1, <1>3, <1>4, <1>5, <1>6 DEF Same

LEMMA SnapshotOn ==
  ASSUME NEW h \in Task, NEW m \in Message, m.type = "snapshot"
  PROVE  Onward(h, Snapshot(h, m))
<1> DEFINE c == IF m.seq >= h.cursor THEN m.seq ELSE h.cursor
           g == [h EXCEPT !.cursor = c, !.status = m.status, !.shut = @ \/ Terminal(m.status),
                          !.control = "ready", !.timer = FALSE]
<1>1. m.seq \in Nat /\ m.status \in {"running", "ended"} /\ m.status \in STATUSES
  BY DEF Message, STATUSES
<1>0. h.cursor \in Nat /\ h.shut \in BOOLEAN
  BY DEF Task
<1>5. c \in Nat /\ c >= h.cursor
  BY <1>0, <1>1
<1>2. g \in Task /\ g.ready = h.ready /\ g.cursor >= h.cursor
  <2> HIDE DEF c
  <2>1. (h.shut \/ Terminal(m.status)) \in BOOLEAN
    BY <1>0 DEF Terminal
  <2>2. g \in Task /\ g.ready = h.ready /\ g.cursor = c
    BY <1>1, <1>5, <2>1 DEF Task
  <2> QED BY <1>5, <2>2
<1>3. Snapshot(h, m) \in {g, SetStatus(g, m.status)}
  BY DEF Snapshot
<1> HIDE DEF g
<1>4. SetStatus(g, m.status).ready = g.ready /\ SetStatus(g, m.status).cursor = g.cursor
  BY <1>1, <1>2, SetStatusOn
<1> QED BY <1>2, <1>3, <1>4 DEF Onward

LEMMA ClosesOn ==
  ASSUME NEW h \in Task
  PROVE  Onward(h, Closes(h))
<1> DEFINE g == [h EXCEPT !.control = "none", !.stopping = IF @ = "sent" THEN "asked" ELSE @]
           k == SetStatus(g, "reconnecting")
<1>1. g \in Task /\ g.ready = h.ready /\ g.cursor = h.cursor /\ h.cursor \in Nat
  BY DEF Task
<1>2. k \in Task /\ k.ready = h.ready /\ k.cursor = h.cursor
  <2> HIDE DEF g
  <2>1. "reconnecting" \in STATUSES
    BY DEF STATUSES
  <2> QED BY <1>1, <2>1, SetStatusIs, SetStatusOn
<1>3. \A n \in Task : n.cursor = h.cursor /\ n.ready = h.ready => Onward(h, n) /\ Onward(h, [n EXCEPT !.timer = TRUE])
  BY <1>1 DEF Task, Onward
<1>4. Closes(h) \in {g, [g EXCEPT !.timer = TRUE], [k EXCEPT !.timer = TRUE]}
  BY DEF Closes
<1> HIDE DEF g, k
<1> QED BY <1>1, <1>2, <1>3, <1>4

LEMMA ExitOn ==
  ASSUME NEW h \in Task
  PROVE  Onward(h, Exit(h))
<1> DEFINE g == IF h.status = "ended" THEN h ELSE SetStatus(h, "ended")
           k == [g EXCEPT !.control = "none", !.timer = FALSE, !.stopping = IF @ = "sent" THEN "asked" ELSE @]
<1>1. g \in Task /\ g.ready = h.ready /\ g.cursor = h.cursor /\ h.cursor \in Nat
  <2>1. "ended" \in STATUSES /\ h.cursor \in Nat
    BY DEF STATUSES, Task
  <2> QED BY <2>1, SetStatusIs, SetStatusOn
<1> HIDE DEF g
<1>2. k \in Task /\ k.ready = h.ready /\ k.cursor = h.cursor
  BY <1>1 DEF Task
<1>3. Exit(h) = NotifySettled(k)
  BY DEF Exit, g
<1> HIDE DEF k
<1>4. NotifySettled(k).ready = k.ready /\ NotifySettled(k).cursor = k.cursor
  BY <1>2 DEF NotifySettled, Task
<1> QED BY <1>1, <1>2, <1>3, <1>4 DEF Onward

LEMMA ObserveOn ==
  ASSUME NEW h \in Task, NEW seq \in Nat, NEW a \in Approval
  PROVE  Onward(h, Observe(h, seq, a))
<1> DEFINE c == IF seq > h.cursor THEN seq ELSE h.cursor
           g == [h EXCEPT !.pcursor = seq, !.cursor = c]
           k == [g EXCEPT !.observed = @ \cup {a}]
<1>0. h.cursor \in Nat /\ c \in Nat /\ c >= h.cursor
  BY DEF Task
<1>1. g \in Task /\ g.ready = h.ready /\ g.cursor >= h.cursor /\ h.cursor \in Nat
  <2> HIDE DEF c
  <2>1. g \in Task /\ g.ready = h.ready /\ g.cursor = c
    BY <1>0 DEF Task
  <2> QED BY <1>0, <2>1
<1>2. k \in Task /\ k.ready = h.ready /\ k.cursor = g.cursor
  BY <1>1 DEF Task
<1>3. Observe(h, seq, a) \in {h, g, Queued(k, [op |-> "request", of |-> a])}
  BY DEF Observe
<1> HIDE DEF g, k
<1> QED BY <1>1, <1>2, <1>3, QueuedOn DEF Onward

\* The acknowledgements that are put into the tail are read for the first time.
LEMMA HandleOn ==
  ASSUME NEW h \in Task, NEW seq \in Nat, NEW e \in Event
  PROVE  /\ Onward(h, Handle(h, seq, e))
         /\ Extends(h, Handle(h, seq, e)) \/ (e.type = "ack" /\ seq > h.cursor /\ Handle(h, seq, e).cursor = seq)
<1> DEFINE g == [h EXCEPT !.cursor = seq]
<1>1. g \in Task /\ g.ready = h.ready /\ g.cursor = seq /\ h.cursor \in Nat /\ g.tail = h.tail
  BY DEF Task
<1>2. e.type \in {"request", "ack", "status", "exit"} /\ (e.type \in {"request", "ack"} => e.of \in Approval)
  BY DEF Event
<1>3. CASE e.type = "request"
  <2>1. Handle(h, seq, e) = Observe(h, seq, e.of)
    BY <1>3 DEF Handle
  <2> QED BY <1>2, <1>3, <2>1, ObserveOn, ObserveIs DEF Keeps
<1>4. CASE e.type # "request" /\ seq <= h.cursor
  <2>1. Handle(h, seq, e) = h
    BY <1>1, <1>4 DEF Handle
  <2> QED BY <1>1, <2>1 DEF Extends, Onward
<1>5. CASE e.type = "ack" /\ seq > h.cursor
  <2>1. Handle(h, seq, e) \in {g, Queued(g, [op |-> "ack", of |-> e.of])}
    BY <1>1, <1>5 DEF Handle
  <2> HIDE DEF g
  <2> QED BY <1>1, <1>5, <2>1, QueuedOn DEF Onward
<1>6. CASE e.type \in {"status", "exit"} /\ seq > h.cursor
  <2>1. Handle(h, seq, e) \in {SetStatus(g, "ended"), Exit(g)}
    BY <1>1, <1>6 DEF Handle
  <2> HIDE DEF g
  <2>2. Onward(g, SetStatus(g, "ended")) /\ Onward(g, Exit(g)) /\ Extends(g, SetStatus(g, "ended")) /\ Extends(g, Exit(g))
        /\ SetStatus(g, "ended") \in Task /\ Exit(g) \in Task
    <3>1. "ended" \in STATUSES /\ g.cursor >= g.cursor
      BY <1>1 DEF STATUSES
    <3>2. SetStatus(g, "ended").ready = g.ready /\ SetStatus(g, "ended").cursor = g.cursor
      BY <1>1, <3>1, SetStatusOn
    <3> QED BY <1>1, <3>1, <3>2, SetStatusIs, ExitOn, ExitIs DEF Onward
  <2>3. \A k \in Task : Onward(g, k) /\ Extends(g, k) => Onward(h, k) /\ Extends(h, k)
    <3>1. \A k \in Task : k.cursor \in Nat
      BY DEF Task
    <3> QED BY <1>1, <1>6, <3>1 DEF Onward, Extends
  <2> QED BY <2>1, <2>2, <2>3
<1> QED BY <1>1, <1>2, <1>3, <1>4, <1>5, <1>6

----------------------------------------------------------------------------
(* The steps, one by one *)

Grows(h, g) == g.tail = h.tail \/ \E o \in Operation : o.op # "ack" /\ g.tail = Append(h.tail, o)

LEMMA ExtendsGrows == \A h, g : Extends(h, g) => Grows(h, g)
BY DEF Extends, Grows, Quiet

LEMMA UpsetsGrow ==
  ASSUME TypeOK, NEW u \in UPSETS, Upset(u)
  PROVE  (Undisturbed' => Undisturbed) /\ (u \in {"crash", "refusal"} => ~Undisturbed')
<1>1. \A v \in UPSETS : upsets[v] \in Nat /\ upsets'[v] = IF v = u THEN upsets[v] + 1 ELSE upsets[v]
  BY DEF TypeOK, Upset
<1>2. "crash" \in UPSETS /\ "refusal" \in UPSETS
  BY DEF UPSETS
<1> QED BY <1>1, <1>2 DEF Undisturbed

LEMMA FewerUnrecorded ==
  ASSUME Carries, UNCHANGED <<got, receipt>>
  PROVE  Unrecorded' \subseteq Unrecorded
BY DEF Carries, Unrecorded, Resolves, Sent

\* A step of the Host that neither reads an acknowledgement nor settles an operation.
LEMMA LineKept ==
  ASSUME Inv, Order, Undisturbed' => Undisturbed, host' \in Task, Grows(host, host'), Onward(host, host'),
         UNCHANGED <<log, receipt>>, Unrecorded' \subseteq Unrecorded
  PROVE  Order'
<1>1. Told'
  BY DEF Order, Told
<1>2. Taken' = Taken
  BY DEF Taken
<1>3. Unheard' \subseteq Unheard
  <2>1. host.cursor \in Nat /\ host'.cursor \in Nat /\ Len(log) \in Nat
    BY HostHas DEF Task
  <2> QED BY <2>1 DEF Unheard, Onward
<1>4. ASSUME Undisturbed' PROVE Line'
  <2>1. Line
    BY <1>4 DEF Order
  <2> DEFINE X == Taken \cup Unheard
             Y == (Taken \cup Unheard)'
  <2>2. Y \subseteq X
    BY <1>2, <1>3
  <2>3. Lined(host.tail, X, Unrecorded) /\ host.tail \in Seq(Operation)
    BY <2>1, HostHas DEF Line
  <2> HIDE DEF X, Y
  <2>4. Lined(host'.tail, Y, Unrecorded')
    <3>1. CASE host'.tail = host.tail
      BY <2>2, <2>3, <3>1 DEF Lined
    <3>2. ASSUME NEW o \in Operation, o.op # "ack", host'.tail = Append(host.tail, o)
          PROVE  Lined(host'.tail, Y, Unrecorded')
      BY <2>2, <2>3, <3>2, LinedAppend
    <3> QED BY <3>1, <3>2 DEF Grows
  <2> QED BY <1>2, <1>3, <2>1, <2>4 DEF Line, Onward, Y, Lined, Piped
<1> QED BY <1>1, <1>4 DEF Order

LEMMA CarriedOrder ==
  ASSUME Inv, Order, Undisturbed' => Undisturbed, host' \in Task, Grows(host, host'), Onward(host, host'),
         UNCHANGED <<got, log, journal>>, Carries
  PROVE  Order'
BY LineKept, FewerUnrecorded DEF journal

LEMMA Onwards == \A h \in Task : Onward(h, h) /\ Grows(h, h)
BY DEF Onward, Grows, Task

LEMMA SupOrder ==
  ASSUME Inv, Order, Launched \/ SupExits \/ SupDies \/ PidPasses \/ (\E a \in Approval : Expires(a)) \/ UNCHANGED vars
  PROVE  Order'
<1>1. UNCHANGED <<got, log, host, journal, upsets>> /\ up' \in {up, <<>>}
  BY DEF Launched, SupExits, SupDies, PidPasses, Expires, vars, wire, cliVars
<1> QED BY <1>1, CarriedOrder, CarriesSame, HostHas, Onwards DEF Undisturbed

LEMMA SupReadsOrder ==
  ASSUME Inv, Order, SupReads
  PROVE  Order'
<1>1. up \in Seq(Command) /\ up # <<>> /\ up' = Tail(up) /\ UNCHANGED <<host, journal, upsets>>
  BY HostHas DEF SupReads
<1>2. UNCHANGED log
  <2>1. Head(up) \in Command
    BY <1>1, HeadTailProperties
  <2> QED BY <2>1 DEF SupReads, Attached, Decided, cliVars, Command
<1>3. \A a \in Approval : Sent(up', a) # {} => Sent(up, a) # {}
  BY <1>1, SentTail
<1>4. \A a \in Approval : got'[a] > 0 => got[a] > 0 \/ Sent(up, a) # {}
  <2>1. CASE got' = got
    BY <2>1
  <2>2. ASSUME NEW a \in Approval, got' = [got EXCEPT ![a] = 1], Sent(up, a) # {}
        PROVE  \A b \in Approval : got'[b] > 0 => got[b] > 0 \/ Sent(up, b) # {}
    BY <2>2 DEF Inv, TypeOK
  <2> QED BY <2>1, <2>2, SupReadsStep
<1>5. Unrecorded' \subseteq Unrecorded
  BY <1>1, <1>3, <1>4 DEF Unrecorded, Resolves, Sent, journal
<1> QED BY <1>1, <1>2, <1>5, LineKept, HostHas, Onwards DEF Undisturbed, journal

\* The CLI's word is new: nothing is known of it yet.
LEMMA PushOrder ==
  ASSUME Inv, Order, NEW s, \E e \in Event : s = <<e>> \/ \E f \in Event : s = <<e, f>>, Pushes(s),
         \/ \A i \in 1 .. Len(s) : s[i].type # "ack"
         \/ \E a \in Approval : s = <<[type |-> "ack", of |-> a]>> /\ a \notin Acked,
         UNCHANGED <<got, up, host, journal, upsets>>
  PROVE  Order'
<1> DEFINE n == Len(log)
<1>1. /\ n \in Nat /\ Len(s) \in Nat /\ Len(log') = n + Len(s)
      /\ \A i \in 1 .. Len(log') : log'[i] = IF i <= n THEN log[i] ELSE s[i - n]
  <2>1. s \in Seq(Event) /\ Len(log) \in Nat /\ Len(log') = Len(log) + Len(s)
        /\ \A i \in 1 .. Len(log') : log'[i] = IF i <= Len(log) THEN log[i] ELSE s[i - Len(log)]
    BY PushesIs DEF Inv
  <2> QED BY <2>1, LenProperties
<1>2. \A i \in 1 .. Len(s) : s[i].type = "ack" => Len(s) = 1 /\ \E a \in Approval : s[i] = [type |-> "ack", of |-> a] /\ a \notin Acked
  <2>1. ASSUME NEW a \in Approval, s = <<[type |-> "ack", of |-> a]>>, a \notin Acked
        PROVE  Len(s) = 1 /\ s[1] = [type |-> "ack", of |-> a]
    BY <2>1
  <2> QED BY <2>1
<1>3. \A i \in 1 .. n : log[i].type = "ack" => log[i].of \in Acked
  BY DEF Inv, Words
<1>4. Told'
  <2> SUFFICES ASSUME NEW i \in 1 .. Len(log'), NEW j \in 1 .. Len(log'), log'[i].type = "ack", log'[i] = log'[j] PROVE i = j
    BY DEF Told
  <2>1. CASE i \in 1 .. n /\ j \in 1 .. n
    BY <1>1, <2>1 DEF Order, Told
  <2>2. ASSUME NEW k \in {i, j}, k \notin 1 .. n PROVE k = n + 1 /\ Len(log') = n + 1 /\ log'[k].of \notin Acked
    <3>1. k - n \in 1 .. Len(s) /\ log'[k] = s[k - n] /\ log'[k].type = "ack"
      BY <1>1, <2>2
    <3> QED BY <1>1, <1>2, <3>1
  <2>3. ASSUME NEW k \in {i, j}, k \in 1 .. n PROVE log'[k].of \in Acked
    BY <1>1, <1>3, <2>3
  <2> QED BY <2>1, <2>2, <2>3
<1>5. Taken' = Taken /\ Unrecorded' = Unrecorded
  BY DEF Taken, Unrecorded, Resolves, journal
<1>6. \A a \in Unheard' : a \in Unheard \/ a \notin Acked
  <2> SUFFICES ASSUME NEW a \in Unheard' PROVE a \in Unheard \/ a \notin Acked
    OBVIOUS
  <2>1. PICK i \in 1 .. Len(log') : log'[i] = [type |-> "ack", of |-> a] /\ i > host.cursor
    BY DEF Unheard
  <2>2. CASE i <= n
    BY <1>1, <2>1, <2>2 DEF Unheard
  <2>3. CASE i > n
    <3>1. i - n \in 1 .. Len(s) /\ s[i - n] = [type |-> "ack", of |-> a]
      BY <1>1, <2>1, <2>3
    <3> QED BY <1>2, <3>1
  <2> QED BY <1>1, <2>2, <2>3
<1>7. ASSUME Undisturbed' PROVE Line'
  <2>1. Line
    BY <1>7 DEF Order, Undisturbed
  <2>2. \A j \in 1 .. Len(host.tail) : host.tail[j].op = "ack" => host.tail[j].of \in Acked
    BY HostHas DEF Fit
  <2> DEFINE X == Taken \cup Unheard
             Y == (Taken \cup Unheard)'
  <2>3. Lined(host.tail, Y, Unrecorded)
    <3>1. Lined(host.tail, X, Unrecorded)
      BY <2>1 DEF Line
    <3>2. \A a \in Y : a \in X \/ a \notin Acked
      BY <1>5, <1>6
    <3> HIDE DEF X, Y
    <3> QED BY <2>2, <3>1, <3>2 DEF Lined
  <2>4. Taken \subseteq Acked
    BY DEF Taken, Inv, Row
  <2> QED BY <1>5, <1>6, <2>1, <2>3, <2>4 DEF Line, Lined, Piped
<1> QED BY <1>4, <1>7 DEF Order

LEMMA CliOrder ==
  ASSUME Inv, Order, Exits \/ (\E a \in Approval : Asks(a) \/ Acks(a))
  PROVE  Order'
<1>1. CASE Exits
  <2> DEFINE e == [type |-> "status"]
             f == [type |-> "exit"]
  <2>1. e \in Event /\ f \in Event /\ \A i \in 1 .. Len(<<e, f>>) : <<e, f>>[i].type # "ack"
    <3>1. e \in Event /\ f \in Event /\ Len(<<e, f>>) = 2 /\ <<e, f>>[1] = e /\ <<e, f>>[2] = f
          /\ e.type # "ack" /\ f.type # "ack"
      BY DEF Event
    <3> QED BY <3>1
  <2>2. Pushes(<<e, f>>) /\ UNCHANGED <<got, up, host, journal, upsets>>
    BY <1>1 DEF Exits
  <2> HIDE DEF e, f
  <2> QED BY <2>1, <2>2, PushOrder
<1>2. ASSUME NEW a \in Approval, Asks(a) PROVE Order'
  <2> DEFINE e == [type |-> "request", of |-> a]
  <2>1. e \in Event /\ \A i \in 1 .. Len(<<e>>) : <<e>>[i].type # "ack"
    <3>1. e \in Event /\ Len(<<e>>) = 1 /\ <<e>>[1] = e /\ e.type # "ack"
      BY DEF Event
    <3> QED BY <3>1
  <2>2. Pushes(<<e>>) /\ UNCHANGED <<got, up, host, journal, upsets>>
    BY <1>2 DEF Asks
  <2> HIDE DEF e
  <2> QED BY <2>1, <2>2, PushOrder
<1>3. ASSUME NEW a \in Approval, Acks(a) PROVE Order'
  <2> DEFINE e == [type |-> "ack", of |-> a]
  <2>1. e \in Event /\ a \notin Acked
    BY <1>3 DEF Event, Acks, Acked
  <2>2. Pushes(<<e>>) /\ UNCHANGED <<got, up, host, journal, upsets>>
    BY <1>3 DEF Acks
  <2> QED BY <2>1, <2>2, PushOrder
<1> QED BY <1>1, <1>2, <1>3

LEMMA HostReadsOrder ==
  ASSUME Inv, Order, HostReads
  PROVE  Order'
<1> DEFINE m == Head(down)
           h == CASE m.type = "snapshot" -> Snapshot(host, m)
                  [] m.type = "event"    -> Handle(host, m.seq, log[m.seq])
                  [] m.type = "close"    -> Closes(host)
<1>1. down # <<>> /\ host' = h /\ up' \in {up, <<>>} /\ UNCHANGED <<got, log, journal, upsets>>
  BY DEF HostReads, cliVars
<1>2. m \in Message /\ Len(down) \in Nat /\ m = down[1] /\ 1 \in 1 .. Len(down)
  BY <1>1, HostHas, HeadTailProperties, EmptySeq, LenProperties
<1>3. m.type \in {"snapshot", "event", "close"} /\ Carries
  BY <1>1, <1>2, CarriesSame DEF Message
<1>4. ASSUME h \in Task, Extends(host, h), Onward(host, h) PROVE Order'
  <2> HIDE DEF h
  <2> QED BY <1>1, <1>3, <1>4, CarriedOrder, ExtendsGrows DEF Undisturbed
<1>5. CASE m.type = "snapshot"
  <2>1. h = Snapshot(host, m)
    BY <1>5
  <2> HIDE DEF h, m
  <2> QED BY <1>2, <1>4, <1>5, <2>1, HostHas, SnapshotIs, SnapshotOn
<1>6. CASE m.type = "close"
  <2>1. h = Closes(host)
    BY <1>6
  <2> HIDE DEF h, m
  <2> QED BY <1>4, <2>1, HostHas, ClosesIs, ClosesOn
<1>7. CASE m.type = "event"
  <2> DEFINE e == log[m.seq]
             a == e.of
  <2>1. h = Handle(host, m.seq, e)
    BY <1>7
  <2>2. m.seq \in 1 .. Len(log) /\ m.seq \in Nat
    BY <1>2, <1>7, HostHas DEF Within
  <2>3. e \in Event
    BY <2>2, HostHas, ElementOfSeq
  <2>4. e.type = "ack" => a \in Approval /\ e = [type |-> "ack", of |-> a] /\ [op |-> "ack", of |-> a] \in Operation
    BY <2>3 DEF Event, Operation
  <2>5. m.seq > host.cursor /\ e.type = "ack" => a \in Unheard
    BY <2>2, <2>4 DEF Unheard
  <2> HIDE DEF h, m, a
  <2>6. /\ h \in Task /\ Onward(host, h)
        /\ \/ Extends(host, h)
           \/ /\ e.type = "ack" /\ h.tail = Append(host.tail, [op |-> "ack", of |-> a])
              /\ m.seq > host.cursor /\ h.cursor = m.seq
    <3> HIDE DEF e
    <3>1. /\ h \in Task
          /\ Extends(host, h) \/ (e.type = "ack" /\ h.tail = Append(host.tail, [op |-> "ack", of |-> a]))
      BY <2>1, <2>2, <2>3, HostHas, HandleIs DEF a
    <3>2. /\ Onward(host, h) /\ (Extends(host, h) \/ (e.type = "ack" /\ m.seq > host.cursor /\ h.cursor = m.seq))
      BY <2>1, <2>2, <2>3, HostHas, HandleOn
    <3> QED BY <3>1, <3>2
  <2>7. CASE Extends(host, h)
    BY <1>4, <2>6, <2>7
  <2>8. CASE e.type = "ack" /\ h.tail = Append(host.tail, [op |-> "ack", of |-> a]) /\ m.seq > host.cursor /\ h.cursor = m.seq
    <3>1. Told'
      BY <1>1 DEF Order, Told
    <3>2. Taken' = Taken /\ Unrecorded' \subseteq Unrecorded
      BY <1>1, <1>3, FewerUnrecorded DEF Taken, journal
    <3>3. Unheard' \subseteq Unheard \ {a}
      <4>1. h.cursor \in Nat /\ host.cursor \in Nat /\ Len(log) \in Nat
        BY <2>6, HostHas DEF Task
      <4>2. Unheard' \subseteq Unheard
        BY <1>1, <2>8, <4>1 DEF Unheard
      <4>3. \A s \in 1 .. Len(log) : log[s] = [type |-> "ack", of |-> a] => s = m.seq
        BY <2>2, <2>4, <2>8 DEF Order, Told
      <4>4. a \notin Unheard'
        BY <1>1, <2>8, <4>1, <4>3 DEF Unheard
      <4> QED BY <4>2, <4>4
    <3>4. ASSUME Undisturbed' PROVE Line'
      <4>1. Line
        BY <1>1, <3>4 DEF Order, Undisturbed
      <4> DEFINE X == Taken \cup Unheard
                 Y == (Taken \cup Unheard)'
      <4>2. a \in Unheard /\ a \notin Taken /\ a \in X /\ Y \subseteq X \ {a}
        BY <2>5, <2>8, <3>2, <3>3, <4>1 DEF Line
      <4>3. Lined(host.tail, X, Unrecorded) /\ host.tail \in Seq(Operation) /\ [op |-> "ack", of |-> a] \in Operation
        BY <2>4, <2>8, <4>1, HostHas DEF Line
      <4> HIDE DEF X, Y
      <4>4. Lined(host'.tail, Y, Unrecorded)
        BY <1>1, <2>8, <4>2, <4>3, LinedAck
      <4>5. host'.ready /\ Taken' \cap Unheard' = {}
        BY <1>1, <2>6, <3>2, <3>3, <4>1 DEF Line, Onward
      <4> QED BY <3>2, <4>4, <4>5 DEF Line, Lined, Piped, Y
    <3> QED BY <3>1, <3>4 DEF Order
  <2> QED BY <2>6, <2>7, <2>8
<1> QED BY <1>3, <1>5, <1>6, <1>7

\* Steps of the Host that put at most one operation into the tail
LEMMA HostOrder ==
  ASSUME Inv, Order, Connect \/ ConnectFails \/ GivesUp \/ TimerEnds \/ Loses \/ Opened \/ OpenFails \/ Send \/ Stop
                     \/ StopEnds \/ StopSends \/ \E a \in Approval : Resolve(a)
  PROVE  Order'
<1> DEFINE Kept(g) == g \in Task /\ Grows(host, g) /\ Onward(host, g)
<1>1. UNCHANGED <<got, log, journal>>
  BY DEF Connect, ConnectFails, GivesUp, TimerEnds, Loses, Opened, OpenFails, Send, Stop, StopEnds, StopSends, Resolve,
         wire, cliVars
<1>2. Undisturbed' => Undisturbed
  <2>1. UNCHANGED upsets \/ \E u \in UPSETS : Upset(u)
    BY DEF Connect, ConnectFails, GivesUp, TimerEnds, Loses, Opened, OpenFails, Send, Stop, StopEnds, StopSends, Resolve, UPSETS
  <2> QED BY <2>1, UpsetsGrow DEF Undisturbed, Inv
<1>3. Carries
  <2>1. CASE up' \in {up, <<>>}
    BY <2>1, CarriesSame
  <2>2. ASSUME NEW c \in Command, c.op # "resolve", up' \in {<<c>>, Append(up, c)} PROVE Carries
    <3>1. \A a : c # [op |-> "resolve", of |-> a]
      <4> SUFFICES ASSUME NEW a, c = [op |-> "resolve", of |-> a] PROVE FALSE
        OBVIOUS
      <4> QED BY <2>2
    <3>2. ASSUME NEW a PROVE Sent(Append(up, c), a) = Sent(up, a)
      <4>1. up \in Seq(Command) /\ c # [op |-> "resolve", of |-> a]
        BY <3>1, HostHas
      <4> QED BY <4>1, SentAppend
    <3>3. \A a : Sent(<<c>>, a) = {}
      <4>1. <<c>>[1] = c /\ DOMAIN <<c>> = {1}
        OBVIOUS
      <4> QED BY <3>1, <4>1 DEF Sent
    <3> QED BY <2>2, <3>2, <3>3, SentOnce DEF Carries, Inv
  <2>3. CASE Connect
    <3> DEFINE k == IF host.cursor < host.pcursor THEN host.cursor ELSE host.pcursor
               c == [op |-> "attach", after |-> k]
    <3>1. c \in Command /\ c.op # "resolve"
      BY HostHas DEF Command
    <3>2. up' = <<c>>
      BY <2>3 DEF Connect
    <3> HIDE DEF c
    <3> QED BY <2>2, <3>1, <3>2
  <2>4. CASE StopSends
    <3> DEFINE c == [op |-> "stop"]
    <3>1. c \in Command /\ c.op # "resolve" /\ up' = Append(up, c)
      BY <2>4 DEF Command, StopSends
    <3> HIDE DEF c
    <3> QED BY <2>2, <3>1
  <2> QED BY <2>1, <2>3, <2>4 DEF ConnectFails, GivesUp, TimerEnds, Loses, Opened, OpenFails, Send, Stop, StopEnds, Resolve, wire
<1>4. \A g \in Task : g.tail = host.tail /\ g.ready = host.ready /\ g.cursor = host.cursor => Kept(g)
  BY HostHas DEF Grows, Onward
<1>5. ASSUME NEW g \in Task, g.tail = host.tail, g.ready = host.ready, g.cursor = host.cursor, NEW s \in STATUSES
      PROVE  Kept(SetStatus(g, s))
  <2>1. SetStatus(g, s) \in Task /\ Extends(g, SetStatus(g, s)) /\ SetStatus(g, s).ready = g.ready /\ SetStatus(g, s).cursor = g.cursor
    BY SetStatusIs, SetStatusOn
  <2>2. Grows(host, SetStatus(g, s))
    BY <1>5, <2>1, ExtendsGrows DEF Grows
  <2> QED BY <1>5, <2>1, <2>2, HostHas DEF Onward
<1>6. Kept(host')
  <2>1. CASE Connect \/ TimerEnds \/ Stop \/ StopEnds \/ StopSends
    <3>1. host' \in Task /\ host'.tail = host.tail /\ host'.ready = host.ready /\ host'.cursor = host.cursor
      BY <2>1, HostHas DEF Connect, TimerEnds, Stop, StopEnds, StopSends, Task
    <3> QED BY <1>4, <3>1
  <2>2. CASE ConnectFails \/ Loses
    <3>1. host' = Closes(host)
      BY <2>2 DEF ConnectFails, Loses
    <3> QED BY <3>1, HostHas, ClosesIs, ClosesOn, ExtendsGrows
  <2>3. CASE GivesUp \/ OpenFails \/ Send
    <3> DEFINE g == [host EXCEPT !.timer = FALSE]
               k == [host EXCEPT !.opening = FALSE]
    <3>1. g \in Task /\ g.tail = host.tail /\ g.ready = host.ready /\ g.cursor = host.cursor
      BY HostHas DEF Task
    <3>2. k \in Task /\ k.tail = host.tail /\ k.ready = host.ready /\ k.cursor = host.cursor
      BY HostHas DEF Task
    <3>3. host' \in {SetStatus(g, "orphaned"), SetStatus(k, "ended"), SetStatus(host, "running")}
      BY <2>3 DEF GivesUp, OpenFails, Send
    <3> HIDE DEF g, k, Kept
    <3>4. {"orphaned", "ended", "running"} \subseteq STATUSES
      BY DEF STATUSES
    <3> QED BY <1>5, <3>1, <3>2, <3>3, <3>4, HostHas
  <2>4. CASE Opened
    <3> DEFINE g == [host EXCEPT !.opening = FALSE]
               b == [g EXCEPT !.started = TRUE]
    <3>1. g \in Task /\ g.tail = host.tail /\ g.ready = host.ready /\ g.cursor = host.cursor
      BY HostHas DEF Task
    <3>2. b \in Task /\ b.tail = host.tail /\ b.ready = host.ready /\ b.cursor = host.cursor
      BY HostHas DEF Task
    <3>3. host' \in {g, Queued(b, [op |-> "start"])}
      BY <2>4 DEF Opened, RecordStart
    <3> HIDE DEF g, b
    <3>4. Keeps(b, Queued(b, [op |-> "start"]))
      BY <3>2, Operations, QueuedKeeps
    <3>5. Grows(host, Queued(b, [op |-> "start"])) /\ Queued(b, [op |-> "start"]) \in Task
      BY <3>2, <3>4, ExtendsGrows DEF Keeps, Grows
    <3>6. Onward(host, Queued(b, [op |-> "start"]))
      BY <3>2, QueuedOn, HostHas DEF Onward
    <3> QED BY <1>4, <3>1, <3>3, <3>5, <3>6
  <2>5. ASSUME NEW a \in Approval, Resolve(a) PROVE Kept(host')
    <3> DEFINE o == [op |-> "admit", of |-> a]
    <3>1. host' = Queued(host, o) /\ o \in Operation /\ o.op # "ack"
      BY <2>5, Operations DEF Resolve
    <3> HIDE DEF o
    <3>2. host' \in Task /\ host'.tail \in {host.tail, Append(host.tail, o)}
      BY <3>1, HostHas, QueuedIs
    <3>3. Grows(host, host')
      BY <3>1, <3>2 DEF Grows
    <3> QED BY <3>1, <3>2, <3>3, HostHas, QueuedOn DEF Onward
  <2> QED BY <2>1, <2>2, <2>3, <2>4, <2>5
<1> QED BY <1>1, <1>2, <1>3, <1>6, CarriedOrder

\* What an answer of the journal makes of the tail
Settles(h, g) ==
  /\ Onward(h, g)
  /\ \/ Grows(Popped(h), g)
     \/ /\ Head(h.tail).op \in {"admit", "dispatch"}
        /\ \E e \in Operation : e.op # "ack" /\ g.tail = [h.tail EXCEPT ![1] = e]

LEMMA PoppedOn ==
  ASSUME NEW h \in Task, h.tail # <<>>
  PROVE  /\ Popped(h) \in Task /\ Popped(h).tail = Tail(h.tail) /\ Popped(h).ready = h.ready /\ Popped(h).cursor = h.cursor
         /\ Settles(h, Popped(h)) /\ h.cursor \in Nat /\ Head(h.tail) \in Operation
<1>1. h.tail \in Seq(Operation) /\ h.cursor \in Nat
  BY DEF Task
<1>2. Tail(h.tail) \in Seq(Operation) /\ Head(h.tail) \in Operation
  BY <1>1, HeadTailProperties
<1>3. /\ Popped(h) \in Task /\ Popped(h).tail = Tail(h.tail) /\ Popped(h).ready = h.ready /\ Popped(h).cursor = h.cursor
  BY <1>2 DEF Popped, Task
<1>4. Settles(h, Popped(h))
  BY <1>1, <1>3 DEF Settles, Onward, Grows
<1> QED BY <1>1, <1>2, <1>3, <1>4

LEMMA AfterOn ==
  ASSUME NEW h \in Task, h.tail # <<>>, Head(h.tail).op # "send"
  PROVE  Settles(h, After(h, Head(h.tail)))
<1> DEFINE o == Head(h.tail)
           p == Popped(h)
<1>1. /\ p \in Task /\ p.tail = Tail(h.tail) /\ p.ready = h.ready /\ p.cursor = h.cursor
      /\ Settles(h, p) /\ h.cursor \in Nat /\ o \in Operation
  BY PoppedOn
<1>2. o.op \in {"request", "admit", "dispatch", "pipe", "ack", "start", "resume", "terminal", "orphaned"}
  BY <1>1, OperationIs
<1>3. CASE o.op \in {"request", "resume"}
  <2>1. After(h, o) \in {p, SetStatus(p, "waiting"), SetStatus(p, "running")}
    BY <1>3 DEF After
  <2> HIDE DEF p
  <2>2. \A s \in {"waiting", "running"} : Settles(h, SetStatus(p, s))
    <3> SUFFICES ASSUME NEW s \in {"waiting", "running"} PROVE Settles(h, SetStatus(p, s))
      OBVIOUS
    <3>1. s \in STATUSES
      BY DEF STATUSES
    <3>2. Grows(p, SetStatus(p, s)) /\ Onward(h, SetStatus(p, s))
      BY <1>1, <3>1, SetStatusIs, SetStatusOn, ExtendsGrows DEF Onward
    <3> QED BY <3>2 DEF Settles, p
  <2> QED BY <1>1, <2>1, <2>2
<1>4. CASE o.op \in {"admit", "dispatch"}
  <2> DEFINE k == IF o.op = "admit" THEN "dispatch" ELSE "send"
             e == [h.tail[1] EXCEPT !.op = k]
  <2>1. After(h, o) = [h EXCEPT !.tail[1].op = k]
    BY <1>4 DEF After
  <2>2. h.tail \in Seq(Operation) /\ o = h.tail[1]
    BY EmptySeq DEF Task
  <2>3. e \in Operation /\ e.op # "ack"
    <3>1. k \in {"dispatch", "send"} /\ k # "ack"
      OBVIOUS
    <3> HIDE DEF k
    <3> QED BY <1>1, <1>4, <2>2, <3>1, OperationIs
  <2>4. [h EXCEPT !.tail[1].op = k] = [h EXCEPT !.tail = [h.tail EXCEPT ![1] = e]]
    BY DEF Task
  <2> HIDE DEF k, e
  <2>5. After(h, o).tail = [h.tail EXCEPT ![1] = e] /\ After(h, o).ready = h.ready /\ After(h, o).cursor = h.cursor
    BY <2>1, <2>4 DEF Task
  <2> QED BY <1>1, <1>4, <2>3, <2>5 DEF Settles, Onward
<1>5. CASE o.op = "ack"
  <2> DEFINE r == [op |-> "resume"]
  <2>1. After(h, o) = Queued(p, r) /\ r \in Quiet
    BY <1>5, Operations DEF After
  <2> HIDE DEF p, r
  <2>2. Grows(p, Queued(p, r)) /\ Onward(h, Queued(p, r))
    BY <1>1, <2>1, QueuedKeeps, QueuedOn, ExtendsGrows DEF Keeps, Onward
  <2> QED BY <2>1, <2>2 DEF Settles, p
<1>6. CASE o.op = "terminal"
  <2>1. \A n \in Task : LET g == [n EXCEPT !.terminal = TRUE] IN g.tail = n.tail /\ g.ready = n.ready /\ g.cursor = n.cursor
    BY DEF Task
  <2>2. After(h, o) = [p EXCEPT !.terminal = TRUE]
    BY <1>6 DEF After
  <2> HIDE DEF p
  <2>3. Grows(p, After(h, o)) /\ Onward(h, After(h, o))
    <3>1. After(h, o).tail = p.tail /\ After(h, o).ready = p.ready /\ After(h, o).cursor = p.cursor
      BY <1>1, <2>1, <2>2
    <3> QED BY <1>1, <3>1 DEF Grows, Onward
  <2> QED BY <2>3 DEF Settles, p
<1>7. CASE o.op \in {"pipe", "start", "orphaned"}
  BY <1>1, <1>7 DEF After
<1> QED BY <1>2, <1>3, <1>4, <1>5, <1>6, <1>7

LEMMA ReplayedOn ==
  ASSUME NEW h \in Task, h.tail # <<>>, Head(h.tail).op # "send"
  PROVE  Settles(h, Replayed(h, Head(h.tail)))
<1>1. Replayed(h, Head(h.tail)) \in {Popped(h), After(h, Head(h.tail))}
  BY DEF Replayed
<1> QED BY <1>1, PoppedOn, AfterOn

\* What the journal's answer makes of the records
LEMMA RecordsOn ==
  ASSUME Inv, NEW o \in Operation, o.op = "ack" => o.of \in Acked,
         (Accepts(o) /\ Commits(o)) \/ (~Accepts(o) /\ UNCHANGED journal), UNCHANGED <<got, up>>
  PROVE  /\ Unrecorded' \subseteq Unrecorded
         /\ \A a \in Unrecorded' : o # [op |-> "pipe", of |-> a]
         /\ \A a \in Taken' : a \in Taken \/ (o.op = "ack" /\ o.of = a)
<1>1. receipt \in [Approval -> RECEIPTS] /\ got \in [Approval -> Nat]
  BY DEF Inv, TypeOK
<1>2. o.op \in {"request", "admit", "dispatch", "pipe", "ack"} => o.of \in Approval
  BY OperationIs
<1>3. CASE ~Accepts(o) /\ UNCHANGED journal
  <2>1. \A a \in Approval : o = [op |-> "pipe", of |-> a] => receipt[a] # "dispatching"
    BY <1>3 DEF Accepts
  <2> QED BY <1>3, <2>1 DEF Unrecorded, Taken, Resolves, journal
<1>4. CASE Accepts(o) /\ Commits(o)
  <2>1. \A a \in Approval : receipt'[a] = "dispatching" => receipt[a] = "dispatching" \/ (o.op = "dispatch" /\ o.of = a)
    BY <1>1, <1>2, <1>4 DEF Commits, RunEnds, Receives
  <2>2. o.op = "dispatch" => got[o.of] = 0 /\ Resolves(o.of) = {}
    <3>1. o.op = "dispatch" => o.of \in Approval /\ receipt[o.of] = "accepted"
      BY <1>2, <1>4 DEF Accepts
    <3>2. o.op = "dispatch" => got[o.of] # 1 /\ got[o.of] <= 1 /\ Resolves(o.of) = {}
      <4> SUFFICES ASSUME o.op = "dispatch" PROVE got[o.of] # 1 /\ got[o.of] <= 1 /\ Sent(up, o.of) = {}
        BY DEF Resolves, Sent
      <4> QED BY <3>1, SentOnce DEF Inv
    <3> QED BY <1>1, <3>1, <3>2
  <2>3. \A a \in Approval : Resolves(a)' = Resolves(a)
    BY DEF Resolves
  <2>4. \A a \in Approval : o = [op |-> "pipe", of |-> a] => receipt'[a] # "dispatching"
    BY <1>1, <1>4 DEF Commits, Receives
  <2>5. \A a \in Approval : receipt'[a] = "succeeded" => receipt[a] = "succeeded" \/ (o.op = "ack" /\ o.of = a)
    BY <1>1, <1>2, <1>4 DEF Commits, RunEnds, Receives
  <2> HIDE DEF Resolves
  <2> QED BY <2>1, <2>2, <2>3, <2>4, <2>5 DEF Unrecorded, Taken
<1> QED BY <1>3, <1>4

LEMMA SettledOrder ==
  ASSUME Inv, Order, Undisturbed' => Undisturbed, host.tail # <<>>, host' \in Task, Settles(host, host'),
         host'.cursor = host.cursor, UNCHANGED log, Unrecorded' \subseteq Unrecorded,
         \A a \in Unrecorded' : Head(host.tail) # [op |-> "pipe", of |-> a],
         \A a \in Taken' : a \in Taken \/ (Head(host.tail).op = "ack" /\ Head(host.tail).of = a)
  PROVE  Order'
<1>1. Told'
  BY DEF Order, Told
<1>2. Unheard' = Unheard
  BY DEF Unheard
<1>3. ASSUME Undisturbed' PROVE Line'
  <2>1. Line
    BY <1>3 DEF Order
  <2> DEFINE X == Taken \cup Unheard
             Y == (Taken \cup Unheard)'
             t == host.tail
             o == Head(host.tail)
  <2>2. Lined(t, X, Unrecorded) /\ t \in Seq(Operation) /\ t # <<>> /\ o \in Operation /\ o = t[1] /\ 1 \in 1 .. Len(t)
    BY <2>1, HostHas, PoppedOn, EmptySeq, LenProperties DEF Line
  <2>3. \A a \in Y : a \in X \/ (o.op = "ack" /\ o.of = a)
    BY <1>2
  <2>4. o.op = "ack" => o.of \notin X
    BY <2>2 DEF Lined
  <2>5. Taken' \cap Unheard' = {}
    BY <1>2, <2>1, <2>4 DEF Line
  <2>6. host'.ready
    BY <2>1 DEF Line, Settles, Onward
  <2> HIDE DEF X, Y, t, o
  <2>7. Lined(host'.tail, Y, Unrecorded')
    <3>1. CASE Grows(Popped(host), host')
      <4>1. Popped(host).tail = Tail(t) /\ Tail(t) \in Seq(Operation)
        BY <2>2, HostHas, PoppedOn, HeadTailProperties DEF t
      <4>2. Lined(Tail(t), Y, Unrecorded')
        BY <2>2, <2>3, LinedTail DEF t, o
      <4>3. CASE host'.tail = Tail(t)
        BY <4>2, <4>3
      <4>4. ASSUME NEW q \in Operation, q.op # "ack", host'.tail = Append(Tail(t), q)
            PROVE  Lined(host'.tail, Y, Unrecorded')
        BY <4>1, <4>2, <4>4, LinedAppend
      <4> QED BY <3>1, <4>1, <4>3, <4>4 DEF Grows
    <3>2. ASSUME o.op \in {"admit", "dispatch"}, NEW e \in Operation, e.op # "ack", host'.tail = [t EXCEPT ![1] = e]
          PROVE  Lined(host'.tail, Y, Unrecorded')
      <4>1. Y \subseteq X
        BY <2>3, <3>2
      <4>2. Head(t).op \notin {"ack", "pipe"} /\ t \in Seq(Operation) /\ t # <<>> /\ Lined(t, X, Unrecorded)
        BY <2>2, <3>2 DEF o, t
      <4>3. Lined([t EXCEPT ![1] = e], Y, Unrecorded')
        BY <3>2, <4>1, <4>2, LinedRelabel
      <4> QED BY <3>2, <4>3
    <3> QED BY <3>1, <3>2 DEF Settles, t, o
  <2> QED BY <2>5, <2>6, <2>7 DEF Line, Lined, Piped, Y
<1> QED BY <1>1, <1>3 DEF Order

\* The cursor is not the journal's.
LEMMA CursorStays ==
  ASSUME NEW h \in Task, h.tail # <<>>, Head(h.tail).op # "send"
  PROVE  /\ After(h, Head(h.tail)).cursor = h.cursor /\ Replayed(h, Head(h.tail)).cursor = h.cursor
<1> DEFINE o == Head(h.tail)
           p == Popped(h)
<1>1. p \in Task /\ p.cursor = h.cursor /\ o \in Operation
  BY PoppedOn
<1>2. o.op \in {"request", "admit", "dispatch", "pipe", "ack", "start", "resume", "terminal", "orphaned"}
  BY <1>1, OperationIs
<1>3. \A n \in Task : /\ [n EXCEPT !.terminal = TRUE].cursor = n.cursor
                      /\ \A k : [n EXCEPT !.tail[1].op = k].cursor = n.cursor
                      /\ \A q : Queued(n, q).cursor = n.cursor
                      /\ \A s \in {"waiting", "running"} : SetStatus(n, s).cursor = n.cursor
  <2>1. {"waiting", "running"} \subseteq STATUSES
    BY DEF STATUSES
  <2>2. \A n \in Task : \A k : [n EXCEPT !.tail[1].op = k].cursor = n.cursor /\ [n EXCEPT !.terminal = TRUE].cursor = n.cursor
    BY DEF Task
  <2> QED BY <2>1, <2>2, QueuedOn, SetStatusOn
<1>4. After(h, o).cursor = h.cursor
  <2>1. After(h, o) \in {p, SetStatus(p, "waiting"), SetStatus(p, "running"), [h EXCEPT !.tail[1].op = "dispatch"],
                         [h EXCEPT !.tail[1].op = "send"], Queued(p, [op |-> "resume"]), [p EXCEPT !.terminal = TRUE]}
    BY <1>2 DEF After
  <2> HIDE DEF p
  <2>2. SetStatus(p, "waiting").cursor = p.cursor /\ SetStatus(p, "running").cursor = p.cursor
    BY <1>1, <1>3
  <2>3. Queued(p, [op |-> "resume"]).cursor = p.cursor /\ [p EXCEPT !.terminal = TRUE].cursor = p.cursor
    BY <1>1, <1>3
  <2>4. [h EXCEPT !.tail[1].op = "dispatch"].cursor = h.cursor /\ [h EXCEPT !.tail[1].op = "send"].cursor = h.cursor
    BY <1>3
  <2> QED BY <1>1, <2>1, <2>2, <2>3, <2>4
<1>5. Replayed(h, o) \in {p, After(h, o)}
  BY DEF Replayed
<1> QED BY <1>1, <1>4, <1>5

LEMMA JournalOrder ==
  ASSUME Inv, Order, JournalRuns \/ JournalRefuses \/ JournalFails
  PROVE  Order'
<1> DEFINE o == Head(host.tail)
<1>1. host.tail # <<>> /\ o.op # "send" /\ UNCHANGED <<got, up, log>> /\ o \in Operation /\ (o.op = "ack" => o.of \in Acked)
  <2>1. host.tail # <<>> /\ o.op # "send" /\ UNCHANGED <<got, up, log>>
    BY DEF JournalRuns, JournalRefuses, JournalFails, Calls, InTail, cliVars, wire
  <2> QED BY <2>1, HostHas, PoppedIs
<1>2. Inv'
  BY JournalStep, JournalRefusesStep
<1>3. host' \in Task
  BY <1>2, HostHas DEF Inv, TypeOK
<1>4. CASE ~Undisturbed'
  BY <1>1, <1>4 DEF Order, Told
<1>5. CASE Undisturbed' /\ (JournalRefuses \/ JournalFails)
  <2>1. ~Upset("refusal")
    <3>1. "refusal" \in UPSETS
      BY DEF UPSETS
    <3> QED BY <1>5, <3>1, UpsetsGrow DEF Inv
  <2>2. o.op = "terminal" /\ host' = Popped(host) /\ UNCHANGED <<journal, upsets>>
    BY <1>5, <2>1 DEF JournalRefuses, JournalFails, InTail
  <2> HIDE DEF o
  <2>3. Settles(host, host') /\ host'.cursor = host.cursor
    BY <1>1, <2>2, HostHas, PoppedOn
  <2>4. Unrecorded' = Unrecorded /\ Taken' = Taken
    BY <1>1, <2>2 DEF Unrecorded, Taken, Resolves, journal
  <2>5. \A a : o # [op |-> "pipe", of |-> a]
    BY <2>2
  <2> QED BY <1>1, <1>3, <2>2, <2>3, <2>4, <2>5, SettledOrder DEF Undisturbed, o
<1>6. CASE JournalRuns
  <2>1. /\ (Accepts(o) /\ Commits(o) /\ host' = After(host, o)) \/ (~Accepts(o) /\ UNCHANGED journal /\ host' = Replayed(host, o))
        /\ UNCHANGED upsets
    BY <1>6 DEF JournalRuns
  <2>2. Settles(host, host') /\ host'.cursor = host.cursor
    BY <1>1, <2>1, HostHas, AfterOn, ReplayedOn, CursorStays
  <2> HIDE DEF o
  <2>3. /\ Unrecorded' \subseteq Unrecorded
        /\ \A a \in Unrecorded' : o # [op |-> "pipe", of |-> a]
        /\ \A a \in Taken' : a \in Taken \/ (o.op = "ack" /\ o.of = a)
    BY <1>1, <2>1, RecordsOn
  <2> QED BY <1>1, <1>3, <2>1, <2>2, <2>3, SettledOrder DEF Undisturbed, o
<1> QED BY <1>4, <1>5, <1>6

\* A decision is put on its way, and the record of it into the tail.
LEMMA SendsOrder ==
  ASSUME Inv, Order, Sends
  PROVE  Order'
<1> DEFINE a == Head(host.tail).of
           c == [op |-> "resolve", of |-> a]
           o == [op |-> "pipe", of |-> a]
           t == Tail(host.tail)
<1>1. host.tail # <<>> /\ Head(host.tail).op = "send" /\ UNCHANGED <<got, log, journal, upsets>>
  BY DEF Sends, InTail, cliVars
<1>2. /\ Popped(host) \in Task /\ Popped(host).tail = t /\ Popped(host).ready = host.ready /\ Popped(host).cursor = host.cursor
      /\ Settles(host, Popped(host)) /\ a \in Fresh /\ Fit(t, Acked, Fresh) /\ t \in Seq(Operation)
  <2>1. /\ Popped(host) \in Task /\ Popped(host).tail = t /\ Fit(Popped(host).tail, Acked, Fresh) /\ a \in Fresh
    BY <1>1, HostHas, PoppedIs
  <2>2. /\ Popped(host).ready = host.ready /\ Popped(host).cursor = host.cursor /\ Settles(host, Popped(host))
    BY <1>1, HostHas, PoppedOn
  <2>3. t \in Seq(Operation)
    BY <1>1, HostHas, HeadTailProperties
  <2> QED BY <2>1, <2>2, <2>3
<1>3. \A b : Head(host.tail) # [op |-> "pipe", of |-> b]
  BY <1>1
<1>4. Taken' = Taken
  BY <1>1 DEF Taken, journal
<1>5. CASE host.control # "ready"
  <2>1. host' = Popped(host) /\ UNCHANGED up
    BY <1>5 DEF Sends
  <2>2. Unrecorded' = Unrecorded
    BY <1>1, <2>1 DEF Unrecorded, Resolves, journal
  <2> QED BY <1>1, <1>2, <1>3, <1>4, <2>1, <2>2, SettledOrder DEF Undisturbed
<1>6. CASE host.control = "ready"
  <2>1. up' = Append(up, c) /\ host' = Queued(Popped(host), o)
    BY <1>6 DEF Sends
  <2>2. a \in Approval /\ got[a] = 0
    BY <1>2 DEF Fresh
  <2>3. c \in Command /\ o \in Operation /\ o.op # "ack"
    BY <2>2, Operations DEF Command
  <2>4. \A b : c = [op |-> "resolve", of |-> b] => b = a
    OBVIOUS
  <2>5. a \notin Acked
    <3>1. cli[a] = "acked" => got[a] > 0
      BY <2>2 DEF Inv, Words
    <3> QED BY <2>2, <3>1 DEF Acked
  <2> HIDE DEF c, t, a
  <2>6. \A b \in Unrecorded' : b \in Unrecorded \/ b = a
    <3> SUFFICES ASSUME NEW b \in Unrecorded', b # a PROVE b \in Unrecorded
      OBVIOUS
    <3>1. Sent(Append(up, c), b) = Sent(up, b)
      <4>1. up \in Seq(Command) /\ c # [op |-> "resolve", of |-> b]
        BY <2>4, HostHas
      <4> QED BY <2>3, <4>1, SentAppend
    <3> QED BY <1>1, <2>1, <3>1 DEF Unrecorded, Resolves, Sent, journal
  <2>7. Told'
    BY <1>1 DEF Order, Told
  <2>8. host'.ready = host.ready /\ host'.cursor = host.cursor
    BY <1>2, <2>1, QueuedOn
  <2>9. Unheard' = Unheard
    BY <1>1, <2>8 DEF Unheard
  <2>10. ASSUME Undisturbed' PROVE Line'
    <3>1. Line
      BY <1>1, <2>10 DEF Order, Undisturbed
    <3> DEFINE X == Taken \cup Unheard
    <3>2. Lined(host.tail, X, Unrecorded) /\ host.tail \in Seq(Operation)
      BY <3>1, HostHas DEF Line
    <3>3. Lined(t, X, Unrecorded)
      <4> HIDE DEF X
      <4>1. \A b \in Unrecorded : Head(host.tail) # [op |-> "pipe", of |-> b]
        BY <1>3
      <4> QED BY <1>1, <3>2, <4>1, LinedTail DEF t
    <3>4. host'.tail = Append(t, o)
      BY <1>2, <2>1, <3>1, QueuedOn DEF Line
    <3>5. \A b \in Unrecorded' :
            b \in Unrecorded \/ (o = [op |-> "pipe", of |-> b] /\ \A j \in 1 .. Len(t) : ~(t[j].op = "ack" /\ t[j].of = b))
      BY <1>2, <2>5, <2>6 DEF Fit
    <3> HIDE DEF X, o
    <3>6. Lined(host'.tail, X, Unrecorded')
      BY <1>2, <2>3, <3>3, <3>4, <3>5, LinedAppend
    <3> QED BY <1>4, <2>8, <2>9, <3>1, <3>6 DEF Line, Lined, Piped, X
  <2> QED BY <2>7, <2>10 DEF Order
<1> QED BY <1>5, <1>6

LEMMA OrderStep == Inv /\ Order /\ [Next]_vars => Order'
<1> SUFFICES ASSUME Inv, Order, [Next]_vars PROVE Order'
  OBVIOUS
<1>1. CASE Supervisor
  BY <1>1, SupOrder, SupReadsOrder, CliOrder DEF Supervisor
<1>2. CASE Connection
  BY <1>2, HostReadsOrder, HostOrder DEF Connection
<1>3. CASE Journal
  BY <1>3, JournalOrder, SendsOrder DEF Journal
<1>4. CASE Requests
  BY <1>4, HostOrder DEF Requests
<1>5. CASE Restart
  <2>1. UNCHANGED log /\ Upset("crash") /\ "crash" \in UPSETS
    BY <1>5 DEF Restart, cliVars, UPSETS
  <2>2. ~Undisturbed'
    BY <2>1, UpsetsGrow DEF Inv
  <2> QED BY <2>1, <2>2 DEF Order, Told
<1>6. CASE (\E a \in Approval : Expires(a)) \/ UNCHANGED vars
  BY <1>6, SupOrder
<1> QED BY <1>1, <1>2, <1>3, <1>4, <1>5, <1>6 DEF Next

\* But for a crash of the Host between the two and for journal calls that were
\* refused, the CLI's acknowledgement never comes before the record that its
\* decision was sent (agent-connectors.js resolveApprovalDurable and its handler
\* of approval_ack, which both queue on the task's journal tail).
THEOREM AcksAreTaken == Spec => []AckIsTaken
<1>1. Init => Order
  <2> SUFFICES ASSUME Init PROVE Order
    OBVIOUS
  <2>1. host.tail = <<>> /\ log = <<>> /\ host.ready /\ Taken = {} /\ Unrecorded = {}
    BY DEF Init, Taken, Unrecorded
  <2>2. Unheard = {}
    BY <2>1 DEF Unheard
  <2> QED BY <2>1, <2>2 DEF Order, Told, Line, Lined
<1>2. Inv /\ Order => AckIsTaken
  <2> SUFFICES ASSUME Inv, Order, Undisturbed, InTail("ack")
               PROVE  receipt[Head(host.tail).of] \in {"awaiting", "uncertain"}
    BY DEF AckIsTaken, Undisturbed
  <2> DEFINE t == host.tail
             a == Head(t).of
  <2>1. t # <<>> /\ Head(t).op = "ack" /\ Head(t) = t[1] /\ 1 \in 1 .. Len(t)
    <3>1. t # <<>> /\ Head(t).op = "ack" /\ t \in Seq(Operation)
      BY HostHas DEF InTail
    <3> QED BY <3>1, EmptySeq, LenProperties
  <2>2. a \in Acked /\ a \in Approval
    BY <2>1, HostHas DEF Fit, Acked
  <2>3. got[a] = 1
    BY <2>2, SentOnce DEF Acked, Inv, Words, TypeOK
  <2>4. receipt[a] \in {"dispatching", "awaiting", "succeeded", "uncertain"}
    BY <2>2, <2>3, SentOnce DEF Inv
  <2>5. a \notin Taken /\ (a \in Unrecorded => Piped(t, 1 - 1, a))
    <3>1. Lined(t, Taken \cup Unheard, Unrecorded)
      BY DEF Order, Line
    <3> HIDE DEF t
    <3> QED BY <2>1, <3>1 DEF Lined
  <2>6. a \notin Unrecorded
    BY <2>5 DEF Piped
  <2> QED BY <2>2, <2>3, <2>4, <2>5, <2>6 DEF Taken, Unrecorded
<1> QED BY <1>1, <1>2, OrderStep, Invariance, PTL DEF Spec

=============================================================================
