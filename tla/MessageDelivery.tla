---------------------------- MODULE MessageDelivery ----------------------------
(***************************************************************************)
(* What the queue promises of each message, without dispatcher, calls,     *)
(* timers, reports and files: a message is lost only in a restart that     *)
(* cannot read the queue, and then with all others; it never comes back    *)
(* after it has left; the agent gets a copy only for a send that a person  *)
(* asked for, and each is used once; only what the agent was given leaves  *)
(* as delivered; what may be with the agent is queued again only when a    *)
(* person asks, or when the agent says that it did not take it; a restart  *)
(* queues nothing.                                                         *)
(***************************************************************************)
EXTENDS Naturals

CONSTANT Items

VARIABLES
  place,   \* where each message is
  given,   \* copies of it that the agent has had
  wanted,  \* sends of it that persons asked for, not yet used
  sound    \* no write of the index has failed

\* Waiting to go, waiting for a person, on its way; and gone.
HERE == {"queued", "stopped", "sending"}
PLACES == HERE \cup {"new", "delivered", "removed", "lost"}

DeliveryTypeOK ==
  /\ place \in [Items -> PLACES]
  /\ given \in [Items -> Nat] /\ wanted \in [Items -> Nat]
  /\ sound \in BOOLEAN

In(p) == {i \in Items : place[i] = p}
Goes(S, p) == place' = [i \in Items |-> IF i \in S THEN p ELSE place[i]]
More(f, S) == [i \in Items |-> f[i] + IF i \in S THEN 1 ELSE 0]
Fewer(f, S) == [i \in Items |-> IF i \in S /\ f[i] > 0 THEN f[i] - 1 ELSE f[i]]

\* Whatever changes the queue may fail to write its index.
Saves == sound' \in BOOLEAN /\ (sound' => sound)

----------------------------------------------------------------------------
(* Persons *)

Submit(i) ==
  /\ i \in In("new") /\ Goes({i}, "queued")
  /\ wanted' = More(wanted, {i}) /\ UNCHANGED <<given, sound>>

\* Messages that wait for a person may go again.
Ask(S) ==
  /\ S \subseteq In("stopped") /\ Goes(S, "queued")
  /\ wanted' = More(wanted, S) /\ UNCHANGED given /\ Saves

\* One goes at once, and others may go again.
AskNow(i, S) ==
  /\ i \in In("queued") \cup In("stopped") /\ S \subseteq In("stopped") \ {i}
  /\ place' = [j \in Items |-> IF j = i THEN "sending" ELSE IF j \in S THEN "queued" ELSE place[j]]
  /\ wanted' = More(wanted, S \cup ({i} \cap In("stopped"))) /\ UNCHANGED given /\ Saves

Withdraw(i) ==
  /\ i \in In("queued") \cup In("stopped") /\ Goes({i}, "removed")
  /\ UNCHANGED <<given, wanted>> /\ Saves

\* A person stops the agent, which gives back what it did not start: messages
\* on their way, and texts whose message has left and that come in anew.
TakeBack(S, T) ==
  /\ S \subseteq In("sending") /\ T \subseteq In("new") /\ Goes(S \cup T, "queued")
  /\ given' = Fewer(given, S) /\ wanted' = More(wanted, S \cup T) /\ Saves

----------------------------------------------------------------------------
(* The Host and the agent *)

Send(i) ==
  /\ i \in In("queued") /\ Goes({i}, "sending")
  /\ UNCHANGED <<given, wanted>> /\ Saves

\* The agent is given a copy, for a send somebody asked for.
Copy(i) ==
  /\ sound => wanted[i] > 0
  /\ given' = More(given, {i}) /\ wanted' = Fewer(wanted, {i}) /\ UNCHANGED <<place, sound>>

\* The agent says that it is busy.
Return(i) ==
  /\ i \in In("sending") /\ Goes({i}, "queued")
  /\ UNCHANGED <<given, wanted>> /\ Saves

\* A send that failed has used its wish; its message waits for a person.
Lapse(i) == wanted' = Fewer(wanted, {i}) /\ UNCHANGED <<place, given, sound>>
Doubt(S) ==
  /\ S \subseteq In("sending") /\ Goes(S, "stopped")
  /\ UNCHANGED <<given, wanted>> /\ Saves

\* The agent drops what it had been given.
Drop(i, S) ==
  /\ S \subseteq {i} \cap In("sending") /\ Goes(S, "stopped")
  /\ given' = Fewer(given, {i}) /\ UNCHANGED wanted /\ Saves

Deliver(S) ==
  /\ S \subseteq In("sending") /\ \A i \in S : given[i] > 0
  /\ Goes(S, "delivered")
  /\ UNCHANGED <<given, wanted>> /\ Saves

----------------------------------------------------------------------------
(* A restart: what was on its way waits for a person.  From an old index a *)
(* message that is there may only come back as waiting, for one or other.  *)

After(p) ==
  IF p \notin HERE THEN {p}
  ELSE IF ~sound THEN {"queued", "stopped"} ELSE IF p = "queued" THEN {"queued"} ELSE {"stopped"}

\* A queue that cannot be read is lost as a whole.
Wiped == place' = [i \in Items |-> IF place[i] \in HERE THEN "lost" ELSE place[i]]
Found == place' \in [Items -> PLACES] /\ \A i \in Items : place'[i] \in After(place[i])

Crash ==
  /\ Found \/ Wiped
  /\ given' = [i \in Items |-> 0]
  /\ wanted' \in [Items -> Nat]
  /\ \A i \in Items : wanted'[i] <= wanted[i] /\ (sound /\ place'[i] = "queued" => wanted'[i] > 0)
  /\ UNCHANGED sound

----------------------------------------------------------------------------

Init ==
  /\ place = [i \in Items |-> "new"]
  /\ given = [i \in Items |-> 0] /\ wanted = [i \in Items |-> 0]
  /\ sound = TRUE

Next ==
  \/ \E S \in SUBSET In("stopped") : Ask(S)
  \/ Crash
  \/ \E i \in Items : Submit(i) \/ Withdraw(i) \/ Send(i) \/ Copy(i) \/ Return(i) \/ Lapse(i)
  \/ \E i \in Items, S \in SUBSET In("stopped") : AskNow(i, S)
  \/ \E S \in SUBSET In("sending") : Doubt(S) \/ Deliver(S) \/ \E i \in Items : Drop(i, S)
  \/ \E S \in SUBSET In("sending"), T \in SUBSET In("new") : TakeBack(S, T)

Spec == Init /\ [][Next]_<<place, given, wanted, sound>>
=============================================================================
