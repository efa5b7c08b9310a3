--------------------------- MODULE CommandAdmission ---------------------------
(***************************************************************************)
(* What the command scheduler promises its callers, without saying how it  *)
(* keeps its books: every priority has a queue of its own, a command runs  *)
(* only while the total and its priority leave room for it, and a command  *)
(* is let in past the queues only when nobody who waits could be let in.   *)
(*                                                                         *)
(* A queue is the set of those who wait in it, each of whom knows who came *)
(* before.  GitCommandScheduler keeps one array of waiters and two sets of *)
(* counters instead; it implements this module.                            *)
(***************************************************************************)
EXTENDS Naturals, FiniteSets

CONSTANTS Command,      \* the commands that may ask for a slot
          Lane,         \* the priorities
          Rank,         \* the lane with the least rank is served first
          TotalLimit,   \* commands inside at any moment
          LaneLimit     \* commands of one lane inside at any moment

VARIABLES inside,       \* the commands of each lane that hold a slot
          queue,        \* the commands of each lane that wait
          ahead         \* who waits in front of a command, in its own lane

vars == <<inside, queue, ahead>>

Waiting  == UNION {queue[l] : l \in Lane}
Admitted == UNION {inside[l] : l \in Lane}

HasRoom(l) ==
  /\ Cardinality(Admitted) < TotalLimit
  /\ Cardinality(inside[l]) < LaneLimit[l]

Servable(l) == queue[l] # {} /\ HasRoom(l)

TypeOK ==
  /\ inside \in [Lane -> SUBSET Command]
  /\ queue \in [Lane -> SUBSET Command]
  /\ ahead \in [Command -> SUBSET Command]

Init ==
  /\ inside = [l \in Lane |-> {}]
  /\ queue = [l \in Lane |-> {}]
  /\ ahead = [c \in Command |-> {}]

-----------------------------------------------------------------------------

\* A command is let in at once: there is room, and nobody who waits has any.
Enter(c, l) ==
  /\ c \notin Waiting \cup Admitted
  /\ HasRoom(l)
  /\ \A m \in Lane : ~Servable(m)
  /\ inside' = [inside EXCEPT ![l] = @ \cup {c}]
  /\ UNCHANGED <<queue, ahead>>

\* A command with no room for it joins the end of its lane.
Join(c, l) ==
  /\ c \notin Waiting \cup Admitted
  /\ ~HasRoom(l)
  /\ queue' = [queue EXCEPT ![l] = @ \cup {c}]
  /\ ahead' = [ahead EXCEPT ![c] = queue[l]]
  /\ UNCHANGED inside

\* A command leaves its lane from any place in it; those behind it move up.
Dequeue(c, l) ==
  /\ c \in queue[l]
  /\ queue' = [queue EXCEPT ![l] = @ \ {c}]
  /\ ahead' = [d \in Command |-> IF d = c THEN {} ELSE ahead[d] \ {c}]

\* The head of the best lane that can be served is let in.
Admit(c, l) ==
  /\ Servable(l)
  /\ \A m \in Lane : Servable(m) => Rank[l] <= Rank[m]
  /\ ahead[c] = {}
  /\ Dequeue(c, l)
  /\ inside' = [inside EXCEPT ![l] = @ \cup {c}]

\* A cancelled command goes away.
Withdraw(c, l) == Dequeue(c, l) /\ UNCHANGED inside

Leave(c, l) ==
  /\ c \in inside[l]
  /\ inside' = [inside EXCEPT ![l] = @ \ {c}]
  /\ UNCHANGED <<queue, ahead>>

Next ==
  \E c \in Command, l \in Lane :
    Enter(c, l) \/ Join(c, l) \/ Admit(c, l) \/ Withdraw(c, l) \/ Leave(c, l)

Spec == Init /\ [][Next]_vars
=============================================================================
