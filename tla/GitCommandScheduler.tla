------------------------- MODULE GitCommandScheduler -------------------------
(***************************************************************************)
(* The actor GitCommandScheduler                                           *)
(* (Infrastructure/Git/Process/GitCommandScheduler.swift), which bounds    *)
(* the git processes that run at the same time, together with the life of  *)
(* a command as the actor sees it: the caller's acquire, the permit, the   *)
(* cancellation of the caller's task, and the release that                 *)
(* ProcessGitClient hands to a task of its own.                            *)
(*                                                                         *)
(* A handler of the actor is one step, with one exception: the loop of     *)
(* resumeEligibleWaiters hands permits to tasks that go on from then on    *)
(* other threads, so each of its iterations is a step.  resuming is TRUE   *)
(* from the call of the loop to its return; the actor is busy until then,  *)
(* and no other handler of it can run.                                     *)
(*                                                                         *)
(* A member of Command stands for one command at a time: acquire makes a   *)
(* fresh id on every call, so a command that is over may be reused as a    *)
(* new one as soon as nothing of the old one is left.  Histories are       *)
(* unbounded although Command is finite.                                   *)
(***************************************************************************)
EXTENDS Naturals, Sequences, SequencesExt

CONSTANTS Command,                   \* the commands alive at any moment
          Cancellable,               \* those whose caller may cancel its task
          MaximumRunningCommands,    \* permits out at any moment
          MaximumRunningByPriority   \* permits out for one priority

Priority == {"userInteractive", "visible", "background"}

\* The order in which nextEligibleWaiterIndex looks at the priorities.
Rank == [userInteractive |-> 1, visible |-> 2, background |-> 3]

ASSUME CommandAssumption == IsFiniteSet(Command) /\ Cancellable \subseteq Command

ASSUME LimitAssumption ==
  /\ MaximumRunningCommands \in Nat \ {0}
  /\ MaximumRunningByPriority \in [Priority -> Nat \ {0}]

VARIABLES runningTotal,       \* permits out, as the actor counts them
          runningByPriority,  \* the same, by priority
          waiters,            \* the queued commands, oldest first
          resuming,           \* resumeEligibleWaiters is under way
          phase,              \* where each command is
          priority,           \* the priority each command asked with
          cancelTasks         \* whose onCancel has spawned a task that has not run yet

vars == <<runningTotal, runningByPriority, waiters, resuming, phase, priority, cancelTasks>>

\* idle      not a command at present
\* waiting   suspended in acquire, in the array of waiters
\* granted   its continuation has been resumed with a permit
\* running   back in ProcessGitClient, holding the permit
\* releasing its defer has spawned the task that calls release
Phase == {"idle", "waiting", "granted", "running", "releasing"}

HoldsPermit(c) == phase[c] \in {"granted", "running", "releasing"}

TypeOK ==
  /\ runningTotal \in Nat
  /\ runningByPriority \in [Priority -> Nat]
  /\ waiters \in Seq(Command)
  /\ resuming \in BOOLEAN
  /\ phase \in [Command -> Phase]
  /\ priority \in [Command -> Priority]
  /\ cancelTasks \subseteq Command

\* Faulty variant: the dictionary of counters lacks a key and is read without ?? 0.
Init_MissingCounter ==
  /\ runningTotal = 0
  /\ runningByPriority = [p \in Priority \ {"background"} |-> 0]
  /\ waiters = <<>>
  /\ resuming = FALSE
  /\ phase = [c \in Command |-> "idle"]
  /\ priority = [c \in Command |-> "visible"]
  /\ cancelTasks = {}

Init ==
  /\ runningTotal = 0
  /\ runningByPriority = [p \in Priority |-> 0]
  /\ waiters = <<>>
  /\ resuming = FALSE
  /\ phase = [c \in Command |-> "idle"]
  /\ priority = [c \in Command |-> "visible"]
  /\ cancelTasks = {}

-----------------------------------------------------------------------------

\* Faulty variants: one of the two limits is not looked at.
CanStart_NoTotal(p)    == runningByPriority[p] < MaximumRunningByPriority[p]
CanStart_NoPriority(p) == runningTotal < MaximumRunningCommands

CanStart(p) ==
  /\ runningTotal < MaximumRunningCommands
  /\ runningByPriority[p] < MaximumRunningByPriority[p]

Start(p) ==
  /\ runningTotal' = runningTotal + 1
  /\ runningByPriority' = [runningByPriority EXCEPT ![p] = @ + 1]

Eligible(i) == i \in DOMAIN waiters /\ CanStart(priority[waiters[i]])

\* Faulty variants: the array is scanned without regard to the priorities, or
\* from its end.
IsNextEligible_AnyPriority(i) ==
  Eligible(i) /\ \A j \in DOMAIN waiters : Eligible(j) => i <= j

IsNextEligible_Last(i) ==
  /\ Eligible(i)
  /\ \A j \in DOMAIN waiters : Eligible(j) =>
       \/ Rank[priority[waiters[i]]] < Rank[priority[waiters[j]]]
       \/ priority[waiters[i]] = priority[waiters[j]] /\ i >= j

\* The first eligible waiter of the best priority that has one.
IsNextEligible(i) ==
  /\ Eligible(i)
  /\ \A j \in DOMAIN waiters : Eligible(j) =>
       \/ Rank[priority[waiters[i]]] < Rank[priority[waiters[j]]]
       \/ priority[waiters[i]] = priority[waiters[j]] /\ i <= j

\* A command is over; what it asked for is forgotten with it.
Leave(c) ==
  /\ phase' = [phase EXCEPT ![c] = "idle"]
  /\ priority' = [priority EXCEPT ![c] = "visible"]

\* A command that is not there yet, and has no task left from an earlier one.
IsNew(c) == phase[c] = "idle" /\ c \notin cancelTasks

\* max(0, n - 1)
Decrement(n) == IF n > 0 THEN n - 1 ELSE 0

\* acquire is called for a new command and a permit is free.
AcquireAtOnce(c, p) ==
  /\ ~resuming
  /\ IsNew(c)
  /\ CanStart(p)
  /\ Start(p)
  /\ phase' = [phase EXCEPT ![c] = "running"]
  /\ priority' = [priority EXCEPT ![c] = p]
  /\ UNCHANGED <<waiters, resuming, cancelTasks>>

\* acquire is called and the command has to wait.
AcquireQueued(c, p) ==
  /\ ~resuming
  /\ IsNew(c)
  /\ ~CanStart(p)
  /\ waiters' = Append(waiters, c)
  /\ resuming' = TRUE
  /\ phase' = [phase EXCEPT ![c] = "waiting"]
  /\ priority' = [priority EXCEPT ![c] = p]
  /\ UNCHANGED <<runningTotal, runningByPriority, cancelTasks>>

\* One iteration of the loop: the next eligible waiter gets its permit.
ResumeWaiter ==
  /\ resuming
  /\ \E i \in DOMAIN waiters :
       /\ IsNextEligible(i)
       /\ waiters' = RemoveAt(waiters, i)
       /\ Start(priority[waiters[i]])
       /\ phase' = [phase EXCEPT ![waiters[i]] = "granted"]
  /\ UNCHANGED <<resuming, priority, cancelTasks>>

\* The loop finds no eligible waiter and returns.
FinishResuming ==
  /\ resuming
  /\ \A i \in DOMAIN waiters : ~Eligible(i)
  /\ resuming' = FALSE
  /\ UNCHANGED <<runningTotal, runningByPriority, waiters, phase, priority, cancelTasks>>

\* The caller's task is cancelled while acquire has its onCancel installed.  (A
\* task is cancelled once; a second time would only repeat a task that finds
\* nothing to do.)
Cancel(c) ==
  /\ c \in Cancellable
  /\ phase[c] \in {"waiting", "granted"}
  /\ c \notin cancelTasks
  /\ cancelTasks' = cancelTasks \cup {c}
  /\ UNCHANGED <<runningTotal, runningByPriority, waiters, resuming, phase, priority>>

\* Faulty variant: the caller is resumed and its entry stays in the array.
CancelWaiter_KeepsEntry(c) ==
  /\ ~resuming
  /\ c \in cancelTasks
  /\ \E i \in DOMAIN waiters : waiters[i] = c
  /\ cancelTasks' = cancelTasks \ {c}
  /\ Leave(c)
  /\ UNCHANGED <<runningTotal, runningByPriority, waiters, resuming>>

\* The task that onCancel spawned finds its command among the waiters: acquire
\* throws CancellationError.
CancelWaiter(c) ==
  /\ ~resuming
  /\ c \in cancelTasks
  /\ \E i \in DOMAIN waiters :
       /\ waiters[i] = c
       /\ waiters' = RemoveAt(waiters, i)
  /\ cancelTasks' = cancelTasks \ {c}
  /\ Leave(c)
  /\ UNCHANGED <<runningTotal, runningByPriority, resuming>>

\* Faulty variant: the late cancellation ends the command, its permit with it.
CancelWaiterTooLate_DropsPermit(c) ==
  /\ ~resuming
  /\ c \in cancelTasks
  /\ \A i \in DOMAIN waiters : waiters[i] # c
  /\ cancelTasks' = cancelTasks \ {c}
  /\ Leave(c)
  /\ UNCHANGED <<runningTotal, runningByPriority, waiters, resuming>>

\* It comes too late: the command has had its permit and keeps it.
CancelWaiterTooLate(c) ==
  /\ ~resuming
  /\ c \in cancelTasks
  /\ \A i \in DOMAIN waiters : waiters[i] # c
  /\ cancelTasks' = cancelTasks \ {c}
  /\ UNCHANGED <<runningTotal, runningByPriority, waiters, resuming, phase, priority>>

\* acquire returns its permit to ProcessGitClient.
ReturnPermit(c) ==
  /\ phase[c] = "granted"
  /\ phase' = [phase EXCEPT ![c] = "running"]
  /\ UNCHANGED <<runningTotal, runningByPriority, waiters, resuming, priority, cancelTasks>>

\* The command is over, whatever its outcome: its defer spawns a release.
Finish(c) ==
  /\ phase[c] = "running"
  /\ phase' = [phase EXCEPT ![c] = "releasing"]
  /\ UNCHANGED <<runningTotal, runningByPriority, waiters, resuming, priority, cancelTasks>>

\* Faulty variant: release does not wake the waiters.
Release_NoResume(c) ==
  /\ ~resuming
  /\ phase[c] = "releasing"
  /\ runningTotal' = Decrement(runningTotal)
  /\ runningByPriority' = [runningByPriority EXCEPT ![priority[c]] = Decrement(@)]
  /\ Leave(c)
  /\ UNCHANGED <<waiters, resuming, cancelTasks>>

\* release runs on the actor and then wakes whoever can start.
Release(c) ==
  /\ ~resuming
  /\ phase[c] = "releasing"
  /\ runningTotal' = Decrement(runningTotal)
  /\ runningByPriority' = [runningByPriority EXCEPT ![priority[c]] = Decrement(@)]
  /\ resuming' = TRUE
  /\ Leave(c)
  /\ UNCHANGED <<waiters, cancelTasks>>

\* The iterations of resumeEligibleWaiters.
Loop == ResumeWaiter \/ FinishResuming

Next ==
  \/ Loop
  \/ \E c \in Command :
       \/ \E p \in Priority : AcquireAtOnce(c, p) \/ AcquireQueued(c, p)
       \/ Cancel(c) \/ CancelWaiter(c) \/ CancelWaiterTooLate(c)
       \/ ReturnPermit(c) \/ Finish(c) \/ Release(c)

\* The loop does not suspend and a resumed task runs.  A command ends, if not
\* by itself then by its timeout.  A job that was handed to the actor gets its
\* turn although the actor is busy from time to time.  Nothing obliges a caller
\* to issue a command or to cancel one.
Fairness ==
  /\ WF_vars(Loop)
  /\ \A c \in Command : WF_vars(ReturnPermit(c) \/ Finish(c)) /\ SF_vars(Release(c))
  /\ \A c \in Cancellable : SF_vars(CancelWaiter(c) \/ CancelWaiterTooLate(c))

Spec == Init /\ [][Next]_vars /\ Fairness

-----------------------------------------------------------------------------

PermitHolders == {c \in Command : HoldsPermit(c)}
HoldersOf(p)  == {c \in PermitHolders : priority[c] = p}

\* The counters of the actor are the permits that are really out: no path
\* (immediate start, wake-up, cancellation that arrives late, release by a
\* detached task) takes a permit twice, forgets to give it back or gives it
\* back twice, so that the clamps max(0, ...) in release never hide anything.
Accounting ==
  /\ runningTotal = Cardinality(PermitHolders)
  /\ \A p \in Priority : runningByPriority[p] = Cardinality(HoldersOf(p))

\* Never more git processes than the limits allow, counted by who holds a
\* permit and not by the actor's own counters.
LimitsKept ==
  /\ Cardinality(PermitHolders) <= MaximumRunningCommands
  /\ \A p \in Priority : Cardinality(HoldersOf(p)) <= MaximumRunningByPriority[p]

\* The array of waiters holds every suspended caller, once, and nobody else:
\* each continuation is resumed exactly once, which CheckedContinuation traps
\* on otherwise, and no caller is left suspended with nobody to resume it.
EachCallerQueuedOnce ==
  /\ \A i, j \in DOMAIN waiters : waiters[i] = waiters[j] => i = j
  /\ \A c \in Command : phase[c] = "waiting" <=> \E i \in DOMAIN waiters : waiters[i] = c

\* No slot is left idle: whenever the actor is free, no waiter could start.
\* acquire relies on it when it starts a command without looking at the array.
NoIdleSlot ==
  ~resuming => \A i \in DOMAIN waiters : ~CanStart(priority[waiters[i]])

\* The inductive invariant: the counters stay within the limits because they
\* only grow under CanStart, and what they count are the permits.
CountersWithinLimits ==
  /\ runningTotal <= MaximumRunningCommands
  /\ \A p \in Priority : runningByPriority[p] <= MaximumRunningByPriority[p]

IInv ==
  /\ TypeOK
  /\ CountersWithinLimits
  /\ Accounting
  /\ EachCallerQueuedOnce
  /\ NoIdleSlot

QueuedAhead(d, c) ==
  \E i \in DOMAIN waiters :
    /\ waiters[i] = d
    /\ \A j \in DOMAIN waiters : waiters[j] = c => i < j

\* A command that gets a permit, at once or from the array, overtakes nobody
\* who could have had it: every waiter of a better priority, and every earlier
\* one of its own, cannot start at that moment.
ServedInOrder ==
  [][\A c \in Command : ~HoldsPermit(c) /\ HoldsPermit(c)' =>
       \A d \in Command \ {c} :
         /\ phase[d] = "waiting"
         /\ \/ Rank[priority[d]] < Rank[priority'[c]]
            \/ priority[d] = priority'[c] /\ QueuedAhead(d, c)
         => ~CanStart(priority[d])]_vars

\* A userInteractive or visible command that waits gets its permit or is
\* cancelled, however many commands keep arriving: the limit of the better
\* priority is below the total, so it can never take every slot.
Served(c) ==
  (phase[c] = "waiting" /\ priority[c] # "background") ~> (phase[c] # "waiting")

\* A background command can be kept waiting for ever, but only behind a queue:
\* from some moment on there would always be again a better command waiting.
StarvedOnlyByQueue(c) ==
  \/ []<>(phase[c] # "waiting" \/ priority[c] # "background")
  \/ []<>(\E d \in Command : phase[d] = "waiting" /\ priority[d] # "background")

QueueOf(p) == {c \in Command : phase[c] = "waiting" /\ priority[c] = p}

\* d is in front of c in the array, with the same priority.
InFrontOf(d, c) ==
  /\ priority[d] = priority[c]
  /\ \E i, j \in DOMAIN waiters : waiters[i] = d /\ waiters[j] = c /\ i < j

\* One array and two sets of counters do what a queue per priority does.
Admission == INSTANCE CommandAdmission WITH
  Lane       <- Priority,
  TotalLimit <- MaximumRunningCommands,
  LaneLimit  <- MaximumRunningByPriority,
  inside     <- [p \in Priority |-> HoldersOf(p)],
  queue      <- [p \in Priority |-> QueueOf(p)],
  ahead      <- [c \in Command |-> {d \in Command : InFrontOf(d, c)}]

\* GitCommandScheduler implements CommandAdmission.
ImplementsAdmission == Admission!Spec
=============================================================================
