--------------------------- MODULE GitCommandClient ---------------------------
(***************************************************************************)
(* The life of a git command between ProcessGitClient and                  *)
(* ProcessGitCommandRunner (Infrastructure/Git/Process): the permit, the   *)
(* task group that races the runner against the timeout watcher, the       *)
(* process, the cancellation of the caller, and the sweep that the app     *)
(* delegate starts when the user quits.                                    *)
(*                                                                         *)
(* run and runReturningData have the same control, and so have execute     *)
(* and executeData: a command stands for a call of either kind.  The       *)
(* scheduler appears by its contract only (GitCommandScheduler): a permit  *)
(* is given sooner or later, or the wait ends with CancellationError.      *)
(* Time does not appear: a timeout may fire whenever its sleep has begun,  *)
(* a grace period may end whenever it has begun.                           *)
(***************************************************************************)
EXTENDS Naturals, FiniteSets

CONSTANTS Command,      \* the commands, one call each
          Cancellable,  \* those whose caller may cancel its task
          Manner,       \* how processes end, see MannerAssumption
          Quits         \* whether the user may quit

\* What it takes to end a process once it runs: nothing, it is a command that
\* ends; SIGTERM, it hangs; SIGKILL, it hangs and ignores SIGTERM.
ASSUME MannerAssumption == Manner \subseteq {"byItself", "onTerm", "onKill"}

ASSUME CallerAssumption == Cancellable \subseteq Command /\ Quits \in BOOLEAN

VARIABLES cmd,       \* the state of each command, see CommandState
          inFlight,  \* the runner's dictionary of processes
          sweep      \* cancelAll, see SweepState

vars == <<cmd, inFlight, sweep>>

\* cancel(id) is called by the timeout watcher, by the task that onCancel of
\* execute spawns, and by the catch of run.
Caller == {"watcher", "onCancel", "catch"}

CommandState ==
  [call      : {"idle", "acquiring", "grouped", "unwinding", "done"}, \* the caller's run
   outcome   : {"none", "success", "failed", "timeout", "cancelled"}, \* what run gave
   permit    : {"none", "held", "releasing", "released"},
   cancelled : BOOLEAN,   \* the caller's task is cancelled
   child     : {"none", "calling", "queued", "running", "exited", "drained", "finished"},
   exit      : {"none", "success", "failed"},   \* how process and child ended
   watcher   : {"none", "sleeping", "cancelling", "finished"},
   first     : {"none", "success", "failed", "timeout", "cancelled"}, \* the first result
   halted    : BOOLEAN,   \* the children of the group are cancelled
   manner    : Manner \cup {"none"},
   signals   : SUBSET {"TERM", "KILL"},
   cancel    : [Caller -> {"none", "called", "grace", "over"}]]

SweepState ==
  [stage  : {"none", "sweeping", "grace", "over"},
   todo   : SUBSET Command,   \* the rest of the values that cancelAll loops over
   target : SUBSET Command,   \* the process it gives time to end
   alive  : SUBSET Command]   \* history: the processes that ran when it began

TypeOK ==
  /\ cmd \in [Command -> CommandState]
  /\ inFlight \subseteq Command
  /\ sweep \in SweepState

Init ==
  /\ cmd = [c \in Command |->
       [call |-> "idle", outcome |-> "none", permit |-> "none", cancelled |-> FALSE,
        child |-> "none", exit |-> "none", watcher |-> "none", first |-> "none",
        halted |-> FALSE, manner |-> "none", signals |-> {},
        cancel |-> [k \in Caller |-> "none"]]]
  /\ inFlight = {}
  /\ sweep = [stage |-> "none", todo |-> {}, target |-> {}, alive |-> {}]

-----------------------------------------------------------------------------
(* ProcessGitClient.run                                                    *)

\* The caller asks for a permit.
Run(c) ==
  /\ cmd[c].call = "idle"
  /\ cmd' = [cmd EXCEPT ![c].call = "acquiring"]
  /\ UNCHANGED <<inFlight, sweep>>

\* The permit is there: the group starts its two children, which are cancelled
\* from the start if the caller is.
EnterGroup(c) ==
  /\ cmd[c].call = "acquiring"
  /\ cmd' = [cmd EXCEPT ![c].call = "grouped", ![c].permit = "held",
                        ![c].child = "calling", ![c].watcher = "sleeping",
                        ![c].halted = cmd[c].cancelled]
  /\ UNCHANGED <<inFlight, sweep>>

\* acquire throws CancellationError: there is no permit and no group.
AcquireCancelled(c) ==
  /\ cmd[c].call = "acquiring"
  /\ cmd[c].cancelled
  /\ cmd' = [cmd EXCEPT ![c].call = "unwinding", ![c].outcome = "cancelled",
                        ![c].cancel["catch"] = "called"]
  /\ UNCHANGED <<inFlight, sweep>>

\* The caller's task is cancelled, and the children of its group with it.
CancelCaller(c) ==
  /\ c \in Cancellable
  /\ cmd[c].call \in {"acquiring", "grouped"}
  /\ ~cmd[c].cancelled
  /\ cmd' = [cmd EXCEPT ![c].cancelled = TRUE, ![c].halted = (cmd[c].call = "grouped")]
  /\ UNCHANGED <<inFlight, sweep>>

\* Faulty variant: the last result is kept, not the first.
FirstResult_Last(c, r) == r

\* A child of the group is over; the group keeps the order in which they end.
FirstResult(c, r) == IF cmd[c].first = "none" THEN r ELSE cmd[c].first

\* The sleep of the watcher is over: the timeout.
TimeoutFires(c) ==
  /\ cmd[c].watcher = "sleeping"
  /\ cmd' = [cmd EXCEPT ![c].watcher = "cancelling", ![c].cancel["watcher"] = "called"]
  /\ UNCHANGED <<inFlight, sweep>>

\* runner.cancel has returned to the watcher, which throws .timeout.
WatcherThrows(c) ==
  /\ cmd[c].watcher = "cancelling"
  /\ cmd[c].cancel["watcher"] = "over"
  /\ cmd' = [cmd EXCEPT ![c].watcher = "finished", ![c].first = FirstResult(c, "timeout")]
  /\ UNCHANGED <<inFlight, sweep>>

\* The sleep of the cancelled watcher throws CancellationError.
WatcherCancelled(c) ==
  /\ cmd[c].watcher = "sleeping"
  /\ cmd[c].halted
  /\ cmd' = [cmd EXCEPT ![c].watcher = "finished", ![c].first = FirstResult(c, "cancelled")]
  /\ UNCHANGED <<inFlight, sweep>>

\* group.next() gives the first result or throws it; either way the group
\* cancels the child that is left.
HaltGroup(c) ==
  /\ cmd[c].call = "grouped"
  /\ cmd[c].first # "none"
  /\ ~cmd[c].halted
  /\ cmd' = [cmd EXCEPT ![c].halted = TRUE]
  /\ UNCHANGED <<inFlight, sweep>>

\* Faulty variants: the group does not wait for the child that runs the process;
\* the release is not in a defer, and an error skips it.
LeaveGroup_NoWait(c) ==
  /\ cmd[c].call = "grouped"
  /\ cmd[c].halted
  /\ cmd[c].first # "none" /\ cmd[c].watcher = "finished"
  /\ cmd' = [cmd EXCEPT ![c].call = "done", ![c].outcome = cmd[c].first, ![c].permit = "releasing"]
  /\ UNCHANGED <<inFlight, sweep>>

LeaveGroup_LeaksPermit(c) ==
  /\ cmd[c].call = "grouped"
  /\ cmd[c].halted
  /\ cmd[c].child = "finished" /\ cmd[c].watcher = "finished"
  /\ cmd' = [cmd EXCEPT ![c].call = "done", ![c].outcome = cmd[c].first,
                        ![c].permit = IF cmd[c].first = "success" THEN "releasing" ELSE @]
  /\ UNCHANGED <<inFlight, sweep>>

\* The group waits for both children, then the defer spawns the release.  The
\* first result is what run returns or throws, and a CancellationError goes
\* through the catch that calls runner.cancel once more.
LeaveGroup(c) ==
  /\ cmd[c].call = "grouped"
  /\ cmd[c].halted
  /\ cmd[c].child = "finished" /\ cmd[c].watcher = "finished"
  /\ LET thrown == cmd[c].first = "cancelled" IN
       cmd' = [cmd EXCEPT ![c].call = IF thrown THEN "unwinding" ELSE "done",
                          ![c].cancel["catch"] = IF thrown THEN "called" ELSE @,
                          ![c].outcome = cmd[c].first,
                          ![c].permit = "releasing"]
  /\ UNCHANGED <<inFlight, sweep>>

\* runner.cancel has returned to the catch, which throws .cancelled.
Unwind(c) ==
  /\ cmd[c].call = "unwinding"
  /\ cmd[c].cancel["catch"] = "over"
  /\ cmd' = [cmd EXCEPT ![c].call = "done"]
  /\ UNCHANGED <<inFlight, sweep>>

\* The detached task of the defer reaches the scheduler.
Release(c) ==
  /\ cmd[c].permit = "releasing"
  /\ cmd' = [cmd EXCEPT ![c].permit = "released"]
  /\ UNCHANGED <<inFlight, sweep>>

-----------------------------------------------------------------------------
(* ProcessGitCommandRunner.execute                                         *)

\* process.isRunning: from process.run() until the process is gone.
IsRunning(c) == cmd[c].child = "running"

\* On the actor: the process is registered and its work queued.  A child that
\* is cancelled already gets here all the same.
Execute(c) ==
  /\ cmd[c].child = "calling"
  /\ inFlight' = inFlight \cup {c}
  /\ cmd' = [cmd EXCEPT ![c].child = "queued"]
  /\ UNCHANGED sweep

\* Off the actor, on the dispatch queue: process.run().
ProcessStarts(c) ==
  /\ cmd[c].child = "queued"
  /\ \E m \in Manner :
       cmd' = [cmd EXCEPT ![c].child = "running", ![c].manner = m]
  /\ UNCHANGED <<inFlight, sweep>>

\* Faulty variant: the error of process.run() is not mapped.
LaunchFails_Unmapped(c) ==
  /\ cmd[c].child = "queued"
  /\ cmd' = [cmd EXCEPT ![c].child = "drained", ![c].exit = "launchError"]
  /\ UNCHANGED <<inFlight, sweep>>

\* process.run() throws: the continuation is resumed with the error.
LaunchFails(c) ==
  /\ cmd[c].child = "queued"
  /\ cmd' = [cmd EXCEPT ![c].child = "drained", ![c].exit = "failed"]
  /\ UNCHANGED <<inFlight, sweep>>

\* The process ends.  One that ends by itself may succeed although a signal is
\* on its way; one that a signal ends has failed.
ProcessExits(c) ==
  /\ IsRunning(c)
  /\ \/ cmd[c].manner = "byItself"
     \/ cmd[c].manner = "onTerm" /\ cmd[c].signals # {}
     \/ "KILL" \in cmd[c].signals
  /\ \E e \in {"success", "failed"} :
       /\ e = "success" => cmd[c].manner = "byItself"
       /\ cmd' = [cmd EXCEPT ![c].child = "exited", ![c].exit = e]
  /\ UNCHANGED <<inFlight, sweep>>

\* Both pipes are at their end and the continuation is resumed.
DrainPipes(c) ==
  /\ cmd[c].child = "exited"
  /\ cmd' = [cmd EXCEPT ![c].child = "drained"]
  /\ UNCHANGED <<inFlight, sweep>>

\* Faulty variant: execute forgets the process only when it has succeeded.
ExecuteReturns_KeepsFailed(c) ==
  /\ cmd[c].child = "drained"
  /\ inFlight' = IF cmd[c].exit = "success" THEN inFlight \ {c} ELSE inFlight
  /\ cmd' = [cmd EXCEPT ![c].child = "finished", ![c].first = FirstResult(c, cmd[c].exit)]
  /\ UNCHANGED sweep

\* Back on the actor, execute forgets the process and returns or throws.
ExecuteReturns(c) ==
  /\ cmd[c].child = "drained"
  /\ inFlight' = inFlight \ {c}
  /\ cmd' = [cmd EXCEPT ![c].child = "finished", ![c].first = FirstResult(c, cmd[c].exit)]
  /\ UNCHANGED sweep

\* The child is cancelled while its handler is installed: onCancel spawns a
\* task that calls cancel.
OnCancel(c) ==
  /\ cmd[c].halted
  /\ cmd[c].child \in {"queued", "running", "exited", "drained"}
  /\ cmd[c].cancel["onCancel"] = "none"
  /\ cmd' = [cmd EXCEPT ![c].cancel["onCancel"] = "called"]
  /\ UNCHANGED <<inFlight, sweep>>

-----------------------------------------------------------------------------
(* ProcessGitCommandRunner.cancel and terminate                            *)

\* cancel(id) finds a running process and sends SIGTERM.
Terminate(c, k) ==
  /\ cmd[c].cancel[k] = "called"
  /\ c \in inFlight /\ IsRunning(c)
  /\ cmd' = [cmd EXCEPT ![c].cancel[k] = "grace", ![c].signals = @ \cup {"TERM"}]
  /\ UNCHANGED <<inFlight, sweep>>

\* cancel(id) finds no process, or one that is not running (yet, or any more).
NothingToTerminate(c, k) ==
  /\ cmd[c].cancel[k] = "called"
  /\ ~(c \in inFlight /\ IsRunning(c))
  /\ cmd' = [cmd EXCEPT ![c].cancel[k] = "over"]
  /\ UNCHANGED <<inFlight, sweep>>

\* The grace period is over: SIGKILL to a process that is still there.
ForceKill(c, k) ==
  /\ cmd[c].cancel[k] = "grace"
  /\ cmd' = [cmd EXCEPT ![c].cancel[k] = "over",
                        ![c].signals = IF IsRunning(c) THEN @ \cup {"KILL"} ELSE @]
  /\ UNCHANGED <<inFlight, sweep>>

-----------------------------------------------------------------------------
(* ProcessGitCommandRunner.cancelAll, which the app delegate calls once     *)

CancelAll ==
  /\ Quits
  /\ sweep.stage = "none"
  /\ sweep' = [stage |-> "sweeping", todo |-> inFlight, target |-> {},
               alive |-> {c \in inFlight : IsRunning(c)}]
  /\ UNCHANGED <<cmd, inFlight>>

\* The next of the values: a running process gets SIGTERM and time to end.
SweepNext(c) ==
  /\ sweep.stage = "sweeping"
  /\ c \in sweep.todo
  /\ IF IsRunning(c)
       THEN /\ cmd' = [cmd EXCEPT ![c].signals = @ \cup {"TERM"}]
            /\ sweep' = [sweep EXCEPT !.stage = "grace", !.todo = @ \ {c}, !.target = {c}]
       ELSE /\ sweep' = [sweep EXCEPT !.todo = @ \ {c}]
            /\ UNCHANGED cmd
  /\ UNCHANGED inFlight

\* Faulty variant: a process that ignores SIGTERM is left alone.
SweepForceKill_TermOnly(c) ==
  /\ sweep.stage = "grace"
  /\ c \in sweep.target
  /\ sweep' = [sweep EXCEPT !.stage = "sweeping", !.target = {}]
  /\ UNCHANGED <<cmd, inFlight>>

SweepForceKill(c) ==
  /\ sweep.stage = "grace"
  /\ c \in sweep.target
  /\ cmd' = [cmd EXCEPT ![c].signals = IF IsRunning(c) THEN @ \cup {"KILL"} ELSE @]
  /\ sweep' = [sweep EXCEPT !.stage = "sweeping", !.target = {}]
  /\ UNCHANGED inFlight

\* The loop is over and the dictionary is emptied, whatever came into it since.
SweepEnds ==
  /\ sweep.stage = "sweeping"
  /\ sweep.todo = {}
  /\ inFlight' = {}
  /\ sweep' = [sweep EXCEPT !.stage = "over"]
  /\ UNCHANGED cmd

-----------------------------------------------------------------------------

Caught(c, k) == Terminate(c, k) \/ NothingToTerminate(c, k) \/ ForceKill(c, k)

\* What the runtime obliges to happen, once it can.
Progress(c) ==
  \/ EnterGroup(c) \/ WatcherThrows(c) \/ HaltGroup(c) \/ LeaveGroup(c) \/ Unwind(c)
  \/ Execute(c) \/ ProcessStarts(c) \/ LaunchFails(c) \/ DrainPipes(c) \/ ExecuteReturns(c)
  \/ OnCancel(c)

SweepProgress == SweepEnds \/ \E c \in Command : SweepNext(c) \/ SweepForceKill(c)

Next ==
  \/ CancelAll \/ SweepProgress
  \/ \E c \in Command :
       \/ Progress(c)
       \/ Run(c) \/ AcquireCancelled(c) \/ CancelCaller(c) \/ Release(c)
       \/ TimeoutFires(c) \/ WatcherCancelled(c) \/ ProcessExits(c)
       \/ \E k \in Caller : Caught(c, k)

\* Tasks run, and so does every job of the actor, which never holds it for
\* long; a sleep ends; a process ends as its manner says.  Nothing obliges the
\* user to run, to cancel or to quit.
Fairness ==
  /\ WF_vars(SweepProgress)
  /\ \A c \in Command :
    /\ WF_vars(Progress(c)) /\ WF_vars(ProcessExits(c)) /\ WF_vars(Release(c))
    /\ WF_vars(TimeoutFires(c) \/ WatcherCancelled(c))
    /\ \A k \in Caller : WF_vars(Caught(c, k))

Spec == Init /\ [][Next]_vars /\ Fairness

-----------------------------------------------------------------------------

\* The permits bound the processes: a process that is queued, runs or is being
\* drained has its permit, so the limits of the scheduler are limits on git.
PermitCoversProcess ==
  \A c \in Command :
    cmd[c].child \in {"calling", "queued", "running", "exited", "drained"} => cmd[c].permit = "held"

\* Nothing of a command outlives its run: when run has returned or thrown, its
\* process is gone, its children are over and the runner has forgotten it.
NothingOutlivesRun ==
  \A c \in Command :
    cmd[c].call \in {"unwinding", "done"} =>
      /\ cmd[c].child \in {"none", "finished"}
      /\ cmd[c].watcher \in {"none", "finished"}
      /\ c \notin inFlight

\* Whatever children, signals and cancellations race, run never lies: success
\* and failure are the process's own, .timeout is thrown only if the timeout
\* fired and .cancelled only if the caller was cancelled.
OutcomeIsTrue ==
  \A c \in Command :
    /\ cmd[c].outcome \in {"success", "failed"} => cmd[c].exit = cmd[c].outcome
    /\ cmd[c].outcome = "timeout" => cmd[c].cancel["watcher"] = "over"
    /\ cmd[c].outcome = "cancelled" => cmd[c].cancelled

\* cancelAll reaches every process that ran when it was called, although other
\* handlers of the actor run between its signals.
SweepReachesRunning ==
  sweep.stage = "over" =>
    \A c \in sweep.alive : IsRunning(c) => "KILL" \in cmd[c].signals

\* The inductive invariant, of one command: what is left of it outside its group
\* (nothing before, nothing that moves after), what it has inside it, and where
\* its first result and its outcome come from.
Phases(c) ==
  /\ cmd[c].call \in {"idle", "acquiring"} =>
       /\ cmd[c].child = "none" /\ cmd[c].watcher = "none" /\ cmd[c].permit = "none"
       /\ cmd[c].first = "none" /\ cmd[c].outcome = "none" /\ ~cmd[c].halted
  /\ cmd[c].call = "grouped" =>
       /\ cmd[c].child # "none" /\ cmd[c].watcher # "none" /\ cmd[c].permit = "held"
       /\ cmd[c].outcome = "none"
  /\ cmd[c].call \in {"unwinding", "done"} =>
       /\ cmd[c].child \in {"none", "finished"}
       /\ cmd[c].watcher \in {"none", "finished"}
  /\ c \in inFlight => cmd[c].child \in {"queued", "running", "exited", "drained"}

Results(c) ==
  /\ cmd[c].first \in {"success", "failed"} => cmd[c].child = "finished" /\ cmd[c].exit = cmd[c].first
  /\ cmd[c].first = "timeout" => cmd[c].watcher = "finished" /\ cmd[c].cancel["watcher"] = "over"
  /\ cmd[c].first = "cancelled" => cmd[c].cancelled
  /\ cmd[c].halted => cmd[c].cancelled \/ cmd[c].first # "none"
  /\ cmd[c].outcome \in {"success", "failed", "timeout"} => cmd[c].first = cmd[c].outcome
  /\ cmd[c].outcome = "cancelled" => cmd[c].cancelled

\* Of the sweep: a process that ran when it began, and still does, was killed or
\* is among those it will come to.
Swept ==
  /\ sweep.stage = "none" => sweep.alive = {}
  /\ sweep.stage # "grace" => sweep.target = {}
  /\ sweep.stage = "over" => sweep.todo = {}
  /\ \A c, d \in sweep.target : c = d
  /\ \A c \in sweep.alive :
       /\ cmd[c].child \in {"running", "exited", "drained", "finished"}
       /\ IsRunning(c) => c \in sweep.todo \cup sweep.target \/ "KILL" \in cmd[c].signals

IInv == TypeOK /\ Swept /\ \A c \in Command : Phases(c) /\ Results(c)

\* A process that nobody has signalled and nobody will: every call of cancel is
\* over or can find nothing.
OutOfReach(c) == IsRunning(c) /\ cmd[c].signals = {}

\* A command ends, by itself or by its timeout at the latest, its permit comes
\* back, unless the only cancellations it got came before process.run().
EveryCommandEnds ==
  \A c \in Command :
    cmd[c].call # "idle" ~>
      \/ cmd[c].call = "done" /\ cmd[c].permit \in {"none", "released"}
      \/ []OutOfReach(c)

\* "Tracks in-flight processes so cancellation can terminate the underlying
\* task": the process of a cancelled command does not go on running.
CancellationTerminates ==
  \A c \in Command : (cmd[c].cancelled /\ IsRunning(c)) ~> ~IsRunning(c)

\* "Expected timeout": a command that does not end by itself, and that nobody
\* cancelled, throws .timeout.
TimeoutIsReported ==
  \A c \in Command :
    /\ cmd[c].call = "done" /\ ~cmd[c].cancelled /\ sweep.stage = "none"
    /\ cmd[c].manner \in {"onTerm", "onKill"}
    => cmd[c].outcome = "timeout"
=============================================================================
