------------------------ MODULE GitCommandClient_proofs ------------------------
(***************************************************************************)
(* Proofs about GitCommandClient, for any set of commands and callers, any *)
(* manners in which processes end, with and without a quit.                *)
(***************************************************************************)
EXTENDS GitCommandClient, TLAPS

\* A step of command c: the others and the sweep are left alone, nobody else gets
\* into the dictionary, no signal is taken back and no process starts that had
\* not been waiting to.
StepOf(c) ==
  /\ sweep' = sweep
  /\ \A d \in Command \ {c} : cmd'[d] = cmd[d]
  /\ inFlight' \subseteq inFlight \cup {c}
  /\ cmd[c].signals \subseteq cmd'[c].signals
  /\ \/ cmd'[c].child = cmd[c].child
     \/ cmd[c].child \in {"none", "calling", "queued"}
     \/ cmd'[c].child \in {"exited", "drained", "finished"}

\* Such a step has to be looked at for c only ...
LEMMA OthersKeep ==
  ASSUME NEW c \in Command, StepOf(c),
         \A d \in Command : Phases(d) /\ Results(d),
         Phases(c)' /\ Results(c)'
  PROVE  \A d \in Command : Phases(d)' /\ Results(d)'
BY DEF StepOf, Phases, Results

\* ... and does not disturb the sweep.
LEMMA SweepKeeps ==
  ASSUME NEW c \in Command, StepOf(c), TypeOK, Swept
  PROVE  Swept'
BY DEF StepOf, Swept, TypeOK, SweepState, IsRunning

\* At the start nothing is under way.
LEMMA InitIInv == Init => IInv
<1> SUFFICES ASSUME Init PROVE IInv
  OBVIOUS
<1>1. TypeOK
  BY DEF Init, TypeOK, CommandState, SweepState, Caller
<1>2. Swept
  BY DEF Init, Swept
<1>3. ASSUME NEW c \in Command PROVE Phases(c) /\ Results(c)
  BY DEF Init, Phases, Results
<1> QED BY <1>1, <1>2, <1>3 DEF IInv

\* A command that takes another of its states keeps the types.
LEMMA TypeOfOne ==
  ASSUME TypeOK, NEW c \in Command, NEW s \in CommandState,
         cmd' = [cmd EXCEPT ![c] = s], inFlight' \subseteq inFlight \cup {c}, sweep' = sweep
  PROVE  TypeOK'
BY DEF TypeOK

\* A step of command c alone keeps the invariant if it keeps what concerns c.
LEMMA StepOfOne ==
  ASSUME IInv, NEW c \in Command, StepOf(c), TypeOK', Phases(c)' /\ Results(c)'
  PROVE  IInv'
<1>1. \A d \in Command : Phases(d)' /\ Results(d)'
  BY OthersKeep DEF IInv
<1>2. Swept'
  BY SweepKeeps DEF IInv
<1> QED BY <1>1, <1>2 DEF IInv

-----------------------------------------------------------------------------
(* One lemma for each part of a command's life, one step for each action.  *)

\* The steps of ProcessGitClient.run keep the invariant.
LEMMA RunSteps ==
  ASSUME IInv, NEW c \in Command,
         Run(c) \/ EnterGroup(c) \/ AcquireCancelled(c) \/ CancelCaller(c)
         \/ HaltGroup(c) \/ LeaveGroup(c) \/ Unwind(c) \/ Release(c)
  PROVE  IInv'
<1>0. TypeOK /\ Phases(c) /\ Results(c) /\ cmd[c] \in CommandState
  BY DEF IInv, TypeOK
<1>t. cmd[c] \in CommandState /\ cmd \in [Command -> CommandState]
  BY <1>0 DEF TypeOK
<1>1. CASE Run(c)
  <2>1. TypeOK'
    BY <1>0, <1>1 DEF Run, TypeOK, CommandState, Caller
  <2>2. Phases(c)' /\ Results(c)'
    BY <1>0, <1>1 DEF Run, TypeOK, CommandState, Phases, Results, Caller
  <2>3. StepOf(c)
    BY <1>0, <1>1 DEF Run, StepOf, TypeOK, CommandState, Phases, Caller
  <2> QED BY <2>1, <2>2, <2>3, StepOfOne
<1>2. CASE EnterGroup(c)
  <2>1. TypeOK'
    <3> DEFINE granted == [cmd[c] EXCEPT !.call = "grouped", !.permit = "held",
                                         !.halted = cmd[c].cancelled]
               entered == [granted EXCEPT !.child = "calling", !.watcher = "sleeping"]
    <3>1. cmd' = [cmd EXCEPT ![c] = entered]
      BY <1>t, <1>2 DEF EnterGroup
    <3>2. granted \in CommandState
      BY <1>t DEF CommandState
    <3> HIDE DEF granted
    <3>3. entered \in CommandState
      BY <3>2 DEF CommandState
    <3> QED BY <1>0, <1>2, <3>1, <3>3, TypeOfOne DEF EnterGroup
  <2>2. Phases(c)' /\ Results(c)'
    BY <1>0, <1>2 DEF EnterGroup, TypeOK, CommandState, Phases, Results, Caller
  <2>3. StepOf(c)
    BY <1>0, <1>2 DEF EnterGroup, StepOf, TypeOK, CommandState, Phases, Caller
  <2> QED BY <2>1, <2>2, <2>3, StepOfOne
<1>3. CASE AcquireCancelled(c)
  <2>1. TypeOK'
    <3>1. cmd' = [cmd EXCEPT ![c] = [cmd[c] EXCEPT
                 !.call = "unwinding", !.outcome = "cancelled",
                 !.cancel = [@ EXCEPT !["catch"] = "called"]]]
      BY <1>0, <1>3 DEF AcquireCancelled, TypeOK
    <3>2. [cmd[c] EXCEPT
                 !.call = "unwinding", !.outcome = "cancelled",
                 !.cancel = [@ EXCEPT !["catch"] = "called"]] \in CommandState
      BY <1>t DEF CommandState, Caller
    <3> QED BY <1>0, <1>3, <3>1, <3>2, TypeOfOne DEF AcquireCancelled, TypeOK
  <2>2. Phases(c)' /\ Results(c)'
    BY <1>0, <1>3 DEF AcquireCancelled, TypeOK, CommandState, Phases, Results, Caller
  <2>3. StepOf(c)
    BY <1>0, <1>3 DEF AcquireCancelled, StepOf, TypeOK, CommandState, Phases, Caller
  <2> QED BY <2>1, <2>2, <2>3, StepOfOne
<1>4. CASE CancelCaller(c)
  <2>1. TypeOK'
    BY <1>0, <1>4 DEF CancelCaller, TypeOK, CommandState, Caller
  <2>2. Phases(c)' /\ Results(c)'
    BY <1>0, <1>4 DEF CancelCaller, TypeOK, CommandState, Phases, Results, Caller
  <2>3. StepOf(c)
    BY <1>0, <1>4 DEF CancelCaller, StepOf, TypeOK, CommandState, Phases, Caller
  <2> QED BY <2>1, <2>2, <2>3, StepOfOne
<1>5. CASE HaltGroup(c)
  <2>1. TypeOK'
    BY <1>0, <1>5 DEF HaltGroup, TypeOK, CommandState, Caller
  <2>2. Phases(c)' /\ Results(c)'
    BY <1>0, <1>5 DEF HaltGroup, TypeOK, CommandState, Phases, Results, Caller
  <2>3. StepOf(c)
    BY <1>0, <1>5 DEF HaltGroup, StepOf, TypeOK, CommandState, Phases, Caller
  <2> QED BY <2>1, <2>2, <2>3, StepOfOne
<1>6. CASE LeaveGroup(c)
  <2>1. TypeOK'
    <3> DEFINE next == IF cmd[c].first = "cancelled" THEN "unwinding" ELSE "done"
               catch == IF cmd[c].first = "cancelled" THEN "called" ELSE cmd[c].cancel["catch"]
               calls == [cmd[c].cancel EXCEPT !["catch"] = catch]
               left  == [cmd[c] EXCEPT !.call = next, !.cancel = calls,
                                       !.outcome = cmd[c].first, !.permit = "releasing"]
    <3>1. next \in {"unwinding", "done"} /\ catch \in {"none", "called", "grace", "over"}
      BY <1>t DEF CommandState, Caller
    <3>2. cmd' = [cmd EXCEPT ![c] = left]
      BY <1>t, <1>6 DEF LeaveGroup
    <3>a. calls \in [Caller -> {"none", "called", "grace", "over"}]
      BY <1>t, <3>1 DEF CommandState
    <3> HIDE DEF next, catch, calls
    <3>3. left \in CommandState
      BY <1>t, <3>1, <3>a DEF CommandState
    <3> QED BY <1>0, <1>6, <3>2, <3>3, TypeOfOne DEF LeaveGroup
  <2>2. Phases(c)' /\ Results(c)'
    BY <1>0, <1>6 DEF LeaveGroup, TypeOK, CommandState, Phases, Results, Caller
  <2>3. StepOf(c)
    BY <1>0, <1>6 DEF LeaveGroup, StepOf, TypeOK, CommandState, Phases, Caller
  <2> QED BY <2>1, <2>2, <2>3, StepOfOne
<1>7. CASE Unwind(c)
  <2>1. TypeOK'
    BY <1>0, <1>7 DEF Unwind, TypeOK, CommandState, Caller
  <2>2. Phases(c)' /\ Results(c)'
    BY <1>0, <1>7 DEF Unwind, TypeOK, CommandState, Phases, Results, Caller
  <2>3. StepOf(c)
    BY <1>0, <1>7 DEF Unwind, StepOf, TypeOK, CommandState, Phases, Caller
  <2> QED BY <2>1, <2>2, <2>3, StepOfOne
<1>8. CASE Release(c)
  <2>1. TypeOK'
    BY <1>0, <1>8 DEF Release, TypeOK, CommandState, Caller
  <2>2. Phases(c)' /\ Results(c)'
    BY <1>0, <1>8 DEF Release, TypeOK, CommandState, Phases, Results, Caller
  <2>3. StepOf(c)
    BY <1>0, <1>8 DEF Release, StepOf, TypeOK, CommandState, Phases, Caller
  <2> QED BY <2>1, <2>2, <2>3, StepOfOne
<1> QED BY <1>1, <1>2, <1>3, <1>4, <1>5, <1>6, <1>7, <1>8

\* The timeout watcher keeps it.
LEMMA WatcherSteps ==
  ASSUME IInv, NEW c \in Command,
         TimeoutFires(c) \/ WatcherThrows(c) \/ WatcherCancelled(c)
  PROVE  IInv'
<1>0. TypeOK /\ Phases(c) /\ Results(c) /\ cmd[c] \in CommandState
  BY DEF IInv, TypeOK
<1>t. cmd[c] \in CommandState /\ cmd \in [Command -> CommandState]
  BY <1>0 DEF TypeOK
<1>1. CASE TimeoutFires(c)
  <2>1. TypeOK'
    BY <1>0, <1>1 DEF TimeoutFires, TypeOK, CommandState, Caller, FirstResult
  <2>2. Phases(c)' /\ Results(c)'
    BY <1>0, <1>1 DEF TimeoutFires, TypeOK, CommandState, Phases, Results, Caller, FirstResult
  <2>3. StepOf(c)
    BY <1>0, <1>1 DEF TimeoutFires, StepOf, TypeOK, CommandState, Phases, Caller, FirstResult
  <2> QED BY <2>1, <2>2, <2>3, StepOfOne
<1>2. CASE WatcherThrows(c)
  <2>1. TypeOK'
    <3>1. cmd' = [cmd EXCEPT ![c] = [cmd[c] EXCEPT
                 !.watcher = "finished", !.first = FirstResult(c, "timeout")]]
      BY <1>0, <1>2 DEF WatcherThrows, TypeOK
    <3>a. FirstResult(c, "timeout") \in {"none", "success", "failed", "timeout", "cancelled"}
      BY <1>t DEF CommandState, FirstResult
    <3>2. [cmd[c] EXCEPT
                 !.watcher = "finished", !.first = FirstResult(c, "timeout")] \in CommandState
      BY <1>t, <3>a DEF CommandState
    <3> QED BY <1>0, <1>2, <3>1, <3>2, TypeOfOne DEF WatcherThrows, TypeOK
  <2>2. Phases(c)' /\ Results(c)'
    BY <1>0, <1>2 DEF WatcherThrows, TypeOK, CommandState, Phases, Results, Caller, FirstResult
  <2>3. StepOf(c)
    BY <1>0, <1>2 DEF WatcherThrows, StepOf, TypeOK, CommandState, Phases, Caller, FirstResult
  <2> QED BY <2>1, <2>2, <2>3, StepOfOne
<1>3. CASE WatcherCancelled(c)
  <2>1. TypeOK'
    <3>1. cmd' = [cmd EXCEPT ![c] = [cmd[c] EXCEPT
                 !.watcher = "finished", !.first = FirstResult(c, "cancelled")]]
      BY <1>0, <1>3 DEF WatcherCancelled, TypeOK
    <3>a. FirstResult(c, "cancelled") \in {"none", "success", "failed", "timeout", "cancelled"}
      BY <1>t DEF CommandState, FirstResult
    <3>2. [cmd[c] EXCEPT
                 !.watcher = "finished", !.first = FirstResult(c, "cancelled")] \in CommandState
      BY <1>t, <3>a DEF CommandState
    <3> QED BY <1>0, <1>3, <3>1, <3>2, TypeOfOne DEF WatcherCancelled, TypeOK
  <2>2. Phases(c)' /\ Results(c)'
    BY <1>0, <1>3 DEF WatcherCancelled, TypeOK, CommandState, Phases, Results, Caller, FirstResult
  <2>3. StepOf(c)
    BY <1>0, <1>3 DEF WatcherCancelled, StepOf, TypeOK, CommandState, Phases, Caller, FirstResult
  <2> QED BY <2>1, <2>2, <2>3, StepOfOne
<1> QED BY <1>1, <1>2, <1>3

\* ProcessGitCommandRunner.execute keeps it.
LEMMA ExecuteSteps ==
  ASSUME IInv, NEW c \in Command,
         Execute(c) \/ ProcessStarts(c) \/ LaunchFails(c) \/ ProcessExits(c)
         \/ DrainPipes(c) \/ ExecuteReturns(c) \/ OnCancel(c)
  PROVE  IInv'
<1>0. TypeOK /\ Phases(c) /\ Results(c) /\ cmd[c] \in CommandState
  BY DEF IInv, TypeOK
<1>t. cmd[c] \in CommandState /\ cmd \in [Command -> CommandState]
  BY <1>0 DEF TypeOK
<1>1. CASE Execute(c)
  <2>1. TypeOK'
    BY <1>0, <1>1 DEF Execute, TypeOK, CommandState, Caller, IsRunning, FirstResult
  <2>2. Phases(c)' /\ Results(c)'
    BY <1>0, <1>1 DEF Execute, TypeOK, CommandState, Phases, Results, Caller, IsRunning, FirstResult
  <2>3. StepOf(c)
    BY <1>0, <1>1 DEF Execute, StepOf, TypeOK, CommandState, Phases, Caller, IsRunning, FirstResult
  <2> QED BY <2>1, <2>2, <2>3, StepOfOne
<1>2. CASE ProcessStarts(c)
  <2>m. PICK m \in Manner : cmd' = [cmd EXCEPT ![c].child = "running", ![c].manner = m]
    BY <1>2 DEF ProcessStarts
  <2>1. TypeOK'
    <3>1. cmd' = [cmd EXCEPT ![c] = [cmd[c] EXCEPT
                 !.child = "running", !.manner = m]]
      BY <1>0, <1>2, <2>m DEF ProcessStarts, TypeOK
    <3>2. [cmd[c] EXCEPT
                 !.child = "running", !.manner = m] \in CommandState
      BY <1>t, <2>m DEF CommandState
    <3> QED BY <1>0, <1>2, <3>1, <3>2, TypeOfOne DEF ProcessStarts, TypeOK
  <2>u. /\ cmd'[c] = [cmd[c] EXCEPT !.child = "running", !.manner = m]
        /\ inFlight' = inFlight /\ cmd[c].child = "queued"
    BY <1>t, <1>2, <2>m DEF ProcessStarts
  <2>2. Phases(c)' /\ Results(c)'
    <3>1. Phases(c)'
      BY <1>0, <2>u DEF CommandState, Phases
    <3>2. Results(c)'
      BY <1>0, <2>u DEF CommandState, Phases, Results
    <3> QED BY <3>1, <3>2
  <2>3. StepOf(c)
    BY <1>0, <1>2, <2>m DEF ProcessStarts, StepOf, TypeOK, CommandState, Phases, Caller, IsRunning,
         FirstResult
  <2> QED BY <2>1, <2>2, <2>3, StepOfOne
<1>3. CASE LaunchFails(c)
  <2>1. TypeOK'
    BY <1>0, <1>3 DEF LaunchFails, TypeOK, CommandState, Caller, IsRunning, FirstResult
  <2>2. Phases(c)' /\ Results(c)'
    BY <1>0, <1>3 DEF LaunchFails, TypeOK, CommandState, Phases, Results, Caller, IsRunning,
         FirstResult
  <2>3. StepOf(c)
    BY <1>0, <1>3 DEF LaunchFails, StepOf, TypeOK, CommandState, Phases, Caller, IsRunning,
         FirstResult
  <2> QED BY <2>1, <2>2, <2>3, StepOfOne
<1>4. CASE ProcessExits(c)
  <2>m. PICK e \in {"success", "failed"} : cmd' = [cmd EXCEPT ![c].child = "exited", ![c].exit = e]
    BY <1>4 DEF ProcessExits
  <2>1. TypeOK'
    <3>1. cmd' = [cmd EXCEPT ![c] = [cmd[c] EXCEPT
                 !.child = "exited", !.exit = e]]
      BY <1>0, <1>4, <2>m DEF ProcessExits, TypeOK
    <3>2. [cmd[c] EXCEPT
                 !.child = "exited", !.exit = e] \in CommandState
      BY <1>t, <2>m DEF CommandState
    <3> QED BY <1>0, <1>4, <3>1, <3>2, TypeOfOne DEF ProcessExits, TypeOK
  <2>2. Phases(c)' /\ Results(c)'
    BY <1>0, <1>4, <2>m DEF ProcessExits, TypeOK, CommandState, Phases, Results, Caller, IsRunning,
         FirstResult
  <2>3. StepOf(c)
    BY <1>0, <1>4, <2>m DEF ProcessExits, StepOf, TypeOK, CommandState, Phases, Caller, IsRunning,
         FirstResult
  <2> QED BY <2>1, <2>2, <2>3, StepOfOne
<1>5. CASE DrainPipes(c)
  <2>1. TypeOK'
    BY <1>0, <1>5 DEF DrainPipes, TypeOK, CommandState, Caller, IsRunning, FirstResult
  <2>2. Phases(c)' /\ Results(c)'
    BY <1>0, <1>5 DEF DrainPipes, TypeOK, CommandState, Phases, Results, Caller, IsRunning,
         FirstResult
  <2>3. StepOf(c)
    BY <1>0, <1>5 DEF DrainPipes, StepOf, TypeOK, CommandState, Phases, Caller, IsRunning,
         FirstResult
  <2> QED BY <2>1, <2>2, <2>3, StepOfOne
<1>6. CASE ExecuteReturns(c)
  <2>1. TypeOK'
    <3>1. cmd' = [cmd EXCEPT ![c] = [cmd[c] EXCEPT
                 !.child = "finished", !.first = FirstResult(c, cmd[c].exit)]]
      BY <1>0, <1>6 DEF ExecuteReturns, TypeOK
    <3>a. FirstResult(c, cmd[c].exit) \in {"none", "success", "failed", "timeout", "cancelled"}
      BY <1>t DEF CommandState, FirstResult
    <3>2. [cmd[c] EXCEPT
                 !.child = "finished", !.first = FirstResult(c, cmd[c].exit)] \in CommandState
      BY <1>t, <3>a DEF CommandState
    <3> QED BY <1>0, <1>6, <3>1, <3>2, TypeOfOne DEF ExecuteReturns, TypeOK
  <2>2. Phases(c)' /\ Results(c)'
    BY <1>0, <1>6 DEF ExecuteReturns, TypeOK, CommandState, Phases, Results, Caller, IsRunning,
         FirstResult
  <2>3. StepOf(c)
    BY <1>0, <1>6 DEF ExecuteReturns, StepOf, TypeOK, CommandState, Phases, Caller, IsRunning,
         FirstResult
  <2> QED BY <2>1, <2>2, <2>3, StepOfOne
<1>7. CASE OnCancel(c)
  <2>1. TypeOK'
    BY <1>0, <1>7 DEF OnCancel, TypeOK, CommandState, Caller, IsRunning, FirstResult
  <2>2. Phases(c)' /\ Results(c)'
    BY <1>0, <1>7 DEF OnCancel, TypeOK, CommandState, Phases, Results, Caller, IsRunning,
         FirstResult
  <2>3. StepOf(c)
    BY <1>0, <1>7 DEF OnCancel, StepOf, TypeOK, CommandState, Phases, Caller, IsRunning, FirstResult
  <2> QED BY <2>1, <2>2, <2>3, StepOfOne
<1> QED BY <1>1, <1>2, <1>3, <1>4, <1>5, <1>6, <1>7

\* Every call of cancel keeps it.
LEMMA CancelSteps ==
  ASSUME IInv, NEW c \in Command, NEW k \in Caller,
         Terminate(c, k) \/ NothingToTerminate(c, k) \/ ForceKill(c, k)
  PROVE  IInv'
<1>0. TypeOK /\ Phases(c) /\ Results(c) /\ cmd[c] \in CommandState
  BY DEF IInv, TypeOK
<1>t. cmd[c] \in CommandState /\ cmd \in [Command -> CommandState]
  BY <1>0 DEF TypeOK
<1>1. CASE Terminate(c, k)
  <2>1. TypeOK'
    BY <1>0, <1>1 DEF Terminate, TypeOK, CommandState, Caller, IsRunning
  <2>2. Phases(c)' /\ Results(c)'
    BY <1>0, <1>1 DEF Terminate, TypeOK, CommandState, Phases, Results, Caller, IsRunning
  <2>3. StepOf(c)
    BY <1>0, <1>1 DEF Terminate, StepOf, TypeOK, CommandState, Phases, Caller, IsRunning
  <2> QED BY <2>1, <2>2, <2>3, StepOfOne
<1>2. CASE NothingToTerminate(c, k)
  <2>1. TypeOK'
    BY <1>0, <1>2 DEF NothingToTerminate, TypeOK, CommandState, Caller, IsRunning
  <2>2. Phases(c)' /\ Results(c)'
    BY <1>0, <1>2 DEF NothingToTerminate, TypeOK, CommandState, Phases, Results, Caller, IsRunning
  <2>3. StepOf(c)
    BY <1>0, <1>2 DEF NothingToTerminate, StepOf, TypeOK, CommandState, Phases, Caller, IsRunning
  <2> QED BY <2>1, <2>2, <2>3, StepOfOne
<1>3. CASE ForceKill(c, k)
  <2>1. TypeOK'
    BY <1>0, <1>3 DEF ForceKill, TypeOK, CommandState, Caller, IsRunning
  <2>2. Phases(c)' /\ Results(c)'
    BY <1>0, <1>3 DEF ForceKill, TypeOK, CommandState, Phases, Results, Caller, IsRunning
  <2>3. StepOf(c)
    BY <1>0, <1>3 DEF ForceKill, StepOf, TypeOK, CommandState, Phases, Caller, IsRunning
  <2> QED BY <2>1, <2>2, <2>3, StepOfOne
<1> QED BY <1>1, <1>2, <1>3

-----------------------------------------------------------------------------
(* The sweep.                                                              *)

\* cancelAll keeps the invariant.
LEMMA SweepSteps ==
  ASSUME IInv, CancelAll \/ SweepProgress
  PROVE  IInv'
<1>0. TypeOK /\ Swept /\ \A d \in Command : Phases(d) /\ Results(d) /\ cmd[d] \in CommandState
  BY DEF IInv, TypeOK
<1>1. CASE CancelAll
  <2>1. TypeOK'
    BY <1>0, <1>1 DEF CancelAll, TypeOK, SweepState
  <2>2. Swept'
    BY <1>0, <1>1 DEF CancelAll, Swept, TypeOK, SweepState, IsRunning
  <2>3. \A d \in Command : Phases(d)' /\ Results(d)'
    BY <1>0, <1>1 DEF CancelAll, Phases, Results
  <2> QED BY <2>1, <2>2, <2>3 DEF IInv
<1>2. ASSUME NEW c \in Command, SweepNext(c) PROVE IInv'
  <2>0. cmd[c] \in CommandState /\ cmd \in [Command -> CommandState] /\ sweep \in SweepState
    BY <1>0 DEF TypeOK
  <2>1. CASE IsRunning(c)
    <3>1. [cmd[c] EXCEPT !.signals = @ \cup {"TERM"}] \in CommandState
      BY <2>0 DEF CommandState
    <3>2. cmd' = [cmd EXCEPT ![c] = [cmd[c] EXCEPT !.signals = @ \cup {"TERM"}]]
      BY <1>2, <2>0, <2>1 DEF SweepNext
    <3>a. sweep' = [sweep EXCEPT !.stage = "grace", !.todo = @ \ {c}, !.target = {c}]
      BY <1>2, <2>1 DEF SweepNext
    <3>3. sweep' \in SweepState
      BY <2>0, <3>a DEF SweepState
    <3>4. TypeOK'
      BY <1>0, <1>2, <2>0, <3>1, <3>2, <3>3 DEF SweepNext, TypeOK
    <3>5. Swept'
      <4>1. /\ sweep'.stage = "grace" /\ sweep'.target = {c} /\ sweep.target = {}
            /\ sweep'.todo = sweep.todo \ {c} /\ sweep'.alive = sweep.alive
        BY <1>0, <1>2, <2>0, <3>a DEF SweepNext, Swept, SweepState
      <4>2. \A d \in Command : /\ cmd'[d].child = cmd[d].child
                              /\ cmd[d].signals \subseteq cmd'[d].signals
        BY <2>0, <3>2 DEF CommandState
      <4>3. sweep.alive \subseteq Command
        BY <2>0 DEF SweepState
      <4> QED BY <1>0, <4>1, <4>2, <4>3 DEF Swept, IsRunning
    <3>6. \A d \in Command : Phases(d)' /\ Results(d)'
      BY <1>0, <1>2, <2>0, <3>2 DEF SweepNext, Phases, Results, CommandState
    <3> QED BY <3>4, <3>5, <3>6 DEF IInv
  <2>2. CASE ~IsRunning(c)
    <3>1. TypeOK'
      BY <1>0, <1>2, <2>0, <2>2 DEF SweepNext, TypeOK, SweepState
    <3>2. Swept'
      BY <1>0, <1>2, <2>0, <2>2 DEF SweepNext, Swept, SweepState, IsRunning
    <3>3. \A d \in Command : Phases(d)' /\ Results(d)'
      BY <1>0, <1>2, <2>2 DEF SweepNext, Phases, Results
    <3> QED BY <3>1, <3>2, <3>3 DEF IInv
  <2> QED BY <2>1, <2>2
<1>3. ASSUME NEW c \in Command, SweepForceKill(c) PROVE IInv'
  <2>0. cmd[c] \in CommandState /\ cmd \in [Command -> CommandState] /\ sweep \in SweepState
    BY <1>0 DEF TypeOK
  <2> DEFINE signals == IF IsRunning(c) THEN cmd[c].signals \cup {"KILL"} ELSE cmd[c].signals
  <2>1. signals \in SUBSET {"TERM", "KILL"}
    BY <2>0 DEF CommandState
  <2>2. cmd' = [cmd EXCEPT ![c] = [cmd[c] EXCEPT !.signals = signals]]
    BY <1>3, <2>0 DEF SweepForceKill
  <2>3. TypeOK'
    <3>1. [cmd[c] EXCEPT !.signals = signals] \in CommandState
      <4> HIDE DEF signals
      <4> QED BY <2>0, <2>1 DEF CommandState
    <3>2. sweep' \in SweepState
      BY <1>3, <2>0 DEF SweepForceKill, SweepState
    <3> QED BY <1>0, <1>3, <2>0, <2>2, <3>1, <3>2 DEF SweepForceKill, TypeOK
  <2>4. Swept'
    BY <1>0, <1>3, <2>0, <2>2 DEF SweepForceKill, Swept, CommandState, SweepState, IsRunning
  <2>5. \A d \in Command : Phases(d)' /\ Results(d)'
    BY <1>0, <1>3, <2>0, <2>2 DEF SweepForceKill, Phases, Results, CommandState
  <2> QED BY <2>3, <2>4, <2>5 DEF IInv
<1>4. CASE SweepEnds
  <2>1. TypeOK'
    BY <1>0, <1>4 DEF SweepEnds, TypeOK, SweepState
  <2>2. Swept'
    BY <1>0, <1>4 DEF SweepEnds, Swept, TypeOK, SweepState, IsRunning
  <2>3. \A d \in Command : Phases(d)' /\ Results(d)'
    BY <1>0, <1>4 DEF SweepEnds, Phases, Results
  <2> QED BY <2>1, <2>2, <2>3 DEF IInv
<1> QED BY <1>1, <1>2, <1>3, <1>4 DEF SweepProgress

\* Every step keeps the inductive invariant.
LEMMA NextIInv == IInv /\ [Next]_vars => IInv'
<1>1. ASSUME IInv, UNCHANGED vars PROVE IInv'
  BY <1>1 DEF IInv, vars, TypeOK, Swept, Phases, Results, IsRunning
<1> QED
  BY <1>1, RunSteps, WatcherSteps, ExecuteSteps, CancelSteps, SweepSteps
     DEF Next, Progress, Caught

-----------------------------------------------------------------------------
(* What follows from the invariant.                                        *)

\* The inductive invariant holds throughout.
THEOREM Invariance == Spec => []IInv
  BY InitIInv, NextIInv, PTL DEF Spec

\* Every variable has its type, throughout the life of a command and of a sweep:
\* every combination of the stages of run, execute, cancel and terminate is one
\* that the types foresee.
THEOREM TypeCorrect == Spec => []TypeOK
<1>1. IInv => TypeOK
  BY DEF IInv
<1> QED BY <1>1, Invariance, PTL

\* The limits of the scheduler are limits on git: runCommand holds its permit from
\* before the process is registered until it is gone.
THEOREM ProcessesHavePermits == Spec => []PermitCoversProcess
<1>1. IInv => PermitCoversProcess
  BY DEF IInv, TypeOK, CommandState, Phases, PermitCoversProcess
<1> QED BY <1>1, Invariance, PTL

\* The task group of runCommand leaves nothing behind, on any of its ways out.
THEOREM RunLeavesNothing == Spec => []NothingOutlivesRun
<1>1. IInv => NothingOutlivesRun
  BY DEF IInv, Phases, NothingOutlivesRun
<1> QED BY <1>1, Invariance, PTL

\* What runCommand returns or throws is what happened to the process, the timeout
\* or the caller.
THEOREM RunTellsTheTruth == Spec => []OutcomeIsTrue
<1>1. IInv => OutcomeIsTrue
  BY DEF IInv, Results, OutcomeIsTrue
<1> QED BY <1>1, Invariance, PTL

\* cancelAll reaches every process, of any number that ran when it began.
THEOREM SweepIsComplete == Spec => []SweepReachesRunning
<1>1. IInv => SweepReachesRunning
  BY DEF IInv, TypeOK, SweepState, Swept, SweepReachesRunning
<1> QED BY <1>1, Invariance, PTL
=============================================================================
