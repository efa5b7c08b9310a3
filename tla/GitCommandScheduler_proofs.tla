---------------------- MODULE GitCommandScheduler_proofs ----------------------
(***************************************************************************)
(* Proofs about GitCommandScheduler, for any finite set of commands and    *)
(* any positive limits.                                                    *)
(***************************************************************************)
EXTENDS GitCommandScheduler, FiniteSetTheorems, SequenceTheorems, TLAPS

-----------------------------------------------------------------------------
(* Sequences                                                               *)

\* Removing a place of a sequence closes the gap and changes nothing else.
LEMMA RemoveAtProperties ==
  ASSUME NEW S, NEW s \in Seq(S), NEW i \in 1..Len(s)
  PROVE  /\ RemoveAt(s, i) \in Seq(S)
         /\ Len(RemoveAt(s, i)) = Len(s) - 1
         /\ \A k \in 1..(Len(s) - 1) : RemoveAt(s, i)[k] = IF k < i THEN s[k] ELSE s[k + 1]
<1> DEFINE front == SubSeq(s, 1, i - 1)
           back  == SubSeq(s, i + 1, Len(s))
<1>0. /\ Len(s) \in Nat /\ i \in Nat /\ i <= Len(s) /\ 1 <= i
      /\ \A k \in 1..Len(s) : s[k] \in S
  BY LenProperties, ElementOfSeq
<1>1. /\ front \in Seq(S) /\ Len(front) = i - 1
      /\ \A k \in 1..(i - 1) : front[k] = s[k]
  BY <1>0, SubSeqProperties
<1>2. /\ back \in Seq(S) /\ Len(back) = Len(s) - i
      /\ \A k \in 1..(Len(s) - i) : back[k] = s[i + k]
  BY <1>0, SubSeqProperties
<1>3. RemoveAt(s, i) = front \o back
  BY DEF RemoveAt
<1> HIDE DEF front, back
<1>4. /\ front \o back \in Seq(S)
      /\ Len(front \o back) = Len(front) + Len(back)
      /\ \A k \in 1..(Len(front) + Len(back)) :
           (front \o back)[k] = IF k <= Len(front) THEN front[k] ELSE back[k - Len(front)]
  BY <1>1, <1>2, ConcatProperties, Zenon
<1>5. ASSUME NEW k \in 1..(Len(s) - 1)
      PROVE  (front \o back)[k] = IF k < i THEN s[k] ELSE s[k + 1]
  <2>1. (front \o back)[k] = IF k <= Len(front) THEN front[k] ELSE back[k - Len(front)]
    BY <1>0, <1>1, <1>2, <1>4, <1>5
  <2>2. CASE k < i
    BY <1>0, <1>1, <2>1, <2>2
  <2>3. CASE ~(k < i)
    BY <1>0, <1>1, <1>2, <2>1, <2>3
  <2> QED
    BY <2>2, <2>3
<1> QED
  BY <1>0, <1>1, <1>2, <1>3, <1>4, <1>5

-----------------------------------------------------------------------------
(* Counting permits                                                        *)

\* The sets that Accounting counts are finite.
LEMMA HoldersFinite ==
  /\ IsFiniteSet(PermitHolders)
  /\ \A p \in Priority : IsFiniteSet(HoldersOf(p))
<1>1. PermitHolders \in SUBSET Command /\ \A p \in Priority : HoldersOf(p) \in SUBSET Command
  BY DEF PermitHolders, HoldersOf
<1> QED
  BY <1>1, CommandAssumption, FS_Subset

\* A command that takes a permit is counted once, in its own priority.
LEMMA PermitTaken ==
  ASSUME TypeOK, Accounting,
         NEW c \in Command, NEW p \in Priority,
         ~HoldsPermit(c), HoldsPermit(c)', priority'[c] = p,
         \A d \in Command \ {c} : phase'[d] = phase[d] /\ priority'[d] = priority[d],
         Start(p)
  PROVE  Accounting'
<1>1. PermitHolders' = PermitHolders \cup {c} /\ c \notin PermitHolders
  BY DEF PermitHolders, HoldsPermit
<1>2. HoldersOf(p)' = HoldersOf(p) \cup {c} /\ c \notin HoldersOf(p)
  BY DEF PermitHolders, HoldersOf, HoldsPermit
<1>3. \A q \in Priority \ {p} : HoldersOf(q)' = HoldersOf(q)
  BY DEF PermitHolders, HoldersOf, HoldsPermit
<1>4. /\ Cardinality(PermitHolders \cup {c}) = Cardinality(PermitHolders) + 1
      /\ Cardinality(HoldersOf(p) \cup {c}) = Cardinality(HoldersOf(p)) + 1
  BY <1>1, <1>2, HoldersFinite, FS_AddElement
<1>5. runningTotal' = Cardinality(PermitHolders')
  BY <1>1, <1>4 DEF Accounting, Start
<1>6. ASSUME NEW q \in Priority
      PROVE  runningByPriority'[q] = Cardinality(HoldersOf(q)')
  <2>1. CASE q = p
    BY <1>2, <1>4, <2>1 DEF Accounting, Start, TypeOK
  <2>2. CASE q # p
    BY <1>3, <2>2 DEF Accounting, Start, TypeOK
  <2> QED
    BY <2>1, <2>2
<1> QED
  BY <1>5, <1>6 DEF Accounting

\* A permit that is taken under CanStart keeps the counters within the limits.
LEMMA StartKeepsLimits ==
  ASSUME TypeOK, CountersWithinLimits, NEW p \in Priority, CanStart(p), Start(p)
  PROVE  CountersWithinLimits'
<1>1. runningTotal' <= MaximumRunningCommands
  BY LimitAssumption DEF TypeOK, CanStart, Start
<1>2. ASSUME NEW q \in Priority
      PROVE  runningByPriority'[q] <= MaximumRunningByPriority[q]
  <2>1. CASE q = p
    <3>1. /\ runningByPriority[p] \in Nat /\ MaximumRunningByPriority[p] \in Nat
          /\ runningByPriority[p] < MaximumRunningByPriority[p]
          /\ runningByPriority'[p] = runningByPriority[p] + 1
      BY LimitAssumption DEF TypeOK, CanStart, Start
    <3> QED
      BY <2>1, <3>1
  <2>2. CASE q # p
    BY <2>2 DEF TypeOK, CountersWithinLimits, Start
  <2> QED
    BY <2>1, <2>2
<1> QED
  BY <1>1, <1>2 DEF CountersWithinLimits

\* A command that gives its permit back is no longer counted, and the clamps
\* of release do not bite.
LEMMA PermitReturned ==
  ASSUME TypeOK, Accounting,
         NEW c \in Command, NEW p \in Priority, priority[c] = p,
         HoldsPermit(c), ~HoldsPermit(c)',
         \A d \in Command \ {c} : phase'[d] = phase[d] /\ priority'[d] = priority[d],
         runningTotal' = Decrement(runningTotal),
         runningByPriority' = [runningByPriority EXCEPT ![p] = Decrement(runningByPriority[p])]
  PROVE  /\ Accounting'
         /\ runningTotal' = runningTotal - 1
         /\ runningByPriority'[p] = runningByPriority[p] - 1
<1>1. PermitHolders' = PermitHolders \ {c} /\ c \in PermitHolders
  BY DEF PermitHolders, HoldsPermit
<1>2. HoldersOf(p)' = HoldersOf(p) \ {c} /\ c \in HoldersOf(p)
  BY DEF PermitHolders, HoldersOf, HoldsPermit
<1>3. \A q \in Priority \ {p} : HoldersOf(q)' = HoldersOf(q)
  BY DEF PermitHolders, HoldersOf, HoldsPermit
<1>4. /\ Cardinality(PermitHolders \ {c}) = Cardinality(PermitHolders) - 1
      /\ Cardinality(HoldersOf(p) \ {c}) = Cardinality(HoldersOf(p)) - 1
  BY <1>1, <1>2, HoldersFinite, FS_RemoveElement
<1>5. /\ Cardinality(PermitHolders) # 0 /\ Cardinality(HoldersOf(p)) # 0
  BY <1>1, <1>2, HoldersFinite, FS_EmptySet
<1>6. runningTotal' = runningTotal - 1 /\ runningByPriority'[p] = runningByPriority[p] - 1
  BY <1>5 DEF Accounting, Decrement, TypeOK
<1>7. runningTotal' = Cardinality(PermitHolders')
  BY <1>1, <1>4, <1>6 DEF Accounting
<1>8. ASSUME NEW q \in Priority
      PROVE  runningByPriority'[q] = Cardinality(HoldersOf(q)')
  <2>1. CASE q = p
    BY <1>2, <1>4, <1>6, <2>1 DEF Accounting
  <2>2. CASE q # p
    BY <1>3, <2>2 DEF Accounting, TypeOK
  <2> QED
    BY <2>1, <2>2
<1> QED
  BY <1>6, <1>7, <1>8 DEF Accounting

\* As long as nobody takes or returns a permit, the count stands.
LEMMA PermitsUnchanged ==
  ASSUME Accounting,
         UNCHANGED <<runningTotal, runningByPriority>>,
         \A d \in Command : HoldsPermit(d)' <=> HoldsPermit(d),
         \A d \in Command : HoldsPermit(d) => priority'[d] = priority[d]
  PROVE  Accounting'
<1>1. PermitHolders' = PermitHolders
  BY DEF PermitHolders
<1>2. \A p \in Priority : HoldersOf(p)' = HoldersOf(p)
  BY <1>1 DEF HoldersOf, PermitHolders
<1> QED
  BY <1>1, <1>2 DEF Accounting

-----------------------------------------------------------------------------
(* The array of waiters                                                    *)

LEMMA WaitersFacts ==
  ASSUME TypeOK
  PROVE  /\ Len(waiters) \in Nat
         /\ DOMAIN waiters = 1..Len(waiters)
         /\ \A i \in DOMAIN waiters : waiters[i] \in Command
BY LenProperties, ElementOfSeq DEF TypeOK

\* A waiter that leaves the array leaves the others in it, each in one place.
LEMMA WaiterRemoved ==
  ASSUME TypeOK, EachCallerQueuedOnce,
         NEW i \in DOMAIN waiters,
         waiters' = RemoveAt(waiters, i),
         phase'[waiters[i]] # "waiting",
         \A d \in Command \ {waiters[i]} : phase'[d] = phase[d]
  PROVE  /\ waiters' \in Seq(Command)
         /\ EachCallerQueuedOnce'
         /\ \A j \in DOMAIN waiters' : \E k \in DOMAIN waiters :
              k # i /\ waiters'[j] = waiters[k] /\ waiters[k] # waiters[i]
<1> DEFINE n == Len(waiters)
<1>1. /\ n \in Nat /\ i \in 1..n /\ DOMAIN waiters = 1..n
      /\ waiters \in Seq(Command)
      /\ \A k \in 1..n : waiters[k] \in Command
  BY WaitersFacts DEF TypeOK
<1>2. /\ waiters' \in Seq(Command)
      /\ Len(waiters') = n - 1
      /\ \A k \in 1..(n - 1) : waiters'[k] = IF k < i THEN waiters[k] ELSE waiters[k + 1]
  BY <1>1, RemoveAtProperties
<1>3. DOMAIN waiters' = 1..(n - 1)
  BY <1>2, LenProperties
<1> HIDE DEF n
<1>4. \A j, k \in 1..n : waiters[j] = waiters[k] => j = k
  BY <1>1 DEF EachCallerQueuedOnce
<1>5. \A j, k \in 1..(n - 1) : waiters'[j] = waiters'[k] => j = k
  BY <1>1, <1>2, <1>4
<1>6. ASSUME NEW j \in 1..(n - 1)
      PROVE  \E k \in 1..n : k # i /\ waiters'[j] = waiters[k] /\ waiters[k] # waiters[i]
  <2>1. CASE j < i
    BY <1>1, <1>2, <1>4, <2>1
  <2>2. CASE ~(j < i)
    <3>1. j + 1 \in 1..n /\ j + 1 # i /\ waiters'[j] = waiters[j + 1]
      BY <1>1, <1>2, <2>2
    <3> QED
      BY <1>1, <1>4, <3>1
  <2> QED
    BY <2>1, <2>2
<1>7. ASSUME NEW k \in 1..n, k # i
      PROVE  \E j \in 1..(n - 1) : waiters'[j] = waiters[k]
  <2>1. CASE k < i
    <3>1. k \in 1..(n - 1) /\ waiters'[k] = waiters[k]
      BY <1>1, <1>2, <2>1
    <3> QED
      BY <3>1
  <2>2. CASE ~(k < i)
    <3>1. k - 1 \in 1..(n - 1) /\ waiters'[k - 1] = waiters[k]
      BY <1>1, <1>2, <1>7, <2>2
    <3> QED
      BY <3>1
  <2> QED
    BY <2>1, <2>2
<1>8. ASSUME NEW c \in Command
      PROVE  phase'[c] = "waiting" <=> \E j \in DOMAIN waiters' : waiters'[j] = c
  <2>1. CASE c = waiters[i]
    BY <1>3, <1>6, <2>1
  <2>2. CASE c # waiters[i]
    <3>1. phase'[c] = "waiting" <=> \E k \in 1..n : waiters[k] = c
      BY <1>1, <2>2 DEF EachCallerQueuedOnce
    <3>2. (\E k \in 1..n : waiters[k] = c) <=> (\E j \in 1..(n - 1) : waiters'[j] = c)
      BY <1>6, <1>7, <2>2
    <3> QED
      BY <1>3, <3>1, <3>2
  <2> QED
    BY <2>1, <2>2
<1>9. EachCallerQueuedOnce'
  BY <1>3, <1>5, <1>8 DEF EachCallerQueuedOnce
<1> QED
  BY <1>1, <1>2, <1>3, <1>6, <1>9

\* As long as the array stands and nobody starts or stops waiting, neither do
\* its facts change.
LEMMA WaitersUnchanged ==
  ASSUME EachCallerQueuedOnce, UNCHANGED waiters,
         \A d \in Command : phase'[d] = "waiting" <=> phase[d] = "waiting"
  PROVE  EachCallerQueuedOnce'
BY DEF EachCallerQueuedOnce

-----------------------------------------------------------------------------
(* The invariant                                                           *)

LEMMA InitIInv == Init => IInv
<1> SUFFICES ASSUME Init PROVE IInv
  OBVIOUS
<1>1. TypeOK
  BY EmptySeq DEF Init, TypeOK, Phase, Priority
<1>2. PermitHolders = {} /\ \A p \in Priority : HoldersOf(p) = {}
  BY DEF Init, PermitHolders, HoldersOf, HoldsPermit
<1>3. Accounting
  BY <1>2, FS_EmptySet DEF Init, Accounting
<1>4. CountersWithinLimits
  BY LimitAssumption DEF Init, CountersWithinLimits
<1>5. DOMAIN waiters = {}
  BY DEF Init
<1>6. EachCallerQueuedOnce /\ NoIdleSlot
  BY <1>5 DEF Init, EachCallerQueuedOnce, NoIdleSlot
<1> QED
  BY <1>1, <1>3, <1>4, <1>6 DEF IInv

LEMMA NextIInv == IInv /\ [Next]_vars => IInv'
<1> SUFFICES ASSUME IInv, [Next]_vars PROVE IInv'
  OBVIOUS
<1> USE DEF IInv
<1>1. ASSUME NEW c \in Command, NEW p \in Priority, AcquireAtOnce(c, p)
      PROVE  IInv'
  <2> USE <1>1 DEF AcquireAtOnce
  <2>1. TypeOK'
    BY DEF TypeOK, Phase, Start
  <2>2. Accounting'
    <3>1. ~HoldsPermit(c) /\ HoldsPermit(c)' /\ priority'[c] = p
      BY DEF TypeOK, IsNew, HoldsPermit
    <3>2. \A d \in Command \ {c} : phase'[d] = phase[d] /\ priority'[d] = priority[d]
      BY DEF TypeOK
    <3> QED
      BY <3>1, <3>2, PermitTaken
  <2>3. CountersWithinLimits'
    BY StartKeepsLimits
  <2>4. EachCallerQueuedOnce'
    BY WaitersUnchanged DEF TypeOK, IsNew
  <2>5. NoIdleSlot'
    BY WaitersFacts, LimitAssumption DEF TypeOK, NoIdleSlot, EachCallerQueuedOnce, IsNew, CanStart, Start
  <2> QED
    BY <2>1, <2>2, <2>3, <2>4, <2>5
<1>2. ASSUME NEW c \in Command, NEW p \in Priority, AcquireQueued(c, p)
      PROVE  IInv'
  <2> USE <1>2 DEF AcquireQueued
  <2>1. TypeOK'
    BY AppendProperties DEF TypeOK, Phase
  <2>2. Accounting'
    BY PermitsUnchanged DEF TypeOK, IsNew, HoldsPermit
  <2>3. CountersWithinLimits'
    BY DEF CountersWithinLimits
  <2>4. EachCallerQueuedOnce'
    <3> DEFINE n == Len(waiters)
    <3>1. /\ n \in Nat /\ DOMAIN waiters = 1..n
          /\ waiters \in Seq(Command)
      BY WaitersFacts DEF TypeOK
    <3>2. /\ waiters' \in Seq(Command) /\ Len(waiters') = n + 1
          /\ \A i \in 1..n : waiters'[i] = waiters[i]
          /\ waiters'[n + 1] = c
      BY <3>1, AppendProperties
    <3>3. DOMAIN waiters' = 1..(n + 1)
      BY <3>2, LenProperties
    <3> HIDE DEF n
    <3>4. \A i \in 1..n : waiters[i] # c
      BY <3>1 DEF EachCallerQueuedOnce, IsNew
    <3>5. \A i, j \in 1..(n + 1) : waiters'[i] = waiters'[j] => i = j
      BY <3>1, <3>2, <3>4 DEF EachCallerQueuedOnce
    <3>6. ASSUME NEW d \in Command
          PROVE  phase'[d] = "waiting" <=> \E i \in 1..(n + 1) : waiters'[i] = d
      <4>1. CASE d = c
        <5>1. n + 1 \in 1..(n + 1)
          BY <3>1
        <5> QED
          BY <3>2, <4>1, <5>1 DEF TypeOK
      <4>2. CASE d # c
        <5>1. phase'[d] = "waiting" <=> \E i \in 1..n : waiters[i] = d
          BY <3>1, <4>2 DEF TypeOK, EachCallerQueuedOnce
        <5>2. \A i \in 1..n : i \in 1..(n + 1) /\ waiters'[i] = waiters[i]
          BY <3>1, <3>2
        <5>3. \A i \in 1..(n + 1) : waiters'[i] = d => i \in 1..n
          BY <3>1, <3>2, <4>2
        <5> QED
          BY <5>1, <5>2, <5>3
      <4> QED
        BY <4>1, <4>2
    <3> QED
      BY <3>3, <3>5, <3>6 DEF EachCallerQueuedOnce
  <2>5. NoIdleSlot'
    BY DEF NoIdleSlot
  <2> QED
    BY <2>1, <2>2, <2>3, <2>4, <2>5
<1>3. ASSUME ResumeWaiter
      PROVE  IInv'
  <2>1. PICK i \in DOMAIN waiters :
          /\ IsNextEligible(i)
          /\ waiters' = RemoveAt(waiters, i)
          /\ Start(priority[waiters[i]])
          /\ phase' = [phase EXCEPT ![waiters[i]] = "granted"]
    BY <1>3 DEF ResumeWaiter
  <2>2. PICK c \in Command :
          waiters[i] = c /\ phase[c] = "waiting" /\ priority[c] \in Priority
    BY WaitersFacts DEF TypeOK, EachCallerQueuedOnce
  <2>3. CanStart(priority[c])
    BY <2>1, <2>2 DEF IsNextEligible, Eligible
  <2>4. /\ resuming' = TRUE /\ UNCHANGED <<priority, cancelTasks>>
        /\ phase'[c] = "granted"
        /\ \A d \in Command \ {c} : phase'[d] = phase[d]
    BY <1>3, <2>1, <2>2 DEF ResumeWaiter, TypeOK
  <2>5. waiters' \in Seq(Command) /\ EachCallerQueuedOnce'
    BY <2>1, <2>2, <2>4, WaiterRemoved
  <2>6. TypeOK'
    BY <2>1, <2>2, <2>4, <2>5 DEF TypeOK, Phase, Start
  <2>7. Accounting'
    <3>1. PICK q \in Priority : priority[c] = q
      BY <2>2
    <3>2. ~HoldsPermit(c) /\ HoldsPermit(c)' /\ priority'[c] = q /\ Start(q)
      BY <2>1, <2>2, <2>4, <3>1 DEF HoldsPermit
    <3>3. \A d \in Command \ {c} : phase'[d] = phase[d] /\ priority'[d] = priority[d]
      BY <2>4
    <3> QED
      BY <3>2, <3>3, PermitTaken
  <2>8. CountersWithinLimits'
    BY <2>1, <2>2, <2>3, StartKeepsLimits
  <2>9. NoIdleSlot'
    BY <2>4 DEF NoIdleSlot
  <2> QED
    BY <2>5, <2>6, <2>7, <2>8, <2>9
<1>4. ASSUME FinishResuming
      PROVE  IInv'
  <2> USE <1>4 DEF FinishResuming
  <2>1. TypeOK' /\ CountersWithinLimits'
    BY DEF TypeOK, CountersWithinLimits
  <2>2. Accounting' /\ EachCallerQueuedOnce'
    BY PermitsUnchanged, WaitersUnchanged DEF HoldsPermit
  <2>3. NoIdleSlot'
    BY DEF NoIdleSlot, Eligible, CanStart
  <2> QED
    BY <2>1, <2>2, <2>3
<1>5. ASSUME NEW c \in Command, Cancel(c)
      PROVE  IInv'
  <2> USE <1>5 DEF Cancel
  <2>1. TypeOK' /\ CountersWithinLimits'
    BY DEF TypeOK, CountersWithinLimits
  <2>2. Accounting' /\ EachCallerQueuedOnce'
    BY PermitsUnchanged, WaitersUnchanged DEF HoldsPermit
  <2>3. NoIdleSlot'
    BY DEF NoIdleSlot, CanStart
  <2> QED
    BY <2>1, <2>2, <2>3
<1>6. ASSUME NEW c \in Command, CancelWaiter(c)
      PROVE  IInv'
  <2>1. PICK i \in DOMAIN waiters : waiters[i] = c /\ waiters' = RemoveAt(waiters, i)
    BY <1>6 DEF CancelWaiter
  <2>2. /\ resuming = FALSE /\ UNCHANGED <<runningTotal, runningByPriority, resuming>>
        /\ phase[c] = "waiting" /\ phase'[c] = "idle"
        /\ \A d \in Command \ {c} : phase'[d] = phase[d] /\ priority'[d] = priority[d]
    BY <1>6, <2>1 DEF CancelWaiter, Leave, TypeOK, EachCallerQueuedOnce
  <2>3. /\ waiters' \in Seq(Command) /\ EachCallerQueuedOnce'
        /\ \A j \in DOMAIN waiters' : \E k \in DOMAIN waiters :
             k # i /\ waiters'[j] = waiters[k] /\ waiters[k] # waiters[i]
    BY <2>1, <2>2, WaiterRemoved
  <2>4. TypeOK'
    BY <1>6, <2>2, <2>3 DEF TypeOK, Phase, Priority, CancelWaiter, Leave
  <2>5. Accounting'
    BY <2>2, PermitsUnchanged DEF HoldsPermit
  <2>6. CountersWithinLimits'
    BY <2>2 DEF CountersWithinLimits
  <2>7. NoIdleSlot'
    BY <2>1, <2>2, <2>3, WaitersFacts DEF NoIdleSlot, CanStart
  <2> QED
    BY <2>3, <2>4, <2>5, <2>6, <2>7
<1>7. ASSUME NEW c \in Command, CancelWaiterTooLate(c)
      PROVE  IInv'
  <2> USE <1>7 DEF CancelWaiterTooLate
  <2>1. TypeOK' /\ CountersWithinLimits'
    BY DEF TypeOK, CountersWithinLimits
  <2>2. Accounting' /\ EachCallerQueuedOnce'
    BY PermitsUnchanged, WaitersUnchanged DEF HoldsPermit
  <2>3. NoIdleSlot'
    BY DEF NoIdleSlot, CanStart
  <2> QED
    BY <2>1, <2>2, <2>3
<1>8. ASSUME NEW c \in Command, ReturnPermit(c) \/ Finish(c)
      PROVE  IInv'
  <2> USE <1>8 DEF ReturnPermit, Finish
  <2>1. TypeOK' /\ CountersWithinLimits'
    BY DEF TypeOK, CountersWithinLimits, Phase
  <2>2. /\ UNCHANGED <<runningTotal, runningByPriority, waiters, resuming, priority>>
        /\ \A d \in Command : HoldsPermit(d)' <=> HoldsPermit(d)
        /\ \A d \in Command : phase'[d] = "waiting" <=> phase[d] = "waiting"
    BY DEF TypeOK, HoldsPermit
  <2>3. Accounting' /\ EachCallerQueuedOnce'
    BY <2>2, PermitsUnchanged, WaitersUnchanged
  <2>4. NoIdleSlot'
    BY <2>2 DEF NoIdleSlot, CanStart
  <2> QED
    BY <2>1, <2>3, <2>4
<1>9. ASSUME NEW c \in Command, Release(c)
      PROVE  IInv'
  <2> USE <1>9 DEF Release, Leave
  <2>1. TypeOK'
    BY DEF TypeOK, Phase, Priority, Decrement
  <2>2. PICK p \in Priority : priority[c] = p
    BY DEF TypeOK
  <2>3. /\ HoldsPermit(c) /\ ~HoldsPermit(c)'
        /\ \A d \in Command \ {c} : phase'[d] = phase[d] /\ priority'[d] = priority[d]
        /\ runningByPriority' = [runningByPriority EXCEPT ![p] = Decrement(runningByPriority[p])]
    BY <2>2 DEF TypeOK, HoldsPermit
  <2>4. Accounting'
    BY <2>2, <2>3, PermitReturned
  <2>5. CountersWithinLimits'
    <3>1. runningTotal' <= MaximumRunningCommands
      BY LimitAssumption DEF TypeOK, CountersWithinLimits, Decrement
    <3>2. ASSUME NEW q \in Priority
          PROVE  runningByPriority'[q] <= MaximumRunningByPriority[q]
      <4>1. /\ runningByPriority[q] \in Nat /\ MaximumRunningByPriority[q] \in Nat
            /\ runningByPriority[q] <= MaximumRunningByPriority[q]
        BY LimitAssumption DEF TypeOK, CountersWithinLimits
      <4>2. \/ runningByPriority'[q] = runningByPriority[q]
            \/ runningByPriority'[q] = Decrement(runningByPriority[q])
        BY <2>2, <2>3 DEF TypeOK
      <4> QED
        BY <4>1, <4>2 DEF Decrement
    <3> QED
      BY <3>1, <3>2 DEF CountersWithinLimits
  <2>6. EachCallerQueuedOnce'
    BY <2>3, WaitersUnchanged DEF TypeOK
  <2>7. NoIdleSlot'
    BY DEF NoIdleSlot
  <2> QED
    BY <2>1, <2>4, <2>5, <2>6, <2>7
<1>10. CASE UNCHANGED vars
  <2> USE <1>10 DEF vars
  <2>1. TypeOK' /\ CountersWithinLimits'
    BY DEF TypeOK, CountersWithinLimits
  <2>2. Accounting' /\ EachCallerQueuedOnce'
    BY PermitsUnchanged, WaitersUnchanged DEF HoldsPermit
  <2>3. NoIdleSlot'
    BY DEF NoIdleSlot, CanStart
  <2> QED
    BY <2>1, <2>2, <2>3
<1> QED
  BY <1>1, <1>2, <1>3, <1>4, <1>5, <1>6, <1>7, <1>8, <1>9, <1>10 DEF Next, Loop

\* IInv holds in every state the scheduler can reach.
THEOREM Invariance == Spec => []IInv
BY InitIInv, NextIInv, PTL DEF Spec

\* The state of the scheduler keeps its type.
THEOREM TypeCorrect == Spec => []TypeOK
<1>1. IInv => TypeOK
  BY DEF IInv
<1> QED
  BY <1>1, Invariance, PTL

\* The actor's counters are the permits that are out.
THEOREM CountersAreAccurate == Spec => []Accounting
<1>1. IInv => Accounting
  BY DEF IInv
<1> QED
  BY <1>1, Invariance, PTL

\* Never more git processes than the limits allow.
THEOREM ProcessesAreBounded == Spec => []LimitsKept
<1>1. IInv => LimitsKept
  BY DEF IInv, Accounting, CountersWithinLimits, LimitsKept
<1> QED
  BY <1>1, Invariance, PTL

\* Every suspended caller is in the array once, and nobody else is.
THEOREM CallersAreQueuedOnce == Spec => []EachCallerQueuedOnce
<1>1. IInv => EachCallerQueuedOnce
  BY DEF IInv
<1> QED
  BY <1>1, Invariance, PTL

\* No waiter could start while the actor is free.
THEOREM NoSlotIsIdle == Spec => []NoIdleSlot
<1>1. IInv => NoIdleSlot
  BY DEF IInv
<1> QED
  BY <1>1, Invariance, PTL

-----------------------------------------------------------------------------
(* The order of service                                                    *)

NobodyOvertaken ==
  \A c \in Command : ~HoldsPermit(c) /\ HoldsPermit(c)' =>
    \A d \in Command \ {c} :
      /\ phase[d] = "waiting"
      /\ \/ Rank[priority[d]] < Rank[priority'[c]]
         \/ priority[d] = priority'[c] /\ QueuedAhead(d, c)
      => ~CanStart(priority[d])

\* Only an immediate start and an iteration of the loop give a permit.  The
\* first happens while no waiter could start, the second picks the waiter that
\* is first in the order.
LEMMA StepServesInOrder == IInv /\ [Next]_vars => NobodyOvertaken
<1> SUFFICES ASSUME IInv, [Next]_vars,
                    NEW c \in Command, ~HoldsPermit(c), HoldsPermit(c)',
                    NEW d \in Command \ {c}, phase[d] = "waiting",
                    \/ Rank[priority[d]] < Rank[priority'[c]]
                    \/ priority[d] = priority'[c] /\ QueuedAhead(d, c)
             PROVE  ~CanStart(priority[d])
  BY DEF NobodyOvertaken
<1> USE DEF IInv
<1>1. PICK k \in DOMAIN waiters : waiters[k] = d
  BY DEF EachCallerQueuedOnce
<1>2. CASE ~resuming
  BY <1>1, <1>2 DEF NoIdleSlot
<1>3. CASE ResumeWaiter
  <2>1. PICK i \in DOMAIN waiters :
          /\ IsNextEligible(i)
          /\ phase' = [phase EXCEPT ![waiters[i]] = "granted"]
    BY <1>3 DEF ResumeWaiter
  <2>2. waiters[i] = c /\ priority' = priority
    BY <1>3, <2>1 DEF ResumeWaiter, TypeOK, HoldsPermit
  <2>3. ASSUME Eligible(k)
        PROVE  FALSE
    <3>1. \/ Rank[priority[c]] < Rank[priority[d]]
          \/ priority[c] = priority[d] /\ i <= k
      BY <1>1, <2>1, <2>2, <2>3 DEF IsNextEligible
    <3>2. /\ Rank[priority[c]] \in Nat /\ Rank[priority[d]] \in Nat
          /\ i \in Nat /\ k \in Nat
      BY <1>1, WaitersFacts DEF TypeOK, Rank, Priority
    <3>3. CASE Rank[priority[d]] < Rank[priority[c]]
      BY <3>1, <3>2, <3>3
    <3>4. CASE priority[d] = priority[c] /\ QueuedAhead(d, c)
      <4>1. PICK j \in DOMAIN waiters : waiters[j] = d /\ j < i
        BY <2>2, <3>4 DEF QueuedAhead
      <4>2. j = k
        BY <1>1, <4>1 DEF EachCallerQueuedOnce
      <4> QED
        BY <3>1, <3>2, <3>4, <4>1, <4>2
    <3> QED
      BY <2>2, <3>3, <3>4
  <2> QED
    BY <1>1, <2>3 DEF Eligible
<1>4. CASE resuming /\ ~ResumeWaiter
  <2>1. \A e \in Command : HoldsPermit(e)' => HoldsPermit(e)
    BY <1>4 DEF Next, Loop, vars, TypeOK, HoldsPermit, FinishResuming, AcquireAtOnce, AcquireQueued,
                Cancel, CancelWaiter, CancelWaiterTooLate, ReturnPermit, Finish, Release
  <2> QED
    BY <2>1
<1> QED
  BY <1>2, <1>3, <1>4

\* Whoever gets a permit, at once or from the array, overtakes nobody who
\* could have had it.
THEOREM ServiceIsInOrder == Spec => ServedInOrder
<1>1. IInv /\ [Next]_vars => [NobodyOvertaken]_vars
  BY StepServesInOrder
<1>2. Spec => [][NobodyOvertaken]_vars
  BY <1>1, Invariance, PTL DEF Spec
<1> QED
  BY <1>2 DEF ServedInOrder, NobodyOvertaken

-----------------------------------------------------------------------------
(* What CommandAdmission promises is kept.                                 *)

\* What the variables of CommandAdmission stand for.
Inside == [p \in Priority |-> HoldersOf(p)]
Queue  == [p \in Priority |-> QueueOf(p)]
Ahead  == [c \in Command |-> {d \in Command : InFrontOf(d, c)}]

\* A lane has room when its priority can start a command, and somebody to serve
\* when a waiter of it is in the array.
LEMMA MappedState ==
  ASSUME IInv
  PROVE  /\ Admission!Admitted = PermitHolders
         /\ \A p \in Priority : Admission!HasRoom(p) <=> CanStart(p)
         /\ \A c \in Command : c \in Admission!Waiting <=> phase[c] = "waiting"
         /\ \A p \in Priority : Admission!Servable(p) <=>
              CanStart(p) /\ \E i \in DOMAIN waiters : priority[waiters[i]] = p
<1> USE DEF IInv
<1>1. Admission!Admitted = PermitHolders
  BY DEF Admission!Admitted, HoldersOf, PermitHolders, TypeOK
<1>2. \A p \in Priority : Admission!HasRoom(p) <=> CanStart(p)
  <2>1. \A S : Admission!Cardinality(S) = Cardinality(S)
    BY DEF Cardinality, Admission!Cardinality
  <2> QED
    BY <1>1, <2>1 DEF Admission!HasRoom, CanStart, Accounting
<1>3. \A c \in Command : c \in Admission!Waiting <=> phase[c] = "waiting"
  BY DEF Admission!Waiting, QueueOf, TypeOK
<1>4. ASSUME NEW p \in Priority
      PROVE  QueueOf(p) # {} <=> \E i \in DOMAIN waiters : priority[waiters[i]] = p
  <2>1. ASSUME NEW c \in QueueOf(p)
        PROVE  \E i \in DOMAIN waiters : priority[waiters[i]] = p
    BY DEF QueueOf, EachCallerQueuedOnce
  <2>2. ASSUME NEW i \in DOMAIN waiters, priority[waiters[i]] = p
        PROVE  waiters[i] \in QueueOf(p)
    BY <2>2, WaitersFacts DEF QueueOf, EachCallerQueuedOnce
  <2> QED
    BY <2>1, <2>2
<1>5. \A p \in Priority : Admission!Servable(p) <=> QueueOf(p) # {} /\ Admission!HasRoom(p)
  BY DEF Admission!Servable
<1> QED
  BY <1>1, <1>2, <1>3, <1>4, <1>5

LEMMA InitAdmission == Init => Admission!Init
<1> SUFFICES ASSUME Init PROVE Admission!Init
  OBVIOUS
<1>1. \A p \in Priority : HoldersOf(p) = {} /\ QueueOf(p) = {}
  BY DEF Init, HoldersOf, PermitHolders, HoldsPermit, QueueOf
<1>2. \A c, d \in Command : ~InFrontOf(d, c)
  BY DEF Init, InFrontOf
<1> QED
  BY <1>1, <1>2 DEF Admission!Init

\* Taking a place out of the array keeps the order of the others.
LEMMA OrderKept ==
  ASSUME TypeOK, EachCallerQueuedOnce,
         NEW x \in DOMAIN waiters, waiters' = RemoveAt(waiters, x),
         NEW c \in Command, NEW d \in Command
  PROVE  (\E i, j \in DOMAIN waiters' : waiters'[i] = d /\ waiters'[j] = c /\ i < j)
         <=> /\ d # waiters[x] /\ c # waiters[x]
             /\ \E i, j \in DOMAIN waiters : waiters[i] = d /\ waiters[j] = c /\ i < j
<1> DEFINE n == Len(waiters)
           Old(k) == IF k < x THEN k ELSE k + 1
           New(k) == IF k < x THEN k ELSE k - 1
<1>1. /\ n \in Nat /\ x \in 1..n /\ DOMAIN waiters = 1..n
      /\ waiters \in Seq(Command)
      /\ \A i, j \in 1..n : waiters[i] = waiters[j] => i = j
  BY WaitersFacts DEF TypeOK, EachCallerQueuedOnce
<1>2. /\ waiters' \in Seq(Command)
      /\ Len(waiters') = n - 1
      /\ \A k \in 1..(n - 1) : waiters'[k] = IF k < x THEN waiters[k] ELSE waiters[k + 1]
  BY <1>1, RemoveAtProperties
<1>3. DOMAIN waiters' = 1..(n - 1)
  BY <1>2, LenProperties
<1> HIDE DEF n
<1>4. \A k \in 1..(n - 1) : Old(k) \in 1..n /\ Old(k) # x /\ waiters'[k] = waiters[Old(k)]
  BY <1>1, <1>2
<1>5. \A k \in 1..n : k # x => New(k) \in 1..(n - 1) /\ Old(New(k)) = k
  BY <1>1
<1>6. \A i, j \in 1..(n - 1) : i < j => Old(i) < Old(j)
  BY <1>1
<1>7. \A i, j \in 1..n : i # x /\ j # x /\ i < j => New(i) < New(j)
  BY <1>1
<1> HIDE DEF Old, New
<1>8. ASSUME NEW i \in 1..(n - 1), NEW j \in 1..(n - 1), waiters'[i] = d, waiters'[j] = c, i < j
      PROVE  /\ d # waiters[x] /\ c # waiters[x]
             /\ \E k, l \in 1..n : waiters[k] = d /\ waiters[l] = c /\ k < l
  BY <1>1, <1>4, <1>6, <1>8
<1>9. ASSUME NEW i \in 1..n, NEW j \in 1..n, waiters[i] = d, waiters[j] = c, i < j,
             d # waiters[x], c # waiters[x]
      PROVE  \E k, l \in 1..(n - 1) : waiters'[k] = d /\ waiters'[l] = c /\ k < l
  <2>1. i # x /\ j # x
    BY <1>9
  <2>2. New(i) \in 1..(n - 1) /\ New(j) \in 1..(n - 1) /\ New(i) < New(j)
    BY <1>5, <1>7, <1>9, <2>1
  <2>3. waiters'[New(i)] = d /\ waiters'[New(j)] = c
    BY <1>4, <1>5, <1>9, <2>1, <2>2
  <2> QED
    BY <2>2, <2>3
<1> QED
  BY <1>1, <1>3, <1>8, <1>9

\* A command that is in the array has its place in its lane and in no other.
LEMMA DequeueMapped ==
  ASSUME IInv, NEW x \in DOMAIN waiters, NEW c \in Command, waiters[x] = c,
         waiters' = RemoveAt(waiters, x),
         phase'[c] # "waiting",
         \A d \in Command \ {c} : phase'[d] = phase[d] /\ priority'[d] = priority[d]
  PROVE  Admission!Dequeue(c, priority[c])
<1> USE DEF IInv
<1>1. phase[c] = "waiting" /\ priority[c] \in Priority
  BY WaitersFacts DEF EachCallerQueuedOnce, TypeOK
<1>2. c \in QueueOf(priority[c])
  BY <1>1 DEF QueueOf
<1>3. \A p \in Priority : QueueOf(p)' = IF p = priority[c] THEN QueueOf(p) \ {c} ELSE QueueOf(p)
  BY <1>1 DEF QueueOf
<1>4. ASSUME NEW d \in Command, NEW e \in Command
      PROVE  InFrontOf(e, d)' <=> d # c /\ e # c /\ InFrontOf(e, d)
  <2> DEFINE Before(f, g) == \E i, j \in DOMAIN waiters : waiters[i] = f /\ waiters[j] = g /\ i < j
  <2>1. Before(e, d)' <=> e # c /\ d # c /\ Before(e, d)
    BY OrderKept
  <2>2. InFrontOf(e, d) <=> priority[e] = priority[d] /\ Before(e, d)
    BY DEF InFrontOf
  <2>3. InFrontOf(e, d)' <=> priority'[e] = priority'[d] /\ Before(e, d)'
    BY DEF InFrontOf
  <2> HIDE DEF Before
  <2> QED
    BY <2>1, <2>2, <2>3
<1>5. \A d \in Command : {e \in Command : InFrontOf(e, d)}' =
        IF d = c THEN {} ELSE {e \in Command : InFrontOf(e, d)} \ {c}
  BY <1>4
<1>6. Queue' = [Queue EXCEPT ![priority[c]] = @ \ {c}]
  BY <1>1, <1>3 DEF Queue
<1>7. Ahead' = [d \in Command |-> IF d = c THEN {} ELSE Ahead[d] \ {c}]
  BY <1>5 DEF Ahead
<1> QED
  BY <1>1, <1>2, <1>6, <1>7 DEF Admission!Dequeue, Queue, Ahead

\* The order in the lanes stands as long as the array does and no command that is
\* in it changes its priority.
LEMMA AheadUnchanged ==
  ASSUME IInv, UNCHANGED waiters,
         \A c \in Command : phase[c] = "waiting" => priority'[c] = priority[c]
  PROVE  Ahead' = Ahead
<1> USE DEF IInv
<1>1. ASSUME NEW c \in Command, NEW d \in Command
      PROVE  InFrontOf(d, c)' <=> InFrontOf(d, c)
  <2> DEFINE Before == \E i, j \in DOMAIN waiters : waiters[i] = d /\ waiters[j] = c /\ i < j
  <2>1. Before' <=> Before
    OBVIOUS
  <2>2. Before => phase[c] = "waiting" /\ phase[d] = "waiting"
    BY DEF EachCallerQueuedOnce
  <2>3. InFrontOf(d, c) <=> priority[d] = priority[c] /\ Before
    BY DEF InFrontOf
  <2>4. InFrontOf(d, c)' <=> priority'[d] = priority'[c] /\ Before'
    BY DEF InFrontOf
  <2> HIDE DEF Before
  <2> QED
    BY <2>1, <2>2, <2>3, <2>4
<1> QED
  BY <1>1 DEF Ahead

LEMMA StepAdmission == IInv /\ [Next]_vars => [Admission!Next]_(Admission!vars)
<1> SUFFICES ASSUME IInv, [Next]_vars PROVE Admission!Next \/ UNCHANGED <<Inside, Queue, Ahead>>
  BY DEF Admission!vars, Inside, Queue, Ahead
<1> USE DEF IInv
<1>1. ASSUME NEW c \in Command, NEW p \in Priority, AcquireAtOnce(c, p)
      PROVE  Admission!Enter(c, p)
  <2>1. /\ ~resuming /\ phase[c] = "idle" /\ CanStart(p) /\ UNCHANGED waiters
        /\ phase'[c] = "running" /\ priority'[c] = p
        /\ \A d \in Command \ {c} : phase'[d] = phase[d] /\ priority'[d] = priority[d]
    BY <1>1 DEF AcquireAtOnce, IsNew, TypeOK
  <2>2. c \notin Admission!Waiting \cup Admission!Admitted
    BY <2>1, MappedState DEF PermitHolders, HoldsPermit
  <2>3. Admission!HasRoom(p) /\ \A m \in Priority : ~Admission!Servable(m)
    BY <2>1, MappedState DEF NoIdleSlot
  <2>4. Inside' = [Inside EXCEPT ![p] = @ \cup {c}]
    <3>1. \A q \in Priority : HoldersOf(q)' = IF q = p THEN HoldersOf(q) \cup {c} ELSE HoldersOf(q)
      BY <2>1 DEF HoldersOf, PermitHolders, HoldsPermit
    <3> QED
      BY <3>1 DEF Inside
  <2>5. Queue' = Queue
    BY <2>1 DEF Queue, QueueOf
  <2>6. Ahead' = Ahead
    BY <2>1, AheadUnchanged
  <2> QED
    BY <2>2, <2>3, <2>4, <2>5, <2>6 DEF Admission!Enter, Inside, Queue, Ahead
<1>2. ASSUME NEW c \in Command, NEW p \in Priority, AcquireQueued(c, p)
      PROVE  Admission!Join(c, p)
  <2>1. /\ phase[c] = "idle" /\ ~CanStart(p) /\ waiters' = Append(waiters, c)
        /\ phase'[c] = "waiting" /\ priority'[c] = p
        /\ \A d \in Command \ {c} : phase'[d] = phase[d] /\ priority'[d] = priority[d]
    BY <1>2 DEF AcquireQueued, IsNew, TypeOK
  <2>2. c \notin Admission!Waiting \cup Admission!Admitted
    BY <2>1, MappedState DEF PermitHolders, HoldsPermit
  <2>3. ~Admission!HasRoom(p)
    BY <2>1, MappedState
  <2>4. Inside' = Inside
    BY <2>1 DEF Inside, HoldersOf, PermitHolders, HoldsPermit
  <2>5. Queue' = [Queue EXCEPT ![p] = @ \cup {c}]
    <3>1. \A q \in Priority : QueueOf(q)' = IF q = p THEN QueueOf(q) \cup {c} ELSE QueueOf(q)
      BY <2>1 DEF QueueOf
    <3> QED
      BY <3>1 DEF Queue
  <2>6. Ahead' = [Ahead EXCEPT ![c] = QueueOf(p)]
    <3> DEFINE n == Len(waiters)
               Before(d, e) == \E i, j \in DOMAIN waiters : waiters[i] = d /\ waiters[j] = e /\ i < j
    <3>1. /\ n \in Nat /\ DOMAIN waiters = 1..n /\ waiters \in Seq(Command)
      BY WaitersFacts DEF TypeOK
    <3>2. /\ Len(waiters') = n + 1 /\ waiters' \in Seq(Command)
          /\ \A i \in 1..n : waiters'[i] = waiters[i]
          /\ waiters'[n + 1] = c
      BY <2>1, <3>1, AppendProperties
    <3>3. DOMAIN waiters' = 1..(n + 1)
      BY <3>2, LenProperties
    <3> HIDE DEF n
    <3>4. \A i \in 1..n : waiters[i] # c
      BY <2>1, <3>1 DEF EachCallerQueuedOnce
    <3>5. ASSUME NEW d \in Command, NEW e \in Command \ {c}
          PROVE  Before(d, e)' <=> Before(d, e)
      <4>1. \A i, j \in 1..(n + 1) : waiters'[j] = e /\ i < j => i \in 1..n /\ j \in 1..n
        BY <3>1, <3>2
      <4>2. \A i \in 1..n : i \in 1..(n + 1)
        BY <3>1
      <4> QED
        BY <3>1, <3>2, <3>3, <4>1, <4>2
    <3>6. ASSUME NEW d \in Command
          PROVE  Before(d, c)' <=> phase[d] = "waiting"
      <4>1. \A i, j \in 1..(n + 1) : waiters'[j] = c /\ i < j => i \in 1..n /\ j = n + 1
        BY <3>1, <3>2, <3>4
      <4>2. \A i \in 1..n : i \in 1..(n + 1) /\ n + 1 \in 1..(n + 1) /\ i < n + 1
        BY <3>1
      <4>3. phase[d] = "waiting" <=> \E i \in 1..n : waiters[i] = d
        BY <3>1 DEF EachCallerQueuedOnce
      <4> QED
        BY <3>2, <3>3, <4>1, <4>2, <4>3
    <3>7. \A d, e \in Command : /\ InFrontOf(d, e) <=> priority[d] = priority[e] /\ Before(d, e)
                                /\ InFrontOf(d, e)' <=> priority'[d] = priority'[e] /\ Before(d, e)'
      BY DEF InFrontOf
    <3>8. \A d, e \in Command : Before(d, e) => d # c /\ e # c
      BY <2>1 DEF EachCallerQueuedOnce
    <3> HIDE DEF Before
    <3>9. \A d \in Command, e \in Command \ {c} : InFrontOf(d, e)' <=> InFrontOf(d, e)
      BY <2>1, <3>5, <3>7, <3>8
    <3>10. \A d \in Command : InFrontOf(d, c)' <=> d \in QueueOf(p)
      BY <2>1, <3>6, <3>7 DEF QueueOf
    <3>11. \A e \in Command : {d \in Command : InFrontOf(d, e)}' =
             IF e = c THEN QueueOf(p) ELSE {d \in Command : InFrontOf(d, e)}
      BY <3>9, <3>10 DEF QueueOf
    <3> QED
      BY <3>11 DEF Ahead
  <2> QED
    BY <2>2, <2>3, <2>4, <2>5, <2>6 DEF Admission!Join, Inside, Queue, Ahead
<1>3. ASSUME ResumeWaiter
      PROVE  Admission!Next
  <2>1. PICK x \in DOMAIN waiters :
          /\ IsNextEligible(x)
          /\ waiters' = RemoveAt(waiters, x)
          /\ phase' = [phase EXCEPT ![waiters[x]] = "granted"]
    BY <1>3 DEF ResumeWaiter
  <2>2. PICK c \in Command : waiters[x] = c /\ phase[c] = "waiting"
    BY WaitersFacts DEF EachCallerQueuedOnce
  <2>3. PICK p \in Priority : priority[c] = p
    BY DEF TypeOK
  <2>4. /\ priority' = priority /\ phase'[c] = "granted"
        /\ \A d \in Command \ {c} : phase'[d] = phase[d]
    BY <1>3, <2>1, <2>2 DEF ResumeWaiter, TypeOK
  <2>5. Admission!Dequeue(c, p)
    BY <2>1, <2>2, <2>3, <2>4, DequeueMapped
  <2>6. Admission!Servable(p)
    BY <2>1, <2>2, <2>3, MappedState DEF IsNextEligible, Eligible
  <2>7. ASSUME NEW m \in Priority, Admission!Servable(m)
        PROVE  Rank[p] <= Rank[m]
    <3>1. PICK i \in DOMAIN waiters : priority[waiters[i]] = m /\ CanStart(m)
      BY <2>7, MappedState
    <3>2. Rank[p] < Rank[m] \/ p = m
      BY <2>1, <2>2, <2>3, <3>1 DEF IsNextEligible, Eligible
    <3>3. Rank[p] \in Nat /\ Rank[m] \in Nat
      BY DEF Rank, Priority
    <3> QED
      BY <3>2, <3>3
  <2>8. Ahead[c] = {}
    <3>1. ASSUME NEW d \in Command, InFrontOf(d, c)
          PROVE  FALSE
      <4>1. PICK i, j \in DOMAIN waiters : waiters[i] = d /\ waiters[j] = c /\ i < j
        BY <3>1 DEF InFrontOf
      <4>2. j = x /\ priority[d] = p
        BY <2>2, <2>3, <3>1, <4>1 DEF EachCallerQueuedOnce, InFrontOf
      <4>3. Eligible(i)
        BY <2>1, <2>2, <2>3, <4>1, <4>2 DEF IsNextEligible, Eligible
      <4>4. x <= i
        BY <2>1, <2>2, <2>3, <4>1, <4>2, <4>3 DEF IsNextEligible, Rank, Priority
      <4> QED
        BY <4>1, <4>2, <4>4, WaitersFacts
    <3> QED
      BY <3>1 DEF Ahead
  <2>9. Inside' = [Inside EXCEPT ![p] = @ \cup {c}]
    <3>1. \A q \in Priority : HoldersOf(q)' = IF q = p THEN HoldersOf(q) \cup {c} ELSE HoldersOf(q)
      BY <2>2, <2>3, <2>4 DEF HoldersOf, PermitHolders, HoldsPermit
    <3> QED
      BY <3>1 DEF Inside
  <2>10. Admission!Admit(c, p)
    BY <2>5, <2>6, <2>7, <2>8, <2>9 DEF Admission!Admit, Inside, Ahead
  <2> QED
    BY <2>10 DEF Admission!Next
<1>4. ASSUME NEW c \in Command, CancelWaiter(c)
      PROVE  Admission!Next
  <2>1. PICK x \in DOMAIN waiters : waiters[x] = c /\ waiters' = RemoveAt(waiters, x)
    BY <1>4 DEF CancelWaiter
  <2>2. /\ phase[c] = "waiting" /\ phase'[c] = "idle"
        /\ \A d \in Command \ {c} : phase'[d] = phase[d] /\ priority'[d] = priority[d]
    BY <1>4, <2>1 DEF CancelWaiter, Leave, TypeOK, EachCallerQueuedOnce
  <2>3. PICK p \in Priority : priority[c] = p
    BY DEF TypeOK
  <2>4. Admission!Dequeue(c, p)
    BY <2>1, <2>2, <2>3, DequeueMapped
  <2>5. Inside' = Inside
    BY <2>2 DEF Inside, HoldersOf, PermitHolders, HoldsPermit
  <2>6. Admission!Withdraw(c, p)
    BY <2>4, <2>5 DEF Admission!Withdraw, Inside
  <2> QED
    BY <2>6 DEF Admission!Next
<1>5. ASSUME NEW c \in Command, Release(c)
      PROVE  Admission!Next
  <2>1. /\ phase[c] = "releasing" /\ phase'[c] = "idle" /\ UNCHANGED waiters
        /\ \A d \in Command \ {c} : phase'[d] = phase[d] /\ priority'[d] = priority[d]
    BY <1>5 DEF Release, Leave, TypeOK
  <2>2. PICK p \in Priority : priority[c] = p
    BY DEF TypeOK
  <2>3. Inside' = [Inside EXCEPT ![p] = @ \ {c}] /\ c \in Inside[p]
    <3>1. \A q \in Priority : HoldersOf(q)' = IF q = p THEN HoldersOf(q) \ {c} ELSE HoldersOf(q)
      BY <2>1, <2>2 DEF HoldersOf, PermitHolders, HoldsPermit
    <3>2. c \in HoldersOf(p)
      BY <2>1, <2>2 DEF HoldersOf, PermitHolders, HoldsPermit
    <3> QED
      BY <3>1, <3>2 DEF Inside
  <2>4. Queue' = Queue
    BY <2>1 DEF Queue, QueueOf
  <2>5. Ahead' = Ahead
    BY <2>1, AheadUnchanged
  <2>6. Admission!Leave(c, p)
    BY <2>3, <2>4, <2>5 DEF Admission!Leave, Inside, Queue, Ahead
  <2> QED
    BY <2>6 DEF Admission!Next
<1>6. ASSUME FinishResuming \/ (\E c \in Command : \/ Cancel(c) \/ CancelWaiterTooLate(c)
                                                   \/ ReturnPermit(c) \/ Finish(c))
               \/ UNCHANGED vars
      PROVE  UNCHANGED <<Inside, Queue, Ahead>>
  <2>1. /\ UNCHANGED <<waiters, priority>>
        /\ \A d \in Command : HoldsPermit(d)' <=> HoldsPermit(d)
        /\ \A d \in Command : phase'[d] = "waiting" <=> phase[d] = "waiting"
    BY <1>6 DEF FinishResuming, Cancel, CancelWaiterTooLate, ReturnPermit, Finish, vars, HoldsPermit, TypeOK
  <2>2. Inside' = Inside
    BY <2>1 DEF Inside, HoldersOf, PermitHolders
  <2>3. Queue' = Queue
    BY <2>1 DEF Queue, QueueOf
  <2>4. Ahead' = Ahead
    BY <2>1, AheadUnchanged
  <2> QED
    BY <2>2, <2>3, <2>4
<1>7. ASSUME NEW c \in Command, NEW p \in Priority, AcquireAtOnce(c, p) \/ AcquireQueued(c, p)
      PROVE  Admission!Next
  BY <1>1, <1>2, <1>7 DEF Admission!Next
<1> QED
  BY <1>3, <1>4, <1>5, <1>6, <1>7 DEF Next, Loop

\* The scheduler with its one array and its counters implements a queue for each
\* priority.
THEOREM AdmissionIsImplemented == Spec => ImplementsAdmission
BY InitAdmission, StepAdmission, Invariance, PTL DEF Spec, ImplementsAdmission, Admission!Spec
=============================================================================
