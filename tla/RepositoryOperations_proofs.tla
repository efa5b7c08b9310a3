--------------------- MODULE RepositoryOperations_proofs ---------------------
(***************************************************************************)
(* Proofs about RepositoryOperations, for any repositories and any number  *)
(* of operations under way.                                                *)
(***************************************************************************)
EXTENDS RepositoryOperations, TLAPS

\* Every operation sets flags of the program, and those it needs to be clear are
\* among them; only restoring and dropping the stash set the flag of the stash,
\* and only commits set theirs.
LEMMA FlagFacts ==
  /\ \A k \in Kind : FlagsOf(k) \subseteq Flag /\ GuardsOf(k) \subseteq FlagsOf(k)
  /\ \A k \in Kind : "stash" \in FlagsOf(k) <=> k = "unstash"
  /\ \A k \in Kind : "committing" \in FlagsOf(k) <=> k = "commit"
  /\ \A k \in Kind : "workingTree" \in FlagsOf(k) <=> k \in {"mutate", "unstash"}
  /\ \A k \in {"mutate", "unstash", "commit"} : GuardsOf(k) = FlagsOf(k)
<1> SUFFICES ASSUME NEW k \in Kind
             PROVE  /\ FlagsOf(k) \subseteq Flag /\ GuardsOf(k) \subseteq FlagsOf(k)
                    /\ "stash" \in FlagsOf(k) <=> k = "unstash"
                    /\ "committing" \in FlagsOf(k) <=> k = "commit"
                    /\ "workingTree" \in FlagsOf(k) <=> k \in {"mutate", "unstash"}
                    /\ k \in {"mutate", "unstash", "commit"} => GuardsOf(k) = FlagsOf(k)
  BY DEF Kind
<1>1. CASE k \in {"mutate", "unstash", "resolve"}
  BY <1>1 DEF FlagsOf, GuardsOf, Flag
<1>2. CASE k \in {"sync", "primary", "commit"}
  BY <1>2 DEF FlagsOf, GuardsOf, Flag
<1>3. CASE k \in {"undo", "rewrite"}
  BY <1>3 DEF FlagsOf, GuardsOf, Flag
<1> QED BY <1>1, <1>2, <1>3 DEF Kind

\* At the start no flag is set and nothing is under way.
LEMMA InitIInv == Init => IInv
<1> SUFFICES ASSUME Init PROVE IInv
  OBVIOUS
<1>1. TypeOK
  BY DEF Init, TypeOK, Call
<1>2. UnderWay = {} /\ busy = {}
  BY DEF Init, UnderWay
<1> QED BY <1>1, <1>2 DEF IInv, BusyHasOwner, ExclusiveOperations

\* Every step keeps the inductive invariant.
LEMMA NextIInv == IInv /\ [Next]_vars => IInv'
<1> SUFFICES ASSUME IInv, [Next]_vars PROVE IInv'
  OBVIOUS
<1> USE FlagFacts
<1>1. ASSUME NEW o \in Operation, NEW kind \in Kind, Begin(o, kind) PROVE IInv'
  <2>1. TypeOK'
    BY <1>1 DEF Begin, selected, IInv, TypeOK, Call
  <2>2. /\ operation'[o] = [at |-> "git", kind |-> kind, repo |-> selectedRepository]
        /\ \A p \in Operation \ {o} : operation'[p] = operation[p]
        /\ UnderWay' = UnderWay \cup {o} /\ o \notin UnderWay
        /\ busy' = busy \cup FlagsOf(kind)
        /\ GuardsOf(kind) \cap busy = {} /\ switched' = switched
        /\ \A p \in UnderWay : operation[p].kind \in Kind
    BY <1>1 DEF Begin, selected, IInv, TypeOK, Call, UnderWay
  <2>3. BusyHasOwner'
    BY <2>2 DEF IInv, BusyHasOwner, UnderWay
  <2>4. ExclusiveOperations'
    BY <2>2 DEF IInv, ExclusiveOperations, UnderWay
  <2>5. ASSUME NEW p \in UnderWay'
        PROVE  /\ operation'[p].kind = "unstash" => "stash" \in busy'
               /\ operation'[p].kind = "commit" => "committing" \in busy'
    BY <2>2, <2>5 DEF IInv, UnderWay
  <2>6. ASSUME ~switched', NEW p \in UnderWay', "workingTree" \in FlagsOf(operation'[p].kind)
        PROVE  /\ "workingTree" \in busy'
               /\ \A q \in UnderWay' : "workingTree" \in FlagsOf(operation'[q].kind) => p = q
    BY <2>2, <2>6 DEF IInv, UnderWay
  <2> QED BY <2>1, <2>3, <2>4, <2>5, <2>6 DEF IInv
<1>2. ASSUME NEW o \in Operation, GitSucceeds(o) PROVE IInv'
  <2>1. TypeOK'
    BY <1>2 DEF GitSucceeds, selected, IInv, TypeOK, Call
  <2>2. /\ UnderWay' = UnderWay /\ busy' = busy /\ switched' = switched
        /\ \A p \in UnderWay : operation'[p].kind = operation[p].kind
    BY <1>2 DEF GitSucceeds, selected, IInv, TypeOK, Call, UnderWay
  <2> QED BY <2>1, <2>2 DEF IInv, BusyHasOwner, ExclusiveOperations
<1>3. ASSUME NEW o \in Operation, End(o) PROVE IInv'
  <2>1. TypeOK'
    BY <1>3 DEF End, selected, IInv, TypeOK, Call
  <2>2. /\ UnderWay' = UnderWay \ {o} /\ o \in UnderWay
        /\ \A p \in Operation \ {o} : operation'[p] = operation[p]
        /\ busy' = busy \ FlagsOf(operation[o].kind) /\ switched' = switched
        /\ \A p \in UnderWay : operation[p].kind \in Kind
    BY <1>3 DEF End, selected, IInv, TypeOK, Call, UnderWay
  <2>3. BusyHasOwner'
    BY <2>2 DEF IInv, BusyHasOwner, UnderWay
  <2>4. ExclusiveOperations'
    BY <2>2 DEF IInv, ExclusiveOperations, UnderWay
  <2>5. ASSUME NEW p \in UnderWay'
        PROVE  /\ operation'[p].kind = "unstash" => "stash" \in busy'
               /\ operation'[p].kind = "commit" => "committing" \in busy'
    BY <2>2, <2>5 DEF IInv, ExclusiveOperations, UnderWay
  <2>6. ASSUME ~switched', NEW p \in UnderWay', "workingTree" \in FlagsOf(operation'[p].kind)
        PROVE  /\ "workingTree" \in busy'
               /\ \A q \in UnderWay' : "workingTree" \in FlagsOf(operation'[q].kind) => p = q
    BY <2>2, <2>6 DEF IInv, UnderWay
  <2> QED BY <2>1, <2>3, <2>4, <2>5, <2>6 DEF IInv
<1>4. ASSUME NEW r \in Repo, Switch(r) PROVE IInv'
  <2>1. TypeOK'
    BY <1>4 DEF Switch, IInv, TypeOK
  <2>2. /\ UnderWay' = UnderWay /\ operation' = operation /\ switched'
        /\ busy' = busy \ {"workingTree", "conflict"}
    BY <1>4 DEF Switch, UnderWay
  <2> QED BY <2>1, <2>2 DEF IInv, BusyHasOwner, ExclusiveOperations
<1>5. CASE UNCHANGED vars
  BY <1>5 DEF vars, selected, IInv, TypeOK, BusyHasOwner, ExclusiveOperations, UnderWay
<1> QED
  BY <1>1, <1>2, <1>3, <1>4, <1>5 DEF Next

\* The inductive invariant holds throughout.
THEOREM Invariance == Spec => []IInv
  BY InitIInv, NextIInv, PTL DEF Spec

\* Every variable has its type, whatever operations come, fail and end.
THEOREM TypeCorrect == Spec => []TypeOK
<1>1. IInv => TypeOK
  BY DEF IInv
<1> QED BY <1>1, Invariance, PTL

\* No flag outlives the operations that set it (the defer of every operation,
\* and the reset of a selection).
THEOREM FlagsHaveOwners == Spec => []BusyHasOwner
<1>1. IInv => BusyHasOwner
  BY DEF IInv
<1> QED BY <1>1, Invariance, PTL

\* Restoring and dropping the stash exclude each other, and commits do, whatever
\* the user selects meanwhile: resetPerRepositoryState spares their flags.
THEOREM ExclusionHolds == Spec => []ExclusiveOperations
<1>1. IInv => ExclusiveOperations
  BY DEF IInv
<1> QED BY <1>1, Invariance, PTL

\* What the comment on isWorkingTreeMutationInProgress promises, as long as the
\* user selects no repository.
THEOREM MutationsSerialized == Spec => []MutationsAreSerialized
<1>1. IInv => MutationsAreSerialized
  BY FlagFacts DEF IInv, TypeOK, Call, MutationsAreSerialized, MutationsDoNotOverlap, InGit, UnderWay
<1> QED BY <1>1, Invariance, PTL
=============================================================================
