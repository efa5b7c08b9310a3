------------------------ MODULE HistoryRewriting_proofs ------------------------
(***************************************************************************)
(* Proofs about HistoryRewriting, for any repositories, any changes, any   *)
(* initial histories and any number of steps of others.                    *)
(*                                                                         *)
(* Nothing is lost because a todo list covers the history it was made of:  *)
(* what HEAD holds is in the base, in the list, or exposed.  That the      *)
(* lists do is a matter of counting positions, and comes first.            *)
(***************************************************************************)
EXTENDS HistoryRewriting, FiniteSetTheorems, WellFoundedInduction, TLAPS

-----------------------------------------------------------------------------
(* Positions.                                                              *)

\* A set of naturals that is not empty has a least element.
LEMMA LeastPosition ==
  ASSUME NEW S \in SUBSET Nat, S # {}
  PROVE  \E m \in S : \A n \in S : m <= n
<1>1. PICK m \in S : \A n \in S : ~(<<n, m>> \in OpToRel(<, Nat))
  BY NatLessThanWellFounded, WFMin
<1>2. \A n \in S : ~(n < m)
  BY <1>1 DEF OpToRel
<1> QED BY <1>2

\* Min is one of the positions, and none is less.
LEMMA MinPosition ==
  ASSUME NEW S \in SUBSET Nat, S # {}
  PROVE  Min(S) \in S /\ \A n \in S : Min(S) <= n
BY LeastPosition DEF Min

\* There are n positions up to n.
LEMMA IntervalFacts ==
  ASSUME NEW n \in Nat
  PROVE  IsFiniteSet(1 .. n) /\ Cardinality(1 .. n) = n
<1>1. Cardinality(1 .. n) = IF 1 > n THEN 0 ELSE n - 1 + 1
  BY FS_Interval
<1> QED BY <1>1, FS_Interval

\* The place of a position among those of P.
LEMMA RankFacts ==
  ASSUME NEW N \in Nat, NEW P \in SUBSET (1 .. N)
  PROVE  /\ IsFiniteSet(P) /\ Cardinality(P) \in Nat
         /\ \A i \in 1 .. N : /\ Rank(P, i) \in 0 .. Cardinality(P)
                              /\ (\E j \in P : j <= i) => Rank(P, i) >= 1
         /\ \A i, j \in P : i < j => Rank(P, i) < Rank(P, j)
<1>1. IsFiniteSet(1 .. N)
  BY FS_Interval
<1>2. IsFiniteSet(P) /\ Cardinality(P) \in Nat
  BY <1>1, FS_Subset, FS_CardinalityType
<1>3. ASSUME NEW i \in 1 .. N
      PROVE  /\ Rank(P, i) \in 0 .. Cardinality(P)
             /\ (\E j \in P : j <= i) => Rank(P, i) >= 1
  <2> DEFINE upTo == {j \in P : j <= i}
  <2>1. IsFiniteSet(upTo) /\ Cardinality(upTo) <= Cardinality(P)
    BY <1>2, FS_Subset
  <2>2. Cardinality(upTo) \in Nat
    BY <2>1, FS_CardinalityType
  <2>3. Cardinality(upTo) = 0 <=> upTo = {}
    BY <2>1, FS_EmptySet
  <2>4. (\E j \in P : j <= i) => upTo # {}
    OBVIOUS
  <2>5. Rank(P, i) = Cardinality(upTo)
    BY DEF Rank
  <2> HIDE DEF upTo
  <2> QED BY <1>2, <2>1, <2>2, <2>3, <2>4, <2>5
<1>4. ASSUME NEW i \in P, NEW j \in P, i < j
      PROVE  Rank(P, i) < Rank(P, j)
  <2> DEFINE S == {k \in P : k <= i}
             T == {k \in P : k <= j}
  <2>1. IsFiniteSet(T)
    BY <1>2, FS_Subset
  <2>0. \A k \in P : k \in Int
    OBVIOUS
  <2>2. \A k \in P : k <= i => k <= j
    BY <1>4, <2>0
  <2>7. j <= j /\ ~(j <= i)
    BY <1>4, <2>0
  <2>3. Rank(P, i) = Cardinality(S) /\ Rank(P, j) = Cardinality(T)
    BY DEF Rank
  <2> HIDE DEF S, T
  <2>4. /\ IsFiniteSet(S) /\ Cardinality(S) <= Cardinality(T)
        /\ Cardinality(T) = Cardinality(S) => T = S
    <3>1. S \in SUBSET T
      BY <2>2 DEF S, T
    <3> QED BY <2>1, <3>1, FS_Subset
  <2>5. Cardinality(S) \in Nat /\ Cardinality(T) \in Nat
    BY <2>1, <2>4, FS_CardinalityType
  <2>6. S # T
    BY <2>7 DEF S, T
  <2> QED BY <2>3, <2>4, <2>5, <2>6
<1> QED BY <1>2, <1>3, <1>4

\* Each place is taken: the positions of P are counted through.
LEMMA RankIsOnto ==
  ASSUME NEW N \in Nat, NEW P \in SUBSET (1 .. N), NEW k \in 1 .. Cardinality(P)
  PROVE  \E i \in P : Rank(P, i) = k
<1> DEFINE places == 1 .. Cardinality(P)
           f == [i \in P |-> Rank(P, i)]
<1>1. IsFiniteSet(P) /\ Cardinality(P) \in Nat
  BY RankFacts
<1>2. \A i \in P : Rank(P, i) \in places
  BY RankFacts
<1>3. \A i, j \in P : Rank(P, i) = Rank(P, j) => i = j
  <2> SUFFICES ASSUME NEW i \in P, NEW j \in P, i # j
               PROVE  Rank(P, i) # Rank(P, j)
    OBVIOUS
  <2>1. i < j \/ j < i
    OBVIOUS
  <2>2. Rank(P, i) \in Nat /\ Rank(P, j) \in Nat
    BY <1>1, <1>2
  <2> QED BY <2>1, <2>2, RankFacts
<1>4. f \in Injection(P, places)
  BY <1>2, <1>3 DEF Injection, IsInjective
<1>5. IsFiniteSet(places) /\ Cardinality(places) = Cardinality(P)
  BY <1>1, FS_Interval
<1>6. f \in Surjection(P, places)
  BY <1>4, <1>5, FS_Injection
<1> QED BY <1>6 DEF Surjection

\* Positions without a gap from the first on are counted by the last of them.
LEMMA NoGap ==
  ASSUME NEW N \in Nat, NEW D \in SUBSET (1 .. N),
         \A i \in D : \A j \in 1 .. i : j \in D
  PROVE  Cardinality(D) \in 0 .. N /\ D = 1 .. Cardinality(D)
<1> DEFINE missed == {i \in Nat : i >= 1 /\ i \notin D}
<1>1. N + 1 \in missed
  OBVIOUS
<1>2. PICK m \in missed : \A n \in missed : m <= n
  BY <1>1, LeastPosition
<1>3. \A i \in 1 .. m - 1 : i \in D
  <2> SUFFICES ASSUME NEW i \in 1 .. m - 1, i \notin D
               PROVE  FALSE
    OBVIOUS
  <2>1. i \in missed
    BY <1>2
  <2> QED BY <1>2, <2>1
<1>4. \A i \in D : i < m
  <2> SUFFICES ASSUME NEW i \in D, ~(i < m)
               PROVE  FALSE
    OBVIOUS
  <2>1. m \in 1 .. i
    BY <1>2
  <2>2. m \in D
    BY <2>1
  <2> QED BY <1>2, <2>2
<1>5. m \in Nat /\ m >= 1 /\ m <= N + 1
  BY <1>1, <1>2
<1>6. D = 1 .. m - 1
  <2>1. \A i \in D : i \in 1 .. m - 1
    BY <1>4, <1>5
  <2> QED BY <1>3, <2>1
<1>7. Cardinality(1 .. m - 1) = m - 1
  BY <1>5, IntervalFacts
<1> QED BY <1>5, <1>6, <1>7

-----------------------------------------------------------------------------
(* Histories and todo lists.                                               *)

\* What a history holds, position by position.
LEMMA HeldFacts ==
  ASSUME NEW M, NEW h \in Seq(SUBSET M)
  PROVE  /\ Held(h) \in SUBSET M
         /\ \A x : x \in Held(h) <=> \E i \in 1 .. Len(h) : x \in h[i]
<1>1. DOMAIN h = 1 .. Len(h) /\ \A i \in 1 .. Len(h) : h[i] \in SUBSET M
  OBVIOUS
<1> QED BY <1>1 DEF Held, Range

\* Each change that a sequence of sets holds and base does not is fresh at some
\* position: the first one that holds it.
LEMMA FreshSomewhere ==
  ASSUME NEW base, NEW n \in Nat, NEW sets, DOMAIN sets = 1 .. n,
         NEW k \in 1 .. n, NEW x \in sets[k], x \notin Held(base)
  PROVE  \E i \in 1 .. n : x \in Fresh(base, sets)[i]
<1> DEFINE S == {i \in 1 .. n : x \in sets[i]}
<1>1. S \in SUBSET Nat /\ k \in S
  OBVIOUS
<1>2. PICK i \in S : \A j \in S : i <= j
  BY <1>1, LeastPosition
<1>3. \A j \in 1 .. i - 1 : x \notin sets[j]
  <2> SUFFICES ASSUME NEW j \in 1 .. i - 1, x \in sets[j]
               PROVE  FALSE
    OBVIOUS
  <2>1. j \in S
    OBVIOUS
  <2> QED BY <1>2, <2>1
<1>4. x \in Fresh(base, sets)[i]
  BY <1>3 DEF Fresh
<1> QED BY <1>4

\* One history after another.
LEMMA ConcatFacts ==
  ASSUME NEW T, NEW s \in Seq(T), NEW t \in Seq(T)
  PROVE  /\ s \o t \in Seq(T) /\ Len(s \o t) = Len(s) + Len(t)
         /\ \A i \in 1 .. Len(s) : (s \o t)[i] = s[i]
         /\ \A k \in 1 .. Len(t) : (s \o t)[Len(s) + k] = t[k]
<1>1. s \o t \in Seq(T) /\ Len(s \o t) = Len(s) + Len(t)
  OBVIOUS
<1>2. \A i \in 1 .. Len(s) : (s \o t)[i] = s[i]
  OBVIOUS
<1>3. ASSUME NEW k \in 1 .. Len(t)
      PROVE  (s \o t)[Len(s) + k] = t[k]
  OBVIOUS
<1> QED BY <1>1, <1>2, <1>3

\* Commits on top of base are a history, and hold what base and the sets hold, if
\* every set that holds anything has a commit to be in.
LEMMA StackFacts ==
  ASSUME NEW M, NEW base \in Seq(SUBSET M), NEW n \in Nat,
         NEW sets, DOMAIN sets = 1 .. n, \A i \in 1 .. n : sets[i] \in SUBSET M,
         NEW P \in SUBSET (1 .. n)
  PROVE  /\ Stack(base, sets, P) \in Seq(SUBSET M)
         /\ Held(base) \subseteq Held(Stack(base, sets, P))
         /\ \A i \in 1 .. n : Rank(P, i) >= 1 => sets[i] \subseteq Held(Stack(base, sets, P))
<1> DEFINE c == Cardinality(P)
           commit(k) == UNION {sets[i] : i \in {j \in DOMAIN sets : Rank(P, j) = k}}
           top == [k \in 1 .. c |-> commit(k)]
           h == Stack(base, sets, P)
<1>1. c \in Nat
  BY RankFacts
<1>2. \A k : commit(k) \in SUBSET M
  OBVIOUS
<1>3. top \in Seq(SUBSET M) /\ Len(top) = c
  <2> HIDE DEF commit, c
  <2> QED BY <1>1, <1>2
<1>4. h = base \o top
  BY DEF Stack
<1> HIDE DEF h
<1>5. /\ h \in Seq(SUBSET M) /\ Len(h) = Len(base) + c
      /\ \A i \in 1 .. Len(base) : h[i] = base[i]
      /\ \A k \in 1 .. c : h[Len(base) + k] = top[k]
  <2> HIDE DEF top, c
  <2>1. /\ base \o top \in Seq(SUBSET M) /\ Len(base \o top) = Len(base) + Len(top)
        /\ \A i \in 1 .. Len(base) : (base \o top)[i] = base[i]
        /\ \A k \in 1 .. Len(top) : (base \o top)[Len(base) + k] = top[k]
    <3>1. top \in Seq(SUBSET M)
      BY <1>3
    <3> HIDE <1>3
    <3>2. \A t \in Seq(SUBSET M) :
            /\ base \o t \in Seq(SUBSET M) /\ Len(base \o t) = Len(base) + Len(t)
            /\ \A i \in 1 .. Len(base) : (base \o t)[i] = base[i]
            /\ \A k \in 1 .. Len(t) : (base \o t)[Len(base) + k] = t[k]
      BY ConcatFacts
    <3> QED BY <3>1, <3>2
  <2>2. Len(top) = c
    BY <1>3
  <2> QED BY <1>4, <2>1, <2>2
<1>6. Held(base) \subseteq Held(h)
  <2> SUFFICES ASSUME NEW x \in Held(base)
               PROVE  x \in Held(h)
    OBVIOUS
  <2>1. PICK i \in 1 .. Len(base) : x \in base[i]
    BY HeldFacts
  <2>2. i \in 1 .. Len(h) /\ x \in h[i]
    <3> HIDE DEF c, top
    <3> QED BY <1>1, <1>5, <2>1
  <2> QED BY <1>5, <2>2, HeldFacts
<1>7. ASSUME NEW i \in 1 .. n, Rank(P, i) >= 1, NEW x \in sets[i]
      PROVE  x \in Held(h)
  <2> DEFINE k == Rank(P, i)
  <2>1. k \in 1 .. c
    <3>1. k \in 0 .. c
      BY RankFacts
    <3> HIDE DEF c
    <3> QED BY <1>1, <1>7, <3>1
  <2>2. x \in commit(k)
    BY <1>7
  <2> HIDE DEF commit, c, k
  <2>3. Len(base) + k \in 1 .. Len(h) /\ x \in h[Len(base) + k]
    BY <1>1, <1>5, <2>1, <2>2
  <2> QED BY <1>5, <2>3, HeldFacts
<1> QED BY <1>5, <1>6, <1>7 DEF h

\* What a base and a todo list hold together.
Listed(base, todo) == Held(base) \cup UNION {todo[i].holds : i \in 1 .. Len(todo)}

\* A todo list that git takes makes a history that holds all of what it was given.
LEMMA ApplyFacts ==
  ASSUME NEW base \in History, NEW todo \in Seq(TodoLine)
  PROVE  /\ Apply(base, todo) \in History
         /\ Applicable(base, todo) => Listed(base, todo) \subseteq Held(Apply(base, todo))
<1> DEFINE n == Len(todo)
           adds == [i \in DOMAIN todo |->
                      IF todo[i].squash THEN todo[i].holds ELSE Fresh(base, HeldBy(todo))[i]]
           P == {i \in DOMAIN todo : ~todo[i].squash}
           result == Apply(base, todo)
<1>1. /\ n \in Nat /\ DOMAIN todo = 1 .. n
      /\ \A i \in 1 .. n : todo[i].holds \in SUBSET Path
  <2>1. \A i \in 1 .. n : todo[i] \in TodoLine
    OBVIOUS
  <2> QED BY <2>1 DEF TodoLine
<1>2. /\ DOMAIN HeldBy(todo) = 1 .. n /\ \A i \in 1 .. n : HeldBy(todo)[i] = todo[i].holds
  BY <1>1 DEF HeldBy
<1>3. \A i \in 1 .. n : Fresh(base, HeldBy(todo))[i] \subseteq todo[i].holds
  BY <1>2 DEF Fresh
<1>4. /\ DOMAIN adds = 1 .. n
      /\ \A i \in 1 .. n : adds[i] \in SUBSET Path /\ Fresh(base, HeldBy(todo))[i] \subseteq adds[i]
  <2>1. DOMAIN adds = 1 .. n
    BY <1>1
  <2>2. ASSUME NEW i \in 1 .. n
        PROVE  adds[i] \in SUBSET Path /\ Fresh(base, HeldBy(todo))[i] \subseteq adds[i]
    <3>1. adds[i] = todo[i].holds \/ adds[i] = Fresh(base, HeldBy(todo))[i]
      BY <1>1
    <3> HIDE DEF adds
    <3> QED BY <1>1, <1>3, <3>1
  <2> QED BY <2>1, <2>2
<1>5. P \in SUBSET (1 .. n)
  BY <1>1
<1>6. result = Stack(base, adds, P)
  BY DEF Apply
<1> HIDE DEF adds, result
<1>7. /\ result \in Seq(SUBSET Path)
      /\ Held(base) \subseteq Held(result)
      /\ \A i \in 1 .. n : Rank(P, i) >= 1 => adds[i] \subseteq Held(result)
  <2>1. base \in Seq(SUBSET Path)
    BY DEF History
  <2> HIDE DEF P, n
  <2> QED BY <1>1, <1>4, <1>5, <1>6, <2>1, StackFacts
<1>8. ASSUME Applicable(base, todo), NEW k \in 1 .. n, NEW x \in todo[k].holds, x \notin Held(base)
      PROVE  x \in Held(result)
  <2>1. x \in HeldBy(todo)[k]
    BY <1>2, <1>8
  <2>2. PICK i \in 1 .. n : x \in Fresh(base, HeldBy(todo))[i]
    <3> HIDE DEF n
    <3> QED BY <1>1, <1>2, <1>8, <2>1, FreshSomewhere
  <2>3. 1 \in P /\ 1 <= i
    BY <1>1, <1>8 DEF Applicable
  <2>4. Rank(P, i) >= 1
    <3> HIDE DEF P, n
    <3> QED BY <1>1, <1>5, <2>3, RankFacts
  <2> QED BY <1>4, <1>7, <2>2, <2>4
<1>9. Applicable(base, todo) => Listed(base, todo) \subseteq Held(result)
  BY <1>7, <1>8 DEF Listed
<1> QED BY <1>7, <1>9 DEF History, result

\* A rebase that is continued loses nothing.
LEMMA PickFacts ==
  ASSUME NEW h \in History, NEW picked \in History
  PROVE  /\ PickAll(h, picked) \in History
         /\ Held(h) \cup Held(picked) \subseteq Held(PickAll(h, picked))
<1> DEFINE n == Len(picked)
           sets == Fresh(h, picked)
           P == {i \in DOMAIN picked : sets[i] # {}}
           result == PickAll(h, picked)
<1>1. /\ n \in Nat /\ DOMAIN picked = 1 .. n /\ h \in Seq(SUBSET Path) /\ picked \in Seq(SUBSET Path)
      /\ \A i \in 1 .. n : picked[i] \in SUBSET Path
  BY DEF History
<1>2. DOMAIN sets = 1 .. n /\ \A i \in 1 .. n : sets[i] \in SUBSET Path
  BY <1>1 DEF Fresh
<1>3. P \in SUBSET (1 .. n)
  BY <1>1
<1>4. result = Stack(h, sets, P)
  BY DEF PickAll
<1> HIDE DEF sets, result
<1>5. /\ result \in Seq(SUBSET Path)
      /\ Held(h) \subseteq Held(result)
      /\ \A i \in 1 .. n : Rank(P, i) >= 1 => sets[i] \subseteq Held(result)
  <2> HIDE DEF P, n
  <2> QED BY <1>1, <1>2, <1>3, <1>4, StackFacts
<1>6. ASSUME NEW x \in Held(picked), x \notin Held(h)
      PROVE  x \in Held(result)
  <2>1. PICK k \in 1 .. n : x \in picked[k]
    BY <1>1, HeldFacts
  <2>2. PICK i \in 1 .. n : x \in sets[i]
    <3> HIDE DEF n
    <3> QED BY <1>1, <1>6, <2>1, FreshSomewhere DEF sets
  <2>3. i \in P
    BY <1>1, <2>2
  <2>4. i <= i
    OBVIOUS
  <2>5. Rank(P, i) >= 1
    <3> HIDE DEF P, n
    <3> QED BY <1>1, <1>3, <2>3, <2>4, RankFacts
  <2> QED BY <1>5, <2>2, <2>5
<1> QED BY <1>5, <1>6 DEF History, result

-----------------------------------------------------------------------------
(* The todo lists.                                                         *)

\* Commits that can be selected: each once, and none is the empty history.
IsSelection(selected) ==
  /\ selected \in Selection
  /\ \A i, j \in 1 .. Len(selected) : selected[i] = selected[j] => i = j
  /\ \A i \in 1 .. Len(selected) : selected[i] # <<>>

\* The commits of a history.
LEMMA CommitFacts ==
  ASSUME NEW h \in History, NEW i \in 1 .. Len(h)
  PROVE  /\ SubSeq(h, 1, i) \in History /\ SubSeq(h, 1, i) # <<>>
         /\ Len(SubSeq(h, 1, i)) = i
         /\ \A j \in 1 .. i : SubSeq(h, 1, i)[j] = h[j]
         /\ Last(SubSeq(h, 1, i)) = h[i]
<1>1. h \in Seq(SUBSET Path) /\ i \in Nat /\ i >= 1 /\ i <= Len(h)
  BY DEF History
<1>2. SubSeq(h, 1, i) \in Seq(SUBSET Path) /\ Len(SubSeq(h, 1, i)) = i
  BY <1>1
<1>3. \A j \in 1 .. i : SubSeq(h, 1, i)[j] = h[j]
  BY <1>1
<1> QED BY <1>1, <1>2, <1>3 DEF History, Last

\* A history without its last commit.
LEMMA FrontFacts ==
  ASSUME NEW h \in History, h # <<>>
  PROVE  /\ Front(h) \in History /\ Last(h) \in SUBSET Path
         /\ Held(h) = Held(Front(h)) \cup Last(h)
<1>1. h \in Seq(SUBSET Path) /\ Len(h) \in Nat /\ Len(h) >= 1
  BY DEF History
<1>2. /\ Front(h) \in Seq(SUBSET Path) /\ Len(Front(h)) = Len(h) - 1
      /\ \A i \in 1 .. Len(h) - 1 : Front(h)[i] = h[i]
  <2> DEFINE n == Len(h) - 1
  <2>1. Front(h) = SubSeq(h, 1, n) /\ n \in Nat /\ n <= Len(h)
    BY <1>1 DEF Front
  <2> HIDE DEF n
  <2>2. SubSeq(h, 1, n) \in Seq(SUBSET Path)
    BY <1>1, <2>1
  <2>3. Len(SubSeq(h, 1, n)) = n
    BY <1>1, <2>1
  <2>4. \A i \in 1 .. n : SubSeq(h, 1, n)[i] = h[i]
    BY <1>1, <2>1
  <2> QED BY <2>1, <2>2, <2>3, <2>4 DEF n
<1>3. Last(h) = h[Len(h)] /\ Last(h) \in SUBSET Path
  BY <1>1 DEF Last
<1>4. \A x : x \in Held(h) <=> \E i \in 1 .. Len(h) : x \in h[i]
  BY <1>1, HeldFacts
<1>5. \A x : x \in Held(Front(h)) <=> \E i \in 1 .. Len(h) - 1 : x \in h[i]
  <2>1. \A x : x \in Held(Front(h)) <=> \E i \in 1 .. Len(Front(h)) : x \in Front(h)[i]
    BY <1>2, HeldFacts
  <2> QED BY <1>2, <2>1
<1>6. \A i : i \in 1 .. Len(h) <=> i \in 1 .. Len(h) - 1 \/ i = Len(h)
  BY <1>1
<1>7. ASSUME NEW x
      PROVE  x \in Held(h) <=> x \in Held(Front(h)) \/ x \in Last(h)
  BY <1>3, <1>4, <1>5, <1>6
<1> QED BY <1>2, <1>3, <1>7 DEF History

\* The commits that a history shares with another one are its oldest, and the other
\* one holds what they hold.
LEMMA SharedFacts ==
  ASSUME NEW h \in History, NEW b \in History, NEW n,
         n = Cardinality({i \in 1 .. Len(h) : SubSeq(h, 1, i) \in Commits(b)})
  PROVE  n \in 0 .. Len(h) /\ \A i \in 1 .. n : h[i] \subseteq Held(b)
<1> DEFINE D == {i \in 1 .. Len(h) : SubSeq(h, 1, i) \in Commits(b)}
<1>1. Len(h) \in Nat /\ Len(b) \in Nat
  BY DEF History
<1>2. ASSUME NEW i \in D
      PROVE  i \in 1 .. Len(b) /\ SubSeq(h, 1, i) = SubSeq(b, 1, i)
  <2>1. i \in 1 .. Len(h)
    OBVIOUS
  <2>2. PICK j \in 1 .. Len(b) : SubSeq(h, 1, i) = SubSeq(b, 1, j)
    BY DEF Commits
  <2>3. Len(SubSeq(h, 1, i)) = i /\ Len(SubSeq(b, 1, j)) = j
    BY <2>1, CommitFacts
  <2> QED BY <2>2, <2>3
<1>3. ASSUME NEW i \in D, NEW j \in 1 .. i
      PROVE  h[j] = b[j]
  <2>1. i \in 1 .. Len(h) /\ i \in 1 .. Len(b) /\ SubSeq(h, 1, i) = SubSeq(b, 1, i)
    BY <1>2
  <2> HIDE DEF D
  <2>2. SubSeq(h, 1, i)[j] = h[j] /\ SubSeq(b, 1, i)[j] = b[j]
    BY <2>1, CommitFacts
  <2> QED BY <2>1, <2>2
<1>4. ASSUME NEW i \in D, NEW j \in 1 .. i
      PROVE  j \in D
  <2>1. /\ j \in 1 .. Len(h) /\ j \in 1 .. Len(b)
        /\ \A k \in 1 .. j : h[k] = b[k]
    BY <1>1, <1>2, <1>3
  <2>2. /\ SubSeq(h, 1, j) \in Seq(SUBSET Path) /\ SubSeq(b, 1, j) \in Seq(SUBSET Path)
        /\ Len(SubSeq(h, 1, j)) = j /\ Len(SubSeq(b, 1, j)) = j
        /\ \A k \in 1 .. j : SubSeq(h, 1, j)[k] = h[k] /\ SubSeq(b, 1, j)[k] = b[k]
    BY <2>1, CommitFacts DEF History
  <2>3. SubSeq(h, 1, j) = SubSeq(b, 1, j)
    BY <2>1, <2>2
  <2> QED BY <2>1, <2>3 DEF Commits
<1>5. n \in 0 .. Len(h) /\ D = 1 .. n
  <2>1. D \in SUBSET (1 .. Len(h))
    OBVIOUS
  <2> HIDE DEF D
  <2>2. Cardinality(D) \in 0 .. Len(h) /\ D = 1 .. Cardinality(D)
    BY <1>1, <1>4, <2>1, NoGap
  <2> QED BY <2>2 DEF D
<1>6. ASSUME NEW i \in 1 .. n, NEW x \in h[i]
      PROVE  x \in Held(b)
  <2>1. i \in D /\ i \in 1 .. i
    BY <1>5
  <2>2. i \in 1 .. Len(b) /\ h[i] = b[i]
    BY <1>2, <1>3, <2>1
  <2>3. b \in Seq(SUBSET Path)
    BY DEF History
  <2> QED BY <1>6, <2>2, <2>3, HeldFacts
<1> QED BY <1>5, <1>6

\* The list of a squash covers the history, whatever it has to do with the base.
LEMMA SquashFacts ==
  ASSUME NEW h \in History, NEW selected, IsSelection(selected)
  PROVE  /\ SquashBase(selected) \in History
         /\ SquashTodo(selected, h) \in Seq(TodoLine)
         /\ Held(h) \subseteq Listed(SquashBase(selected), SquashTodo(selected, h))
<1> DEFINE b == SquashBase(selected)
           n == Common(selected, h)
           todo == SquashTodo(selected, h)
<1>1. /\ selected \in Seq(History) /\ Len(selected) \in Nat /\ Len(selected) >= 1
      /\ Last(selected) = selected[Len(selected)]
  BY DEF IsSelection, Selection, Last
<1>2. Last(selected) \in History /\ Last(selected) # <<>>
  BY <1>1 DEF IsSelection
<1>3. b \in History
  BY <1>2, FrontFacts DEF SquashBase
<1>4. n \in 0 .. Len(h) /\ \A i \in 1 .. n : h[i] \subseteq Held(b)
  <2> HIDE DEF b
  <2> QED BY <1>3, SharedFacts DEF Common, b
<1>5. h \in Seq(SUBSET Path) /\ Len(h) \in Nat
  BY DEF History
<1>6. todo = [i \in 1 .. Len(h) - n |->
                [holds |-> h[n + i], squash |-> SubSeq(h, 1, n + i) \in Range(Front(selected))]]
  BY DEF SquashTodo
<1> HIDE DEF todo, n, b
<1>7. ASSUME NEW i \in 1 .. Len(h) - n
      PROVE  todo[i] \in TodoLine /\ todo[i].holds = h[n + i]
  <2>1. n + i \in 1 .. Len(h)
    BY <1>4, <1>5
  <2>2. h[n + i] \in SUBSET Path
    BY <1>5, <2>1
  <2> QED BY <1>6, <2>2 DEF TodoLine
<1>8. todo \in Seq(TodoLine) /\ Len(todo) = Len(h) - n
  <2>1. Len(h) - n \in Nat
    BY <1>4, <1>5
  <2> QED BY <1>6, <1>7, <2>1
<1>9. ASSUME NEW x \in Held(h)
      PROVE  x \in Listed(b, todo)
  <2>1. PICK i \in 1 .. Len(h) : x \in h[i]
    BY <1>5, HeldFacts
  <2>2. CASE i \in 1 .. n
    BY <1>4, <2>1, <2>2 DEF Listed
  <2>3. CASE i \notin 1 .. n
    <3> DEFINE k == i - n
    <3>1. k \in 1 .. Len(h) - n /\ n + k = i
      BY <1>4, <1>5, <2>3
    <3> HIDE DEF k
    <3>2. k \in 1 .. Len(todo) /\ x \in todo[k].holds
      BY <1>7, <1>8, <2>1, <3>1
    <3> QED BY <3>2 DEF Listed
  <2> QED BY <2>2, <2>3
<1> QED BY <1>3, <1>8, <1>9 DEF b, todo

\* There are not more slots than selected commits, and exactly as many if all of them
\* are in the history.
LEMMA SlotsFit ==
  ASSUME NEW h \in History, NEW selected, IsSelection(selected)
  PROVE  /\ Slots(selected, h) \in SUBSET (1 .. Len(h))
         /\ Cardinality(Slots(selected, h)) \in 0 .. Len(selected)
         /\ Range(selected) \subseteq Commits(h) =>
              Cardinality(Slots(selected, h)) = Len(selected)
<1> DEFINE P == Slots(selected, h)
           n == Len(selected)
           f == [i \in P |-> CHOOSE k \in 1 .. n : selected[k] = SubSeq(h, 1, i)]
           g == [k \in 1 .. n |-> Len(selected[k])]
<1>1. /\ n \in Nat /\ DOMAIN selected = 1 .. n
      /\ \A i, j \in 1 .. n : selected[i] = selected[j] => i = j
      /\ Len(h) \in Nat
  BY DEF IsSelection, Selection, History
<1>2. P \in SUBSET (1 .. Len(h)) /\ \A i \in P : \E k \in 1 .. n : selected[k] = SubSeq(h, 1, i)
  BY <1>1 DEF Slots, Range
<1>3. IsFiniteSet(P) /\ Cardinality(P) \in Nat
  BY <1>1, <1>2, RankFacts
<1>4. IsFiniteSet(1 .. n) /\ Cardinality(1 .. n) = n
  BY <1>1, IntervalFacts
<1>5. Cardinality(P) <= n
  <2>1. ASSUME NEW i \in P
        PROVE  f[i] \in 1 .. n /\ selected[f[i]] = SubSeq(h, 1, i)
    BY <1>2
  <2>2. DOMAIN f = P /\ f \in [P -> 1 .. n]
    BY <2>1
  <2> HIDE DEF f
  <2>3. ASSUME NEW i \in P, NEW j \in P, f[i] = f[j]
        PROVE  i = j
    <3>1. SubSeq(h, 1, i) = SubSeq(h, 1, j)
      BY <2>1, <2>3
    <3>2. Len(SubSeq(h, 1, i)) = i /\ Len(SubSeq(h, 1, j)) = j
      BY <1>2, CommitFacts
    <3> QED BY <3>1, <3>2
  <2>4. f \in Injection(P, 1 .. n)
    BY <2>2, <2>3 DEF Injection, IsInjective
  <2> HIDE DEF P, n
  <2>5. Cardinality(P) <= Cardinality(1 .. n)
    BY <1>4, <2>4, FS_Injection
  <2> QED BY <1>4, <2>5
<1>6. ASSUME Range(selected) \subseteq Commits(h)
      PROVE  n <= Cardinality(P)
  <2>1. ASSUME NEW k \in 1 .. n
        PROVE  g[k] \in P /\ selected[k] = SubSeq(h, 1, g[k])
    <3>1. selected[k] \in Range(selected)
      BY <1>1 DEF Range
    <3>2. PICK i \in 1 .. Len(h) : selected[k] = SubSeq(h, 1, i)
      BY <1>6, <3>1 DEF Commits
    <3>3. Len(selected[k]) = i
      BY <3>2, CommitFacts
    <3> QED BY <3>1, <3>2, <3>3 DEF Slots
  <2>2. DOMAIN g = 1 .. n /\ g \in [1 .. n -> P]
    BY <2>1
  <2> HIDE DEF g
  <2>3. ASSUME NEW i \in 1 .. n, NEW j \in 1 .. n, g[i] = g[j]
        PROVE  i = j
    BY <1>1, <2>1, <2>3
  <2>4. g \in Injection(1 .. n, P)
    BY <2>2, <2>3 DEF Injection, IsInjective
  <2> HIDE DEF P, n
  <2>5. Cardinality(1 .. n) <= Cardinality(P)
    BY <1>3, <2>4, FS_Injection
  <2> QED BY <1>4, <2>5
<1> HIDE DEF P
<1>7. Cardinality(P) \in 0 .. n /\ (Range(selected) \subseteq Commits(h) => Cardinality(P) = n)
  BY <1>1, <1>3, <1>5, <1>6
<1> QED BY <1>2, <1>7 DEF P

\* The list of a reorder covers the history but for the slots, and these as well if
\* all that is selected is in the history.
LEMMA ReorderFacts ==
  ASSUME NEW h \in History, NEW selected, IsSelection(selected), Slots(selected, h) # {}
  PROVE  LET b    == ReorderBase(selected, h)
             todo == ReorderTodo(selected, h)
         IN /\ b \in History /\ todo \in Seq(TodoLine)
            /\ Held(h) \subseteq Listed(b, todo) \cup UNION {h[i] : i \in Slots(selected, h)}
            /\ Range(selected) \subseteq Commits(h) => Held(h) \subseteq Listed(b, todo)
<1> DEFINE P == Slots(selected, h)
           n == Len(selected)
           first == Min(P)
           m == Len(h) - first + 1
           queue == Reverse(selected)
           b == ReorderBase(selected, h)
           todo == ReorderTodo(selected, h)
           line(i) == IF i \in P THEN Last(queue[Rank(P, i)]) ELSE h[i]
<1>1. /\ n \in Nat /\ selected \in Seq(History) /\ \A k \in 1 .. n : selected[k] # <<>>
      /\ h \in Seq(SUBSET Path) /\ Len(h) \in Nat
  BY DEF IsSelection, Selection, History
<1>2. P \in SUBSET (1 .. Len(h)) /\ Cardinality(P) \in 0 .. n
  BY SlotsFit
<1>3. first \in 1 .. Len(h) /\ first \in P /\ \A i \in P : first <= i
  <2>1. P \in SUBSET Nat /\ P # {}
    BY <1>2
  <2> HIDE DEF P
  <2>2. first \in P /\ \A i \in P : first <= i
    BY <2>1, MinPosition
  <2> QED BY <1>2, <2>2
<1>4. m \in Nat /\ \A j \in 1 .. m : first + j - 1 \in first .. Len(h)
  BY <1>1, <1>3
<1>5. b = SubSeq(h, 1, first - 1)
  BY DEF ReorderBase
<1>6. todo = [j \in 1 .. m |-> [holds |-> line(first + j - 1), squash |-> FALSE]]
  BY DEF ReorderTodo
<1> HIDE DEF P, m, first, b, todo
<1>7. \A k \in 1 .. n : queue[k] = selected[n - k + 1] /\ queue[k] \in History /\ queue[k] # <<>>
  BY <1>1 DEF Reverse
<1>8. ASSUME NEW i \in P
      PROVE  Rank(P, i) \in 1 .. n
  <2>1. i \in 1 .. Len(h) /\ i <= i
    BY <1>2
  <2>2. Rank(P, i) \in 0 .. Cardinality(P) /\ Rank(P, i) >= 1
    BY <1>1, <1>2, <2>1, RankFacts
  <2> QED BY <1>1, <1>2, <2>2
<1>9. ASSUME NEW i \in 1 .. Len(h)
      PROVE  line(i) \in SUBSET Path
  <2>1. CASE i \in P
    <3>1. queue[Rank(P, i)] \in History /\ queue[Rank(P, i)] # <<>>
      BY <1>7, <1>8, <2>1
    <3>2. Last(queue[Rank(P, i)]) \in SUBSET Path
      <4> HIDE DEF queue
      <4> QED BY <3>1, FrontFacts
    <3> QED BY <2>1, <3>2
  <2>2. CASE i \notin P
    BY <1>1, <2>2
  <2> QED BY <2>1, <2>2
<1> HIDE DEF queue
<1>10. /\ todo \in Seq(TodoLine) /\ Len(todo) = m
       /\ \A j \in 1 .. m : todo[j].holds = line(first + j - 1)
  <2>1. ASSUME NEW j \in 1 .. m
        PROVE  todo[j] \in TodoLine /\ todo[j].holds = line(first + j - 1)
    <3>1. line(first + j - 1) \in SUBSET Path
      <4>1. first + j - 1 \in 1 .. Len(h)
        BY <1>1, <1>3, <1>4
      <4> HIDE DEF line
      <4> QED BY <1>9, <4>1
    <3> HIDE DEF line
    <3> QED BY <1>6, <3>1 DEF TodoLine
  <2> HIDE DEF line
  <2> QED BY <1>4, <1>6, <2>1
<1>11. ASSUME NEW i \in first .. Len(h)
       PROVE  line(i) \subseteq Listed(b, todo)
  <2> DEFINE j == i - first + 1
  <2>1. j \in 1 .. m /\ first + j - 1 = i
    BY <1>1, <1>3 DEF m
  <2> HIDE DEF j, line
  <2>2. j \in 1 .. Len(todo) /\ todo[j].holds = line(i)
    BY <1>10, <2>1
  <2> QED BY <2>2 DEF Listed
<1>12. /\ b \in History /\ Len(b) = first - 1
       /\ \A i \in 1 .. first - 1 : b[i] = h[i]
  <2>1. first - 1 \in Nat /\ first - 1 <= Len(h)
    BY <1>1, <1>3
  <2>2. b \in Seq(SUBSET Path) /\ Len(b) = first - 1
    BY <1>1, <1>5, <2>1
  <2>3. \A i \in 1 .. first - 1 : b[i] = h[i]
    BY <1>1, <1>5, <2>1
  <2> QED BY <2>2, <2>3 DEF History
<1>13. ASSUME NEW x \in Held(h)
       PROVE  x \in Listed(b, todo) \/ \E i \in P : x \in h[i]
  <2>1. PICK i \in 1 .. Len(h) : x \in h[i]
    BY <1>1, HeldFacts
  <2>2. CASE i \in 1 .. first - 1
    <3>1. i \in 1 .. Len(b) /\ x \in b[i]
      BY <1>12, <2>1, <2>2
    <3>2. x \in Held(b)
      BY <1>12, <3>1, HeldFacts DEF History
    <3> QED BY <3>2 DEF Listed
  <2>3. CASE i \notin 1 .. first - 1 /\ i \notin P
    <3>1. i \in first .. Len(h)
      BY <1>1, <1>3, <2>3
    <3>2. line(i) = h[i]
      BY <2>3
    <3> HIDE DEF line
    <3> QED BY <1>11, <2>1, <3>1, <3>2
  <2> QED BY <2>1, <2>2, <2>3
<1>14. ASSUME Range(selected) \subseteq Commits(h), NEW i \in P
       PROVE  h[i] \subseteq Listed(b, todo)
  <2>1. Cardinality(P) = n
    BY <1>14, SlotsFit DEF P
  <2>2. i \in 1 .. Len(h) /\ SubSeq(h, 1, i) \in Range(selected)
    BY DEF P, Slots
  <2>3. PICK l \in 1 .. n : selected[l] = SubSeq(h, 1, i)
    BY <1>1, <2>2 DEF Range
  <2> DEFINE k == n - l + 1
  <2>4. k \in 1 .. n /\ n - k + 1 = l
    BY <1>1
  <2> HIDE DEF k
  <2>5. queue[k] = SubSeq(h, 1, i)
    BY <1>7, <2>3, <2>4
  <2>6. PICK q \in P : Rank(P, q) = k
    BY <1>1, <1>2, <2>1, <2>4, RankIsOnto
  <2>7. line(q) = h[i]
    BY <2>2, <2>5, <2>6, CommitFacts
  <2>8. q \in first .. Len(h)
    BY <1>1, <1>2, <1>3
  <2> HIDE DEF line
  <2> QED BY <1>11, <2>7, <2>8
<1>15. Held(h) \subseteq Listed(b, todo) \cup UNION {h[i] : i \in P}
  BY <1>13
<1>16. Range(selected) \subseteq Commits(h) => Held(h) \subseteq Listed(b, todo)
  BY <1>13, <1>14
<1> QED BY <1>10, <1>12, <1>15, <1>16 DEF b, todo, P

-----------------------------------------------------------------------------
(* Git.                                                                    *)

\* A step in which repository r, and no other, may lose the changes E.
LosesAtMost(r, E) ==
  /\ GitTypeOK'
  /\ \A q \in Repo : /\ q # r => log'[q] = log[q]
                     /\ made'[q] \ (Kept(q)' \cup discarded')
                          \subseteq (made[q] \ (Kept(q) \cup discarded)) \cup (IF q = r THEN E ELSE {})

\* Repository r takes other values; what can be found in it still can, but for E.
LEMMA RepositoryChanges ==
  ASSUME GitTypeOK, NEW r \in Repo, NEW E,
         NEW l \in History, NEW c \in SUBSET Path, NEW s \in SUBSET c, NEW b \in History \cup {None},
         log' = [log EXCEPT ![r] = l], changed' = [changed EXCEPT ![r] = c],
         staged' = [staged EXCEPT ![r] = s], before' = [before EXCEPT ![r] = b],
         made' = made, discarded' \in SUBSET Path, discarded \subseteq discarded',
         Kept(r) \subseteq c \cup Held(l) \cup (IF b # None THEN Held(b) ELSE {}) \cup discarded' \cup E
  PROVE  LosesAtMost(r, E)
<1>1. GitTypeOK'
  BY DEF GitTypeOK, History
<1>2. ASSUME NEW q \in Repo, q # r
      PROVE  /\ log'[q] = log[q] /\ changed'[q] = changed[q] /\ before'[q] = before[q]
             /\ made'[q] = made[q]
  BY <1>2 DEF GitTypeOK
<1>3. log'[r] = l /\ changed'[r] = c /\ before'[r] = b /\ made'[r] = made[r]
  BY DEF GitTypeOK
<1>4. ASSUME NEW q \in Repo, q # r
      PROVE  Kept(q)' = Kept(q)
  BY <1>2, <1>4 DEF Kept, Rebasing
<1>5. Kept(r)' = c \cup Held(l) \cup (IF b # None THEN Held(b) ELSE {})
  BY <1>3 DEF Kept, Rebasing
<1>6. ASSUME NEW q \in Repo
      PROVE  made'[q] \ (Kept(q)' \cup discarded')
               \subseteq (made[q] \ (Kept(q) \cup discarded)) \cup (IF q = r THEN E ELSE {})
  <2>1. CASE q = r
    BY <1>3, <1>5, <2>1
  <2>2. CASE q # r
    BY <1>2, <1>4, <2>2
  <2> QED BY <2>1, <2>2
<1> QED BY <1>1, <1>2, <1>6 DEF LosesAtMost

\* What is left as it is, is left so in one repository.
LEMMA Unchanged ==
  ASSUME GitTypeOK, NEW r \in Repo
  PROVE  /\ log = [log EXCEPT ![r] = log[r]] /\ changed = [changed EXCEPT ![r] = changed[r]]
         /\ staged = [staged EXCEPT ![r] = staged[r]] /\ before = [before EXCEPT ![r] = before[r]]
         /\ log[r] \in History /\ changed[r] \in SUBSET Path
         /\ staged[r] \in SUBSET changed[r] /\ before[r] \in History \cup {None}
         /\ discarded \in SUBSET Path
BY DEF GitTypeOK, History

\* A history that grows by a commit.
LEMMA AppendFacts ==
  ASSUME NEW h \in History, NEW S \in SUBSET Path
  PROVE  Append(h, S) \in History /\ Held(Append(h, S)) = Held(h) \cup S
<1> DEFINE g == Append(h, S)
<1>1. h \in Seq(SUBSET Path) /\ Len(h) \in Nat
  BY DEF History
<1>2. /\ g \in Seq(SUBSET Path) /\ Len(g) = Len(h) + 1
      /\ g[Len(h) + 1] = S /\ \A i \in 1 .. Len(h) : g[i] = h[i]
  BY <1>1
<1> HIDE DEF g
<1>3. \A x : x \in Held(h) <=> \E i \in 1 .. Len(h) : x \in h[i]
  BY <1>1, HeldFacts
<1>4. \A x : x \in Held(g) <=> \E i \in 1 .. Len(g) : x \in g[i]
  BY <1>2, HeldFacts
<1>5. \A i : i \in 1 .. Len(g) <=> i \in 1 .. Len(h) \/ i = Len(h) + 1
  BY <1>1, <1>2
<1>6. ASSUME NEW x
      PROVE  x \in Held(g) <=> x \in Held(h) \/ x \in S
  BY <1>2, <1>3, <1>4, <1>5
<1> QED BY <1>2, <1>6 DEF g, History

\* git add, commit, commit --amend and reset --soft lose nothing.
LEMMA CommandsStep ==
  ASSUME GitTypeOK, NEW r \in Repo,
         \/ \E p \in Path : Add(r, p)
         \/ CommitSet(r, staged[r]) \/ AmendCommit(r) \/ ResetSoft(r)
  PROVE  LosesAtMost(r, {})
<1>0. /\ log[r] \in History /\ changed[r] \in SUBSET Path /\ staged[r] \in SUBSET changed[r]
      /\ before[r] \in History \cup {None} /\ discarded \in SUBSET Path
      /\ Kept(r) = changed[r] \cup Held(log[r]) \cup (IF before[r] # None THEN Held(before[r]) ELSE {})
  BY Unchanged DEF Kept, Rebasing
<1>1. ASSUME NEW p \in Path, Add(r, p)
      PROVE  LosesAtMost(r, {})
  <2> DEFINE s == staged[r] \cup ({p} \cap changed[r])
  <2>1. /\ staged' = [staged EXCEPT ![r] = s] /\ log' = [log EXCEPT ![r] = log[r]]
        /\ changed' = [changed EXCEPT ![r] = changed[r]] /\ before' = [before EXCEPT ![r] = before[r]]
        /\ made' = made /\ discarded' = discarded
    BY <1>1, Unchanged DEF Add
  <2>2. s \in SUBSET changed[r]
    BY <1>0
  <2> HIDE DEF s
  <2> QED BY <1>0, <2>1, <2>2, RepositoryChanges
<1>2. CASE CommitSet(r, staged[r])
  <2> DEFINE l == Append(log[r], staged[r])
             c == changed[r] \ staged[r]
             s == {}
  <2>1. /\ log' = [log EXCEPT ![r] = l] /\ changed' = [changed EXCEPT ![r] = c]
        /\ staged' = [staged EXCEPT ![r] = s] /\ before' = [before EXCEPT ![r] = before[r]]
        /\ made' = made /\ discarded' = discarded
    BY <1>2, Unchanged DEF CommitSet
  <2>2. l \in History /\ Held(l) = Held(log[r]) \cup staged[r]
    BY <1>0, AppendFacts
  <2>3. c \in SUBSET Path /\ s \in SUBSET c
    BY <1>0
  <2>4. Kept(r) \subseteq c \cup Held(l) \cup (IF before[r] # None THEN Held(before[r]) ELSE {})
    BY <1>0, <2>2
  <2> HIDE DEF l, c, s
  <2> QED BY <1>0, <2>1, <2>2, <2>3, <2>4, RepositoryChanges
<1>3. CASE AmendCommit(r)
  <2> DEFINE l == Append(Front(log[r]), Last(log[r]) \cup staged[r])
             c == changed[r] \ staged[r]
             s == {}
  <2>1. /\ log' = [log EXCEPT ![r] = l] /\ changed' = [changed EXCEPT ![r] = c]
        /\ staged' = [staged EXCEPT ![r] = s] /\ before' = [before EXCEPT ![r] = before[r]]
        /\ made' = made /\ discarded' = discarded /\ log[r] # <<>>
    BY <1>3, Unchanged DEF AmendCommit
  <2>2. /\ Front(log[r]) \in History /\ Last(log[r]) \in SUBSET Path
        /\ Held(log[r]) = Held(Front(log[r])) \cup Last(log[r])
    BY <1>0, <2>1, FrontFacts
  <2>3. l \in History /\ Held(l) = Held(Front(log[r])) \cup (Last(log[r]) \cup staged[r])
    <3>1. Last(log[r]) \cup staged[r] \in SUBSET Path
      BY <1>0, <2>2
    <3> QED BY <2>2, <3>1, AppendFacts
  <2>4. c \in SUBSET Path /\ s \in SUBSET c
    BY <1>0
  <2>5. Kept(r) \subseteq c \cup Held(l) \cup (IF before[r] # None THEN Held(before[r]) ELSE {})
    BY <1>0, <2>2, <2>3
  <2> HIDE DEF l, c, s
  <2> QED BY <1>0, <2>1, <2>3, <2>4, <2>5, RepositoryChanges
<1>4. CASE ResetSoft(r)
  <2> DEFINE l == Front(log[r])
             c == changed[r] \cup Last(log[r])
             s == staged[r] \cup Last(log[r])
  <2>1. /\ log' = [log EXCEPT ![r] = l] /\ changed' = [changed EXCEPT ![r] = c]
        /\ staged' = [staged EXCEPT ![r] = s] /\ before' = [before EXCEPT ![r] = before[r]]
        /\ made' = made /\ discarded' = discarded /\ log[r] # <<>>
    <3>1. log[r] # <<>>
      BY <1>4 DEF ResetSoft
    <3> QED BY <1>4, <3>1, Unchanged DEF ResetSoft
  <2>2. l \in History /\ Last(log[r]) \in SUBSET Path /\ Held(log[r]) = Held(l) \cup Last(log[r])
    BY <1>0, <2>1, FrontFacts
  <2>3. c \in SUBSET Path /\ s \in SUBSET c
    BY <1>0, <2>2
  <2>4. Kept(r) \subseteq c \cup Held(l) \cup (IF before[r] # None THEN Held(before[r]) ELSE {})
    BY <1>0, <2>2
  <2> HIDE DEF l, c, s
  <2> QED BY <1>0, <2>1, <2>2, <2>3, <2>4, RepositoryChanges
<1> QED BY <1>1, <1>2, <1>3, <1>4

\* What the user does in an editor or a terminal loses nothing but what is discarded.
LEMMA OutsideStep ==
  ASSUME GitTypeOK, NEW r \in Repo, Outside(r)
  PROVE  LosesAtMost(r, {})
<1>0. /\ log[r] \in History /\ changed[r] \in SUBSET Path /\ staged[r] \in SUBSET changed[r]
      /\ before[r] \in History \cup {None} /\ discarded \in SUBSET Path
      /\ Kept(r) = changed[r] \cup Held(log[r]) \cup (IF before[r] # None THEN Held(before[r]) ELSE {})
  BY Unchanged DEF Kept, Rebasing
<1>1. ASSUME NEW p \in Path, Edit(r, p)
      PROVE  LosesAtMost(r, {})
  <2>1. /\ changed' = [changed EXCEPT ![r] = changed[r] \cup {p}]
        /\ made' = [made EXCEPT ![r] = made[r] \cup {p}]
        /\ UNCHANGED <<log, staged, before, discarded>>
    BY <1>1 DEF Edit
  <2>2. GitTypeOK'
    BY <2>1 DEF GitTypeOK
  <2>3. ASSUME NEW q \in Repo
        PROVE  /\ changed'[q] = IF q = r THEN changed[q] \cup {p} ELSE changed[q]
               /\ made'[q] = IF q = r THEN made[q] \cup {p} ELSE made[q]
    BY <2>1 DEF GitTypeOK
  <2>4. ASSUME NEW q \in Repo
        PROVE  Kept(q)' = IF q = r THEN Kept(q) \cup {p} ELSE Kept(q)
    BY <2>1, <2>3 DEF Kept, Rebasing
  <2>5. ASSUME NEW q \in Repo
        PROVE  /\ log'[q] = log[q]
               /\ made'[q] \ (Kept(q)' \cup discarded') \subseteq made[q] \ (Kept(q) \cup discarded)
    BY <2>1, <2>3, <2>4
  <2> QED BY <2>2, <2>5 DEF LosesAtMost
<1>2. ASSUME NEW p \in Path, Discard(r, p)
      PROVE  LosesAtMost(r, {})
  <2> DEFINE c == changed[r] \ {p}
             s == staged[r] \ {p}
  <2>1. /\ changed' = [changed EXCEPT ![r] = c] /\ staged' = [staged EXCEPT ![r] = s]
        /\ log' = [log EXCEPT ![r] = log[r]] /\ before' = [before EXCEPT ![r] = before[r]]
        /\ made' = made /\ discarded' = discarded \cup {p}
    BY <1>2, Unchanged DEF Discard
  <2>2. c \in SUBSET Path /\ s \in SUBSET c /\ discarded' \in SUBSET Path /\ discarded \subseteq discarded'
    BY <1>0, <2>1
  <2>3. Kept(r) \subseteq c \cup Held(log[r]) \cup (IF before[r] # None THEN Held(before[r]) ELSE {})
                            \cup discarded'
    BY <1>0, <2>1
  <2> HIDE DEF c, s
  <2> QED BY <1>0, <2>1, <2>2, <2>3, RepositoryChanges
<1>3. CASE CommitAll(r)
  <2> DEFINE l == Append(log[r], changed[r])
             c == changed[r] \ changed[r]
             s == {}
  <2>1. /\ log' = [log EXCEPT ![r] = l] /\ changed' = [changed EXCEPT ![r] = c]
        /\ staged' = [staged EXCEPT ![r] = s] /\ before' = [before EXCEPT ![r] = before[r]]
        /\ made' = made /\ discarded' = discarded
    BY <1>3, Unchanged DEF CommitAll, CommitSet
  <2>2. l \in History /\ Held(l) = Held(log[r]) \cup changed[r]
    BY <1>0, AppendFacts
  <2>3. c \in SUBSET Path /\ s \in SUBSET c
    OBVIOUS
  <2>4. Kept(r) \subseteq c \cup Held(l) \cup (IF before[r] # None THEN Held(before[r]) ELSE {})
    BY <1>0, <2>2
  <2> HIDE DEF l, c, s
  <2> QED BY <1>0, <2>1, <2>2, <2>3, <2>4, RepositoryChanges
<1>4. CASE OtherRebaseStops(r)
  <2> DEFINE l == Front(log[r])
  <2>1. /\ log' = [log EXCEPT ![r] = l] /\ changed' = [changed EXCEPT ![r] = changed[r]]
        /\ staged' = [staged EXCEPT ![r] = staged[r]] /\ before' = [before EXCEPT ![r] = log[r]]
        /\ made' = made /\ discarded' = discarded /\ log[r] # <<>> /\ before[r] = None
    BY <1>4, Unchanged DEF OtherRebaseStops, Rebasing
  <2>2. l \in History
    BY <1>0, <2>1, FrontFacts
  <2>3. log[r] # None
    BY <1>0, HistoriesAssumption DEF History
  <2>4. Kept(r) \subseteq changed[r] \cup Held(l) \cup (IF log[r] # None THEN Held(log[r]) ELSE {})
    BY <1>0, <2>1, <2>3
  <2> HIDE DEF l
  <2> QED BY <1>0, <2>1, <2>2, <2>4, RepositoryChanges
<1>5. CASE OtherRebaseEnds(r)
  <2> DEFINE l == PickAll(log[r], before[r])
  <2>1. /\ log' = [log EXCEPT ![r] = l] /\ changed' = [changed EXCEPT ![r] = changed[r]]
        /\ staged' = [staged EXCEPT ![r] = staged[r]] /\ before' = [before EXCEPT ![r] = None]
        /\ made' = made /\ discarded' = discarded /\ before[r] # None
    BY <1>5, Unchanged DEF OtherRebaseEnds, Rebasing
  <2>2. l \in History /\ Held(log[r]) \cup Held(before[r]) \subseteq Held(l)
    BY <1>0, <2>1, PickFacts
  <2>3. Kept(r) \subseteq changed[r] \cup Held(l) \cup (IF None # None THEN Held(None) ELSE {})
    BY <1>0, <2>1, <2>2
  <2> HIDE DEF l
  <2> QED BY <1>0, <2>1, <2>2, <2>3, RepositoryChanges
<1> QED BY <1>1, <1>2, <1>3, <1>4, <1>5 DEF Outside

\* A rebase of the app loses at most what its list and its base lack of the history.
LEMMA RebaseStep ==
  ASSUME GitTypeOK, NEW r \in Repo, NEW base \in History, NEW todo \in Seq(TodoLine), NEW E,
         Held(log[r]) \subseteq Listed(base, todo) \cup E,
         Rebase(r, base, todo)
  PROVE  LosesAtMost(r, E)
<1> DEFINE l == Apply(base, todo)
<1>0. /\ changed[r] \in SUBSET Path /\ staged[r] \in SUBSET changed[r]
      /\ before[r] \in History \cup {None} /\ discarded \in SUBSET Path
      /\ Kept(r) = changed[r] \cup Held(log[r]) \cup (IF before[r] # None THEN Held(before[r]) ELSE {})
  BY Unchanged DEF Kept, Rebasing
<1>1. /\ log' = [log EXCEPT ![r] = l] /\ changed' = [changed EXCEPT ![r] = changed[r]]
      /\ staged' = [staged EXCEPT ![r] = staged[r]] /\ before' = [before EXCEPT ![r] = before[r]]
      /\ made' = made /\ discarded' = discarded /\ Applicable(base, todo)
  BY Unchanged DEF Rebase
<1>2. l \in History /\ Listed(base, todo) \subseteq Held(l)
  BY <1>1, ApplyFacts
<1>3. Kept(r) \subseteq changed[r] \cup Held(l) \cup (IF before[r] # None THEN Held(before[r]) ELSE {}) \cup E
  BY <1>0, <1>2
<1> HIDE DEF l
<1> QED BY <1>0, <1>1, <1>2, <1>3, RepositoryChanges

\* One that stops loses nothing: git remembers what HEAD named.
LEMMA RebaseStopsStep ==
  ASSUME GitTypeOK, NEW r \in Repo, NEW base \in History, NEW todo \in Seq(TodoLine),
         RebaseStops(r, base, todo)
  PROVE  LosesAtMost(r, {})
<1>0. /\ changed[r] \in SUBSET Path /\ staged[r] \in SUBSET changed[r]
      /\ log[r] \in History /\ discarded \in SUBSET Path
      /\ Kept(r) = changed[r] \cup Held(log[r]) \cup (IF before[r] # None THEN Held(before[r]) ELSE {})
  BY Unchanged DEF Kept, Rebasing
<1>1. PICK i \in 1 .. Len(todo) : log' = [log EXCEPT ![r] = Apply(base, SubSeq(todo, 1, i - 1))]
  BY DEF RebaseStops
<1> DEFINE l == Apply(base, SubSeq(todo, 1, i - 1))
<1>2. l \in History
  <2>1. SubSeq(todo, 1, i - 1) \in Seq(TodoLine)
    OBVIOUS
  <2> QED BY <2>1, ApplyFacts
<1>3. /\ log' = [log EXCEPT ![r] = l] /\ changed' = [changed EXCEPT ![r] = changed[r]]
      /\ staged' = [staged EXCEPT ![r] = staged[r]] /\ before' = [before EXCEPT ![r] = log[r]]
      /\ made' = made /\ discarded' = discarded /\ before[r] = None
  BY <1>1, Unchanged DEF RebaseStops, Rebasing
<1>4. log[r] # None
  BY <1>0, HistoriesAssumption DEF History
<1>5. Kept(r) \subseteq changed[r] \cup Held(l) \cup (IF log[r] # None THEN Held(log[r]) ELSE {})
  BY <1>0, <1>3, <1>4
<1> HIDE DEF l
<1> QED BY <1>0, <1>2, <1>3, <1>5, RepositoryChanges

\* An abort loses what was done since, as far as it is not in the history that is back.
LEMMA RebaseAbortStep ==
  ASSUME GitTypeOK, NEW r \in Repo, RebaseAbort(r)
  PROVE  LosesAtMost(r, (changed[r] \cup Held(log[r])) \ Held(before[r]))
<1> DEFINE E == (changed[r] \cup Held(log[r])) \ Held(before[r])
<1>0. /\ before[r] \in History \cup {None} /\ discarded \in SUBSET Path
      /\ Kept(r) = changed[r] \cup Held(log[r]) \cup (IF before[r] # None THEN Held(before[r]) ELSE {})
  BY Unchanged DEF Kept, Rebasing
<1>1. /\ log' = [log EXCEPT ![r] = before[r]] /\ changed' = [changed EXCEPT ![r] = {}]
      /\ staged' = [staged EXCEPT ![r] = {}] /\ before' = [before EXCEPT ![r] = None]
      /\ made' = made /\ discarded' = discarded /\ before[r] # None
  BY DEF RebaseAbort, Rebasing
<1>2. Kept(r) \subseteq {} \cup Held(before[r]) \cup (IF None # None THEN Held(None) ELSE {}) \cup E
  BY <1>0
<1> HIDE DEF E
<1>3. LosesAtMost(r, E)
  <2>1. before[r] \in History /\ {} \in SUBSET Path /\ {} \in SUBSET {}
    BY <1>0, <1>1
  <2> QED BY <1>0, <1>1, <1>2, <2>1, RepositoryChanges
<1> QED BY <1>3 DEF E

-----------------------------------------------------------------------------
(* The invariant.                                                          *)

\* The selection of a call is one, and until the rebase begins what HEAD holds is in
\* the base, in the todo list, or exposed.
CallOK ==
  /\ rewrite \in {Idle, Over} \cup PendingCall \cup RebasingCall
  /\ rewrite \in PendingCall \cup RebasingCall => IsSelection(rewrite.selected)
  /\ rewrite \in RebasingCall =>
       Held(log[rewrite.repo]) \subseteq Listed(rewrite.base, rewrite.todo) \cup exposed[rewrite.repo]

TypesOK ==
  /\ GitTypeOK
  /\ commits \in [Repo -> History]
  /\ others \in 0 .. MaxOthers
  /\ exposed \in [Repo -> SUBSET Path]

IInv == TypesOK /\ CallOK /\ OnlyExposedIsLost

\* What is exposed stays so.
ExposedGrows == exposed' \in [Repo -> SUBSET Path] /\ \A q \in Repo : exposed[q] \subseteq exposed'[q]

\* The kinds of calls are told apart by where they are.
LEMMA CallKinds ==
  ASSUME rewrite \in {Idle, Over} \cup PendingCall \cup RebasingCall
  PROVE  /\ rewrite.at = "none" <=> rewrite = Idle
         /\ rewrite.at \in {"reading", "aborting"} <=> rewrite \in PendingCall
         /\ rewrite.at = "rebasing" <=> rewrite \in RebasingCall
         /\ Over \notin PendingCall \cup RebasingCall /\ Idle \notin PendingCall \cup RebasingCall
BY DEF Idle, Over, PendingCall, RebasingCall

\* What a step may lose is exposed.
LEMMA LossIsExposed ==
  ASSUME IInv, NEW r \in Repo, NEW E, LosesAtMost(r, E), ExposedGrows, E \subseteq exposed'[r]
  PROVE  GitTypeOK' /\ OnlyExposedIsLost'
<1>1. GitTypeOK'
  BY DEF LosesAtMost
<1>2. ASSUME NEW q \in Repo
      PROVE  made'[q] \subseteq Kept(q)' \cup discarded' \cup exposed'[q]
  <2>1. made'[q] \ (Kept(q)' \cup discarded')
          \subseteq (made[q] \ (Kept(q) \cup discarded)) \cup (IF q = r THEN E ELSE {})
    BY DEF LosesAtMost
  <2>2. made[q] \ (Kept(q) \cup discarded) \subseteq exposed[q]
    BY DEF IInv, OnlyExposedIsLost
  <2>3. (IF q = r THEN E ELSE {}) \subseteq exposed'[q]
    OBVIOUS
  <2>4. exposed[q] \subseteq exposed'[q]
    BY DEF ExposedGrows
  <2> QED BY <2>1, <2>2, <2>3, <2>4
<1> QED BY <1>1, <1>2 DEF OnlyExposedIsLost

\* A step that is not git's loses nothing.
LEMMA GitStays ==
  ASSUME IInv, UNCHANGED git, ExposedGrows
  PROVE  GitTypeOK' /\ OnlyExposedIsLost'
<1>1. GitTypeOK'
  BY DEF IInv, TypesOK, GitTypeOK, git
<1>2. ASSUME NEW q \in Repo
      PROVE  made'[q] \subseteq Kept(q)' \cup discarded' \cup exposed'[q]
  <2>1. made'[q] = made[q] /\ Kept(q)' = Kept(q) /\ discarded' = discarded
    BY DEF git, Kept, Rebasing
  <2>2. made[q] \subseteq Kept(q) \cup discarded \cup exposed[q]
    BY DEF IInv, OnlyExposedIsLost
  <2> QED BY <2>1, <2>2 DEF ExposedGrows
<1> QED BY <1>1, <1>2 DEF OnlyExposedIsLost

LEMMA InitIInv == RewriteInit => IInv
<1> SUFFICES ASSUME RewriteInit
             PROVE  IInv
  OBVIOUS
<1>1. Initial \in [Repo -> History] /\ MaxOthers \in Nat
  BY RewritingAssumption DEF History
<1>2. /\ log = Initial /\ commits = Initial /\ rewrite = Idle /\ others = 0
      /\ exposed = [r \in Repo |-> {}] /\ changed = [r \in Repo |-> {}]
      /\ staged = [r \in Repo |-> {}] /\ before = [r \in Repo |-> None]
      /\ made = [r \in Repo |-> Held(Initial[r])] /\ discarded = {}
  BY DEF RewriteInit, GitInit
<1>3. \A r \in Repo : Held(Initial[r]) \in SUBSET Path
  BY <1>1, HeldFacts DEF History
<1>4. GitTypeOK
  BY <1>1, <1>2, <1>3 DEF GitTypeOK, History
<1>5. TypesOK
  BY <1>1, <1>2, <1>4 DEF TypesOK
<1>6. CallOK
  BY <1>2 DEF CallOK, Idle, PendingCall, RebasingCall
<1>7. OnlyExposedIsLost
  BY <1>2 DEF OnlyExposedIsLost, Kept
<1> QED BY <1>5, <1>6, <1>7 DEF IInv

\* A repository's commits, shown or selected.
LEMMA SelectionFacts ==
  ASSUME NEW h \in History, NEW S \in SUBSET Commits(h), Cardinality(S) >= 2,
         NEW order \in SetToSeqs(S)
  PROVE  IsSelection(order)
<1> DEFINE n == Cardinality(S)
<1>1. \A c \in Commits(h) : c \in History /\ c # <<>>
  BY CommitFacts DEF Commits
<1>2. n \in Nat
  <2>1. Len(h) \in Nat
    BY DEF History
  <2> DEFINE f == [i \in 1 .. Len(h) |-> SubSeq(h, 1, i)]
  <2>2. f \in Surjection(1 .. Len(h), Commits(h))
    BY DEF Surjection, Commits
  <2>3. IsFiniteSet(1 .. Len(h))
    BY <2>1, IntervalFacts
  <2> HIDE DEF f
  <2>4. IsFiniteSet(Commits(h))
    BY <2>2, <2>3, FS_Surjection
  <2> QED BY <2>4, FS_Subset, FS_CardinalityType
<1>3. /\ order \in [1 .. n -> S]
      /\ \A i, j \in 1 .. n : i # j => order[i] # order[j]
  BY DEF SetToSeqs
<1> HIDE DEF n
<1>4. \A i \in 1 .. n : order[i] \in History /\ order[i] # <<>>
  BY <1>1, <1>3
<1>5. order \in Seq(History) /\ Len(order) = n
  BY <1>2, <1>3, <1>4
<1> QED BY <1>2, <1>3, <1>4, <1>5 DEF IsSelection, Selection, n

-----------------------------------------------------------------------------
(* The steps.                                                              *)

\* The user shows, selects and confirms.
LEMMA UserSteps ==
  ASSUME IInv, NEW r \in Repo,
         \/ HistoryIsShown(r)
         \/ \E S \in SUBSET Commits(commits[r]) : BeginSquash(r, S) \/ BeginReorder(r, S)
  PROVE  IInv'
<1>1. UNCHANGED git /\ UNCHANGED others /\ UNCHANGED exposed /\ ExposedGrows
  BY DEF HistoryIsShown, BeginSquash, BeginReorder, IInv, TypesOK, ExposedGrows
<1>2. GitTypeOK' /\ OnlyExposedIsLost'
  BY <1>1, GitStays
<1>3. log' = log /\ log \in [Repo -> History]
  BY <1>1 DEF git, IInv, TypesOK, GitTypeOK, History
<1>4. CASE HistoryIsShown(r)
  <2>1. commits' \in [Repo -> History] /\ rewrite' = rewrite
    BY <1>3, <1>4 DEF HistoryIsShown, IInv, TypesOK
  <2>2. TypesOK'
    BY <1>1, <1>2, <2>1 DEF IInv, TypesOK
  <2>3. CallOK'
    BY <1>1, <1>3, <2>1 DEF IInv, CallOK
  <2> QED BY <1>2, <2>2, <2>3 DEF IInv
<1>5. ASSUME NEW S \in SUBSET Commits(commits[r]), BeginSquash(r, S) \/ BeginReorder(r, S)
      PROVE  IInv'
  <2>1. PICK order \in SetToSeqs(S), kind \in {"squash", "reorder"} :
          rewrite' = [at |-> "reading", kind |-> kind, repo |-> r, selected |-> order]
    BY <1>5 DEF BeginSquash, BeginReorder
  <2>2. commits[r] \in History /\ commits' = commits /\ Cardinality(S) >= 2
    BY <1>5 DEF IInv, TypesOK, BeginSquash, BeginReorder
  <2>3. IsSelection(order)
    BY <2>2, SelectionFacts
  <2>4. rewrite' \in PendingCall /\ rewrite'.selected = order /\ rewrite' \notin RebasingCall
    BY <2>1, <2>3 DEF IsSelection, PendingCall, RebasingCall
  <2>5. CallOK'
    BY <2>3, <2>4 DEF CallOK
  <2>6. TypesOK'
    BY <1>1, <1>2, <2>2 DEF IInv, TypesOK
  <2> QED BY <1>2, <2>5, <2>6 DEF IInv
<1> QED BY <1>4, <1>5

\* A call that is over keeps the invariant.
LEMMA OverIsOK ==
  ASSUME rewrite' = Over
  PROVE  CallOK'
BY DEF CallOK, Over, PendingCall, RebasingCall

\* The todo list that is made of a history covers it.
LEMMA HistoryIsReadStep ==
  ASSUME IInv, HistoryIsRead
  PROVE  IInv'
<1> DEFINE r == rewrite.repo
           h == log[r]
           selected == rewrite.selected
<1>1. /\ rewrite \in PendingCall /\ r \in Repo /\ rewrite.kind \in {"squash", "reorder"}
      /\ selected \in Selection /\ IsSelection(selected)
  <2>1. rewrite \in PendingCall
    BY CallKinds DEF IInv, CallOK, HistoryIsRead
  <2> QED BY <2>1 DEF PendingCall, IInv, CallOK
<1>2. h \in History /\ exposed \in [Repo -> SUBSET Path] /\ \A i \in 1 .. Len(h) : h[i] \in SUBSET Path
  BY <1>1 DEF IInv, TypesOK, GitTypeOK, History
<1>3. UNCHANGED <<git, commits, others>> /\ log' = log
  BY DEF HistoryIsRead, git
<1>4. \/ /\ rewrite.kind = "squash"
         /\ Rebases(SquashBase(selected), SquashTodo(selected, h), h)
         /\ UNCHANGED exposed
      \/ /\ rewrite.kind = "reorder" /\ Slots(selected, h) # {}
         /\ Rebases(ReorderBase(selected, h), ReorderTodo(selected, h), h)
         /\ IF Range(selected) \subseteq Commits(h)
              THEN UNCHANGED exposed
              ELSE Expose(r, UNION {h[i] : i \in Slots(selected, h)})
      \/ rewrite' = Over /\ UNCHANGED exposed
  BY DEF HistoryIsRead
<1> HIDE DEF r, h, selected
<1>5. ASSUME NEW base \in History, NEW todo \in Seq(TodoLine), Rebases(base, todo, h),
             Held(h) \subseteq Listed(base, todo) \cup exposed'[r]
      PROVE  CallOK'
  <2>1. rewrite' = [at |-> "rebasing", kind |-> rewrite.kind, repo |-> r, selected |-> selected,
                    base |-> base, todo |-> todo, from |-> h]
    BY <1>5 DEF Rebases, r, selected
  <2>2. /\ rewrite' \in RebasingCall /\ rewrite'.selected = selected /\ rewrite'.repo = r
        /\ rewrite'.base = base /\ rewrite'.todo = todo
    BY <1>1, <1>2, <2>1 DEF RebasingCall
  <2>3. log'[r] = h
    BY <1>3 DEF h
  <2> QED BY <1>1, <1>5, <2>2, <2>3 DEF CallOK
<1>6. CallOK' /\ ExposedGrows
  <2>1. ASSUME rewrite.kind = "squash",
               Rebases(SquashBase(selected), SquashTodo(selected, h), h), UNCHANGED exposed
        PROVE  CallOK' /\ ExposedGrows
    <3>1. /\ SquashBase(selected) \in History /\ SquashTodo(selected, h) \in Seq(TodoLine)
          /\ Held(h) \subseteq Listed(SquashBase(selected), SquashTodo(selected, h))
      BY <1>1, <1>2, SquashFacts
    <3>2. CallOK'
      BY <1>5, <2>1, <3>1
    <3> QED BY <1>2, <2>1, <3>2 DEF ExposedGrows
  <2>2. ASSUME Slots(selected, h) # {},
               Rebases(ReorderBase(selected, h), ReorderTodo(selected, h), h),
               IF Range(selected) \subseteq Commits(h)
                 THEN UNCHANGED exposed
                 ELSE Expose(r, UNION {h[i] : i \in Slots(selected, h)})
        PROVE  CallOK' /\ ExposedGrows
    <3> DEFINE base == ReorderBase(selected, h)
               todo == ReorderTodo(selected, h)
               S == UNION {h[i] : i \in Slots(selected, h)}
    <3>1. /\ base \in History /\ todo \in Seq(TodoLine)
          /\ Held(h) \subseteq Listed(base, todo) \cup S
          /\ Range(selected) \subseteq Commits(h) => Held(h) \subseteq Listed(base, todo)
      BY <1>1, <1>2, <2>2, ReorderFacts
    <3>2. S \in SUBSET Path
      BY <1>2 DEF Slots
    <3>3. Rebases(base, todo, h)
      BY <2>2
    <3>4. \/ Range(selected) \subseteq Commits(h) /\ UNCHANGED exposed
          \/ exposed' = [exposed EXCEPT ![r] = exposed[r] \cup S]
      BY <2>2 DEF Expose
    <3> HIDE DEF base, todo, S
    <3>5. ExposedGrows
      BY <1>1, <1>2, <3>2, <3>4 DEF ExposedGrows
    <3>6. Held(h) \subseteq Listed(base, todo) \cup exposed'[r]
      BY <1>1, <1>2, <3>1, <3>4
    <3>7. CallOK'
      BY <1>5, <3>1, <3>3, <3>6
    <3> QED BY <3>5, <3>7
  <2>3. ASSUME rewrite' = Over, UNCHANGED exposed
        PROVE  CallOK' /\ ExposedGrows
    BY <1>2, <2>3, OverIsOK DEF ExposedGrows
  <2> QED BY <1>4, <2>1, <2>2, <2>3
<1>7. GitTypeOK' /\ OnlyExposedIsLost'
  BY <1>3, <1>6, GitStays
<1>8. TypesOK'
  BY <1>3, <1>6, <1>7 DEF IInv, TypesOK, ExposedGrows
<1> QED BY <1>6, <1>7, <1>8 DEF IInv

\* The history cannot be read.
LEMMA ReadingFailsStep ==
  ASSUME IInv, ReadingFails
  PROVE  IInv'
<1>1. UNCHANGED <<git, commits, others, exposed>> /\ rewrite' = Over
  BY DEF ReadingFails
<1>2. ExposedGrows
  BY <1>1 DEF IInv, TypesOK, ExposedGrows
<1>3. GitTypeOK' /\ OnlyExposedIsLost'
  BY <1>1, <1>2, GitStays
<1>4. TypesOK'
  BY <1>1, <1>3 DEF IInv, TypesOK
<1> QED BY <1>1, <1>3, <1>4, OverIsOK DEF IInv

\* The rebase ends, stops or is refused, and is aborted.
LEMMA RebaseSteps ==
  ASSUME IInv, RebaseSucceeds \/ RebaseFails \/ AbortReturns
  PROVE  IInv'
<1>0. exposed \in [Repo -> SUBSET Path] /\ GitTypeOK
  BY DEF IInv, TypesOK
<1>1. CASE RebaseSucceeds
  <2> DEFINE r == rewrite.repo
             E == exposed[r]
  <2>1. rewrite \in RebasingCall
    BY <1>1, CallKinds DEF IInv, CallOK, RebaseSucceeds
  <2>2. /\ r \in Repo /\ rewrite.base \in History /\ rewrite.todo \in Seq(TodoLine)
        /\ Held(log[r]) \subseteq Listed(rewrite.base, rewrite.todo) \cup E
    BY <2>1 DEF RebasingCall, IInv, CallOK
  <2>3. Rebase(r, rewrite.base, rewrite.todo) /\ rewrite' = Over /\ UNCHANGED <<commits, others, exposed>>
    BY <1>1 DEF RebaseSucceeds
  <2> HIDE DEF r
  <2>4. LosesAtMost(r, E)
    <3> HIDE DEF E
    <3> QED BY <1>0, <2>2, <2>3, RebaseStep
  <2>5. ExposedGrows /\ E \subseteq exposed'[r]
    BY <1>0, <2>3 DEF ExposedGrows
  <2>6. GitTypeOK' /\ OnlyExposedIsLost'
    <3> HIDE DEF E
    <3> QED BY <2>2, <2>4, <2>5, LossIsExposed
  <2>7. TypesOK'
    BY <2>3, <2>6 DEF IInv, TypesOK
  <2> QED BY <2>3, <2>6, <2>7, OverIsOK DEF IInv
<1>2. CASE RebaseFails
  <2> DEFINE r == rewrite.repo
  <2>1. rewrite \in RebasingCall
    BY <1>2, CallKinds DEF IInv, CallOK, RebaseFails
  <2>2. /\ r \in Repo /\ rewrite.base \in History /\ rewrite.todo \in Seq(TodoLine)
        /\ rewrite.kind \in {"squash", "reorder"}
        /\ rewrite.selected \in Selection /\ IsSelection(rewrite.selected)
    BY <2>1 DEF RebasingCall, IInv, CallOK
  <2>3. /\ RebaseStops(r, rewrite.base, rewrite.todo) \/ UNCHANGED git
        /\ rewrite' = [at |-> "aborting", kind |-> rewrite.kind, repo |-> r,
                       selected |-> rewrite.selected]
        /\ UNCHANGED <<commits, others, exposed>>
    BY <1>2 DEF RebaseFails
  <2> HIDE DEF r
  <2>4. ExposedGrows /\ {} \subseteq exposed'[r]
    BY <1>0, <2>3 DEF ExposedGrows
  <2>5. GitTypeOK' /\ OnlyExposedIsLost'
    <3>1. CASE RebaseStops(r, rewrite.base, rewrite.todo)
      <4>1. LosesAtMost(r, {})
        BY <1>0, <2>2, <3>1, RebaseStopsStep
      <4> QED BY <2>2, <2>4, <4>1, LossIsExposed
    <3>2. CASE UNCHANGED git
      BY <2>4, <3>2, GitStays
    <3> QED BY <2>3, <3>1, <3>2
  <2>6. rewrite' \in PendingCall /\ rewrite' \notin RebasingCall /\ rewrite'.selected = rewrite.selected
    BY <2>2, <2>3 DEF PendingCall, RebasingCall
  <2>7. CallOK'
    BY <2>2, <2>6 DEF CallOK
  <2>8. TypesOK'
    BY <2>3, <2>5 DEF IInv, TypesOK
  <2> QED BY <2>5, <2>7, <2>8 DEF IInv
<1>3. CASE AbortReturns
  <2> DEFINE r == rewrite.repo
             E == (changed[r] \cup Held(log[r])) \ Held(before[r])
  <2>1. rewrite \in PendingCall /\ r \in Repo
    <3>1. rewrite \in PendingCall
      BY <1>3, CallKinds DEF IInv, CallOK, AbortReturns
    <3> QED BY <3>1 DEF PendingCall
  <2>2. /\ \/ RebaseAbort(r) /\ Expose(r, E)
           \/ UNCHANGED <<git, exposed>>
        /\ rewrite' = Over /\ UNCHANGED <<commits, others>>
    BY <1>3 DEF AbortReturns
  <2>3. changed[r] \in SUBSET Path /\ log[r] \in History /\ Held(log[r]) \in SUBSET Path
    <3>1. log[r] \in Seq(SUBSET Path) /\ changed[r] \in SUBSET Path
      BY <1>0, <2>1 DEF GitTypeOK
    <3> HIDE DEF r
    <3>2. Held(log[r]) \in SUBSET Path
      BY <3>1, HeldFacts
    <3> QED BY <3>1, <3>2 DEF History
  <2>4. E \in SUBSET Path
    BY <2>3
  <2>5. GitTypeOK' /\ OnlyExposedIsLost' /\ ExposedGrows
    <3>1. CASE RebaseAbort(r) /\ Expose(r, E)
      <4>1. LosesAtMost(r, E)
        BY <1>0, <2>1, <3>1, RebaseAbortStep
      <4> HIDE DEF E, r
      <4>2. exposed' = [exposed EXCEPT ![r] = exposed[r] \cup E]
        BY <3>1 DEF Expose
      <4>3. ExposedGrows /\ E \subseteq exposed'[r]
        BY <1>0, <2>1, <2>4, <4>2 DEF ExposedGrows
      <4> QED BY <2>1, <4>1, <4>3, LossIsExposed
    <3>2. CASE UNCHANGED <<git, exposed>>
      <4>1. ExposedGrows
        BY <1>0, <3>2 DEF ExposedGrows
      <4> QED BY <3>2, <4>1, GitStays
    <3> QED BY <2>2, <3>1, <3>2
  <2>6. TypesOK'
    BY <2>2, <2>5 DEF IInv, TypesOK, ExposedGrows
  <2> QED BY <2>2, <2>5, <2>6, OverIsOK DEF IInv
<1> QED BY <1>1, <1>2, <1>3

\* What others add to a history that has been read is exposed.
LEMMA OthersStep ==
  ASSUME IInv, NEW r \in Repo, OthersAct(r)
  PROVE  IInv'
<1> DEFINE new == UNION (Range(log'[r]) \ Range(log[r]))
           isExposed == rewrite.at = "rebasing" /\ rewrite.repo = r /\ log'[r] # log[r]
<1>0. exposed \in [Repo -> SUBSET Path] /\ GitTypeOK /\ others \in 0 .. MaxOthers /\ MaxOthers \in Nat
  BY RewritingAssumption DEF IInv, TypesOK
<1>1. LosesAtMost(r, {})
  BY <1>0, CommandsStep, OutsideStep DEF OthersAct, Others
<1>2. /\ others < MaxOthers /\ others' = others + 1 /\ UNCHANGED <<commits, rewrite>>
      /\ isExposed => exposed' = [exposed EXCEPT ![r] = exposed[r] \cup new]
      /\ ~isExposed => UNCHANGED exposed
  BY DEF OthersAct, Expose
<1>3. GitTypeOK' /\ \A q \in Repo : q # r => log'[q] = log[q]
  BY <1>1 DEF LosesAtMost
<1>4. /\ log[r] \in Seq(SUBSET Path) /\ log'[r] \in Seq(SUBSET Path)
  BY <1>0, <1>3 DEF GitTypeOK
<1>5. new \in SUBSET Path /\ Held(log'[r]) \subseteq Held(log[r]) \cup new
  <2>1. \A S \in Range(log'[r]) : S \in SUBSET Path
    BY <1>4 DEF Range
  <2> QED BY <2>1 DEF Held
<1> HIDE DEF new, isExposed
<1>6. ExposedGrows
  BY <1>0, <1>2, <1>5 DEF ExposedGrows
<1>7. GitTypeOK' /\ OnlyExposedIsLost'
  BY <1>1, <1>6, LossIsExposed
<1>8. TypesOK'
  BY <1>0, <1>2, <1>6, <1>7 DEF IInv, TypesOK, ExposedGrows
<1>9. ASSUME rewrite \in RebasingCall
      PROVE  Held(log'[rewrite.repo])
               \subseteq Listed(rewrite.base, rewrite.todo) \cup exposed'[rewrite.repo]
  <2>1. /\ rewrite.at = "rebasing" /\ rewrite.repo \in Repo
        /\ Held(log[rewrite.repo]) \subseteq Listed(rewrite.base, rewrite.todo) \cup exposed[rewrite.repo]
    BY <1>9 DEF RebasingCall, IInv, CallOK
  <2>2. exposed[rewrite.repo] \subseteq exposed'[rewrite.repo]
    BY <1>6, <2>1 DEF ExposedGrows
  <2>3. CASE log'[rewrite.repo] = log[rewrite.repo]
    BY <2>1, <2>2, <2>3
  <2>4. CASE log'[rewrite.repo] # log[rewrite.repo]
    <3>1. rewrite.repo = r /\ isExposed
      BY <1>3, <2>1, <2>4 DEF isExposed
    <3>2. exposed'[r] = exposed[r] \cup new
      BY <1>0, <1>2, <3>1
    <3> QED BY <1>5, <2>1, <3>1, <3>2
  <2> QED BY <2>3, <2>4
<1>10. CallOK'
  BY <1>2, <1>9 DEF IInv, CallOK
<1> QED BY <1>7, <1>8, <1>10 DEF IInv

LEMMA NextIInv == IInv /\ [RewriteNext]_<<git, rewriteVars>> => IInv'
<1> SUFFICES ASSUME IInv, [RewriteNext]_<<git, rewriteVars>>
             PROVE  IInv'
  OBVIOUS
<1>1. ASSUME NEW r \in Repo,
             HistoryIsShown(r)
               \/ \E S \in SUBSET Commits(commits[r]) : BeginSquash(r, S) \/ BeginReorder(r, S)
      PROVE  IInv'
  BY <1>1, UserSteps
<1>2. ASSUME NEW r \in Repo, OthersAct(r)
      PROVE  IInv'
  BY <1>2, OthersStep
<1>3. CASE HistoryIsRead
  BY <1>3, HistoryIsReadStep
<1>4. CASE ReadingFails
  BY <1>4, ReadingFailsStep
<1>5. CASE RebaseSucceeds \/ RebaseFails \/ AbortReturns
  BY <1>5, RebaseSteps
<1>6. CASE UNCHANGED <<git, rewriteVars>>
  <2>1. UNCHANGED git /\ UNCHANGED <<commits, rewrite, others, exposed>> /\ log' = log
    BY <1>6 DEF rewriteVars, git
  <2>2. ExposedGrows
    BY <2>1 DEF IInv, TypesOK, ExposedGrows
  <2>3. GitTypeOK' /\ OnlyExposedIsLost'
    BY <2>1, <2>2, GitStays
  <2>4. TypesOK' /\ CallOK'
    BY <2>1, <2>3 DEF IInv, TypesOK, CallOK
  <2> QED BY <2>3, <2>4 DEF IInv
<1> QED BY <1>1, <1>2, <1>3, <1>4, <1>5, <1>6 DEF RewriteNext

-----------------------------------------------------------------------------
(* The theorems.                                                           *)

\* The invariant of the module: squashSelectedCommits and reorderCommits beside
\* whatever git is asked to do meanwhile.
THEOREM Invariance == RewriteSpec => []IInv
<1>1. RewriteInit => IInv
  BY InitIInv
<1>2. IInv /\ [RewriteNext]_<<git, rewriteVars>> => IInv'
  BY NextIInv
<1> QED BY <1>1, <1>2, PTL DEF RewriteSpec

\* Every variable has its type: whatever is selected and whatever HEAD has become, the
\* queue of a reorder is not read past its end, and what git is given are todo lists.
THEOREM TypeCorrect == RewriteSpec => []RewriteTypeOK
<1>1. IInv => RewriteTypeOK
  BY DEF IInv, TypesOK, CallOK, RewriteTypeOK
<1> QED BY <1>1, Invariance, PTL

\* Whatever interleaves with a squash or a reorder, and however it fails, no change is
\* lost that was not exposed.
THEOREM NothingElseIsLost == RewriteSpec => []OnlyExposedIsLost
<1>1. IInv => OnlyExposedIsLost
  BY DEF IInv
<1> QED BY <1>1, Invariance, PTL
=============================================================================
