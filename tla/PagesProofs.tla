----------------------------- MODULE PagesProofs ----------------------------
(***************************************************************************)
(* Proofs about lists that are read page after page (MCPages): those of    *)
(* the feed (FeedPages) and that of the polls (PollLists), for any items,  *)
(* polls, readers, tags and limits.                                        *)
(***************************************************************************)
EXTENDS MCPages, FiniteSetTheorems, SequenceTheorems, WellFoundedInduction, TLAPS

-----------------------------------------------------------------------------
(* Numbers, finite sets and sequences.                                       *)

LEMMA LeastNumber ==
  ASSUME NEW S \in SUBSET Nat, S # {}
  PROVE  \E n \in S : \A m \in S : n <= m
<1> DEFINE R == OpToRel(<, Nat)
<1>1. IsWellFoundedOn(R, Nat)
  BY NatLessThanWellFounded
<1>2. PICK n \in S : \A m \in S : ~ (<<m, n>> \in R)
  <2> HIDE DEF R
  <2> QED BY <1>1, WFMin
<1>3. ASSUME NEW m \in Nat, NEW k \in Nat, m < k PROVE <<m, k>> \in R
  <2>1. <<m, k>> \in Nat \X Nat /\ <<m, k>>[1] < <<m, k>>[2]
    BY <1>3
  <2> QED
    BY <2>1, Zenon DEF OpToRel
<1>4. ASSUME NEW m \in S PROVE n <= m
  <2> HIDE DEF R
  <2>1. ~ (m < n)
    BY <1>2, <1>3
  <2> QED
    BY <2>1
<1> QED
  BY <1>4

\* Induction, for what is said of numbers by a set of them.
LEMMA AllNumbers ==
  ASSUME NEW S, 0 \in S, \A n \in Nat : n \in S => n + 1 \in S
  PROVE  Nat \subseteq S
<1>1. SUFFICES ASSUME Nat \ S # {} PROVE FALSE
  OBVIOUS
<1>2. PICK n \in Nat \ S : \A m \in Nat \ S : n <= m
  BY <1>1, LeastNumber
<1>3. n - 1 \in Nat /\ n - 1 \in S
  BY <1>2
<1> QED
  BY <1>2, <1>3

LEMMA SubsetCardinality ==
  ASSUME NEW T, IsFiniteSet(T), NEW S \in SUBSET T
  PROVE  /\ IsFiniteSet(S) /\ Cardinality(S) \in Nat /\ Cardinality(T) \in Nat
         /\ Cardinality(S) <= Cardinality(T)
         /\ S # T => Cardinality(S) < Cardinality(T)
<1>1. IsFiniteSet(S) /\ Cardinality(S) <= Cardinality(T)
  BY FS_Subset
<1>2. S # T => Cardinality(S) # Cardinality(T)
  BY FS_Subset
<1> QED
  BY <1>1, <1>2, FS_CardinalityType

LEMMA MinOfTwo ==
  ASSUME NEW a \in Int, NEW b \in Int
  PROVE  Min({a, b}) = IF a <= b THEN a ELSE b
<1> DEFINE m == IF a <= b THEN a ELSE b
<1>1. m \in {a, b} /\ \A y \in {a, b} : m <= y
  OBVIOUS
<1>2. \A x \in {a, b} : (\A y \in {a, b} : x <= y) => x = m
  OBVIOUS
<1> HIDE DEF m
<1>3. Min({a, b}) = m
  BY <1>1, <1>2 DEF Min
<1> QED
  BY <1>3 DEF m

LEMMA MaxOfTwo ==
  ASSUME NEW a \in Int, NEW b \in Int
  PROVE  Max({a, b}) = IF a <= b THEN b ELSE a
<1> DEFINE m == IF a <= b THEN b ELSE a
<1>1. m \in {a, b} /\ \A y \in {a, b} : m >= y
  OBVIOUS
<1>2. \A x \in {a, b} : (\A y \in {a, b} : x >= y) => x = m
  OBVIOUS
<1> HIDE DEF m
<1>3. Max({a, b}) = m
  BY <1>1, <1>2 DEF Max
<1> QED
  BY <1>3 DEF m

\* The first n of a sequence.
LEMMA FirstOfSequence ==
  ASSUME NEW S, NEW s \in Seq(S), NEW n \in Nat
  PROVE  /\ FirstOf(s, n) \in Seq(S)
         /\ Len(FirstOf(s, n)) = IF n <= Len(s) THEN n ELSE Len(s)
         /\ \A k \in 1 .. Len(FirstOf(s, n)) : FirstOf(s, n)[k] = s[k]
<1> DEFINE m == IF n <= Len(s) THEN n ELSE Len(s)
<1>1. Len(s) \in Nat /\ Min({n, Len(s)}) = m /\ m \in Nat /\ m <= Len(s)
  BY LenProperties, MinOfTwo
<1>2. \A i \in 1 .. m : s[i] \in S
  BY <1>1, LenProperties, ElementOfSeq
<1> HIDE DEF m
<1>3. /\ SubSeq(s, 1, m) \in Seq(S)
      /\ Len(SubSeq(s, 1, m)) = IF 1 <= m THEN m - 1 + 1 ELSE 0
      /\ \A i \in 1 .. m - 1 + 1 : SubSeq(s, 1, m)[i] = s[1 + i - 1]
  BY <1>1, <1>2, SubSeqProperties
<1>4. FirstOf(s, n) = SubSeq(s, 1, m)
  BY <1>1 DEF FirstOf
<1>5. Len(FirstOf(s, n)) = m
  BY <1>1, <1>3, <1>4
<1>6. \A k \in 1 .. m : FirstOf(s, n)[k] = s[k]
  BY <1>1, <1>3, <1>4
<1> QED
  BY <1>3, <1>4, <1>5, <1>6 DEF m

\* ORDER BY puts each item once, where its key belongs.
LEMMA OrderedProperties ==
  ASSUME NEW S, IsFiniteSet(S), NEW before \in [S -> SUBSET S],
         \A i \in S : i \notin before[i],
         \A i, j, k \in S : i \in before[j] /\ j \in before[k] => i \in before[k],
         \A i, j \in S : i = j \/ i \in before[j] \/ j \in before[i]
  PROVE  /\ Ordered(S, before) \in Seq(S)
         /\ Len(Ordered(S, before)) = Cardinality(S)
         /\ ToSet(Ordered(S, before)) = S
         /\ \A m, n \in 1 .. Cardinality(S) :
              m < n => Ordered(S, before)[m] \in before[Ordered(S, before)[n]]
<1> DEFINE N0 == Cardinality(S)
           rank == [i \in S |-> Cardinality(before[i]) + 1]
           s == Ordered(S, before)
<1>1. N0 \in Nat /\ IsFiniteSet(1 .. N0) /\ Cardinality(1 .. N0) = N0
  BY FS_CardinalityType, FS_Interval
<1>2. ASSUME NEW i \in S
      PROVE  IsFiniteSet(before[i]) /\ Cardinality(before[i]) \in Nat /\ Cardinality(before[i]) < N0
  BY SubsetCardinality
<1>3. ASSUME NEW i \in S, NEW j \in S, i \in before[j]
      PROVE  Cardinality(before[i]) < Cardinality(before[j])
  <2>1. before[i] \in SUBSET before[j] /\ before[i] # before[j]
    BY <1>3
  <2> QED
    BY <1>2, <2>1, SubsetCardinality
<1>4. rank \in Injection(S, 1 .. N0)
  <2>1. rank \in [S -> 1 .. N0]
    BY <1>1, <1>2
  <2>2. \A i, j \in S : rank[i] = rank[j] => i = j
    BY <1>2, <1>3
  <2> QED
    BY <2>1, <2>2 DEF Injection, IsInjective
<1>5. rank \in Surjection(S, 1 .. N0)
  BY <1>1, <1>4, FS_Injection
<1>6. ASSUME NEW n \in 1 .. N0
      PROVE  s[n] \in S /\ Cardinality(before[s[n]]) = n - 1
  <2>1. PICK i \in S : rank[i] = n
    BY <1>5 DEF Surjection
  <2>2. Cardinality(before[i]) = n - 1
    BY <1>2, <2>1
  <2>3. s[n] = CHOOSE k \in S : Cardinality(before[k]) = n - 1
    BY DEF Ordered
  <2> QED
    BY <2>2, <2>3
<1>7. s = [n \in 1 .. N0 |-> s[n]]
  BY DEF Ordered
<1> HIDE DEF s, N0
<1>8. s \in Seq(S) /\ Len(s) = N0 /\ DOMAIN s = 1 .. N0
  BY <1>1, <1>6, <1>7, IsASeq, LenProperties
<1>9. ToSet(s) = S
  <2>1. ASSUME NEW i \in S PROVE \E n \in 1 .. N0 : s[n] = i
    <3>1. rank[i] \in 1 .. N0
      BY <1>4 DEF Injection
    <3>2. s[rank[i]] \in S /\ Cardinality(before[s[rank[i]]]) = rank[i] - 1
      BY <1>6, <3>1
    <3>3. rank[s[rank[i]]] = rank[i]
      BY <1>1, <1>2, <3>1, <3>2
    <3> QED
      BY <1>4, <3>1, <3>2, <3>3 DEF Injection, IsInjective
  <2> QED
    BY <1>6, <1>8, <2>1 DEF ToSet
<1>10. ASSUME NEW m \in 1 .. N0, NEW n \in 1 .. N0, m < n PROVE s[m] \in before[s[n]]
  BY <1>1, <1>3, <1>6, <1>10
<1> QED
  BY <1>8, <1>9, <1>10 DEF s, N0

-----------------------------------------------------------------------------
(* The list of polls (PollLists).                                            *)

\* The row comes after what the walk has reached.
Beyond(k) == walk.cursor = None \/ Lists!Above(walk.cursor, k)

\* Pages are numbered, and what was shown lies before the cursor or at it.
ShownSoFar ==
  \A a \in listed :
    /\ a.page < walk.page
    /\ walk.stage # "done" =>
         /\ walk.cursor # None
         /\ a.key = walk.cursor \/ Lists!Above(a.key, walk.cursor)

\* The rows that were read and are not shown yet.
RowsRead ==
  walk.stage \in {"options", "tags"} =>
    /\ \A k \in walk.rows :
         /\ Beyond(k)
         /\ \/ k[2] \in changed
            \/ /\ k[2] \in Lists!Wanted(walk.filter)
               /\ walk.stage = "tags" => k[2] \in walk.options
    /\ walk.more => walk.rows # {}

\* What stays has been shown, has been read, or is still to come.
SteadyReached ==
  \A p \in steadyPolls :
    LET k == Lists!Key(p)
        wasShown == \E a \in listed : a.key = k IN
    /\ p \in Lists!Wanted(walk.filter)
    /\ walk.stage \in {"polls", "options", "tags"} => Beyond(k) \/ wasShown
    /\ walk.stage \in {"options", "tags"} /\ Beyond(k) =>
         k \in walk.rows \/ (walk.more /\ \A o \in walk.rows : Lists!Above(o, k))
    /\ walk.stage = "done" => wasShown

ListsInv ==
  /\ Lists!TypeOK
  /\ \A p \in Lists!There : polls[p].options
  /\ walk.stage = "none" => listed = {} /\ steadyPolls = {} /\ walk.cursor = None
  /\ ShownSoFar /\ RowsRead /\ SteadyReached
  /\ Lists!PagesDescend /\ Lists!ItemsAreWhole

LEMMA AboveIsOrder ==
  ASSUME NEW a \in Nat \X Nat, NEW b \in Nat \X Nat, NEW c \in Nat \X Nat
  PROVE  /\ ~ Lists!Above(a, a)
         /\ a = b \/ Lists!Above(a, b) \/ Lists!Above(b, a)
         /\ Lists!Above(a, b) /\ Lists!Above(b, c) => Lists!Above(a, c)
<1>1. a[1] \in Nat /\ a[2] \in Nat /\ b[1] \in Nat /\ b[2] \in Nat /\ c[1] \in Nat /\ c[2] \in Nat
  OBVIOUS
<1>2. a[1] = b[1] /\ a[2] = b[2] => a = b
  OBVIOUS
<1> QED
  BY <1>1, <1>2 DEF Lists!Above

\* The cursor of a page that has rows is one of them, below the others.
LEMMA LowestKey ==
  ASSUME NEW K \in SUBSET (Nat \X Nat), K # {}
  PROVE  \E k \in K : \A o \in K \ {k} : Lists!Above(o, k)
<1> DEFINE T == {t \in Nat : \E k \in K : k[1] = t}
<1>1. PICK t \in T : \A u \in T : t <= u
  <2>1. T # {} /\ T \in SUBSET Nat
    OBVIOUS
  <2> HIDE DEF T
  <2> QED
    BY <2>1, LeastNumber
<1> DEFINE I == {i \in Nat : <<t, i>> \in K}
<1>2. PICK i \in I : \A j \in I : i <= j
  <2>1. PICK k \in K : k[1] = t
    BY <1>1
  <2>2. k = <<t, k[2]>> /\ k[2] \in Nat
    BY <2>1
  <2>3. I # {} /\ I \in SUBSET Nat
    BY <2>1, <2>2
  <2> HIDE DEF I
  <2> QED
    BY <2>3, LeastNumber
<1>3. <<t, i>> \in K
  BY <1>2
<1>4. ASSUME NEW o \in K \ {<<t, i>>} PROVE Lists!Above(o, <<t, i>>)
  <2>1. o[1] \in Nat /\ o[2] \in Nat /\ o = <<o[1], o[2]>> /\ t \in Nat /\ i \in Nat
    OBVIOUS
  <2>2. t <= o[1]
    BY <1>1, <2>1
  <2>3. o[1] = t => i <= o[2] /\ i # o[2]
    BY <1>2, <2>1
  <2> QED
    BY <2>1, <2>2, <2>3 DEF Lists!Above
<1> QED
  BY <1>3, <1>4

LEMMA ListsCardinality ==
  /\ \A S : Lists!IsFiniteSet(S) <=> IsFiniteSet(S)
  /\ \A S : Lists!Cardinality(S) = Cardinality(S)
  BY DEF Lists!IsFiniteSet, IsFiniteSet, Lists!Cardinality, Cardinality

LEMMA KeysAreNumbers ==
  ASSUME Lists!TypeOK
  PROVE  /\ IsFiniteSet(Polls) /\ Polls \subseteq Nat
         /\ \A p \in Polls : Lists!Key(p) \in Nat \X Polls /\ Lists!Key(p) \in Nat \X Nat
         /\ \A p \in Polls : Lists!Key(p)[2] = p
         /\ walk.rows \subseteq Nat \X Nat
         /\ walk.cursor # None => walk.cursor \in Nat \X Nat
         /\ \A a \in listed : a.key \in Nat \X Nat
<1>1. IsFiniteSet(Polls) /\ Polls \subseteq Nat
  BY ListsAssumption, ListsCardinality DEF Lists!ListsAssumption
<1>2. \A p \in Polls : polls[p].at \in Nat
  BY DEF Lists!TypeOK
<1>3. \A p \in Polls : Lists!Key(p) = <<polls[p].at, p>>
  BY DEF Lists!Key
<1>4. walk.rows \in SUBSET (Nat \X Polls) /\ walk.cursor \in (Nat \X Polls) \cup {None}
  BY DEF Lists!TypeOK
<1>5. \A a \in listed : a.key \in Nat \X Polls
  BY DEF Lists!TypeOK
<1>6. Nat \X Polls \subseteq Nat \X Nat
  BY <1>1
<1>7. /\ walk.rows \subseteq Nat \X Nat
      /\ walk.cursor # None => walk.cursor \in Nat \X Nat
      /\ \A a \in listed : a.key \in Nat \X Nat
  <2> DEFINE A == Nat \X Polls
             B == Nat \X Nat
  <2>1. A \subseteq B
    BY <1>6
  <2>2. walk.rows \in SUBSET A /\ walk.cursor \in A \cup {None} /\ \A a \in listed : a.key \in A
    BY <1>4, <1>5
  <2> HIDE DEF A, B
  <2>3. walk.rows \subseteq B /\ (walk.cursor # None => walk.cursor \in B) /\ \A a \in listed : a.key \in B
    BY <2>1, <2>2
  <2> QED
    BY <2>3 DEF B
<1>8. ASSUME NEW p \in Polls
      PROVE  Lists!Key(p) \in Nat \X Polls /\ Lists!Key(p) \in Nat \X Nat /\ Lists!Key(p)[2] = p
  <2>1. Lists!Key(p) = <<polls[p].at, p>> /\ polls[p].at \in Nat /\ p \in Nat
    BY <1>1, <1>2, <1>3
  <2> QED
    BY <2>1
<1> QED
  BY <1>1, <1>7, <1>8

\* LIMIT takes the first rows, and of one row more there are more if it left any.
LEMMA LimitedRows ==
  ASSUME Lists!TypeOK, NEW rows \in SUBSET Polls, NEW limit \in Nat \ {0}
  PROVE  LET first == Lists!FirstOf(rows, limit)
             more == Cardinality(Lists!FirstOf(rows, limit + 1)) > limit IN
         /\ first \subseteq rows
         /\ \A p \in first, q \in rows \ first : Lists!Above(Lists!Key(p), Lists!Key(q))
         /\ more \/ first = rows
         /\ more => first # {}
<1> DEFINE above(p) == {q \in rows : Lists!Above(Lists!Key(q), Lists!Key(p))}
           first == Lists!FirstOf(rows, limit)
           oneMore == Lists!FirstOf(rows, limit + 1)
<1>1. IsFiniteSet(rows) /\ \A p \in rows : Lists!Key(p) \in Nat \X Nat /\ Lists!Key(p)[2] = p
  BY KeysAreNumbers, SubsetCardinality
<1>2. ASSUME NEW p \in rows
      PROVE  /\ Cardinality(above(p)) \in Nat /\ IsFiniteSet(above(p)) /\ p \notin above(p)
             /\ above(p) \in SUBSET rows
  <2>1. above(p) \in SUBSET rows
    OBVIOUS
  <2> QED
    BY <1>1, <2>1, SubsetCardinality, AboveIsOrder
<1>3. ASSUME NEW p \in rows, NEW q \in above(p)
      PROVE  Cardinality(above(q)) < Cardinality(above(p))
  <2>1. above(q) \in SUBSET above(p) /\ above(q) # above(p)
    BY <1>1, AboveIsOrder
  <2> QED
    BY <1>2, <2>1, SubsetCardinality
<1>4. /\ first = {p \in rows : Cardinality(above(p)) < limit}
      /\ oneMore = {p \in rows : Cardinality(above(p)) < limit + 1}
  BY ListsCardinality DEF Lists!FirstOf
<1> HIDE DEF above, first, oneMore
<1>5. ASSUME NEW p \in first, NEW q \in rows \ first
      PROVE  Lists!Above(Lists!Key(p), Lists!Key(q))
  <2>1. p \in rows /\ q \in rows /\ Cardinality(above(p)) < limit /\ ~ Cardinality(above(q)) < limit
    BY <1>4
  <2>2. q \notin above(p) /\ p # q
    BY <1>2, <1>3, <2>1
  <2>3. Lists!Key(p) # Lists!Key(q)
    BY <1>1, <2>1, <2>2
  <2> QED
    BY <1>1, <2>1, <2>2, <2>3, AboveIsOrder DEF above
<1>6. ASSUME NEW T \in SUBSET rows, T # {}
      PROVE  \E p \in T : \A q \in T : Cardinality(above(p)) <= Cardinality(above(q))
  <2> DEFINE C == {n \in Nat : \E p \in T : Cardinality(above(p)) = n}
  <2>1. C \in SUBSET Nat /\ C # {}
    BY <1>2, <1>6
  <2>2. PICK n \in C : \A m \in C : n <= m
    <3> HIDE DEF C
    <3> QED
      BY <2>1, LeastNumber
  <2> QED
    BY <1>2, <2>2
<1>7. ASSUME first # rows PROVE Cardinality(oneMore) > limit
  <2>1. rows \ first \in SUBSET rows /\ rows \ first # {}
    BY <1>4, <1>7
  <2>2. PICK p \in rows \ first : \A q \in rows \ first : Cardinality(above(p)) <= Cardinality(above(q))
    BY <1>6, <2>1
  <2>3. above(p) \subseteq first /\ Cardinality(above(p)) >= limit
    <3>1. p \in rows /\ above(p) \subseteq rows
      BY <1>2
    <3>2. \A q \in above(p) : q \in first
      BY <1>2, <1>3, <2>2, <3>1
    <3> QED
      BY <1>2, <1>4, <2>2, <3>1, <3>2
  <2>4. first \subseteq oneMore /\ IsFiniteSet(oneMore) /\ Cardinality(oneMore) \in Nat
    <3>1. oneMore \in SUBSET rows
      BY <1>4
    <3> QED
      BY <1>1, <1>2, <1>4, <3>1, SubsetCardinality
  <2>5. CASE Cardinality(above(p)) > limit
    <3>1. above(p) \in SUBSET oneMore
      BY <2>3, <2>4
    <3> QED
      BY <1>2, <2>4, <2>5, <3>1, SubsetCardinality
  <2>6. CASE Cardinality(above(p)) = limit
    <3>1. above(p) \in SUBSET oneMore /\ p \in oneMore /\ above(p) # oneMore
      BY <1>2, <1>4, <2>3, <2>4, <2>6
    <3> QED
      BY <2>4, <2>6, <3>1, SubsetCardinality
  <2> QED
    BY <1>2, <2>3, <2>5, <2>6
<1>8. ASSUME Cardinality(oneMore) > limit PROVE first # {}
  <2>1. rows # {}
    <3>1. rows = {} => oneMore = {}
      BY <1>4
    <3> QED
      BY <1>8, <3>1, FS_EmptySet
  <2>2. PICK p \in rows : \A q \in rows : Cardinality(above(p)) <= Cardinality(above(q))
    BY <1>6, <2>1
  <2>3. above(p) = {}
    <3>1. above(p) \subseteq rows
      BY <1>2
    <3> QED
      BY <1>2, <1>3, <2>2, <3>1
  <2> QED
    BY <1>4, <2>3, FS_EmptySet, SMTT(30)
<1> QED
  BY <1>4, <1>5, <1>7, <1>8 DEF first, oneMore

LEMMA ListsInit == Lists!Init => ListsInv
  BY ListsAssumption
  DEF Lists!Init, ListsInv, Lists!TypeOK, Lists!ListsAssumption, Lists!NoPoll, Lists!There, ShownSoFar,
      RowsRead, SteadyReached, Lists!PagesDescend, Lists!ItemsAreWhole

LEMMA ListsTypeStep ==
  ASSUME ListsInv, Lists!Next
  PROVE  Lists!TypeOK'
<1> USE DEF Lists!TypeOK
<1>1. Lists!TypeOK
  BY DEF ListsInv
<1>2. /\ Limits \subseteq Nat /\ Filters \subseteq SUBSET Tags /\ MaxTime \in Nat /\ MaxChanges \in Nat
      /\ Microsecond \in Nat \ {0}
  BY ListsAssumption DEF Lists!ListsAssumption
<1>3. CASE Lists!Tick
  BY <1>1, <1>2, <1>3 DEF Lists!Tick
<1>4. ASSUME NEW p \in Polls, Lists!BeginCreate(p) PROVE Lists!TypeOK'
  <2>1. clock \div Microsecond \in Nat
    BY <1>1, <1>2
  <2>2. polls' = [polls EXCEPT ![p] = [polls[p] EXCEPT !.stage = "begun", !.at = clock \div Microsecond]]
    BY <1>1, <1>4 DEF Lists!BeginCreate
  <2> QED
    BY <1>1, <1>4, <2>1, <2>2 DEF Lists!BeginCreate
<1>5. ASSUME NEW p \in Polls, Lists!CreatePoll(p) PROVE Lists!TypeOK'
  <2>1. PICK T \in SUBSET Tags :
          polls' = [polls EXCEPT ![p] =
                      [stage |-> "there", at |-> polls[p].at, tags |-> T, options |-> TRUE]]
    BY <1>1, <1>5 DEF Lists!CreatePoll
  <2>2. [stage |-> "there", at |-> polls[p].at, tags |-> T, options |-> TRUE]
          \in [stage : {"new", "begun", "there", "gone"}, at : Nat, tags : SUBSET Tags, options : BOOLEAN]
    BY <1>1
  <2> DEFINE new == [stage |-> "there", at |-> polls[p].at, tags |-> T, options |-> TRUE]
  <2> HIDE DEF new
  <2>3. polls' = [polls EXCEPT ![p] = new]
    BY <2>1 DEF new
  <2>4. new \in [stage : {"new", "begun", "there", "gone"}, at : Nat, tags : SUBSET Tags, options : BOOLEAN]
    BY <2>2 DEF new
  <2>5. polls' \in [Polls -> [stage : {"new", "begun", "there", "gone"}, at : Nat, tags : SUBSET Tags,
                              options : BOOLEAN]]
    BY <1>1, <2>3, <2>4
  <2>6. UNCHANGED <<clock, pollChanges, walk, listed, steadyPolls, changed>>
    BY <1>5 DEF Lists!CreatePoll
  <2> QED
    BY <1>1, <2>5, <2>6
<1>6. ASSUME NEW p \in Polls, Lists!DeletePoll(p) PROVE Lists!TypeOK'
  <2> DEFINE new == [Lists!NoPoll EXCEPT !.stage = "gone"]
  <2>1. new \in [stage : {"new", "begun", "there", "gone"}, at : Nat, tags : SUBSET Tags, options : BOOLEAN]
    BY DEF Lists!NoPoll
  <2>2. polls' = [polls EXCEPT ![p] = new]
    BY <1>6 DEF Lists!DeletePoll
  <2> HIDE DEF new
  <2>3. polls' \in [Polls -> [stage : {"new", "begun", "there", "gone"}, at : Nat, tags : SUBSET Tags,
                              options : BOOLEAN]]
    BY <1>1, <2>1, <2>2
  <2>4. /\ pollChanges' \in 0 .. MaxChanges /\ changed' \subseteq Polls /\ steadyPolls' \subseteq Polls
        /\ UNCHANGED <<clock, walk, listed>>
    BY <1>1, <1>2, <1>6 DEF Lists!DeletePoll, Lists!Changes
  <2> QED
    BY <1>1, <2>3, <2>4
<1>7. ASSUME NEW p \in Polls, Lists!ReplaceTags(p) PROVE Lists!TypeOK'
  BY <1>1, <1>2, <1>7 DEF Lists!ReplaceTags, Lists!Changes
<1>8. ASSUME NEW filter \in Filters, NEW limit \in Limits, Lists!Walk(filter, limit) PROVE Lists!TypeOK'
  BY <1>1, <1>2, <1>8 DEF Lists!Walk, Lists!Wanted, Lists!There
<1>9. CASE Lists!List
  <2>1. PICK rows \in SUBSET (Nat \X Polls), more \in BOOLEAN :
          walk' = [walk EXCEPT !.stage = "options", !.rows = rows, !.more = more]
    <3>1. \A T \in SUBSET Polls : {Lists!Key(p) : p \in T} \in SUBSET (Nat \X Polls)
      BY <1>1, KeysAreNumbers
    <3>2. \A S, n : S \subseteq Polls => Lists!FirstOf(S, n) \in SUBSET Polls
      BY DEF Lists!FirstOf
    <3>3. \A f, c : {p \in Lists!Wanted(f) : Lists!Past(p, c)} \subseteq Polls
      BY DEF Lists!Wanted, Lists!There
    <3> DEFINE past == {p \in Lists!Wanted(walk.filter) : Lists!Past(p, walk.cursor)}
               first == Lists!FirstOf(past, Lists!ListLimit(walk.limit))
               more == Lists!Cardinality(Lists!FirstOf(past, Lists!ListLimit(walk.limit) + 1))
                         > Lists!ListLimit(walk.limit)
    <3>4. walk' = [walk EXCEPT !.stage = "options", !.rows = {Lists!Key(p) : p \in first}, !.more = more]
      BY <1>9 DEF Lists!List
    <3>5. first \in SUBSET Polls /\ more \in BOOLEAN
      BY <3>2, <3>3
    <3> HIDE DEF first, more
    <3>6. {Lists!Key(p) : p \in first} \in SUBSET (Nat \X Polls)
      BY <3>1, <3>5
    <3> QED
      BY <3>4, <3>5, <3>6
  <2> QED
    BY <1>1, <1>9, <2>1 DEF Lists!List
<1>10. CASE Lists!GetOptions
  BY <1>1, <1>10 DEF Lists!GetOptions
<1>11. CASE Lists!GetTags
  <2>1. Lists!NextCursor \in (Nat \X Polls) \cup {None}
    <3>1. CASE walk.more
      <4>1. walk.rows \subseteq Nat \X Nat /\ walk.rows # {}
        BY <1>1, <1>11, <3>1, KeysAreNumbers DEF Lists!GetTags, ListsInv, RowsRead
      <4>2. \E k \in walk.rows : \A o \in walk.rows \ {k} : Lists!Above(o, k)
        BY <4>1, LowestKey
      <4>3. Lists!NextCursor \in walk.rows
        BY <3>1, <4>2 DEF Lists!NextCursor
      <4> QED
        BY <1>1, <4>3
    <3>2. CASE ~ walk.more
      BY <3>2 DEF Lists!NextCursor
    <3> QED
      BY <3>1, <3>2
  <2>2. {[page |-> walk.page, key |-> k, options |-> k[2] \in walk.options,
          tags |-> Lists!TagsOf(k)] : k \in walk.rows}
          \subseteq [page : Nat, key : Nat \X Polls, options : BOOLEAN, tags : SUBSET Tags]
    <3>1. \A k \in walk.rows : k \in Nat \X Polls /\ k[2] \in Polls
      BY <1>1
    <3>2. \A k \in walk.rows : Lists!TagsOf(k) \in SUBSET Tags
      BY <1>1, <3>1 DEF Lists!TagsOf
    <3>3. walk.page \in Nat
      BY <1>1
    <3>4. ASSUME NEW k \in walk.rows
          PROVE  [page |-> walk.page, key |-> k, options |-> k[2] \in walk.options, tags |-> Lists!TagsOf(k)]
                   \in [page : Nat, key : Nat \X Polls, options : BOOLEAN, tags : SUBSET Tags]
      BY <3>1, <3>2, <3>3
    <3> QED
      BY <3>4
  <2>3. listed' \subseteq [page : Nat, key : Nat \X Polls, options : BOOLEAN, tags : SUBSET Tags]
    BY <1>1, <1>11, <2>2 DEF Lists!GetTags
  <2>4. walk' = [walk EXCEPT !.stage = IF walk.more THEN "polls" ELSE "done", !.page = walk.page + 1,
                   !.cursor = Lists!NextCursor, !.rows = {}, !.options = {}]
    BY <1>1, <1>11 DEF Lists!GetTags
  <2>5. walk' \in [stage : {"none", "polls", "options", "tags", "done"}, filter : SUBSET Tags,
                    limit : Nat, page : Nat, cursor : (Nat \X Polls) \cup {None},
                    rows : SUBSET (Nat \X Polls), more : BOOLEAN, options : SUBSET Polls]
    <3>1. (IF walk.more THEN "polls" ELSE "done") \in {"none", "polls", "options", "tags", "done"}
          /\ walk.page + 1 \in Nat
      BY <1>1
    <3> DEFINE stage == IF walk.more THEN "polls" ELSE "done"
               page == walk.page + 1
               cursor == Lists!NextCursor
    <3> HIDE DEF stage, page, cursor
    <3>2. walk' =
            [walk EXCEPT !.stage = stage, !.page = page, !.cursor = cursor, !.rows = {}, !.options = {}]
      BY <2>4 DEF stage, page, cursor
    <3>3. /\ stage \in {"none", "polls", "options", "tags", "done"} /\ page \in Nat
          /\ cursor \in (Nat \X Polls) \cup {None}
      BY <2>1, <3>1 DEF stage, page, cursor
    <3> QED
      BY <1>1, <3>2, <3>3
  <2> QED
    BY <1>1, <1>11, <2>3, <2>5 DEF Lists!GetTags
<1> QED
  BY <1>3, <1>4, <1>5, <1>6, <1>7, <1>8, <1>9, <1>10, <1>11 DEF Lists!Next

\* What happens to polls beside the walk keeps what stays, and marks what does not.
LEMMA PollsChange ==
  ASSUME ListsInv, Lists!TypeOK', UNCHANGED <<walk, listed>>,
         changed \subseteq changed', steadyPolls' \subseteq steadyPolls,
         \A p \in Lists!There' : polls'[p].options,
         \A p \in steadyPolls' : Lists!Key(p)' = Lists!Key(p) /\ p \in Lists!Wanted(walk.filter)',
         \A p \in Lists!Wanted(walk.filter) \ changed' : p \in Lists!Wanted(walk.filter)'
  PROVE  ListsInv'
<1> USE DEF ListsInv
<1>1. ShownSoFar'
  BY DEF ShownSoFar, Lists!Above
<1>2. \A k : Beyond(k)' <=> Beyond(k)
  BY DEF Beyond, Lists!Above
<1>3. RowsRead'
  <2>1. walk'.filter = walk.filter
    OBVIOUS
  <2>2. ASSUME NEW k \in walk.rows, walk.stage \in {"options", "tags"}, k[2] \notin changed'
        PROVE  k[2] \in Lists!Wanted(walk.filter)' /\ (walk.stage = "tags" => k[2] \in walk.options)
    BY <2>2 DEF RowsRead
  <2> QED
    BY <1>2, <2>1, <2>2 DEF RowsRead
<1>4. SteadyReached'
  BY <1>2 DEF SteadyReached, Lists!Above
<1>5. Lists!PagesDescend' /\ Lists!ItemsAreWhole'
  BY DEF Lists!PagesDescend, Lists!ItemsAreWhole, Lists!Above
<1> QED
  BY <1>1, <1>3, <1>4, <1>5

LEMMA ListsPolls ==
  ASSUME ListsInv,
         \/ Lists!Tick
         \/ \E p \in Polls : \/ Lists!BeginCreate(p) \/ Lists!CreatePoll(p)
                             \/ Lists!DeletePoll(p) \/ Lists!ReplaceTags(p)
  PROVE  ListsInv'
<1>1. Lists!TypeOK /\ Lists!TypeOK'
  BY ListsTypeStep DEF ListsInv, Lists!Next
<1>2. \A p \in steadyPolls : p \in Lists!Wanted(walk.filter)
  BY DEF ListsInv, SteadyReached
<1>3. \A p \in Lists!There : polls[p].options
  BY DEF ListsInv
<1>4. CASE Lists!Tick
  BY <1>1, <1>2, <1>3, <1>4, PollsChange
  DEF Lists!Tick, Lists!There, Lists!Wanted, Lists!Key
<1>5. ASSUME NEW p \in Polls, Lists!BeginCreate(p) PROVE ListsInv'
  <2>1. p \notin Lists!There /\ \A q \in Polls \ {p} : polls'[q] = polls[q]
    BY <1>1, <1>5 DEF Lists!BeginCreate, Lists!There, Lists!TypeOK
  <2>2. polls'[p].stage = "begun"
    BY <1>1, <1>5 DEF Lists!BeginCreate, Lists!TypeOK
  <2> QED
    BY <1>1, <1>2, <1>3, <1>5, <2>1, <2>2, PollsChange, ZenonT(30)
    DEF Lists!BeginCreate, Lists!There, Lists!Wanted, Lists!Key
<1>6. ASSUME NEW p \in Polls, Lists!CreatePoll(p) PROVE ListsInv'
  <2>1. p \notin Lists!There /\ \A q \in Polls \ {p} : polls'[q] = polls[q]
    BY <1>1, <1>6 DEF Lists!CreatePoll, Lists!There, Lists!TypeOK
  <2>2. polls'[p].options
    BY <1>1, <1>6 DEF Lists!CreatePoll, Lists!TypeOK
  <2> QED
    BY <1>1, <1>2, <1>3, <1>6, <2>1, <2>2, PollsChange
    DEF Lists!CreatePoll, Lists!There, Lists!Wanted, Lists!Key
<1>7. ASSUME NEW p \in Polls, Lists!DeletePoll(p) PROVE ListsInv'
  BY <1>1, <1>2, <1>3, <1>7, PollsChange
  DEF Lists!DeletePoll, Lists!Changes, Lists!NoPoll, Lists!There, Lists!Wanted, Lists!Key, Lists!TypeOK
<1>8. ASSUME NEW p \in Polls, Lists!ReplaceTags(p) PROVE ListsInv'
  BY <1>1, <1>2, <1>3, <1>8, PollsChange
  DEF Lists!ReplaceTags, Lists!Changes, Lists!There, Lists!Wanted, Lists!Key, Lists!TypeOK
<1> QED
  BY <1>4, <1>5, <1>6, <1>7, <1>8

LEMMA ListsWalk ==
  ASSUME ListsInv, Lists!TypeOK', NEW filter \in Filters, NEW limit \in Limits, Lists!Walk(filter, limit)
  PROVE  ListsInv'
<1> USE DEF ListsInv
<1>1. /\ walk' = [walk EXCEPT !.stage = "polls", !.filter = filter, !.limit = limit]
      /\ walk.stage = "none" /\ steadyPolls' = Lists!Wanted(filter) /\ changed' = {}
      /\ UNCHANGED <<polls, listed>>
  BY DEF Lists!Walk
<1>2. listed = {} /\ walk.cursor = None
  BY <1>1
<1>3. walk'.stage = "polls" /\ walk'.filter = filter /\ walk'.cursor = None
  BY <1>1, <1>2 DEF Lists!TypeOK
<1>4. ShownSoFar' /\ RowsRead' /\ Lists!PagesDescend' /\ Lists!ItemsAreWhole'
  BY <1>1, <1>2, <1>3 DEF ShownSoFar, RowsRead, Lists!PagesDescend, Lists!ItemsAreWhole
<1>5. SteadyReached'
  <2>1. Lists!Wanted(filter)' = Lists!Wanted(filter)
    BY <1>1 DEF Lists!Wanted, Lists!There
  <2> QED
    BY <1>1, <1>3, <2>1 DEF SteadyReached, Beyond
<1> QED
  BY <1>1, <1>3, <1>4, <1>5 DEF Lists!There

\* The query for a page brings what stays and is beyond the cursor, or as many
\* rows above it as the page holds.
LEMMA ListsList ==
  ASSUME ListsInv, Lists!TypeOK', Lists!List
  PROVE  ListsInv'
<1> USE DEF ListsInv
<1> DEFINE limit == Lists!ListLimit(walk.limit)
           past == {p \in Lists!Wanted(walk.filter) : Lists!Past(p, walk.cursor)}
           first == Lists!FirstOf(past, limit)
           more == Cardinality(Lists!FirstOf(past, limit + 1)) > limit
           rows == {Lists!Key(p) : p \in first}
<1>1. /\ walk' = [walk EXCEPT !.stage = "options", !.rows = rows, !.more = more]
      /\ walk.stage = "polls" /\ UNCHANGED <<polls, listed, steadyPolls, changed>>
  BY ListsCardinality DEF Lists!List
<1>2. limit \in Nat \ {0}
  BY ListsAssumption DEF Lists!ListLimit, Lists!ListsAssumption, Lists!TypeOK
<1>3. past \in SUBSET Polls
  BY DEF Lists!Wanted, Lists!There
<1>4. /\ first \subseteq past
      /\ \A p \in first, q \in past \ first : Lists!Above(Lists!Key(p), Lists!Key(q))
      /\ more \/ first = past
      /\ more => first # {}
  <2> HIDE DEF past, limit
  <2> QED
    BY <1>2, <1>3, LimitedRows
<1>5. \A p \in past : p \in Lists!Wanted(walk.filter) /\ Beyond(Lists!Key(p))
  BY DEF Lists!Past, Beyond
<1>6. \A p \in Lists!Wanted(walk.filter) : Beyond(Lists!Key(p)) => p \in past
  BY DEF Lists!Past, Beyond
<1> HIDE DEF past, limit, first, more
<1>7. \A k \in rows : \E p \in past : p \in first /\ k = Lists!Key(p) /\ k[2] = p /\ p \in Polls
  BY <1>3, <1>4, KeysAreNumbers
<1>8. more => rows # {}
  BY <1>4
<1> HIDE DEF rows
<1>9. walk'.stage = "options" /\ walk'.rows = rows /\ (walk'.more <=> more)
      /\ walk'.filter = walk.filter /\ walk'.cursor = walk.cursor /\ walk'.page = walk.page
  BY <1>1 DEF Lists!TypeOK
<1>10. /\ \A k : Beyond(k)' <=> Beyond(k)
       /\ Lists!Wanted(walk.filter)' = Lists!Wanted(walk.filter)
       /\ \A p : Lists!Key(p)' = Lists!Key(p)
  BY <1>1, <1>9 DEF Beyond, Lists!Above, Lists!Wanted, Lists!There, Lists!Key
<1>11. ShownSoFar' /\ Lists!PagesDescend' /\ Lists!ItemsAreWhole'
  BY <1>1, <1>9 DEF ShownSoFar, Lists!PagesDescend, Lists!ItemsAreWhole, Lists!Above
<1>12. RowsRead'
  BY <1>1, <1>5, <1>7, <1>8, <1>9, <1>10 DEF RowsRead
<1>13. SteadyReached'
  <2>1. ASSUME NEW p \in steadyPolls, Beyond(Lists!Key(p))
        PROVE  Lists!Key(p) \in rows \/ (more /\ \A o \in rows : Lists!Above(o, Lists!Key(p)))
    <3>1. p \in past
      BY <1>6, <2>1 DEF SteadyReached
    <3>2. CASE p \in first
      BY <3>2 DEF rows
    <3>3. CASE p \notin first
      BY <1>4, <1>7, <3>1, <3>3
    <3> QED
      BY <3>2, <3>3
  <2>2. ASSUME NEW p \in steadyPolls
        PROVE  /\ p \in Lists!Wanted(walk.filter)
               /\ Beyond(Lists!Key(p)) \/ \E a \in listed : a.key = Lists!Key(p)
    BY <1>1, <2>2 DEF SteadyReached
  <2>3. \A o, k : Lists!Above(o, k)' <=> Lists!Above(o, k)
    BY DEF Lists!Above
  <2> QED
    BY <1>1, <1>9, <1>10, <2>1, <2>2, <2>3 DEF SteadyReached
<1> QED
  BY <1>1, <1>9, <1>11, <1>12, <1>13 DEF Lists!There

LEMMA ListsGetOptions ==
  ASSUME ListsInv, Lists!TypeOK', Lists!GetOptions
  PROVE  ListsInv'
<1> USE DEF ListsInv
<1> DEFINE options == {p \in Polls : polls[p].options}
<1>1. /\ walk' = [walk EXCEPT !.stage = "tags", !.options = options]
      /\ walk.stage = "options" /\ UNCHANGED <<polls, listed, steadyPolls, changed>>
  BY DEF Lists!GetOptions
<1>2. \A p \in Lists!Wanted(walk.filter) : p \in options
  BY DEF Lists!Wanted, Lists!There
<1> HIDE DEF options
<1>3. walk'.stage = "tags" /\ walk'.rows = walk.rows /\ walk'.more = walk.more /\ walk'.options = options
      /\ walk'.filter = walk.filter /\ walk'.cursor = walk.cursor /\ walk'.page = walk.page
  BY <1>1 DEF Lists!TypeOK
<1>4. /\ \A k : Beyond(k)' <=> Beyond(k)
      /\ Lists!Wanted(walk.filter)' = Lists!Wanted(walk.filter)
      /\ \A p : Lists!Key(p)' = Lists!Key(p)
      /\ \A o, k : Lists!Above(o, k)' <=> Lists!Above(o, k)
  BY <1>1, <1>3 DEF Beyond, Lists!Above, Lists!Wanted, Lists!There, Lists!Key
<1>5. ShownSoFar' /\ Lists!PagesDescend' /\ Lists!ItemsAreWhole'
  BY <1>1, <1>3, <1>4 DEF ShownSoFar, Lists!PagesDescend, Lists!ItemsAreWhole
<1>6. RowsRead'
  BY <1>1, <1>2, <1>3, <1>4 DEF RowsRead
<1>7. SteadyReached'
  BY <1>1, <1>3, <1>4 DEF SteadyReached
<1> QED
  BY <1>1, <1>3, <1>5, <1>6, <1>7 DEF Lists!There

\* The answer shows the rows, and the next cursor is the last of them.
LEMMA ListsGetTags ==
  ASSUME ListsInv, Lists!TypeOK', Lists!GetTags
  PROVE  ListsInv'
<1> USE DEF ListsInv
<1> DEFINE answer == {[page |-> walk.page, key |-> k, options |-> k[2] \in walk.options,
                       tags |-> Lists!TagsOf(k)] : k \in walk.rows}
           next == Lists!NextCursor
<1>1. /\ listed' = listed \cup answer /\ walk.stage = "tags"
      /\ walk' = [walk EXCEPT !.stage = IF walk.more THEN "polls" ELSE "done", !.page = walk.page + 1,
                   !.cursor = next, !.rows = {}, !.options = {}]
      /\ UNCHANGED <<polls, steadyPolls, changed>>
  BY DEF Lists!GetTags
<1>2. /\ \A k \in walk.rows : \E a \in answer : a.key = k
      /\ \A a \in answer : /\ a.key \in walk.rows /\ a.page = walk.page
                           /\ a.options <=> a.key[2] \in walk.options
                           /\ a.tags = polls[a.key[2]].tags
  <2>1. ASSUME NEW k \in walk.rows
        PROVE  [page |-> walk.page, key |-> k, options |-> k[2] \in walk.options, tags |-> Lists!TagsOf(k)] \in answer
    OBVIOUS
  <2>2. ASSUME NEW a \in answer
        PROVE  /\ a.key \in walk.rows /\ a.page = walk.page
               /\ a.options <=> a.key[2] \in walk.options
               /\ a.tags = polls[a.key[2]].tags
    <3>1. PICK k \in walk.rows : a = [page |-> walk.page, key |-> k, options |-> k[2] \in walk.options,
                                     tags |-> Lists!TagsOf(k)]
      OBVIOUS
    <3>2. a.key = k /\ a.page = walk.page /\ a.options = (k[2] \in walk.options) /\ a.tags = Lists!TagsOf(k)
      BY <3>1
    <3> QED
      BY <3>2 DEF Lists!TagsOf
  <2> QED
    BY <2>1, <2>2
<1>3. /\ ~ walk.more => next = None
      /\ walk.more => /\ next \in walk.rows /\ next # None
                      /\ \A o \in walk.rows : o = next \/ Lists!Above(o, next)
  <2>1. CASE walk.more
    <3>1. walk.rows \in SUBSET (Nat \X Nat) /\ walk.rows # {}
      BY <1>1, <2>1, KeysAreNumbers DEF RowsRead
    <3>2. \E k \in walk.rows : \A o \in walk.rows \ {k} : Lists!Above(o, k)
      BY <3>1, LowestKey
    <3>3. next \in walk.rows /\ \A o \in walk.rows \ {next} : Lists!Above(o, next)
      BY <2>1, <3>2 DEF Lists!NextCursor
    <3> QED
      BY <2>1, <3>1, <3>3, ListsAssumption DEF Lists!ListsAssumption
  <2>2. CASE ~ walk.more
    BY <2>2 DEF Lists!NextCursor
  <2> QED
    BY <2>1, <2>2
<1> HIDE DEF answer, next
<1>4. /\ walk'.stage = (IF walk.more THEN "polls" ELSE "done") /\ walk'.page = walk.page + 1
      /\ walk'.cursor = next /\ walk'.filter = walk.filter /\ walk.page \in Nat
  BY <1>1 DEF Lists!TypeOK
<1>5. /\ Lists!Wanted(walk.filter)' = Lists!Wanted(walk.filter)
      /\ \A p : Lists!Key(p)' = Lists!Key(p)
      /\ \A o, k : Lists!Above(o, k)' <=> Lists!Above(o, k)
  BY <1>1, <1>4 DEF Lists!Above, Lists!Wanted, Lists!There, Lists!Key
<1>6. /\ \A k \in walk.rows : k \in Nat \X Nat
      /\ walk.cursor # None => walk.cursor \in Nat \X Nat
      /\ \A a \in listed : a.key \in Nat \X Nat
      /\ \A p \in Polls : Lists!Key(p) \in Nat \X Nat
  BY KeysAreNumbers
\* What was shown before lies above the rows.
<1>7. \A a \in listed, k \in walk.rows : Lists!Above(a.key, k)
  <2>1. SUFFICES ASSUME NEW a \in listed, NEW k \in walk.rows PROVE Lists!Above(a.key, k)
    OBVIOUS
  <2>2. walk.cursor # None /\ (a.key = walk.cursor \/ Lists!Above(a.key, walk.cursor))
    BY <1>1 DEF ShownSoFar
  <2>3. Lists!Above(walk.cursor, k)
    BY <1>1, <2>2 DEF RowsRead, Beyond
  <2> QED
    BY <1>6, <2>2, <2>3, AboveIsOrder
<1>8. ShownSoFar'
  <2>1. ASSUME NEW a \in listed' PROVE a.page < walk'.page
    <3>1. a \in listed => a.page \in Nat /\ a.page < walk.page
      BY <2>1 DEF ShownSoFar, Lists!TypeOK
    <3> QED
      BY <1>1, <1>2, <1>4, <2>1, <3>1
  <2>2. ASSUME NEW a \in listed', walk.more
        PROVE  walk'.cursor # None /\ (a.key = walk'.cursor \/ Lists!Above(a.key, walk'.cursor))
    BY <1>1, <1>2, <1>3, <1>4, <1>7, <2>2
  <2> QED
    BY <1>4, <1>5, <2>1, <2>2 DEF ShownSoFar
<1>9. RowsRead'
  BY <1>4 DEF RowsRead
<1>10. SteadyReached'
  <2>1. SUFFICES ASSUME NEW p \in steadyPolls
                 PROVE  LET k == Lists!Key(p)
                            wasShown == \E a \in listed' : a.key = k IN
                        /\ p \in Lists!Wanted(walk.filter)
                        /\ walk.more => (walk'.cursor = None \/ Lists!Above(walk'.cursor, k)) \/ wasShown
                        /\ ~ walk.more => wasShown
    BY <1>1, <1>4, <1>5 DEF SteadyReached, Beyond
  <2> DEFINE k == Lists!Key(p)
  <2>2. p \in Lists!Wanted(walk.filter) /\ p \in Polls
    BY DEF SteadyReached, Lists!TypeOK
  <2>3. CASE \E a \in listed : a.key = k
    BY <1>1, <2>2, <2>3
  <2>4. CASE Beyond(k) /\ k \in walk.rows
    BY <1>1, <1>2, <2>2, <2>4
  <2>5. CASE Beyond(k) /\ walk.more /\ \A o \in walk.rows : Lists!Above(o, k)
    BY <1>3, <1>4, <2>2, <2>5
  <2> QED
    BY <1>1, <2>3, <2>4, <2>5 DEF SteadyReached
<1>11. Lists!PagesDescend'
  <2>1. SUFFICES ASSUME NEW a \in listed', NEW b \in listed', a.page < b.page
                 PROVE  Lists!Above(a.key, b.key)
    BY <1>5 DEF Lists!PagesDescend
  <2>2. \A c \in listed : c.page \in Nat /\ c.page < walk.page
    BY DEF ShownSoFar, Lists!TypeOK
  <2>3. CASE a \in listed /\ b \in listed
    BY <2>1, <2>3 DEF Lists!PagesDescend
  <2>4. CASE a \in listed /\ b \in answer
    BY <1>2, <1>7, <2>4
  <2>5. CASE a \in answer
    BY <1>1, <1>2, <1>4, <2>1, <2>2, <2>5
  <2> QED
    BY <1>1, <2>3, <2>4, <2>5
<1>12. Lists!ItemsAreWhole'
  <2>1. SUFFICES ASSUME NEW a \in listed'
                 PROVE  \/ a.key[2] \in changed
                        \/ a.options /\ (walk.filter = {} \/ a.tags \cap walk.filter # {})
    BY <1>1, <1>4 DEF Lists!ItemsAreWhole
  <2>2. CASE a \in listed
    BY <2>2 DEF Lists!ItemsAreWhole
  <2>3. CASE a \in answer
    <3>1. \/ a.key[2] \in changed
          \/ a.key[2] \in Lists!Wanted(walk.filter) /\ a.key[2] \in walk.options
      BY <1>1, <1>2, <2>3 DEF RowsRead
    <3> QED
      BY <1>2, <2>3, <3>1 DEF Lists!Wanted
  <2> QED
    BY <1>1, <2>2, <2>3
<1> QED
  BY <1>1, <1>4, <1>8, <1>9, <1>10, <1>11, <1>12 DEF Lists!There

LEMMA ListsInvStep == ListsInv /\ [Lists!Next]_listVars => ListsInv'
<1>1. SUFFICES ASSUME ListsInv, [Lists!Next]_listVars PROVE ListsInv'
  OBVIOUS
<1>2. CASE Lists!Next
  <2>1. Lists!TypeOK'
    BY <1>1, <1>2, ListsTypeStep
  <2> QED
    BY <1>1, <1>2, <2>1, ListsPolls, ListsWalk, ListsList, ListsGetOptions, ListsGetTags DEF Lists!Next
<1>3. CASE UNCHANGED listVars
  BY <1>1, <1>3
  DEF listVars, ListsInv, Lists!TypeOK, Lists!There, Lists!Wanted, Lists!Key, Lists!Above, ShownSoFar, RowsRead,
      Beyond, SteadyReached, Lists!PagesDescend, Lists!ItemsAreWhole
<1> QED
  BY <1>1, <1>2, <1>3

\* What holds of the list of polls, and of the caller on the way through it.
THEOREM ListsInvCorrect == Lists!Spec => []ListsInv
<1>1. ListsInv /\ [Lists!Next]_Lists!vars => ListsInv'
  BY ListsInvStep DEF Lists!vars, listVars
<1> QED
  BY <1>1, ListsInit, PTL DEF Lists!Spec

\* A walk through ListPolls to its end shows every poll that was there from its
\* beginning and kept a tag asked for, none twice, and each whole, though
\* polls are created, given other tags and deleted between its queries.
THEOREM SteadyPollsCorrect == Lists!Spec => []SteadyPollsOnce
<1>1. ListsInv => SteadyPollsOnce
  <2>1. ListsInv => Lists!SteadyPollsShown
    <3>1. SUFFICES ASSUME ListsInv, walk.stage = "done", NEW p \in steadyPolls
                   PROVE  \E a \in listed : a.key[2] = p
      BY DEF Lists!SteadyPollsShown
    <3>2. \E a \in listed : a.key = Lists!Key(p)
      BY <3>1 DEF ListsInv, SteadyReached
    <3>3. p \in Polls /\ Lists!TypeOK
      BY <3>1 DEF ListsInv, Lists!TypeOK
    <3> QED
      BY <3>2, <3>3, KeysAreNumbers
  <2> QED
    BY <2>1 DEF ListsInv, SteadyPollsOnce, Lists!SteadyPollsOnce
<1> QED
  BY <1>1, ListsInvCorrect, PTL

-----------------------------------------------------------------------------
(* A page of the fair feed is merged from two lists (FeedPages).             *)

LEMMA PagesConstants ==
  /\ DiscoverySlots \in Nat \ {0} /\ ChronologicalSlots \in Nat \ {0}
  /\ DefaultLimit \in Nat \ {0} /\ MaxLimit \in Nat \ {0} /\ N \in Nat
  /\ ExposureTarget \in Nat \ {0} /\ MaxChanges \in Nat /\ Limits \subseteq Nat
  BY PagesAssumption

LEMMA RoundLength ==
  /\ Len(Round) = DiscoverySlots + ChronologicalSlots
  /\ Len(Round) \in Nat \ {0}
  /\ \A t \in 0 .. Len(Round) - 1 : Round[1 + t] = IF t < DiscoverySlots THEN "d" ELSE "c"
<1> DEFINE n == DiscoverySlots + ChronologicalSlots
<1>1. n \in Nat \ {0}
  BY PagesConstants
<1>2. Round = [s \in 1 .. n |-> IF s <= DiscoverySlots THEN "d" ELSE "c"]
  BY DEF Round
<1> HIDE DEF n
<1>3. Round \in Seq({"d", "c"}) /\ Len(Round) = n
  BY <1>1, <1>2, IsASeq, LenProperties
<1> QED
  BY <1>1, <1>2, <1>3, PagesConstants DEF n

LEMMA DivMod ==
  ASSUME NEW r \in Nat \ {0}, NEW n \in Nat
  PROVE  /\ n \div r \in Nat /\ n % r \in 0 .. r - 1
         /\ n = r * (n \div r) + (n % r)
  OBVIOUS

LEMMA DivModUnique ==
  ASSUME NEW r \in Nat \ {0}, NEW n \in Nat, NEW q \in Nat, NEW t \in 0 .. r - 1, n = r * q + t
  PROVE  n \div r = q /\ n % r = t
<1> DEFINE a == n \div r
           b == n % r
<1>1. a \in Nat /\ b \in 0 .. r - 1 /\ n = r * a + b
  BY DivMod
<1> HIDE DEF a, b
<1>2. ASSUME NEW k \in Nat \ {0} PROVE r * k >= r
  BY <1>2
<1>3. CASE a < q
  <2>1. r * (q - a) >= r
    BY <1>1, <1>2, <1>3
  <2>2. r * q = r * a + r * (q - a)
    BY <1>1
  <2> QED
    BY <1>1, <2>1, <2>2
<1>4. CASE q < a
  <2>1. r * (a - q) >= r
    BY <1>1, <1>2, <1>4
  <2>2. r * a = r * q + r * (a - q)
    BY <1>1
  <2> QED
    BY <1>1, <2>1, <2>2
<1>5. CASE a = q
  BY <1>1, <1>5 DEF a, b
<1> QED
  BY <1>1, <1>3, <1>4, <1>5

LEMMA NextSlot ==
  ASSUME NEW r \in Nat \ {0}, NEW n \in Nat
  PROVE  IF n % r = r - 1
         THEN (n + 1) \div r = (n \div r) + 1 /\ (n + 1) % r = 0
         ELSE (n + 1) \div r = n \div r /\ (n + 1) % r = (n % r) + 1
<1> DEFINE q == n \div r
           t == n % r
<1>1. q \in Nat /\ t \in 0 .. r - 1 /\ n = r * q + t
  BY DivMod
<1> HIDE DEF q, t
<1>2. CASE t = r - 1
  <2>1. n + 1 = r * (q + 1) + 0
    BY <1>1, <1>2
  <2>2. (n + 1) \div r = q + 1 /\ (n + 1) % r = 0
    BY <1>1, <2>1, DivModUnique
  <2> QED
    BY <1>2, <2>2 DEF q, t
<1>3. CASE t # r - 1
  <2>1. n + 1 = r * q + (t + 1) /\ t + 1 \in 0 .. r - 1
    BY <1>1, <1>3
  <2>2. (n + 1) \div r = q /\ (n + 1) % r = t + 1
    BY <1>1, <2>1, DivModUnique
  <2> QED
    BY <1>3, <2>2 DEF q, t
<1> QED
  BY <1>2, <1>3

\* Of a round the slots from "first" to first + slots are the list's own: how
\* many of them are among its first t.
Own(slots, first, t) == IF t <= first THEN 0 ELSE IF t - first <= slots THEN t - first ELSE slots

LEMMA ShareValue ==
  ASSUME NEW slots \in Nat, NEW first \in Nat, NEW n \in Nat, NEW q \in Nat, NEW t \in Nat,
         n \div Len(Round) = q, n % Len(Round) = t
  PROVE  /\ Share(slots, first, n) = slots * q + Own(slots, first, t)
         /\ slots * q \in Nat /\ Own(slots, first, t) \in Nat
<1> DEFINE m == Min({slots, t - first})
<1>1. t - first \in Int
  OBVIOUS
<1>2. m = IF slots <= t - first THEN slots ELSE t - first
  BY <1>1, MinOfTwo
<1>3. m \in Int
  BY <1>1, <1>2
<1>4. Share(slots, first, n) = (slots * q) + Max({0, m})
  BY DEF Share
<1> HIDE DEF m
<1>5. Max({0, m}) = IF 0 <= m THEN m ELSE 0
  BY <1>3, MaxOfTwo
<1>6. Max({0, m}) = Own(slots, first, t)
  BY <1>1, <1>2, <1>5 DEF Own
<1>7. slots * q \in Nat /\ Own(slots, first, t) \in Nat
  BY <1>1 DEF Own
<1> QED
  BY <1>4, <1>6, <1>7

LEMMA ShareStep ==
  ASSUME NEW slots \in Nat, NEW first \in Nat, first + slots <= Len(Round), NEW n \in Nat
  PROVE  /\ Share(slots, first, n) \in Nat
         /\ Share(slots, first, 0) = 0
         /\ Share(slots, first, n + 1) =
              Share(slots, first, n) + IF n % Len(Round) \in first .. first + slots - 1 THEN 1 ELSE 0
<1> DEFINE q == n \div Len(Round)
           t == n % Len(Round)
<1>1. Len(Round) \in Nat \ {0}
  BY RoundLength
<1>2. q \in Nat /\ t \in 0 .. Len(Round) - 1
  BY <1>1, DivMod
<1>3. n \div Len(Round) = q /\ n % Len(Round) = t
  OBVIOUS
<1>4. IF t = Len(Round) - 1
      THEN (n + 1) \div Len(Round) = q + 1 /\ (n + 1) % Len(Round) = 0
      ELSE (n + 1) \div Len(Round) = q /\ (n + 1) % Len(Round) = t + 1
  BY <1>1, NextSlot
<1> HIDE DEF q, t
<1>5. /\ Share(slots, first, n) = slots * q + Own(slots, first, t)
      /\ slots * q \in Nat /\ Own(slots, first, t) \in Nat
  <2>1. t \in Nat
    BY <1>1, <1>2
  <2> QED
    <3>1. n \div Len(Round) = q
      BY <1>3
    <3>2. n % Len(Round) = t
      BY <1>3
    <3>3. Share(slots, first, n) = slots * q + Own(slots, first, t)
      BY <1>2, <2>1, <3>1, <3>2, ShareValue
    <3>4. slots * q \in Nat
      BY <1>2, <2>1, <3>1, <3>2, ShareValue
    <3>5. Own(slots, first, t) \in Nat
      BY <1>2, <2>1, <3>1, <3>2, ShareValue
    <3> QED
      BY <3>3, <3>4, <3>5
<1>6. Share(slots, first, 0) = 0
  <2>1. 0 \div Len(Round) = 0 /\ 0 % Len(Round) = 0
    <3> DEFINE r == Len(Round)
    <3>1. r \in Nat \ {0}
      BY <1>1
    <3> HIDE DEF r
    <3>2. 0 \in 0 .. r - 1 /\ 0 = r * 0 + 0
      BY <3>1
    <3>3. 0 \div r = 0 /\ 0 % r = 0
      BY <3>1, <3>2, DivModUnique
    <3> QED
      BY <3>3 DEF r
  <2>2. Share(slots, first, 0) = slots * 0 + Own(slots, first, 0)
    BY <2>1, ShareValue
  <2> QED
    BY <2>2 DEF Own
<1>7. Share(slots, first, n + 1) =
        Share(slots, first, n) + IF t \in first .. first + slots - 1 THEN 1 ELSE 0
  <2>1. CASE t = Len(Round) - 1
    <3>1. Share(slots, first, n + 1) = slots * (q + 1) + Own(slots, first, 0)
      <4>1. q + 1 \in Nat /\ n + 1 \in Nat
        BY <1>2
      <4> QED
        BY <1>4, <2>1, <4>1, ShareValue
    <3>2. slots * (q + 1) = slots * q + slots
      BY <1>2
    <3>3. /\ Own(slots, first, 0) = 0
          /\ slots = Own(slots, first, t) + IF t \in first .. first + slots - 1 THEN 1 ELSE 0
      <4> DEFINE r == Len(Round)
      <4>1. r \in Nat /\ first + slots <= r /\ t = r - 1 /\ t \in Nat
        BY <1>1, <1>2, <2>1
      <4> HIDE DEF r
      <4>2. CASE t <= first
        BY <4>1, <4>2 DEF Own
      <4>3. CASE t > first /\ t - first <= slots
        BY <4>1, <4>3 DEF Own
      <4>4. CASE t > first /\ t - first > slots
        BY <4>1, <4>4 DEF Own
      <4> QED
        BY <4>1, <4>2, <4>3, <4>4
    <3> QED
      BY <1>5, <3>1, <3>2, <3>3
  <2>2. CASE t # Len(Round) - 1
    <3>1. Share(slots, first, n + 1) = slots * q + Own(slots, first, t + 1)
      <4>1. t + 1 \in Nat /\ n + 1 \in Nat
        BY <1>2
      <4> QED
        BY <1>2, <1>4, <2>2, <4>1, ShareValue
    <3>2. Own(slots, first, t + 1)
            = Own(slots, first, t) + IF t \in first .. first + slots - 1 THEN 1 ELSE 0
      BY <1>1, <1>2 DEF Own
    <3> QED
      BY <1>5, <3>1, <3>2
  <2> QED
    BY <2>1, <2>2
<1>8. Share(slots, first, n) \in Nat
  BY <1>5
<1> QED
  BY <1>6, <1>7, <1>8 DEF t

LEMMA ShareGrows ==
  ASSUME NEW slots \in Nat, NEW first \in Nat, first + slots <= Len(Round), NEW n \in Nat, NEW m \in Nat, n <= m
  PROVE  Share(slots, first, n) <= Share(slots, first, m)
<1> DEFINE sh(k) == Share(slots, first, k)
           S == {k \in Nat : sh(n) <= sh(n + k)}
<1>1. ASSUME NEW k \in Nat PROVE sh(k) \in Nat /\ sh(k) <= sh(k + 1)
  <2> DEFINE one == IF k % Len(Round) \in first .. first + slots - 1 THEN 1 ELSE 0
  <2>1. one \in {0, 1}
    OBVIOUS
  <2>2. sh(k) \in Nat /\ sh(k + 1) = sh(k) + one
    BY ShareStep
  <2> HIDE DEF sh, one
  <2> QED
    BY <2>1, <2>2
<1> HIDE DEF sh
<1>2. 0 \in S
  <2>1. n + 0 = n
    OBVIOUS
  <2> QED
    BY <1>1, <2>1
<1>3. ASSUME NEW k \in Nat, k \in S PROVE k + 1 \in S
  <2>1. (n + k) + 1 = n + (k + 1) /\ n + k \in Nat /\ n + (k + 1) \in Nat
    OBVIOUS
  <2>2. sh(n) <= sh(n + k)
    BY <1>3
  <2>3. sh(n + k) <= sh(n + (k + 1)) /\ sh(n + k) \in Nat /\ sh(n + (k + 1)) \in Nat /\ sh(n) \in Nat
    BY <1>1, <2>1
  <2>4. sh(n) <= sh(n + (k + 1))
    BY <2>2, <2>3
  <2> QED
    BY <2>4
<1>4. m - n \in S
  <2> HIDE DEF S
  <2>1. Nat \subseteq S
    BY <1>2, <1>3, AllNumbers
  <2> QED
    BY <2>1
<1>5. n + (m - n) = m
  OBVIOUS
<1> QED
  BY <1>4, <1>5 DEF sh

\* Enough rounds have as many slots of each list as wanted.
LEMMA ShareOfRounds ==
  ASSUME NEW slots \in Nat \ {0}, NEW first \in Nat, first + slots <= Len(Round), NEW rounds \in Nat
  PROVE  Share(slots, first, rounds * Len(Round)) >= rounds
<1> DEFINE r == Len(Round)
<1>1. r \in Nat \ {0}
  BY RoundLength
<1>2. (rounds * r) \div r = rounds /\ (rounds * r) % r = 0 /\ rounds * r \in Nat
  <2> HIDE DEF r
  <2>1. rounds * r \in Nat /\ rounds * r = r * rounds + 0 /\ 0 \in 0 .. r - 1
    BY <1>1
  <2> QED
    BY <1>1, <2>1, DivModUnique
<1>3. Share(slots, first, rounds * r) = slots * rounds + Own(slots, first, 0)
  <2> DEFINE n == rounds * r
  <2>1. n \in Nat /\ n \div Len(Round) = rounds /\ n % Len(Round) = 0
    BY <1>2
  <2> HIDE DEF n
  <2>2. Share(slots, first, n) = slots * rounds + Own(slots, first, 0)
    BY <2>1, ShareValue, SMTT(30)
  <2> QED
    BY <2>2, Zenon DEF n
<1>4. slots * rounds >= rounds /\ slots * rounds \in Nat
  OBVIOUS
<1>5. Own(slots, first, 0) = 0
  BY DEF Own
<1> QED
  BY <1>3, <1>4, <1>5

\* What is on a list, and what an item more adds.
LEMMA AppendToPage ==
  ASSUME NEW S, NEW s \in Seq(S), NEW x \in S
  PROVE  /\ Append(s, x) \in Seq(S) /\ Len(Append(s, x)) = Len(s) + 1
         /\ \A k \in 1 .. Len(s) : Append(s, x)[k] = s[k]
         /\ Append(s, x)[Len(s) + 1] = x
         /\ ToSet(Append(s, x)) = ToSet(s) \cup {x}
         /\ \A n \in 1 .. Len(s) : FirstOf(Append(s, x), n) = FirstOf(s, n)
         /\ FirstOf(Append(s, x), Len(s) + 1) = Append(s, x)
         /\ IsInjective(s) /\ x \notin ToSet(s) => IsInjective(Append(s, x))
<1> DEFINE t == Append(s, x)
<1>1. t \in Seq(S) /\ Len(t) = Len(s) + 1 /\ t[Len(s) + 1] = x
  BY AppendProperties
<1>2. \A k \in 1 .. Len(s) : t[k] = s[k]
  BY AppendProperties
<1>3. Len(s) \in Nat /\ DOMAIN s = 1 .. Len(s) /\ DOMAIN t = 1 .. Len(t)
  BY <1>1, LenProperties
<1> HIDE DEF t
<1>4. ToSet(t) = ToSet(s) \cup {x}
  BY <1>1, <1>2, <1>3 DEF ToSet
<1>5. ASSUME NEW n \in 1 .. Len(s) PROVE FirstOf(t, n) = FirstOf(s, n)
  <2>1. /\ FirstOf(t, n) \in Seq(S) /\ Len(FirstOf(t, n)) = n
        /\ \A k \in 1 .. n : FirstOf(t, n)[k] = t[k]
    <3>1. n \in Nat /\ n <= Len(t)
      BY <1>1, <1>3
    <3> QED
      BY <1>1, <3>1, FirstOfSequence
  <2>2. /\ FirstOf(s, n) \in Seq(S) /\ Len(FirstOf(s, n)) = n
        /\ \A k \in 1 .. n : FirstOf(s, n)[k] = s[k]
    BY <1>3, FirstOfSequence
  <2> QED
    BY <1>2, <1>3, <2>1, <2>2, SeqEqual
<1>6. FirstOf(t, Len(s) + 1) = t
  <2>1. /\ FirstOf(t, Len(t)) \in Seq(S) /\ Len(FirstOf(t, Len(t))) = Len(t)
        /\ \A k \in 1 .. Len(t) : FirstOf(t, Len(t))[k] = t[k]
    BY <1>1, <1>3, FirstOfSequence
  <2>2. FirstOf(t, Len(t)) = t
    BY <1>1, <2>1, SeqEqual
  <2> QED
    BY <1>1, <2>2
<1>7. ASSUME IsInjective(s), x \notin ToSet(s) PROVE IsInjective(t)
  <2>1. \A k \in 1 .. Len(s) : s[k] # x
    BY <1>3, <1>7 DEF ToSet
  <2>2. \A a, b \in 1 .. Len(s) : s[a] = s[b] => a = b
    BY <1>3, <1>7 DEF IsInjective
  <2> QED
    BY <1>1, <1>2, <1>3, <2>1, <2>2 DEF IsInjective
<1> QED
  BY <1>1, <1>2, <1>4, <1>5, <1>6, <1>7 DEF t

LEMMA SetOfSequence ==
  ASSUME NEW S, NEW s \in Seq(S)
  PROVE  /\ Len(s) \in Nat /\ DOMAIN s = 1 .. Len(s)
         /\ \A k \in 1 .. Len(s) : s[k] \in S /\ s[k] \in ToSet(s)
         /\ \A x \in ToSet(s) : \E k \in 1 .. Len(s) : s[k] = x
         /\ ToSet(s) \subseteq S
         /\ IsFiniteSet(ToSet(s)) /\ Cardinality(ToSet(s)) \in Nat
         /\ IsInjective(s) => Cardinality(ToSet(s)) = Len(s)
<1>1. Len(s) \in Nat /\ DOMAIN s = 1 .. Len(s) /\ \A k \in 1 .. Len(s) : s[k] \in S
  BY LenProperties, ElementOfSeq
<1>2. ToSet(s) = {s[k] : k \in 1 .. Len(s)}
  BY <1>1 DEF ToSet
<1>3. s \in Surjection(1 .. Len(s), ToSet(s))
  <2>1. s \in [1 .. Len(s) -> ToSet(s)]
    <3>1. s = [k \in 1 .. Len(s) |-> s[k]]
      BY LenProperties
    <3> QED
      BY <1>2, <3>1
  <2> QED
    BY <1>2, <2>1 DEF Surjection
<1>4. IsFiniteSet(1 .. Len(s)) /\ Cardinality(1 .. Len(s)) = Len(s)
  <2> DEFINE n == Len(s)
  <2>1. n \in Nat
    BY <1>1
  <2> HIDE DEF n
  <2>2. IsFiniteSet(1 .. n) /\ Cardinality(1 .. n) = n
    BY <2>1, FS_Interval
  <2> QED
    BY <2>2 DEF n
<1>5. IsFiniteSet(ToSet(s)) /\ Cardinality(ToSet(s)) \in Nat
  BY <1>3, <1>4, FS_Surjection, FS_CardinalityType
<1>6. ASSUME IsInjective(s) PROVE Cardinality(ToSet(s)) = Len(s)
  <2>1. s \in Injection(1 .. Len(s), ToSet(s))
    BY <1>3, <1>6 DEF Injection, Surjection
  <2> QED
    BY <1>3, <1>4, <2>1, FS_Surjection
<1> QED
  BY <1>1, <1>2, <1>5, <1>6

\* As many items as were taken of a list are there.
LEMMA TakenAreThere ==
  ASSUME NEW S, NEW list \in Seq(S), IsInjective(list), NEW p \in 0 .. Len(list),
         NEW T, IsFiniteSet(T), \A k \in 1 .. p : list[k] \in T
  PROVE  Cardinality(T) \in Nat /\ p <= Cardinality(T)
<1> DEFINE f == [k \in 1 .. p |-> list[k]]
<1>1. Len(list) \in Nat /\ DOMAIN list = 1 .. Len(list) /\ p \in Nat
  BY LenProperties
<1>2. f \in Injection(1 .. p, T)
  BY <1>1 DEF Injection, IsInjective
<1>3. Cardinality(1 .. p) = p
  BY <1>1, FS_Interval
<1>4. Cardinality(1 .. p) <= Cardinality(T)
  <2> HIDE DEF f
  <2> QED BY <1>2, FS_Injection
<1> QED
  BY <1>3, <1>4, FS_CardinalityType

LEMMA MinOfNumbers ==
  ASSUME NEW S \in SUBSET Nat, S # {}
  PROVE  Min(S) \in S /\ \A n \in S : Min(S) <= n
<1>1. \E n \in S : \A m \in S : n <= m
  BY LeastNumber
<1> QED
  BY <1>1 DEF Min

-----------------------------------------------------------------------------
\* A page so far, filled up to slot s, and one of its lists: what was consumed
\* of the list is on the page; the list had its slots, as long as it lasted.
HasOfList(m, list, from, slots, first, s, limit) ==
  /\ m[from] \in 0 .. Len(list)
  /\ \A k \in 1 .. m[from] : list[k] \in ToSet(m.out)
  /\ Len(m.out) <= limit => m[from] = Len(list) \/ m[from] >= Share(slots, first, s)
  /\ \A n \in 1 .. Len(m.out) :
       Cardinality(ToSet(FirstOf(m.out, n)) \cap ToSet(list)) >= Min({Len(list), Share(slots, first, n)})

Merged == [out : Seq(Items), d : Nat, c : Nat]

\* What Take does: the first item that is new to the page, if there is one.
Took(m, t, list, from) ==
  \/ /\ t[from] = Len(list) /\ t.out = m.out
     /\ \A k \in m[from] + 1 .. Len(list) : list[k] \in ToSet(m.out)
  \/ /\ t[from] \in m[from] + 1 .. Len(list)
     /\ list[t[from]] \in Items /\ list[t[from]] \notin ToSet(m.out)
     /\ t.out = Append(m.out, list[t[from]])
     /\ \A k \in m[from] + 1 .. t[from] - 1 : list[k] \in ToSet(m.out)

LEMMA TakeProperties ==
  ASSUME NEW m \in Merged, NEW list \in Seq(Items), NEW from \in {"d", "c"}, m[from] <= Len(list)
  PROVE  /\ Take(m, list, from) \in Merged
         /\ \A other \in {"d", "c"} \ {from} : Take(m, list, from)[other] = m[other]
         /\ Took(m, Take(m, list, from), list, from)
<1> DEFINE t == Take(m, list, from)
           fresh == {k \in m[from] + 1 .. Len(list) : list[k] \notin ToSet(m.out)}
<1>1. m[from] \in Nat /\ Len(list) \in Nat /\ m.out \in Seq(Items)
  BY LenProperties DEF Merged
<1>2. m = [out |-> m.out, d |-> m.d, c |-> m.c] /\ m.d \in Nat /\ m.c \in Nat
  BY DEF Merged
<1>3. CASE fresh = {}
  <2>1. t = [m EXCEPT ![from] = Len(list)]
    BY <1>3 DEF Take
  <2>2. t \in Merged /\ t[from] = Len(list) /\ t.out = m.out
    BY <1>1, <2>1 DEF Merged
  <2>3. \A other \in {"d", "c"} \ {from} : t[other] = m[other]
    BY <1>1, <2>1 DEF Merged
  <2>4. \A k \in m[from] + 1 .. Len(list) : list[k] \in ToSet(m.out)
    BY <1>3
  <2> HIDE DEF t
  <2> QED
    BY <2>2, <2>3, <2>4 DEF t, Took
<1>4. CASE fresh # {}
  <2> DEFINE n == Min(fresh)
  <2>1. n \in fresh /\ \A k \in fresh : n <= k
    <3>1. fresh \in SUBSET Nat
      BY <1>1
    <3> HIDE DEF fresh
    <3> QED
      BY <1>4, <3>1, MinOfNumbers
  <2>2. n \in m[from] + 1 .. Len(list) /\ list[n] \notin ToSet(m.out) /\ n \in Nat
    BY <1>1, <2>1
  <2>3. list[n] \in Items
    BY <1>1, <2>2, ElementOfSeq
  <2>4. \A k \in m[from] + 1 .. n - 1 : list[k] \in ToSet(m.out)
    <3>1. \A k \in m[from] + 1 .. n - 1 : k \in m[from] + 1 .. Len(list) /\ ~ n <= k
      BY <1>1, <2>2
    <3> HIDE DEF n
    <3> QED
      BY <2>1, <3>1
  <2>5. t = [m EXCEPT ![from] = n, !.out = Append(m.out, list[n])]
    BY <1>4 DEF Take
  <2> HIDE DEF n, fresh, t
  <2>6. Append(m.out, list[n]) \in Seq(Items)
    BY <1>1, <2>3, AppendProperties
  <2>7. t \in Merged /\ t[from] = n /\ t.out = Append(m.out, list[n])
    BY <1>1, <2>2, <2>5, <2>6 DEF Merged
  <2>8. \A other \in {"d", "c"} \ {from} : t[other] = m[other]
    BY <1>1, <2>5 DEF Merged
  <2>9. t[from] \in m[from] + 1 .. Len(list) /\ list[t[from]] \in Items /\ list[t[from]] \notin ToSet(m.out)
    BY <2>2, <2>3, <2>7
  <2> QED
    BY <2>4, <2>7, <2>8, <2>9 DEF t, Took
<1> QED
  BY <1>3, <1>4

\* A slot is filled, and so much of the list is consumed.
Filled(m, t, list, from, share) ==
  /\ t.out = m.out \/ \E x \in Items : t.out = Append(m.out, x)
  /\ t[from] \in 0 .. Len(list)
  /\ \A k \in 1 .. t[from] : list[k] \in ToSet(t.out)
  /\ t[from] = Len(list) \/ t[from] >= share

\* A list keeps what it has.
LEMMA SlotKeepsShare ==
  ASSUME NEW slots \in Nat, NEW first \in Nat, first + slots <= Len(Round),
         NEW m \in Merged, NEW t \in Merged, NEW list \in Seq(Items), IsInjective(list),
         NEW from \in {"d", "c"}, NEW s \in Nat, NEW limit \in Nat,
         HasOfList(m, list, from, slots, first, s, limit), Len(m.out) <= limit, Len(m.out) <= s,
         Filled(m, t, list, from, Share(slots, first, s + 1))
  PROVE  HasOfList(t, list, from, slots, first, s + 1, limit)
<1>1. m.out \in Seq(Items) /\ t.out \in Seq(Items) /\ Len(m.out) \in Nat /\ Len(list) \in Nat
  BY LenProperties DEF Merged
<1>0. /\ t.out = m.out \/ \E x \in Items : t.out = Append(m.out, x)
      /\ t[from] \in 0 .. Len(list)
      /\ \A k \in 1 .. t[from] : list[k] \in ToSet(t.out)
      /\ t[from] = Len(list) \/ t[from] >= Share(slots, first, s + 1)
  BY DEF Filled
<1> DEFINE Enough(out, n) ==
      Cardinality(ToSet(FirstOf(out, n)) \cap ToSet(list)) >= Min({Len(list), Share(slots, first, n)})
<1>2. \A n \in 1 .. Len(m.out) : Enough(m.out, n)
  BY DEF HasOfList
<1>3. \A n \in 1 .. Len(t.out) : Enough(t.out, n)
  <2>1. CASE t.out = m.out
    <3> HIDE DEF Enough
    <3> QED
      BY <1>2, <2>1
  <2>2. ASSUME NEW x \in Items, t.out = Append(m.out, x) PROVE \A n \in 1 .. Len(t.out) : Enough(t.out, n)
    <3>1. /\ Len(t.out) = Len(m.out) + 1
          /\ \A n \in 1 .. Len(m.out) : FirstOf(t.out, n) = FirstOf(m.out, n)
          /\ FirstOf(t.out, Len(t.out)) = t.out
      BY <1>1, <2>2, AppendToPage
    <3>2. Enough(t.out, Len(t.out))
      <4> DEFINE have == ToSet(t.out) \cap ToSet(list)
                 n == Len(t.out)
                 share == Share(slots, first, n)
                 upTo == Share(slots, first, s + 1)
      <4>1. IsFiniteSet(have)
        <5>1. IsFiniteSet(ToSet(t.out)) /\ have \in SUBSET ToSet(t.out)
          BY <1>1, SetOfSequence
        <5> QED
          BY <5>1, SubsetCardinality
      <4>2. \A k \in 1 .. t[from] : list[k] \in have
        BY <1>0, <1>1, SetOfSequence
      <4>3. Cardinality(have) \in Nat /\ t[from] <= Cardinality(have)
        <5> HIDE DEF have
        <5> QED
          BY <1>0, <1>1, <4>1, <4>2, TakenAreThere
      <4>4. n \in Nat /\ s + 1 \in Nat /\ n <= s + 1
        BY <1>1, <3>1
      <4>5. share \in Nat /\ upTo \in Nat
        <5> HIDE DEF n
        <5> QED
          BY <4>4, ShareStep
      <4>6. share <= upTo
        <5> HIDE DEF n
        <5> QED
          BY <4>4, ShareGrows
      <4>7. Min({Len(list), share}) = IF Len(list) <= share THEN Len(list) ELSE share
        <5> HIDE DEF share
        <5> QED
          BY <1>1, <4>5, MinOfTwo
      <4>8. t[from] \in Nat /\ (t[from] = Len(list) \/ t[from] >= upTo)
        BY <1>0, <1>1
      <4>9. FirstOf(t.out, n) = t.out
        BY <3>1
      <4>10. Cardinality(have) >= Min({Len(list), share})
        <5> HIDE DEF have, share, upTo
        <5> QED
          BY <1>1, <4>3, <4>5, <4>6, <4>7, <4>8
      <4> QED
        BY <4>9, <4>10
    <3>3. \A n \in 1 .. Len(m.out) : Enough(t.out, n)
      BY <1>2, <3>1
    <3> HIDE DEF Enough
    <3> QED
      BY <1>1, <3>1, <3>2, <3>3
  <2> QED
    BY <1>0, <2>1, <2>2
<1> QED
  BY <1>0, <1>3 DEF HasOfList

\* A page so far, filled up to slot s from both lists.
MergedUpTo(m, s, discovery, chron, limit) ==
  /\ m \in Merged
  /\ IsInjective(m.out) /\ Len(m.out) <= limit + 1 /\ Len(m.out) <= s
  /\ ToSet(m.out) \subseteq ToSet(discovery) \cup ToSet(chron)
  /\ HasOfList(m, discovery, "d", DiscoverySlots, 0, s, limit)
  /\ HasOfList(m, chron, "c", ChronologicalSlots, DiscoverySlots, s, limit)
  /\ discovery = <<>> => Len(m.out) = m.c /\ \A k \in 1 .. m.c : m.out[k] = chron[k]
  /\ discovery # <<>> /\ s > 0 => m.d > 0

LEMMA MergeStarts ==
  ASSUME NEW discovery \in Seq(Items), NEW chron \in Seq(Items), NEW limit \in Nat
  PROVE  MergedUpTo([out |-> <<>>, d |-> 0, c |-> 0], 0, discovery, chron, limit)
<1> DEFINE m == [out |-> <<>>, d |-> 0, c |-> 0]
<1>1. m \in Merged /\ m.out = <<>> /\ m.d = 0 /\ m.c = 0 /\ m["d"] = 0 /\ m["c"] = 0
  BY EmptySeq DEF Merged
<1>2. Len(m.out) = 0 /\ ToSet(m.out) = {} /\ IsInjective(m.out)
  BY <1>1 DEF ToSet, IsInjective
<1>3. Len(discovery) \in Nat /\ Len(chron) \in Nat
  BY LenProperties
<1>4. Share(DiscoverySlots, 0, 0) = 0 /\ Share(ChronologicalSlots, DiscoverySlots, 0) = 0
  <2>1. 0 + DiscoverySlots <= Len(Round) /\ DiscoverySlots + ChronologicalSlots <= Len(Round)
    BY RoundLength, PagesConstants
  <2> QED
    BY <2>1, ShareStep, PagesConstants
<1> HIDE DEF m
<1>5. HasOfList(m, discovery, "d", DiscoverySlots, 0, 0, limit)
  BY <1>1, <1>2, <1>3, <1>4 DEF HasOfList
<1>6. HasOfList(m, chron, "c", ChronologicalSlots, DiscoverySlots, 0, limit)
  BY <1>1, <1>2, <1>3, <1>4 DEF HasOfList
<1>7. MergedUpTo(m, 0, discovery, chron, limit)
  BY <1>1, <1>2, <1>5, <1>6 DEF MergedUpTo
<1> QED
  BY <1>7 DEF m

\* One slot, of the list it is for.
LEMMA SlotOfList ==
  ASSUME NEW m \in Merged, NEW list \in Seq(Items), IsInjective(list), NEW other \in Seq(Items),
         IsInjective(other),
         NEW from \in {"d", "c"}, NEW to \in {"d", "c"}, from # to,
         NEW slots \in Nat, NEW first \in Nat, first + slots <= Len(Round),
         NEW otherSlots \in Nat, NEW otherFirst \in Nat, otherFirst + otherSlots <= Len(Round),
         NEW s \in Nat, NEW limit \in Nat, Len(m.out) <= limit, Len(m.out) <= s, IsInjective(m.out),
         HasOfList(m, list, from, slots, first, s, limit),
         HasOfList(m, other, to, otherSlots, otherFirst, s, limit),
         s % Len(Round) \in first .. first + slots - 1,
         s % Len(Round) \notin otherFirst .. otherFirst + otherSlots - 1
  PROVE  LET t == Take(m, list, from) IN
         /\ t \in Merged /\ IsInjective(t.out) /\ Len(t.out) <= Len(m.out) + 1
         /\ ToSet(t.out) \subseteq ToSet(m.out) \cup ToSet(list)
         /\ HasOfList(t, list, from, slots, first, s + 1, limit)
         /\ HasOfList(t, other, to, otherSlots, otherFirst, s + 1, limit)
<1> DEFINE t == Take(m, list, from)
<1>1. m.out \in Seq(Items) /\ Len(m.out) \in Nat /\ Len(list) \in Nat /\ Len(other) \in Nat
  BY LenProperties DEF Merged
<1>2. m[from] \in 0 .. Len(list) /\ m[to] \in 0 .. Len(other)
  BY DEF HasOfList
<1>3. t \in Merged /\ t[to] = m[to] /\ Took(m, t, list, from)
  <2>1. m[from] <= Len(list)
    BY <1>1, <1>2
  <2>2. to \in {"d", "c"} \ {from}
    OBVIOUS
  <2> QED
    BY <2>1, <2>2, TakeProperties
<1> HIDE DEF t
<1>4. /\ t[from] \in 0 .. Len(list) /\ (t[from] = Len(list) \/ t[from] >= m[from] + 1)
      /\ t.out = m.out \/ \E x \in Items : t.out = Append(m.out, x)
  <2>1. CASE t[from] = Len(list) /\ t.out = m.out
    BY <1>1, <2>1
  <2>2. CASE /\ t[from] \in m[from] + 1 .. Len(list) /\ list[t[from]] \in Items
             /\ t.out = Append(m.out, list[t[from]])
    <3>1. t[from] \in 0 .. Len(list) /\ t[from] >= m[from] + 1
      BY <1>1, <1>2, <2>2, SMTT(30)
    <3> QED
      BY <2>2, <3>1
  <2> QED
    BY <1>3, <2>1, <2>2 DEF Took
<1>5. \A k \in 1 .. m[from] : list[k] \in ToSet(m.out)
  BY DEF HasOfList
<1>6. \A k \in 1 .. m[to] : other[k] \in ToSet(m.out)
  BY DEF HasOfList
<1>7. /\ ToSet(m.out) \subseteq ToSet(t.out) /\ ToSet(t.out) \subseteq ToSet(m.out) \cup ToSet(list)
      /\ IsInjective(t.out) /\ Len(t.out) <= Len(m.out) + 1
      /\ t.out # m.out => list[t[from]] \in ToSet(t.out)
  <2>1. CASE t.out = m.out
    BY <1>1, <2>1
  <2>2. CASE t.out # m.out
    <3>1. list[t[from]] \in Items /\ list[t[from]] \notin ToSet(m.out) /\ t.out = Append(m.out, list[t[from]])
      BY <1>3, <2>2 DEF Took
    <3>2. t[from] \in 1 .. Len(list)
      BY <1>1, <1>2, <1>3, <2>2, SMTT(30) DEF Took
    <3>3. list[t[from]] \in ToSet(list)
      BY <3>2, SetOfSequence
    <3> QED
      BY <1>1, <3>1, <3>3, AppendToPage, SMTT(30)
  <2> QED
    BY <2>1, <2>2
<1>8. \A k \in 1 .. t[from] : list[k] \in ToSet(t.out)
  <2> SUFFICES ASSUME NEW k \in 1 .. t[from] PROVE list[k] \in ToSet(t.out)
    OBVIOUS
  <2>1. m[from] \in Nat /\ t[from] \in Nat /\ k \in Nat /\ t[from] <= Len(list)
    BY <1>1, <1>2, <1>4
  <2>2. CASE k <= m[from]
    <3>1. k \in 1 .. m[from]
      BY <2>1, <2>2
    <3> QED
      BY <1>5, <1>7, <3>1
  <2>3. CASE k > m[from] /\ t.out = m.out
    <3>1. \A j \in m[from] + 1 .. Len(list) : list[j] \in ToSet(m.out)
      BY <1>1, <1>3, <2>3, AppendToPage DEF Took
    <3>2. k \in m[from] + 1 .. Len(list)
      BY <1>1, <2>1, <2>3, SMTT(30)
    <3> QED
      BY <2>3, <3>1, <3>2
  <2>4. CASE k > m[from] /\ t.out # m.out
    <3>1. \A j \in m[from] + 1 .. t[from] - 1 : list[j] \in ToSet(m.out)
      BY <1>3, <2>4 DEF Took
    <3>2. CASE k = t[from]
      BY <1>7, <2>4, <3>2
    <3>3. CASE k # t[from]
      <4>1. k \in m[from] + 1 .. t[from] - 1
        BY <2>1, <2>4, <3>3, SMTT(30)
      <4> QED
        BY <1>7, <3>1, <4>1
    <3> QED
      BY <3>2, <3>3
  <2> QED
    BY <2>1, <2>2, <2>3, <2>4
<1>9. \A k \in 1 .. t[to] : other[k] \in ToSet(t.out)
  BY <1>3, <1>6, <1>7
<1>10. t[from] = Len(list) \/ t[from] >= Share(slots, first, s + 1)
  <2>1. m[from] = Len(list) \/ m[from] >= Share(slots, first, s)
    BY DEF HasOfList
  <2>2. Share(slots, first, s + 1) = Share(slots, first, s) + 1 /\ Share(slots, first, s) \in Nat
    BY ShareStep
  <2>3. m[from] \in Nat /\ t[from] \in Nat /\ m[from] <= Len(list) /\ t[from] <= Len(list) /\ Len(list) \in Nat
    BY <1>1, <1>2, <1>4
  <2>4. CASE t[from] = Len(list)
    BY <2>4
  <2>5. CASE t[from] # Len(list)
    <3>1. t[from] >= m[from] + 1
      BY <1>4, <2>5
    <3>2. m[from] # Len(list)
      BY <2>3, <2>5, <3>1
    <3>3. m[from] >= Share(slots, first, s)
      BY <2>1, <3>2
    <3> QED
      BY <2>2, <2>3, <3>1, <3>3
  <2> QED
    BY <2>4, <2>5
<1>11. t[to] = Len(other) \/ t[to] >= Share(otherSlots, otherFirst, s + 1)
  <2>1. m[to] = Len(other) \/ m[to] >= Share(otherSlots, otherFirst, s)
    BY DEF HasOfList
  <2>2. /\ Share(otherSlots, otherFirst, s + 1) = Share(otherSlots, otherFirst, s) + 0
        /\ Share(otherSlots, otherFirst, s) \in Nat
    BY ShareStep
  <2> QED
    BY <1>3, <2>1, <2>2
<1>12. HasOfList(t, list, from, slots, first, s + 1, limit)
  <2>1. Filled(m, t, list, from, Share(slots, first, s + 1))
    BY <1>2, <1>3, <1>4, <1>8, <1>10 DEF Filled
  <2> QED
    BY <1>3, <2>1, SlotKeepsShare
<1>13. HasOfList(t, other, to, otherSlots, otherFirst, s + 1, limit)
  <2>1. Filled(m, t, other, to, Share(otherSlots, otherFirst, s + 1))
    BY <1>2, <1>3, <1>4, <1>9, <1>11 DEF Filled
  <2> QED
    BY <1>3, <2>1, SlotKeepsShare
<1> QED
  BY <1>3, <1>7, <1>12, <1>13 DEF t

\* One slot more.
LEMMA FillStep ==
  ASSUME NEW discovery \in Seq(Items), IsInjective(discovery), NEW chron \in Seq(Items), IsInjective(chron),
         NEW limit \in Nat, NEW s \in Nat, NEW m, MergedUpTo(m, s, discovery, chron, limit)
  PROVE  MergedUpTo(Fill(m, s, discovery, chron, limit), s + 1, discovery, chron, limit)
<1> DEFINE t == Fill(m, s, discovery, chron, limit)
<1> SUFFICES MergedUpTo(t, s + 1, discovery, chron, limit)
  OBVIOUS
<1>1. /\ m \in Merged /\ IsInjective(m.out) /\ Len(m.out) <= limit + 1 /\ Len(m.out) <= s
      /\ ToSet(m.out) \subseteq ToSet(discovery) \cup ToSet(chron)
      /\ HasOfList(m, discovery, "d", DiscoverySlots, 0, s, limit)
      /\ HasOfList(m, chron, "c", ChronologicalSlots, DiscoverySlots, s, limit)
  BY DEF MergedUpTo
<1>2. /\ discovery = <<>> => Len(m.out) = m.c /\ \A k \in 1 .. m.c : m.out[k] = chron[k]
      /\ discovery # <<>> /\ s > 0 => m.d > 0
  BY DEF MergedUpTo
<1>3. /\ m.out \in Seq(Items) /\ Len(m.out) \in Nat /\ Len(discovery) \in Nat /\ Len(chron) \in Nat
      /\ m.d \in 0 .. Len(discovery) /\ m.c \in 0 .. Len(chron)
      /\ (discovery = <<>> <=> Len(discovery) = 0)
  <2>1. m["d"] \in 0 .. Len(discovery) /\ m["c"] \in 0 .. Len(chron)
    BY <1>1 DEF HasOfList
  <2> QED
    BY <1>1, <2>1, LenProperties, EmptySeq DEF Merged
<1>4. /\ 0 + DiscoverySlots <= Len(Round) /\ DiscoverySlots + ChronologicalSlots <= Len(Round)
      /\ DiscoverySlots \in Nat /\ ChronologicalSlots \in Nat /\ 0 \in Nat
      /\ s % Len(Round) \in 0 .. Len(Round) - 1
  BY RoundLength, PagesConstants, DivMod
<1>5. CASE Len(m.out) > limit
  <2>1. t = m
    BY <1>5 DEF Fill
  <2>2. ~ Len(m.out) <= limit
    BY <1>3, <1>5
  <2>3. HasOfList(m, discovery, "d", DiscoverySlots, 0, s + 1, limit)
    BY <1>1, <2>2, Zenon DEF HasOfList
  <2>4. HasOfList(m, chron, "c", ChronologicalSlots, DiscoverySlots, s + 1, limit)
    BY <1>1, <2>2, Zenon DEF HasOfList
  <2>5. Len(m.out) <= s + 1 /\ (discovery # <<>> => m.d > 0)
    BY <1>1, <1>2, <1>3, <1>5
  <2> HIDE DEF t
  <2> QED
    BY <1>1, <1>2, <2>1, <2>3, <2>4, <2>5, Zenon DEF MergedUpTo
<1>6. CASE Len(m.out) <= limit /\ s % Len(Round) < DiscoverySlots
  <2>1. t = Take(m, discovery, "d")
    <3>1. Round[1 + (s % Len(Round))] = "d"
      BY <1>4, <1>6, RoundLength
    <3> QED
      BY <1>3, <1>6, <3>1 DEF Fill
  <2>2. /\ s % Len(Round) \in 0 .. 0 + DiscoverySlots - 1
        /\ s % Len(Round) \notin DiscoverySlots .. DiscoverySlots + ChronologicalSlots - 1
    BY <1>4, <1>6
  <2> HIDE DEF t
  <2>3. /\ t \in Merged /\ IsInjective(t.out) /\ Len(t.out) <= Len(m.out) + 1
        /\ ToSet(t.out) \subseteq ToSet(m.out) \cup ToSet(discovery)
        /\ HasOfList(t, discovery, "d", DiscoverySlots, 0, s + 1, limit)
        /\ HasOfList(t, chron, "c", ChronologicalSlots, DiscoverySlots, s + 1, limit)
    BY <1>1, <1>4, <1>6, <2>1, <2>2, SlotOfList
  <2>4. t.c = m.c /\ Took(m, t, discovery, "d")
    <3>1. m["d"] <= Len(discovery) /\ "c" \in {"d", "c"} \ {"d"}
      BY <1>3
    <3>2. t["c"] = m["c"] /\ Took(m, t, discovery, "d")
      BY <1>1, <2>1, <3>1, TakeProperties
    <3> QED
      BY <3>2
  <2>5. discovery = <<>> => t.out = m.out
    BY <1>3, <2>4 DEF Took
  <2>6. discovery # <<>> => t.d > 0
    BY <1>3, <2>4 DEF Took
  <2>7. Len(t.out) \in Nat
    BY <2>3, LenProperties DEF Merged
  <2>8. Len(t.out) <= limit + 1 /\ Len(t.out) <= s + 1
    BY <1>1, <1>3, <1>6, <2>3, <2>7
  <2>9. discovery = <<>> => Len(t.out) = t.c /\ \A k \in 1 .. t.c : t.out[k] = chron[k]
    BY <1>2, <2>4, <2>5
  <2>10. ToSet(t.out) \subseteq ToSet(discovery) \cup ToSet(chron)
    BY <1>1, <2>3
  <2> QED
    BY <2>3, <2>6, <2>8, <2>9, <2>10, Zenon DEF MergedUpTo
<1>7. CASE Len(m.out) <= limit /\ s % Len(Round) >= DiscoverySlots
  <2>1. t = Take(m, chron, "c")
    <3>1. Round[1 + (s % Len(Round))] = "c"
      BY <1>4, <1>7, RoundLength
    <3> QED
      BY <1>3, <1>7, <3>1 DEF Fill
  <2>2. /\ s % Len(Round) \notin 0 .. 0 + DiscoverySlots - 1
        /\ s % Len(Round) \in DiscoverySlots .. DiscoverySlots + ChronologicalSlots - 1
    BY <1>4, <1>7, RoundLength
  <2> HIDE DEF t
  <2>3. /\ t \in Merged /\ IsInjective(t.out) /\ Len(t.out) <= Len(m.out) + 1
        /\ ToSet(t.out) \subseteq ToSet(m.out) \cup ToSet(chron)
        /\ HasOfList(t, chron, "c", ChronologicalSlots, DiscoverySlots, s + 1, limit)
        /\ HasOfList(t, discovery, "d", DiscoverySlots, 0, s + 1, limit)
    BY <1>1, <1>4, <1>7, <2>1, <2>2, SlotOfList
  <2>4. t.d = m.d /\ Took(m, t, chron, "c")
    <3>1. m["c"] <= Len(chron) /\ "d" \in {"d", "c"} \ {"c"}
      BY <1>3
    <3>2. t["d"] = m["d"] /\ Took(m, t, chron, "c")
      BY <1>1, <2>1, <3>1, TakeProperties
    <3> QED
      BY <3>2
  <2>5. ASSUME discovery = <<>> PROVE Len(t.out) = t.c /\ \A k \in 1 .. t.c : t.out[k] = chron[k]
    <3>1. Len(m.out) = m.c /\ \A k \in 1 .. m.c : m.out[k] = chron[k]
      BY <1>2, <2>5
    <3>2. ASSUME m.c < Len(chron) PROVE chron[m.c + 1] \notin ToSet(m.out)
      <4>1. \A k \in 1 .. m.c : chron[k] # chron[m.c + 1]
        <5>1. DOMAIN chron = 1 .. Len(chron)
          BY LenProperties
        <5> QED
          BY <1>3, <3>2, <5>1 DEF IsInjective
      <4>2. \A x \in ToSet(m.out) : \E k \in 1 .. Len(m.out) : m.out[k] = x
        BY <1>3, SetOfSequence
      <4> QED
        BY <3>1, <4>1, <4>2
    <3>3. CASE /\ t.c = Len(chron) /\ t.out = m.out
               /\ \A k \in m.c + 1 .. Len(chron) : chron[k] \in ToSet(m.out)
      <4>1. m.c = Len(chron)
        <5>1. SUFFICES ASSUME m.c < Len(chron) PROVE FALSE
          BY <1>3
        <5>2. m.c + 1 \in m.c + 1 .. Len(chron)
          BY <1>3, <5>1
        <5> QED
          BY <3>2, <3>3, <5>1, <5>2
      <4> QED
        BY <3>1, <3>3, <4>1
    <3>4. CASE /\ t.c \in m.c + 1 .. Len(chron) /\ chron[t.c] \in Items
               /\ t.out = Append(m.out, chron[t.c])
               /\ \A k \in m.c + 1 .. t.c - 1 : chron[k] \in ToSet(m.out)
      <4>1. t.c = m.c + 1
        <5>1. t.c \in Nat /\ m.c < Len(chron) /\ t.c >= m.c + 1
          BY <1>3, <3>4
        <5>2. SUFFICES ASSUME t.c > m.c + 1 PROVE FALSE
          BY <1>3, <5>1
        <5>3. m.c + 1 \in m.c + 1 .. t.c - 1
          BY <1>3, <5>1, <5>2
        <5> QED
          BY <3>2, <3>4, <5>1, <5>3
      <4>2. /\ Len(t.out) = Len(m.out) + 1 /\ t.out[Len(m.out) + 1] = chron[t.c]
            /\ \A k \in 1 .. Len(m.out) : t.out[k] = m.out[k]
        BY <1>3, <3>4, AppendToPage
      <4> QED
        BY <1>3, <3>1, <4>1, <4>2
    <3> QED
      BY <2>4, <3>3, <3>4 DEF Took
  <2>6. s > 0
    <3>1. DiscoverySlots > 0 /\ s % Len(Round) > 0
      BY <1>4, <1>7, PagesConstants
    <3>2. 0 % Len(Round) = 0
      <4> DEFINE r == Len(Round)
      <4>1. r \in Nat \ {0}
        BY RoundLength
      <4> HIDE DEF r
      <4>2. 0 \in 0 .. r - 1 /\ 0 = r * 0 + 0
        BY <4>1
      <4>3. 0 % r = 0
        BY <4>1, <4>2, DivModUnique
      <4> QED
        BY <4>3 DEF r
    <3> QED
      BY <3>1, <3>2
  <2>7. Len(t.out) \in Nat
    BY <2>3, LenProperties DEF Merged
  <2>8. Len(t.out) <= limit + 1 /\ Len(t.out) <= s + 1
    BY <1>1, <1>3, <1>7, <2>3, <2>7
  <2>9. discovery # <<>> => t.d > 0
    BY <1>2, <2>4, <2>6
  <2>10. ToSet(t.out) \subseteq ToSet(discovery) \cup ToSet(chron)
    BY <1>1, <2>3
  <2> QED
    BY <2>3, <2>5, <2>8, <2>9, <2>10, Zenon DEF MergedUpTo
<1>8. DiscoverySlots \in Nat /\ s % Len(Round) \in Nat
  BY <1>4, RoundLength
<1>9. s % Len(Round) < DiscoverySlots \/ s % Len(Round) >= DiscoverySlots
  BY <1>8
<1>10. Len(m.out) > limit \/ Len(m.out) <= limit
  BY <1>3
<1> HIDE DEF t
<1> QED
  BY <1>5, <1>6, <1>7, <1>9, <1>10

MergeStart == [out |-> <<>>, d |-> 0, c |-> 0]

\* f is the page so far, up to each of n slots.
Fills(f, n, discovery, chron, limit) ==
  f = [s \in 0 .. n |-> IF s = 0 THEN MergeStart ELSE Fill(f[s - 1], s - 1, discovery, chron, limit)]

\* What is filled slot after slot exists, for any number of them.
LEMMA FillsExists ==
  ASSUME NEW discovery, NEW chron, NEW limit, NEW slots \in Nat
  PROVE  \E f : Fills(f, slots, discovery, chron, limit)
<1> DEFINE S == {n \in Nat : \E f : Fills(f, n, discovery, chron, limit)}
<1>1. 0 \in S
  <2> DEFINE f == [s \in 0 .. 0 |-> MergeStart]
  <2>1. Fills(f, 0, discovery, chron, limit)
    BY DEF Fills
  <2> HIDE DEF f
  <2> QED
    BY <2>1
<1>2. ASSUME NEW n \in Nat, n \in S PROVE n + 1 \in S
  <2>1. PICK f : Fills(f, n, discovery, chron, limit)
    BY <1>2
  <2> DEFINE g == [s \in 0 .. n + 1 |-> IF s <= n THEN f[s] ELSE Fill(f[n], n, discovery, chron, limit)]
             e(s) == IF s = 0 THEN MergeStart ELSE Fill(g[s - 1], s - 1, discovery, chron, limit)
  <2>2. \A s \in 0 .. n : f[s] = IF s = 0 THEN MergeStart ELSE Fill(f[s - 1], s - 1, discovery, chron, limit)
    BY <2>1 DEF Fills
  <2>3. ASSUME NEW s \in 0 .. n + 1 PROVE g[s] = e(s)
    <3>1. CASE s = 0
      BY <2>2, <3>1
    <3>2. CASE s # 0 /\ s <= n
      <4>1. s \in 0 .. n /\ s - 1 \in 0 .. n + 1 /\ s - 1 <= n
        BY <3>2
      <4>2. g[s] = f[s] /\ g[s - 1] = f[s - 1]
        BY <3>2, <4>1
      <4>3. f[s] = Fill(f[s - 1], s - 1, discovery, chron, limit)
        BY <2>2, <3>2, <4>1
      <4> HIDE DEF g
      <4> QED
        BY <3>2, <4>2, <4>3
    <3>3. CASE s = n + 1
      <4>1. s - 1 = n /\ ~ s <= n /\ n \in 0 .. n + 1 /\ s # 0
        BY <3>3
      <4>2. g[s] = Fill(f[n], n, discovery, chron, limit) /\ g[n] = f[n]
        BY <4>1
      <4> HIDE DEF g
      <4> QED
        BY <4>1, <4>2
    <3> QED
      BY <3>1, <3>2, <3>3
  <2>4. g = [s \in 0 .. n + 1 |-> g[s]]
    OBVIOUS
  <2> HIDE DEF g
  <2>5. Fills(g, n + 1, discovery, chron, limit)
    BY <2>3, <2>4 DEF Fills
  <2> QED
    BY <2>5
<1> HIDE DEF S
<1>3. slots \in S
  BY <1>1, <1>2, AllNumbers
<1> QED
  BY <1>3 DEF S

LEMMA MergeIsFilled ==
  ASSUME NEW discovery, NEW chron, NEW limit \in Nat
  PROVE  \E f : /\ Fills(f, (limit + 1) * Len(Round), discovery, chron, limit)
                /\ Merge(discovery, chron, limit) = f[(limit + 1) * Len(Round)]
<1> DEFINE slots == (limit + 1) * Len(Round)
           f == CHOOSE g : Fills(g, slots, discovery, chron, limit)
<1>1. slots \in Nat
  BY RoundLength
<1>2. Fills(f, slots, discovery, chron, limit)
  <2> HIDE DEF slots
  <2> QED
    BY <1>1, FillsExists
<1>3. Merge(discovery, chron, limit) = f[slots]
  BY DEF Merge, Fills, MergeStart
<1> HIDE DEF f
<1> QED
  BY <1>2, <1>3

LEMMA MergeProperties ==
  ASSUME NEW discovery \in Seq(Items), IsInjective(discovery), NEW chron \in Seq(Items), IsInjective(chron),
         NEW limit \in Nat
  PROVE  MergedUpTo(Merge(discovery, chron, limit), (limit + 1) * Len(Round), discovery, chron, limit)
<1> DEFINE slots == (limit + 1) * Len(Round)
<1>1. slots \in Nat
  BY RoundLength
<1>2. PICK f : Fills(f, slots, discovery, chron, limit) /\ Merge(discovery, chron, limit) = f[slots]
  BY MergeIsFilled
<1> HIDE DEF slots
<1>3. \A s \in 0 .. slots : f[s] = IF s = 0 THEN MergeStart ELSE Fill(f[s - 1], s - 1, discovery, chron, limit)
  BY <1>2 DEF Fills
<1> DEFINE S == {s \in Nat : s <= slots => MergedUpTo(f[s], s, discovery, chron, limit)}
<1>4. 0 \in S
  <2>1. f[0] = MergeStart
    BY <1>1, <1>3
  <2> QED
    BY <2>1, MergeStarts DEF MergeStart
<1>5. ASSUME NEW s \in Nat, s \in S PROVE s + 1 \in S
  <2>1. SUFFICES ASSUME s + 1 <= slots PROVE MergedUpTo(f[s + 1], s + 1, discovery, chron, limit)
    OBVIOUS
  <2>2. MergedUpTo(f[s], s, discovery, chron, limit)
    BY <1>1, <1>5, <2>1
  <2>3. f[s + 1] = Fill(f[s], s, discovery, chron, limit)
    <3>1. s + 1 \in 0 .. slots /\ s + 1 # 0 /\ (s + 1) - 1 = s
      BY <1>1, <2>1
    <3>2. f[s + 1] = Fill(f[(s + 1) - 1], (s + 1) - 1, discovery, chron, limit)
      BY <1>3, <3>1
    <3> QED
      BY <3>1, <3>2
  <2> QED
    BY <2>2, <2>3, FillStep
<1>6. MergedUpTo(f[slots], slots, discovery, chron, limit)
  <2>1. slots \in S
    <3> HIDE DEF S
    <3> QED
      BY <1>1, <1>4, <1>5, AllNumbers
  <2> QED
    BY <1>1, <2>1
<1> QED
  BY <1>2, <1>6 DEF slots

\* A page that is not full has all of both lists.
LEMMA MergeTakesAll ==
  ASSUME NEW discovery \in Seq(Items), IsInjective(discovery), NEW chron \in Seq(Items), IsInjective(chron),
         NEW limit \in Nat, NEW m, MergedUpTo(m, (limit + 1) * Len(Round), discovery, chron, limit),
         Len(m.out) <= limit
  PROVE  /\ m.d = Len(discovery) /\ m.c = Len(chron)
         /\ ToSet(m.out) = ToSet(discovery) \cup ToSet(chron)
<1> DEFINE slots == (limit + 1) * Len(Round)
<1>1. /\ m \in Merged /\ IsInjective(m.out)
      /\ ToSet(m.out) \subseteq ToSet(discovery) \cup ToSet(chron)
      /\ HasOfList(m, discovery, "d", DiscoverySlots, 0, slots, limit)
      /\ HasOfList(m, chron, "c", ChronologicalSlots, DiscoverySlots, slots, limit)
  BY DEF MergedUpTo
<1>2. m.out \in Seq(Items) /\ Len(m.out) \in Nat
  BY <1>1, LenProperties DEF Merged
<1>3. /\ 0 + DiscoverySlots <= Len(Round) /\ DiscoverySlots + ChronologicalSlots <= Len(Round)
      /\ DiscoverySlots \in Nat \ {0} /\ ChronologicalSlots \in Nat \ {0} /\ limit + 1 \in Nat /\ slots \in Nat
  BY RoundLength, PagesConstants
<1>4. ASSUME NEW list \in Seq(Items), IsInjective(list), NEW from \in {"d", "c"}, NEW own \in Nat \ {0},
             NEW first \in Nat, first + own <= Len(Round), HasOfList(m, list, from, own, first, slots, limit)
      PROVE  m[from] = Len(list) /\ ToSet(list) \subseteq ToSet(m.out)
  <2>1. /\ m[from] \in 0 .. Len(list) /\ \A k \in 1 .. m[from] : list[k] \in ToSet(m.out)
        /\ m[from] = Len(list) \/ m[from] >= Share(own, first, slots)
    BY <1>4 DEF HasOfList
  <2>2. Share(own, first, slots) >= limit + 1 /\ Share(own, first, slots) \in Nat
    <3>1. Share(own, first, slots) >= limit + 1
      BY <1>3, <1>4, ShareOfRounds
    <3>2. own \in Nat
      BY <1>4
    <3> HIDE DEF slots
    <3>3. Share(own, first, slots) \in Nat
      BY <1>3, <1>4, <3>2, ShareStep
    <3> QED
      BY <3>1, <3>3 DEF slots
  <2>3. m[from] <= Len(m.out)
    <3>1. IsFiniteSet(ToSet(m.out)) /\ Cardinality(ToSet(m.out)) = Len(m.out)
      BY <1>1, <1>2, SetOfSequence
    <3>2. m[from] <= Cardinality(ToSet(m.out))
      BY <1>4, <2>1, <3>1, TakenAreThere
    <3> QED
      BY <3>1, <3>2
  <2>4. Len(list) \in Nat
    BY LenProperties
  <2>5. m[from] = Len(list)
    <3> DEFINE share == Share(own, first, slots)
    <3>1. share >= limit + 1 /\ share \in Nat /\ (m[from] = Len(list) \/ m[from] >= share)
      BY <2>1, <2>2
    <3> HIDE DEF share, slots
    <3> QED
      BY <1>2, <2>1, <2>3, <2>4, <3>1
  <2>6. ToSet(list) \subseteq ToSet(m.out)
    BY <2>1, <2>5, SetOfSequence
  <2> QED
    BY <2>5, <2>6
<1>5. m["d"] = Len(discovery) /\ ToSet(discovery) \subseteq ToSet(m.out)
  <2>1. HasOfList(m, discovery, "d", DiscoverySlots, 0, slots, limit) /\ 0 \in Nat
    BY <1>1
  <2> HIDE DEF slots
  <2> QED
    BY <1>3, <1>4, <2>1
<1>6. m["c"] = Len(chron) /\ ToSet(chron) \subseteq ToSet(m.out)
  <2>1. HasOfList(m, chron, "c", ChronologicalSlots, DiscoverySlots, slots, limit) /\ DiscoverySlots \in Nat
    BY <1>1, <1>3
  <2> HIDE DEF slots
  <2> QED
    BY <1>3, <1>4, <2>1
<1> QED
  BY <1>1, <1>5, <1>6

\* What FairPageIsFair says of a page, and what the next page goes on from.
PageIsFair(fair, discovery, chron, limit) ==
  LET all == ToSet(discovery) \cup ToSet(chron)
      Has(list, slots, first) ==
        \A n \in DOMAIN fair.items :
          Cardinality(ToSet(FirstOf(fair.items, n)) \cap ToSet(list))
            >= Min({Len(list), Share(slots, first, n)}) IN
  /\ fair.items \in Seq(Items) /\ IsInjective(fair.items) /\ fair.more \in BOOLEAN
  /\ Len(fair.items) = Min({limit, Cardinality(all)})
  /\ fair.more <=> Cardinality(all) > limit
  /\ Has(discovery, DiscoverySlots, 0)
  /\ Has(chron, ChronologicalSlots, DiscoverySlots)
  /\ ToSet(fair.items) \subseteq all /\ (~ fair.more => ToSet(fair.items) = all)
  /\ fair.cursor \in [discovery : 0 .. N, chron : 0 .. N]
  /\ discovery # <<>> => fair.cursor.discovery # 0
  /\ discovery = <<>> =>
       /\ fair.cursor.discovery = 0
       /\ \A k \in 1 .. Len(fair.items) : k <= Len(chron) /\ fair.items[k] = chron[k]
       /\ fair.more <=> Len(chron) > limit
       /\ fair.more => Len(fair.items) = limit /\ fair.cursor.chron = chron[limit + 1]

LEMMA FairPageProperties ==
  ASSUME NEW discovery \in Seq(Items), IsInjective(discovery), NEW chron \in Seq(Items), IsInjective(chron),
         NEW limit \in Nat
  PROVE  PageIsFair(FairPage(discovery, chron, limit), discovery, chron, limit)
<1> DEFINE m == Merge(discovery, chron, limit)
           items == FirstOf(m.out, limit)
           all == ToSet(discovery) \cup ToSet(chron)
           more == Len(m.out) > limit \/ m.d < Len(discovery) \/ m.c < Len(chron)
           cursor == [discovery |-> Part(discovery, m.d), chron |-> Part(chron, m.c)]
<1>1. MergedUpTo(m, (limit + 1) * Len(Round), discovery, chron, limit)
  BY MergeProperties
<1>2. FairPage(discovery, chron, limit) = [items |-> items, more |-> more, cursor |-> cursor]
  BY DEF FairPage
<1> HIDE DEF m
<1>3. /\ m \in Merged /\ IsInjective(m.out) /\ Len(m.out) <= limit + 1
      /\ ToSet(m.out) \subseteq all
      /\ discovery = <<>> => Len(m.out) = m.c /\ \A k \in 1 .. m.c : m.out[k] = chron[k]
      /\ m.d \in 0 .. Len(discovery) /\ m.c \in 0 .. Len(chron)
  <2>1. m["d"] \in 0 .. Len(discovery) /\ m["c"] \in 0 .. Len(chron)
    BY <1>1 DEF MergedUpTo, HasOfList
  <2> QED
    BY <1>1, <2>1 DEF MergedUpTo
<1>4. discovery # <<>> => m.d > 0
  <2>1. (limit + 1) * Len(Round) > 0
    BY RoundLength
  <2> QED
    BY <1>1, <2>1 DEF MergedUpTo
<1>5. /\ m.out \in Seq(Items) /\ Len(m.out) \in Nat /\ DOMAIN m.out = 1 .. Len(m.out)
      /\ Len(discovery) \in Nat /\ Len(chron) \in Nat /\ (discovery = <<>> <=> Len(discovery) = 0)
  BY <1>3, LenProperties, EmptySeq DEF Merged
<1>6. /\ items \in Seq(Items) /\ DOMAIN items = 1 .. Len(items)
      /\ Len(items) = IF limit <= Len(m.out) THEN limit ELSE Len(m.out)
      /\ \A k \in 1 .. Len(items) : items[k] = m.out[k]
  <2>1. /\ items \in Seq(Items) /\ Len(items) = IF limit <= Len(m.out) THEN limit ELSE Len(m.out)
        /\ \A k \in 1 .. Len(items) : items[k] = m.out[k]
    BY <1>5, FirstOfSequence
  <2> QED
    BY <2>1, LenProperties
<1> HIDE DEF items
<1>7. IsInjective(items)
  BY <1>3, <1>5, <1>6 DEF IsInjective
<1>8. IsFiniteSet(all) /\ Cardinality(all) \in Nat
  <2>1. IsFiniteSet(ToSet(discovery)) /\ IsFiniteSet(ToSet(chron))
    BY SetOfSequence
  <2> QED
    BY <2>1, FS_Union, FS_CardinalityType
<1>9. ToSet(items) \subseteq ToSet(m.out)
  <2>1. \A k \in 1 .. Len(items) : k \in 1 .. Len(m.out)
    BY <1>5, <1>6
  <2>2. \A k \in 1 .. Len(items) : items[k] \in ToSet(m.out)
    BY <1>5, <1>6, <2>1, SetOfSequence
  <2> QED
    BY <1>6, <2>2, SetOfSequence
<1>10. IsFiniteSet(ToSet(m.out)) /\ Cardinality(ToSet(m.out)) = Len(m.out)
  BY <1>3, <1>5, SetOfSequence
<1>11. IF Len(m.out) <= limit
       THEN Cardinality(all) = Len(m.out) /\ ~ more /\ ToSet(items) = all
       ELSE Cardinality(all) > limit /\ more
  <2>1. CASE Len(m.out) <= limit
    <3>1. m.d = Len(discovery) /\ m.c = Len(chron) /\ ToSet(m.out) = all
      BY <1>1, <2>1, MergeTakesAll
    <3>2. items = m.out
      BY <1>5, <1>6, <2>1, SeqEqual
    <3> QED
      BY <1>5, <1>10, <2>1, <3>1, <3>2
  <2>2. CASE ~ Len(m.out) <= limit
    <3>1. Len(m.out) > limit
      BY <1>5, <2>2
    <3>2. Cardinality(ToSet(m.out)) <= Cardinality(all)
      <4> HIDE DEF all
      <4> QED
        BY <1>3, <1>8, SubsetCardinality
    <3>3. Cardinality(all) > limit
      <4> HIDE DEF all
      <4> QED
        BY <1>5, <1>8, <1>10, <3>1, <3>2
    <3> QED
      BY <2>2, <3>1, <3>3
  <2> QED
    BY <2>1, <2>2
<1>12. Len(items) = Min({limit, Cardinality(all)}) /\ (more <=> Cardinality(all) > limit)
  <2> HIDE DEF all, more
  <2>1. Min({limit, Cardinality(all)}) = IF limit <= Cardinality(all) THEN limit ELSE Cardinality(all)
    BY <1>8, MinOfTwo
  <2> QED
    BY <1>5, <1>6, <1>8, <1>11, <2>1
<1>13. ASSUME NEW list, NEW from, NEW slots, NEW first, NEW s, HasOfList(m, list, from, slots, first, s, limit)
       PROVE  \A n \in DOMAIN items :
                Cardinality(ToSet(FirstOf(items, n)) \cap ToSet(list)) >= Min({Len(list), Share(slots, first, n)})
  <2>1. SUFFICES ASSUME NEW n \in 1 .. Len(items)
                 PROVE  Cardinality(ToSet(FirstOf(items, n)) \cap ToSet(list))
                          >= Min({Len(list), Share(slots, first, n)})
    BY <1>6
  <2>2. n \in 1 .. Len(m.out) /\ n \in Nat /\ n <= Len(items) /\ n <= Len(m.out) /\ Len(items) \in Nat
    BY <1>5, <1>6
  <2>3. FirstOf(items, n) = FirstOf(m.out, n)
    <3>1. /\ FirstOf(items, n) \in Seq(Items) /\ Len(FirstOf(items, n)) = n
          /\ \A k \in 1 .. n : FirstOf(items, n)[k] = items[k]
      BY <1>6, <2>2, FirstOfSequence
    <3>2. /\ FirstOf(m.out, n) \in Seq(Items) /\ Len(FirstOf(m.out, n)) = n
          /\ \A k \in 1 .. n : FirstOf(m.out, n)[k] = m.out[k]
      BY <1>5, <2>2, FirstOfSequence
    <3>3. \A k \in 1 .. n : items[k] = m.out[k]
      BY <1>6, <2>2
    <3> QED
      BY <3>1, <3>2, <3>3, SeqEqual
  <2> QED
    BY <1>13, <2>2, <2>3 DEF HasOfList
<1>14. /\ HasOfList(m, discovery, "d", DiscoverySlots, 0, (limit + 1) * Len(Round), limit)
       /\ HasOfList(m, chron, "c", ChronologicalSlots, DiscoverySlots, (limit + 1) * Len(Round), limit)
  BY <1>1 DEF MergedUpTo
<1>15. /\ cursor \in [discovery : 0 .. N, chron : 0 .. N]
       /\ discovery # <<>> => cursor.discovery # 0
       /\ discovery = <<>> => cursor.discovery = 0
  <2>1. ASSUME NEW list \in Seq(Items), NEW p \in 0 .. Len(list)
        PROVE  Part(list, p) \in 0 .. N /\ (p > 0 <=> Part(list, p) # 0)
    <3>1. CASE p = 0
      BY <3>1, PagesConstants DEF Part
    <3>2. CASE p # 0
      <4>1. p \in 1 .. Len(list) /\ p > 0
        BY <3>2, LenProperties
      <4>2. list[p] \in Items
        BY <4>1, ElementOfSeq
      <4>3. list[p] \in 1 .. N
        BY <4>2 DEF Items
      <4> QED
        BY <4>1, <4>3, PagesConstants DEF Part
    <3> QED
      BY <3>1, <3>2
  <2> QED
    BY <1>3, <1>4, <1>5, <2>1
<1>16. ASSUME discovery = <<>>
       PROVE  /\ \A k \in 1 .. Len(items) : k <= Len(chron) /\ items[k] = chron[k]
              /\ more <=> Len(chron) > limit
              /\ more => Len(items) = limit /\ cursor.chron = chron[limit + 1]
  <2>1. Len(m.out) = m.c /\ \A k \in 1 .. m.c : m.out[k] = chron[k]
    BY <1>3, <1>16
  <2>2. \A k \in 1 .. Len(items) : k <= Len(chron) /\ items[k] = chron[k]
    BY <1>3, <1>5, <1>6, <2>1
  <2>3. CASE Len(m.out) <= limit
    <3>1. m.c = Len(chron)
      BY <1>1, <2>3, MergeTakesAll
    <3>2. ~ more
      BY <1>11, <2>3
    <3> HIDE DEF more
    <3> QED
      BY <2>1, <2>2, <2>3, <3>1, <3>2, <1>5
  <2>4. CASE ~ Len(m.out) <= limit
    <3>1. more /\ m.c = limit + 1 /\ Len(items) = limit
      BY <1>3, <1>5, <1>6, <1>11, <2>1, <2>4
    <3>2. cursor.chron = chron[limit + 1] /\ Len(chron) > limit
      BY <1>3, <1>5, <3>1 DEF Part
    <3> HIDE DEF more, cursor
    <3> QED
      BY <2>2, <3>1, <3>2
  <2> QED
    BY <2>3, <2>4
<1>17. more \in BOOLEAN
  OBVIOUS
<1>18. ToSet(items) \subseteq all /\ (~ more => ToSet(items) = all)
  BY <1>3, <1>9, <1>11
<1>19. /\ \A n \in DOMAIN items :
            Cardinality(ToSet(FirstOf(items, n)) \cap ToSet(discovery))
              >= Min({Len(discovery), Share(DiscoverySlots, 0, n)})
       /\ \A n \in DOMAIN items :
            Cardinality(ToSet(FirstOf(items, n)) \cap ToSet(chron))
              >= Min({Len(chron), Share(ChronologicalSlots, DiscoverySlots, n)})
  BY <1>13, <1>14
<1> DEFINE fair == FairPage(discovery, chron, limit)
<1>20. fair.items = items /\ fair.more = more /\ fair.cursor = cursor
  <2> HIDE DEF items, more, cursor
  <2> QED
    BY <1>2
<1> HIDE DEF items, more, cursor, fair
<1>21. fair.items \in Seq(Items) /\ IsInjective(fair.items) /\ fair.more \in BOOLEAN
  BY <1>6, <1>7, <1>17, <1>20
<1>22. PageIsFair(fair, discovery, chron, limit)
  BY <1>12, <1>15, <1>16, <1>18, <1>19, <1>20, <1>21 DEF PageIsFair
<1> QED
  BY <1>22 DEF fair

-----------------------------------------------------------------------------
(* Who pages through the feed (FeedPages).                                   *)

ItemKeys == [votes : Nat, item : Nat]

Keys(kind) == [i \in Items |-> Key(kind, i)]
IsAfter(keys, i, cursor) == cursor = NoCursor \/ Below(keys[i], cursor)
IsUpTo(keys, i, next) == next = NoCursor \/ ~ Below(keys[i], next)

\* A page shows the items of S from its cursor to the next one, each once.
PageShows(kind, keys, cursor, page, next, S) ==
  /\ page \in Seq(Items)
  /\ next \in ItemKeys \cup {NoCursor}
  /\ cursor # NoCursor /\ next # NoCursor => Below(next, cursor)
  /\ \A i \in S : Times(page, i) = IF IsAfter(keys, i, cursor) /\ IsUpTo(keys, i, next) THEN 1 ELSE 0
  /\ kind # "trending" =>
       \A i \in Items : /\ Times(page, i) <= 1
                        /\ Times(page, i) # 0 => IsAfter(keys, i, cursor) /\ IsUpTo(keys, i, next)

\* What was shown of a list that is read through the cache: what the cursor
\* has reached.
ListRead(p, keys, S) ==
  LET reached(i) == p.stage = "done" \/ ~ IsAfter(keys, i, p.cursor) IN
  /\ p.cursor \in ItemKeys \cup {NoCursor}
  /\ \A i \in S : Times(p.shown, i) = IF reached(i) THEN 1 ELSE 0
  /\ p.query.kind # "trending" =>
       \A i \in Items : Times(p.shown, i) <= 1 /\ (Times(p.shown, i) # 0 => reached(i))
  /\ p.stage \notin {"discovered", "rejected"}

\* The chronological list of a page of the fair feed: from the cursor down,
\* one item more than the page has; no item of S is left out on the way.
ChronologicalOf(p, S) ==
  LET limit == ListLimit(p.query.limit)
      isBefore(i) == p.cursor = NoCursor \/ i < p.cursor.chron IN
  /\ p.chron \in Seq(Items) /\ Len(p.chron) <= limit + 1
  /\ \A k, l \in 1 .. Len(p.chron) : k < l => p.chron[l] < p.chron[k]
  /\ \A k \in 1 .. Len(p.chron) : isBefore(p.chron[k])
  /\ \A i \in S : isBefore(i) =>
       i \in ToSet(p.chron) \/ (Len(p.chron) = limit + 1 /\ i < p.chron[limit + 1])

\* What was shown of the fair feed, S being the steady items.
FairRead(p, eligible, S) ==
  LET aged == S \cap eligible = {}
      limit == ListLimit(p.query.limit)
      fair == FairPage(p.discovery, p.chron, limit) IN
  /\ p.stage # "keyed"
  /\ p.cursor \in [discovery : 0 .. N, chron : 0 .. N] \cup {NoCursor}
  /\ \A i \in S : Times(p.shown, i) <= 1
  /\ p.cursor = NoCursor /\ p.stage # "done" => p.shown = <<>>
  /\ p.cursor # NoCursor /\ Accepted(p.cursor) =>
       /\ aged
       /\ \A i \in S : i < p.cursor.chron => Times(p.shown, i) = 0
       /\ Cardinality({i \in S : i >= p.cursor.chron} \ ToSet(p.shown)) <= p.pages
  /\ p.stage = "done" => Cardinality(S \ ToSet(p.shown)) <= p.pages - 1
  /\ p.stage \in {"discovered", "enriching"} =>
       /\ Accepted(p.cursor)
       /\ p.discovery \in Seq(Items) /\ IsInjective(p.discovery)
       /\ p.discovery = <<>> => aged
       /\ p.cursor # NoCursor => S \cap ToSet(p.discovery) = {}
  /\ p.stage = "enriching" =>
       /\ ChronologicalOf(p, S)
       /\ p.page = fair.items /\ p.more = fair.more
       /\ p.next = IF fair.more /\ fair.items # <<>> THEN fair.cursor ELSE NoCursor

IsRequest(p) ==
  p = [stage |-> p.stage, query |-> p.query, cursor |-> p.cursor, follows |-> p.follows,
       discovery |-> p.discovery, chron |-> p.chron, page |-> p.page, next |-> p.next,
       more |-> p.more, shown |-> p.shown, pages |-> p.pages]

IsEntry(e) == e = [page |-> e.page, more |-> e.more, steady |-> e.steady, next |-> e.next]

\* A reader with its steady items S, those since its page was read, T; the
\* items its query selects, their keys, the ones that are eligible.
ReaderInv(p, S, T, matching, keys, eligible) ==
  /\ IsRequest(p)
  /\ p.query \in Query /\ p.stage \in Stages
  /\ p.shown \in Seq(Items) /\ p.pages \in Nat
  /\ S \subseteq matching
  /\ p.stage = "idle" => S = {} /\ p.shown = <<>>
  /\ p.query.kind # "fair" => ListRead(p, keys, S)
  /\ p.query.kind = "fair" => FairRead(p, eligible, S)
  /\ p.stage = "enriching" /\ p.query.kind # "fair" =>
       /\ S \subseteq T /\ T \subseteq matching
       /\ PageShows(p.query.kind, keys, p.cursor, p.page, p.next, T)

\* A page under a key of the cache.
CachedInv(k, entry, matching, keys) ==
  /\ IsEntry(entry)
  /\ entry.steady \subseteq matching
  /\ PageShows(k.query.kind, keys, k.cursor, entry.page, entry.next, entry.steady)

PagesInv ==
  /\ row \in [Items -> Row \cup {NotYet, Deleted}] /\ horizon \in Nat
  /\ DOMAIN reader = Readers
  /\ steady \in [Readers -> SUBSET Items] /\ since \in [Readers -> SUBSET Items]
  /\ \A r \in Readers :
       ReaderInv(reader[r], steady[r], since[r], Matching(reader[r].query),
                 Keys(reader[r].query.kind), Eligible(reader[r].query))
  /\ \A k \in DOMAIN cache :
       CachedInv(k, cache[k], Matching(k.query), Keys(k.query.kind))

LEMMA KeysAreOrdered ==
  ASSUME NEW a \in ItemKeys, NEW b \in ItemKeys, NEW c \in ItemKeys
  PROVE  /\ ~ Below(a, a)
         /\ Below(a, b) /\ Below(b, c) => Below(a, c)
         /\ a.item # b.item => Below(a, b) \/ Below(b, a)
         /\ Below(a, b) => ~ Below(b, a)
  BY DEF ItemKeys, Below

LEMMA KeysOfItems ==
  ASSUME row \in [Items -> Row \cup {NotYet, Deleted}], NEW kind, NEW i \in Items
  PROVE  /\ Key(kind, i).item = i
         /\ i \in Listed => Key(kind, i) \in ItemKeys
         /\ kind # "trending" => Key(kind, i) = [votes |-> 0, item |-> i] /\ Key(kind, i) \in ItemKeys
<1>1. i \in Nat
  BY PagesConstants DEF Items
<1>2. i \in Listed => row[i].votes \in Nat
  BY DEF Listed, Row
<1> QED
  BY <1>1, <1>2 DEF Key, ItemKeys

LEMMA ListLimits ==
  ASSUME NEW limit \in Nat
  PROVE  ListLimit(limit) \in Nat \ {0}
  BY PagesAssumption DEF ListLimit

LEMMA MatchingItems ==
  ASSUME NEW q
  PROVE  /\ Matching(q) \subseteq Listed /\ Listed \subseteq Items /\ Eligible(q) \subseteq Matching(q)
         /\ IsFiniteSet(Items) /\ Items \subseteq Nat
         /\ \A i \in Items : i > 0
<1>1. IsFiniteSet(Items) /\ Items \subseteq Nat /\ \A i \in Items : i > 0
  BY FS_Interval, PagesConstants DEF Items
<1> QED
  BY <1>1 DEF Matching, Listed, Eligible

\* How many times an item is on a list.
LEMMA TimesOnList ==
  ASSUME NEW s \in Seq(Items), NEW i
  PROVE  /\ Times(s, i) \in Nat
         /\ i \in ToSet(s) <=> Times(s, i) # 0
         /\ IsInjective(s) => Times(s, i) = IF i \in ToSet(s) THEN 1 ELSE 0
         /\ Times(<<>>, i) = 0
<1> DEFINE at == {k \in DOMAIN s : s[k] = i}
<1>1. Len(s) \in Nat /\ DOMAIN s = 1 .. Len(s)
  BY LenProperties
<1>2. IsFiniteSet(at)
  <2>1. IsFiniteSet(1 .. Len(s)) /\ at \in SUBSET (1 .. Len(s))
    BY <1>1, FS_Interval
  <2> QED
    BY <2>1, SubsetCardinality
<1>3. Times(s, i) = Cardinality(at)
  BY DEF Times
<1>4. i \in ToSet(s) <=> at # {}
  BY DEF ToSet
<1> HIDE DEF at
<1>5. Cardinality(at) \in Nat /\ (Cardinality(at) = 0 <=> at = {})
  BY <1>2, FS_CardinalityType, FS_EmptySet
<1>6. ASSUME IsInjective(s), at # {} PROVE Cardinality(at) = 1
  <2>1. PICK k \in at : TRUE
    BY <1>6
  <2>2. at = {k}
    BY <1>6, <2>1 DEF at, IsInjective
  <2> QED
    BY <2>2, FS_Singleton
<1>7. Times(<<>>, i) = 0
  <2>1. {k \in DOMAIN <<>> : <<>>[k] = i} = {}
    OBVIOUS
  <2> QED
    BY <2>1, FS_EmptySet DEF Times
<1> QED
  BY <1>3, <1>4, <1>5, <1>6, <1>7

LEMMA TimesOnBoth ==
  ASSUME NEW s \in Seq(Items), NEW t \in Seq(Items), NEW i
  PROVE  Times(s \o t, i) = Times(s, i) + Times(t, i) /\ s \o t \in Seq(Items)
<1> DEFINE n == Len(s)
           A == {k \in DOMAIN s : s[k] = i}
           B == {k \in DOMAIN t : t[k] = i}
           C == {k \in n + 1 .. n + Len(t) : t[k - n] = i}
           AB == {k \in DOMAIN (s \o t) : (s \o t)[k] = i}
<1>1. /\ n \in Nat /\ DOMAIN s = 1 .. n /\ Len(t) \in Nat /\ DOMAIN t = 1 .. Len(t)
      /\ s \o t \in Seq(Items) /\ DOMAIN (s \o t) = 1 .. n + Len(t)
      /\ \A k \in 1 .. n + Len(t) : (s \o t)[k] = IF k <= n THEN s[k] ELSE t[k - n]
  <2>1. n \in Nat /\ DOMAIN s = 1 .. n /\ Len(t) \in Nat /\ DOMAIN t = 1 .. Len(t)
    BY LenProperties
  <2>2. /\ s \o t \in Seq(Items) /\ Len(s \o t) = n + Len(t)
        /\ \A k \in 1 .. n + Len(t) : (s \o t)[k] = IF k <= n THEN s[k] ELSE t[k - n]
    BY ConcatProperties
  <2> QED
    BY <2>1, <2>2, LenProperties
<1>2. AB = A \cup C /\ A \cap C = {}
  BY <1>1
<1>3. IsFiniteSet(A) /\ IsFiniteSet(C) /\ IsFiniteSet(B)
  <2>1. IsFiniteSet(1 .. n) /\ IsFiniteSet(1 .. Len(t)) /\ IsFiniteSet(n + 1 .. n + Len(t))
    BY <1>1, FS_Interval
  <2>2. A \in SUBSET (1 .. n) /\ B \in SUBSET (1 .. Len(t)) /\ C \in SUBSET (n + 1 .. n + Len(t))
    BY <1>1
  <2> HIDE DEF A, B, C
  <2> QED
    BY <2>1, <2>2, SubsetCardinality
<1>4. Cardinality(B) = Cardinality(C)
  <2> DEFINE f == [k \in B |-> k + n]
  <2>1. f \in Bijection(B, C)
    <3>1. f \in [B -> C]
      BY <1>1
    <3>2. \A a, b \in B : f[a] = f[b] => a = b
      BY <1>1
    <3>3. \A c \in C : \E b \in B : f[b] = c
      <4>1. SUFFICES ASSUME NEW c \in C PROVE c - n \in B /\ f[c - n] = c
        OBVIOUS
      <4>2. c - n \in B
        BY <1>1
      <4>3. (c - n) + n = c
        BY <1>1
      <4> QED
        BY <4>2, <4>3
    <3> HIDE DEF f, B, C
    <3> QED
      BY <3>1, <3>2, <3>3 DEF Bijection, Injection, Surjection, IsInjective
  <2> HIDE DEF f, B, C
  <2> QED
    BY <1>3, <2>1, FS_Bijection DEF ExistsBijection
<1>5. Cardinality(AB) = Cardinality(A) + Cardinality(C)
  <2> HIDE DEF A, C, AB
  <2>1. Cardinality(A \cup C) = Cardinality(A) + Cardinality(C) - Cardinality({})
    BY <1>2, <1>3, FS_Union
  <2>2. Cardinality(A) \in Nat /\ Cardinality(C) \in Nat
    BY <1>3, FS_CardinalityType
  <2> QED
    BY <1>2, <2>1, <2>2, FS_EmptySet
<1>6. Times(s \o t, i) = Cardinality(AB) /\ Times(s, i) = Cardinality(A) /\ Times(t, i) = Cardinality(B)
  BY DEF Times
<1> QED
  BY <1>1, <1>4, <1>5, <1>6

\* A query with LIMIT: the first n of what it finds beyond its cursor.
LEMMA SelectProperties ==
  ASSUME row \in [Items -> Row \cup {NotYet, Deleted}], NEW q, NEW cursor, NEW n \in Nat
  PROVE  LET s == Select(q, cursor, n) IN
         /\ s \in Seq(Items) /\ IsInjective(s) /\ Len(s) <= n
         /\ ToSet(s) \subseteq After(q, cursor)
         /\ \A k, l \in 1 .. Len(s) : k < l => Below(Key(q.kind, s[l]), Key(q.kind, s[k]))
         /\ \A i \in After(q, cursor) :
              i \in ToSet(s) \/ (Len(s) = n /\ \A k \in 1 .. n : Below(Key(q.kind, i), Key(q.kind, s[k])))
<1> DEFINE F == After(q, cursor)
           before == [i \in F |-> {j \in F : Below(Key(q.kind, i), Key(q.kind, j))}]
           all == Ordered(F, before)
           s == Select(q, cursor, n)
<1>1. F \subseteq Listed /\ F \subseteq Items /\ IsFiniteSet(F)
  <2>1. F \subseteq Listed /\ F \in SUBSET Items /\ IsFiniteSet(Items)
    BY MatchingItems DEF After
  <2> QED
    BY <2>1, SubsetCardinality
<1>2. \A i \in F : Key(q.kind, i) \in ItemKeys /\ Key(q.kind, i).item = i
  BY <1>1, KeysOfItems
<1>3. s = FirstOf(all, n)
  BY DEF Select
<1> HIDE DEF F
<1>4. /\ before \in [F -> SUBSET F]
      /\ \A i \in F : i \notin before[i]
      /\ \A i, j, k \in F : i \in before[j] /\ j \in before[k] => i \in before[k]
      /\ \A i, j \in F : i = j \/ i \in before[j] \/ j \in before[i]
  <2>1. before \in [F -> SUBSET F]
    OBVIOUS
  <2>2. \A i \in F : i \notin before[i]
    BY <1>2, KeysAreOrdered
  <2>3. \A i, j, k \in F : i \in before[j] /\ j \in before[k] => i \in before[k]
    BY <1>2, KeysAreOrdered
  <2>4. \A i, j \in F : i = j \/ i \in before[j] \/ j \in before[i]
    BY <1>2, KeysAreOrdered
  <2> QED
    BY <2>1, <2>2, <2>3, <2>4
<1>5. /\ all \in Seq(F) /\ Len(all) = Cardinality(F) /\ ToSet(all) = F /\ Cardinality(F) \in Nat
      /\ \A k, l \in 1 .. Len(all) : k < l => all[k] \in before[all[l]]
  <2> HIDE DEF before
  <2> QED
    BY <1>1, <1>4, OrderedProperties, FS_CardinalityType
<1>6. \A k, l \in 1 .. Len(all) : k < l => Below(Key(q.kind, all[l]), Key(q.kind, all[k]))
  <2>1. \A k \in 1 .. Len(all) : all[k] \in F
    BY <1>5, ElementOfSeq
  <2> HIDE DEF all
  <2> QED
    BY <1>5, <2>1
<1> HIDE DEF all, before, s
<1>7. /\ s \in Seq(F) /\ Len(s) = (IF n <= Len(all) THEN n ELSE Len(all))
      /\ \A k \in 1 .. Len(s) : s[k] = all[k]
  BY <1>3, <1>5, FirstOfSequence
<1>8. /\ Len(s) \in Nat /\ Len(all) \in Nat /\ DOMAIN s = 1 .. Len(s) /\ Len(s) <= Len(all) /\ Len(s) <= n
      /\ \A k \in 1 .. Len(s) : s[k] \in F
  BY <1>5, <1>7, LenProperties, ElementOfSeq
<1>9. \A k, l \in 1 .. Len(s) : k < l => Below(Key(q.kind, s[l]), Key(q.kind, s[k]))
  BY <1>6, <1>7, <1>8
<1>10. s \in Seq(Items) /\ ToSet(s) \subseteq F
  <2>1. ToSet(s) \subseteq F
    BY <1>7, SetOfSequence
  <2>2. s = [k \in 1 .. Len(s) |-> s[k]]
    BY <1>7, LenProperties
  <2>3. s \in Seq(Items)
    BY <1>1, <1>8, <2>2, IsASeq
  <2> QED
    BY <2>1, <2>3
<1>11. IsInjective(s)
  <2>1. SUFFICES ASSUME NEW a \in 1 .. Len(s), NEW b \in 1 .. Len(s), s[a] = s[b], a < b PROVE FALSE
    BY <1>8 DEF IsInjective
  <2> QED
    BY <1>2, <1>8, <1>9, <2>1, KeysAreOrdered
<1>12. ASSUME NEW i \in F, i \notin ToSet(s)
       PROVE  Len(s) = n /\ \A k \in 1 .. n : Below(Key(q.kind, i), Key(q.kind, s[k]))
  <2>1. PICK l \in 1 .. Len(all) : all[l] = i
    BY <1>5, SetOfSequence
  <2>2. l \notin 1 .. Len(s)
    BY <1>7, <1>12, <2>1, SetOfSequence
  <2>3. Len(s) = n /\ n < l
    BY <1>7, <1>8, <2>1, <2>2
  <2>4. ASSUME NEW k \in 1 .. n PROVE Below(Key(q.kind, i), Key(q.kind, s[k]))
    <3>1. k \in 1 .. Len(all) /\ k < l /\ s[k] = all[k]
      BY <1>7, <1>8, <2>1, <2>3
    <3> QED
      BY <1>6, <2>1, <3>1
  <2> QED
    BY <2>3, <2>4
<1> QED
  BY <1>8, <1>9, <1>10, <1>11, <1>12 DEF s, F

LEMMA LastOfSequence ==
  ASSUME NEW S, NEW s \in Seq(S), Len(s) > 0
  PROVE  Last(s) = s[Len(s)]
  BY DEF Last

\* What PageOf reads is a page.
LEMMA PageOfShows ==
  ASSUME row \in [Items -> Row \cup {NotYet, Deleted}], NEW q \in Query,
         NEW cursor \in ItemKeys \cup {NoCursor}
  PROVE  /\ PageShows(q.kind, Keys(q.kind), cursor, PageOf(q, cursor).page, PageOf(q, cursor).next, Matching(q))
         /\ PageOf(q, cursor).steady = Matching(q)
         /\ IsEntry(PageOf(q, cursor))
<1> DEFINE limit == ListLimit(q.limit)
           found == Select(q, cursor, limit + 1)
           page == FirstOf(found, limit)
           more == Len(found) > limit
           next == IF more THEN Key(q.kind, Last(page)) ELSE NoCursor
           F == After(q, cursor)
           keys == Keys(q.kind)
<1>1. limit \in Nat \ {0}
  <2>1. q.limit \in Nat
    BY DEF Query
  <2> QED
    BY <2>1, ListLimits
<1>2. PageOf(q, cursor) = [page |-> page, more |-> more, steady |-> Matching(q), next |-> next]
  BY DEF PageOf
<1> HIDE DEF limit
<1>3. /\ found \in Seq(Items) /\ IsInjective(found) /\ Len(found) <= limit + 1 /\ ToSet(found) \subseteq F
      /\ \A k, l \in 1 .. Len(found) : k < l => Below(Key(q.kind, found[l]), Key(q.kind, found[k]))
      /\ \A i \in F : i \in ToSet(found)
           \/ (Len(found) = limit + 1 /\ \A k \in 1 .. limit + 1 : Below(Key(q.kind, i), Key(q.kind, found[k])))
  <2>1. limit + 1 \in Nat
    BY <1>1
  <2> QED
    BY <2>1, SelectProperties
<1>4. F \subseteq Matching(q) /\ Matching(q) \subseteq Listed /\ Matching(q) \subseteq Items
      /\ \A i \in Matching(q) : i \in F <=> IsAfter(keys, i, cursor)
  <2>1. Matching(q) \subseteq Listed /\ Matching(q) \subseteq Items /\ F \subseteq Matching(q)
    BY MatchingItems DEF After
  <2>2. \A i \in Items : keys[i] = Key(q.kind, i)
    BY DEF Keys
  <2> QED
    BY <2>1, <2>2 DEF After, IsAfter
<1>18. \A i \in Matching(q) : keys[i] = Key(q.kind, i)
  BY <1>4 DEF Keys
<1> HIDE DEF keys
<1>5. \A i \in Matching(q) : Key(q.kind, i) \in ItemKeys /\ Key(q.kind, i).item = i
  BY <1>4, KeysOfItems
<1> HIDE DEF found, F
<1>6. /\ Len(found) \in Nat /\ DOMAIN found = 1 .. Len(found)
      /\ \A k \in 1 .. Len(found) : found[k] \in F
      /\ \A i \in ToSet(found) : \E k \in 1 .. Len(found) : found[k] = i
  BY <1>3, SetOfSequence
<1>0. limit \in Nat /\ limit > 0 /\ Len(found) \in Nat /\ Len(found) <= limit + 1
  <2>1. limit \in Nat /\ limit > 0
    BY <1>1
  <2>2. Len(found) \in Nat
    BY <1>6
  <2>3. Len(found) <= limit + 1
    BY <1>3
  <2> QED
    BY <2>1, <2>2, <2>3
<1>7. /\ page \in Seq(Items) /\ Len(page) = (IF more THEN limit ELSE Len(found))
      /\ \A k \in 1 .. Len(page) : page[k] = found[k]
  <2>1. /\ page \in Seq(Items) /\ Len(page) = IF limit <= Len(found) THEN limit ELSE Len(found)
        /\ \A k \in 1 .. Len(page) : page[k] = found[k]
    BY <1>1, <1>3, FirstOfSequence
  <2>2. (IF limit <= Len(found) THEN limit ELSE Len(found)) = IF more THEN limit ELSE Len(found)
    BY <1>0
  <2> QED
    BY <2>1, <2>2
<1> HIDE DEF page
<1>8. /\ Len(page) \in Nat /\ DOMAIN page = 1 .. Len(page) /\ Len(page) <= Len(found)
      /\ \A i \in ToSet(page) : \E k \in 1 .. Len(page) : found[k] = i
      /\ \A k \in 1 .. Len(page) : found[k] \in ToSet(page)
  <2>1. /\ Len(page) \in Nat /\ DOMAIN page = 1 .. Len(page)
        /\ \A i \in ToSet(page) : \E k \in 1 .. Len(page) : page[k] = i
        /\ \A k \in 1 .. Len(page) : page[k] \in ToSet(page)
    BY <1>7, SetOfSequence
  <2>2. Len(page) <= Len(found)
    BY <1>0, <1>7
  <2> QED
    BY <1>7, <2>1, <2>2
<1>9. IsInjective(page)
  BY <1>3, <1>6, <1>7, <1>8 DEF IsInjective
<1>10. more => Len(found) = limit + 1 /\ next = Key(q.kind, found[limit]) /\ limit \in 1 .. Len(found)
  <2>1. SUFFICES ASSUME more PROVE Len(found) = limit + 1 /\ next = Key(q.kind, found[limit])
                                   /\ limit \in 1 .. Len(found)
    OBVIOUS
  <2>2. Len(found) = limit + 1 /\ limit \in 1 .. Len(found) /\ limit \in 1 .. Len(page) /\ Len(page) = limit
    BY <1>0, <1>7, <2>1
  <2>3. Last(page) = page[limit]
    BY <1>1, <1>7, <2>2, LastOfSequence
  <2> QED
    BY <1>7, <2>1, <2>2, <2>3
<1>11. next \in ItemKeys \cup {NoCursor} /\ (next # NoCursor => more)
  BY <1>4, <1>5, <1>6, <1>10
<1>12. cursor # NoCursor /\ next # NoCursor => Below(next, cursor)
  BY <1>4, <1>6, <1>10, <1>11, <1>18 DEF IsAfter
<1>13. ASSUME NEW i \in ToSet(page)
       PROVE  i \in F /\ IsUpTo(keys, i, next)
  <2>1. PICK k \in 1 .. Len(page) : found[k] = i
    BY <1>8
  <2>2. k \in 1 .. Len(found) /\ i \in F
    BY <1>6, <1>8, <2>1
  <2>3. ASSUME next # NoCursor PROVE ~ Below(Key(q.kind, i), next)
    <3>1. more /\ next = Key(q.kind, found[limit]) /\ k <= limit /\ limit \in 1 .. Len(found)
      BY <1>1, <1>7, <1>10, <1>11, <2>3
    <3>2. k < limit => Below(next, Key(q.kind, i))
      BY <1>3, <2>1, <2>2, <3>1
    <3>3. k = limit => next = Key(q.kind, i)
      BY <2>1, <3>1
    <3>4. Key(q.kind, i) \in ItemKeys /\ next \in ItemKeys
      BY <1>4, <1>5, <1>11, <2>2, <2>3
    <3>5. k < limit \/ k = limit
      BY <1>1, <3>1
    <3> HIDE DEF next
    <3> QED
      BY <3>2, <3>3, <3>4, <3>5, KeysAreOrdered
  <2> HIDE DEF next
  <2> QED
    BY <1>4, <1>18, <2>2, <2>3 DEF IsUpTo
<1>14. ASSUME NEW i \in F, IsUpTo(keys, i, next) PROVE i \in ToSet(page)
  <2>1. CASE ~ more
    <3>1. i \in ToSet(found)
      <4>1. Len(found) # limit + 1
        BY <1>0, <2>1
      <4> QED
        BY <1>3, <4>1
    <3>2. PICK k \in 1 .. Len(found) : found[k] = i
      BY <1>6, <3>1
    <3> QED
      BY <1>7, <1>8, <2>1, <3>2
  <2>2. CASE more
    <3>1. /\ Len(found) = limit + 1 /\ next = Key(q.kind, found[limit]) /\ limit \in 1 .. Len(found)
          /\ limit \in 1 .. limit + 1
      BY <1>1, <1>10, <2>2
    <3>2. next # NoCursor
      <4>1. next \in ItemKeys
        BY <1>4, <1>5, <1>6, <3>1
      <4> HIDE DEF next
      <4> QED
        BY <4>1, PagesAssumption DEF ItemKeys
    <3>3. ~ Below(Key(q.kind, i), Key(q.kind, found[limit]))
      <4> HIDE DEF next
      <4> QED
        BY <1>4, <1>14, <1>18, <3>1, <3>2 DEF IsUpTo
    <3>4. i \in ToSet(found)
      BY <1>3, <3>1, <3>3
    <3>5. PICK k \in 1 .. Len(found) : found[k] = i
      BY <1>6, <3>4
    <3>6. k <= limit
      <4>1. SUFFICES ASSUME k > limit PROVE FALSE
        BY <1>1, <1>6
      <4> QED
        BY <1>3, <3>1, <3>3, <3>5, <4>1
    <3> QED
      BY <1>1, <1>7, <1>8, <2>2, <3>5, <3>6
  <2> QED
    BY <2>1, <2>2
<1>15. \A i \in Matching(q) :
         Times(page, i) = IF IsAfter(keys, i, cursor) /\ IsUpTo(keys, i, next) THEN 1 ELSE 0
  <2> HIDE DEF next
  <2>1. SUFFICES ASSUME NEW i \in Matching(q)
                 PROVE  Times(page, i) = IF IsAfter(keys, i, cursor) /\ IsUpTo(keys, i, next) THEN 1 ELSE 0
    OBVIOUS
  <2>2. i \in ToSet(page) <=> IsAfter(keys, i, cursor) /\ IsUpTo(keys, i, next)
    BY <1>4, <1>13, <1>14
  <2>3. Times(page, i) = IF i \in ToSet(page) THEN 1 ELSE 0
    BY <1>7, <1>9, TimesOnList
  <2> QED
    BY <2>2, <2>3
<1>16. ASSUME NEW i \in Items
       PROVE  Times(page, i) <= 1
              /\ (Times(page, i) # 0 => IsAfter(keys, i, cursor) /\ IsUpTo(keys, i, next))
  <2> HIDE DEF next
  <2>1. Times(page, i) = IF i \in ToSet(page) THEN 1 ELSE 0
    BY <1>7, <1>9, TimesOnList
  <2>2. i \in ToSet(page) => IsAfter(keys, i, cursor) /\ IsUpTo(keys, i, next)
    BY <1>4, <1>13
  <2> QED
    BY <2>1, <2>2
<1> DEFINE read == PageOf(q, cursor)
<1>17. read.page = page /\ read.next = next /\ read.steady = Matching(q) /\ IsEntry(read)
  <2> HIDE DEF next, more
  <2> QED
    BY <1>2 DEF IsEntry
<1> HIDE DEF next, read
<1>19. PageShows(q.kind, keys, cursor, read.page, read.next, Matching(q))
  BY <1>7, <1>11, <1>12, <1>15, <1>16, <1>17 DEF PageShows
<1> QED
  BY <1>17, <1>19 DEF read, keys

LEMMA ShownFields ==
  ASSUME NEW p, NEW page, NEW next, NEW more
  PROVE  LET n == Shown(p, page, next, more) IN
         /\ IsRequest(n)
         /\ n.stage = (IF next # NoCursor THEN "asked" ELSE "done")
         /\ n.query = p.query /\ n.cursor = next /\ n.shown = p.shown \o page /\ n.pages = p.pages + 1
<1> DEFINE st == IF next # NoCursor THEN "asked" ELSE "done"
           sh == p.shown \o page
           pg == p.pages + 1
           n == Shown(p, page, next, more)
<1>0. n = [Idle EXCEPT !.stage = st, !.query = p.query, !.cursor = next, !.more = more,
                       !.shown = sh, !.pages = pg]
  BY DEF Shown
<1> HIDE DEF n, st, sh, pg
<1>1. n = [stage |-> st, query |-> p.query, cursor |-> next, follows |-> <<>>, discovery |-> <<>>,
           chron |-> <<>>, page |-> <<>>, next |-> NoCursor, more |-> more, shown |-> sh, pages |-> pg]
  BY <1>0 DEF Idle
<1>2. n.stage = st /\ n.query = p.query /\ n.cursor = next /\ n.shown = sh /\ n.pages = pg
  BY <1>1
<1>3. IsRequest(n)
  BY <1>1 DEF IsRequest
<1> QED
  BY <1>2, <1>3 DEF n, st, sh, pg

\* A page more of a list that is read through the cache.
LEMMA ListPageShown ==
  ASSUME NEW p, NEW keys, NEW S \in SUBSET Items, NEW T \in SUBSET Items, ListRead(p, keys, S),
         \A i \in S : keys[i] \in ItemKeys,
         p.query.kind # "trending" => \A i \in Items : keys[i] \in ItemKeys,
         p.shown \in Seq(Items), p.stage # "done",
         NEW page, NEW next, NEW more, PageShows(p.query.kind, keys, p.cursor, page, next, T),
         NEW U \in SUBSET (S \cap T)
  PROVE  ListRead(Shown(p, page, next, more), keys, U)
<1> DEFINE n == Shown(p, page, next, more)
           kind == p.query.kind
           reached(i) == ~ IsAfter(keys, i, p.cursor)
           upTo(i) == n.stage = "done" \/ ~ IsAfter(keys, i, next)
<1>1. /\ n.stage = (IF next # NoCursor THEN "asked" ELSE "done") /\ n.query = p.query /\ n.cursor = next
      /\ n.shown = p.shown \o page
  BY ShownFields
<1> HIDE DEF n
<1>2. /\ p.cursor \in ItemKeys \cup {NoCursor}
      /\ \A i \in S : Times(p.shown, i) = IF reached(i) THEN 1 ELSE 0
      /\ kind # "trending" =>
           \A i \in Items : Times(p.shown, i) <= 1 /\ (Times(p.shown, i) # 0 => reached(i))
  BY DEF ListRead
<1>3. /\ page \in Seq(Items) /\ next \in ItemKeys \cup {NoCursor}
      /\ p.cursor # NoCursor /\ next # NoCursor => Below(next, p.cursor)
      /\ \A i \in T : Times(page, i) = IF IsAfter(keys, i, p.cursor) /\ IsUpTo(keys, i, next) THEN 1 ELSE 0
      /\ kind # "trending" =>
           \A i \in Items : /\ Times(page, i) <= 1
                            /\ Times(page, i) # 0 => IsAfter(keys, i, p.cursor) /\ IsUpTo(keys, i, next)
  BY DEF PageShows
<1>4. \A i \in Items : /\ Times(n.shown, i) = Times(p.shown, i) + Times(page, i)
                       /\ Times(p.shown, i) \in Nat /\ Times(page, i) \in Nat
  BY <1>1, <1>3, TimesOnBoth, TimesOnList
<1>5. ASSUME NEW i, keys[i] \in ItemKeys
      PROVE  /\ upTo(i) <=> IsUpTo(keys, i, next)
             /\ reached(i) => upTo(i)
  <2>1. upTo(i) <=> IsUpTo(keys, i, next)
    BY <1>1 DEF IsAfter, IsUpTo
  <2>2. ASSUME reached(i) PROVE IsUpTo(keys, i, next)
    <3>1. p.cursor # NoCursor /\ ~ Below(keys[i], p.cursor) /\ p.cursor \in ItemKeys
      BY <1>2, <2>2 DEF IsAfter
    <3>2. ASSUME next # NoCursor, Below(keys[i], next) PROVE FALSE
      <4>1. next \in ItemKeys /\ Below(next, p.cursor)
        BY <1>3, <3>1, <3>2
      <4> QED
        BY <1>5, <3>1, <3>2, <4>1, KeysAreOrdered
    <3> QED
      BY <3>2 DEF IsUpTo
  <2> QED
    BY <2>1, <2>2
<1> HIDE DEF upTo
<1>6. ASSUME NEW i \in U PROVE Times(n.shown, i) = IF upTo(i) THEN 1 ELSE 0
  <2>1. i \in S /\ i \in T /\ i \in Items /\ keys[i] \in ItemKeys
    OBVIOUS
  <2>2. (upTo(i) <=> IsUpTo(keys, i, next)) /\ (reached(i) => upTo(i))
    BY <1>5, <2>1
  <2>3. Times(n.shown, i) = Times(p.shown, i) + Times(page, i)
    BY <1>4, <2>1
  <2>4. Times(p.shown, i) = IF reached(i) THEN 1 ELSE 0
    BY <1>2, <2>1
  <2>5. Times(page, i) = IF ~ reached(i) /\ upTo(i) THEN 1 ELSE 0
    BY <1>3, <2>1, <2>2
  <2> HIDE DEF reached
  <2> QED
    BY <2>2, <2>3, <2>4, <2>5
<1>7. ASSUME kind # "trending", NEW i \in Items
      PROVE  Times(n.shown, i) <= 1 /\ (Times(n.shown, i) # 0 => upTo(i))
  <2>1. keys[i] \in ItemKeys
    BY <1>7
  <2>2. (upTo(i) <=> IsUpTo(keys, i, next)) /\ (reached(i) => upTo(i))
    BY <1>5, <2>1
  <2>3. /\ Times(n.shown, i) = Times(p.shown, i) + Times(page, i)
        /\ Times(p.shown, i) \in Nat /\ Times(page, i) \in Nat
    BY <1>4
  <2>4. Times(p.shown, i) <= 1 /\ (Times(p.shown, i) # 0 => reached(i))
    BY <1>2, <1>7
  <2>5. Times(page, i) <= 1 /\ (Times(page, i) # 0 => ~ reached(i) /\ upTo(i))
    BY <1>3, <1>7, <2>2
  <2> HIDE DEF reached
  <2> QED
    BY <2>2, <2>3, <2>4, <2>5
<1>8. n.stage \notin {"discovered", "rejected"}
  BY <1>1
<1>9. ListRead(n, keys, U)
  BY <1>1, <1>3, <1>6, <1>7, <1>8 DEF ListRead, upTo
<1> QED
  BY <1>9 DEF n

LEMMA ChronologicalIsInjective ==
  ASSUME NEW s \in Seq(Items), \A k, l \in 1 .. Len(s) : k < l => s[l] < s[k]
  PROVE  IsInjective(s)
<1>1. Len(s) \in Nat /\ DOMAIN s = 1 .. Len(s) /\ \A k \in 1 .. Len(s) : s[k] \in Nat
  BY SetOfSequence, MatchingItems
<1>2. \A k, l \in 1 .. Len(s) : k < l => s[l] # s[k]
  BY <1>1
<1>3. \A k, l \in 1 .. Len(s) : k = l \/ k < l \/ l < k
  BY <1>1
<1> QED
  BY <1>1, <1>2, <1>3 DEF IsInjective

\* A page more of the fair feed.
LEMMA FairPageShown ==
  ASSUME NEW p, NEW eligible, NEW S \in SUBSET Items, FairRead(p, eligible, S), p.stage = "enriching", p.query.limit \in Nat,
         p.shown \in Seq(Items), p.pages \in Nat
  PROVE  FairRead(Shown(p, p.page, p.next, p.more), eligible, S) /\ p.page \in Seq(Items)
<1> DEFINE n == Shown(p, p.page, p.next, p.more)
           limit == ListLimit(p.query.limit)
           fair == FairPage(p.discovery, p.chron, limit)
           all == ToSet(p.discovery) \cup ToSet(p.chron)
           aged == S \cap eligible = {}
           isBefore(i) == p.cursor = NoCursor \/ i < p.cursor.chron
           FairCursors == [discovery : 0 .. N, chron : 0 .. N]
<1>1. /\ n.stage = (IF p.next # NoCursor THEN "asked" ELSE "done") /\ n.query = p.query /\ n.cursor = p.next
      /\ n.shown = p.shown \o p.page /\ n.pages = p.pages + 1
  <2> DEFINE page == p.page
             next == p.next
             more == p.more
  <2> HIDE DEF page, next, more
  <2>1. LET s == Shown(p, page, next, more) IN
        /\ s.stage = (IF next # NoCursor THEN "asked" ELSE "done") /\ s.query = p.query /\ s.cursor = next
        /\ s.shown = p.shown \o page /\ s.pages = p.pages + 1
    BY ShownFields
  <2> QED
    BY <2>1 DEF page, next, more
<1> HIDE DEF n
<1>2. limit \in Nat /\ limit > 0
  BY ListLimits
<1> HIDE DEF limit
<1>3. /\ p.cursor \in FairCursors \cup {NoCursor}
      /\ \A i \in S : Times(p.shown, i) <= 1
      /\ p.cursor = NoCursor => p.shown = <<>>
      /\ p.cursor # NoCursor =>
           /\ aged
           /\ \A i \in S : i < p.cursor.chron => Times(p.shown, i) = 0
           /\ Cardinality({i \in S : i >= p.cursor.chron} \ ToSet(p.shown)) <= p.pages
           /\ S \cap ToSet(p.discovery) = {}
      /\ p.discovery = <<>> => aged
  BY DEF FairRead
<1>4. p.discovery \in Seq(Items) /\ IsInjective(p.discovery)
  BY DEF FairRead
<1>5. p.page = fair.items /\ p.next = (IF fair.more /\ fair.items # <<>> THEN fair.cursor ELSE NoCursor)
  BY DEF FairRead, limit
<1>6. /\ p.chron \in Seq(Items) /\ Len(p.chron) <= limit + 1
      /\ \A k, l \in 1 .. Len(p.chron) : k < l => p.chron[l] < p.chron[k]
      /\ \A k \in 1 .. Len(p.chron) : isBefore(p.chron[k])
      /\ \A i \in S : isBefore(i) =>
           i \in ToSet(p.chron) \/ (Len(p.chron) = limit + 1 /\ i < p.chron[limit + 1])
  BY DEF FairRead, ChronologicalOf, limit
<1>7. IsInjective(p.chron)
  BY <1>6, ChronologicalIsInjective
<1>8. /\ fair.items \in Seq(Items) /\ IsInjective(fair.items) /\ fair.more \in BOOLEAN
      /\ Len(fair.items) = Min({limit, Cardinality(all)})
      /\ fair.more <=> Cardinality(all) > limit
      /\ ToSet(fair.items) \subseteq all /\ (~ fair.more => ToSet(fair.items) = all)
      /\ fair.cursor \in FairCursors
      /\ p.discovery # <<>> => fair.cursor.discovery # 0
      /\ p.discovery = <<>> =>
           /\ \A k \in 1 .. Len(fair.items) : k <= Len(p.chron) /\ fair.items[k] = p.chron[k]
           /\ fair.more <=> Len(p.chron) > limit
           /\ fair.more => Len(fair.items) = limit /\ fair.cursor.chron = p.chron[limit + 1]
  <2>1. PageIsFair(fair, p.discovery, p.chron, limit)
    BY <1>2, <1>4, <1>6, <1>7, FairPageProperties
  <2> HIDE DEF fair
  <2> QED
    BY <2>1 DEF PageIsFair
<1> HIDE DEF fair
<1>9. /\ Len(p.chron) \in Nat /\ DOMAIN p.chron = 1 .. Len(p.chron)
      /\ \A k \in 1 .. Len(p.chron) : p.chron[k] \in Items /\ p.chron[k] \in ToSet(p.chron)
      /\ \A i \in ToSet(p.chron) : \E k \in 1 .. Len(p.chron) : p.chron[k] = i
  BY <1>6, SetOfSequence
<1>10. /\ IsFiniteSet(ToSet(p.chron)) /\ Cardinality(ToSet(p.chron)) = Len(p.chron)
       /\ IsFiniteSet(all) /\ Cardinality(all) \in Nat /\ Len(p.chron) <= Cardinality(all)
  <2>1. IsFiniteSet(ToSet(p.chron)) /\ Cardinality(ToSet(p.chron)) = Len(p.chron)
    BY <1>6, <1>7, SetOfSequence
  <2>2. IsFiniteSet(all)
    BY <1>4, <2>1, SetOfSequence, FS_Union
  <2>3. ToSet(p.chron) \in SUBSET all
    OBVIOUS
  <2> HIDE DEF all
  <2> QED
    BY <2>1, <2>2, <2>3, SubsetCardinality
<1>11. fair.more => fair.items # <<>>
  <2>1. Min({limit, Cardinality(all)}) = IF limit <= Cardinality(all) THEN limit ELSE Cardinality(all)
    <3> HIDE DEF all
    <3> QED
      BY <1>2, <1>10, MinOfTwo
  <2> HIDE DEF all
  <2> QED
    BY <1>2, <1>8, <1>10, <2>1, EmptySeq
<1>12. fair.cursor # NoCursor
  <2>1. fair.cursor \in [discovery : Nat, chron : Nat]
    BY <1>8, PagesConstants
  <2> QED
    BY <2>1, PagesAssumption
<1>13. IF fair.more THEN p.next = fair.cursor /\ n.stage = "asked" ELSE p.next = NoCursor /\ n.stage = "done"
  BY <1>1, <1>5, <1>11, <1>12
<1>14. \A i \in Items : /\ Times(n.shown, i) = Times(p.shown, i) + Times(p.page, i)
                        /\ Times(p.shown, i) \in Nat /\ Times(p.page, i) \in Nat
                        /\ Times(p.page, i) = IF i \in ToSet(p.page) THEN 1 ELSE 0
                        /\ i \in ToSet(p.shown) <=> Times(p.shown, i) # 0
                        /\ i \in ToSet(n.shown) <=> Times(n.shown, i) # 0
                        /\ Times(<<>>, i) = 0
  <2>1. p.page \in Seq(Items) /\ IsInjective(p.page)
    BY <1>5, <1>8
  <2>2. SUFFICES ASSUME NEW i \in Items
                 PROVE  /\ Times(n.shown, i) = Times(p.shown, i) + Times(p.page, i)
                        /\ Times(p.shown, i) \in Nat /\ Times(p.page, i) \in Nat
                        /\ Times(p.page, i) = IF i \in ToSet(p.page) THEN 1 ELSE 0
                        /\ i \in ToSet(p.shown) <=> Times(p.shown, i) # 0
                        /\ i \in ToSet(n.shown) <=> Times(n.shown, i) # 0
                        /\ Times(<<>>, i) = 0
    OBVIOUS
  <2>3. n.shown \in Seq(Items) /\ Times(n.shown, i) = Times(p.shown, i) + Times(p.page, i)
    BY <1>1, <2>1, TimesOnBoth
  <2>4. Times(n.shown, i) \in Nat /\ (i \in ToSet(n.shown) <=> Times(n.shown, i) # 0)
    BY <2>3, TimesOnList
  <2>5. Times(p.shown, i) \in Nat /\ (i \in ToSet(p.shown) <=> Times(p.shown, i) # 0) /\ Times(<<>>, i) = 0
    BY TimesOnList
  <2>6. Times(p.page, i) \in Nat /\ Times(p.page, i) = IF i \in ToSet(p.page) THEN 1 ELSE 0
    BY <2>1, TimesOnList
  <2> QED
    BY <2>3, <2>4, <2>5, <2>6
<1>15. \A i \in Items : i \in ToSet(n.shown) <=> i \in ToSet(p.shown) \/ i \in ToSet(p.page)
  BY <1>14
<1>16. ASSUME NEW i \in S, i \in ToSet(p.page), p.cursor # NoCursor
       PROVE  i \in ToSet(p.chron) /\ i < p.cursor.chron /\ Times(p.shown, i) = 0
  <2>1. i \in ToSet(p.chron)
    BY <1>3, <1>5, <1>8, <1>16
  <2>2. i < p.cursor.chron
    BY <1>6, <1>9, <1>16, <2>1
  <2> QED
    BY <1>3, <1>16, <2>1, <2>2
<1>17. ASSUME NEW i \in S PROVE Times(n.shown, i) <= 1
  <2>1. i \in Items
    OBVIOUS
  <2>2. CASE i \in ToSet(p.page)
    <3>1. Times(p.shown, i) = 0
      BY <1>3, <1>14, <1>16, <2>1, <2>2
    <3> QED
      BY <1>14, <2>1, <2>2, <3>1
  <2>3. CASE i \notin ToSet(p.page)
    <3>1. Times(p.shown, i) <= 1
      BY <1>3
    <3> QED
      BY <1>14, <2>1, <2>3, <3>1
  <2> QED
    BY <2>2, <2>3
<1> DEFINE Missed == {i \in S : i >= p.cursor.chron} \ ToSet(p.shown)
<1>18. IsFiniteSet(S) /\ IsFiniteSet(Missed)
  <2>1. IsFiniteSet(S)
    BY MatchingItems, SubsetCardinality
  <2>2. Missed \in SUBSET S
    OBVIOUS
  <2> QED
    BY <2>1, <2>2, SubsetCardinality
<1>19. ASSUME ~ fair.more PROVE Cardinality(S \ ToSet(n.shown)) <= n.pages - 1
  <2>1. Len(p.chron) <= limit
    BY <1>2, <1>8, <1>9, <1>10, <1>19
  <2>2. ASSUME NEW i \in S, isBefore(i) PROVE i \in ToSet(n.shown)
    <3>1. i \in ToSet(p.chron)
      BY <1>2, <1>6, <1>9, <2>1, <2>2
    <3>2. i \in ToSet(p.page)
      BY <1>5, <1>8, <1>19, <3>1
    <3> QED
      BY <1>15, <3>2
  <2>3. CASE p.cursor = NoCursor
    <3>1. S \ ToSet(n.shown) = {}
      BY <2>2, <2>3
    <3>2. Cardinality(S \ ToSet(n.shown)) = 0
      BY <3>1, FS_EmptySet
    <3>3. n.pages = p.pages + 1
      BY <1>1
    <3> QED
      BY <3>2, <3>3
  <2>4. CASE p.cursor # NoCursor
    <3>1. p.cursor.chron \in Nat /\ \A i \in S : i \in Nat
      BY <1>3, <2>4, PagesConstants, MatchingItems
    <3>2. S \ ToSet(n.shown) \in SUBSET Missed
      BY <1>15, <2>2, <3>1
    <3>3. Cardinality(Missed) <= p.pages
      BY <1>3, <2>4
    <3> HIDE DEF Missed
    <3>4. /\ Cardinality(S \ ToSet(n.shown)) <= Cardinality(Missed)
          /\ Cardinality(S \ ToSet(n.shown)) \in Nat /\ Cardinality(Missed) \in Nat
      BY <1>18, <3>2, SubsetCardinality
    <3> QED
      BY <1>1, <3>3, <3>4
  <2> QED
    BY <2>3, <2>4
<1>20. ASSUME fair.more, Accepted(p.next)
       PROVE  /\ aged
              /\ \A i \in S : i < p.next.chron => Times(n.shown, i) = 0
              /\ Cardinality({i \in S : i >= p.next.chron} \ ToSet(n.shown)) <= n.pages
  <2> DEFINE c == p.chron[limit + 1]
             New == {i \in S : i >= p.next.chron} \ ToSet(n.shown)
  <2>1. p.next.discovery = 0 /\ p.next = fair.cursor
    BY <1>12, <1>13, <1>20 DEF Accepted
  <2>2. p.discovery = <<>>
    BY <1>8, <2>1
  <2>3. /\ Len(p.chron) = limit + 1 /\ Len(p.page) = limit /\ p.next.chron = c /\ aged
        /\ \A k \in 1 .. limit : p.page[k] = p.chron[k]
    <3>1. Len(p.chron) > limit /\ Len(p.chron) <= limit + 1
      BY <1>6, <1>8, <1>20, <2>2
    <3>2. Len(p.chron) = limit + 1
      BY <1>2, <1>9, <3>1
    <3> QED
      BY <1>3, <1>5, <1>8, <1>20, <2>1, <2>2, <3>2
  <2>0. /\ \A i \in ToSet(p.page) : \E k \in 1 .. limit : p.page[k] = i
        /\ \A k \in 1 .. limit : p.page[k] \in ToSet(p.page)
    <3>1. p.page \in Seq(Items)
      BY <1>5, <1>8
    <3>2. /\ \A i \in ToSet(p.page) : \E k \in 1 .. Len(p.page) : p.page[k] = i
          /\ \A k \in 1 .. Len(p.page) : p.page[k] \in ToSet(p.page)
      BY <3>1, SetOfSequence
    <3> QED
      BY <2>3, <3>2
  <2>4. limit + 1 \in 1 .. Len(p.chron) /\ c \in Nat /\ c \in Items /\ isBefore(c)
    <3>1. limit + 1 \in 1 .. Len(p.chron)
      BY <1>2, <2>3
    <3> QED
      BY <1>6, <1>9, <3>1, MatchingItems
  <2>5. \A i \in S : i \in Nat /\ i \in Items
    BY MatchingItems
  <2>6. p.cursor # NoCursor => c < p.cursor.chron /\ p.cursor.chron \in Nat
    BY <1>3, <2>4, PagesConstants
  <2>7. ASSUME NEW i \in ToSet(p.page) PROVE i > c
    <3>1. PICK k \in 1 .. limit : p.page[k] = i
      BY <2>0
    <3>2. k \in 1 .. Len(p.chron) /\ k < limit + 1 /\ i = p.chron[k]
      BY <1>2, <2>3, <3>1
    <3> QED
      BY <1>6, <2>4, <3>2
  <2>8. ASSUME NEW i \in S, i < p.next.chron PROVE Times(n.shown, i) = 0
    <3>1. i < c /\ i \in Items /\ i \in Nat
      BY <2>3, <2>5, <2>8
    <3>2. i \notin ToSet(p.page)
      BY <2>4, <2>7, <3>1
    <3>3. Times(p.shown, i) = 0
      <4>1. CASE p.cursor = NoCursor
        BY <1>3, <1>14, <3>1, <4>1
      <4>2. CASE p.cursor # NoCursor
        <5>1. i < p.cursor.chron
          BY <2>4, <2>6, <3>1, <4>2
        <5> QED
          BY <1>3, <4>2, <5>1
      <4> QED
        BY <4>1, <4>2
    <3> QED
      BY <1>14, <3>1, <3>2, <3>3
  <2>9. ASSUME NEW i \in New, isBefore(i) PROVE i = c
    <3>1. i \in S /\ i \in Nat /\ i >= c /\ i \notin ToSet(p.page)
      BY <1>15, <2>3, <2>5
    <3>2. i \in ToSet(p.chron)
      BY <1>6, <2>3, <2>4, <2>9, <3>1
    <3>3. PICK k \in 1 .. Len(p.chron) : p.chron[k] = i
      BY <1>9, <3>2
    <3>4. k \in 1 .. limit => i \in ToSet(p.page)
      BY <2>0, <2>3, <3>3
    <3>5. k = limit + 1
      BY <1>2, <2>3, <3>1, <3>3, <3>4
    <3> QED
      BY <3>3, <3>5
  <2>10. New \subseteq S /\ IsFiniteSet(New)
    <3>1. New \in SUBSET S
      OBVIOUS
    <3> QED
      BY <1>18, <3>1, SubsetCardinality
  <2>11. Cardinality(New) <= n.pages
    <3>1. CASE p.cursor = NoCursor
      <4>1. New \in SUBSET {c}
        BY <2>9, <3>1
      <4>2. Cardinality({c}) = 1 /\ IsFiniteSet({c})
        BY FS_Singleton
      <4> HIDE DEF New, c
      <4>3. Cardinality(New) <= 1 /\ Cardinality(New) \in Nat
        BY <4>1, <4>2, SubsetCardinality
      <4> QED
        BY <1>1, <4>3
    <3>2. CASE p.cursor # NoCursor
      <4>1. New \in SUBSET (Missed \cup {c})
        <5>1. ASSUME NEW i \in New, i # c PROVE i \in Missed
          <6>1. i \in S /\ ~ isBefore(i) /\ i \in Nat
            BY <2>5, <2>9, <5>1
          <6>2. i \notin ToSet(p.shown)
            BY <1>15, <2>5
          <6> QED
            BY <2>6, <3>2, <6>1, <6>2
        <5> QED
          BY <5>1
      <4>2. Cardinality(Missed) <= p.pages
        BY <1>3, <3>2
      <4> HIDE DEF New, Missed, c
      <4>3. /\ IsFiniteSet(Missed \cup {c}) /\ Cardinality(Missed) \in Nat
            /\ Cardinality(Missed \cup {c}) <= Cardinality(Missed) + 1
        <5>1. Cardinality(Missed) \in Nat
          BY <1>18, FS_CardinalityType
        <5>2. /\ IsFiniteSet(Missed \cup {c})
              /\ Cardinality(Missed \cup {c}) = IF c \in Missed THEN Cardinality(Missed) ELSE Cardinality(Missed) + 1
          BY <1>18, FS_AddElement
        <5> QED
          BY <5>1, <5>2
      <4>4. /\ Cardinality(New) <= Cardinality(Missed \cup {c})
            /\ Cardinality(New) \in Nat /\ Cardinality(Missed \cup {c}) \in Nat
        BY <4>1, <4>3, SubsetCardinality
      <4> QED
        BY <1>1, <4>2, <4>3, <4>4
    <3> QED
      BY <3>1, <3>2
  <2> QED
    BY <2>3, <2>8, <2>11
<1>21. p.page \in Seq(Items)
  BY <1>5, <1>8
<1>22. p.next \in FairCursors \cup {NoCursor}
  BY <1>5, <1>8
<1>23. n.stage \notin {"keyed", "discovered", "enriching"}
  BY <1>1
<1>24. FairRead(n, eligible, S)
  BY <1>1, <1>13, <1>17, <1>19, <1>20, <1>22, <1>23 DEF FairRead
<1> QED
  BY <1>21, <1>24 DEF n

\* What happens beside the reads leaves a reader where it was.
LEMMA ReaderStays ==
  ASSUME NEW p, NEW S \in SUBSET Items, NEW T \in SUBSET Items, NEW matching, NEW keys, NEW eligible,
         ReaderInv(p, S, T, matching, keys, eligible),
         NEW S2 \in SUBSET S, NEW T2 \in SUBSET T, NEW matching2, NEW keys2, NEW eligible2,
         S2 \subseteq matching2, T \subseteq matching => T2 \subseteq matching2, S \subseteq T => S2 \subseteq T2,
         \A i \in S2 \cup T2 : keys2[i] = keys[i],
         p.query.kind # "trending" => \A i \in Items : keys2[i] = keys[i],
         S2 \cap eligible2 \subseteq eligible
  PROVE  ReaderInv(p, S2, T2, matching2, keys2, eligible2)
<1>1. /\ IsRequest(p) /\ p.query \in Query /\ p.stage \in Stages
      /\ p.shown \in Seq(Items) /\ p.pages \in Nat
      /\ p.stage = "idle" => S2 = {} /\ p.shown = <<>>
  BY DEF ReaderInv
<1>2. ASSUME p.query.kind # "fair" PROVE ListRead(p, keys2, S2)
  <2>1. ListRead(p, keys, S)
    BY <1>2 DEF ReaderInv
  <2> QED
    BY <2>1 DEF ListRead, IsAfter
<1>3. ASSUME p.query.kind = "fair" PROVE FairRead(p, eligible2, S2)
  <2>1. FairRead(p, eligible, S)
    BY <1>3 DEF ReaderInv
  <2>2. IsFiniteSet(S) /\ S2 \subseteq S
    BY MatchingItems, SubsetCardinality
  <2>3. ASSUME NEW A, NEW B, A \subseteq B, B \subseteq S, NEW n \in Int, Cardinality(B) <= n
        PROVE  Cardinality(A) <= n
    <3>1. IsFiniteSet(B)
      BY <2>2, <2>3, SubsetCardinality
    <3>2. Cardinality(A) <= Cardinality(B) /\ Cardinality(A) \in Nat /\ Cardinality(B) \in Nat
      BY <2>3, <3>1, SubsetCardinality
    <3> QED
      BY <2>3, <3>2
  <2>4. ASSUME p.cursor # NoCursor, Accepted(p.cursor)
        PROVE  Cardinality({i \in S2 : i >= p.cursor.chron} \ ToSet(p.shown)) <= p.pages
    <3> DEFINE A == {i \in S2 : i >= p.cursor.chron} \ ToSet(p.shown)
               B == {i \in S : i >= p.cursor.chron} \ ToSet(p.shown)
    <3>1. A \subseteq B /\ B \subseteq S
      OBVIOUS
    <3>2. Cardinality(B) <= p.pages
      BY <2>1, <2>4 DEF FairRead
    <3> HIDE DEF A, B
    <3>3. Cardinality(A) <= p.pages
      BY <1>1, <2>3, <3>1, <3>2
    <3> QED
      BY <3>3 DEF A
  <2>5. ASSUME p.stage = "done" PROVE Cardinality(S2 \ ToSet(p.shown)) <= p.pages - 1
    <3>1. Cardinality(S \ ToSet(p.shown)) <= p.pages - 1
      BY <2>1, <2>5 DEF FairRead
    <3>2. S2 \ ToSet(p.shown) \subseteq S \ ToSet(p.shown) /\ S \ ToSet(p.shown) \subseteq S
      OBVIOUS
    <3>3. p.pages - 1 \in Int
      BY <1>1
    <3> QED
      BY <2>3, <3>1, <3>2, <3>3
  <2>6. p.stage = "enriching" => ChronologicalOf(p, S2)
    <3>1. p.stage = "enriching" => ChronologicalOf(p, S)
      BY <2>1 DEF FairRead
    <3> QED
      BY <3>1 DEF ChronologicalOf
  <2>7. S \cap eligible = {} => S2 \cap eligible2 = {}
    OBVIOUS
  <2> DEFINE aged == S \cap eligible = {}
             aged2 == S2 \cap eligible2 = {}
  <2>8. /\ p.stage # "keyed"
        /\ p.cursor \in [discovery : 0 .. N, chron : 0 .. N] \cup {NoCursor}
        /\ \A i \in S : Times(p.shown, i) <= 1
        /\ p.cursor = NoCursor /\ p.stage # "done" => p.shown = <<>>
        /\ p.cursor # NoCursor /\ Accepted(p.cursor) =>
             /\ aged
             /\ \A i \in S : i < p.cursor.chron => Times(p.shown, i) = 0
        /\ p.stage \in {"discovered", "enriching"} =>
             /\ Accepted(p.cursor)
             /\ p.discovery \in Seq(Items) /\ IsInjective(p.discovery)
             /\ p.discovery = <<>> => aged
             /\ p.cursor # NoCursor => S \cap ToSet(p.discovery) = {}
    BY <2>1 DEF FairRead
  <2>9. p.stage = "enriching" =>
          LET fair == FairPage(p.discovery, p.chron, ListLimit(p.query.limit)) IN
          /\ p.page = fair.items /\ p.more = fair.more
          /\ p.next = IF fair.more /\ fair.items # <<>> THEN fair.cursor ELSE NoCursor
    BY <2>1 DEF FairRead
  <2>10. /\ \A i \in S2 : Times(p.shown, i) <= 1
         /\ p.cursor # NoCursor /\ Accepted(p.cursor) =>
             /\ aged2
             /\ \A i \in S2 : i < p.cursor.chron => Times(p.shown, i) = 0
         /\ p.stage \in {"discovered", "enriching"} =>
             /\ Accepted(p.cursor)
             /\ p.discovery \in Seq(Items) /\ IsInjective(p.discovery)
             /\ p.discovery = <<>> => aged2
             /\ p.cursor # NoCursor => S2 \cap ToSet(p.discovery) = {}
    <3>1. aged => aged2
      BY <2>7
    <3>2. \A i \in S2 : i \in S
      OBVIOUS
    <3> HIDE DEF aged, aged2
    <3> QED
      BY <2>8, <3>1, <3>2
  <2> QED
    BY <2>4, <2>5, <2>6, <2>8, <2>9, <2>10 DEF FairRead
<1>4. ASSUME p.stage = "enriching", p.query.kind # "fair"
      PROVE  S2 \subseteq T2 /\ T2 \subseteq matching2 /\ PageShows(p.query.kind, keys2, p.cursor, p.page, p.next, T2)
  <2>1. /\ S \subseteq T /\ T \subseteq matching
        /\ PageShows(p.query.kind, keys, p.cursor, p.page, p.next, T)
    BY <1>4 DEF ReaderInv
  <2>2. PageShows(p.query.kind, keys2, p.cursor, p.page, p.next, T2)
    BY <2>1 DEF PageShows, IsAfter, IsUpTo
  <2> QED
    BY <2>1, <2>2
<1> QED
  BY <1>1, <1>2, <1>3, <1>4 DEF ReaderInv

LEMMA CachedStays ==
  ASSUME NEW k, NEW e, NEW matching, NEW keys, CachedInv(k, e, matching, keys),
         NEW T \in SUBSET e.steady, NEW matching2, NEW keys2, T \subseteq matching2,
         \A i \in T : keys2[i] = keys[i],
         k.query.kind # "trending" => \A i \in Items : keys2[i] = keys[i]
  PROVE  CachedInv(k, [e EXCEPT !.steady = T], matching2, keys2)
<1> DEFINE f == [e EXCEPT !.steady = T]
<1>1. IsEntry(e) /\ PageShows(k.query.kind, keys, k.cursor, e.page, e.next, e.steady)
  BY DEF CachedInv
<1>2. e = [page |-> e.page, more |-> e.more, steady |-> e.steady, next |-> e.next]
  BY <1>1 DEF IsEntry
<1>3. f.page = e.page /\ f.next = e.next /\ f.steady = T /\ IsEntry(f)
  <2>1. f = [page |-> e.page, more |-> e.more, steady |-> T, next |-> e.next]
    BY <1>2
  <2> QED
    BY <2>1 DEF IsEntry
<1> HIDE DEF f
<1>4. PageShows(k.query.kind, keys2, k.cursor, e.page, e.next, T)
  BY <1>1 DEF PageShows, IsAfter, IsUpTo
<1>5. CachedInv(k, f, matching2, keys2)
  BY <1>3, <1>4 DEF CachedInv
<1> QED
  BY <1>5 DEF f

\* The keys of what stays, and of every item in a list by time.
LEMMA KeysStay ==
  ASSUME NEW q, NEW S \in SUBSET Items
  PROVE  /\ \A i \in Staying(S, q) : Keys(q.kind)'[i] = Keys(q.kind)[i]
         /\ Staying(S, q) \subseteq Matching(q)' /\ Staying(S, q) \subseteq S
         /\ q.kind # "trending" => \A i \in Items : Keys(q.kind)'[i] = Keys(q.kind)[i]
  BY DEF Staying, Keys, Key

\* The lists are the same as long as no item, no follow and no age changes.
LEMMA ListsStay ==
  ASSUME NEW q, UNCHANGED <<row, following>>
  PROVE  /\ Matching(q)' = Matching(q) /\ Keys(q.kind)' = Keys(q.kind)
         /\ UNCHANGED horizon => Eligible(q)' = Eligible(q)
  BY DEF Matching, Listed, Keys, Key, Eligible

\* What the items may do beside the reads: any change, but none is seen less
\* often, and none grows younger.
ItemsAge ==
  /\ row' \in [Items -> Row \cup {NotYet, Deleted}]
  /\ horizon' \in Nat /\ horizon <= horizon'
  /\ \A i \in Items : i \in Listed /\ i \in Listed' => row[i].impressions <= row'[i].impressions

LEMMA EligibleStay ==
  ASSUME PagesInv, ItemsAge, NEW q, NEW S \in SUBSET Matching(q), S \subseteq Matching(q)'
  PROVE  S \cap Eligible(q)' \subseteq Eligible(q)
<1>1. SUFFICES ASSUME NEW i \in S, i \in Eligible(q)' PROVE i \in Eligible(q)
  OBVIOUS
<1>2. i \in Matching(q) /\ i \in Matching(q)'
  OBVIOUS
<1>3. i \in Items /\ i \in Listed /\ i \in Listed'
  BY <1>2 DEF Matching, Listed
<1>4. row[i].impressions <= row'[i].impressions /\ horizon <= horizon'
  BY <1>3 DEF ItemsAge
<1>5. row'[i].impressions < ExposureTarget /\ i > horizon'
  BY <1>1 DEF Eligible
<1>6. row[i] \in Row /\ row'[i] \in Row
  BY <1>3 DEF PagesInv, ItemsAge, Listed
<1>7. row[i].impressions \in Nat /\ row'[i].impressions \in Nat /\ horizon \in Nat /\ horizon' \in Nat
      /\ i \in Nat /\ ExposureTarget \in Nat
  BY <1>3, <1>6, PagesConstants DEF Row, PagesInv, ItemsAge, Items
<1> QED
  BY <1>2, <1>4, <1>5, <1>7 DEF Eligible

\* What happens beside the reads, for one reader and for one page of the cache.
LEMMA ReaderKept ==
  ASSUME PagesInv, ItemsAge, Steadily, UNCHANGED reader, NEW r \in Readers
  PROVE  ReaderInv(reader[r], steady'[r], since'[r], Matching(reader[r].query)',
                   Keys(reader[r].query.kind)', Eligible(reader[r].query)')
<1>1. PICK p : p = reader[r]
  OBVIOUS
<1> DEFINE q == p.query
<1>2. PICK M, K, E : M = Matching(q)' /\ K = Keys(q.kind)' /\ E = Eligible(q)'
  OBVIOUS
<1>3. ReaderInv(p, steady[r], since[r], Matching(q), Keys(q.kind), Eligible(q))
  BY <1>1 DEF PagesInv
<1>4. /\ steady[r] \in SUBSET Items /\ since[r] \in SUBSET Items
      /\ steady'[r] = Staying(steady[r], q) /\ since'[r] = Staying(since[r], q)
  <2>1. steady[r] \in SUBSET Items /\ since[r] \in SUBSET Items
    BY DEF PagesInv
  <2> QED
    BY <1>1, <2>1 DEF Steadily
<1>5. /\ \A i \in steady'[r] \cup since'[r] : K[i] = Keys(q.kind)[i]
      /\ steady'[r] \subseteq M /\ steady'[r] \subseteq steady[r]
      /\ since'[r] \subseteq M /\ since'[r] \subseteq since[r]
      /\ q.kind # "trending" => \A i \in Items : K[i] = Keys(q.kind)[i]
  BY <1>2, <1>4, KeysStay
<1>6. steady[r] \subseteq since[r] => steady'[r] \subseteq since'[r]
  BY <1>4 DEF Staying
<1>7. steady'[r] \cap E \subseteq Eligible(q)
  <2>1. steady[r] \subseteq Matching(q)
    BY <1>3 DEF ReaderInv
  <2>2. steady'[r] \in SUBSET Matching(q)
    BY <1>5, <2>1
  <2>3. steady'[r] \subseteq Matching(q)'
    BY <1>2, <1>5
  <2> QED
    BY <1>2, <2>2, <2>3, EligibleStay
<1>8. ReaderInv(p, steady'[r], since'[r], M, K, E)
  BY <1>3, <1>4, <1>5, <1>6, <1>7, ReaderStays
<1>9. M = Matching(reader[r].query)' /\ K = Keys(reader[r].query.kind)' /\ E = Eligible(reader[r].query)'
  BY <1>1, <1>2 DEF Matching, Listed, Keys, Key, Eligible
<1> QED
  BY <1>1, <1>8, <1>9

LEMMA CachedKept ==
  ASSUME PagesInv, Steadily, NEW k \in DOMAIN cache
  PROVE  /\ DOMAIN cache' = DOMAIN cache
         /\ CachedInv(k, cache'[k], Matching(k.query)', Keys(k.query.kind)')
<1> DEFINE q == k.query
           T == Staying(cache[k].steady, q)
<1>1. DOMAIN cache' = DOMAIN cache /\ cache'[k] = [cache[k] EXCEPT !.steady = T]
  BY DEF Steadily
<1>2. PICK M, K : M = Matching(q)' /\ K = Keys(q.kind)'
  OBVIOUS
<1>3. CachedInv(k, cache[k], Matching(q), Keys(q.kind))
  BY DEF PagesInv
<1>4. cache[k].steady \in SUBSET Items
  BY <1>3, MatchingItems DEF CachedInv
<1>5. /\ \A i \in T : K[i] = Keys(q.kind)[i]
      /\ T \subseteq M /\ T \in SUBSET cache[k].steady
      /\ q.kind # "trending" => \A i \in Items : K[i] = Keys(q.kind)[i]
  BY <1>2, <1>4, KeysStay
<1> HIDE DEF T
<1>6. CachedInv(k, [cache[k] EXCEPT !.steady = T], M, K)
  BY <1>3, <1>5, CachedStays
<1> QED
  BY <1>1, <1>2, <1>6

LEMMA SteadilyKeeps ==
  ASSUME PagesInv, ItemsAge, Steadily, UNCHANGED reader
  PROVE  PagesInv'
<1>1. /\ row' \in [Items -> Row \cup {NotYet, Deleted}] /\ horizon' \in Nat
      /\ DOMAIN reader' = Readers
  BY DEF PagesInv, ItemsAge
<1>2. steady' \in [Readers -> SUBSET Items] /\ since' \in [Readers -> SUBSET Items]
  BY DEF PagesInv, Steadily, Staying
<1>3. \A r \in Readers :
        ReaderInv(reader'[r], steady'[r], since'[r], Matching(reader[r].query)',
                  Keys(reader[r].query.kind)', Eligible(reader[r].query)')
  BY ReaderKept
<1>4. DOMAIN cache' = DOMAIN cache
  BY DEF Steadily
<1>5. \A k \in DOMAIN cache' : CachedInv(k, cache'[k], Matching(k.query)', Keys(k.query.kind)')
  <2>1. SUFFICES ASSUME NEW k \in DOMAIN cache
                 PROVE  CachedInv(k, cache'[k], Matching(k.query)', Keys(k.query.kind)')
    BY <1>4
  <2> QED
    BY CachedKept
<1> QED
  BY <1>1, <1>2, <1>3, <1>5 DEF PagesInv

\* A step that changes one item, to a row of an item that is seen as often.
LEMMA ItemChanges ==
  ASSUME PagesInv, UNCHANGED horizon, NEW i \in Items, NEW new \in Row \cup {NotYet, Deleted},
         row' = [row EXCEPT ![i] = new],
         i \in Listed /\ new \notin {NotYet, Deleted} => row[i].impressions <= new.impressions
  PROVE  ItemsAge
<1>1. row \in [Items -> Row \cup {NotYet, Deleted}] /\ horizon \in Nat
  BY DEF PagesInv
<1>2. row' \in [Items -> Row \cup {NotYet, Deleted}] /\ horizon' \in Nat /\ horizon <= horizon'
  BY <1>1
<1>3. ASSUME NEW j \in Items, j \in Listed, j \in Listed'
      PROVE  row[j].impressions <= row'[j].impressions
  <2>1. row[j] \in Row
    BY <1>1, <1>3 DEF Listed
  <2>2. row[j].impressions \in Nat
    BY <2>1 DEF Row
  <2>3. CASE j # i
    BY <1>1, <2>2, <2>3
  <2>4. CASE j = i
    <3>1. row'[j] = new
      BY <1>1, <2>4
    <3>2. new \notin {NotYet, Deleted}
      BY <1>3, <3>1 DEF Listed
    <3> QED
      BY <1>3, <2>4, <3>1, <3>2
  <2> QED
    BY <2>3, <2>4
<1> QED
  BY <1>2, <1>3 DEF ItemsAge

LEMMA ListedRow ==
  ASSUME PagesInv, NEW i \in Listed
  PROVE  /\ i \in Items /\ row[i] \in Row
         /\ row[i].votes \in Nat /\ row[i].impressions \in Nat
<1>1. i \in Items /\ row[i] \in Row
  BY DEF PagesInv, Listed
<1> QED
  BY <1>1 DEF Row

LEMMA RowUpdates ==
  ASSUME NEW x \in Row
  PROVE  /\ \A n \in Nat : LET y == [x EXCEPT !.votes = n] IN y \in Row /\ y.impressions = x.impressions
         /\ \A t \in BOOLEAN : LET y == [x EXCEPT !.tagged = t] IN y \in Row /\ y.impressions = x.impressions
         /\ \A v \in Viewers :
              LET y == [x EXCEPT !.viewers = @ \cup {v}, !.impressions = @ + 1]
              IN y \in Row /\ y.impressions = x.impressions + 1
<1>1. x.votes \in Nat /\ x.viewers \in SUBSET Viewers /\ x.impressions \in Nat
  BY DEF Row
<1>2. ASSUME NEW n \in Nat
      PROVE  [x EXCEPT !.votes = n] \in Row /\ [x EXCEPT !.votes = n].impressions = x.impressions
  BY DEF Row
<1>3. ASSUME NEW t \in BOOLEAN
      PROVE  [x EXCEPT !.tagged = t] \in Row /\ [x EXCEPT !.tagged = t].impressions = x.impressions
  BY DEF Row
<1>4. ASSUME NEW v \in Viewers
      PROVE  LET y == [x EXCEPT !.viewers = @ \cup {v}, !.impressions = @ + 1]
             IN y \in Row /\ y.impressions = x.impressions + 1
  <2> DEFINE seen == x.viewers \cup {v}
             n == x.impressions + 1
             z == [x EXCEPT !.viewers = seen]
             y == [z EXCEPT !.impressions = n]
  <2>1. seen \in SUBSET Viewers /\ n \in Nat
    BY <1>1
  <2>2. z.impressions = x.impressions
    BY DEF Row
  <2>3. [x EXCEPT !.viewers = @ \cup {v}, !.impressions = @ + 1] = y
    BY <2>2
  <2> HIDE DEF seen
  <2>4. z \in Row
    BY <2>1 DEF Row
  <2> HIDE DEF n, z
  <2>5. y \in Row /\ y.impressions = n
    BY <2>1, <2>4 DEF Row
  <2> QED
    BY <2>3, <2>5 DEF n
<1> QED
  BY <1>2, <1>3, <1>4

\* The handlers of the consumer.
LEMMA HandlersKeep ==
  ASSUME PagesInv, NEW i \in Items,
         HandlePollCreated(i) \/ HandlePollUpdated(i) \/ HandlePollDeleted(i) \/ HandleVotes(i)
  PROVE  PagesInv'
<1>1. UNCHANGED <<horizon, reader>> /\ Steadily
  BY DEF HandlePollCreated, HandlePollUpdated, HandlePollDeleted, HandleVotes
<1>2. ItemsAge
  <2>1. CASE HandlePollCreated(i)
    <3>1. PICK pending \in 0 .. 1 :
            row' = [row EXCEPT ![i] = [votes |-> pending, tagged |-> TRUE, viewers |-> {}, impressions |-> 0]]
      BY <2>1 DEF HandlePollCreated, Change
    <3> DEFINE new == [votes |-> pending, tagged |-> TRUE, viewers |-> {}, impressions |-> 0]
    <3>2. new \in Row \cup {NotYet, Deleted}
      BY DEF Row
    <3>3. i \notin Listed
      BY <2>1 DEF HandlePollCreated, Listed
    <3>4. row' = [row EXCEPT ![i] = new]
      BY <3>1
    <3> HIDE DEF new
    <3> QED
      BY <1>1, <3>2, <3>3, <3>4, ItemChanges
  <2>2. CASE HandlePollUpdated(i)
    <3>1. i \in Listed /\ row' = [row EXCEPT ![i].tagged = ~ @]
      BY <2>2 DEF HandlePollUpdated, Change
    <3>2. PICK t \in BOOLEAN : t <=> ~ row[i].tagged
      <4>1. (~ row[i].tagged) \in BOOLEAN
        BY ZenonT(10)
      <4> QED
        BY <4>1, Zenon
    <3> DEFINE new == [row[i] EXCEPT !.tagged = t]
    <3>3. row' = [row EXCEPT ![i] = new]
      BY <3>1, <3>2, ZenonT(20)
    <3>4. new \in Row /\ new.impressions = row[i].impressions /\ row[i].impressions \in Nat
      BY <3>1, ListedRow, RowUpdates
    <3>5. row[i].impressions <= new.impressions
      BY <3>4
    <3> HIDE DEF new
    <3> QED
      BY <1>1, <3>3, <3>4, <3>5, ItemChanges
  <2>3. CASE HandlePollDeleted(i)
    <3>1. row' = [row EXCEPT ![i] = Deleted]
      BY <2>3 DEF HandlePollDeleted, Change
    <3> QED
      BY <1>1, <3>1, ItemChanges
  <2>4. CASE HandleVotes(i)
    <3>1. PICK d \in {-1, 1} : i \in Listed /\ row' = [row EXCEPT ![i].votes = IF @ + d < 0 THEN 0 ELSE @ + d]
      BY <2>4 DEF HandleVotes, Change
    <3> DEFINE votes == IF row[i].votes + d < 0 THEN 0 ELSE row[i].votes + d
               new == [row[i] EXCEPT !.votes = votes]
    <3>2. votes \in Nat
      BY <3>1, ListedRow
    <3>3. row' = [row EXCEPT ![i] = new]
      BY <3>1
    <3> HIDE DEF votes
    <3>4. new \in Row /\ new.impressions = row[i].impressions /\ row[i].impressions \in Nat
      BY <3>1, <3>2, ListedRow, RowUpdates
    <3>5. row[i].impressions <= new.impressions
      BY <3>4
    <3> HIDE DEF new
    <3> QED
      BY <1>1, <3>3, <3>4, <3>5, ItemChanges
  <2> QED
    BY <2>1, <2>2, <2>3, <2>4
<1> QED
  BY <1>1, <1>2, SteadilyKeeps

\* Impressions are counted up.
LEMMA RecordFeedImpressionsKeeps ==
  ASSUME PagesInv, NEW v \in Viewers, NEW ids \in SUBSET Items, RecordFeedImpressions(v, ids)
  PROVE  PagesInv'
<1>1. /\ UNCHANGED <<horizon, reader>> /\ Steadily
      /\ row' = [i \in Items |-> IF i \in ids \cap Listed /\ Creator[i] # v THEN Seen(i, v) ELSE row[i]]
  BY DEF RecordFeedImpressions, Change
<1>2. ASSUME NEW i \in Listed
      PROVE  Seen(i, v) \in Row /\ row[i].impressions <= Seen(i, v).impressions
  <2>1. CASE v \in row[i].viewers
    BY <2>1, ListedRow DEF Seen
  <2>2. CASE v \notin row[i].viewers
    <3> DEFINE new == [row[i] EXCEPT !.viewers = @ \cup {v}, !.impressions = @ + 1]
    <3>1. Seen(i, v) = new
      BY <2>2 DEF Seen
    <3>2. new \in Row /\ new.impressions = row[i].impressions + 1 /\ row[i].impressions \in Nat
      BY ListedRow, RowUpdates
    <3> HIDE DEF new
    <3> QED
      BY <3>1, <3>2
  <2> QED
    BY <2>1, <2>2
<1>3. row \in [Items -> Row \cup {NotYet, Deleted}] /\ horizon \in Nat
  BY DEF PagesInv
<1>4. row' \in [Items -> Row \cup {NotYet, Deleted}] /\ horizon' \in Nat /\ horizon <= horizon'
  BY <1>1, <1>2, <1>3
<1>5. ASSUME NEW i \in Items, i \in Listed
      PROVE  row[i].impressions <= row'[i].impressions
  BY <1>1, <1>2, <1>5, ListedRow
<1>6. ItemsAge
  BY <1>4, <1>5 DEF ItemsAge
<1> QED
  BY <1>1, <1>6, SteadilyKeeps

\* No item changes when somebody is followed or not.
LEMMA FollowsKeep ==
  ASSUME PagesInv, NEW u, FollowUser(u) \/ UnfollowUser(u)
  PROVE  PagesInv'
<1>1. UNCHANGED <<row, horizon, reader>> /\ Steadily
  BY DEF FollowUser, UnfollowUser, Change
<1>2. row \in [Items -> Row \cup {NotYet, Deleted}] /\ horizon \in Nat
  BY DEF PagesInv
<1>3. ASSUME NEW i \in Listed PROVE row[i].impressions <= row[i].impressions
  BY ListedRow
<1>4. ItemsAge
  BY <1>1, <1>2, <1>3 DEF ItemsAge
<1> QED
  BY <1>1, <1>4, SteadilyKeeps

LEMMA GrowOldKeeps ==
  ASSUME PagesInv, GrowOld
  PROVE  PagesInv'
<1>1. UNCHANGED <<row, following, cache, reader, steady, since>> /\ horizon' = horizon + 1
  BY DEF GrowOld, Change, cacheVars
<1>2. row \in [Items -> Row \cup {NotYet, Deleted}] /\ horizon \in Nat
  BY DEF PagesInv
<1>3. ItemsAge
  <2>1. ASSUME NEW i \in Listed PROVE row[i].impressions <= row[i].impressions
    BY ListedRow
  <2> QED
    BY <1>1, <1>2, <2>1 DEF ItemsAge
<1>4. ASSUME NEW r \in Readers
      PROVE  ReaderInv(reader'[r], steady'[r], since'[r], Matching(reader[r].query)',
                       Keys(reader[r].query.kind)', Eligible(reader[r].query)')
  <2>1. PICK p : p = reader[r]
    OBVIOUS
  <2> DEFINE q == p.query
  <2>2. PICK E : E = Eligible(q)'
    OBVIOUS
  <2>3. ReaderInv(p, steady[r], since[r], Matching(q), Keys(q.kind), Eligible(q))
    BY <2>1 DEF PagesInv
  <2>4. Matching(q)' = Matching(q) /\ Keys(q.kind)' = Keys(q.kind)
    BY <1>1, ListsStay
  <2>5. steady[r] \subseteq Matching(q)
    BY <2>3 DEF ReaderInv
  <2>6. steady[r] \cap E \subseteq Eligible(q)
    BY <1>3, <2>2, <2>4, <2>5, EligibleStay
  <2>7. steady[r] \in SUBSET Items /\ since[r] \in SUBSET Items
    BY DEF PagesInv
  <2>8. ReaderInv(p, steady[r], since[r], Matching(q), Keys(q.kind), E)
    BY <2>3, <2>5, <2>6, <2>7, ReaderStays
  <2>9. Matching(reader[r].query)' = Matching(q)' /\ Keys(reader[r].query.kind)' = Keys(q.kind)'
        /\ E = Eligible(reader[r].query)'
    BY <1>1, <2>1, <2>2 DEF Matching, Listed, Keys, Key, Eligible
  <2> QED
    BY <1>1, <2>1, <2>4, <2>8, <2>9
<1>5. ASSUME NEW k \in DOMAIN cache
      PROVE  CachedInv(k, cache[k], Matching(k.query)', Keys(k.query.kind)')
  <2>1. CachedInv(k, cache[k], Matching(k.query), Keys(k.query.kind))
    BY DEF PagesInv
  <2>2. Matching(k.query)' = Matching(k.query) /\ Keys(k.query.kind)' = Keys(k.query.kind)
    BY <1>1, ListsStay
  <2> QED
    BY <2>1, <2>2
<1>6. /\ row' \in [Items -> Row \cup {NotYet, Deleted}] /\ horizon' \in Nat
      /\ DOMAIN reader' = Readers
      /\ steady' \in [Readers -> SUBSET Items] /\ since' \in [Readers -> SUBSET Items]
  BY <1>1, <1>2 DEF PagesInv
<1> QED
  BY <1>1, <1>4, <1>5, <1>6 DEF PagesInv

\* The key of a page has the list it is a page of, and where the page begins.
LEMMA CacheKeyProperties ==
  ASSUME NEW q \in Query, NEW cursor, NEW follows
  PROVE  LET k == CacheKey(q, cursor, follows) IN
         /\ k.cursor = cursor /\ k.query.kind = q.kind
         /\ Matching(k.query) = Matching(q)
<1> DEFINE k == CacheKey(q, cursor, follows)
           n == ListLimit(q.limit)
<1>1. k.cursor = cursor /\ k.query = [q EXCEPT !.limit = n]
  BY DEF CacheKey
<1> HIDE DEF k, n
<1>2. k.query.kind = q.kind /\ k.query.tagsOnly = q.tagsOnly
  BY <1>1 DEF Query
<1>3. Matching(k.query) = Matching(q)
  <2>1. k.query.tagsOnly <=> q.tagsOnly
    BY <1>2, Zenon
  <2> QED
    BY <1>2, <2>1 DEF Matching
<1> QED
  BY <1>1, <1>2, <1>3 DEF k

CacheInv ==
  \A k \in DOMAIN cache : CachedInv(k, cache[k], Matching(k.query), Keys(k.query.kind))

LEMMA StoreKeeps ==
  ASSUME CacheInv, UNCHANGED <<row, following>>, NEW q \in Query, NEW cursor, NEW follows, NEW entry,
         IsEntry(entry), entry.steady \subseteq Matching(q),
         PageShows(q.kind, Keys(q.kind), cursor, entry.page, entry.next, entry.steady),
         Store(CacheKey(q, cursor, follows), entry)
  PROVE  CacheInv'
<1> DEFINE k == CacheKey(q, cursor, follows)
<1>1. k.cursor = cursor /\ k.query.kind = q.kind /\ Matching(k.query) = Matching(q)
  BY CacheKeyProperties
<1>2. cache' \in {cache, [x \in DOMAIN cache \cup {k} |-> IF x = k THEN entry ELSE cache[x]]}
  BY DEF Store
<1> HIDE DEF k
<1>3. CachedInv(k, entry, Matching(k.query), Keys(k.query.kind))
  BY <1>1 DEF CachedInv
<1>4. SUFFICES ASSUME NEW x \in DOMAIN cache'
               PROVE  CachedInv(x, cache'[x], Matching(x.query)', Keys(x.query.kind)')
  BY DEF CacheInv
<1>5. Matching(x.query)' = Matching(x.query) /\ Keys(x.query.kind)' = Keys(x.query.kind)
  BY ListsStay
<1>6. CachedInv(x, cache'[x], Matching(x.query), Keys(x.query.kind))
  <2>1. CASE cache' = cache
    BY <2>1 DEF CacheInv
  <2>2. CASE cache' = [y \in DOMAIN cache \cup {k} |-> IF y = k THEN entry ELSE cache[y]]
    <3>1. CASE x = k
      BY <1>3, <2>2, <3>1
    <3>2. CASE x # k
      BY <2>2, <3>2 DEF CacheInv
    <3> QED
      BY <3>1, <3>2
  <2> QED
    BY <1>2, <2>1, <2>2
<1> QED
  BY <1>5, <1>6

LEMMA CacheStays ==
  ASSUME CacheInv, UNCHANGED <<row, following, cache>>
  PROVE  CacheInv'
<1>1. SUFFICES ASSUME NEW x \in DOMAIN cache
               PROVE  CachedInv(x, cache[x], Matching(x.query)', Keys(x.query.kind)')
  BY DEF CacheInv
<1>2. Matching(x.query)' = Matching(x.query) /\ Keys(x.query.kind)' = Keys(x.query.kind)
  BY ListsStay
<1> QED
  BY <1>2 DEF CacheInv

\* A step of one reader, or of none, while the lists stay as they are.
LEMMA ReaderMoves ==
  ASSUME PagesInv, UNCHANGED <<row, horizon, following>>, CacheInv',
         NEW r \in Readers, NEW new, NEW S \in SUBSET Items, NEW T \in SUBSET Items,
         reader' = [reader EXCEPT ![r] = new],
         steady' = [steady EXCEPT ![r] = S], since' = [since EXCEPT ![r] = T],
         ReaderInv(new, S, T, Matching(new.query), Keys(new.query.kind), Eligible(new.query))
  PROVE  PagesInv'
<1>1. /\ row \in [Items -> Row \cup {NotYet, Deleted}] /\ horizon \in Nat /\ DOMAIN reader = Readers
      /\ steady \in [Readers -> SUBSET Items] /\ since \in [Readers -> SUBSET Items]
  BY DEF PagesInv
<1>2. /\ row' \in [Items -> Row \cup {NotYet, Deleted}] /\ horizon' \in Nat /\ DOMAIN reader' = Readers
      /\ steady' \in [Readers -> SUBSET Items] /\ since' \in [Readers -> SUBSET Items]
  BY <1>1
<1>3. ASSUME NEW x \in Readers
      PROVE  ReaderInv(reader'[x], steady'[x], since'[x], Matching(reader[x].query)',
                       Keys(reader[x].query.kind)', Eligible(reader[x].query)')
  <2>1. PICK p : p = reader'[x]
    OBVIOUS
  <2>2. ReaderInv(p, steady'[x], since'[x], Matching(p.query), Keys(p.query.kind), Eligible(p.query))
    <3>1. CASE x = r
      BY <1>1, <2>1, <3>1
    <3>2. CASE x # r
      <4>1. p = reader[x] /\ steady'[x] = steady[x] /\ since'[x] = since[x]
        BY <1>1, <2>1, <3>2
      <4> QED
        BY <4>1 DEF PagesInv
    <3> QED
      BY <3>1, <3>2
  <2>3. Matching(p.query)' = Matching(p.query) /\ Keys(p.query.kind)' = Keys(p.query.kind)
        /\ Eligible(p.query)' = Eligible(p.query)
    BY ListsStay
  <2>4. Matching(reader[x].query)' = Matching(p.query)' /\ Keys(reader[x].query.kind)' = Keys(p.query.kind)'
        /\ Eligible(reader[x].query)' = Eligible(p.query)'
    BY <2>1 DEF Matching, Listed, Keys, Key, Eligible
  <2> QED
    BY <2>1, <2>2, <2>3, <2>4
<1> QED
  BY <1>2, <1>3 DEF PagesInv, CacheInv

LEMMA ReadersStay ==
  ASSUME PagesInv, UNCHANGED <<row, horizon, following, reader, steady, since>>, CacheInv'
  PROVE  PagesInv'
<1>1. /\ row' \in [Items -> Row \cup {NotYet, Deleted}] /\ horizon' \in Nat /\ DOMAIN reader' = Readers
      /\ steady' \in [Readers -> SUBSET Items] /\ since' \in [Readers -> SUBSET Items]
  BY DEF PagesInv
<1>2. ASSUME NEW x \in Readers
      PROVE  ReaderInv(reader'[x], steady'[x], since'[x], Matching(reader[x].query)',
                       Keys(reader[x].query.kind)', Eligible(reader[x].query)')
  <2>1. PICK p : p = reader[x]
    OBVIOUS
  <2>2. ReaderInv(p, steady'[x], since'[x], Matching(p.query), Keys(p.query.kind), Eligible(p.query))
    BY <2>1 DEF PagesInv
  <2>3. Matching(p.query)' = Matching(p.query) /\ Keys(p.query.kind)' = Keys(p.query.kind)
        /\ Eligible(p.query)' = Eligible(p.query)
    BY ListsStay
  <2>4. Matching(reader[x].query)' = Matching(p.query)' /\ Keys(reader[x].query.kind)' = Keys(p.query.kind)'
        /\ Eligible(reader[x].query)' = Eligible(p.query)'
    BY <2>1 DEF Matching, Listed, Keys, Key, Eligible
  <2> QED
    BY <2>1, <2>2, <2>3, <2>4
<1> QED
  BY <1>1, <1>2 DEF PagesInv, CacheInv

LEMMA OthersReadKeeps ==
  ASSUME PagesInv, NEW r \in Readers,
         NEW cursor \in {NoCursor} \cup {Key(reader[r].query.kind, i) : i \in Listed},
         OthersRead(reader[r].query, cursor)
  PROVE  PagesInv'
<1>1. row \in [Items -> Row \cup {NotYet, Deleted}] /\ CacheInv
  BY DEF PagesInv, CacheInv
<1>2. PICK q : q = reader[r].query
  OBVIOUS
<1>3. q \in Query
  BY <1>2 DEF PagesInv, ReaderInv
<1>4. cursor \in ItemKeys \cup {NoCursor}
  <2>1. \A i \in Listed : Key(q.kind, i) \in ItemKeys
    BY <1>1, MatchingItems, KeysOfItems
  <2> QED
    BY <1>2, <2>1
<1>5. UNCHANGED <<row, horizon, following, reader, steady, since>>
      /\ Store(CacheKey(q, cursor, Follows(q)), PageOf(q, cursor))
  BY <1>2 DEF OthersRead, Change
<1>6. /\ PageShows(q.kind, Keys(q.kind), cursor, PageOf(q, cursor).page, PageOf(q, cursor).next, Matching(q))
      /\ PageOf(q, cursor).steady = Matching(q) /\ IsEntry(PageOf(q, cursor))
  BY <1>1, <1>3, <1>4, PageOfShows
<1>7. CacheInv'
  BY <1>1, <1>3, <1>5, <1>6, StoreKeeps
<1> QED
  BY <1>5, <1>7, ReadersStay

LEMMA FlushKeeps ==
  ASSUME PagesInv, NEW pattern, Flush(pattern)
  PROVE  PagesInv'
<1>1. CacheInv
  BY DEF PagesInv, CacheInv
<1>2. UNCHANGED <<row, horizon, following, reader, steady, since>>
      /\ \E dropped : cache' \in {cache, Restrict(cache, DOMAIN cache \ dropped)}
  BY DEF Flush, envVars
<1>3. \A k \in DOMAIN cache' : k \in DOMAIN cache /\ cache'[k] = cache[k]
  BY <1>2 DEF Restrict
<1>4. SUFFICES ASSUME NEW k \in DOMAIN cache'
               PROVE  CachedInv(k, cache'[k], Matching(k.query)', Keys(k.query.kind)')
  <2>1. CacheInv'
    BY <1>4 DEF CacheInv
  <2> QED
    BY <1>2, <2>1, ReadersStay
<1>5. Matching(k.query)' = Matching(k.query) /\ Keys(k.query.kind)' = Keys(k.query.kind)
  BY <1>2, ListsStay
<1> QED
  BY <1>1, <1>3, <1>5 DEF CacheInv

LEMMA EnvironmentKeeps ==
  ASSUME PagesInv, Environment
  PROVE  PagesInv'
  BY HandlersKeep, RecordFeedImpressionsKeeps, FollowsKeep, GrowOldKeeps, OthersReadKeeps, FlushKeeps
  DEF Environment

\* Requests, field by field.
Fields ==
  {"stage", "query", "cursor", "follows", "discovery", "chron", "page", "next", "more", "shown", "pages"}

LEMMA RequestFields ==
  ASSUME NEW p
  PROVE  IsRequest(p) <=> p = [f \in Fields |-> p[f]]
<1>1. [f \in Fields |-> p[f]] =
        [stage |-> p.stage, query |-> p.query, cursor |-> p.cursor, follows |-> p.follows,
         discovery |-> p.discovery, chron |-> p.chron, page |-> p.page, next |-> p.next,
         more |-> p.more, shown |-> p.shown, pages |-> p.pages]
  BY DEF Fields
<1> QED
  BY <1>1 DEF IsRequest

LEMMA RequestUpdated ==
  ASSUME NEW p, IsRequest(p), NEW f \in Fields, NEW v
  PROVE  LET new == [p EXCEPT ![f] = v] IN
         IsRequest(new) /\ new[f] = v /\ \A g \in Fields : g # f => new[g] = p[g]
<1> DEFINE new == [p EXCEPT ![f] = v]
<1>1. p = [g \in Fields |-> p[g]]
  BY RequestFields
<1>2. new[f] = v /\ \A g \in Fields : g # f => new[g] = p[g]
  BY <1>1
<1>3. new = [g \in Fields |-> new[g]]
  BY <1>1
<1>4. IsRequest(new)
  <2> HIDE DEF new
  <2> QED
    BY <1>3, RequestFields
<1> QED
  BY <1>2, <1>4

\* A stage with a page.
WithPage(p, stage, page, more, next) ==
  [p EXCEPT !.stage = stage, !.page = page, !.more = more, !.next = next]

LEMMA StageAndPage ==
  ASSUME NEW p, IsRequest(p), NEW stage, NEW page, NEW more, NEW next
  PROVE  LET new == WithPage(p, stage, page, more, next) IN
         /\ IsRequest(new) /\ new.stage = stage /\ new.page = page /\ new.more = more /\ new.next = next
         /\ new.query = p.query /\ new.cursor = p.cursor /\ new.shown = p.shown /\ new.pages = p.pages
         /\ new.discovery = p.discovery /\ new.chron = p.chron
<1> DEFINE a == [p EXCEPT !.stage = stage]
           b == [a EXCEPT !.page = page]
           c == [b EXCEPT !.more = more]
           d == [c EXCEPT !.next = next]
<1>1. IsRequest(a) /\ a.stage = stage /\ \A g \in Fields : g # "stage" => a[g] = p[g]
  BY RequestUpdated DEF Fields
<1>2. IsRequest(b) /\ b.page = page /\ \A g \in Fields : g # "page" => b[g] = a[g]
  <2> HIDE DEF a
  <2> QED
    BY <1>1, RequestUpdated DEF Fields
<1>3. IsRequest(c) /\ c.more = more /\ \A g \in Fields : g # "more" => c[g] = b[g]
  <2> HIDE DEF b
  <2> QED
    BY <1>2, RequestUpdated DEF Fields
<1>4. IsRequest(d) /\ d.next = next /\ \A g \in Fields : g # "next" => d[g] = c[g]
  <2> HIDE DEF c
  <2> QED
    BY <1>3, RequestUpdated DEF Fields
<1>5. WithPage(p, stage, page, more, next) = d
  BY DEF WithPage
<1> HIDE DEF a, b, c, d
<1>6. /\ d.stage = stage /\ d.page = page /\ d.more = more /\ d.next = next
      /\ d.query = p.query /\ d.cursor = p.cursor /\ d.shown = p.shown /\ d.pages = p.pages
      /\ d.discovery = p.discovery /\ d.chron = p.chron
  BY <1>1, <1>2, <1>3, <1>4 DEF Fields
<1> QED
  BY <1>4, <1>5, <1>6

\* A reader who has no page: the list is read as far as before.
LEMMA ReaderGoesOn ==
  ASSUME NEW p, NEW S, NEW T, NEW matching, NEW keys, NEW eligible,
         ReaderInv(p, S, T, matching, keys, eligible), p.stage \notin {"idle", "done"},
         NEW new, IsRequest(new), NEW T2,
         new.query = p.query, new.cursor = p.cursor, new.shown = p.shown, new.pages = p.pages,
         \/ new.stage = "asked"
         \/ new.stage = "keyed" /\ p.query.kind # "fair"
         \/ new.stage = "rejected" /\ p.query.kind = "fair"
  PROVE  ReaderInv(new, S, T2, matching, keys, eligible)
<1>1. /\ p.query \in Query /\ p.shown \in Seq(Items) /\ p.pages \in Nat /\ S \subseteq matching
      /\ p.query.kind # "fair" => ListRead(p, keys, S)
      /\ p.query.kind = "fair" => FairRead(p, eligible, S)
  BY DEF ReaderInv
<1>2. new.stage \in Stages /\ new.stage \notin {"idle", "done", "discovered", "enriching"}
  BY DEF Stages
<1>3. ASSUME p.query.kind # "fair" PROVE ListRead(new, keys, S)
  BY <1>1, <1>2, <1>3 DEF ListRead
<1>4. ASSUME p.query.kind = "fair" PROVE FairRead(new, eligible, S)
  BY <1>1, <1>2, <1>4 DEF FairRead
<1> QED
  BY <1>1, <1>2, <1>3, <1>4 DEF ReaderInv

\* A page more of a list that is read through the cache, for what is steady
\* on it as well.
LEMMA ListPageAnswered ==
  ASSUME NEW p, NEW S \in SUBSET Items, NEW T, NEW matching, NEW keys, NEW eligible,
         ReaderInv(p, S, T, matching, keys, eligible), p.stage \notin {"idle", "done"},
         p.query.kind # "fair",
         \A i \in S : keys[i] \in ItemKeys,
         p.query.kind # "trending" => \A i \in Items : keys[i] \in ItemKeys,
         NEW V \in SUBSET Items, NEW page, NEW next, NEW more,
         PageShows(p.query.kind, keys, p.cursor, page, next, V),
         NEW U \in SUBSET (S \cap V), NEW T2
  PROVE  ReaderInv(Shown(p, page, next, more), U, T2, matching, keys, eligible)
<1> DEFINE n == Shown(p, page, next, more)
<1>1. /\ p.query \in Query /\ p.shown \in Seq(Items) /\ p.pages \in Nat /\ S \subseteq matching
      /\ ListRead(p, keys, S)
  BY DEF ReaderInv
<1>2. ListRead(n, keys, U)
  BY <1>1, ListPageShown
<1>3. /\ IsRequest(n)
      /\ n.stage = (IF next # NoCursor THEN "asked" ELSE "done")
      /\ n.query = p.query /\ n.shown = p.shown \o page /\ n.pages = p.pages + 1
  BY ShownFields
<1> HIDE DEF n
<1>4. page \in Seq(Items)
  BY DEF PageShows
<1>5. n.shown \in Seq(Items) /\ n.pages \in Nat /\ n.stage \in {"asked", "done"}
  BY <1>1, <1>3, <1>4, ConcatProperties
<1>6. n.stage \in Stages /\ n.stage \notin {"idle", "enriching"}
  BY <1>5 DEF Stages
<1>7. ReaderInv(n, U, T2, matching, keys, eligible)
  BY <1>1, <1>2, <1>3, <1>5, <1>6 DEF ReaderInv
<1> QED
  BY <1>7 DEF n

LEMMA ReaderOf ==
  ASSUME PagesInv, NEW r \in Readers
  PROVE  /\ row \in [Items -> Row \cup {NotYet, Deleted}] /\ CacheInv
         /\ steady[r] \in SUBSET Items /\ since[r] \in SUBSET Items
         /\ steady = [steady EXCEPT ![r] = steady[r]] /\ since = [since EXCEPT ![r] = since[r]]
         /\ ReaderInv(reader[r], steady[r], since[r], Matching(reader[r].query),
                      Keys(reader[r].query.kind), Eligible(reader[r].query))
  BY DEF PagesInv, CacheInv

LEMMA KeysOfList ==
  ASSUME row \in [Items -> Row \cup {NotYet, Deleted}], NEW q
  PROVE  /\ Matching(q) \in SUBSET Items
         /\ \A i \in Matching(q) : Keys(q.kind)[i] \in ItemKeys
         /\ q.kind # "trending" => \A i \in Items : Keys(q.kind)[i] \in ItemKeys
<1>1. Matching(q) \subseteq Listed /\ Listed \subseteq Items
  BY MatchingItems
<1>2. \A i \in Items : Keys(q.kind)[i] = Key(q.kind, i)
  BY DEF Keys
<1> QED
  BY <1>1, <1>2, KeysOfItems

\* A first page is asked for.
LEMMA AskKeeps ==
  ASSUME PagesInv, NEW r \in Readers, NEW q, Ask(r, q)
  PROVE  PagesInv'
<1> DEFINE new == [Idle EXCEPT !.stage = "asked", !.query = q]
           S == Matching(q)
<1>1. /\ UNCHANGED <<row, horizon, following, cache, since>> /\ q \in Query
      /\ reader' = [reader EXCEPT ![r] = new] /\ steady' = [steady EXCEPT ![r] = S]
  BY DEF Ask, To, envVars, cacheVars
<1>2. /\ IsRequest(new) /\ new.stage = "asked" /\ new.query = q /\ new.cursor = NoCursor
      /\ new.shown = <<>> /\ new.pages = 0
  <2> DEFINE a == [Idle EXCEPT !.stage = "asked"]
             b == [a EXCEPT !.query = q]
  <2>1. IsRequest(Idle) /\ Idle.cursor = NoCursor /\ Idle.shown = <<>> /\ Idle.pages = 0
    BY DEF Idle, IsRequest
  <2>2. IsRequest(a) /\ a.stage = "asked" /\ \A g \in Fields : g # "stage" => a[g] = Idle[g]
    BY <2>1, RequestUpdated, SMTT(30) DEF Fields
  <2>3. IsRequest(b) /\ b.query = q /\ \A g \in Fields : g # "query" => b[g] = a[g]
    <3> HIDE DEF a
    <3> QED
      BY <2>2, RequestUpdated DEF Fields
  <2>4. new = b
    OBVIOUS
  <2> HIDE DEF a, b, new
  <2> QED
    BY <2>1, <2>2, <2>3, <2>4 DEF Fields
<1> HIDE DEF new
<1>3. S \in SUBSET Items /\ new.stage \in Stages
  BY <1>2, MatchingItems DEF Stages
<1> HIDE DEF S
<1>4. new.shown \in Seq(Items)
  BY <1>2
<1>5. \A i : Times(new.shown, i) = 0
  BY <1>2, <1>4, TimesOnList
<1>6. q.kind # "fair" => ListRead(new, Keys(q.kind), S)
  BY <1>2, <1>5 DEF ListRead, IsAfter
<1>7. q.kind = "fair" => FairRead(new, Eligible(q), S)
  BY <1>2, <1>5 DEF FairRead
<1>8. ReaderInv(new, S, since[r], Matching(q), Keys(q.kind), Eligible(q))
  <2>1. S = Matching(q)
    BY DEF S
  <2> QED
    BY <1>1, <1>2, <1>3, <1>4, <1>6, <1>7, <2>1 DEF ReaderInv
<1>9. since[r] \in SUBSET Items /\ since' = [since EXCEPT ![r] = since[r]] /\ CacheInv'
  BY <1>1, ReaderOf, CacheStays
<1> QED
  BY <1>1, <1>2, <1>3, <1>8, <1>9, ReaderMoves

LEMMA MakeKeyKeeps ==
  ASSUME PagesInv, NEW r \in Readers, MakeKey(r)
  PROVE  PagesInv'
<1>1. PICK p, follows : p = reader[r] /\ follows = Follows(p.query)
  OBVIOUS
<1> DEFINE new == [p EXCEPT !.stage = "keyed", !.follows = follows]
<1>2. /\ UNCHANGED <<row, horizon, following, cache, since, steady>>
      /\ p.stage = "asked" /\ p.query.kind # "fair"
      /\ reader' = [reader EXCEPT ![r] = new]
  BY <1>1 DEF MakeKey, To, envVars, cacheVars
<1>3. ReaderInv(p, steady[r], since[r], Matching(p.query), Keys(p.query.kind), Eligible(p.query))
  BY <1>1, ReaderOf
<1>4. IsRequest(p)
  BY <1>3 DEF ReaderInv
<1>5. /\ IsRequest(new) /\ new.stage = "keyed" /\ new.query = p.query /\ new.cursor = p.cursor
      /\ new.shown = p.shown /\ new.pages = p.pages
  <2> DEFINE a == [p EXCEPT !.stage = "keyed"]
             b == [a EXCEPT !.follows = follows]
  <2>1. IsRequest(a) /\ a.stage = "keyed" /\ \A g \in Fields : g # "stage" => a[g] = p[g]
    BY <1>4, RequestUpdated DEF Fields
  <2>2. IsRequest(b) /\ \A g \in Fields : g # "follows" => b[g] = a[g]
    <3> HIDE DEF a
    <3> QED
      BY <2>1, RequestUpdated DEF Fields
  <2>3. new = b
    OBVIOUS
  <2> HIDE DEF a, b, new
  <2> QED
    BY <2>1, <2>2, <2>3 DEF Fields
<1> HIDE DEF new
<1>6. ReaderInv(new, steady[r], since[r], Matching(new.query), Keys(new.query.kind), Eligible(new.query))
  BY <1>2, <1>3, <1>5, ReaderGoesOn
<1>7. /\ steady[r] \in SUBSET Items /\ steady' = [steady EXCEPT ![r] = steady[r]]
      /\ since[r] \in SUBSET Items /\ since' = [since EXCEPT ![r] = since[r]] /\ CacheInv'
  BY <1>2, ReaderOf, CacheStays
<1> QED
  BY <1>2, <1>6, <1>7, ReaderMoves

LEMMA AnswerCachedKeeps ==
  ASSUME PagesInv, NEW r \in Readers, AnswerCached(r)
  PROVE  PagesInv'
<1>1. PICK p : p = reader[r]
  OBVIOUS
<1>2. PICK k, e : k = CacheKey(p.query, p.cursor, p.follows) /\ e = cache[k]
  OBVIOUS
<1> DEFINE new == Shown(p, e.page, e.next, e.more)
           q == p.query
           S == steady[r]
           U == S \cap e.steady
<1>3. /\ UNCHANGED <<row, horizon, following, cache, since>>
      /\ p.stage = "keyed" /\ k \in DOMAIN cache
      /\ reader' = [reader EXCEPT ![r] = new]
      /\ steady' = [steady EXCEPT ![r] = U]
  BY <1>1, <1>2 DEF AnswerCached, To, envVars, cacheVars
<1>4. /\ ReaderInv(p, S, since[r], Matching(q), Keys(q.kind), Eligible(q))
      /\ row \in [Items -> Row \cup {NotYet, Deleted}] /\ CacheInv
      /\ S \in SUBSET Items /\ since[r] \in SUBSET Items /\ since = [since EXCEPT ![r] = since[r]]
  BY <1>1, ReaderOf
<1>5. q \in Query /\ q.kind # "fair" /\ S \subseteq Matching(q)
  BY <1>3, <1>4 DEF ReaderInv, FairRead
<1>6. k.cursor = p.cursor /\ k.query.kind = q.kind /\ Matching(k.query) = Matching(q)
  BY <1>2, <1>5, CacheKeyProperties
<1>7. CachedInv(k, e, Matching(q), Keys(q.kind))
  BY <1>2, <1>3, <1>4, <1>6 DEF CacheInv
<1>8. /\ Matching(q) \in SUBSET Items
      /\ \A i \in Matching(q) : Keys(q.kind)[i] \in ItemKeys
      /\ q.kind # "trending" => \A i \in Items : Keys(q.kind)[i] \in ItemKeys
  BY <1>4, KeysOfList
<1>9. /\ e.steady \in SUBSET Items
      /\ PageShows(q.kind, Keys(q.kind), p.cursor, e.page, e.next, e.steady)
  BY <1>6, <1>7, <1>8 DEF CachedInv
<1>10. p.stage \notin {"idle", "done"} /\ \A i \in S : Keys(q.kind)[i] \in ItemKeys
  BY <1>3, <1>5, <1>8
<1>11. U \in SUBSET (S \cap e.steady) /\ U \in SUBSET Items
  BY <1>4
<1> HIDE DEF U
<1>12. ReaderInv(new, U, since[r], Matching(q), Keys(q.kind), Eligible(q))
  BY <1>4, <1>5, <1>8, <1>9, <1>10, <1>11, ListPageAnswered
<1>13. new.query = q
  BY ShownFields
<1>14. CacheInv' /\ since' = [since EXCEPT ![r] = since[r]]
  BY <1>3, <1>4, CacheStays
<1> HIDE DEF new, S
<1> QED
  BY <1>3, <1>4, <1>11, <1>12, <1>13, <1>14, ReaderMoves DEF S

\* A page is read from the tables.
LEMMA ReadPageKeeps ==
  ASSUME PagesInv, NEW r \in Readers, ReadPage(r)
  PROVE  PagesInv'
<1>1. PICK p : p = reader[r]
  OBVIOUS
<1> DEFINE q == p.query
           S == steady[r]
<1>2. PICK read, page, more, next :
        read = PageOf(q, p.cursor) /\ page = read.page /\ more = read.more /\ next = read.next
  OBVIOUS
<1> DEFINE new == WithPage(p, "enriching", page, more, next)
<1>3. /\ UNCHANGED <<row, horizon, following, cache, steady>>
      /\ p.stage = "keyed"
      /\ reader' = [reader EXCEPT ![r] = new]
      /\ since' = [since EXCEPT ![r] = read.steady]
  BY <1>1, <1>2 DEF ReadPage, To, envVars, cacheVars, WithPage
<1>4. /\ ReaderInv(p, S, since[r], Matching(q), Keys(q.kind), Eligible(q))
      /\ row \in [Items -> Row \cup {NotYet, Deleted}] /\ CacheInv
      /\ S \in SUBSET Items /\ steady = [steady EXCEPT ![r] = S]
  BY <1>1, ReaderOf
<1>5. /\ q \in Query /\ q.kind # "fair" /\ S \subseteq Matching(q) /\ IsRequest(p)
      /\ p.shown \in Seq(Items) /\ p.pages \in Nat
      /\ ListRead(p, Keys(q.kind), S)
  BY <1>3, <1>4 DEF ReaderInv, FairRead
<1>6. p.cursor \in ItemKeys \cup {NoCursor}
  BY <1>5 DEF ListRead
<1>7. /\ PageShows(q.kind, Keys(q.kind), p.cursor, read.page, read.next, Matching(q))
      /\ read.steady = Matching(q)
  BY <1>2, <1>4, <1>5, <1>6, PageOfShows
<1>8. /\ IsRequest(new) /\ new.stage = "enriching" /\ new.page = page /\ new.next = next
      /\ new.query = q /\ new.cursor = p.cursor /\ new.shown = p.shown /\ new.pages = p.pages
  BY <1>5, StageAndPage
<1> HIDE DEF new
<1>9. ListRead(new, Keys(q.kind), S)
  BY <1>3, <1>5, <1>8 DEF ListRead
<1>10. Matching(q) \in SUBSET Items /\ new.stage \in Stages
  BY <1>8, MatchingItems DEF Stages
<1>11. ReaderInv(new, S, Matching(q), Matching(q), Keys(q.kind), Eligible(q))
  BY <1>2, <1>5, <1>7, <1>8, <1>9, <1>10 DEF ReaderInv
<1>12. CacheInv' /\ steady' = [steady EXCEPT ![r] = S]
  BY <1>3, <1>4, CacheStays
<1>13. since' = [since EXCEPT ![r] = Matching(q)]
  BY <1>3, <1>7
<1> HIDE DEF S
<1> QED
  BY <1>3, <1>4, <1>8, <1>10, <1>11, <1>12, <1>13, ReaderMoves

LEMMA RejectCursorKeeps ==
  ASSUME PagesInv, NEW r \in Readers, RejectCursor(r)
  PROVE  PagesInv'
<1>1. PICK p : p = reader[r]
  OBVIOUS
<1> DEFINE new == [p EXCEPT !.stage = "rejected"]
           q == p.query
<1>2. /\ UNCHANGED <<row, horizon, following, cache, since, steady>>
      /\ p.stage = "asked" /\ q.kind = "fair"
      /\ reader' = [reader EXCEPT ![r] = new]
  BY <1>1 DEF RejectCursor, To, envVars, cacheVars
<1>3. /\ ReaderInv(p, steady[r], since[r], Matching(q), Keys(q.kind), Eligible(q))
      /\ steady[r] \in SUBSET Items /\ since[r] \in SUBSET Items /\ CacheInv
      /\ steady = [steady EXCEPT ![r] = steady[r]] /\ since = [since EXCEPT ![r] = since[r]]
  BY <1>1, ReaderOf
<1>4. IsRequest(p)
  BY <1>3 DEF ReaderInv
<1>5. IsRequest(new) /\ new.stage = "rejected" /\ \A g \in Fields : g # "stage" => new[g] = p[g]
  BY <1>4, RequestUpdated DEF Fields
<1> HIDE DEF new
<1>6. new.query = q /\ new.cursor = p.cursor /\ new.shown = p.shown /\ new.pages = p.pages
  BY <1>5 DEF Fields
<1>7. ReaderInv(new, steady[r], since[r], Matching(q), Keys(q.kind), Eligible(q))
  BY <1>2, <1>3, <1>5, <1>6, ReaderGoesOn
<1>8. CacheInv' /\ steady' = [steady EXCEPT ![r] = steady[r]] /\ since' = [since EXCEPT ![r] = since[r]]
  BY <1>2, <1>3, CacheStays
<1> QED
  BY <1>2, <1>3, <1>6, <1>7, <1>8, ReaderMoves

\* The page could not be completed: it is asked for again.
LEMMA FailPageKeeps ==
  ASSUME PagesInv, NEW r \in Readers, FailPage(r)
  PROVE  PagesInv'
<1>1. PICK p : p = reader[r]
  OBVIOUS
<1> DEFINE new == [Idle EXCEPT !.stage = "asked", !.query = p.query, !.cursor = p.cursor,
                               !.shown = p.shown, !.pages = p.pages]
           q == p.query
<1>2. /\ UNCHANGED <<row, horizon, following, cache, steady>>
      /\ p.stage = "enriching"
      /\ reader' = [reader EXCEPT ![r] = new]
      /\ since' = [since EXCEPT ![r] = {}]
  BY <1>1 DEF FailPage, Change, cacheVars
<1>3. /\ ReaderInv(p, steady[r], since[r], Matching(q), Keys(q.kind), Eligible(q))
      /\ steady[r] \in SUBSET Items /\ CacheInv
      /\ steady = [steady EXCEPT ![r] = steady[r]]
  BY <1>1, ReaderOf
<1>4. /\ IsRequest(new) /\ new.stage = "asked" /\ new.query = q /\ new.cursor = p.cursor
      /\ new.shown = p.shown /\ new.pages = p.pages
  <2> DEFINE a == [Idle EXCEPT !.stage = "asked"]
             b == [a EXCEPT !.query = q]
             c == [b EXCEPT !.cursor = p.cursor]
             d == [c EXCEPT !.shown = p.shown]
             e == [d EXCEPT !.pages = p.pages]
  <2>1. IsRequest(Idle)
    BY DEF Idle, IsRequest
  <2>2. IsRequest(a) /\ a.stage = "asked"
    BY <2>1, RequestUpdated DEF Fields
  <2>3. IsRequest(b) /\ b.query = q /\ \A g \in Fields : g # "query" => b[g] = a[g]
    <3> HIDE DEF a
    <3> QED
      BY <2>2, RequestUpdated DEF Fields
  <2>4. IsRequest(c) /\ c.cursor = p.cursor /\ \A g \in Fields : g # "cursor" => c[g] = b[g]
    <3> HIDE DEF b
    <3> QED
      BY <2>3, RequestUpdated DEF Fields
  <2>5. IsRequest(d) /\ d.shown = p.shown /\ \A g \in Fields : g # "shown" => d[g] = c[g]
    <3> HIDE DEF c
    <3> QED
      BY <2>4, RequestUpdated DEF Fields
  <2>6. IsRequest(e) /\ e.pages = p.pages /\ \A g \in Fields : g # "pages" => e[g] = d[g]
    <3> HIDE DEF d
    <3> QED
      BY <2>5, RequestUpdated DEF Fields
  <2>7. new = e
    OBVIOUS
  <2> HIDE DEF a, b, c, d, e, new
  <2> QED
    BY <2>2, <2>3, <2>4, <2>5, <2>6, <2>7 DEF Fields
<1> HIDE DEF new
<1>5. ReaderInv(new, steady[r], {}, Matching(q), Keys(q.kind), Eligible(q))
  BY <1>2, <1>3, <1>4, ReaderGoesOn
<1>6. CacheInv' /\ steady' = [steady EXCEPT ![r] = steady[r]]
  BY <1>2, <1>3, CacheStays
<1> DEFINE T == {}
<1>7. T \in SUBSET Items /\ since' = [since EXCEPT ![r] = T]
      /\ ReaderInv(new, steady[r], T, Matching(new.query), Keys(new.query.kind), Eligible(new.query))
  BY <1>2, <1>4, <1>5
<1> HIDE DEF T
<1> QED
  BY <1>2, <1>3, <1>6, <1>7, ReaderMoves

\* The page is answered and stored.
LEMMA AnswerKeeps ==
  ASSUME PagesInv, NEW r \in Readers, Answer(r)
  PROVE  PagesInv'
<1>1. PICK p : p = reader[r]
  OBVIOUS
<1>2. PICK page, next, more : page = p.page /\ next = p.next /\ more = p.more
  OBVIOUS
<1> DEFINE new == Shown(p, page, next, more)
           q == p.query
           S == steady[r]
           T == since[r]
           entry == [page |-> page, more |-> more, next |-> next, steady |-> T]
<1>3. /\ UNCHANGED <<row, horizon, following, steady>>
      /\ p.stage = "enriching"
      /\ reader' = [reader EXCEPT ![r] = new]
      /\ since' = [since EXCEPT ![r] = {}]
      /\ q.kind = "fair" => UNCHANGED cache
      /\ q.kind # "fair" => Store(CacheKey(q, p.cursor, p.follows), entry)
  BY <1>1, <1>2 DEF Answer, To, envVars
<1>4. /\ ReaderInv(p, S, T, Matching(q), Keys(q.kind), Eligible(q))
      /\ row \in [Items -> Row \cup {NotYet, Deleted}] /\ CacheInv
      /\ S \in SUBSET Items /\ T \in SUBSET Items /\ steady = [steady EXCEPT ![r] = S]
  BY <1>1, ReaderOf
<1>5. q \in Query /\ S \subseteq Matching(q) /\ p.shown \in Seq(Items) /\ p.pages \in Nat
  BY <1>4 DEF ReaderInv
<1>6. /\ IsRequest(new) /\ new.stage = (IF next # NoCursor THEN "asked" ELSE "done")
      /\ new.query = q /\ new.shown = p.shown \o page /\ new.pages = p.pages + 1
  BY ShownFields
<1>7. ASSUME q.kind # "fair"
      PROVE  ReaderInv(new, S, {}, Matching(q), Keys(q.kind), Eligible(q)) /\ CacheInv'
  <2>1. /\ S \subseteq T /\ T \subseteq Matching(q)
        /\ PageShows(q.kind, Keys(q.kind), p.cursor, page, next, T)
    BY <1>3, <1>4, <1>7, <1>2 DEF ReaderInv
  <2>2. /\ \A i \in Matching(q) : Keys(q.kind)[i] \in ItemKeys
        /\ q.kind # "trending" => \A i \in Items : Keys(q.kind)[i] \in ItemKeys
    BY <1>4, KeysOfList
  <2>3. p.stage \notin {"idle", "done"} /\ \A i \in S : Keys(q.kind)[i] \in ItemKeys
    BY <1>3, <1>5, <2>2
  <2>4. S \in SUBSET (S \cap T)
    BY <2>1
  <2> HIDE DEF S, T
  <2>5. ReaderInv(new, S, {}, Matching(q), Keys(q.kind), Eligible(q))
    BY <1>4, <1>7, <2>1, <2>2, <2>3, <2>4, ListPageAnswered
  <2>6. entry.page = page /\ entry.next = next /\ entry.steady = T /\ IsEntry(entry)
    BY DEF IsEntry
  <2>7. Store(CacheKey(q, p.cursor, p.follows), entry)
    BY <1>3, <1>7
  <2> HIDE DEF entry
  <2>8. CacheInv'
    BY <1>3, <1>4, <1>5, <2>1, <2>6, <2>7, StoreKeeps
  <2> QED
    BY <2>5, <2>8
<1>8. ASSUME q.kind = "fair"
      PROVE  ReaderInv(new, S, {}, Matching(q), Keys(q.kind), Eligible(q)) /\ CacheInv'
  <2>1. FairRead(p, Eligible(q), S) /\ q.limit \in Nat
    BY <1>4, <1>5, <1>8 DEF ReaderInv, Query
  <2>2. FairRead(new, Eligible(q), S) /\ page \in Seq(Items)
    BY <1>2, <1>3, <1>4, <1>5, <2>1, FairPageShown
  <2>3. new.shown \in Seq(Items) /\ new.pages \in Nat /\ new.stage \in Stages
        /\ new.stage \notin {"idle", "enriching"}
    BY <1>5, <1>6, <2>2, ConcatProperties DEF Stages
  <2> HIDE DEF new
  <2>4. ReaderInv(new, S, {}, Matching(q), Keys(q.kind), Eligible(q))
    BY <1>5, <1>6, <1>8, <2>2, <2>3 DEF ReaderInv
  <2>5. CacheInv'
    BY <1>3, <1>4, <1>8, CacheStays
  <2> QED
    BY <2>4, <2>5
<1> DEFINE U == {}
<1>9. /\ U \in SUBSET Items /\ since' = [since EXCEPT ![r] = U] /\ CacheInv'
      /\ ReaderInv(new, S, U, Matching(new.query), Keys(new.query.kind), Eligible(new.query))
  BY <1>3, <1>6, <1>7, <1>8
<1>10. steady' = [steady EXCEPT ![r] = S]
  BY <1>3, <1>4
<1> HIDE DEF new, S, U
<1> QED
  BY <1>3, <1>4, <1>9, <1>10, ReaderMoves

\* GetDiscoveryFeed: eligible items, each once, and one at least if there is any.
LEMMA SelectDiscoveryProperties ==
  ASSUME row \in [Items -> Row \cup {NotYet, Deleted}], NEW q, NEW n \in Nat \ {0}
  PROVE  LET s == SelectDiscovery(q, n) IN
         /\ s \in Seq(Items) /\ IsInjective(s) /\ ToSet(s) \subseteq Eligible(q)
         /\ s = <<>> => Eligible(q) = {}
<1> DEFINE F == Eligible(q)
           before == [i \in F |-> {j \in F : \/ row[j].impressions < row[i].impressions
                                             \/ (row[j].impressions = row[i].impressions /\ j > i)}]
           all == Ordered(F, before)
           s == SelectDiscovery(q, n)
<1>1. F \subseteq Listed /\ F \subseteq Items /\ IsFiniteSet(F) /\ F \subseteq Nat
  <2>1. F \subseteq Listed /\ F \in SUBSET Items /\ IsFiniteSet(Items) /\ F \subseteq Nat
    BY MatchingItems
  <2> QED
    BY <2>1, SubsetCardinality
<1>2. \A i \in F : row[i].impressions \in Nat
  <2>1. \A i \in F : row[i] \in Row
    BY <1>1 DEF Listed
  <2> HIDE DEF F
  <2> QED
    BY <2>1 DEF Row
<1>3. s = FirstOf(all, n)
  BY DEF SelectDiscovery
<1> HIDE DEF F, s
<1>4. /\ before \in [F -> SUBSET F]
      /\ \A i \in F : i \notin before[i]
      /\ \A i, j, k \in F : i \in before[j] /\ j \in before[k] => i \in before[k]
      /\ \A i, j \in F : i = j \/ i \in before[j] \/ j \in before[i]
  <2>1. before \in [F -> SUBSET F]
    OBVIOUS
  <2>2. \A i \in F : i \notin before[i]
    BY <1>1, <1>2
  <2>3. \A i, j, k \in F : i \in before[j] /\ j \in before[k] => i \in before[k]
    BY <1>1, <1>2
  <2>4. \A i, j \in F : i = j \/ i \in before[j] \/ j \in before[i]
    BY <1>1, <1>2
  <2> QED
    BY <2>1, <2>2, <2>3, <2>4
<1>5. /\ all \in Seq(F) /\ Len(all) = Cardinality(F) /\ ToSet(all) = F /\ Cardinality(F) \in Nat
      /\ \A k, l \in 1 .. Len(all) : k < l => all[k] \in before[all[l]]
  <2> HIDE DEF before
  <2> QED
    BY <1>1, <1>4, OrderedProperties, FS_CardinalityType
<1>6. \A k, l \in 1 .. Len(all) : k < l => all[k] # all[l]
  <2>1. \A k \in 1 .. Len(all) : all[k] \in F
    BY <1>5, ElementOfSeq
  <2> HIDE DEF all, before
  <2> QED
    BY <1>4, <1>5, <2>1
<1> HIDE DEF all, before
<1>7. /\ s \in Seq(F) /\ Len(s) = (IF n <= Len(all) THEN n ELSE Len(all))
      /\ \A k \in 1 .. Len(s) : s[k] = all[k]
  BY <1>3, <1>5, FirstOfSequence
<1>8. /\ Len(s) \in Nat /\ Len(all) \in Nat /\ DOMAIN s = 1 .. Len(s) /\ Len(s) <= Len(all)
      /\ \A k \in 1 .. Len(s) : s[k] \in F
  BY <1>5, <1>7, LenProperties, ElementOfSeq
<1>9. ToSet(s) \subseteq F
  BY <1>7, SetOfSequence
<1>10. s \in Seq(Items)
  <2>1. s = [k \in 1 .. Len(s) |-> s[k]]
    BY <1>7, LenProperties
  <2> QED
    BY <1>1, <1>8, <2>1, IsASeq
<1>11. IsInjective(s)
  <2>1. SUFFICES ASSUME NEW a \in 1 .. Len(s), NEW b \in 1 .. Len(s), s[a] = s[b], a < b PROVE FALSE
    BY <1>8 DEF IsInjective
  <2> QED
    BY <1>6, <1>7, <1>8, <2>1
<1>12. ASSUME s = <<>> PROVE F = {}
  <2>1. Len(s) = 0
    BY <1>12
  <2>2. Len(all) = 0
    BY <1>7, <1>8, <2>1
  <2> QED
    BY <1>1, <1>5, <2>2, FS_EmptySet
<1> QED
  BY <1>9, <1>10, <1>11, <1>12 DEF s, F

LEMMA DiscoveryFetchLimits ==
  ASSUME NEW limit \in Nat
  PROVE  DiscoveryFetchLimit(limit) \in Nat \ {0}
<1> DEFINE ratio == DiscoverySlots + ChronologicalSlots
           share == limit * DiscoverySlots
           need == (share + ratio - 1) \div ratio
<1>1. ratio \in Nat \ {0} /\ share \in Nat
  BY PagesConstants
<1>2. DiscoveryFetchLimit(limit) = Max({need, 1}) + 1
  BY DEF DiscoveryFetchLimit
<1> HIDE DEF ratio, share
<1>3. share + ratio - 1 \in Nat
  BY <1>1
<1>4. need \in Nat
  BY <1>1, <1>3, DivMod
<1> HIDE DEF need
<1>5. Max({need, 1}) = IF need <= 1 THEN 1 ELSE need
  BY <1>4, MaxOfTwo
<1> QED
  BY <1>2, <1>4, <1>5

LEMMA ReadDiscoveryKeeps ==
  ASSUME PagesInv, NEW r \in Readers, ReadDiscovery(r)
  PROVE  PagesInv'
<1>1. PICK p : p = reader[r]
  OBVIOUS
<1> DEFINE q == p.query
           S == steady[r]
           n == DiscoveryFetchLimit(ListLimit(q.limit))
<1>2. PICK found : found = SelectDiscovery(q, n)
  OBVIOUS
<1> DEFINE new == [p EXCEPT !.stage = "discovered", !.discovery = found]
<1>3. /\ UNCHANGED <<row, horizon, following, cache, since, steady>>
      /\ p.stage = "asked" /\ q.kind = "fair" /\ Accepted(p.cursor)
      /\ reader' = [reader EXCEPT ![r] = new]
  BY <1>1, <1>2 DEF ReadDiscovery, To, envVars, cacheVars
<1>4. /\ ReaderInv(p, S, since[r], Matching(q), Keys(q.kind), Eligible(q))
      /\ row \in [Items -> Row \cup {NotYet, Deleted}] /\ CacheInv
      /\ S \in SUBSET Items /\ since[r] \in SUBSET Items
      /\ steady = [steady EXCEPT ![r] = S] /\ since = [since EXCEPT ![r] = since[r]]
  BY <1>1, ReaderOf
<1>5. /\ q \in Query /\ S \subseteq Matching(q) /\ IsRequest(p)
      /\ p.shown \in Seq(Items) /\ p.pages \in Nat
      /\ FairRead(p, Eligible(q), S)
  BY <1>3, <1>4 DEF ReaderInv
<1>6. n \in Nat \ {0}
  <2>1. q.limit \in Nat
    BY <1>5 DEF Query
  <2> QED
    BY <2>1, ListLimits, DiscoveryFetchLimits
<1> HIDE DEF n
<1>7. /\ found \in Seq(Items) /\ IsInjective(found) /\ ToSet(found) \subseteq Eligible(q)
      /\ found = <<>> => Eligible(q) = {}
  BY <1>2, <1>4, <1>6, SelectDiscoveryProperties
<1>8. /\ IsRequest(new) /\ new.stage = "discovered" /\ new.discovery = found
      /\ new.query = q /\ new.cursor = p.cursor /\ new.shown = p.shown /\ new.pages = p.pages
  <2> DEFINE a == [p EXCEPT !.stage = "discovered"]
             b == [a EXCEPT !.discovery = found]
  <2>0. IsRequest(p)
    BY <1>5
  <2>1. IsRequest(a) /\ a.stage = "discovered" /\ \A g \in Fields : g # "stage" => a[g] = p[g]
    BY <2>0, RequestUpdated DEF Fields
  <2>2. IsRequest(b) /\ b.discovery = found /\ \A g \in Fields : g # "discovery" => b[g] = a[g]
    <3> HIDE DEF a
    <3> QED
      BY <2>1, RequestUpdated DEF Fields
  <2>3. new = b
    OBVIOUS
  <2> HIDE DEF a, b, new
  <2> QED
    BY <2>1, <2>2, <2>3 DEF Fields
<1> HIDE DEF new
<1>9. FairRead(new, Eligible(q), S)
  <2>1. p.cursor # NoCursor => S \cap Eligible(q) = {}
    BY <1>3, <1>5 DEF FairRead
  <2>2. p.cursor # NoCursor => S \cap ToSet(found) = {}
    BY <1>7, <2>1
  <2> QED
    BY <1>3, <1>5, <1>7, <1>8, <2>2 DEF FairRead
<1>10. ReaderInv(new, S, since[r], Matching(q), Keys(q.kind), Eligible(q))
  <2>1. new.stage \in Stages
    BY <1>8 DEF Stages
  <2> QED
    BY <1>3, <1>5, <1>8, <1>9, <2>1 DEF ReaderInv
<1>11. CacheInv' /\ steady' = [steady EXCEPT ![r] = S] /\ since' = [since EXCEPT ![r] = since[r]]
  BY <1>3, <1>4, CacheStays
<1> HIDE DEF S
<1> QED
  BY <1>3, <1>4, <1>8, <1>10, <1>11, ReaderMoves

\* The chronological list of a page of the fair feed, and the merge.
LEMMA ReadChronologicalKeeps ==
  ASSUME PagesInv, NEW r \in Readers, ReadChronological(r)
  PROVE  PagesInv'
<1>1. PICK p : p = reader[r]
  OBVIOUS
<1> DEFINE q == p.query
           S == steady[r]
           limit == ListLimit(q.limit)
           c == IF p.cursor = NoCursor THEN NoCursor ELSE [votes |-> 0, item |-> p.cursor.chron]
<1>2. PICK chron, fair, page, more, next :
        /\ chron = Select(q, c, limit + 1) /\ fair = FairPage(p.discovery, chron, limit)
        /\ page = fair.items /\ more = fair.more
        /\ next = IF fair.more /\ fair.items # <<>> THEN fair.cursor ELSE NoCursor
  OBVIOUS
<1> DEFINE new == [p EXCEPT !.stage = "enriching", !.chron = chron, !.page = page, !.more = more, !.next = next]
<1>3. /\ UNCHANGED <<row, horizon, following, cache, since, steady>>
      /\ p.stage = "discovered"
      /\ reader' = [reader EXCEPT ![r] = new]
  BY <1>1, <1>2 DEF ReadChronological, To, envVars, cacheVars
<1>4. /\ ReaderInv(p, S, since[r], Matching(q), Keys(q.kind), Eligible(q))
      /\ row \in [Items -> Row \cup {NotYet, Deleted}] /\ CacheInv
      /\ S \in SUBSET Items /\ since[r] \in SUBSET Items
      /\ steady = [steady EXCEPT ![r] = S] /\ since = [since EXCEPT ![r] = since[r]]
  BY <1>1, ReaderOf
<1>5. /\ q \in Query /\ q.kind = "fair" /\ S \subseteq Matching(q) /\ IsRequest(p)
      /\ p.shown \in Seq(Items) /\ p.pages \in Nat
      /\ FairRead(p, Eligible(q), S)
  BY <1>3, <1>4 DEF ReaderInv, ListRead
<1>6. limit \in Nat \ {0}
  <2>1. q.limit \in Nat
    BY <1>5 DEF Query
  <2> QED
    BY <2>1, ListLimits
<1>7. /\ IsRequest(new) /\ new.stage = "enriching" /\ new.chron = chron /\ new.page = page
      /\ new.more = more /\ new.next = next /\ new.discovery = p.discovery
      /\ new.query = q /\ new.cursor = p.cursor /\ new.shown = p.shown /\ new.pages = p.pages
  <2> DEFINE a == [p EXCEPT !.stage = "enriching"]
             b == [a EXCEPT !.chron = chron]
             d == [b EXCEPT !.page = page]
             e == [d EXCEPT !.more = more]
             f == [e EXCEPT !.next = next]
  <2>0. IsRequest(p)
    BY <1>5
  <2>1. IsRequest(a) /\ a.stage = "enriching" /\ \A g \in Fields : g # "stage" => a[g] = p[g]
    BY <2>0, RequestUpdated DEF Fields
  <2>2. IsRequest(b) /\ b.chron = chron /\ \A g \in Fields : g # "chron" => b[g] = a[g]
    <3> HIDE DEF a
    <3> QED
      BY <2>1, RequestUpdated DEF Fields
  <2>3. IsRequest(d) /\ d.page = page /\ \A g \in Fields : g # "page" => d[g] = b[g]
    <3> HIDE DEF b
    <3> QED
      BY <2>2, RequestUpdated DEF Fields
  <2>4. IsRequest(e) /\ e.more = more /\ \A g \in Fields : g # "more" => e[g] = d[g]
    <3> HIDE DEF d
    <3> QED
      BY <2>3, RequestUpdated DEF Fields
  <2>5. IsRequest(f) /\ f.next = next /\ \A g \in Fields : g # "next" => f[g] = e[g]
    <3> HIDE DEF e
    <3> QED
      BY <2>4, RequestUpdated DEF Fields
  <2>6. new = f
    OBVIOUS
  <2> HIDE DEF a, b, d, e, f, new
  <2> QED
    BY <2>1, <2>2, <2>3, <2>4, <2>5, <2>6 DEF Fields
<1> HIDE DEF new, limit, c
<1>8. /\ chron \in Seq(Items) /\ IsInjective(chron) /\ Len(chron) <= limit + 1
      /\ ToSet(chron) \subseteq After(q, c)
      /\ \A k, l \in 1 .. Len(chron) : k < l => Below(Key(q.kind, chron[l]), Key(q.kind, chron[k]))
      /\ \A i \in After(q, c) :
           i \in ToSet(chron)
           \/ (Len(chron) = limit + 1 /\ \A k \in 1 .. limit + 1 : Below(Key(q.kind, i), Key(q.kind, chron[k])))
  <2>1. limit + 1 \in Nat
    BY <1>6
  <2> QED
    BY <1>2, <1>4, <2>1, SelectProperties
<1>9. \A i \in Items : i \in Nat /\ Key(q.kind, i) = [votes |-> 0, item |-> i]
  BY <1>4, <1>5, KeysOfItems, MatchingItems
<1>10. \A i, j \in Items : Below(Key(q.kind, i), Key(q.kind, j)) <=> i < j
  <2>1. SUFFICES ASSUME NEW i \in Items, NEW j \in Items
                 PROVE  Below(Key(q.kind, i), Key(q.kind, j)) <=> i < j
    OBVIOUS
  <2>2. Key(q.kind, i) = [votes |-> 0, item |-> i] /\ Key(q.kind, j) = [votes |-> 0, item |-> j]
    BY <1>9
  <2> QED
    BY <2>2 DEF Below
<1> DEFINE isBefore(i) == p.cursor = NoCursor \/ i < p.cursor.chron
<1>11. \A i \in Matching(q) : i \in After(q, c) <=> isBefore(i)
  <2>1. SUFFICES ASSUME NEW i \in Matching(q) PROVE i \in After(q, c) <=> isBefore(i)
    OBVIOUS
  <2>2. i \in Items
    BY MatchingItems
  <2>3. CASE p.cursor = NoCursor
    BY <2>3 DEF After, c
  <2>4. CASE p.cursor # NoCursor
    <3>1. c = [votes |-> 0, item |-> p.cursor.chron] /\ c # NoCursor
      <4>1. p.cursor.chron \in Nat
        BY <1>5, <2>4 DEF FairRead
      <4>2. c = [votes |-> 0, item |-> p.cursor.chron]
        BY <2>4 DEF c
      <4>3. c \in [votes : Nat, item : Nat]
        BY <4>1, <4>2
      <4> QED
        BY <4>2, <4>3, PagesAssumption
    <3>2. Below(Key(q.kind, i), c) <=> i < p.cursor.chron
      <4>1. Key(q.kind, i) = [votes |-> 0, item |-> i]
        BY <1>9, <2>2
      <4> QED
        BY <3>1, <4>1 DEF Below
    <3> QED
      BY <2>4, <3>1, <3>2 DEF After
  <2> QED
    BY <2>3, <2>4
<1>12. /\ Len(chron) \in Nat
       /\ \A k \in 1 .. Len(chron) : chron[k] \in Items /\ chron[k] \in After(q, c) /\ chron[k] \in Matching(q)
  <2>1. /\ Len(chron) \in Nat
        /\ \A k \in 1 .. Len(chron) : chron[k] \in Items /\ chron[k] \in ToSet(chron)
    BY <1>8, SetOfSequence
  <2>2. After(q, c) \subseteq Matching(q)
    BY DEF After
  <2> QED
    BY <1>8, <2>1, <2>2
<1>13. ChronologicalOf(new, S)
  <2>1. \A k, l \in 1 .. Len(chron) : k < l => chron[l] < chron[k]
    BY <1>8, <1>10, <1>12
  <2>2. \A k \in 1 .. Len(chron) : isBefore(chron[k])
    BY <1>11, <1>12
  <2>3. ASSUME NEW i \in S, isBefore(i), i \notin ToSet(chron)
        PROVE  Len(chron) = limit + 1 /\ i < chron[limit + 1]
    <3>1. i \in After(q, c) /\ i \in Items
      BY <1>4, <1>5, <1>11, <2>3
    <3>2. Len(chron) = limit + 1 /\ \A k \in 1 .. limit + 1 : Below(Key(q.kind, i), Key(q.kind, chron[k]))
      BY <1>8, <2>3, <3>1
    <3>3. limit + 1 \in 1 .. limit + 1
      BY <1>6
    <3> QED
      BY <1>10, <1>12, <3>1, <3>2, <3>3
  <2>4. ListLimit(new.query.limit) = limit
    BY <1>7 DEF limit
  <2> QED
    BY <1>7, <1>8, <2>1, <2>2, <2>3, <2>4 DEF ChronologicalOf
<1>14. FairRead(new, Eligible(q), S)
  <2>1. ListLimit(new.query.limit) = limit
    BY <1>7 DEF limit
  <2> DEFINE fair2 == FairPage(new.discovery, new.chron, ListLimit(new.query.limit))
  <2>2. fair2 = fair
    BY <1>2, <1>7, <2>1
  <2>3. /\ new.page = fair2.items /\ new.more = fair2.more
        /\ new.next = IF fair2.more /\ fair2.items # <<>> THEN fair2.cursor ELSE NoCursor
    BY <1>2, <1>7, <2>2
  <2> HIDE DEF S
  <2> QED
    BY <1>3, <1>5, <1>7, <1>13, <2>3 DEF FairRead
<1>15. ReaderInv(new, S, since[r], Matching(q), Keys(q.kind), Eligible(q))
  <2>1. new.stage \in Stages
    BY <1>7 DEF Stages
  <2> QED
    BY <1>5, <1>7, <1>14, <2>1 DEF ReaderInv
<1>16. CacheInv' /\ steady' = [steady EXCEPT ![r] = S] /\ since' = [since EXCEPT ![r] = since[r]]
  BY <1>3, <1>4, CacheStays
<1> HIDE DEF S
<1> QED
  BY <1>3, <1>4, <1>7, <1>15, <1>16, ReaderMoves

LEMMA ServeKeeps ==
  ASSUME PagesInv, NEW r \in Readers, Serve(r) \/ FailPage(r)
  PROVE  PagesInv'
  BY MakeKeyKeeps, AnswerCachedKeeps, ReadPageKeeps, ReadDiscoveryKeeps, ReadChronologicalKeeps,
     RejectCursorKeeps, AnswerKeeps, FailPageKeeps
  DEF Serve

\* Nobody has asked for a page yet.
LEMMA PagesInvAtFirst ==
  ASSUME Init
  PROVE  PagesInv
<1>1. /\ reader = [r \in Readers |-> Idle] /\ steady = [r \in Readers |-> {}] /\ since = [r \in Readers |-> {}]
      /\ cache = <<>> /\ horizon \in 0 .. N
      /\ row \in [Items -> {NotYet} \cup [votes : {0, 1}, tagged : {TRUE}, viewers : {{}}, impressions : {0}]]
  BY DEF Init
<1>2. row \in [Items -> Row \cup {NotYet, Deleted}]
  <2>1. [votes : {0, 1}, tagged : {TRUE}, viewers : {{}}, impressions : {0}] \subseteq Row
    <3> DEFINE A == {0, 1}
               B == {TRUE}
               C == {{}}
    <3>1. A \subseteq Nat /\ B \subseteq BOOLEAN /\ C \subseteq SUBSET Viewers /\ {0} \subseteq Nat
      OBVIOUS
    <3> HIDE DEF A, B, C
    <3>2. [votes : A, tagged : B, viewers : C, impressions : {0}] \subseteq Row
      BY <3>1 DEF Row
    <3> QED
      BY <3>2 DEF A, B, C
  <2> QED
    BY <1>1, <2>1
<1>3. /\ IsRequest(Idle) /\ Idle.stage = "idle" /\ Idle.cursor = NoCursor /\ Idle.shown = <<>>
      /\ Idle.pages = 0 /\ Idle.query = [kind |-> "feed", tagsOnly |-> FALSE, limit |-> 0]
  BY DEF Idle, IsRequest
<1>4. Idle.query \in Query /\ Idle.query.kind = "feed" /\ Idle.stage \in Stages
  BY <1>3 DEF Query, Kinds, Stages
<1>5. Idle.shown \in Seq(Items) /\ \A i : Times(Idle.shown, i) = 0
  <2>1. Idle.shown = <<>> /\ <<>> \in Seq(Items)
    BY <1>3
  <2> QED
    BY <2>1, TimesOnList
<1>6. ASSUME NEW keys PROVE ListRead(Idle, keys, {})
  BY <1>3, <1>4, <1>5 DEF ListRead
<1>7. ASSUME NEW matching, NEW keys, NEW eligible
      PROVE  ReaderInv(Idle, {}, {}, matching, keys, eligible)
  BY <1>3, <1>4, <1>5, <1>6 DEF ReaderInv
<1>8. DOMAIN cache = {}
  BY <1>1
<1>9. horizon \in Nat
  BY <1>1
<1> QED
  BY <1>1, <1>2, <1>7, <1>8, <1>9 DEF PagesInv

\* PagesInv is inductive: what a reader has been shown is what the cursor has
\* passed, and a page, read or cached, is what lies between two cursors.
THEOREM PagesInvCorrect == Spec => []PagesInv
<1>1. Init => PagesInv
  BY PagesInvAtFirst
<1>2. PagesInv /\ [Next]_vars => PagesInv'
  <2>1. SUFFICES ASSUME PagesInv, [Next]_vars PROVE PagesInv'
    OBVIOUS
  <2>2. CASE Environment
    BY <2>1, <2>2, EnvironmentKeeps
  <2>3. ASSUME NEW r \in Readers, NEW q, Ask(r, q) PROVE PagesInv'
    BY <2>1, <2>3, AskKeeps
  <2>4. ASSUME NEW r \in Readers, Serve(r) \/ FailPage(r) PROVE PagesInv'
    BY <2>1, <2>4, ServeKeeps
  <2>5. CASE UNCHANGED vars
    <3>1. UNCHANGED <<row, horizon, following, reader, steady, since, cache>> /\ CacheInv
      BY <2>1, <2>5 DEF vars, envVars, cacheVars, PagesInv, CacheInv
    <3> QED
      BY <2>1, <3>1, CacheStays, ReadersStay
  <2> QED
    BY <2>1, <2>2, <2>3, <2>4, <2>5 DEF Next
<1> QED
  BY <1>1, <1>2, PTL DEF Spec

\* A page of the fair feed is filled from both lists in their shares, without
\* repetition, and says that there is more unless it has everything.
THEOREM FairPageCorrect == Spec => []FairPageIsFair
<1>1. PagesInv => FairPageIsFair
  <2>1. SUFFICES ASSUME PagesInv, NEW r \in Readers,
                        reader[r].stage = "enriching", reader[r].query.kind = "fair"
                 PROVE  LET p == reader[r]
                            limit == ListLimit(p.query.limit)
                            Has(list, slots, first) ==
                              \A n \in DOMAIN p.page :
                                Cardinality(ToSet(FirstOf(p.page, n)) \cap ToSet(list))
                                  >= Min({Len(list), Share(slots, first, n)})
                            all == ToSet(p.discovery) \cup ToSet(p.chron)
                        IN  /\ IsInjective(p.page)
                            /\ Len(p.page) = Min({limit, Cardinality(all)})
                            /\ p.more <=> Cardinality(all) > limit
                            /\ Has(p.discovery, DiscoverySlots, 0)
                            /\ Has(p.chron, ChronologicalSlots, DiscoverySlots)
    BY DEF FairPageIsFair
  <2>2. PICK p : p = reader[r]
    OBVIOUS
  <2> DEFINE limit == ListLimit(p.query.limit)
             fair == FairPage(p.discovery, p.chron, limit)
  <2>3. p.query \in Query /\ FairRead(p, Eligible(p.query), steady[r])
    BY <2>1, <2>2, ReaderOf DEF ReaderInv
  <2>4. /\ p.discovery \in Seq(Items) /\ IsInjective(p.discovery)
        /\ ChronologicalOf(p, steady[r])
        /\ p.page = fair.items /\ p.more = fair.more
    BY <2>1, <2>2, <2>3 DEF FairRead
  <2>5. p.chron \in Seq(Items) /\ IsInjective(p.chron)
    BY <2>4, ChronologicalIsInjective DEF ChronologicalOf
  <2>6. limit \in Nat
    <3>1. p.query.limit \in Nat
      BY <2>3 DEF Query
    <3> QED
      BY <3>1, ListLimits
  <2> HIDE DEF limit
  <2>7. PageIsFair(fair, p.discovery, p.chron, limit)
    BY <2>4, <2>5, <2>6, FairPageProperties
  <2> HIDE DEF fair
  <2> QED
    BY <2>2, <2>4, <2>7 DEF PageIsFair, limit
<1> QED
  BY <1>1, PagesInvCorrect, PTL

\* Who pages through a list sees every item once that keeps its place in it,
\* and none twice in the lists by time; who pages through the fair feed misses
\* one of them at most for each page after the first.
THEOREM SteadyItemsCorrect == Spec => []SteadyItemsShown
<1>1. PagesInv => SteadyItemsOnce
  <2>1. SUFFICES ASSUME PagesInv, NEW r \in Readers, reader[r].query.kind # "fair"
                 PROVE  LET p == reader[r] IN
                        /\ \A i \in steady[r] :
                             Times(p.shown, i) <= 1 /\ (p.stage = "done" => Times(p.shown, i) = 1)
                        /\ p.query.kind # "trending" => \A i \in Items : Times(p.shown, i) <= 1
    BY DEF SteadyItemsOnce
  <2>2. PICK p, keys : p = reader[r] /\ keys = Keys(p.query.kind)
    OBVIOUS
  <2>3. ListRead(p, keys, steady[r])
    BY <2>1, <2>2, ReaderOf DEF ReaderInv
  <2>4. \A i \in steady[r] : Times(p.shown, i) <= 1 /\ (p.stage = "done" => Times(p.shown, i) = 1)
    BY <2>3 DEF ListRead
  <2> QED
    BY <2>2, <2>3, <2>4 DEF ListRead
<1>2. PagesInv => FairFeedMissesOnePerPage
  <2>1. SUFFICES ASSUME PagesInv, NEW r \in Readers, reader[r].query.kind = "fair"
                 PROVE  LET p == reader[r] IN
                        /\ \A i \in steady[r] : Times(p.shown, i) <= 1
                        /\ p.stage = "done" => Cardinality(steady[r] \ ToSet(p.shown)) <= p.pages - 1
    BY DEF FairFeedMissesOnePerPage
  <2>2. PICK p : p = reader[r]
    OBVIOUS
  <2>3. FairRead(p, Eligible(p.query), steady[r])
    BY <2>1, <2>2, ReaderOf DEF ReaderInv
  <2> QED
    BY <2>2, <2>3 DEF FairRead
<1>3. PagesInv => SteadyItemsShown
  BY <1>1, <1>2 DEF SteadyItemsShown
<1> QED
  BY <1>3, PagesInvCorrect, PTL
=============================================================================
