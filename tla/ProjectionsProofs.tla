------------------------- MODULE ProjectionsProofs --------------------------
(***************************************************************************)
(* Proofs about what is made of the events of the votes, for any users,    *)
(* options, requests and groups.                                           *)
(*                                                                         *)
(* The first half is about VoteCounters: no counter undercounts, a consumer *)
(* that is never late counts exactly, and one that has caught up counts    *)
(* the votes there are.  What the ledger reports adds up to its selections,*)
(* vote by vote.  And every removal takes back a cast of its own that came *)
(* before it, so that whoever processes no removal before its casts never  *)
(* falls below zero, where GREATEST(0, ...) would lose count.              *)
(*                                                                         *)
(* The second half is about FeedProjection: the votes that come before the *)
(* item are kept, the item counts what was consumed, and it shows the poll *)
(* as it is.  The feed consumes the events that VoteCounters' services     *)
(* consume: MCFeedProjection instantiates it over the ledger of that       *)
(* module, so that what is proved there of the events, whoever counts      *)
(* them, holds here.                                                       *)
(***************************************************************************)
EXTENDS MCFeedProjection, FiniteSetTheorems, FunctionTheorems, SequenceTheorems, TLAPS

Topics == {Ledger!TopicVoteCast, Ledger!TopicVoteRemoved}

LEMMA TwoTopics == Ledger!TopicVoteCast # Ledger!TopicVoteRemoved
  BY DEF Ledger!TopicVoteCast, Ledger!TopicVoteRemoved

-----------------------------------------------------------------------------
(* Sets of events, and how they count. *)

\* What one event adds to a set.
LEMMA NetAdded ==
  ASSUME NEW E, IsFiniteSet(E), NEW e, e \notin E, e.topic \in Topics
  PROVE  /\ NetOf(E) \in Int
         /\ NetOf(E \cup {e}) = NetOf(E) + Delta(e)
         /\ Delta(e) \in {1, -1}
<1>1. IsFiniteSet(Casts(E)) /\ IsFiniteSet(Removals(E))
  BY FS_Subset DEF Casts, Removals
<1>2. e \notin Casts(E) /\ e \notin Removals(E)
  BY DEF Casts, Removals
<1> DEFINE casts == Cardinality(Casts(E))
           removals == Cardinality(Removals(E))
<1>3. /\ casts \in Nat /\ removals \in Nat
      /\ Cardinality(Casts(E) \cup {e}) = casts + 1
      /\ Cardinality(Removals(E) \cup {e}) = removals + 1
  BY <1>1, <1>2, FS_CardinalityType, FS_AddElement
<1>4. NetOf(E) = casts - removals
  BY DEF NetOf
<1>5. CASE e.topic = Ledger!TopicVoteCast
  <2>1. Casts(E \cup {e}) = Casts(E) \cup {e} /\ Removals(E \cup {e}) = Removals(E)
    BY <1>5, TwoTopics DEF Casts, Removals
  <2>2. NetOf(E \cup {e}) = Cardinality(Casts(E) \cup {e}) - removals
    BY <2>1 DEF NetOf
  <2>3. Delta(e) = 1
    BY <1>5 DEF Delta
  <2> HIDE DEF casts, removals
  <2> QED
    BY <1>3, <1>4, <2>2, <2>3
<1>6. CASE e.topic = Ledger!TopicVoteRemoved
  <2>1. Casts(E \cup {e}) = Casts(E) /\ Removals(E \cup {e}) = Removals(E) \cup {e}
    BY <1>6, TwoTopics DEF Casts, Removals
  <2>2. NetOf(E \cup {e}) = casts - (removals + 1)
    BY <1>3, <2>1 DEF NetOf
  <2>3. Delta(e) = -1
    BY <1>6, TwoTopics DEF Delta
  <2> HIDE DEF casts, removals
  <2> QED
    BY <1>3, <1>4, <2>2, <2>3
<1> QED
  BY <1>5, <1>6 DEF Topics

\* A column of pairs.
LEMMA Column ==
  ASSUME NEW x, NEW A, IsFiniteSet(A)
  PROVE  IsFiniteSet({x} \X A) /\ Cardinality({x} \X A) = Cardinality(A)
<1>1. IsFiniteSet({x}) /\ Cardinality({x}) = 1
  BY FS_Singleton
<1>2. IsFiniteSet({x} \X A) /\ Cardinality({x} \X A) = 1 * Cardinality(A)
  BY <1>1, FS_Product
<1> QED
  BY <1>2, FS_CardinalityType

\* The cardinality of a disjoint union.
LEMMA DisjointUnion ==
  ASSUME NEW A, NEW B, IsFiniteSet(A), IsFiniteSet(B), A \cap B = {}
  PROVE  /\ IsFiniteSet(A \cup B)
         /\ Cardinality(A \cup B) = Cardinality(A) + Cardinality(B)
<1>1. /\ IsFiniteSet(A \cup B)
      /\ Cardinality(A \cup B) = Cardinality(A) + Cardinality(B) - Cardinality(A \cap B)
  BY FS_Union
<1>2. Cardinality(A \cap B) = 0
  BY FS_EmptySet
<1>3. Cardinality(A) \in Nat /\ Cardinality(B) \in Nat
  BY FS_CardinalityType
<1> QED
  BY <1>1, <1>2, <1>3

LEMMA ChoicesAdded ==
  ASSUME NEW E, IsFiniteSet(E), NEW e, e \notin E, e.opts \subseteq Options
  PROVE  /\ IsFiniteSet(Choices(E)) /\ Cardinality(Choices(E)) \in Nat
         /\ IsFiniteSet(e.opts) /\ Cardinality(e.opts) \in Nat
         /\ Cardinality(Choices(E \cup {e})) = Cardinality(Choices(E)) + Cardinality(e.opts)
<1>1. IsFiniteSet(Options)
  BY CountersAssumption
<1>2. IsFiniteSet(E \X Options) /\ IsFiniteSet(e.opts)
  BY <1>1, FS_Product, FS_Subset
<1>3. IsFiniteSet(Choices(E))
  BY <1>2, FS_Subset DEF Choices
<1>4. Choices(E \cup {e}) = Choices(E) \cup ({e} \X e.opts)
  BY DEF Choices
<1>5. Choices(E) \cap ({e} \X e.opts) = {}
  BY DEF Choices
<1>6. IsFiniteSet({e} \X e.opts) /\ Cardinality({e} \X e.opts) = Cardinality(e.opts)
  BY <1>2, Column
<1>7. Cardinality(Choices(E \cup {e})) = Cardinality(Choices(E)) + Cardinality(e.opts)
  BY <1>3, <1>4, <1>5, <1>6, DisjointUnion
<1> QED
  BY <1>2, <1>3, <1>7, FS_CardinalityType

LEMMA NetChoicesAdded ==
  ASSUME NEW E, IsFiniteSet(E), NEW e, e \notin E, e.topic \in Topics, e.opts \subseteq Options
  PROVE  /\ NetChoices(E) \in Int /\ Cardinality(e.opts) \in Nat
         /\ NetChoices(E \cup {e}) = NetChoices(E) + Delta(e) * Cardinality(e.opts)
<1>1. IsFiniteSet(Casts(E)) /\ IsFiniteSet(Removals(E))
  BY FS_Subset DEF Casts, Removals
<1>2. e \notin Casts(E) /\ e \notin Removals(E)
  BY DEF Casts, Removals
<1> DEFINE n == Cardinality(e.opts)
           casts == Cardinality(Choices(Casts(E)))
           removals == Cardinality(Choices(Removals(E)))
<1>3. /\ casts \in Nat /\ removals \in Nat /\ n \in Nat
      /\ Cardinality(Choices(Casts(E) \cup {e})) = casts + n
      /\ Cardinality(Choices(Removals(E) \cup {e})) = removals + n
  BY <1>1, <1>2, ChoicesAdded
<1>4. CASE e.topic = Ledger!TopicVoteCast
  <2>1. Casts(E \cup {e}) = Casts(E) \cup {e} /\ Removals(E \cup {e}) = Removals(E)
    BY <1>4, TwoTopics DEF Casts, Removals
  <2>2. Delta(e) = 1
    BY <1>4 DEF Delta
  <2>3. /\ NetChoices(E) = casts - removals
        /\ NetChoices(E \cup {e}) = Cardinality(Choices(Casts(E) \cup {e})) - removals
    BY <2>1 DEF NetChoices
  <2> HIDE DEF n, casts, removals
  <2>4. Delta(e) * n = n
    BY <1>3, <2>2
  <2> QED
    BY <1>3, <2>3, <2>4 DEF n
<1>5. CASE e.topic = Ledger!TopicVoteRemoved
  <2>1. Casts(E \cup {e}) = Casts(E) /\ Removals(E \cup {e}) = Removals(E) \cup {e}
    BY <1>5, TwoTopics DEF Casts, Removals
  <2>2. Delta(e) = -1
    BY <1>5, TwoTopics DEF Delta
  <2>3. NetChoices(E) = casts - removals /\ NetChoices(E \cup {e}) = casts - (removals + n)
    BY <1>3, <2>1 DEF NetChoices
  <2> HIDE DEF n, casts, removals
  <2>4. Delta(e) * n = - n
    BY <1>3, <2>2
  <2> QED
    BY <1>3, <2>3, <2>4 DEF n
<1> QED
  BY <1>4, <1>5 DEF Topics

\* Sums are integers.
LEMMA NetIsInt ==
  ASSUME NEW E, IsFiniteSet(E)
  PROVE  NetOf(E) \in Int /\ NetChoices(E) \in Int
<1>1. IsFiniteSet(Casts(E)) /\ IsFiniteSet(Removals(E))
  BY FS_Subset DEF Casts, Removals
<1>2. Cardinality(Casts(E)) \in Nat /\ Cardinality(Removals(E)) \in Nat
  BY <1>1, FS_CardinalityType
<1>3. NetOf(E) \in Int
  BY <1>2 DEF NetOf
<1>4. IsFiniteSet(Casts(E) \X Options) /\ IsFiniteSet(Removals(E) \X Options)
  BY <1>1, CountersAssumption, FS_Product
<1>5. IsFiniteSet(Choices(Casts(E))) /\ IsFiniteSet(Choices(Removals(E)))
  BY <1>4, FS_Subset DEF Choices
<1>6. Cardinality(Choices(Casts(E))) \in Nat /\ Cardinality(Choices(Removals(E))) \in Nat
  BY <1>5, FS_CardinalityType
<1>7. NetChoices(E) \in Int
  BY <1>6 DEF NetChoices
<1> QED
  BY <1>3, <1>7

\* Nothing adds up to nothing.
LEMMA NetOfNone == NetOf({}) = 0 /\ NetChoices({}) = 0
<1>1. Casts({}) = {} /\ Removals({}) = {} /\ Choices({}) = {}
  BY DEF Casts, Removals, Choices
<1> QED
  BY <1>1, FS_EmptySet DEF NetOf, NetChoices

-----------------------------------------------------------------------------
(* The ledger. *)

\* f is a cast of the option o by the key k, and no removal among E that knows of
\* it takes it back.
OpenCast(f, k, o, E) ==
  /\ f \in Casts(E) /\ f.key = k /\ o \in f.opts
  /\ \A g \in Removals(E) : g.key = k /\ o \in g.opts => f \notin known[g.by]

LedgerTypes ==
  /\ selection \in [Keys -> SUBSET Options]
  /\ events \subseteq Ledger!Event /\ IsFiniteSet(events)
  /\ known \in [Requests -> SUBSET events]

\* Of two events of two requests one knows the other; those of one request are
\* about different options.
OneKnowsTheOther ==
  \A e, f \in events :
    /\ e.by # f.by => e \in known[f.by] \/ f \in known[e.by]
    /\ e.by = f.by /\ e # f => e.opts \cap f.opts = {}

\* Every vote was cast, and every removal takes back a cast it knows.
VotesAreCast ==
  /\ \A k \in Keys : \A o \in selection[k] : \E f : OpenCast(f, k, o, events)
  /\ \A e \in Removals(events) : \A o \in e.opts :
       \E f : OpenCast(f, e.key, o, known[e.by])

\* In a single choice poll.
SingleChoices ==
  pollType = "single" =>
    /\ \A k \in Keys : selection[k] = {} \/ \E o \in Options : selection[k] = {o}
    /\ \A e \in events : \E o \in Options : e.opts = {o}

OfVoters(E, g) == {e \in E : GroupOf[e.key] = g}
Voters(g) == {k \in Keys : GroupOf[k] = g /\ selection[k] # {}}

\* The events add up to the selections, or to more of them if removals were lost.
EventsAddUp ==
  /\ \A o \in Options :
       /\ IsFiniteSet(Voting(o))
       /\ NetOf(OfOption(events, o)) >= Cardinality(Voting(o))
       /\ ~ lost => NetOf(OfOption(events, o)) = Cardinality(Voting(o))
  /\ IsFiniteSet(Votes)
  /\ NetChoices(events) >= Cardinality(Votes)
  /\ ~ lost => NetChoices(events) = Cardinality(Votes)
  /\ \A g \in Groups :
       /\ IsFiniteSet(Voters(g))
       /\ pollType = "single" /\ ~ lost =>
            NetOf(OfVoters(events, g)) = Cardinality(Voters(g))

\* What does not depend on the kind of the poll and on who counts.
LedgerCore == LedgerTypes /\ OneKnowsTheOther /\ VotesAreCast

LedgerInv ==
  /\ LedgerCore
  /\ SingleChoices
  /\ EventsAddUp

LEMMA LedgerInit == Init => LedgerInv
<1> SUFFICES ASSUME Init PROVE LedgerInv
  OBVIOUS
<1>1. /\ selection = [k \in Keys |-> {}] /\ events = {}
      /\ known = [r \in Requests |-> {}]
  BY DEF Init, Ledger!Init
<1>2. LedgerTypes /\ OneKnowsTheOther
  BY <1>1, FS_EmptySet DEF LedgerTypes, OneKnowsTheOther
<1>3. VotesAreCast /\ SingleChoices
  BY <1>1 DEF VotesAreCast, Removals, SingleChoices
<1>4. /\ \A o : OfOption(events, o) = {} /\ Voting(o) = {}
      /\ \A g : OfVoters(events, g) = {} /\ Voters(g) = {}
      /\ Votes = {}
  BY <1>1 DEF OfOption, Voting, OfVoters, Voters, Votes
<1>5. EventsAddUp
  BY <1>1, <1>4, NetOfNone, FS_EmptySet DEF EventsAddUp
<1> QED
  BY <1>2, <1>3, <1>5 DEF LedgerInv, LedgerCore

-----------------------------------------------------------------------------
(* One request: the selection of the key k becomes S. *)

Taken(k, S) == selection[k] \ S
Added(k, S) == S \ selection[k]

Moved(r, k, S) ==
  /\ S \in SUBSET Options
  /\ \A e \in events : e.by # r
  /\ selection' = [selection EXCEPT ![k] = S]
  /\ events' = events \cup Ledger!Removed(r, k, Taken(k, S))
                      \cup Ledger!Cast(r, k, Added(k, S))
  /\ known' = [known EXCEPT ![r] = events]

Changed(r, k, S) ==
  /\ Moved(r, k, S)
  /\ pollType = "single" => S = {} \/ \E o \in Options : S = {o}
  /\ UNCHANGED <<pollType, lost>>

LEMMA ServeChanges ==
  ASSUME NEW r \in Requests, NEW k \in Keys, LedgerTypes, Serve(r, k)
  PROVE  \E S : Changed(r, k, S)
<1>1. CASE \E S \in SUBSET Options :
             /\ pollType = "single" => Cardinality(S) = 1
             /\ Ledger!Change(r, k, S)
  <2>1. PICK S \in SUBSET Options :
             /\ pollType = "single" => Cardinality(S) = 1
             /\ Ledger!Change(r, k, S)
    BY <1>1
  <2>2. IsFiniteSet(S)
    BY FS_Subset, CountersAssumption
  <2>3. pollType = "single" => \E o \in Options : S = {o}
    BY <2>1, <2>2, FS_Singleton
  <2>4. Changed(r, k, S)
    BY <2>1, <2>3 DEF Serve, Ledger!Change, Changed, Moved, Taken, Added
  <2> QED
    BY <2>4
<1>2. CASE Ledger!Remove(r, k)
  <2>1. Taken(k, {}) = selection[k] /\ Added(k, {}) = {}
    BY DEF Taken, Added
  <2>2. Ledger!Cast(r, k, Added(k, {})) = {}
    BY <2>1 DEF Ledger!Cast
  <2>3. Changed(r, k, {})
    BY <1>2, <2>1, <2>2 DEF Serve, Ledger!Remove, Changed, Moved
  <2> QED
    BY <2>3
<1> QED
  BY <1>1, <1>2 DEF Serve

\* The events of a request: at most one of each topic, none known before.
RemovalOf(r, k, S) ==
  [by |-> r, topic |-> Ledger!TopicVoteRemoved, key |-> k, opts |-> Taken(k, S)]
CastOf(r, k, S) ==
  [by |-> r, topic |-> Ledger!TopicVoteCast, key |-> k, opts |-> Added(k, S)]

LEMMA NewEvents ==
  ASSUME NEW r \in Requests, NEW k \in Keys, NEW S, LedgerTypes, Moved(r, k, S)
  PROVE  /\ RemovalOf(r, k, S) \notin events /\ CastOf(r, k, S) \notin events
         /\ RemovalOf(r, k, S) # CastOf(r, k, S)
         /\ RemovalOf(r, k, S) \in Ledger!Event /\ CastOf(r, k, S) \in Ledger!Event
         /\ Taken(k, S) \subseteq Options /\ Added(k, S) \subseteq Options
         /\ Taken(k, S) \cap Added(k, S) = {}
         /\ \A e : e \in events' <=>
              \/ e \in events
              \/ e = RemovalOf(r, k, S) /\ Taken(k, S) # {}
              \/ e = CastOf(r, k, S) /\ Added(k, S) # {}
<1>1. RemovalOf(r, k, S) \notin events /\ CastOf(r, k, S) \notin events
  BY DEF Moved, RemovalOf, CastOf
<1>2. RemovalOf(r, k, S) # CastOf(r, k, S)
  BY TwoTopics DEF RemovalOf, CastOf
<1>3. Taken(k, S) \subseteq Options /\ Added(k, S) \subseteq Options
  BY DEF LedgerTypes, Moved, Taken, Added
<1>4. RemovalOf(r, k, S) \in Ledger!Event /\ CastOf(r, k, S) \in Ledger!Event
  BY <1>3 DEF RemovalOf, CastOf, Ledger!Event
<1>5. Taken(k, S) \cap Added(k, S) = {}
  BY DEF Taken, Added
<1>6. \A e : e \in events' <=>
        \/ e \in events
        \/ e = RemovalOf(r, k, S) /\ Taken(k, S) # {}
        \/ e = CastOf(r, k, S) /\ Added(k, S) # {}
  <2>1. \A e : e \in Ledger!Removed(r, k, Taken(k, S)) <=>
                 e = RemovalOf(r, k, S) /\ Taken(k, S) # {}
    BY DEF Ledger!Removed, RemovalOf
  <2>2. \A e : e \in Ledger!Cast(r, k, Added(k, S)) <=>
                 e = CastOf(r, k, S) /\ Added(k, S) # {}
    BY DEF Ledger!Cast, CastOf
  <2> QED
    BY <2>1, <2>2 DEF Moved
<1> QED
  BY <1>1, <1>2, <1>3, <1>4, <1>5, <1>6

LEMMA ChangedTypes ==
  ASSUME NEW r \in Requests, NEW k \in Keys, NEW S, LedgerTypes, Moved(r, k, S)
  PROVE  LedgerTypes'
<1>1. events' \subseteq Ledger!Event /\ events \subseteq events'
  BY NewEvents DEF LedgerTypes
<1>2. IsFiniteSet(events')
  <2>1. events' \subseteq (events \cup {RemovalOf(r, k, S)}) \cup {CastOf(r, k, S)}
    BY NewEvents
  <2>2. IsFiniteSet(events \cup {RemovalOf(r, k, S)})
    BY FS_AddElement DEF LedgerTypes
  <2>3. IsFiniteSet((events \cup {RemovalOf(r, k, S)}) \cup {CastOf(r, k, S)})
    BY <2>2, FS_AddElement
  <2> QED
    BY <2>1, <2>3, FS_Subset
<1>3. known' \in [Requests -> SUBSET events']
  BY <1>1 DEF LedgerTypes, Moved
<1>4. selection' \in [Keys -> SUBSET Options]
  BY DEF LedgerTypes, Moved
<1> QED
  BY <1>1, <1>2, <1>3, <1>4 DEF LedgerTypes

LEMMA ChangedKnows ==
  ASSUME NEW r \in Requests, NEW k \in Keys, NEW S, LedgerTypes, OneKnowsTheOther,
         Moved(r, k, S)
  PROVE  OneKnowsTheOther'
<1>1. known'[r] = events /\ \A e \in events : e.by # r /\ known'[e.by] = known[e.by]
  BY DEF LedgerTypes, Moved, Ledger!Event
<1>2. \A e \in events' : e \in events \/ e = RemovalOf(r, k, S) \/ e = CastOf(r, k, S)
  BY NewEvents
<1>3. /\ RemovalOf(r, k, S).by = r /\ CastOf(r, k, S).by = r
      /\ RemovalOf(r, k, S).opts \cap CastOf(r, k, S).opts = {}
  BY DEF RemovalOf, CastOf, Taken, Added
<1> QED
  BY <1>1, <1>2, <1>3 DEF OneKnowsTheOther

LEMMA ChangedCasts ==
  ASSUME NEW r \in Requests, NEW k \in Keys, NEW S, LedgerTypes, VotesAreCast,
         Moved(r, k, S)
  PROVE  VotesAreCast'
<1> DEFINE R == RemovalOf(r, k, S)
           C == CastOf(r, k, S)
<1>1. known'[r] = events /\ \A e \in events : e.by # r /\ known'[e.by] = known[e.by]
  BY DEF LedgerTypes, Moved, Ledger!Event
<1>2. \A e \in events : e.by \in Requests /\ known[e.by] \subseteq events
  BY DEF LedgerTypes, Ledger!Event
<1>3. \A e : e \in events' <=>
        \/ e \in events
        \/ e = R /\ Taken(k, S) # {}
        \/ e = C /\ Added(k, S) # {}
  BY NewEvents
<1>4. /\ R.by = r /\ R.topic = Ledger!TopicVoteRemoved /\ R.key = k /\ R.opts = Taken(k, S)
      /\ C.by = r /\ C.topic = Ledger!TopicVoteCast /\ C.key = k /\ C.opts = Added(k, S)
      /\ R \notin events /\ C \notin events
  BY NewEvents DEF RemovalOf, CastOf
<1> HIDE DEF R, C
<1>5. ASSUME NEW j \in Keys, NEW o \in selection'[j]
      PROVE  \E f : OpenCast(f, j, o, events)'
  <2>1. CASE j = k /\ o \in Added(k, S)
    <3>1. C \in Casts(events') /\ C.key = j /\ o \in C.opts
      BY <1>3, <1>4, <2>1 DEF Casts
    <3>2. ASSUME NEW g \in Removals(events') PROVE C \notin known'[g.by]
      <4>1. g \in events \/ g.by = r
        BY <1>3, <1>4 DEF Removals
      <4> QED
        BY <1>1, <1>2, <1>4, <4>1
    <3> QED
      BY <3>1, <3>2 DEF OpenCast
  <2>2. CASE o \in selection[j] /\ ~ (j = k /\ o \in Taken(k, S))
    <3>1. PICK f : OpenCast(f, j, o, events)
      BY <2>2 DEF VotesAreCast
    <3>2. f \in Casts(events') /\ f.key = j /\ o \in f.opts
      BY <1>3, <3>1 DEF OpenCast, Casts
    <3>3. ASSUME NEW g \in Removals(events'), g.key = j, o \in g.opts
          PROVE  f \notin known'[g.by]
      <4>1. g \in Removals(events)
        BY <1>3, <1>4, <2>2, <3>3, TwoTopics DEF Removals
      <4> QED
        BY <1>1, <3>1, <3>3, <4>1 DEF OpenCast, Removals
    <3>4. OpenCast(f, j, o, events)'
      BY <3>2, <3>3 DEF OpenCast
    <3> QED
      BY <3>4
  <2>3. j # k => selection'[j] = selection[j]
    BY DEF Moved, LedgerTypes
  <2>4. selection'[k] = S
    BY DEF Moved, LedgerTypes
  <2> QED
    BY <2>1, <2>2, <2>3, <2>4 DEF Taken, Added
<1>6. ASSUME NEW e \in Removals(events'), NEW o \in e.opts
      PROVE  \E f : OpenCast(f, e.key, o, known[e.by])'
  <2>1. CASE e = R
    <3>1. o \in selection[k]
      BY <1>4, <2>1 DEF Taken
    <3>2. PICK f : OpenCast(f, k, o, events)
      BY <3>1 DEF VotesAreCast
    <3>3. \A g \in Removals(events) : known'[g.by] = known[g.by]
      BY <1>1 DEF Removals
    <3>4. OpenCast(f, e.key, o, known[e.by])'
      BY <1>1, <1>4, <2>1, <3>2, <3>3 DEF OpenCast
    <3> QED
      BY <3>4
  <2>2. CASE e \in events
    <3>1. e \in Removals(events)
      BY <2>2 DEF Removals
    <3>2. PICK f : OpenCast(f, e.key, o, known[e.by])
      BY <3>1 DEF VotesAreCast
    <3>3. known'[e.by] = known[e.by]
      BY <1>1, <2>2
    <3>4. \A g \in Removals(known[e.by]) : known'[g.by] = known[g.by]
      BY <1>1, <1>2, <2>2 DEF Removals
    <3>5. OpenCast(f, e.key, o, known[e.by])'
      BY <3>2, <3>3, <3>4 DEF OpenCast
    <3> QED
      BY <3>5
  <2> QED
    BY <1>3, <1>4, <2>1, <2>2, TwoTopics DEF Removals
<1> QED
  BY <1>5, <1>6 DEF VotesAreCast

LEMMA ChangedSingle ==
  ASSUME NEW r \in Requests, NEW k \in Keys, NEW S, LedgerTypes, SingleChoices,
         Changed(r, k, S)
  PROVE  SingleChoices'
<1> Moved(r, k, S)
  BY DEF Changed
<1> SUFFICES ASSUME pollType = "single" PROVE SingleChoices'
  BY DEF SingleChoices, Changed, Moved
<1>1. \A j \in Keys : selection'[j] = {} \/ \E o \in Options : selection'[j] = {o}
  BY DEF LedgerTypes, SingleChoices, Changed, Moved
<1>2. ASSUME NEW e \in events' PROVE \E o \in Options : e.opts = {o}
  <2>1. CASE e \in events
    BY <2>1 DEF SingleChoices
  <2>2. CASE e.opts = Taken(k, S) /\ Taken(k, S) # {}
    BY <2>2 DEF SingleChoices, Taken
  <2>3. CASE e.opts = Added(k, S) /\ Added(k, S) # {}
    BY <2>3 DEF Changed, Moved, Added
  <2>4. \/ e \in events
        \/ e = RemovalOf(r, k, S) /\ Taken(k, S) # {}
        \/ e = CastOf(r, k, S) /\ Added(k, S) # {}
    BY NewEvents
  <2>5. RemovalOf(r, k, S).opts = Taken(k, S) /\ CastOf(r, k, S).opts = Added(k, S)
    BY DEF RemovalOf, CastOf
  <2> QED
    BY <2>1, <2>2, <2>3, <2>4, <2>5
<1> QED
  BY <1>1, <1>2 DEF SingleChoices

\* Adding to a sum and a count at once keeps one as far above the other.
LEMMA OptionsAddUp ==
  ASSUME NEW r \in Requests, NEW k \in Keys, NEW S, LedgerTypes, EventsAddUp,
         Changed(r, k, S), NEW o \in Options
  PROVE  /\ IsFiniteSet(Voting(o)')
         /\ NetOf(OfOption(events', o)) >= Cardinality(Voting(o)')
         /\ ~ lost => NetOf(OfOption(events', o)) = Cardinality(Voting(o)')
<1> Moved(r, k, S)
  BY DEF Changed
<1> DEFINE R == RemovalOf(r, k, S)
           C == CastOf(r, k, S)
           E == OfOption(events, o)
           V == Voting(o)
<1>1. \A e : e \in events' <=>
        \/ e \in events
        \/ e = R /\ Taken(k, S) # {}
        \/ e = C /\ Added(k, S) # {}
  BY NewEvents
<1>2. /\ R.topic = Ledger!TopicVoteRemoved /\ R.opts = Taken(k, S)
      /\ C.topic = Ledger!TopicVoteCast /\ C.opts = Added(k, S)
      /\ R \notin E /\ C \notin E
      /\ Taken(k, S) \cap Added(k, S) = {}
  BY NewEvents DEF RemovalOf, CastOf, OfOption
<1>3. IsFiniteSet(E)
  BY FS_Subset DEF OfOption, LedgerTypes
<1>4. /\ IsFiniteSet(V) /\ Cardinality(V) \in Nat
      /\ NetOf(E) >= Cardinality(V)
      /\ ~ lost => NetOf(E) = Cardinality(V)
  BY FS_CardinalityType DEF EventsAddUp
<1>5. selection'[k] = S /\ \A j \in Keys \ {k} : selection'[j] = selection[j]
  BY DEF Changed, Moved, LedgerTypes
<1>6. CASE o \in Taken(k, S)
  <2>1. OfOption(events', o) = E \cup {R}
    BY <1>1, <1>2, <1>6 DEF OfOption
  <2>2. Voting(o)' = V \ {k} /\ k \in V
    BY <1>5, <1>6 DEF Voting, Taken
  <2>3. NetOf(E) \in Int /\ NetOf(E \cup {R}) = NetOf(E) - 1
    <3>1. Delta(R) = -1
      BY <1>2, TwoTopics DEF Delta
    <3>2. R.topic \in Topics
      BY <1>2 DEF Topics
    <3> QED
      BY <1>2, <1>3, <3>1, <3>2, NetAdded
  <2>4. IsFiniteSet(V \ {k}) /\ Cardinality(V \ {k}) = Cardinality(V) - 1
    BY <1>4, <2>2, FS_RemoveElement
  <2>5. /\ NetOf(OfOption(events', o)) = NetOf(E) - 1
        /\ IsFiniteSet(Voting(o)') /\ Cardinality(Voting(o)') = Cardinality(V) - 1
    BY <2>1, <2>2, <2>3, <2>4
  <2> HIDE DEF E, V
  <2> QED
    BY <1>4, <2>3, <2>5
<1>7. CASE o \in Added(k, S)
  <2>1. OfOption(events', o) = E \cup {C}
    BY <1>1, <1>2, <1>7 DEF OfOption
  <2>2. Voting(o)' = V \cup {k} /\ k \notin V
    BY <1>5, <1>7 DEF Voting, Added
  <2>3. NetOf(E) \in Int /\ NetOf(E \cup {C}) = NetOf(E) + 1
    <3>1. Delta(C) = 1
      BY <1>2 DEF Delta
    <3>2. C.topic \in Topics
      BY <1>2 DEF Topics
    <3> QED
      BY <1>2, <1>3, <3>1, <3>2, NetAdded
  <2>4. IsFiniteSet(V \cup {k}) /\ Cardinality(V \cup {k}) = Cardinality(V) + 1
    BY <1>4, <2>2, FS_AddElement
  <2>5. /\ NetOf(OfOption(events', o)) = NetOf(E) + 1
        /\ IsFiniteSet(Voting(o)') /\ Cardinality(Voting(o)') = Cardinality(V) + 1
    BY <2>1, <2>2, <2>3, <2>4
  <2> HIDE DEF E, V
  <2> QED
    BY <1>4, <2>3, <2>5
<1>8. CASE o \notin Taken(k, S) /\ o \notin Added(k, S)
  <2>1. OfOption(events', o) = E
    BY <1>1, <1>2, <1>8 DEF OfOption
  <2>2. Voting(o)' = V
    BY <1>5, <1>8 DEF Voting, Added, Taken
  <2>3. /\ NetOf(OfOption(events', o)) = NetOf(E)
        /\ IsFiniteSet(Voting(o)') /\ Cardinality(Voting(o)') = Cardinality(V)
    BY <1>4, <2>1, <2>2
  <2> HIDE DEF E, V
  <2> QED
    BY <1>4, <2>3
<1> QED
  BY <1>6, <1>7, <1>8

LEMMA ChoicesAddUp ==
  ASSUME NEW r \in Requests, NEW k \in Keys, NEW S, LedgerTypes, EventsAddUp,
         Changed(r, k, S)
  PROVE  /\ IsFiniteSet(Votes')
         /\ NetChoices(events') >= Cardinality(Votes')
         /\ ~ lost => NetChoices(events') = Cardinality(Votes')
<1> Moved(r, k, S)
  BY DEF Changed
<1> DEFINE R == RemovalOf(r, k, S)
           C == CastOf(r, k, S)
           T == Taken(k, S)
           A == Added(k, S)
           E == events \cup Ledger!Removed(r, k, T)
           kept == Votes \ ({k} \X T)
<1>1. /\ R.topic = Ledger!TopicVoteRemoved /\ R.opts = T
      /\ C.topic = Ledger!TopicVoteCast /\ C.opts = A
      /\ R \notin events /\ C \notin events /\ R # C
      /\ T \subseteq Options /\ A \subseteq Options
  BY NewEvents DEF RemovalOf, CastOf
<1>2. R.topic \in Topics /\ C.topic \in Topics
  BY <1>1 DEF Topics
<1>3. Delta(R) = -1 /\ Delta(C) = 1
  BY <1>1, TwoTopics DEF Delta
<1>4. IsFiniteSet(events)
  BY DEF LedgerTypes
<1>5. /\ IsFiniteSet(T) /\ IsFiniteSet(A)
      /\ Cardinality(T) \in Nat /\ Cardinality(A) \in Nat
  BY <1>1, CountersAssumption, FS_Subset, FS_CardinalityType
<1>6. /\ E = events \cup (IF T = {} THEN {} ELSE {R})
      /\ events' = E \cup (IF A = {} THEN {} ELSE {C})
  BY DEF Changed, Moved, Ledger!Removed, Ledger!Cast, RemovalOf, CastOf
<1>7. Cardinality({}) = 0
  BY FS_EmptySet
<1>8. IsFiniteSet(E) /\ C \notin E
  BY <1>1, <1>4, <1>6, FS_AddElement
<1>9. NetChoices(events) \in Int /\ NetChoices(E) = NetChoices(events) - Cardinality(T)
  <2>1. /\ NetChoices(events) \in Int
        /\ NetChoices(events \cup {R}) = NetChoices(events) + (-1) * Cardinality(T)
    BY <1>1, <1>2, <1>3, <1>4, NetChoicesAdded
  <2>2. CASE T = {}
    <3>1. E = events /\ Cardinality(T) = 0
      BY <1>6, <1>7, <2>2
    <3> HIDE DEF E, T
    <3> QED
      BY <2>1, <3>1
  <2>3. CASE T # {}
    <3>1. E = events \cup {R}
      BY <1>6, <2>3
    <3>2. (-1) * Cardinality(T) = - Cardinality(T)
      BY <1>5
    <3> HIDE DEF E, T, R
    <3> QED
      BY <1>5, <2>1, <3>1, <3>2
  <2> QED
    BY <2>2, <2>3
<1>10. NetChoices(events') = NetChoices(E) + Cardinality(A)
  <2>1. /\ NetChoices(E) \in Int
        /\ NetChoices(E \cup {C}) = NetChoices(E) + 1 * Cardinality(A)
    BY <1>1, <1>2, <1>3, <1>8, NetChoicesAdded
  <2>2. CASE A = {}
    <3>1. events' = E /\ Cardinality(A) = 0
      BY <1>6, <1>7, <2>2
    <3> HIDE DEF E, A
    <3> QED
      BY <2>1, <3>1
  <2>3. CASE A # {}
    <3>1. events' = E \cup {C}
      BY <1>6, <2>3
    <3> HIDE DEF E, A, C
    <3> QED
      BY <1>5, <2>1, <3>1
  <2> QED
    BY <2>2, <2>3
<1>11. selection'[k] = S /\ \A j \in Keys \ {k} : selection'[j] = selection[j]
  BY DEF Changed, Moved, LedgerTypes
<1>12. /\ {k} \X T \subseteq Votes /\ Votes = kept \cup ({k} \X T)
       /\ kept \cap ({k} \X T) = {}
       /\ Votes' = kept \cup ({k} \X A) /\ kept \cap ({k} \X A) = {}
  <2>1. {k} \X T \subseteq Votes
    BY <1>1 DEF Votes, Taken
  <2>2. Votes' = kept \cup ({k} \X A)
    BY <1>1, <1>11 DEF Votes, Taken, Added
  <2>3. kept \cap ({k} \X A) = {}
    BY DEF Votes, Added
  <2> QED
    BY <2>1, <2>2, <2>3
<1>13. IsFiniteSet(Votes) /\ IsFiniteSet(kept)
  BY FS_Subset DEF EventsAddUp
<1>14. /\ IsFiniteSet({k} \X T) /\ Cardinality({k} \X T) = Cardinality(T)
       /\ IsFiniteSet({k} \X A) /\ Cardinality({k} \X A) = Cardinality(A)
  BY <1>5, Column
<1>15. /\ Cardinality(Votes) = Cardinality(kept) + Cardinality(T)
       /\ IsFiniteSet(Votes') /\ Cardinality(Votes') = Cardinality(kept) + Cardinality(A)
  <2> HIDE DEF T, A, kept
  <2>1. Cardinality(kept \cup ({k} \X T)) = Cardinality(kept) + Cardinality({k} \X T)
    BY <1>12, <1>13, <1>14, DisjointUnion
  <2>2. /\ IsFiniteSet(kept \cup ({k} \X A))
        /\ Cardinality(kept \cup ({k} \X A)) = Cardinality(kept) + Cardinality({k} \X A)
    BY <1>12, <1>13, <1>14, DisjointUnion
  <2> QED
    BY <1>12, <1>14, <2>1, <2>2
<1>16. Cardinality(kept) \in Nat
  BY <1>13, FS_CardinalityType
<1>17. /\ NetChoices(events) >= Cardinality(Votes)
       /\ ~ lost => NetChoices(events) = Cardinality(Votes)
  BY DEF EventsAddUp
<1> HIDE DEF E, T, A, kept
<1> QED
  BY <1>5, <1>9, <1>10, <1>15, <1>16, <1>17

\* In a single choice poll a request adds a voter, removes one, or neither.
LEMMA VotersAddUp ==
  ASSUME NEW r \in Requests, NEW k \in Keys, NEW S, LedgerTypes, SingleChoices,
         EventsAddUp, Changed(r, k, S), NEW g \in Groups
  PROVE  /\ IsFiniteSet(Voters(g)')
         /\ pollType = "single" /\ ~ lost =>
              NetOf(OfVoters(events', g)) = Cardinality(Voters(g)')
<1> Moved(r, k, S)
  BY DEF Changed
<1> DEFINE R == RemovalOf(r, k, S)
           C == CastOf(r, k, S)
           E == OfVoters(events, g)
           V == Voters(g)
<1>1. \A e : e \in events' <=>
        \/ e \in events
        \/ e = R /\ Taken(k, S) # {}
        \/ e = C /\ Added(k, S) # {}
  BY NewEvents
<1>2. /\ R.topic = Ledger!TopicVoteRemoved /\ R.key = k
      /\ C.topic = Ledger!TopicVoteCast /\ C.key = k
      /\ R \notin E /\ C \notin E /\ R # C
  BY NewEvents DEF RemovalOf, CastOf, OfVoters
<1>3. IsFiniteSet(E)
  BY FS_Subset DEF OfVoters, LedgerTypes
<1>4. /\ IsFiniteSet(V) /\ Cardinality(V) \in Nat
      /\ pollType = "single" /\ ~ lost => NetOf(E) = Cardinality(V)
  BY FS_CardinalityType DEF EventsAddUp
<1>5. selection'[k] = S /\ \A j \in Keys \ {k} : selection'[j] = selection[j]
  BY DEF Changed, Moved, LedgerTypes
<1>6. IsFiniteSet(Voters(g)')
  <2>1. Voters(g)' \subseteq V \cup {k}
    BY <1>5 DEF Voters
  <2>2. IsFiniteSet(V \cup {k})
    BY <1>4, FS_AddElement
  <2> QED
    BY <2>1, <2>2, FS_Subset
<1> SUFFICES ASSUME pollType = "single", ~ lost
             PROVE  NetOf(OfVoters(events', g)) = Cardinality(Voters(g)')
  BY <1>6
<1>7. /\ S = {} \/ \E o \in Options : S = {o}
      /\ selection[k] = {} \/ \E o \in Options : selection[k] = {o}
  BY DEF Changed, Moved, SingleChoices
<1>8. R.topic \in Topics /\ C.topic \in Topics /\ Delta(R) = -1 /\ Delta(C) = 1
  BY <1>2, TwoTopics DEF Delta, Topics
<1>9. /\ NetOf(E) \in Int
      /\ NetOf(E \cup {R}) = NetOf(E) - 1
      /\ NetOf(E \cup {C}) = NetOf(E) + 1
      /\ NetOf((E \cup {R}) \cup {C}) = NetOf(E)
  <2>1. /\ NetOf(E) \in Int
        /\ NetOf(E \cup {R}) = NetOf(E) - 1
        /\ NetOf(E \cup {C}) = NetOf(E) + 1
    BY <1>2, <1>3, <1>8, NetAdded
  <2>2. IsFiniteSet(E \cup {R}) /\ C \notin E \cup {R}
    BY <1>2, <1>3, FS_AddElement
  <2>3. NetOf((E \cup {R}) \cup {C}) = NetOf(E \cup {R}) + 1
    BY <1>8, <2>2, NetAdded
  <2> HIDE DEF E, R, C
  <2> QED
    BY <2>1, <2>3
<1>10. CASE GroupOf[k] # g \/ S = selection[k]
  <2>1. Voters(g)' = V
    BY <1>5, <1>10 DEF Voters
  <2>2. OfVoters(events', g) = E
    BY <1>1, <1>2, <1>10 DEF OfVoters, Taken, Added
  <2> QED
    BY <1>4, <2>1, <2>2
<1>11. CASE GroupOf[k] = g /\ selection[k] = {} /\ S # {}
  <2>1. OfVoters(events', g) = E \cup {C}
    BY <1>1, <1>2, <1>11 DEF OfVoters, Taken, Added
  <2>2. Voters(g)' = V \cup {k} /\ k \notin V
    BY <1>5, <1>11 DEF Voters
  <2>3. Cardinality(V \cup {k}) = Cardinality(V) + 1
    BY <1>4, <2>2, FS_AddElement
  <2> QED
    BY <1>4, <1>9, <2>1, <2>2, <2>3
<1>12. CASE GroupOf[k] = g /\ selection[k] # {} /\ S = {}
  <2>1. OfVoters(events', g) = E \cup {R}
    BY <1>1, <1>2, <1>12 DEF OfVoters, Taken, Added
  <2>2. Voters(g)' = V \ {k} /\ k \in V
    BY <1>5, <1>12 DEF Voters
  <2>3. Cardinality(V \ {k}) = Cardinality(V) - 1
    BY <1>4, <2>2, FS_RemoveElement
  <2> QED
    BY <1>4, <1>9, <2>1, <2>2, <2>3
<1>13. CASE GroupOf[k] = g /\ selection[k] # {} /\ S # {} /\ S # selection[k]
  <2>1. Taken(k, S) # {} /\ Added(k, S) # {}
    BY <1>7, <1>13 DEF Taken, Added
  <2>2. OfVoters(events', g) = (E \cup {R}) \cup {C}
    BY <1>1, <1>2, <1>13, <2>1 DEF OfVoters
  <2>3. Voters(g)' = V
    BY <1>5, <1>13 DEF Voters
  <2> QED
    BY <1>4, <1>9, <2>2, <2>3
<1> QED
  BY <1>10, <1>11, <1>12, <1>13

LEMMA ChangedLedger ==
  ASSUME NEW r \in Requests, NEW k \in Keys, NEW S, LedgerInv, Changed(r, k, S)
  PROVE  LedgerInv'
<1> Moved(r, k, S)
  BY DEF Changed
<1>1. /\ LedgerTypes /\ OneKnowsTheOther /\ VotesAreCast /\ SingleChoices
      /\ EventsAddUp
  BY DEF LedgerInv, LedgerCore
<1>2. LedgerTypes' /\ OneKnowsTheOther' /\ VotesAreCast' /\ SingleChoices'
  BY <1>1, ChangedTypes, ChangedKnows, ChangedCasts, ChangedSingle
<1>3. lost' = lost /\ pollType' = pollType
  BY DEF Changed, Moved
<1>4. \A o \in Options :
        /\ IsFiniteSet(Voting(o)')
        /\ NetOf(OfOption(events', o)) >= Cardinality(Voting(o)')
        /\ ~ lost => NetOf(OfOption(events', o)) = Cardinality(Voting(o)')
  BY <1>1, OptionsAddUp
<1>5. /\ IsFiniteSet(Votes')
      /\ NetChoices(events') >= Cardinality(Votes')
      /\ ~ lost => NetChoices(events') = Cardinality(Votes')
  BY <1>1, ChoicesAddUp
<1>6. \A g \in Groups :
        /\ IsFiniteSet(Voters(g)')
        /\ pollType = "single" /\ ~ lost =>
             NetOf(OfVoters(events', g)) = Cardinality(Voters(g)')
  BY <1>1, VotersAddUp
<1>7. EventsAddUp'
  BY <1>3, <1>4, <1>5, <1>6 DEF EventsAddUp
<1> QED
  BY <1>2, <1>7 DEF LedgerInv, LedgerCore

\* A removal that nothing reports leaves fewer votes than the events say.
LEMMA LostLedger ==
  ASSUME NEW k \in Keys, LedgerInv, LoseRemoval(k)
  PROVE  LedgerInv'
<1>1. /\ LedgerTypes /\ OneKnowsTheOther /\ VotesAreCast /\ SingleChoices
      /\ EventsAddUp
  BY DEF LedgerInv, LedgerCore
<1>2. /\ events' = events /\ known' = known /\ lost' /\ pollType' = pollType
      /\ selection' = [selection EXCEPT ![k] = {}]
  BY DEF LoseRemoval, Ledger!LoseRemoval
<1>3. LedgerTypes' /\ \A j \in Keys : selection'[j] = {} \/ selection'[j] = selection[j]
  BY <1>1, <1>2 DEF LedgerTypes
<1>4. OneKnowsTheOther'
  BY <1>1, <1>2 DEF OneKnowsTheOther
<1>5. VotesAreCast'
  BY <1>1, <1>2, <1>3 DEF VotesAreCast, OpenCast
<1>6. SingleChoices'
  BY <1>1, <1>2, <1>3 DEF SingleChoices
<1>7. EventsAddUp'
  <2>1. ASSUME NEW o \in Options
        PROVE  /\ IsFiniteSet(Voting(o)')
               /\ NetOf(OfOption(events', o)) >= Cardinality(Voting(o)')
    <3>1. Voting(o)' \subseteq Voting(o)
      BY <1>3 DEF Voting
    <3>2. /\ IsFiniteSet(Voting(o)) /\ IsFiniteSet(OfOption(events, o))
          /\ NetOf(OfOption(events, o)) >= Cardinality(Voting(o))
      BY <1>1, FS_Subset DEF EventsAddUp, LedgerTypes, OfOption
    <3>3. /\ IsFiniteSet(Voting(o)') /\ Cardinality(Voting(o)') \in Nat
          /\ Cardinality(Voting(o)) \in Nat /\ Cardinality(Voting(o)') <= Cardinality(Voting(o))
      BY <3>1, <3>2, FS_Subset, FS_CardinalityType
    <3>4. NetOf(OfOption(events, o)) \in Int
      BY <3>2, NetIsInt
    <3> QED
      BY <1>2, <3>2, <3>3, <3>4
  <2>2. IsFiniteSet(Votes') /\ NetChoices(events') >= Cardinality(Votes')
    <3>1. Votes' \subseteq Votes
      BY <1>3 DEF Votes
    <3>2. /\ IsFiniteSet(Votes) /\ IsFiniteSet(events)
          /\ NetChoices(events) >= Cardinality(Votes)
      BY <1>1 DEF EventsAddUp, LedgerTypes
    <3>3. /\ IsFiniteSet(Votes') /\ Cardinality(Votes') \in Nat
          /\ Cardinality(Votes) \in Nat /\ Cardinality(Votes') <= Cardinality(Votes)
      BY <3>1, <3>2, FS_Subset, FS_CardinalityType
    <3>4. NetChoices(events) \in Int
      BY <3>2, NetIsInt
    <3> QED
      BY <1>2, <3>2, <3>3, <3>4
  <2>3. \A g \in Groups : IsFiniteSet(Voters(g)')
    <3>1. \A g \in Groups : Voters(g)' \subseteq Voters(g) /\ IsFiniteSet(Voters(g))
      BY <1>1, <1>3 DEF Voters, EventsAddUp
    <3> QED
      BY <3>1, FS_Subset
  <2> QED
    BY <1>2, <2>1, <2>2, <2>3 DEF EventsAddUp
<1> QED
  BY <1>3, <1>4, <1>5, <1>6, <1>7 DEF LedgerInv, LedgerCore

\* The rest of the steps are the consumers'.
LEMMA LedgerNext == LedgerInv /\ [Next]_vars => LedgerInv'
<1> SUFFICES ASSUME LedgerInv, [Next]_vars PROVE LedgerInv'
  OBVIOUS
<1>1. ASSUME NEW r \in Requests, NEW k \in Keys, Serve(r, k) PROVE LedgerInv'
  <2>1. PICK S : Changed(r, k, S)
    BY <1>1, ServeChanges DEF LedgerInv, LedgerCore
  <2> QED
    BY <2>1, ChangedLedger
<1>2. ASSUME NEW k \in Keys, LoseRemoval(k) PROVE LedgerInv'
  BY <1>2, LostLedger
<1>3. CASE UNCHANGED ledgerVars
  <2>1. /\ pollType' = pollType /\ selection' = selection /\ events' = events
        /\ known' = known /\ lost' = lost
    BY <1>3 DEF ledgerVars
  <2>2. LedgerTypes' /\ OneKnowsTheOther' /\ SingleChoices'
    BY <2>1 DEF LedgerInv, LedgerCore, LedgerTypes, OneKnowsTheOther, SingleChoices
  <2>3. VotesAreCast'
    BY <2>1 DEF LedgerInv, LedgerCore, VotesAreCast, OpenCast
  <2>4. Votes' = Votes /\ (\A o : Voting(o)' = Voting(o)) /\ (\A g : Voters(g)' = Voters(g))
    BY <2>1 DEF Votes, Voting, Voters
  <2>5. EventsAddUp'
    BY <2>1, <2>4 DEF LedgerInv, LedgerCore, EventsAddUp
  <2> QED
    BY <2>2, <2>3, <2>5 DEF LedgerInv, LedgerCore
<1> QED
  BY <1>1, <1>2, <1>3 DEF Next, vars, ProcessAtPoll, ProcessAtAnalytics

-----------------------------------------------------------------------------
(* In time: no removal before the casts it takes back. *)

InTime(E) ==
  \A e \in Removals(E) : \A f \in Casts(known[e.by]) :
    f.key = e.key /\ f.opts \cap e.opts # {} => f \in E

\* The cast that a removal takes back, of one of its options.
Match(e, o) == CHOOSE f : OpenCast(f, e.key, o, known[e.by])

LEMMA Matched ==
  ASSUME LedgerCore, NEW E \in SUBSET events, InTime(E),
         NEW e \in Removals(E), NEW o \in e.opts
  PROVE  /\ Match(e, o) \in Casts(E) /\ Match(e, o).key = e.key /\ o \in Match(e, o).opts
         /\ OpenCast(Match(e, o), e.key, o, known[e.by])
<1>1. e \in Removals(events)
  BY DEF Removals
<1>2. \E f : OpenCast(f, e.key, o, known[e.by])
  BY <1>1 DEF LedgerCore, VotesAreCast
<1>3. OpenCast(Match(e, o), e.key, o, known[e.by])
  BY <1>2 DEF Match
<1>4. /\ Match(e, o) \in Casts(known[e.by]) /\ Match(e, o).key = e.key
      /\ o \in Match(e, o).opts
  BY <1>3 DEF OpenCast
<1>5. Match(e, o).opts \cap e.opts # {}
  BY <1>4
<1>6. Match(e, o) \in E
  BY <1>4, <1>5 DEF InTime
<1> QED
  BY <1>3, <1>4, <1>6 DEF Casts

\* Two removals never take the same vote back.
LEMMA MatchedOnce ==
  ASSUME LedgerCore, NEW E \in SUBSET events, InTime(E),
         NEW e \in Removals(E), NEW f \in Removals(E), NEW o \in e.opts, o \in f.opts,
         Match(e, o) = Match(f, o)
  PROVE  e = f
<1>1. /\ OpenCast(Match(e, o), e.key, o, known[e.by])
      /\ OpenCast(Match(e, o), f.key, o, known[f.by])
      /\ e.key = f.key
  BY Matched
<1>2. e \in events /\ f \in events
  BY DEF Removals
<1>3. CASE e.by = f.by
  BY <1>2, <1>3 DEF LedgerCore, OneKnowsTheOther
<1>4. CASE e.by # f.by
  <2>1. e \in known[f.by] \/ f \in known[e.by]
    BY <1>2, <1>4 DEF LedgerCore, OneKnowsTheOther
  <2>2. e \in known[f.by] => FALSE
    BY <1>1 DEF OpenCast, Removals, Casts
  <2>3. f \in known[e.by] => FALSE
    BY <1>1 DEF OpenCast, Removals, Casts
  <2> QED
    BY <2>1, <2>2, <2>3
<1> QED
  BY <1>3, <1>4

\* As many casts as removals, wherever each removal has a cast of its own.
LEMMA NetOfMatched ==
  ASSUME NEW E, IsFiniteSet(E), NEW m, m \in Injection(Removals(E), Casts(E))
  PROVE  NetOf(E) \in Nat
<1>1. IsFiniteSet(Casts(E)) /\ IsFiniteSet(Removals(E))
  BY FS_Subset DEF Casts, Removals
<1>2. Cardinality(Removals(E)) <= Cardinality(Casts(E))
  BY <1>1, FS_Injection
<1>3. Cardinality(Removals(E)) \in Nat /\ Cardinality(Casts(E)) \in Nat
  BY <1>1, FS_CardinalityType
<1> QED
  BY <1>2, <1>3 DEF NetOf

LEMMA OptionNet ==
  ASSUME LedgerCore, NEW E \in SUBSET events, InTime(E), NEW o
  PROVE  NetOf(OfOption(E, o)) \in Nat
<1> DEFINE F == OfOption(E, o)
           m == [e \in Removals(F) |-> Match(e, o)]
<1>1. IsFiniteSet(F)
  BY FS_Subset DEF OfOption, LedgerCore, LedgerTypes
<1>2. \A e \in Removals(F) : e \in Removals(E) /\ o \in e.opts
  BY DEF Removals, OfOption
<1>3. \A e \in Removals(F) : m[e] \in Casts(F)
  <2>1. SUFFICES ASSUME NEW e \in Removals(F) PROVE Match(e, o) \in Casts(F)
    OBVIOUS
  <2>2. Match(e, o) \in Casts(E) /\ o \in Match(e, o).opts
    BY <1>2, Matched
  <2> QED
    BY <2>2 DEF Casts, OfOption
<1>4. \A e, f \in Removals(F) : m[e] = m[f] => e = f
  BY <1>2, MatchedOnce
<1>5. m \in Injection(Removals(F), Casts(F))
  BY <1>3, <1>4, Fun_IsInj
<1> HIDE DEF F, m
<1>6. NetOf(F) \in Nat
  BY <1>1, <1>5, NetOfMatched
<1> QED
  BY <1>6 DEF F

LEMMA ChoicesNet ==
  ASSUME LedgerInv, NEW E \in SUBSET events, InTime(E)
  PROVE  NetChoices(E) \in Nat
<1> LedgerCore
  BY DEF LedgerInv
<1> DEFINE R == Choices(Removals(E))
           C == Choices(Casts(E))
           m == [c \in R |-> <<Match(c[1], c[2]), c[2]>>]
<1>1. IsFiniteSet(C) /\ IsFiniteSet(R)
  <2>1. IsFiniteSet(E)
    BY FS_Subset DEF LedgerInv, LedgerCore, LedgerTypes
  <2>2. IsFiniteSet(Casts(E)) /\ IsFiniteSet(Removals(E))
    BY <2>1, FS_Subset DEF Casts, Removals
  <2>3. IsFiniteSet(Casts(E) \X Options) /\ IsFiniteSet(Removals(E) \X Options)
    BY <2>2, CountersAssumption, FS_Product
  <2> QED
    BY <2>3, FS_Subset DEF Choices
<1>2. ASSUME NEW c \in R
      PROVE  c[1] \in Removals(E) /\ c[2] \in c[1].opts /\ c[2] \in Options /\ c = <<c[1], c[2]>>
  BY DEF Choices
<1>3. \A c \in R : m[c] \in C
  <2>1. SUFFICES ASSUME NEW c \in R PROVE <<Match(c[1], c[2]), c[2]>> \in C
    OBVIOUS
  <2>2. Match(c[1], c[2]) \in Casts(E) /\ c[2] \in Match(c[1], c[2]).opts
    BY <1>2, Matched
  <2> QED
    BY <1>2, <2>2 DEF Choices
<1>4. \A c, d \in R : m[c] = m[d] => c = d
  <2>1. SUFFICES ASSUME NEW c \in R, NEW d \in R, m[c] = m[d] PROVE c = d
    OBVIOUS
  <2>2. Match(c[1], c[2]) = Match(d[1], d[2]) /\ c[2] = d[2]
    BY <2>1
  <2>3. c[1] = d[1]
    BY <1>2, <2>2, MatchedOnce
  <2> QED
    BY <1>2, <2>2, <2>3
<1>5. m \in Injection(R, C)
  BY <1>3, <1>4, Fun_IsInj
<1> HIDE DEF R, C, m
<1>6. Cardinality(R) <= Cardinality(C) /\ Cardinality(R) \in Nat /\ Cardinality(C) \in Nat
  BY <1>1, <1>5, FS_Injection, FS_CardinalityType
<1> QED
  BY <1>6 DEF NetChoices, R, C

LEMMA GroupNet ==
  ASSUME LedgerInv, NEW E \in SUBSET events, InTime(E), pollType = "single",
         StableProfiles, NEW g
  PROVE  NetOf(OfGroup(E, g)) \in Nat
<1> LedgerCore
  BY DEF LedgerInv
<1> DEFINE F == OfGroup(E, g)
           only(e) == CHOOSE o \in Options : e.opts = {o}
           m == [e \in Removals(F) |-> Match(e, only(e))]
<1>1. IsFiniteSet(F)
  BY FS_Subset DEF OfGroup, LedgerInv, LedgerCore, LedgerTypes
<1>2. ASSUME NEW e \in events PROVE e.opts = {only(e)}
  BY DEF LedgerInv, LedgerCore, SingleChoices
<1> HIDE DEF only
<1>3. \A e \in Removals(F) : e \in Removals(E) /\ e \in events /\ group[e.by] = g
  BY DEF Removals, OfGroup
<1>4. ASSUME NEW e \in Removals(F)
      PROVE  /\ Match(e, only(e)) \in Casts(F)
             /\ only(Match(e, only(e))) = only(e)
  <2>1. /\ Match(e, only(e)) \in Casts(E) /\ Match(e, only(e)).key = e.key
        /\ only(e) \in Match(e, only(e)).opts
    BY <1>2, <1>3, Matched
  <2>2. Match(e, only(e)) \in events
    BY <2>1 DEF Casts
  <2>3. group[Match(e, only(e)).by] = g
    BY <1>3, <2>1, <2>2 DEF StableProfiles
  <2> QED
    BY <1>2, <2>1, <2>2, <2>3 DEF Casts, OfGroup
<1>5. \A e, f \in Removals(F) : m[e] = m[f] => e = f
  <2>1. SUFFICES ASSUME NEW e \in Removals(F), NEW f \in Removals(F),
                        Match(e, only(e)) = Match(f, only(f))
                 PROVE  e = f
    OBVIOUS
  <2>2. only(e) = only(f)
    BY <1>4, <2>1
  <2>3. only(e) \in e.opts /\ only(e) \in f.opts
    BY <1>2, <1>3, <2>2
  <2> QED
    BY <1>3, <2>1, <2>2, <2>3, MatchedOnce
<1>6. m \in Injection(Removals(F), Casts(F))
  BY <1>4, <1>5, Fun_IsInj
<1> HIDE DEF F, m
<1>7. NetOf(F) \in Nat
  BY <1>1, <1>6, NetOfMatched
<1> QED
  BY <1>7 DEF F

-----------------------------------------------------------------------------
(* The consumers. *)

\* In a single choice poll of users who keep their profiles, the groups too are
\* counted exactly by whoever is never late.
GroupsInOrder ==
  pollType = "single" /\ StableProfiles /\ "analytics" \notin late =>
    \A g \in Groups : Count(groupStats[g]) = NetOf(OfGroup(statsApplied, g))

NeverLateInTime ==
  /\ "poll" \notin late => InTime(pollApplied)
  /\ "analytics" \notin late => InTime(statsApplied)

ConsumersInv ==
  /\ TypeOK
  /\ NeverLateInTime
  /\ NeverUndercounts
  /\ ExactInOrder
  /\ GroupsInOrder

CountersInv == LedgerInv /\ ConsumersInv

LEMMA ConsumersInit == Init => ConsumersInv
<1> SUFFICES ASSUME Init PROVE ConsumersInv
  OBVIOUS
<1>1. /\ selection = [k \in Keys |-> {}] /\ events = {}
      /\ pollApplied = {} /\ statsApplied = {}
  BY DEF Init, Ledger!Init
<1>2. TypeOK
  BY <1>1 DEF Init, TypeOK
<1>3. \A o : OfOption({}, o) = {} /\ OfGroup({}, o) = {}
  BY DEF OfOption, OfGroup
<1>4. /\ \A o \in Options : optionVotes[o] = 0 /\ Count(optionStats[o]) = 0
      /\ \A g \in Groups : Count(groupStats[g]) = 0
      /\ totalVotes = 0
  BY DEF Init, Count
<1>5. NeverUndercounts /\ ExactInOrder /\ GroupsInOrder
  BY <1>1, <1>3, <1>4, NetOfNone DEF NeverUndercounts, ExactInOrder, GroupsInOrder
<1>6. NeverLateInTime
  BY <1>1 DEF NeverLateInTime, InTime, Removals
<1> QED
  BY <1>2, <1>5, <1>6 DEF ConsumersInv

\* What the ledger does changes nothing of what a consumer processed.
LEMMA LedgerStepsKeep ==
  ASSUME ConsumersInv, LedgerInv,
         UNCHANGED <<pollType, pollVars, statsVars, late>>,
         events \subseteq events',
         \A e \in events : known'[e.by] = known[e.by] /\ group'[e.by] = group[e.by]
  PROVE  NeverLateInTime' /\ NeverUndercounts' /\ ExactInOrder' /\ GroupsInOrder'
<1>1. /\ pollApplied' = pollApplied /\ optionVotes' = optionVotes /\ totalVotes' = totalVotes
      /\ statsApplied' = statsApplied /\ optionStats' = optionStats
      /\ groupStats' = groupStats /\ late' = late /\ pollType' = pollType
  BY DEF pollVars, statsVars
<1>2. pollApplied \subseteq events /\ statsApplied \subseteq events
  BY DEF ConsumersInv, TypeOK
<1>3. NeverLateInTime'
  <2>1. \A e \in Removals(pollApplied) : known'[e.by] = known[e.by]
    BY <1>2 DEF Removals
  <2>2. \A e \in Removals(statsApplied) : known'[e.by] = known[e.by]
    BY <1>2 DEF Removals
  <2> QED
    BY <1>1, <2>1, <2>2 DEF ConsumersInv, NeverLateInTime, InTime
<1>4. \A g : OfGroup(statsApplied, g)' = OfGroup(statsApplied, g)
  BY <1>1, <1>2 DEF OfGroup
<1>5. NeverUndercounts' /\ ExactInOrder'
  BY <1>1, <1>4 DEF ConsumersInv, NeverUndercounts, ExactInOrder
<1>6. GroupsInOrder'
  <2>1. StableProfiles' => StableProfiles
    BY DEF StableProfiles
  <2> QED
    BY <1>1, <1>4, <2>1 DEF ConsumersInv, GroupsInOrder
<1> QED
  BY <1>3, <1>5, <1>6

LEMMA ServeKeeps ==
  ASSUME NEW r \in Requests, NEW k \in Keys, CountersInv, Serve(r, k)
  PROVE  ConsumersInv'
<1>1. PICK S : Changed(r, k, S)
  BY ServeChanges DEF CountersInv, LedgerInv, LedgerCore
<1>2. LedgerTypes'
  BY <1>1, ChangedTypes DEF Changed, CountersInv, LedgerInv, LedgerCore
<1>3. events \subseteq events'
  BY <1>1 DEF Changed, Moved
<1>4. \A e \in events : known'[e.by] = known[e.by] /\ group'[e.by] = group[e.by]
  BY DEF Serve, CountersInv, ConsumersInv, TypeOK, Ledger!Event
<1>5. UNCHANGED <<pollType, lost, pollVars, statsVars, late>>
  BY DEF Serve
<1>6. TypeOK'
  <2>1. group' \in [Requests -> Groups \cup {None}]
    BY DEF Serve, GetVoterMeta, CountersInv, ConsumersInv, TypeOK
  <2> QED
    BY <1>2, <1>3, <1>5, <2>1
    DEF LedgerTypes, CountersInv, ConsumersInv, TypeOK, pollVars, statsVars
<1> QED
  BY <1>3, <1>4, <1>5, <1>6, LedgerStepsKeep DEF CountersInv, ConsumersInv

LEMMA LoseRemovalKeeps ==
  ASSUME NEW k \in Keys, CountersInv, LoseRemoval(k)
  PROVE  ConsumersInv'
<1>1. /\ events' = events /\ known' = known /\ group' = group /\ lost' = TRUE
      /\ selection' = [selection EXCEPT ![k] = {}]
      /\ UNCHANGED <<pollType, pollVars, statsVars, late>>
  BY DEF LoseRemoval, Ledger!LoseRemoval
<1>2. TypeOK'
  BY <1>1 DEF CountersInv, ConsumersInv, TypeOK, pollVars, statsVars
<1> QED
  BY <1>1, <1>2, LedgerStepsKeep DEF CountersInv, ConsumersInv

\* GREATEST(0, ...): never below the sum, and the sum itself while that is not
\* negative.
LEMMA Incremented ==
  ASSUME NEW n \in Nat, NEW delta \in {1, -1}
  PROVE  /\ Increment(n, delta) \in Nat /\ Increment(n, delta) >= n + delta
         /\ n + delta >= 0 => Increment(n, delta) = n + delta
  BY DEF Increment

LEMMA Upserted ==
  ASSUME NEW row \in Int \cup {None}, NEW delta \in {1, -1}
  PROVE  /\ Upsert(row, delta) \in Int /\ Count(Upsert(row, delta)) = Upsert(row, delta)
         /\ Count(row) \in Int
         /\ Upsert(row, delta) >= -1
         /\ Upsert(row, delta) >= Count(row) + delta
         /\ Count(row) + delta >= 0 => Upsert(row, delta) = Count(row) + delta
<1>1. None \notin Int
  BY CountersAssumption
<1>2. CASE row = None
  <2>1. Upsert(row, delta) = delta /\ Count(row) = 0
    BY <1>2 DEF Upsert, Count
  <2>2. delta # None
    BY <1>1
  <2> QED
    BY <2>1, <2>2 DEF Count
<1>3. CASE row # None
  <2>1. Upsert(row, delta) = Increment(row, delta) /\ Count(row) = row /\ row \in Int
    BY <1>3 DEF Upsert, Count
  <2>2. /\ Increment(row, delta) \in Int /\ Increment(row, delta) >= 0
        /\ Increment(row, delta) >= row + delta
        /\ row + delta >= 0 => Increment(row, delta) = row + delta
    BY <2>1 DEF Increment
  <2>3. Count(Increment(row, delta)) = Increment(row, delta)
    BY <1>1, <2>2 DEF Count
  <2> QED
    BY <2>1, <2>2, <2>3
<1> QED
  BY <1>2, <1>3

\* What processing e adds to the sums of a consumer that processed E.
LEMMA SumsAdded ==
  ASSUME LedgerTypes, NEW E \in SUBSET events, NEW e \in events \ E
  PROVE  /\ Delta(e) \in {1, -1} /\ Cardinality(e.opts) \in Nat
         /\ \A o : /\ NetOf(OfOption(E, o)) \in Int
                   /\ o \in e.opts =>
                        NetOf(OfOption(E \cup {e}, o)) = NetOf(OfOption(E, o)) + Delta(e)
                   /\ o \notin e.opts => OfOption(E \cup {e}, o) = OfOption(E, o)
         /\ NetChoices(E) \in Int
         /\ NetChoices(E \cup {e}) = NetChoices(E) + Delta(e) * Cardinality(e.opts)
         /\ \A g : /\ NetOf(OfGroup(E, g)) \in Int
                   /\ g = group[e.by] =>
                        NetOf(OfGroup(E \cup {e}, g)) = NetOf(OfGroup(E, g)) + Delta(e)
                   /\ g # group[e.by] => OfGroup(E \cup {e}, g) = OfGroup(E, g)
<1>1. /\ e.topic \in Topics /\ e.opts \subseteq Options
      /\ IsFiniteSet(E) /\ e \notin E
  BY FS_Subset DEF LedgerTypes, Ledger!Event, Topics
<1>2. ASSUME NEW o
      PROVE  /\ NetOf(OfOption(E, o)) \in Int
             /\ o \in e.opts =>
                  NetOf(OfOption(E \cup {e}, o)) = NetOf(OfOption(E, o)) + Delta(e)
             /\ o \notin e.opts => OfOption(E \cup {e}, o) = OfOption(E, o)
  <2>1. IsFiniteSet(OfOption(E, o)) /\ e \notin OfOption(E, o)
    BY <1>1, FS_Subset DEF OfOption
  <2>2. o \in e.opts => OfOption(E \cup {e}, o) = OfOption(E, o) \cup {e}
    BY DEF OfOption
  <2>3. o \notin e.opts => OfOption(E \cup {e}, o) = OfOption(E, o)
    BY DEF OfOption
  <2>4. /\ NetOf(OfOption(E, o)) \in Int
        /\ NetOf(OfOption(E, o) \cup {e}) = NetOf(OfOption(E, o)) + Delta(e)
    BY <1>1, <2>1, NetAdded
  <2> QED
    BY <2>2, <2>3, <2>4
<1>3. ASSUME NEW g
      PROVE  /\ NetOf(OfGroup(E, g)) \in Int
             /\ g = group[e.by] =>
                  NetOf(OfGroup(E \cup {e}, g)) = NetOf(OfGroup(E, g)) + Delta(e)
             /\ g # group[e.by] => OfGroup(E \cup {e}, g) = OfGroup(E, g)
  <2>1. IsFiniteSet(OfGroup(E, g)) /\ e \notin OfGroup(E, g)
    BY <1>1, FS_Subset DEF OfGroup
  <2>2. g = group[e.by] => OfGroup(E \cup {e}, g) = OfGroup(E, g) \cup {e}
    BY DEF OfGroup
  <2>3. g # group[e.by] => OfGroup(E \cup {e}, g) = OfGroup(E, g)
    BY DEF OfGroup
  <2>4. /\ NetOf(OfGroup(E, g)) \in Int
        /\ NetOf(OfGroup(E, g) \cup {e}) = NetOf(OfGroup(E, g)) + Delta(e)
    BY <1>1, <2>1, NetAdded
  <2> QED
    BY <2>2, <2>3, <2>4
<1>4. Delta(e) \in {1, -1}
  BY DEF Delta
<1>5. /\ NetChoices(E) \in Int /\ Cardinality(e.opts) \in Nat
      /\ NetChoices(E \cup {e}) = NetChoices(E) + Delta(e) * Cardinality(e.opts)
  BY <1>1, NetChoicesAdded
<1> QED
  BY <1>2, <1>3, <1>4, <1>5

LEMMA StaysInTime ==
  ASSUME NEW E, InTime(E), NEW e, ~ Overtakes(e, E)
  PROVE  InTime(E \cup {e})
<1>1. ASSUME NEW d \in Removals(E \cup {e}), NEW f \in Casts(known[d.by]),
             f.key = d.key, f.opts \cap d.opts # {}
      PROVE  f \in E \cup {e}
  <2>1. CASE d \in E
    BY <1>1, <2>1 DEF InTime, Removals
  <2>2. CASE d = e
    BY <1>1, <2>2 DEF Overtakes, Removals, Casts
  <2> QED
    BY <2>1, <2>2 DEF Removals
<1> QED
  BY <1>1 DEF InTime

LEMMA PollKeeps ==
  ASSUME NEW e \in events, CountersInv, ProcessAtPoll(e)
  PROVE  ConsumersInv'
<1> DEFINE E == pollApplied
           n == Cardinality(e.opts)
           d == Delta(e)
<1>1. /\ LedgerTypes /\ TypeOK /\ NeverLateInTime /\ NeverUndercounts /\ ExactInOrder
      /\ GroupsInOrder
  BY DEF CountersInv, ConsumersInv, LedgerInv, LedgerCore
<1>2. /\ e \in events \ E /\ E \in SUBSET events /\ pollApplied' = E \cup {e}
      /\ optionVotes' = [o \in Options |->
           IF o \in e.opts THEN Increment(optionVotes[o], d) ELSE optionVotes[o]]
      /\ totalVotes' = UpdateTotalVotes(totalVotes, e)
      /\ late' = NowLate("poll", e, E)
  BY <1>1 DEF ProcessAtPoll, TypeOK
<1>3. /\ pollType' = pollType /\ selection' = selection /\ events' = events
      /\ known' = known /\ lost' = lost /\ group' = group
      /\ statsApplied' = statsApplied /\ optionStats' = optionStats
      /\ groupStats' = groupStats
  BY DEF ProcessAtPoll, ledgerVars, statsVars
<1>4. /\ late \subseteq late' /\ late' \subseteq late \cup {"poll"}
      /\ "poll" \notin late' => "poll" \notin late /\ ~ Overtakes(e, E)
  BY <1>2 DEF NowLate
<1>5. /\ d \in {1, -1} /\ n \in Nat
      /\ NetChoices(E) \in Int /\ NetChoices(E \cup {e}) = NetChoices(E) + d * n
      /\ totalVotes \in Nat /\ d * n \in Int
  <2>1. /\ d \in {1, -1} /\ n \in Nat
        /\ NetChoices(E) \in Int /\ NetChoices(E \cup {e}) = NetChoices(E) + d * n
    BY <1>1, <1>2, SumsAdded
  <2> HIDE DEF d, n
  <2>2. d * n \in Int
    BY <2>1
  <2> QED
    BY <1>1, <2>1, <2>2 DEF TypeOK
<1>6. /\ totalVotes' \in Nat /\ totalVotes' >= totalVotes + d * n
      /\ totalVotes + d * n >= 0 => totalVotes' = totalVotes + d * n
  <2>1. totalVotes' = IF totalVotes + d * n < 0 THEN 0 ELSE totalVotes + d * n
    BY <1>2 DEF UpdateTotalVotes
  <2> DEFINE m == d * n
  <2>2. m \in Int /\ totalVotes \in Nat
    BY <1>5
  <2>3. totalVotes' = IF totalVotes + m < 0 THEN 0 ELSE totalVotes + m
    BY <2>1
  <2> HIDE DEF m
  <2>4. /\ totalVotes' \in Nat /\ totalVotes' >= totalVotes + m
        /\ totalVotes + m >= 0 => totalVotes' = totalVotes + m
    BY <2>2, <2>3
  <2> QED
    BY <2>4 DEF m
<1>7. ASSUME NEW o \in Options
      PROVE  /\ optionVotes'[o] \in Nat /\ optionVotes[o] \in Nat
             /\ NetOf(OfOption(E, o)) \in Int /\ NetOf(OfOption(E \cup {e}, o)) \in Int
             /\ optionVotes[o] >= NetOf(OfOption(E, o)) =>
                  optionVotes'[o] >= NetOf(OfOption(E \cup {e}, o))
             /\ optionVotes[o] = NetOf(OfOption(E, o)) /\ NetOf(OfOption(E \cup {e}, o)) \in Nat =>
                  optionVotes'[o] = NetOf(OfOption(E \cup {e}, o))
  <2>1. d \in {1, -1} /\ optionVotes[o] \in Nat
    BY <1>1, <1>5 DEF TypeOK
  <2>2. NetOf(OfOption(E, o)) \in Int
    BY <1>1, <1>2, SumsAdded
  <2>3. CASE o \in e.opts
    <3>1. NetOf(OfOption(E \cup {e}, o)) = NetOf(OfOption(E, o)) + d
      BY <1>1, <1>2, <2>3, SumsAdded
    <3>2. optionVotes'[o] = Increment(optionVotes[o], d)
      BY <1>2, <2>3
    <3>3. /\ Increment(optionVotes[o], d) \in Nat
          /\ Increment(optionVotes[o], d) >= optionVotes[o] + d
          /\ optionVotes[o] + d >= 0 => Increment(optionVotes[o], d) = optionVotes[o] + d
      BY <2>1, Incremented
    <3> HIDE DEF d, E
    <3> QED
      BY <2>1, <2>2, <3>1, <3>2, <3>3
  <2>4. CASE o \notin e.opts
    <3>1. OfOption(E \cup {e}, o) = OfOption(E, o)
      BY <1>1, <1>2, <2>4, SumsAdded
    <3>2. optionVotes'[o] = optionVotes[o]
      BY <1>2, <2>4
    <3> QED
      BY <2>1, <2>2, <3>1, <3>2
  <2> QED
    BY <2>3, <2>4
<1>8. "poll" \notin late' => InTime(E \cup {e})
  BY <1>1, <1>4, StaysInTime DEF NeverLateInTime
<1>9. NeverLateInTime'
  BY <1>1, <1>2, <1>3, <1>4, <1>8 DEF NeverLateInTime, InTime, Removals, Casts
<1>10. TypeOK'
  <2>1. optionVotes' \in [Options -> Nat]
    BY <1>2, <1>7
  <2>2. late' \subseteq {"poll", "analytics"}
    BY <1>1, <1>4 DEF TypeOK
  <2> QED
    BY <1>1, <1>2, <1>3, <1>6, <2>1, <2>2 DEF TypeOK
<1>11. \A g : OfGroup(statsApplied, g)' = OfGroup(statsApplied, g)
  BY <1>3 DEF OfGroup
<1>12. NeverUndercounts'
  <2>1. \A o \in Options : optionVotes'[o] >= NetOf(OfOption(E \cup {e}, o)) /\ optionVotes'[o] >= 0
    BY <1>1, <1>7 DEF NeverUndercounts
  <2>2. totalVotes' >= NetChoices(E \cup {e})
    <3>1. totalVotes >= NetChoices(E)
      BY <1>1 DEF NeverUndercounts
    <3> HIDE DEF E
    <3> QED
      BY <1>5, <1>6, <3>1
  <2> QED
    BY <1>1, <1>2, <1>3, <1>11, <2>1, <2>2 DEF NeverUndercounts
<1>13. ExactInOrder'
  <2>1. ASSUME "poll" \notin late'
        PROVE  /\ \A o \in Options : optionVotes'[o] = NetOf(OfOption(E \cup {e}, o))
               /\ totalVotes' = NetChoices(E \cup {e})
    <3>1. InTime(E \cup {e}) /\ E \cup {e} \in SUBSET events
      BY <1>2, <1>8, <2>1
    <3>2. /\ \A o \in Options : optionVotes[o] = NetOf(OfOption(E, o))
          /\ totalVotes = NetChoices(E)
      BY <1>1, <1>4, <2>1 DEF ExactInOrder
    <3>3. \A o \in Options : NetOf(OfOption(E \cup {e}, o)) \in Nat
      BY <3>1, OptionNet DEF CountersInv, LedgerInv
    <3>4. NetChoices(E \cup {e}) \in Nat
      BY <3>1, ChoicesNet DEF CountersInv
    <3>5. \A o \in Options : optionVotes'[o] = NetOf(OfOption(E \cup {e}, o))
      BY <1>7, <3>2, <3>3
    <3>6. totalVotes' = NetChoices(E \cup {e})
      <4> HIDE DEF E, n, d
      <4> QED
        BY <1>5, <1>6, <3>2, <3>4
    <3> QED
      BY <3>5, <3>6
  <2> QED
    BY <1>1, <1>2, <1>3, <1>4, <2>1 DEF ExactInOrder
<1>14. GroupsInOrder'
  <2>1. StableProfiles' <=> StableProfiles
    BY <1>3 DEF StableProfiles
  <2>2. "analytics" \notin late' => "analytics" \notin late
    BY <1>4
  <2> QED
    BY <1>1, <1>3, <1>11, <2>1, <2>2 DEF GroupsInOrder
<1> QED
  BY <1>9, <1>10, <1>12, <1>13, <1>14 DEF ConsumersInv

LEMMA AnalyticsKeeps ==
  ASSUME NEW e \in events, CountersInv, ProcessAtAnalytics(e)
  PROVE  ConsumersInv'
<1> DEFINE E == statsApplied
           d == Delta(e)
<1>1. /\ LedgerTypes /\ TypeOK /\ NeverLateInTime /\ NeverUndercounts /\ ExactInOrder
      /\ GroupsInOrder
  BY DEF CountersInv, ConsumersInv, LedgerInv, LedgerCore
<1>2. /\ e \in events \ E /\ E \in SUBSET events /\ statsApplied' = E \cup {e}
      /\ optionStats' = [o \in Options |->
           IF o \in e.opts THEN Upsert(optionStats[o], d) ELSE optionStats[o]]
      /\ groupStats' = [g \in Groups |-> IF g = group[e.by]
           THEN Upsert(groupStats[g], d) ELSE groupStats[g]]
      /\ late' = NowLate("analytics", e, E)
  BY <1>1 DEF ProcessAtAnalytics, IncrementGroupVotes, TypeOK
<1>3. /\ pollType' = pollType /\ selection' = selection /\ events' = events
      /\ known' = known /\ lost' = lost /\ group' = group
      /\ pollApplied' = pollApplied /\ optionVotes' = optionVotes
      /\ totalVotes' = totalVotes
  BY DEF ProcessAtAnalytics, ledgerVars, pollVars
<1>4. /\ late \subseteq late' /\ late' \subseteq late \cup {"analytics"}
      /\ "analytics" \notin late' => "analytics" \notin late /\ ~ Overtakes(e, E)
  BY <1>2 DEF NowLate
<1>5. d \in {1, -1}
  BY <1>1, <1>2, SumsAdded
<1>6. ASSUME NEW row \in Int \cup {None}, NEW row2, NEW sum \in Int, NEW sum2,
             \/ row2 = Upsert(row, d) /\ sum2 = sum + d
             \/ row2 = row /\ sum2 = sum
      PROVE  /\ row2 \in Int \cup {None} /\ sum2 \in Int
             /\ Count(row) >= -1 => Count(row2) >= -1
             /\ Count(row) >= sum => Count(row2) >= sum2
             /\ Count(row) = sum /\ sum2 \in Nat => Count(row2) = sum2
  <2>1. /\ Upsert(row, d) \in Int /\ Count(Upsert(row, d)) = Upsert(row, d)
        /\ Count(row) \in Int
        /\ Upsert(row, d) >= -1
        /\ Upsert(row, d) >= Count(row) + d
        /\ Count(row) + d >= 0 => Upsert(row, d) = Count(row) + d
    BY <1>5, Upserted
  <2>2. CASE row2 = Upsert(row, d) /\ sum2 = sum + d
    <3> HIDE DEF d
    <3>1. Count(row2) = Upsert(row, d)
      BY <2>1, <2>2
    <3> QED
      BY <1>5, <2>1, <2>2, <3>1
  <2>3. CASE row2 = row /\ sum2 = sum
    BY <2>3
  <2> QED
    BY <1>6, <2>2, <2>3
<1>7. ASSUME NEW o \in Options
      PROVE  /\ optionStats'[o] \in Int \cup {None}
             /\ Count(optionStats[o]) >= -1 => Count(optionStats'[o]) >= -1
             /\ Count(optionStats[o]) >= NetOf(OfOption(E, o)) =>
                  Count(optionStats'[o]) >= NetOf(OfOption(E \cup {e}, o))
             /\ Count(optionStats[o]) = NetOf(OfOption(E, o))
                /\ NetOf(OfOption(E \cup {e}, o)) \in Nat =>
                  Count(optionStats'[o]) = NetOf(OfOption(E \cup {e}, o))
  <2>1. optionStats[o] \in Int \cup {None}
    BY <1>1 DEF TypeOK
  <2>2. NetOf(OfOption(E, o)) \in Int
    BY <1>1, <1>2, SumsAdded
  <2>3. \/ /\ optionStats'[o] = Upsert(optionStats[o], d)
           /\ NetOf(OfOption(E \cup {e}, o)) = NetOf(OfOption(E, o)) + d
        \/ /\ optionStats'[o] = optionStats[o]
           /\ NetOf(OfOption(E \cup {e}, o)) = NetOf(OfOption(E, o))
    <3>1. /\ o \in e.opts => optionStats'[o] = Upsert(optionStats[o], d)
          /\ o \notin e.opts => optionStats'[o] = optionStats[o]
      BY <1>2
    <3>2. /\ o \in e.opts =>
               NetOf(OfOption(E \cup {e}, o)) = NetOf(OfOption(E, o)) + d
          /\ o \notin e.opts => OfOption(E \cup {e}, o) = OfOption(E, o)
      BY <1>1, <1>2, SumsAdded
    <3> QED
      BY <3>1, <3>2
  <2> DEFINE row == optionStats[o]
             row2 == optionStats'[o]
             sum == NetOf(OfOption(E, o))
             sum2 == NetOf(OfOption(E \cup {e}, o))
  <2>4. /\ row \in Int \cup {None} /\ sum \in Int
        /\ \/ row2 = Upsert(row, d) /\ sum2 = sum + d
           \/ row2 = row /\ sum2 = sum
    BY <2>1, <2>2, <2>3
  <2> HIDE DEF E, d, row, row2, sum, sum2
  <2>5. /\ row2 \in Int \cup {None} /\ sum2 \in Int
        /\ Count(row) >= -1 => Count(row2) >= -1
        /\ Count(row) >= sum => Count(row2) >= sum2
        /\ Count(row) = sum /\ sum2 \in Nat => Count(row2) = sum2
    BY <1>6, <2>4
  <2> QED
    BY <2>5 DEF row, row2, sum, sum2
<1>8. ASSUME NEW g \in Groups
      PROVE  /\ groupStats'[g] \in Int \cup {None}
             /\ Count(groupStats[g]) >= -1 => Count(groupStats'[g]) >= -1
             /\ Count(groupStats[g]) >= NetOf(OfGroup(E, g)) =>
                  Count(groupStats'[g]) >= NetOf(OfGroup(E \cup {e}, g))
             /\ Count(groupStats[g]) = NetOf(OfGroup(E, g))
                /\ NetOf(OfGroup(E \cup {e}, g)) \in Nat =>
                  Count(groupStats'[g]) = NetOf(OfGroup(E \cup {e}, g))
  <2>1. groupStats[g] \in Int \cup {None}
    BY <1>1 DEF TypeOK
  <2>2. NetOf(OfGroup(E, g)) \in Int
    BY <1>1, <1>2, SumsAdded
  <2>3. \/ /\ groupStats'[g] = Upsert(groupStats[g], d)
           /\ NetOf(OfGroup(E \cup {e}, g)) = NetOf(OfGroup(E, g)) + d
        \/ /\ groupStats'[g] = groupStats[g]
           /\ NetOf(OfGroup(E \cup {e}, g)) = NetOf(OfGroup(E, g))
    <3>1. /\ g = group[e.by] => groupStats'[g] = Upsert(groupStats[g], d)
          /\ g # group[e.by] => groupStats'[g] = groupStats[g]
      BY <1>2
    <3>2. /\ g = group[e.by] =>
               NetOf(OfGroup(E \cup {e}, g)) = NetOf(OfGroup(E, g)) + d
          /\ g # group[e.by] => OfGroup(E \cup {e}, g) = OfGroup(E, g)
      BY <1>1, <1>2, SumsAdded
    <3> QED
      BY <3>1, <3>2
  <2> DEFINE row == groupStats[g]
             row2 == groupStats'[g]
             sum == NetOf(OfGroup(E, g))
             sum2 == NetOf(OfGroup(E \cup {e}, g))
  <2>4. /\ row \in Int \cup {None} /\ sum \in Int
        /\ \/ row2 = Upsert(row, d) /\ sum2 = sum + d
           \/ row2 = row /\ sum2 = sum
    BY <2>1, <2>2, <2>3
  <2> HIDE DEF E, d, row, row2, sum, sum2
  <2>5. /\ row2 \in Int \cup {None} /\ sum2 \in Int
        /\ Count(row) >= -1 => Count(row2) >= -1
        /\ Count(row) >= sum => Count(row2) >= sum2
        /\ Count(row) = sum /\ sum2 \in Nat => Count(row2) = sum2
    BY <1>6, <2>4
  <2> QED
    BY <2>5 DEF row, row2, sum, sum2
<1>9. "analytics" \notin late' => InTime(E \cup {e}) /\ E \cup {e} \in SUBSET events
  BY <1>1, <1>2, <1>4, StaysInTime DEF NeverLateInTime
<1>10. NeverLateInTime'
  BY <1>1, <1>2, <1>3, <1>4, <1>9 DEF NeverLateInTime, InTime, Removals, Casts
<1>11. TypeOK'
  <2>1. /\ optionStats' \in [Options -> Int \cup {None}]
        /\ groupStats' \in [Groups -> Int \cup {None}]
    BY <1>2, <1>7, <1>8
  <2>2. late' \subseteq {"poll", "analytics"}
    BY <1>1, <1>4 DEF TypeOK
  <2> QED
    BY <1>1, <1>2, <1>3, <2>1, <2>2 DEF TypeOK
<1>12. \A g : OfGroup(statsApplied, g)' = OfGroup(E \cup {e}, g)
  BY <1>2, <1>3 DEF OfGroup
<1>13. NeverUndercounts'
  <2>1. \A o \in Options :
          /\ Count(optionStats'[o]) >= NetOf(OfOption(E \cup {e}, o))
          /\ Count(optionStats'[o]) >= -1
    BY <1>1, <1>7 DEF NeverUndercounts
  <2>2. \A g \in Groups :
          /\ Count(groupStats'[g]) >= NetOf(OfGroup(E \cup {e}, g))
          /\ Count(groupStats'[g]) >= -1
    BY <1>1, <1>8 DEF NeverUndercounts
  <2> QED
    BY <1>1, <1>2, <1>3, <1>12, <2>1, <2>2 DEF NeverUndercounts
<1>14. ExactInOrder'
  <2>1. ASSUME "analytics" \notin late', NEW o \in Options
        PROVE  Count(optionStats'[o]) = NetOf(OfOption(E \cup {e}, o))
    <3>1. Count(optionStats[o]) = NetOf(OfOption(E, o))
      BY <1>1, <1>4, <2>1 DEF ExactInOrder
    <3>2. NetOf(OfOption(E \cup {e}, o)) \in Nat
      BY <1>9, <2>1, OptionNet DEF CountersInv, LedgerInv
    <3> QED
      BY <1>7, <3>1, <3>2
  <2>2. "poll" \notin late' => "poll" \notin late
    BY <1>4
  <2> QED
    BY <1>1, <1>2, <1>3, <2>1, <2>2 DEF ExactInOrder
<1>15. GroupsInOrder'
  <2>1. ASSUME pollType = "single", StableProfiles, "analytics" \notin late', NEW g \in Groups
        PROVE  Count(groupStats'[g]) = NetOf(OfGroup(E \cup {e}, g))
    <3>1. Count(groupStats[g]) = NetOf(OfGroup(E, g))
      BY <1>1, <1>4, <2>1 DEF GroupsInOrder
    <3>2. NetOf(OfGroup(E \cup {e}, g)) \in Nat
      BY <1>9, <2>1, GroupNet DEF CountersInv
    <3> QED
      BY <1>8, <3>1, <3>2
  <2>2. StableProfiles' <=> StableProfiles
    BY <1>3 DEF StableProfiles
  <2> QED
    BY <1>3, <1>12, <2>1, <2>2 DEF GroupsInOrder
<1> QED
  BY <1>10, <1>11, <1>13, <1>14, <1>15 DEF ConsumersInv

-----------------------------------------------------------------------------
(* The theorems. *)

\* The inductive invariant: what the ledger reports and what the consumers count.
THEOREM CountersInvCorrect == Spec => []CountersInv
<1>1. Init => CountersInv
  BY LedgerInit, ConsumersInit DEF CountersInv
<1>2. CountersInv /\ [Next]_vars => CountersInv'
  <2>1. SUFFICES ASSUME CountersInv, [Next]_vars PROVE ConsumersInv'
    BY LedgerNext DEF CountersInv
  <2>2. ASSUME NEW r \in Requests, NEW k \in Keys, Serve(r, k) PROVE ConsumersInv'
    BY <2>1, <2>2, ServeKeeps
  <2>3. ASSUME NEW k \in Keys, LoseRemoval(k) PROVE ConsumersInv'
    BY <2>1, <2>3, LoseRemovalKeeps
  <2>4. ASSUME NEW e \in events, ProcessAtPoll(e) PROVE ConsumersInv'
    BY <2>1, <2>4, PollKeeps
  <2>5. ASSUME NEW e \in events, ProcessAtAnalytics(e) PROVE ConsumersInv'
    BY <2>1, <2>5, AnalyticsKeeps
  <2>6. CASE UNCHANGED vars
    <3>1. /\ UNCHANGED <<pollType, pollVars, statsVars, late>>
          /\ events' = events /\ known' = known /\ group' = group
          /\ lost' = lost /\ selection' = selection
      BY <2>6 DEF vars, ledgerVars
    <3>2. TypeOK'
      BY <2>1, <3>1 DEF CountersInv, ConsumersInv, TypeOK, pollVars, statsVars
    <3>3. /\ events \subseteq events'
          /\ \A e \in events : known'[e.by] = known[e.by] /\ group'[e.by] = group[e.by]
      BY <3>1
    <3>4. NeverLateInTime' /\ NeverUndercounts' /\ ExactInOrder' /\ GroupsInOrder'
      BY <2>1, <3>1, <3>3, LedgerStepsKeep DEF CountersInv
    <3> QED
      BY <3>2, <3>4 DEF ConsumersInv
  <2>7. CASE Next
    BY <2>2, <2>3, <2>4, <2>5, <2>7 DEF Next
  <2> QED
    BY <2>1, <2>6, <2>7
<1> QED
  BY <1>1, <1>2, PTL DEF Spec

\* Every variable keeps its type: no counter of the poll service is ever negative.
THEOREM TypeCorrect == Spec => []TypeOK
<1>1. CountersInv => TypeOK
  BY DEF CountersInv, ConsumersInv
<1> QED
  BY <1>1, CountersInvCorrect, PTL

\* In whatever order vote.cast and vote.removed are consumed, no counter falls
\* below the events processed so far, and none below zero but by one; and a
\* consumer that processed no removal before the casts it takes back counts
\* exactly what it processed.
THEOREM CountsAddUpCorrect == Spec => []CountsAddUp
<1>1. CountersInv => CountsAddUp
  BY DEF CountersInv, ConsumersInv, CountsAddUp
<1> QED
  BY <1>1, CountersInvCorrect, PTL

\* A consumer that has caught up counts every current vote, and no other unless a
\* removal was lost or came late.
THEOREM CaughtUpCorrect == Spec => []CaughtUp
<1>1. ASSUME CountersInv PROVE CaughtUp
  <2>1. /\ TypeOK /\ NeverUndercounts /\ ExactInOrder /\ GroupsInOrder
        /\ LedgerTypes /\ EventsAddUp
    BY <1>1 DEF CountersInv, ConsumersInv, LedgerInv, LedgerCore
  <2>2. NetChoices(events) \in Int /\ Cardinality(Votes) \in Nat /\ totalVotes \in Nat
    BY <2>1, NetIsInt, FS_CardinalityType DEF TypeOK, LedgerTypes, EventsAddUp
  <2>3. ASSUME pollApplied = events
        PROVE  /\ totalVotes >= Cardinality(Votes)
               /\ ~ lost /\ "poll" \notin late => totalVotes = Cardinality(Votes)
    <3>1. /\ totalVotes >= NetChoices(events)
          /\ "poll" \notin late => totalVotes = NetChoices(events)
      BY <2>1, <2>3 DEF NeverUndercounts, ExactInOrder
    <3>2. /\ NetChoices(events) >= Cardinality(Votes)
          /\ ~ lost => NetChoices(events) = Cardinality(Votes)
      BY <2>1 DEF EventsAddUp
    <3> QED
      BY <2>2, <3>1, <3>2
  <2>4. ASSUME pollType = "single", StableProfiles, ~ lost,
               statsApplied = events, "analytics" \notin late, NEW g \in Groups
        PROVE  Count(groupStats[g]) =
                 Cardinality({k \in Keys : GroupOf[k] = g /\ selection[k] # {}})
    <3>1. Count(groupStats[g]) = NetOf(OfGroup(events, g))
      BY <2>1, <2>4 DEF GroupsInOrder
    <3>2. OfGroup(events, g) = OfVoters(events, g)
      BY <2>4 DEF OfGroup, OfVoters, StableProfiles
    <3>3. NetOf(OfVoters(events, g)) = Cardinality(Voters(g))
      BY <2>1, <2>4 DEF EventsAddUp
    <3> QED
      BY <3>1, <3>2, <3>3 DEF Voters
  <2>5. ASSUME NEW o \in Options
        PROVE  /\ NetOf(OfOption(events, o)) \in Int /\ Cardinality(Voting(o)) \in Nat
               /\ optionVotes[o] \in Nat /\ Count(optionStats[o]) \in Int
               /\ NetOf(OfOption(events, o)) >= Cardinality(Voting(o))
               /\ ~ lost => NetOf(OfOption(events, o)) = Cardinality(Voting(o))
    <3>1. IsFiniteSet(OfOption(events, o))
      BY <2>1, FS_Subset DEF OfOption, LedgerTypes
    <3>2. NetOf(OfOption(events, o)) \in Int /\ Cardinality(Voting(o)) \in Nat
      BY <2>1, <3>1, NetIsInt, FS_CardinalityType DEF EventsAddUp
    <3>3. optionVotes[o] \in Nat /\ Count(optionStats[o]) \in Int
      BY <2>1 DEF TypeOK, Count
    <3> QED
      BY <2>1, <3>2, <3>3 DEF EventsAddUp
  <2>6. ASSUME NEW o \in Options, pollApplied = events
        PROVE  /\ optionVotes[o] >= Cardinality(Voting(o))
               /\ ~ lost /\ "poll" \notin late => optionVotes[o] = Cardinality(Voting(o))
    <3>1. /\ optionVotes[o] >= NetOf(OfOption(events, o))
          /\ "poll" \notin late => optionVotes[o] = NetOf(OfOption(events, o))
      BY <2>1, <2>6 DEF NeverUndercounts, ExactInOrder
    <3> QED
      BY <2>5, <3>1
  <2>7. ASSUME NEW o \in Options, statsApplied = events
        PROVE  /\ Count(optionStats[o]) >= Cardinality(Voting(o))
               /\ ~ lost /\ "analytics" \notin late =>
                    Count(optionStats[o]) = Cardinality(Voting(o))
    <3>1. /\ Count(optionStats[o]) >= NetOf(OfOption(events, o))
          /\ "analytics" \notin late => Count(optionStats[o]) = NetOf(OfOption(events, o))
      BY <2>1, <2>7 DEF NeverUndercounts, ExactInOrder
    <3> QED
      BY <2>5, <3>1
  <2> QED
    BY <2>3, <2>4, <2>6, <2>7 DEF CaughtUp
<1>2. CountersInv => CaughtUp
  BY <1>1
<1> QED
  BY <1>2, CountersInvCorrect, PTL

-----------------------------------------------------------------------------
(* Sums over the options. *)

LEMMA SameCardinality ==
  /\ \A S : Feed!IsFiniteSet(S) <=> IsFiniteSet(S)
  /\ \A S : Feed!Cardinality(S) = Cardinality(S)
  BY DEF Feed!IsFiniteSet, IsFiniteSet, Feed!Cardinality, Cardinality

Columns(f) == UNION {{o} \X (1 .. f[o]) : o \in Options}

LEMMA FiniteColumns ==
  ASSUME NEW f \in [Options -> Int]
  PROVE  IsFiniteSet(Columns(f)) /\ Cardinality(Columns(f)) \in Nat
<1> DEFINE T == {{o} \X (1 .. f[o]) : o \in Options}
           c == [o \in Options |-> {o} \X (1 .. f[o])]
<1>1. \A t \in T : IsFiniteSet(t)
  <2>1. ASSUME NEW o \in Options PROVE IsFiniteSet({o} \X (1 .. f[o]))
    <3>1. IsFiniteSet(1 .. f[o])
      BY FS_Interval
    <3> QED
      BY <3>1, Column
  <2> QED
    BY <2>1
<1>2. c \in Surjection(Options, T)
  <2>1. c \in [Options -> T]
    OBVIOUS
  <2>2. \A t \in T : \E o \in Options : c[o] = t
    OBVIOUS
  <2> HIDE DEF T, c
  <2> QED
    BY <2>1, <2>2, Fun_IsSurj
<1>3. IsFiniteSet(T)
  <2> HIDE DEF T, c
  <2> QED
    BY <1>2, CountersAssumption, FS_Surjection
<1>4. IsFiniteSet(UNION T)
  <2> HIDE DEF T
  <2> QED
    BY <1>1, <1>3, FS_UNION
<1> QED
  BY <1>4, FS_CardinalityType DEF Columns

\* One element more in the columns of S, which are those of nonnegative height.
LEMMA TallerColumns ==
  ASSUME NEW f \in [Options -> Int], NEW g \in [Options -> Int], NEW S \in SUBSET Options,
         \A o \in S : f[o] >= 0 /\ g[o] = f[o] + 1,
         \A o \in Options \ S : 1 .. g[o] = 1 .. f[o]
  PROVE  Cardinality(Columns(g)) = Cardinality(Columns(f)) + Cardinality(S)
<1> DEFINE N == {<<o, g[o]>> : o \in S}
           n == [o \in S |-> <<o, g[o]>>]
<1>1. IsFiniteSet(S)
  BY CountersAssumption, FS_Subset
<1>2. IsFiniteSet(N) /\ Cardinality(N) = Cardinality(S)
  <2>1. n \in [S -> N] /\ (\A a, b \in S : n[a] = n[b] => a = b)
        /\ (\A t \in N : \E o \in S : n[o] = t)
    OBVIOUS
  <2>2. n \in Injection(S, N) /\ n \in Surjection(S, N)
    <3> HIDE DEF N, n
    <3> QED
      BY <2>1, Fun_IsInj, Fun_IsSurj
  <2> HIDE DEF N, n
  <2> QED
    BY <1>1, <2>2, FS_Surjection
<1>3. Columns(g) = Columns(f) \cup N
  <2>1. ASSUME NEW o \in S PROVE {o} \X (1 .. g[o]) = ({o} \X (1 .. f[o])) \cup {<<o, g[o]>>}
    <3>1. f[o] \in Nat /\ g[o] = f[o] + 1
      OBVIOUS
    <3>2. 1 .. g[o] = (1 .. f[o]) \cup {g[o]}
      BY <3>1
    <3> QED
      BY <3>2
  <2> QED
    BY <2>1 DEF Columns
<1>4. Columns(f) \cap N = {}
  BY DEF Columns
<1>5. Cardinality(Columns(f) \cup N) = Cardinality(Columns(f)) + Cardinality(N)
  <2> HIDE DEF N
  <2> QED
    BY <1>2, <1>4, FiniteColumns, DisjointUnion
<1> QED
  BY <1>2, <1>3, <1>5


Negated(f) == [o \in Options |-> - f[o]]

LEMMA SumOfColumns ==
  ASSUME NEW f \in [Options -> Int]
  PROVE  /\ Feed!SumOf(f) = Cardinality(Columns(f)) - Cardinality(Columns(Negated(f)))
         /\ Negated(f) \in [Options -> Int]
<1>1. \A o \in Options : Negated(f)[o] = - f[o]
  BY DEF Negated
<1>2. Columns(Negated(f)) = Feed!Down(f)
  BY <1>1 DEF Columns, Feed!Down
<1>3. Columns(f) = Feed!Up(f)
  BY DEF Columns, Feed!Up
<1> QED
  BY <1>2, <1>3, SameCardinality DEF Feed!SumOf, Negated

LEMMA SumIsInt ==
  ASSUME NEW f \in [Options -> Int]
  PROVE  Feed!SumOf(f) \in Int
<1>1. Negated(f) \in [Options -> Int]
  BY DEF Negated
<1>2. Cardinality(Columns(f)) \in Nat /\ Cardinality(Columns(Negated(f))) \in Nat
  BY <1>1, FiniteColumns
<1>3. Feed!SumOf(f) = Cardinality(Columns(f)) - Cardinality(Columns(Negated(f)))
  BY SumOfColumns
<1> QED
  BY <1>2, <1>3

LEMMA SumOfNothing == Feed!SumOf([o \in Options |-> 0]) = 0
<1> DEFINE f == [o \in Options |-> 0]
<1>1. f \in [Options -> Int] /\ \A o \in Options : f[o] >= 0 /\ f[o] <= 0
  OBVIOUS
<1> HIDE DEF f
<1>2. ASSUME NEW o \in Options PROVE 1 .. f[o] = {} /\ 1 .. Negated(f)[o] = {}
  <2>1. f[o] \in Int /\ f[o] >= 0 /\ f[o] <= 0 /\ Negated(f)[o] = - f[o]
    BY <1>1 DEF Negated
  <2> QED
    BY <2>1
<1>3. Columns(f) = {} /\ Columns(Negated(f)) = {}
  BY <1>2 DEF Columns
<1>4. Feed!SumOf(f) = Cardinality({}) - Cardinality({})
  BY <1>1, <1>3, SumOfColumns
<1>5. Feed!SumOf(f) = 0
  BY <1>4, FS_EmptySet
<1> QED
  BY <1>5 DEF f

\* One vote more for each option of S.
LEMMA SumRaised ==
  ASSUME NEW f \in [Options -> Int], NEW g \in [Options -> Int], NEW S \in SUBSET Options,
         \A o \in S : g[o] = f[o] + 1,
         \A o \in Options \ S : g[o] = f[o]
  PROVE  Feed!SumOf(g) = Feed!SumOf(f) + Cardinality(S) /\ Cardinality(S) \in Nat
<1> DEFINE P == {o \in S : f[o] >= 0}
           N == {o \in S : f[o] < 0}
<1>1. /\ IsFiniteSet(S) /\ IsFiniteSet(P) /\ IsFiniteSet(N)
      /\ Cardinality(S) \in Nat /\ Cardinality(P) \in Nat /\ Cardinality(N) \in Nat
  BY CountersAssumption, FS_Subset, FS_CardinalityType
<1>2. Cardinality(S) = Cardinality(P) + Cardinality(N)
  <2>1. S = P \cup N /\ P \cap N = {}
    OBVIOUS
  <2> HIDE DEF P, N
  <2> QED
    BY <1>1, <2>1, DisjointUnion
<1>3. Cardinality(Columns(g)) = Cardinality(Columns(f)) + Cardinality(P)
  <2>1. \A o \in Options \ P : 1 .. g[o] = 1 .. f[o]
    <3>1. SUFFICES ASSUME NEW o \in Options \ P PROVE 1 .. g[o] = 1 .. f[o]
      OBVIOUS
    <3>2. CASE o \in N
      <4>1. f[o] \in Int /\ f[o] < 0 /\ g[o] = f[o] + 1
        BY <3>2
      <4>2. 1 .. f[o] = {} /\ 1 .. g[o] = {}
        BY <4>1
      <4> QED
        BY <4>2
    <3>3. CASE o \notin S
      BY <3>3
    <3> QED
      BY <3>2, <3>3
  <2>2. P \in SUBSET Options /\ \A o \in P : f[o] >= 0 /\ g[o] = f[o] + 1
    OBVIOUS
  <2> HIDE DEF P, N
  <2> QED
    BY <2>1, <2>2, TallerColumns
<1>4. Cardinality(Columns(Negated(f))) = Cardinality(Columns(Negated(g))) + Cardinality(N)
  <2> DEFINE a == Negated(g)
             b == Negated(f)
  <2>1. a \in [Options -> Int] /\ b \in [Options -> Int]
    BY DEF Negated
  <2>2. \A o \in Options : a[o] = - g[o] /\ b[o] = - f[o]
    BY DEF Negated
  <2> HIDE DEF a, b
  <2>3. N \in SUBSET Options /\ \A o \in N : a[o] >= 0 /\ b[o] = a[o] + 1
    <3>1. SUFFICES ASSUME NEW o \in N PROVE a[o] >= 0 /\ b[o] = a[o] + 1
      OBVIOUS
    <3>2. f[o] \in Int /\ f[o] < 0 /\ g[o] = f[o] + 1 /\ a[o] = - g[o] /\ b[o] = - f[o]
      BY <2>2
    <3> QED
      BY <3>2
  <2>4. \A o \in Options \ N : 1 .. b[o] = 1 .. a[o]
    <3>1. SUFFICES ASSUME NEW o \in Options \ N PROVE 1 .. b[o] = 1 .. a[o]
      OBVIOUS
    <3>2. CASE o \in P
      <4>1. f[o] \in Int /\ f[o] >= 0 /\ a[o] = - (f[o] + 1) /\ b[o] = - f[o]
        BY <2>2, <3>2
      <4>2. 1 .. a[o] = {} /\ 1 .. b[o] = {}
        BY <4>1
      <4> QED
        BY <4>2
    <3>3. CASE o \notin S
      BY <2>2, <3>3
    <3> QED
      BY <3>2, <3>3
  <2>5. Cardinality(Columns(b)) = Cardinality(Columns(a)) + Cardinality(N)
    <3> HIDE DEF P, N
    <3> QED
      BY <2>1, <2>3, <2>4, TallerColumns
  <2> QED
    BY <2>5 DEF a, b
<1>5. /\ Feed!SumOf(f) = Cardinality(Columns(f)) - Cardinality(Columns(Negated(f)))
      /\ Feed!SumOf(g) = Cardinality(Columns(g)) - Cardinality(Columns(Negated(g)))
      /\ Negated(f) \in [Options -> Int] /\ Negated(g) \in [Options -> Int]
  BY SumOfColumns
<1>6. /\ Cardinality(Columns(f)) \in Nat /\ Cardinality(Columns(g)) \in Nat
      /\ Cardinality(Columns(Negated(f))) \in Nat /\ Cardinality(Columns(Negated(g))) \in Nat
  BY <1>5, FiniteColumns
<1> HIDE DEF P, N
<1> QED
  BY <1>1, <1>2, <1>3, <1>4, <1>5, <1>6

LEMMA SumMoved ==
  ASSUME NEW f \in [Options -> Int], NEW S \in SUBSET Options, NEW d \in {1, -1}
  PROVE  /\ Feed!SumOf([o \in Options |-> IF o \in S THEN f[o] + d ELSE f[o]])
              = Feed!SumOf(f) + d * Cardinality(S)
         /\ Cardinality(S) \in Nat
<1> DEFINE g == [o \in Options |-> IF o \in S THEN f[o] + d ELSE f[o]]
<1>1. g \in [Options -> Int]
  OBVIOUS
<1>2. \A o \in Options \ S : g[o] = f[o]
  OBVIOUS
<1>3. \A o \in S : g[o] = f[o] + d
  OBVIOUS
<1> HIDE DEF g
<1>4. Feed!SumOf(f) \in Int /\ Feed!SumOf(g) \in Int
  BY <1>1, SumIsInt
<1>5. CASE d = 1
  <2>1. Feed!SumOf(g) = Feed!SumOf(f) + Cardinality(S) /\ Cardinality(S) \in Nat
    BY <1>1, <1>2, <1>3, <1>5, SumRaised
  <2>2. Feed!SumOf(g) = Feed!SumOf(f) + d * Cardinality(S) /\ Cardinality(S) \in Nat
    BY <1>5, <2>1
  <2> QED
    BY <2>2 DEF g
<1>6. CASE d = -1
  <2>1. \A o \in S : f[o] = g[o] + 1
    <3>1. SUFFICES ASSUME NEW o \in S PROVE f[o] = g[o] + 1
      OBVIOUS
    <3>2. f[o] \in Int /\ g[o] = f[o] + (-1)
      BY <1>3, <1>6
    <3> QED
      BY <3>2
  <2>2. Feed!SumOf(f) = Feed!SumOf(g) + Cardinality(S) /\ Cardinality(S) \in Nat
    BY <1>1, <1>2, <2>1, SumRaised
  <2>3. Feed!SumOf(g) = Feed!SumOf(f) + d * Cardinality(S) /\ Cardinality(S) \in Nat
    BY <1>4, <1>6, <2>2
  <2> QED
    BY <2>3 DEF g
<1> QED
  BY <1>5, <1>6

\* GREATEST(0, ...) of each option sums up to no less.
LEMMA SumClamped ==
  ASSUME NEW f \in [Options -> Int]
  PROVE  LET g == [o \in Options |-> Feed!Clamp(f[o])]
         IN  /\ g \in [Options -> Nat]
             /\ Feed!SumOf(g) \in Nat /\ Feed!SumOf(g) >= Feed!SumOf(f)
             /\ (\A o \in Options : f[o] >= 0) => g = f
<1> DEFINE g == [o \in Options |-> Feed!Clamp(f[o])]
<1>1. \A o \in Options : /\ g[o] \in Nat
                         /\ f[o] >= 0 => g[o] = f[o]
                         /\ f[o] < 0 => g[o] = 0
  <2>1. SUFFICES ASSUME NEW o \in Options
                 PROVE  /\ Feed!Clamp(f[o]) \in Nat
                        /\ f[o] >= 0 => Feed!Clamp(f[o]) = f[o]
                        /\ f[o] < 0 => Feed!Clamp(f[o]) = 0
    OBVIOUS
  <2>2. f[o] \in Int
    OBVIOUS
  <2> QED
    BY <2>2 DEF Feed!Clamp
<1>2. g \in [Options -> Nat] /\ g \in [Options -> Int]
  BY <1>1
<1>3. (\A o \in Options : f[o] >= 0) => g = f
  BY <1>1, <1>2
<1> HIDE DEF g
<1>4. Columns(g) = Columns(f)
  <2>1. ASSUME NEW o \in Options PROVE 1 .. g[o] = 1 .. f[o]
    <3>1. CASE f[o] >= 0
      BY <1>1, <3>1
    <3>2. CASE f[o] < 0
      <4>1. f[o] \in Int /\ g[o] = 0
        BY <1>1, <3>2
      <4> QED
        BY <3>2, <4>1
    <3> QED
      BY <3>1, <3>2
  <2> QED
    BY <2>1 DEF Columns
<1>5. Cardinality(Columns(Negated(g))) = 0
  <2>1. ASSUME NEW o \in Options PROVE 1 .. Negated(g)[o] = {}
    <3>1. g[o] \in Nat /\ Negated(g)[o] = - g[o]
      BY <1>1 DEF Negated
    <3> QED
      BY <3>1
  <2>2. Columns(Negated(g)) = {}
    BY <2>1 DEF Columns
  <2> QED
    BY <2>2, FS_EmptySet
<1>6. /\ Feed!SumOf(f) = Cardinality(Columns(f)) - Cardinality(Columns(Negated(f)))
      /\ Feed!SumOf(g) = Cardinality(Columns(g)) - Cardinality(Columns(Negated(g)))
      /\ Negated(f) \in [Options -> Int]
  BY <1>2, SumOfColumns
<1>7. Cardinality(Columns(f)) \in Nat /\ Cardinality(Columns(Negated(f))) \in Nat
  BY <1>6, FiniteColumns
<1>8. Feed!SumOf(g) \in Nat /\ Feed!SumOf(g) >= Feed!SumOf(f)
  BY <1>4, <1>5, <1>6, <1>7
<1> QED
  BY <1>2, <1>3, <1>8 DEF g

-----------------------------------------------------------------------------
(* The ledger, whose steps are those of VoteCounters. *)

LEMMA FeedServeMoves ==
  ASSUME NEW r \in Requests, NEW k \in Keys, LedgerTypes, Feed!Serve(r, k)
  PROVE  \E S : Moved(r, k, S)
<1>1. CASE \E S \in SUBSET Options : Feed!Ledger!Change(r, k, S)
  <2>1. PICK S \in SUBSET Options : Feed!Ledger!Change(r, k, S)
    BY <1>1
  <2>2. Moved(r, k, S)
    BY <2>1 DEF Feed!Serve, Feed!Ledger!Change, Feed!Ledger!Removed, Feed!Ledger!Cast,
      Feed!Ledger!TopicVoteCast, Feed!Ledger!TopicVoteRemoved, Moved, Taken, Added,
      Ledger!Removed, Ledger!Cast, Ledger!TopicVoteCast, Ledger!TopicVoteRemoved
  <2> QED
    BY <2>2
<1>2. CASE Feed!Ledger!Remove(r, k)
  <2>1. Taken(k, {}) = selection[k] /\ Added(k, {}) = {}
    BY DEF Taken, Added
  <2>2. Ledger!Cast(r, k, Added(k, {})) = {}
    BY <2>1 DEF Ledger!Cast
  <2>3. Moved(r, k, {})
    BY <1>2, <2>1, <2>2 DEF Feed!Serve, Feed!Ledger!Remove, Feed!Ledger!Removed,
      Feed!Ledger!TopicVoteRemoved, Moved, Ledger!Removed, Ledger!TopicVoteRemoved
  <2> QED
    BY <2>3
<1> QED
  BY <1>1, <1>2 DEF Feed!Serve

LEMMA CoreInit == Feed!Init => LedgerCore
<1> SUFFICES ASSUME Feed!Init PROVE LedgerCore
  OBVIOUS
<1>1. /\ selection = [k \in Keys |-> {}] /\ events = {}
      /\ known = [r \in Requests |-> {}]
  BY DEF Feed!Init, Feed!Ledger!Init
<1>2. LedgerTypes /\ OneKnowsTheOther
  BY <1>1, FS_EmptySet DEF LedgerTypes, OneKnowsTheOther
<1>3. VotesAreCast
  BY <1>1 DEF VotesAreCast, Removals
<1> QED
  BY <1>2, <1>3 DEF LedgerCore

LEMMA CoreServe ==
  ASSUME NEW r \in Requests, NEW k \in Keys, LedgerCore, Feed!Serve(r, k)
  PROVE  /\ LedgerCore'
         /\ events \subseteq events' /\ \A e \in events : known'[e.by] = known[e.by]
<1>1. PICK S : Moved(r, k, S)
  BY FeedServeMoves DEF LedgerCore
<1>2. LedgerCore'
  BY <1>1, ChangedTypes, ChangedKnows, ChangedCasts DEF LedgerCore
<1>3. \A e \in events : e.by \in Requests /\ e.by # r
  BY <1>1 DEF LedgerCore, LedgerTypes, Ledger!Event, Moved
<1> QED
  BY <1>1, <1>2, <1>3 DEF Moved, LedgerCore, LedgerTypes

LEMMA CoreLost ==
  ASSUME NEW k \in Keys, LedgerCore, Feed!LoseRemoval(k)
  PROVE  LedgerCore'
<1>1. /\ events' = events /\ known' = known
      /\ selection' = [selection EXCEPT ![k] = {}]
  BY DEF Feed!LoseRemoval, Feed!Ledger!LoseRemoval
<1>2. LedgerTypes' /\ \A j \in Keys : selection'[j] = {} \/ selection'[j] = selection[j]
  BY <1>1 DEF LedgerCore, LedgerTypes
<1>3. OneKnowsTheOther'
  BY <1>1 DEF LedgerCore, OneKnowsTheOther
<1>4. VotesAreCast'
  BY <1>1, <1>2 DEF LedgerCore, VotesAreCast, OpenCast
<1> QED
  BY <1>2, <1>3, <1>4 DEF LedgerCore

LEMMA CoreSame == LedgerCore /\ UNCHANGED Feed!ledgerVars => LedgerCore'
<1> SUFFICES ASSUME LedgerCore, UNCHANGED Feed!ledgerVars PROVE LedgerCore'
  OBVIOUS
<1>1. selection' = selection /\ events' = events /\ known' = known
  BY DEF Feed!ledgerVars
<1>2. LedgerTypes' /\ OneKnowsTheOther'
  BY <1>1 DEF LedgerCore, LedgerTypes, OneKnowsTheOther
<1>3. VotesAreCast'
  BY <1>1 DEF LedgerCore, VotesAreCast, OpenCast
<1> QED
  BY <1>2, <1>3 DEF LedgerCore

-----------------------------------------------------------------------------
(* The queues and what the poll service wrote. *)

Created == queue["poll.created"]
Updated == queue["poll.updated"]
Deleted == queue["poll.deleted"]

FeedTypes ==
  /\ poll \in {"none", "live", "deleted"}
  /\ content \in Feed!Content
  /\ queue \in [Feed!Topics -> Seq(Feed!Content \cup Ledger!Event)]
  /\ \A t \in Feed!PollTopics : queue[t] \in Seq(Feed!Content)
  /\ item \in Feed!FeedItem \cup {None}
  /\ pendingOptions \in [Options -> Int]
  /\ pendingTotal \in Int
  /\ applied \subseteq events

\* The votes that wait are events of their topic, each once, not consumed yet.
VotesWait ==
  \A t \in Feed!VoteTopics :
    /\ \A i \in 1 .. Len(queue[t]) :
         queue[t][i] \in events /\ queue[t][i] \notin applied /\ queue[t][i].topic = t
    /\ \A i, j \in 1 .. Len(queue[t]) : queue[t][i] = queue[t][j] => i = j

\* A poll is created once, before anything else; the last update that waits is
\* the poll as it is.
PollWaits ==
  /\ Len(Created) <= 1
  /\ poll = "none" => Created = <<>> /\ Updated = <<>>
  /\ Deleted # <<>> => poll = "deleted"
  /\ Updated # <<>> => Updated[Len(Updated)] = content

\* The item and the poll, while nothing overtook the creation.
ItemInv ==
  /\ item # None => ~ Feed!AwaitsItem
  /\ poll # "none" /\ item = None => Created # <<>> \/ poll = "deleted"
  /\ "updated" \notin overtook /\ Updated = <<>> =>
       /\ Created # <<>> => Head(Created) = content
       /\ item # None => item.content = content
  /\ poll = "deleted" /\ Deleted = <<>> /\ "deleted" \notin overtook =>
       item = None /\ Created = <<>>

\* Counted or kept, and in time unless something was overtaken.
VotesInv ==
  /\ "removed" \notin overtook => InTime(applied)
  /\ EarlyVotesKept
  /\ ItemCounts

FeedInv ==
  /\ LedgerCore
  /\ FeedTypes /\ VotesWait /\ PollWaits
  /\ ItemInv
  /\ VotesInv

LEMMA FeedTopics ==
  /\ Feed!PollTopics = {"poll.created", "poll.updated", "poll.deleted"}
  /\ Feed!VoteTopics = {"vote.cast", "vote.removed"} /\ Feed!VoteTopics = Topics
  /\ Feed!Topics = Feed!PollTopics \cup Feed!VoteTopics
  /\ Feed!PollTopics \cap Feed!VoteTopics = {}
  BY DEF Feed!PollTopics, Feed!VoteTopics, Feed!Topics, Topics,
     Feed!Ledger!TopicVoteCast, Feed!Ledger!TopicVoteRemoved,
     Ledger!TopicVoteCast, Ledger!TopicVoteRemoved

\* One event more in the queue of a topic, at its end.
LEMMA Appended ==
  ASSUME FeedTypes, NEW t \in Feed!PollTopics, NEW c \in Feed!Content, Feed!Emit(t, c)
  PROVE  /\ queue' \in [Feed!Topics -> Seq(Feed!Content \cup Ledger!Event)]
         /\ \A s \in Feed!PollTopics : queue'[s] \in Seq(Feed!Content)
         /\ \A s \in Feed!Topics : s # t => queue'[s] = queue[s]
         /\ queue'[t] # <<>> /\ Len(queue'[t]) = Len(queue[t]) + 1
         /\ queue'[t][Len(queue'[t])] = c
         /\ queue[t] = <<>> => Head(queue'[t]) = c /\ Len(queue'[t]) = 1
<1>1. /\ t \in Feed!Topics /\ queue[t] \in Seq(Feed!Content)
      /\ queue[t] \in Seq(Feed!Content \cup Ledger!Event)
  BY FeedTopics DEF FeedTypes
<1>2. /\ queue' = [queue EXCEPT ![t] = Append(queue[t], c)]
      /\ queue'[t] = Append(queue[t], c)
  BY <1>1 DEF Feed!Emit, FeedTypes
<1>3. /\ Append(queue[t], c) \in Seq(Feed!Content)
      /\ Append(queue[t], c) \in Seq(Feed!Content \cup Ledger!Event)
      /\ Len(Append(queue[t], c)) = Len(queue[t]) + 1
      /\ Append(queue[t], c)[Len(queue[t]) + 1] = c
  BY <1>1
<1>4. Len(queue[t]) \in Nat /\ Append(queue[t], c) # <<>>
  BY <1>1
<1>5. queue[t] = <<>> => Head(Append(queue[t], c)) = c /\ Len(Append(queue[t], c)) = 1
  BY <1>1
<1> QED
  BY <1>1, <1>2, <1>3, <1>4, <1>5 DEF FeedTypes

\* One event less in the queue of a topic, from its head.
LEMMA Consumed ==
  ASSUME FeedTypes, NEW t \in Feed!Topics, Feed!Consume(t)
  PROVE  /\ queue' \in [Feed!Topics -> Seq(Feed!Content \cup Ledger!Event)]
         /\ \A s \in Feed!PollTopics : queue'[s] \in Seq(Feed!Content)
         /\ \A s \in Feed!Topics : s # t => queue'[s] = queue[s]
         /\ queue[t] # <<>> /\ Len(queue[t]) \in Nat \ {0}
         /\ Head(queue[t]) = queue[t][1] /\ 1 \in 1 .. Len(queue[t])
         /\ Len(queue'[t]) = Len(queue[t]) - 1
         /\ queue'[t] = <<>> => Len(queue[t]) = 1
         /\ \A i \in 1 .. Len(queue'[t]) :
              queue'[t][i] = queue[t][i + 1] /\ i + 1 \in 1 .. Len(queue[t])
         /\ t \in Feed!PollTopics => Head(queue[t]) \in Feed!Content
         /\ UNCHANGED <<Feed!ledgerVars, Feed!pollVars>>
<1>1. queue[t] # <<>> /\ queue[t] \in Seq(Feed!Content \cup Ledger!Event)
  BY DEF Feed!Consume, FeedTypes
<1>2. /\ queue' = [queue EXCEPT ![t] = Tail(queue[t])]
      /\ queue'[t] = Tail(queue[t])
  BY <1>1 DEF Feed!Consume, FeedTypes
<1>3. /\ Tail(queue[t]) \in Seq(Feed!Content \cup Ledger!Event)
      /\ Len(Tail(queue[t])) = Len(queue[t]) - 1
      /\ \A i \in 1 .. Len(Tail(queue[t])) : Tail(queue[t])[i] = queue[t][i + 1]
  BY <1>1, HeadTailProperties
<1>4. t \in Feed!PollTopics => Tail(queue[t]) \in Seq(Feed!Content) /\ Head(queue[t]) \in Feed!Content
  BY <1>1, HeadTailProperties DEF FeedTypes
<1>5. Len(queue[t]) \in Nat \ {0}
  BY <1>1, EmptySeq
<1>6. \A i \in 1 .. (Len(queue[t]) - 1) : i + 1 \in 1 .. Len(queue[t])
  BY <1>5
<1>7. 1 \in 1 .. Len(queue[t])
  BY <1>5
<1>8. queue'[t] = <<>> => Len(queue[t]) = 1
  <2>1. SUFFICES ASSUME Tail(queue[t]) = <<>> PROVE Len(queue[t]) = 1
    BY <1>2
  <2>2. Len(<<>>) = 0
    BY EmptySeq
  <2>3. Len(queue[t]) - 1 = 0
    BY <1>3, <2>1, <2>2
  <2> QED
    BY <1>5, <2>3
<1>9. Head(queue[t]) = queue[t][1]
  BY <1>1
<1>10. queue' \in [Feed!Topics -> Seq(Feed!Content \cup Ledger!Event)]
  BY <1>2, <1>3 DEF FeedTypes
<1>11. \A s \in Feed!Topics : s # t => queue'[s] = queue[s]
  BY <1>2 DEF FeedTypes
<1>12. \A s \in Feed!PollTopics : queue'[s] \in Seq(Feed!Content)
  BY <1>2, <1>4, <1>11, FeedTopics DEF FeedTypes
<1>13. UNCHANGED <<Feed!ledgerVars, Feed!pollVars>>
  BY DEF Feed!Consume
<1> QED
  BY <1>1, <1>2, <1>3, <1>4, <1>5, <1>6, <1>7, <1>8, <1>9, <1>10, <1>11, <1>12, <1>13

\* What the votes add up to does not change while they are not touched.
LEMMA VotesSame ==
  ASSUME VotesInv, applied \subseteq events,
         \A e \in events : known'[e.by] = known[e.by],
         Feed!AwaitsItem' => Feed!AwaitsItem,
         applied' = applied, pendingOptions' = pendingOptions, pendingTotal' = pendingTotal,
         "removed" \in overtook <=> "removed" \in overtook',
         \/ item' = None
         \/ /\ item # None /\ item'.votes = item.votes /\ item'.total = item.total
            /\ ~ Feed!AwaitsItem'
  PROVE  VotesInv'
<1>1. "removed" \notin overtook' => InTime(applied)'
  <2>1. \A e \in Removals(applied) : known'[e.by] = known[e.by]
    BY DEF Removals
  <2> QED
    BY <2>1 DEF VotesInv, InTime
<1>2. \A o : Feed!NetOf(o)' = Feed!NetOf(o)
  BY DEF Feed!NetOf, Feed!Named
<1>3. EarlyVotesKept'
  BY <1>2 DEF VotesInv, EarlyVotesKept, Feed!EarlyVotesKept
<1>4. ItemCounts'
  BY <1>2 DEF VotesInv, ItemCounts, Feed!ItemCounts
<1> QED
  BY <1>1, <1>3, <1>4 DEF VotesInv

LEMMA VotesWaitSame ==
  ASSUME VotesWait, events' = events, applied' = applied,
         \A t \in Feed!VoteTopics : queue'[t] = queue[t]
  PROVE  VotesWait'
  BY DEF VotesWait

-----------------------------------------------------------------------------
(* The steps of the poll service. *)

LEMMA CreatePollKeeps ==
  ASSUME FeedInv, Feed!CreatePoll
  PROVE  FeedInv'
<1>1. /\ LedgerCore /\ FeedTypes /\ VotesWait /\ PollWaits /\ ItemInv /\ VotesInv
      /\ poll = "none" /\ poll' = "live" /\ Feed!Emit("poll.created", content)
      /\ UNCHANGED <<Feed!ledgerVars, content, running, Feed!feedVars, applied, overtook>>
  BY DEF FeedInv, Feed!CreatePoll
<1>2. /\ events' = events /\ known' = known /\ content' = content /\ item' = item
      /\ pendingOptions' = pendingOptions /\ pendingTotal' = pendingTotal
      /\ applied' = applied /\ overtook' = overtook
  BY <1>1 DEF Feed!ledgerVars, Feed!feedVars
<1>3. LedgerCore'
  BY <1>1, CoreSame
<1>4. /\ queue' \in [Feed!Topics -> Seq(Feed!Content \cup Ledger!Event)]
      /\ \A s \in Feed!PollTopics : queue'[s] \in Seq(Feed!Content)
      /\ \A s \in Feed!Topics : s # "poll.created" => queue'[s] = queue[s]
      /\ Created' # <<>>
      /\ Created = <<>> => Head(Created') = content /\ Len(Created') = 1
  <2>1. "poll.created" \in Feed!PollTopics /\ content \in Feed!Content
    BY <1>1, FeedTopics DEF FeedTypes
  <2> QED
    BY <1>1, <2>1, Appended DEF Created
<1>5. /\ Created = <<>> /\ Updated' = Updated /\ Deleted' = Deleted
      /\ Updated = <<>> /\ Deleted = <<>> /\ Len(Created') = 1
  <2>1. Updated' = Updated /\ Deleted' = Deleted
    BY <1>4, FeedTopics DEF Updated, Deleted
  <2>2. Created = <<>> /\ Updated = <<>> /\ Deleted = <<>>
    BY <1>1 DEF PollWaits
  <2> QED
    BY <1>4, <2>1, <2>2
<1>6. FeedTypes'
  BY <1>1, <1>2, <1>4 DEF FeedTypes
<1>7. VotesWait'
  BY <1>1, <1>2, <1>4, FeedTopics, VotesWaitSame
<1>8. PollWaits'
  BY <1>1, <1>2, <1>4, <1>5 DEF PollWaits
<1>9. item = None /\ Feed!AwaitsItem /\ Feed!AwaitsItem'
  BY <1>1, <1>4 DEF ItemInv, Feed!AwaitsItem, Created
<1>10. ItemInv'
  BY <1>1, <1>2, <1>4, <1>5, <1>9 DEF ItemInv
<1>11. VotesInv'
  BY <1>1, <1>2, <1>9, VotesSame DEF FeedTypes
<1> QED
  BY <1>3, <1>6, <1>7, <1>8, <1>10, <1>11 DEF FeedInv

LEMMA UpdatePollKeeps ==
  ASSUME FeedInv, NEW c \in Feed!Content, Feed!UpdatePoll(c)
  PROVE  FeedInv'
<1>1. /\ LedgerCore /\ FeedTypes /\ VotesWait /\ PollWaits /\ ItemInv /\ VotesInv
      /\ poll = "live" /\ poll' = poll /\ content' = c /\ Feed!Emit("poll.updated", c)
      /\ UNCHANGED <<Feed!ledgerVars, poll, running, Feed!feedVars, applied, overtook>>
  BY DEF FeedInv, Feed!UpdatePoll
<1>2. /\ events' = events /\ known' = known /\ item' = item
      /\ pendingOptions' = pendingOptions /\ pendingTotal' = pendingTotal
      /\ applied' = applied /\ overtook' = overtook
  BY <1>1 DEF Feed!ledgerVars, Feed!feedVars
<1>3. LedgerCore'
  BY <1>1, CoreSame
<1>4. /\ queue' \in [Feed!Topics -> Seq(Feed!Content \cup Ledger!Event)]
      /\ \A s \in Feed!PollTopics : queue'[s] \in Seq(Feed!Content)
      /\ \A s \in Feed!Topics : s # "poll.updated" => queue'[s] = queue[s]
      /\ Updated' # <<>> /\ Updated'[Len(Updated')] = c
  <2>1. "poll.updated" \in Feed!PollTopics
    BY FeedTopics
  <2> QED
    BY <1>1, <2>1, Appended DEF Updated
<1>5. Created' = Created /\ Deleted' = Deleted
  BY <1>4, FeedTopics DEF Created, Deleted
<1>6. FeedTypes'
  BY <1>1, <1>2, <1>4 DEF FeedTypes
<1>7. VotesWait'
  BY <1>1, <1>2, <1>4, FeedTopics, VotesWaitSame
<1>8. PollWaits'
  BY <1>1, <1>4, <1>5 DEF PollWaits
<1>9. Feed!AwaitsItem' = Feed!AwaitsItem
  BY <1>1, <1>5 DEF Feed!AwaitsItem, Created
<1>10. ItemInv'
  BY <1>1, <1>2, <1>4, <1>5, <1>9 DEF ItemInv
<1>11. VotesInv'
  BY <1>1, <1>2, <1>9, VotesSame DEF FeedTypes, ItemInv
<1> QED
  BY <1>3, <1>6, <1>7, <1>8, <1>10, <1>11 DEF FeedInv

LEMMA DeletePollKeeps ==
  ASSUME FeedInv, Feed!DeletePoll
  PROVE  FeedInv'
<1>1. /\ LedgerCore /\ FeedTypes /\ VotesWait /\ PollWaits /\ ItemInv /\ VotesInv
      /\ poll = "live" /\ poll' = "deleted" /\ Feed!Emit("poll.deleted", content)
      /\ UNCHANGED <<Feed!ledgerVars, content, running, Feed!feedVars, applied, overtook>>
  BY DEF FeedInv, Feed!DeletePoll
<1>2. /\ events' = events /\ known' = known /\ item' = item /\ content' = content
      /\ pendingOptions' = pendingOptions /\ pendingTotal' = pendingTotal
      /\ applied' = applied /\ overtook' = overtook
  BY <1>1 DEF Feed!ledgerVars, Feed!feedVars
<1>3. LedgerCore'
  BY <1>1, CoreSame
<1>4. /\ queue' \in [Feed!Topics -> Seq(Feed!Content \cup Ledger!Event)]
      /\ \A s \in Feed!PollTopics : queue'[s] \in Seq(Feed!Content)
      /\ \A s \in Feed!Topics : s # "poll.deleted" => queue'[s] = queue[s]
      /\ Deleted' # <<>>
  <2>1. "poll.deleted" \in Feed!PollTopics /\ content \in Feed!Content
    BY <1>1, FeedTopics DEF FeedTypes
  <2> QED
    BY <1>1, <2>1, Appended DEF Deleted
<1>5. Created' = Created /\ Updated' = Updated
  BY <1>4, FeedTopics DEF Created, Updated
<1>6. FeedTypes'
  BY <1>1, <1>2, <1>4 DEF FeedTypes
<1>7. VotesWait'
  BY <1>1, <1>2, <1>4, FeedTopics, VotesWaitSame
<1>8. PollWaits'
  BY <1>1, <1>2, <1>4, <1>5 DEF PollWaits
<1>9. Feed!AwaitsItem' = Feed!AwaitsItem
  BY <1>1, <1>5 DEF Feed!AwaitsItem, Created
<1>10. ItemInv'
  BY <1>1, <1>2, <1>4, <1>5, <1>9 DEF ItemInv
<1>11. VotesInv'
  BY <1>1, <1>2, <1>9, VotesSame DEF FeedTypes, ItemInv
<1> QED
  BY <1>3, <1>6, <1>7, <1>8, <1>10, <1>11 DEF FeedInv

-----------------------------------------------------------------------------
(* The steps of the ledger, and those that only start or stop the consumer. *)

\* The queues a request appends to are those of its events.
LEMMA Reported ==
  ASSUME NEW r \in Requests, NEW k \in Keys, FeedTypes, LedgerTypes', Feed!Serve(r, k)
  PROVE  /\ queue' \in [Feed!Topics -> Seq(Feed!Content \cup Ledger!Event)]
         /\ \A t \in Feed!PollTopics : queue'[t] = queue[t]
         /\ \A t \in Feed!VoteTopics :
              \/ queue'[t] = queue[t]
              \/ \E e \in events' \ events : e.topic = t /\ queue'[t] = Append(queue[t], e)
<1> DEFINE new(t) == {e \in events' \ events : e.topic = t}
<1>1. queue' = [t \in Feed!Topics |->
                  IF new(t) = {} THEN queue[t] ELSE Append(queue[t], CHOOSE e \in new(t) : TRUE)]
  BY DEF Feed!Serve
<1>2. \A t \in Feed!Topics :
        \/ new(t) = {} /\ queue'[t] = queue[t]
        \/ \E e \in new(t) : queue'[t] = Append(queue[t], e)
  <2>1. SUFFICES ASSUME NEW t \in Feed!Topics, new(t) # {}
                 PROVE  \E e \in new(t) : queue'[t] = Append(queue[t], e)
    BY <1>1
  <2>2. (CHOOSE e \in new(t) : TRUE) \in new(t)
    BY <2>1
  <2>3. queue'[t] = Append(queue[t], CHOOSE e \in new(t) : TRUE)
    BY <1>1, <2>1
  <2> HIDE DEF new
  <2> QED
    BY <2>2, <2>3
<1>3. \A t : new(t) \subseteq Ledger!Event /\ \A e \in new(t) : e.topic = t /\ e.topic \in Topics
  BY DEF LedgerTypes, Ledger!Event, Topics
<1>4. \A t \in Feed!PollTopics : new(t) = {}
  BY <1>3, FeedTopics
<1>5. \A t \in Feed!Topics : queue'[t] \in Seq(Feed!Content \cup Ledger!Event)
  <2>1. SUFFICES ASSUME NEW t \in Feed!Topics
                 PROVE  queue'[t] \in Seq(Feed!Content \cup Ledger!Event)
    OBVIOUS
  <2>2. queue[t] \in Seq(Feed!Content \cup Ledger!Event)
    BY DEF FeedTypes
  <2>3. CASE queue'[t] = queue[t]
    BY <2>2, <2>3
  <2>4. ASSUME NEW e \in new(t), queue'[t] = Append(queue[t], e)
        PROVE  queue'[t] \in Seq(Feed!Content \cup Ledger!Event)
    <3>1. e \in Feed!Content \cup Ledger!Event
      BY <1>3
    <3> QED
      BY <2>2, <2>4, <3>1
  <2> HIDE DEF new
  <2> QED
    BY <1>2, <2>3, <2>4
<1>6. queue' \in [Feed!Topics -> Seq(Feed!Content \cup Ledger!Event)]
  <2>1. queue' = [t \in Feed!Topics |-> queue'[t]]
    BY <1>1
  <2> QED
    BY <1>5, <2>1
<1>7. \A t \in Feed!PollTopics : queue'[t] = queue[t]
  BY <1>2, <1>4, FeedTopics
<1>8. \A t \in Feed!VoteTopics :
        \/ queue'[t] = queue[t]
        \/ \E e \in events' \ events : e.topic = t /\ queue'[t] = Append(queue[t], e)
  BY <1>2, FeedTopics
<1> QED
  BY <1>6, <1>7, <1>8

LEMMA FeedServeKeeps ==
  ASSUME FeedInv, NEW r \in Requests, NEW k \in Keys, Feed!Serve(r, k)
  PROVE  FeedInv'
<1>1. /\ LedgerCore /\ FeedTypes /\ VotesWait /\ PollWaits /\ ItemInv /\ VotesInv
  BY DEF FeedInv
<1>2. /\ poll' = poll /\ content' = content /\ item' = item
      /\ pendingOptions' = pendingOptions /\ pendingTotal' = pendingTotal
      /\ applied' = applied /\ overtook' = overtook
  BY DEF Feed!Serve, Feed!feedVars, Feed!pollVars
<1>3. /\ LedgerCore' /\ events \subseteq events'
      /\ \A e \in events : known'[e.by] = known[e.by]
  BY <1>1, CoreServe
<1>4. /\ queue' \in [Feed!Topics -> Seq(Feed!Content \cup Ledger!Event)]
      /\ \A t \in Feed!PollTopics : queue'[t] = queue[t]
      /\ \A t \in Feed!VoteTopics :
           \/ queue'[t] = queue[t]
           \/ \E e \in events' \ events : e.topic = t /\ queue'[t] = Append(queue[t], e)
  BY <1>1, <1>3, Reported DEF LedgerCore
<1>5. Created' = Created /\ Updated' = Updated /\ Deleted' = Deleted
  BY <1>4, FeedTopics DEF Created, Updated, Deleted
<1>6. FeedTypes'
  BY <1>1, <1>2, <1>3, <1>4 DEF FeedTypes
<1>7. VotesWait'
  <2>1. SUFFICES ASSUME NEW t \in Feed!VoteTopics
                 PROVE  /\ \A i \in 1 .. Len(queue'[t]) :
                             /\ queue'[t][i] \in events' /\ queue'[t][i] \notin applied
                             /\ queue'[t][i].topic = t
                        /\ \A i, j \in 1 .. Len(queue'[t]) :
                             queue'[t][i] = queue'[t][j] => i = j
    BY <1>2 DEF VotesWait
  <2>2. /\ \A i \in 1 .. Len(queue[t]) :
             queue[t][i] \in events /\ queue[t][i] \notin applied /\ queue[t][i].topic = t
        /\ \A i, j \in 1 .. Len(queue[t]) : queue[t][i] = queue[t][j] => i = j
    BY <1>1 DEF VotesWait
  <2>3. CASE queue'[t] = queue[t]
    BY <1>3, <2>2, <2>3
  <2>4. ASSUME NEW e \in events' \ events, e.topic = t, queue'[t] = Append(queue[t], e)
        PROVE  /\ \A i \in 1 .. Len(queue'[t]) :
                    /\ queue'[t][i] \in events' /\ queue'[t][i] \notin applied
                    /\ queue'[t][i].topic = t
               /\ \A i, j \in 1 .. Len(queue'[t]) :
                    queue'[t][i] = queue'[t][j] => i = j
    <3>1. queue[t] \in Seq(Feed!Content \cup Ledger!Event)
      BY <1>1, FeedTopics DEF FeedTypes
    <3>2. Len(queue'[t]) = Len(queue[t]) + 1 /\ Len(queue[t]) \in Nat
      BY <2>4, <3>1
    <3>3. \A i \in 1 .. Len(queue'[t]) :
            \/ i \in 1 .. Len(queue[t]) /\ queue'[t][i] = queue[t][i]
            \/ i = Len(queue[t]) + 1 /\ queue'[t][i] = e
      BY <2>4, <3>1, <3>2
    <3>4. e \notin applied
      BY <1>1 DEF FeedTypes
    <3> QED
      BY <1>3, <2>2, <2>4, <3>3, <3>4
  <2> QED
    BY <1>4, <2>3, <2>4
<1>8. PollWaits'
  BY <1>1, <1>2, <1>5 DEF PollWaits
<1>9. Feed!AwaitsItem' = Feed!AwaitsItem
  BY <1>2, <1>5 DEF Feed!AwaitsItem, Created
<1>10. ItemInv'
  BY <1>1, <1>2, <1>5, <1>9 DEF ItemInv
<1>11. VotesInv'
  BY <1>1, <1>2, <1>3, <1>9, VotesSame DEF FeedTypes, ItemInv
<1> QED
  BY <1>3, <1>6, <1>7, <1>8, <1>10, <1>11 DEF FeedInv

\* A removal that is lost, a consumer that stops or starts again, or nothing.
LEMMA RestKeeps ==
  ASSUME FeedInv, LedgerCore',
         UNCHANGED <<events, known, Feed!pollVars, queue, Feed!feedVars, applied, overtook>>
  PROVE  FeedInv'
<1>1. /\ events' = events /\ known' = known /\ poll' = poll /\ content' = content
      /\ queue' = queue /\ item' = item /\ pendingOptions' = pendingOptions
      /\ pendingTotal' = pendingTotal /\ applied' = applied /\ overtook' = overtook
  BY DEF Feed!pollVars, Feed!feedVars
<1>2. FeedTypes' /\ VotesWait' /\ PollWaits'
  BY <1>1 DEF FeedInv, FeedTypes, VotesWait, PollWaits, Created, Updated, Deleted
<1>3. Feed!AwaitsItem' = Feed!AwaitsItem
  BY <1>1 DEF Feed!AwaitsItem
<1>4. ItemInv'
  BY <1>1, <1>3 DEF FeedInv, ItemInv, Created, Updated, Deleted
<1>5. VotesInv'
  BY <1>1, <1>3, VotesSame DEF FeedInv, FeedTypes, ItemInv
<1> QED
  BY <1>2, <1>4, <1>5 DEF FeedInv

-----------------------------------------------------------------------------
(* The handlers of the poll's own events. *)

\* The votes consumed are those of the events consumed, as VoteCounters counts them.
LEMMA FeedNet ==
  \A o : /\ Feed!NetOf(o) = NetOf(OfOption(applied, o))
         /\ Feed!NetOf(o)' = NetOf(OfOption(applied', o))
<1> SUFFICES ASSUME NEW o
             PROVE  /\ Feed!NetOf(o) = NetOf(OfOption(applied, o))
                    /\ Feed!NetOf(o)' = NetOf(OfOption(applied', o))
  OBVIOUS
<1> USE DEF Feed!Ledger!TopicVoteCast, Feed!Ledger!TopicVoteRemoved,
            Ledger!TopicVoteCast, Ledger!TopicVoteRemoved
<1>1. /\ Feed!Named(Feed!Ledger!TopicVoteCast, o) = Casts(OfOption(applied, o))
      /\ Feed!Named(Feed!Ledger!TopicVoteRemoved, o) = Removals(OfOption(applied, o))
  BY DEF Feed!Named, Casts, Removals, OfOption
<1>2. /\ Feed!Named(Feed!Ledger!TopicVoteCast, o)' = Casts(OfOption(applied', o))
      /\ Feed!Named(Feed!Ledger!TopicVoteRemoved, o)' = Removals(OfOption(applied', o))
  BY DEF Feed!Named, Casts, Removals, OfOption
<1> QED
  BY <1>1, <1>2, SameCardinality DEF Feed!NetOf, NetOf

LEMMA NetIsNat ==
  ASSUME LedgerCore, FeedTypes, NEW o
  PROVE  /\ Feed!NetOf(o) = NetOf(OfOption(applied, o)) /\ Feed!NetOf(o) \in Int
         /\ InTime(applied) => Feed!NetOf(o) \in Nat
<1>1. applied \in SUBSET events /\ IsFiniteSet(OfOption(applied, o))
  BY FS_Subset DEF FeedTypes, LedgerCore, LedgerTypes, OfOption
<1>2. NetOf(OfOption(applied, o)) \in Int
  BY <1>1, NetIsInt
<1>3. InTime(applied) => NetOf(OfOption(applied, o)) \in Nat
  BY <1>1, OptionNet
<1> QED
  BY <1>2, <1>3, FeedNet

LEMMA HandlePollCreatedKeeps ==
  ASSUME FeedInv, Feed!FeedConstants, Feed!HandlePollCreated
  PROVE  FeedInv'
<1>1. LedgerCore /\ FeedTypes /\ VotesWait /\ PollWaits /\ ItemInv /\ VotesInv
  BY DEF FeedInv
<1>2. /\ Feed!Consume("poll.created")
      /\ item' = [content |-> Head(Created),
                  votes |-> [o \in Options |-> Feed!Clamp(pendingOptions[o])],
                  total |-> Feed!Clamp(pendingTotal)]
      /\ pendingOptions' = [o \in Options |-> 0] /\ pendingTotal' = 0
      /\ applied' = applied /\ overtook' = overtook
  BY DEF Feed!HandlePollCreated, Created
<1>3. /\ queue' \in [Feed!Topics -> Seq(Feed!Content \cup Ledger!Event)]
      /\ \A s \in Feed!PollTopics : queue'[s] \in Seq(Feed!Content)
      /\ \A s \in Feed!Topics : s # "poll.created" => queue'[s] = queue[s]
      /\ Created # <<>> /\ Len(Created) \in Nat \ {0}
      /\ Len(Created') = Len(Created) - 1
      /\ Head(Created) \in Feed!Content
      /\ UNCHANGED <<Feed!ledgerVars, Feed!pollVars>>
  <2>1. "poll.created" \in Feed!Topics /\ "poll.created" \in Feed!PollTopics
    BY FeedTopics
  <2> QED
    BY <1>1, <1>2, <2>1, Consumed DEF Created
<1>4. /\ events' = events /\ known' = known /\ poll' = poll /\ content' = content
      /\ Updated' = Updated /\ Deleted' = Deleted
  BY <1>3, FeedTopics DEF Feed!ledgerVars, Feed!pollVars, Updated, Deleted
<1>5. Created' = <<>>
  <2>1. Created' \in Seq(Feed!Content)
    BY <1>3, FeedTopics DEF Created
  <2>2. Len(Created') = 0
    BY <1>1, <1>3 DEF PollWaits
  <2> QED
    BY <2>1, <2>2, EmptySeq
<1>6. LedgerCore'
  BY <1>1, <1>3, CoreSame
<1> DEFINE clamped == [o \in Options |-> Feed!Clamp(pendingOptions[o])]
<1>7. /\ clamped \in [Options -> Nat]
      /\ Feed!SumOf(clamped) \in Nat /\ Feed!SumOf(clamped) >= Feed!SumOf(pendingOptions)
      /\ (\A o \in Options : pendingOptions[o] >= 0) => clamped = pendingOptions
  BY <1>1, SumClamped DEF FeedTypes
<1>8. pendingTotal \in Int /\ Feed!Clamp(pendingTotal) \in Nat
  BY <1>1 DEF FeedTypes, Feed!Clamp
<1>9. item' \in Feed!FeedItem /\ item' # None
  <2>1. item' \in Feed!FeedItem
    BY <1>2, <1>3, <1>7, <1>8 DEF Feed!FeedItem
  <2> QED
    BY <2>1 DEF Feed!FeedConstants
<1>10. FeedTypes'
  BY <1>1, <1>2, <1>3, <1>4, <1>9 DEF FeedTypes
<1>11. VotesWait'
  BY <1>1, <1>2, <1>3, <1>4, FeedTopics, VotesWaitSame
<1>12. poll # "none"
  BY <1>1, <1>3 DEF PollWaits
<1>13. PollWaits'
  <2>1. Len(Created') <= 1
    BY <1>5, EmptySeq
  <2> QED
    BY <1>1, <1>4, <1>12, <2>1 DEF PollWaits
<1>14. Feed!AwaitsItem /\ ~ Feed!AwaitsItem'
  BY <1>3, <1>4, <1>5, <1>12 DEF Feed!AwaitsItem, Created
<1>15. ItemInv'
  <2>1. item'.content = Head(Created)
    BY <1>2
  <2>2. poll = "deleted" /\ Deleted = <<>> => "deleted" \in overtook
    BY <1>1, <1>3 DEF ItemInv
  <2> QED
    BY <1>1, <1>2, <1>3, <1>4, <1>5, <1>9, <1>14, <2>1, <2>2 DEF ItemInv
<1>16. /\ \A o \in Options : pendingOptions[o] = Feed!NetOf(o)
       /\ pendingTotal = Feed!SumOf(pendingOptions)
  BY <1>1, <1>14 DEF VotesInv, EarlyVotesKept, Feed!EarlyVotesKept
<1>17. \A o : Feed!NetOf(o)' = Feed!NetOf(o)
  BY <1>2 DEF Feed!NetOf, Feed!Named
<1>18. "removed" \notin overtook => clamped = pendingOptions
  <2>1. "removed" \notin overtook => \A o \in Options : Feed!NetOf(o) \in Nat
    BY <1>1, NetIsNat DEF VotesInv
  <2> QED
    BY <1>7, <1>16, <2>1
<1>19. ItemCounts'
  <2>1. item'.votes = clamped /\ item'.total = Feed!Clamp(pendingTotal)
    BY <1>2
  <2>2. \A o \in Options : clamped[o] >= Feed!NetOf(o)
    <3>1. SUFFICES ASSUME NEW o \in Options
                   PROVE  Feed!Clamp(pendingOptions[o]) >= pendingOptions[o]
      BY <1>16
    <3>2. pendingOptions[o] \in Int
      BY <1>1 DEF FeedTypes
    <3> QED
      BY <3>2 DEF Feed!Clamp
  <2> HIDE DEF clamped
  <2>3. Feed!Clamp(pendingTotal) <= Feed!SumOf(clamped)
    BY <1>7, <1>8, <1>16 DEF Feed!Clamp
  <2>4. "removed" \notin overtook =>
          /\ \A o \in Options : clamped[o] = Feed!NetOf(o)
          /\ Feed!Clamp(pendingTotal) = Feed!SumOf(clamped)
    <3>1. Feed!SumOf(clamped) = pendingTotal => Feed!Clamp(pendingTotal) = Feed!SumOf(clamped)
      BY <1>7, <1>8 DEF Feed!Clamp
    <3> QED
      BY <1>16, <1>18, <3>1
  <2> QED
    BY <1>2, <1>17, <2>1, <2>2, <2>3, <2>4 DEF ItemCounts, Feed!ItemCounts
<1>20. EarlyVotesKept'
  BY <1>2, <1>14 DEF EarlyVotesKept, Feed!EarlyVotesKept
<1>21. "removed" \notin overtook' => InTime(applied)'
  BY <1>1, <1>2, <1>4 DEF VotesInv, InTime
<1>22. VotesInv'
  BY <1>19, <1>20, <1>21 DEF VotesInv
<1> QED
  BY <1>6, <1>10, <1>11, <1>13, <1>15, <1>22 DEF FeedInv

LEMMA HandlePollUpdatedKeeps ==
  ASSUME FeedInv, Feed!FeedConstants, Feed!HandlePollUpdated
  PROVE  FeedInv'
<1>1. LedgerCore /\ FeedTypes /\ VotesWait /\ PollWaits /\ ItemInv /\ VotesInv
  BY DEF FeedInv
<1>2. /\ Feed!Consume("poll.updated")
      /\ item' = IF item = None THEN None ELSE [item EXCEPT !.content = Head(Updated)]
      /\ overtook' = IF item = None THEN overtook \cup {"updated"} ELSE overtook
      /\ pendingOptions' = pendingOptions /\ pendingTotal' = pendingTotal /\ applied' = applied
  BY DEF Feed!HandlePollUpdated, Updated
<1>3. /\ queue' \in [Feed!Topics -> Seq(Feed!Content \cup Ledger!Event)]
      /\ \A s \in Feed!PollTopics : queue'[s] \in Seq(Feed!Content)
      /\ \A s \in Feed!Topics : s # "poll.updated" => queue'[s] = queue[s]
      /\ Updated # <<>> /\ Len(Updated) \in Nat \ {0}
      /\ Head(Updated) = Updated[1] /\ Head(Updated) \in Feed!Content
      /\ Len(Updated') = Len(Updated) - 1
      /\ Updated' = <<>> => Len(Updated) = 1
      /\ \A i \in 1 .. Len(Updated') : Updated'[i] = Updated[i + 1]
      /\ UNCHANGED <<Feed!ledgerVars, Feed!pollVars>>
  <2>1. "poll.updated" \in Feed!Topics /\ "poll.updated" \in Feed!PollTopics
    BY FeedTopics
  <2> QED
    BY <1>1, <1>2, <2>1, Consumed DEF Updated
<1>4. /\ events' = events /\ known' = known /\ poll' = poll /\ content' = content
      /\ Created' = Created /\ Deleted' = Deleted
  BY <1>3, FeedTopics DEF Feed!ledgerVars, Feed!pollVars, Created, Deleted
<1>5. LedgerCore'
  BY <1>1, <1>3, CoreSame
<1>6. ASSUME item = None
      PROVE  item' = None /\ "updated" \in overtook' /\ FeedTypes' /\ ItemInv'
  <2>1. item' = None /\ "updated" \in overtook'
    BY <1>2, <1>6
  <2>2. FeedTypes'
    BY <1>1, <1>2, <1>3, <1>4, <2>1 DEF FeedTypes
  <2>3. ItemInv'
    BY <1>1, <1>2, <1>4, <1>6, <2>1 DEF ItemInv
  <2> QED
    BY <2>1, <2>2, <2>3
<1>7. ASSUME item # None
      PROVE  /\ item' \in Feed!FeedItem /\ item'.content = Head(Updated) /\ item' # None
             /\ item'.votes = item.votes /\ item'.total = item.total
  <2>1. item \in Feed!FeedItem
    BY <1>1, <1>7 DEF FeedTypes
  <2>2. /\ item' \in Feed!FeedItem /\ item'.content = Head(Updated)
        /\ item'.votes = item.votes /\ item'.total = item.total
    BY <1>2, <1>3, <1>7, <2>1 DEF Feed!FeedItem
  <2>3. item' # None
    BY <2>2 DEF Feed!FeedConstants
  <2> QED
    BY <2>2, <2>3
<1>8. FeedTypes'
  BY <1>1, <1>2, <1>3, <1>4, <1>6, <1>7 DEF FeedTypes
<1>9. VotesWait'
  BY <1>1, <1>2, <1>3, <1>4, FeedTopics, VotesWaitSame
<1>10. PollWaits'
  <2>1. ASSUME Updated' # <<>> PROVE Updated'[Len(Updated')] = content
    <3>1. Len(Updated') \in Nat \ {0}
      <4>1. Updated' \in Seq(Feed!Content)
        BY <1>3, FeedTopics DEF Updated
      <4> QED
        BY <2>1, <4>1, EmptySeq
    <3>2. Len(Updated') \in 1 .. Len(Updated')
      BY <3>1
    <3>3. Updated'[Len(Updated')] = Updated[Len(Updated)]
      BY <1>3, <3>1, <3>2
    <3> QED
      BY <1>1, <1>3, <3>3 DEF PollWaits
  <2>2. poll # "none"
    BY <1>1, <1>3 DEF PollWaits
  <2> QED
    BY <1>1, <1>4, <2>1, <2>2 DEF PollWaits
<1>11. Feed!AwaitsItem' = Feed!AwaitsItem
  BY <1>4 DEF Feed!AwaitsItem, Created
<1>12. item # None => Head(Updated) = content \/ Updated' # <<>>
  BY <1>1, <1>3 DEF PollWaits
<1>13. ItemInv'
  <2>1. CASE item # None
    <3>1. overtook' = overtook /\ item' # None /\ item'.content = Head(Updated)
      BY <1>2, <1>7, <2>1
    <3>2. Created = <<>>
      BY <1>1, <2>1 DEF ItemInv, Feed!AwaitsItem, Created
    <3> QED
      BY <1>1, <1>4, <1>11, <1>12, <2>1, <3>1, <3>2 DEF ItemInv
  <2> QED
    BY <1>6, <2>1
<1>14. VotesInv'
  <2>1. "removed" \in overtook <=> "removed" \in overtook'
    BY <1>2
  <2>2. item' = None \/ (item # None /\ item'.votes = item.votes /\ item'.total = item.total)
    BY <1>6, <1>7
  <2>3. item # None => ~ Feed!AwaitsItem'
    BY <1>1, <1>11 DEF ItemInv
  <2> QED
    BY <1>1, <1>2, <1>4, <1>11, <2>1, <2>2, <2>3, VotesSame DEF FeedTypes
<1> QED
  BY <1>5, <1>8, <1>9, <1>10, <1>13, <1>14 DEF FeedInv

LEMMA HandlePollDeletedKeeps ==
  ASSUME FeedInv, Feed!HandlePollDeleted
  PROVE  FeedInv'
<1>1. LedgerCore /\ FeedTypes /\ VotesWait /\ PollWaits /\ ItemInv /\ VotesInv
  BY DEF FeedInv
<1>2. /\ Feed!Consume("poll.deleted")
      /\ item' = None
      /\ overtook' = IF Created # <<>> THEN overtook \cup {"deleted"} ELSE overtook
      /\ pendingOptions' = pendingOptions /\ pendingTotal' = pendingTotal /\ applied' = applied
  BY DEF Feed!HandlePollDeleted, Created
<1>3. /\ queue' \in [Feed!Topics -> Seq(Feed!Content \cup Ledger!Event)]
      /\ \A s \in Feed!PollTopics : queue'[s] \in Seq(Feed!Content)
      /\ \A s \in Feed!Topics : s # "poll.deleted" => queue'[s] = queue[s]
      /\ Deleted # <<>>
      /\ UNCHANGED <<Feed!ledgerVars, Feed!pollVars>>
  <2>1. "poll.deleted" \in Feed!Topics
    BY FeedTopics
  <2> QED
    BY <1>1, <1>2, <2>1, Consumed DEF Deleted
<1>4. /\ events' = events /\ known' = known /\ poll' = poll /\ content' = content
      /\ Created' = Created /\ Updated' = Updated
  BY <1>3, FeedTopics DEF Feed!ledgerVars, Feed!pollVars, Created, Updated
<1>5. LedgerCore'
  BY <1>1, <1>3, CoreSame
<1>6. FeedTypes'
  BY <1>1, <1>2, <1>3, <1>4 DEF FeedTypes
<1>7. VotesWait'
  BY <1>1, <1>2, <1>3, <1>4, FeedTopics, VotesWaitSame
<1>8. poll = "deleted"
  BY <1>1, <1>3 DEF PollWaits
<1>9. PollWaits'
  BY <1>1, <1>4, <1>8 DEF PollWaits
<1>10. Feed!AwaitsItem' = Feed!AwaitsItem
  BY <1>4 DEF Feed!AwaitsItem, Created
<1>11. ItemInv'
  BY <1>1, <1>2, <1>4, <1>8 DEF ItemInv
<1>12. "removed" \in overtook <=> "removed" \in overtook'
  BY <1>2
<1>13. VotesInv'
  BY <1>1, <1>2, <1>4, <1>10, <1>12, VotesSame DEF FeedTypes
<1> QED
  BY <1>5, <1>6, <1>7, <1>9, <1>11, <1>13 DEF FeedInv

-----------------------------------------------------------------------------
(* The handlers of votes. *)

\* The event that is next in the queue of a topic of votes, and what it adds.
LEMMA NextVote ==
  ASSUME LedgerCore, FeedTypes, VotesWait, NEW t \in Feed!VoteTopics, Feed!Consume(t),
         NEW e, e = Head(queue[t])
  PROVE  /\ e \in events \ applied /\ e.opts \subseteq Options
         /\ Feed!Delta(e) = Delta(e) /\ Delta(e) \in {1, -1}
         /\ Feed!Cardinality(e.opts) = Cardinality(e.opts) /\ Cardinality(e.opts) \in Nat
         /\ Feed!Overtakes(e) <=> Overtakes(e, applied)
         /\ \A o : /\ NetOf(OfOption(applied, o)) \in Int
                   /\ NetOf(OfOption(applied \cup {e}, o)) =
                        NetOf(OfOption(applied, o)) + IF o \in e.opts THEN Delta(e) ELSE 0
<1>1. t \in Feed!Topics
  BY FeedTopics
<1>2. e = queue[t][1] /\ 1 \in 1 .. Len(queue[t])
  BY <1>1, Consumed
<1>3. e \in events \ applied
  BY <1>2 DEF VotesWait
<1>4. e \in Ledger!Event /\ e.opts \subseteq Options
  BY <1>3 DEF LedgerCore, LedgerTypes, Ledger!Event
<1>5. Feed!Delta(e) = Delta(e)
  BY DEF Feed!Delta, Delta, Feed!Ledger!TopicVoteCast, Ledger!TopicVoteCast
<1>6. Feed!Overtakes(e) <=> Overtakes(e, applied)
  BY DEF Feed!Overtakes, Overtakes, Feed!Ledger!TopicVoteCast, Ledger!TopicVoteCast,
    Feed!Ledger!TopicVoteRemoved, Ledger!TopicVoteRemoved
<1>7. IsFiniteSet(applied) /\ IsFiniteSet(e.opts) /\ e.topic \in Topics
  BY <1>4, CountersAssumption, FS_Subset
  DEF FeedTypes, LedgerCore, LedgerTypes, Ledger!Event, Topics
<1>8. ASSUME NEW o
      PROVE  /\ NetOf(OfOption(applied, o)) \in Int
             /\ NetOf(OfOption(applied \cup {e}, o)) =
                  NetOf(OfOption(applied, o)) + IF o \in e.opts THEN Delta(e) ELSE 0
  <2>1. IsFiniteSet(OfOption(applied, o)) /\ e \notin OfOption(applied, o)
    BY <1>3, <1>7, FS_Subset DEF OfOption
  <2>2. /\ NetOf(OfOption(applied, o)) \in Int
        /\ NetOf(OfOption(applied, o) \cup {e}) = NetOf(OfOption(applied, o)) + Delta(e)
    BY <1>7, <2>1, NetAdded
  <2>3. OfOption(applied \cup {e}, o) =
          IF o \in e.opts THEN OfOption(applied, o) \cup {e} ELSE OfOption(applied, o)
    BY DEF OfOption
  <2>4. CASE o \in e.opts
    BY <2>2, <2>3, <2>4
  <2>5. CASE o \notin e.opts
    BY <2>2, <2>3, <2>5
  <2> QED
    BY <2>4, <2>5
<1>9. Delta(e) \in {1, -1} /\ Cardinality(e.opts) \in Nat
  BY <1>7, FS_CardinalityType DEF Delta
<1> QED
  BY <1>3, <1>4, <1>5, <1>6, <1>8, <1>9, SameCardinality

\* The counters of an item move with what was consumed, and never below it.
LEMMA VoteCounted ==
  ASSUME NEW votes \in [Options -> Nat], NEW total \in Nat, total <= Feed!SumOf(votes),
         NEW S \in SUBSET Options, NEW d \in {1, -1},
         NEW votes1, votes1 = [o \in Options |->
                       IF o \in S THEN Feed!Clamp(votes[o] + d) ELSE votes[o]],
         NEW total1, total1 = Feed!Clamp(total + d * Cardinality(S))
  PROVE  /\ votes1 \in [Options -> Nat] /\ total1 \in Nat
         /\ \A o \in Options : votes1[o] >= votes[o] + IF o \in S THEN d ELSE 0
         /\ total1 <= Feed!SumOf(votes1)
         /\ (\A o \in Options : votes[o] + (IF o \in S THEN d ELSE 0) >= 0) =>
              /\ \A o \in Options : votes1[o] = votes[o] + IF o \in S THEN d ELSE 0
              /\ total = Feed!SumOf(votes) => total1 = Feed!SumOf(votes1)
<1> DEFINE q == [o \in Options |-> IF o \in S THEN votes[o] + d ELSE votes[o]]
<1>1. q \in [Options -> Int]
  OBVIOUS
<1>2. \A o \in Options : q[o] = votes[o] + IF o \in S THEN d ELSE 0
  OBVIOUS
<1>3. votes1 = [o \in Options |-> Feed!Clamp(q[o])]
  BY DEF Feed!Clamp
<1>4. /\ Feed!SumOf(q) = Feed!SumOf(votes) + d * Cardinality(S)
      /\ Cardinality(S) \in Nat /\ Feed!SumOf(votes) \in Int
  <2>1. votes \in [Options -> Int]
    OBVIOUS
  <2> QED
    BY <2>1, SumMoved, SumIsInt
<1> HIDE DEF q
<1>5. /\ votes1 \in [Options -> Nat]
      /\ Feed!SumOf(votes1) \in Nat /\ Feed!SumOf(votes1) >= Feed!SumOf(q)
      /\ (\A o \in Options : q[o] >= 0) => votes1 = q
  BY <1>1, <1>3, SumClamped
<1>6. \A o \in Options : votes1[o] >= q[o]
  <2>1. SUFFICES ASSUME NEW o \in Options PROVE Feed!Clamp(q[o]) >= q[o]
    BY <1>3
  <2>2. q[o] \in Int
    BY <1>1
  <2> QED
    BY <2>2 DEF Feed!Clamp
<1> DEFINE m == d * Cardinality(S)
<1>7. m \in Int /\ total + m <= Feed!SumOf(q) /\ Feed!SumOf(q) \in Int
      /\ (total = Feed!SumOf(votes) => total + m = Feed!SumOf(q))
      /\ total1 = Feed!Clamp(total + m)
  <2>1. m \in Int
    BY <1>4
  <2> HIDE DEF m
  <2>2. Feed!SumOf(q) = Feed!SumOf(votes) + m
    BY <1>4 DEF m
  <2>3. total1 = Feed!Clamp(total + m)
    BY DEF m
  <2> QED
    BY <1>4, <2>1, <2>2, <2>3
<1> HIDE DEF m
<1>8. total1 \in Nat /\ total1 <= Feed!SumOf(votes1)
  BY <1>5, <1>7 DEF Feed!Clamp
<1>9. ASSUME \A o \in Options : q[o] >= 0
      PROVE  votes1 = q /\ (total = Feed!SumOf(votes) => total1 = Feed!SumOf(votes1))
  <2>1. votes1 = q
    BY <1>5, <1>9
  <2>2. Feed!SumOf(q) \in Nat
    BY <1>5, <2>1
  <2> QED
    BY <1>7, <2>1, <2>2 DEF Feed!Clamp
<1> QED
  BY <1>2, <1>5, <1>6, <1>8, <1>9

LEMMA HandleVoteKeeps ==
  ASSUME FeedInv, Feed!FeedConstants, NEW t \in Feed!VoteTopics, Feed!HandleVote(t)
  PROVE  FeedInv'
<1> DEFINE e == Head(queue[t])
           d == Delta(e)
           n == Cardinality(e.opts)
           net(o) == NetOf(OfOption(applied, o))
           netAfter(o) == NetOf(OfOption(applied \cup {e}, o))
<1>1. LedgerCore /\ FeedTypes /\ VotesWait /\ PollWaits /\ ItemInv /\ VotesInv
  BY DEF FeedInv
<1>2. /\ Feed!Consume(t)
      /\ \/ item # None /\ item' = Feed!CountVotes(e) /\ UNCHANGED <<pendingOptions, pendingTotal>>
         \/ item = None /\ Feed!KeepPending(e) /\ item' = None
      /\ applied' = applied \cup {e}
      /\ overtook' = IF Feed!Overtakes(e) THEN overtook \cup {"removed"} ELSE overtook
  BY DEF Feed!HandleVote
<1>3. t \in Feed!Topics /\ t \notin Feed!PollTopics
  BY FeedTopics
<1>4. /\ queue' \in [Feed!Topics -> Seq(Feed!Content \cup Ledger!Event)]
      /\ \A s \in Feed!PollTopics : queue'[s] \in Seq(Feed!Content) /\ queue'[s] = queue[s]
      /\ \A s \in Feed!Topics : s # t => queue'[s] = queue[s]
      /\ e = queue[t][1] /\ Len(queue[t]) \in Nat \ {0}
      /\ \A i \in 1 .. Len(queue'[t]) :
           queue'[t][i] = queue[t][i + 1] /\ i + 1 \in 1 .. Len(queue[t])
      /\ UNCHANGED <<Feed!ledgerVars, Feed!pollVars>>
  <2>1. FeedTypes /\ Feed!Consume(t)
    BY <1>1, <1>2
  <2> HIDE DEF e, d, n, net, netAfter
  <2>2. /\ queue' \in [Feed!Topics -> Seq(Feed!Content \cup Ledger!Event)]
        /\ \A s \in Feed!PollTopics : queue'[s] \in Seq(Feed!Content)
        /\ \A s \in Feed!Topics : s # t => queue'[s] = queue[s]
        /\ Len(queue[t]) \in Nat \ {0} /\ Head(queue[t]) = queue[t][1]
        /\ \A i \in 1 .. Len(queue'[t]) :
             queue'[t][i] = queue[t][i + 1] /\ i + 1 \in 1 .. Len(queue[t])
        /\ UNCHANGED <<Feed!ledgerVars, Feed!pollVars>>
    BY <1>3, <2>1, Consumed, Zenon
  <2>3. \A s \in Feed!PollTopics : s \in Feed!Topics /\ s # t
    BY <1>3, FeedTopics, Zenon
  <2>4. \A s \in Feed!PollTopics : queue'[s] \in Seq(Feed!Content) /\ queue'[s] = queue[s]
    BY <2>2, <2>3, Zenon
  <2>5. e = queue[t][1]
    BY <2>2 DEF e
  <2> QED
    BY <2>2, <2>4, <2>5, Zenon
<1>5. /\ events' = events /\ known' = known /\ poll' = poll /\ content' = content
      /\ Created' = Created /\ Updated' = Updated /\ Deleted' = Deleted
  BY <1>4, FeedTopics DEF Feed!ledgerVars, Feed!pollVars, Created, Updated, Deleted
<1>6. LedgerCore'
  BY <1>1, <1>4, CoreSame
<1>7. /\ e \in events \ applied /\ e.opts \subseteq Options
      /\ Feed!Delta(e) = d /\ d \in {1, -1}
      /\ Feed!Cardinality(e.opts) = n /\ n \in Nat
      /\ Feed!Overtakes(e) <=> Overtakes(e, applied)
      /\ \A o : /\ net(o) \in Int
                /\ netAfter(o) = net(o) + IF o \in e.opts THEN d ELSE 0
  BY <1>1, <1>2, NextVote
<1>8. \A o : Feed!NetOf(o) = net(o) /\ Feed!NetOf(o)' = netAfter(o)
  BY <1>2, FeedNet
<1>9. VotesWait'
  <2>1. SUFFICES ASSUME NEW s \in Feed!VoteTopics
                 PROVE  /\ \A i \in 1 .. Len(queue'[s]) :
                             /\ queue'[s][i] \in events /\ queue'[s][i] \notin applied \cup {e}
                             /\ queue'[s][i].topic = s
                        /\ \A i, j \in 1 .. Len(queue'[s]) :
                             queue'[s][i] = queue'[s][j] => i = j
    BY <1>2, <1>5 DEF VotesWait
  <2>2. /\ \A i \in 1 .. Len(queue[s]) :
             queue[s][i] \in events /\ queue[s][i] \notin applied /\ queue[s][i].topic = s
        /\ \A i, j \in 1 .. Len(queue[s]) : queue[s][i] = queue[s][j] => i = j
    BY <1>1 DEF VotesWait
  <2>3. e.topic = t /\ 1 \in 1 .. Len(queue[t])
    BY <1>1, <1>4 DEF VotesWait
  <2> HIDE DEF e
  <2>4. CASE s = t
    <3>1. \A i \in 1 .. Len(queue'[t]) : queue[t][i + 1] # e
      <4>1. SUFFICES ASSUME NEW i \in 1 .. Len(queue'[t]), queue[t][i + 1] = queue[t][1]
                     PROVE  FALSE
        BY <1>4
      <4>2. i + 1 \in 1 .. Len(queue[t])
        BY <1>4
      <4>3. i + 1 = 1
        BY <2>2, <2>3, <2>4, <4>1, <4>2
      <4> QED
        BY <4>3
    <3>2. \A i, j \in 1 .. Len(queue'[t]) : queue'[t][i] = queue'[t][j] => i = j
      <4>1. SUFFICES ASSUME NEW i \in 1 .. Len(queue'[t]), NEW j \in 1 .. Len(queue'[t]),
                            queue'[t][i] = queue'[t][j]
                     PROVE  i = j
        OBVIOUS
      <4>2. i + 1 = j + 1
        BY <1>4, <2>2, <2>4, <4>1
      <4> QED
        BY <4>2
    <3> QED
      BY <1>4, <2>2, <2>4, <3>1, <3>2
  <2>5. CASE s # t
    <3>1. queue'[s] = queue[s]
      BY <1>4, <2>5, FeedTopics
    <3> QED
      BY <2>2, <2>3, <2>5, <3>1
  <2> QED
    BY <2>4, <2>5
<1>10. PollWaits'
  BY <1>1, <1>5 DEF PollWaits
<1>11. Feed!AwaitsItem' = Feed!AwaitsItem
  BY <1>5 DEF Feed!AwaitsItem, Created
<1>12. "removed" \notin overtook' =>
         /\ "removed" \notin overtook
         /\ InTime(applied \cup {e}) /\ \A o : netAfter(o) \in Nat
  <2>1. SUFFICES ASSUME "removed" \notin overtook'
                 PROVE  /\ "removed" \notin overtook
                        /\ InTime(applied \cup {e}) /\ \A o : netAfter(o) \in Nat
    OBVIOUS
  <2>2. ~ Overtakes(e, applied) /\ "removed" \notin overtook
    BY <1>2, <1>7, <2>1
  <2>3. InTime(applied \cup {e})
    <3>1. InTime(applied)
      BY <1>1, <2>2 DEF VotesInv
    <3> HIDE DEF e
    <3> QED
      BY <2>2, <3>1, StaysInTime
  <2>4. applied \cup {e} \in SUBSET events
    BY <1>1, <1>7 DEF FeedTypes
  <2> HIDE DEF e
  <2> QED
    BY <1>1, <2>2, <2>3, <2>4, OptionNet
<1>13. "removed" \notin overtook' => InTime(applied)'
  BY <1>2, <1>5, <1>12 DEF InTime
<1>14. "updated" \in overtook <=> "updated" \in overtook'
  BY <1>2
<1>15. "deleted" \in overtook <=> "deleted" \in overtook'
  BY <1>2
<1>16. CASE item = None
  <2>1. /\ item' = None
        /\ pendingOptions' = [o \in Options |->
             IF o \in e.opts THEN pendingOptions[o] + d ELSE pendingOptions[o]]
        /\ pendingTotal' = pendingTotal + d * n
    BY <1>2, <1>7, <1>16 DEF Feed!KeepPending
  <2> HIDE DEF e, d, n, net, netAfter
  <2>2. pendingOptions \in [Options -> Int] /\ pendingTotal \in Int
    BY <1>1 DEF FeedTypes
  <2>3. pendingOptions' \in [Options -> Int] /\ pendingTotal' \in Int
    <3>1. d * n \in Int
      BY <1>7
    <3> QED
      BY <1>7, <2>1, <2>2, <3>1
  <2>4. FeedTypes'
    BY <1>1, <1>2, <1>4, <1>5, <1>7, <2>1, <2>3 DEF FeedTypes
  <2>5. ItemInv'
    BY <1>1, <1>5, <1>14, <1>15, <1>16, <2>1 DEF ItemInv
  <2>6. EarlyVotesKept'
    <3>1. SUFFICES ASSUME Feed!AwaitsItem
                   PROVE  /\ \A o \in Options : pendingOptions'[o] = Feed!NetOf(o)'
                          /\ pendingTotal' = Feed!SumOf(pendingOptions')
      BY <1>11, <2>1 DEF EarlyVotesKept, Feed!EarlyVotesKept
    <3>2. /\ \A o \in Options : pendingOptions[o] = net(o)
          /\ pendingTotal = Feed!SumOf(pendingOptions)
      BY <1>1, <1>8, <3>1 DEF VotesInv, EarlyVotesKept, Feed!EarlyVotesKept
    <3>3. ASSUME NEW o \in Options PROVE pendingOptions'[o] = Feed!NetOf(o)'
      <4>1. pendingOptions'[o] = pendingOptions[o] + IF o \in e.opts THEN d ELSE 0
        BY <1>7, <2>1, <2>2
      <4> QED
        BY <1>7, <1>8, <3>2, <4>1
    <3>4. Feed!SumOf(pendingOptions') = Feed!SumOf(pendingOptions) + d * Cardinality(e.opts)
      BY <1>7, <2>1, <2>2, SumMoved
    <3> QED
      BY <2>1, <3>2, <3>3, <3>4 DEF n
  <2>7. ItemCounts'
    BY <2>1 DEF ItemCounts, Feed!ItemCounts
  <2>8. VotesInv'
    BY <1>13, <2>6, <2>7 DEF VotesInv
  <2> QED
    BY <1>6, <1>9, <1>10, <2>4, <2>5, <2>8 DEF FeedInv
<1>17. CASE item # None
  <2>1. item \in Feed!FeedItem
    BY <1>1, <1>17 DEF FeedTypes
  <2>2. /\ item' = Feed!CountVotes(e) /\ pendingOptions' = pendingOptions
        /\ pendingTotal' = pendingTotal
    BY <1>2, <1>17
  <2>3. /\ item'.content = item.content
        /\ item'.votes = [o \in Options |->
             IF o \in e.opts THEN Feed!Clamp(item.votes[o] + d) ELSE item.votes[o]]
        /\ item'.total = Feed!Clamp(item.total + d * n)
        /\ item' = [content |-> item'.content, votes |-> item'.votes, total |-> item'.total]
    BY <1>7, <2>1, <2>2 DEF Feed!CountVotes, Feed!FeedItem
  <2> HIDE DEF e, d, n, net, netAfter
  <2>4. /\ item.votes \in [Options -> Nat] /\ item.total \in Nat
        /\ item.total <= Feed!SumOf(item.votes)
        /\ \A o \in Options : item.votes[o] >= net(o)
        /\ "removed" \notin overtook =>
             /\ \A o \in Options : item.votes[o] = net(o)
             /\ item.total = Feed!SumOf(item.votes)
    BY <1>1, <1>8, <1>17, <2>1 DEF Feed!FeedItem, VotesInv, ItemCounts, Feed!ItemCounts
  <2>5. /\ item'.votes \in [Options -> Nat] /\ item'.total \in Nat
        /\ \A o \in Options : item'.votes[o] >= item.votes[o] + IF o \in e.opts THEN d ELSE 0
        /\ item'.total <= Feed!SumOf(item'.votes)
        /\ (\A o \in Options : item.votes[o] + (IF o \in e.opts THEN d ELSE 0) >= 0) =>
             /\ \A o \in Options :
                  item'.votes[o] = item.votes[o] + IF o \in e.opts THEN d ELSE 0
             /\ item.total = Feed!SumOf(item.votes) => item'.total = Feed!SumOf(item'.votes)
    BY <1>7, <2>3, <2>4, VoteCounted DEF n
  <2>6. item' \in Feed!FeedItem /\ item' # None
    <3>1. item' \in Feed!FeedItem
      BY <2>1, <2>3, <2>5 DEF Feed!FeedItem
    <3> QED
      BY <3>1 DEF Feed!FeedConstants
  <2>7. FeedTypes'
    BY <1>1, <1>2, <1>4, <1>5, <1>7, <2>2, <2>6 DEF FeedTypes
  <2>8. ItemInv'
    BY <1>1, <1>5, <1>11, <1>14, <1>15, <1>17, <2>3, <2>6 DEF ItemInv
  <2>9. ItemCounts'
    <3>1. \A o \in Options : item'.votes[o] >= netAfter(o)
      <4>1. SUFFICES ASSUME NEW o \in Options PROVE item'.votes[o] >= netAfter(o)
        OBVIOUS
      <4> DEFINE move == IF o \in e.opts THEN d ELSE 0
      <4>2. move \in Int /\ net(o) \in Int /\ netAfter(o) = net(o) + move
        BY <1>7
      <4>3. /\ item.votes[o] \in Nat /\ item'.votes[o] \in Nat
            /\ item.votes[o] >= net(o) /\ item'.votes[o] >= item.votes[o] + move
        BY <2>4, <2>5
      <4> HIDE DEF move
      <4> QED
        BY <4>2, <4>3
    <3>2. ASSUME "removed" \notin overtook'
          PROVE  /\ \A o \in Options : item'.votes[o] = netAfter(o)
                 /\ item'.total = Feed!SumOf(item'.votes)
      <4>1. /\ \A o \in Options : item.votes[o] = net(o)
            /\ item.total = Feed!SumOf(item.votes)
        BY <1>12, <2>4, <3>2
      <4>2. \A o \in Options : item.votes[o] + (IF o \in e.opts THEN d ELSE 0) = netAfter(o)
        BY <1>7, <4>1
      <4>3. \A o \in Options : item.votes[o] + (IF o \in e.opts THEN d ELSE 0) >= 0
        BY <1>12, <3>2, <4>2
      <4> QED
        BY <2>5, <4>1, <4>2, <4>3
    <3> QED
      BY <1>8, <2>5, <3>1, <3>2 DEF ItemCounts, Feed!ItemCounts
  <2>10. EarlyVotesKept'
    BY <1>1, <1>11, <1>17, <2>2 DEF ItemInv, VotesInv, EarlyVotesKept, Feed!EarlyVotesKept
  <2>11. VotesInv'
    BY <1>13, <2>9, <2>10 DEF VotesInv
  <2> QED
    BY <1>6, <1>9, <1>10, <2>7, <2>8, <2>11 DEF FeedInv
<1> QED
  BY <1>16, <1>17
-----------------------------------------------------------------------------
(* The invariant. *)

LEMMA FeedInit == Feed!FeedConstants /\ Feed!Init => FeedInv
<1> SUFFICES ASSUME Feed!FeedConstants, Feed!Init PROVE FeedInv
  OBVIOUS
<1>1. /\ poll = "none" /\ content \in Feed!Content /\ content.version = 0
      /\ queue = [t \in Feed!Topics |-> <<>>]
      /\ item = None /\ pendingOptions = [o \in Options |-> 0] /\ pendingTotal = 0
      /\ applied = {} /\ overtook = {}
  BY DEF Feed!Init
<1>2. Created = <<>> /\ Updated = <<>> /\ Deleted = <<>>
  BY <1>1, FeedTopics DEF Created, Updated, Deleted
<1>3. LedgerCore
  BY CoreInit
<1>4. FeedTypes
  BY <1>1, FeedTopics DEF FeedTypes
<1>5. VotesWait
  <2>1. \A t \in Feed!VoteTopics : queue[t] = <<>> /\ 1 .. Len(queue[t]) = {}
    BY <1>1, FeedTopics, EmptySeq
  <2> QED
    BY <2>1 DEF VotesWait
<1>6. PollWaits
  BY <1>1, <1>2, EmptySeq DEF PollWaits
<1>7. ItemInv
  BY <1>1, <1>2 DEF ItemInv
<1>8. VotesInv
  <2>1. \A o \in Options : Feed!NetOf(o) = 0
    <3>1. SUFFICES ASSUME NEW o \in Options PROVE Feed!NetOf(o) = 0
      OBVIOUS
    <3>2. /\ Feed!Named(Feed!Ledger!TopicVoteCast, o) = {}
          /\ Feed!Named(Feed!Ledger!TopicVoteRemoved, o) = {}
      BY <1>1 DEF Feed!Named
    <3>3. Feed!NetOf(o) = Cardinality({}) - Cardinality({})
      BY <3>2, SameCardinality DEF Feed!NetOf
    <3> QED
      BY <3>3, FS_EmptySet
  <2>2. EarlyVotesKept
    BY <1>1, <2>1, SumOfNothing DEF EarlyVotesKept, Feed!EarlyVotesKept
  <2>3. ItemCounts
    BY <1>1 DEF ItemCounts, Feed!ItemCounts
  <2>4. InTime(applied)
    BY <1>1 DEF InTime, Removals
  <2> QED
    BY <2>2, <2>3, <2>4 DEF VotesInv
<1> QED
  BY <1>3, <1>4, <1>5, <1>6, <1>7, <1>8 DEF FeedInv

LEMMA FeedNextKeeps ==
  ASSUME Feed!FeedConstants, FeedInv, [Feed!Next]_Feed!vars
  PROVE  FeedInv'
<1>1. CASE Feed!CreatePoll
  BY <1>1, CreatePollKeeps
<1>2. CASE \E c \in Feed!Content : Feed!UpdatePoll(c)
  BY <1>2, UpdatePollKeeps
<1>3. CASE Feed!DeletePoll
  BY <1>3, DeletePollKeeps
<1>4. CASE \E r \in Requests, k \in Keys : Feed!Serve(r, k)
  BY <1>4, FeedServeKeeps
<1>5. CASE \E k \in Keys : Feed!LoseRemoval(k)
  <2>1. PICK k \in Keys : Feed!LoseRemoval(k)
    BY <1>5
  <2>2. LedgerCore'
    BY <2>1, CoreLost DEF FeedInv
  <2>3. UNCHANGED <<events, known, Feed!pollVars, queue, Feed!feedVars, applied, overtook>>
    BY <2>1 DEF Feed!LoseRemoval, Feed!Ledger!LoseRemoval
  <2> QED
    BY <2>2, <2>3, RestKeeps
<1>6. CASE \E t \in Feed!Topics : Feed!Handle(t)
  <2>1. PICK t \in Feed!Topics : Feed!Handle(t)
    BY <1>6
  <2>2. CASE Feed!HandlePollCreated
    BY <2>2, HandlePollCreatedKeeps
  <2>3. CASE Feed!HandlePollUpdated
    BY <2>3, HandlePollUpdatedKeeps
  <2>4. CASE Feed!UpdateRejected
    <3>1. LedgerCore'
      BY <2>4, CoreSame DEF FeedInv, Feed!UpdateRejected
    <3>2. UNCHANGED <<events, known, Feed!pollVars, queue, Feed!feedVars, applied, overtook>>
      BY <2>4 DEF Feed!UpdateRejected, Feed!ledgerVars
    <3> QED
      BY <3>1, <3>2, RestKeeps
  <2>5. CASE Feed!HandlePollDeleted
    BY <2>5, HandlePollDeletedKeeps
  <2>6. CASE t \in Feed!VoteTopics /\ Feed!HandleVote(t)
    BY <2>6, HandleVoteKeeps
  <2> QED
    BY <2>1, <2>2, <2>3, <2>4, <2>5, <2>6 DEF Feed!Handle
<1>7. CASE Feed!Restart
  <2>1. LedgerCore'
    BY <1>7, CoreSame DEF FeedInv, Feed!Restart
  <2>2. UNCHANGED <<events, known, Feed!pollVars, queue, Feed!feedVars, applied, overtook>>
    BY <1>7 DEF Feed!Restart, Feed!ledgerVars
  <2> QED
    BY <2>1, <2>2, RestKeeps
<1>8. CASE UNCHANGED Feed!vars
  <2>1. LedgerCore'
    BY <1>8, CoreSame DEF FeedInv, Feed!vars
  <2>2. UNCHANGED <<events, known, Feed!pollVars, queue, Feed!feedVars, applied, overtook>>
    BY <1>8 DEF Feed!vars, Feed!ledgerVars
  <2> QED
    BY <2>1, <2>2, RestKeeps
<1> QED
  BY <1>1, <1>2, <1>3, <1>4, <1>5, <1>6, <1>7, <1>8 DEF Feed!Next

\* In every reachable state the feed's item, its pending votes and what waits in
\* the five partitions are related as FeedInv says: the invariant behind the
\* three theorems below, whatever the consumer takes first.
THEOREM FeedInvCorrect == Feed!Spec => []FeedInv
<1>1. Feed!Init => FeedInv
  BY FeedInit, FeedAssumption
<1>2. FeedInv /\ [Feed!Next]_Feed!vars => FeedInv'
  BY FeedNextKeeps, FeedAssumption
<1> QED
  BY <1>1, <1>2, PTL DEF Feed!Spec

\* Votes consumed before poll.created are pending to the last one, option by
\* option and in total, and none stays pending once the item is there.
THEOREM EarlyVotesCorrect == Feed!Spec => []EarlyVotesKept
<1>1. FeedInv => EarlyVotesKept
  BY DEF FeedInv, VotesInv
<1> QED
  BY <1>1, FeedInvCorrect, PTL

\* However vote.cast and vote.removed overtake each other and poll.created, the
\* item never shows fewer votes than were consumed; it shows exactly those if no
\* removal came before its cast, and its total never exceeds its options' sum.
THEOREM ItemCountsCorrect == Feed!Spec => []ItemCounts
<1>1. FeedInv => ItemCounts
  BY DEF FeedInv, VotesInv
<1> QED
  BY <1>1, FeedInvCorrect, PTL

\* With the updates consumed and none of them forgotten, the item shows the poll
\* as it is; a deleted poll stays out of the feed, and no other one is missing
\* once poll.created is consumed.
THEOREM ItemShowsPollCorrect == Feed!Spec => []ItemShowsPoll
<1>1. FeedInv => ItemShowsPoll
  BY DEF FeedInv, ItemInv, Created, Updated, Deleted, ItemShowsPoll, Feed!ItemShowsPoll
<1> QED
  BY <1>1, FeedInvCorrect, PTL
=============================================================================
