------------------------- MODULE VoteServiceProofs --------------------------
(***************************************************************************)
(* What VoteService guarantees for every number of users, polls, options   *)
(* and concurrent requests, proved from the invariant IInv.                *)
(***************************************************************************)
EXTENDS VoteService, FiniteSetTheorems, TLAPS

USE DEF Requests, Keys, Stages, RowsOf

-----------------------------------------------------------------------------
\* The events of a request are events.
LEMMA EventTypes ==
  ASSUME NEW r \in Requests, NEW k \in Keys, NEW S \in SUBSET Options
  PROVE  /\ Ledger!Removed(r, k, S) \subseteq Ledger!Event
         /\ Ledger!Cast(r, k, S) \subseteq Ledger!Event
  BY DEF Ledger!Removed, Ledger!Cast, Ledger!Event,
         Ledger!TopicVoteCast, Ledger!TopicVoteRemoved

\* Finish keeps the variables it writes in their types.
LEMMA FinishType ==
  ASSUME TypeOK, NEW r \in Requests, NEW o \in {"done", "failed"}, Finish(r, o)
  PROVE  /\ lockOwner' \in [Keys -> Requests \cup {None}]
         /\ pc' \in [Requests -> Stages \cup {"idle", "done", "failed"}]
         /\ sel' \in [Requests -> SUBSET Options]
         /\ snap' \in [Requests -> SUBSET Row]
         /\ read' \in [Requests -> SUBSET Row]
  BY DEF TypeOK, Finish

\* TypeOK is inductive by itself.
LEMMA TypeStep == TypeOK /\ [Next]_vars => TypeOK'
<1> SUFFICES ASSUME TypeOK, [Next]_vars PROVE TypeOK'
  OBVIOUS
<1> USE DEF TypeOK
<1>1. ASSUME NEW r \in Voters, NEW S \in SUBSET Options, CallVote(r, S)
      PROVE  TypeOK'
  BY <1>1 DEF CallVote
<1>2. ASSUME NEW r \in Removers \cup Readers, CallSelect(r)
      PROVE  TypeOK'
  BY <1>2 DEF CallSelect
<1>3. ASSUME NEW r \in Requests, LockUserVote(r)
      PROVE  TypeOK'
  BY <1>3 DEF LockUserVote
<1>4. ASSUME NEW r \in Requests, ValidateSelectedOptions(r)
      PROVE  TypeOK'
  BY <1>4, FinishType DEF ValidateSelectedOptions
<1>5. ASSUME NEW r \in Requests, SelectSnapshot(r)
      PROVE  TypeOK'
  BY <1>5 DEF SelectSnapshot, RowsIn
<1>6. ASSUME NEW r \in Requests, GetUserVote(r)
      PROVE  TypeOK'
  BY <1>6 DEF GetUserVote
<1>7. ASSUME NEW r \in Requests, KeepUserVote(r)
      PROVE  TypeOK'
  BY <1>7, FinishType DEF KeepUserVote
<1>8. ASSUME NEW r \in Requests, DeleteSnapshot(r)
      PROVE  TypeOK'
  BY <1>8 DEF DeleteSnapshot, RowsIn
<1>9. ASSUME NEW r \in Requests, ReplaceUserVote(r)
      PROVE  TypeOK'
  <2>1. OptionIDs(read[r]) \subseteq Options
    BY DEF OptionIDs, Row
  <2>2. votes' \subseteq Row
    BY <1>9 DEF ReplaceUserVote, Row
  <2>3. outbox' \subseteq Ledger!Event
    BY <1>9, <2>1, EventTypes DEF ReplaceUserVote
  <2> QED
    BY <1>9, <2>2, <2>3, FinishType DEF ReplaceUserVote
<1>10. ASSUME NEW r \in Requests, DeleteUserVote(r)
       PROVE  TypeOK'
  <2>1. OptionIDs(read[r]) \subseteq Options
    BY DEF OptionIDs, Row
  <2>2. outbox' \subseteq Ledger!Event
    BY <1>10, <2>1, EventTypes DEF DeleteUserVote
  <2> QED
    BY <1>10, <2>2, FinishType DEF DeleteUserVote
<1>11. ASSUME NEW r \in Requests, Rollback(r)
       PROVE  TypeOK'
  BY <1>11, FinishType DEF Rollback
<1>12. CASE UNCHANGED vars
  BY <1>12 DEF vars
<1> QED
  BY <1>1, <1>2, <1>3, <1>4, <1>5, <1>6, <1>7, <1>8, <1>9, <1>10, <1>11, <1>12
     DEF Next, Progress, Quiescent

\* Every variable keeps its type.
THEOREM TypeCorrect == Spec => []TypeOK
<1>1. Init => TypeOK
  BY VoteAssumption DEF Init, TypeOK
<1> QED
  BY <1>1, TypeStep, PTL DEF Spec

-----------------------------------------------------------------------------
\* A step that leaves the table alone leaves the selections of users alone.
LEMMA TableUnchanged ==
  ASSUME OneSelection, SingleChoiceHonoured, UNCHANGED votes
  PROVE  OneSelection' /\ SingleChoiceHonoured'
  BY DEF OneSelection, SingleChoiceHonoured, OptionIDs

\* A request that ends without a commit disturbs nothing.
LEMMA FinishStep ==
  ASSUME IInv, TypeOK', NEW r \in Requests, NEW o \in {"done", "failed"},
         Finish(r, o), pc[r] \in Stages, r \notin Readers \/ o = "failed",
         UNCHANGED <<votes, key>>
  PROVE  IInv'
<1> USE VoteAssumption
<1>1. StagesOfKinds'
  BY DEF IInv, TypeOK, StagesOfKinds, Finish
<1>2. LockHeld'
  BY DEF IInv, TypeOK, LockHeld, Finish
<1>3. Validated'
  BY DEF IInv, TypeOK, Validated, Finish, ValidSelection
<1>4. FreshRows'
  BY DEF IInv, TypeOK, FreshRows, Finish
<1>5. SnapshotWholeOrGone'
  BY DEF IInv, TypeOK, SnapshotWholeOrGone, Finish
<1>6. HeldIsCurrent'
  BY DEF IInv, TypeOK, HeldIsCurrent, Finish
<1>7. OneSelection' /\ SingleChoiceHonoured'
  BY TableUnchanged DEF IInv
<1>8. ReadsWholeSelection'
  BY DEF IInv, TypeOK, ReadsWholeSelection, Finish
<1> QED
  BY <1>1, <1>2, <1>3, <1>4, <1>5, <1>6, <1>7, <1>8 DEF IInv

\* The rows that request r inserts for key k.
Inserted(r, k) == [key : {k}, opt : sel[r], by : {r}]

\* What a commit of r does to the table: either it takes away whole keys, or it
\* takes away all of k and adds new rows of r there.
LEMMA CommitRows ==
  ASSUME IInv, NEW r \in Voters, ReplaceUserVote(r)
  PROVE  /\ RowsIn(votes', key[r]) = Inserted(r, key[r])
         /\ \A k \in Keys : k # key[r] => RowsIn(votes', k) = RowsOf(k)
         /\ votes' = (votes \ RowsOf(key[r])) \cup Inserted(r, key[r])
<1>1. snap[r] = RowsOf(key[r])
  BY DEF IInv, HeldIsCurrent, ReplaceUserVote
<1>2. votes' = (votes \ RowsOf(key[r])) \cup Inserted(r, key[r])
  BY <1>1 DEF ReplaceUserVote, Inserted
<1>3. \A row \in Inserted(r, key[r]) : row.key = key[r]
  BY DEF Inserted
<1>4. key' = key
  BY DEF ReplaceUserVote
<1> QED
  BY <1>2, <1>3, <1>4 DEF RowsIn

LEMMA DeleteRows ==
  ASSUME IInv, NEW r \in Removers, DeleteUserVote(r)
  PROVE  \/ votes' = votes
         \/ /\ snap[r] = RowsOf(key[r])
            /\ votes' = votes \ RowsOf(key[r])
            /\ RowsIn(votes', key[r]) = {}
            /\ \A k \in Keys : k # key[r] => RowsIn(votes', k) = RowsOf(k)
<1>1. snap[r] \cap votes = {} \/ snap[r] = RowsOf(key[r])
  BY DEF IInv, SnapshotWholeOrGone, DeleteUserVote
<1>2. CASE snap[r] \cap votes = {}
  BY <1>2 DEF DeleteUserVote
<1>3. CASE snap[r] = RowsOf(key[r])
  BY <1>3 DEF DeleteUserVote, RowsIn
<1> QED
  BY <1>1, <1>2, <1>3

\* A commit of a Vote keeps the invariant.
LEMMA ReplaceStep ==
  ASSUME IInv, TypeOK', NEW r \in Voters, ReplaceUserVote(r)
  PROVE  IInv'
<1> DEFINE k == key[r]
<1> USE VoteAssumption
<1>0. /\ pc[r] = "deleteLock" /\ key' = key /\ Finish(r, "done") /\ Unlocked(r)
      /\ TypeOK /\ k \in Keys
  BY DEF IInv, ReplaceUserVote, TypeOK
<1>1. /\ RowsIn(votes', k) = Inserted(r, k)
      /\ \A j \in Keys : j # k => RowsIn(votes', j) = RowsOf(j)
      /\ votes' = (votes \ RowsOf(k)) \cup Inserted(r, k)
      /\ snap[r] = RowsOf(k) /\ read[r] = RowsOf(k)
  BY <1>0, CommitRows DEF IInv, HeldIsCurrent
<1>2. \A q \in Voters \ {r} : pc[q] \in Stages \ {"lock"} => key[q] # k
  BY <1>0 DEF IInv, LockHeld, TypeOK
<1>3. \A row \in Inserted(r, k) : row.by = r /\ row.key = k
  BY DEF Inserted
<1>4. StagesOfKinds'
  BY <1>0 DEF IInv, StagesOfKinds, Finish, TypeOK
<1>5. LockHeld'
  BY <1>0 DEF IInv, LockHeld, Finish, TypeOK
<1>6. Validated'
  BY <1>0 DEF IInv, Validated, Finish, TypeOK, ValidSelection
<1>7. FreshRows'
  BY <1>0, <1>1, <1>3 DEF IInv, FreshRows, Finish, TypeOK
<1>8. SnapshotWholeOrGone'
  <2> SUFFICES ASSUME NEW q \in Requests, pc'[q] \in {"selectLock", "deleteLock"}
               PROVE  /\ \/ snap'[q] \cap votes' = {}
                         \/ snap'[q] = RowsIn(votes', key[q])
                      /\ q \in Voters => RowsIn(votes', key[q]) \subseteq snap'[q]
    BY <1>0 DEF SnapshotWholeOrGone
  <2>1. q # r /\ pc'[q] = pc[q] /\ snap'[q] = snap[q] /\ key[q] \in Keys
    BY <1>0 DEF Finish, TypeOK
  <2>2. snap[q] \cap votes = {} \/ snap[q] = RowsOf(key[q])
    BY <2>1 DEF IInv, SnapshotWholeOrGone
  <2>3. \A row \in snap[q] : row.by # r
    BY <1>0 DEF IInv, FreshRows
  <2>4. CASE key[q] = k
    BY <1>0, <1>1, <1>2, <1>3, <2>1, <2>2, <2>3, <2>4
  <2>5. CASE key[q] # k
    <3>1. RowsIn(votes', key[q]) = RowsOf(key[q])
      BY <1>1, <2>1, <2>5
    <3>2. snap[q] \cap votes = {} => snap[q] \cap votes' = {}
      BY <1>1, <1>3, <2>3
    <3> QED
      BY <1>0, <2>1, <2>2, <3>1, <3>2 DEF IInv, SnapshotWholeOrGone
  <2> QED
    BY <2>4, <2>5
<1>9. HeldIsCurrent'
  <2> SUFFICES ASSUME NEW q \in Voters \cup Removers,
                      q \in Voters \/ read'[q] # {},
                      pc'[q] \in {"write", "deleteLock"}
               PROVE  /\ read'[q] = RowsIn(votes', key[q])
                      /\ pc'[q] = "deleteLock" => snap'[q] = RowsIn(votes', key[q])
    BY <1>0 DEF HeldIsCurrent
  <2>1. /\ q # r /\ pc'[q] = pc[q] /\ snap'[q] = snap[q] /\ read'[q] = read[q]
        /\ key[q] \in Keys
    BY <1>0 DEF Finish, TypeOK
  <2>2. /\ read[q] = RowsOf(key[q])
        /\ pc[q] = "deleteLock" => snap[q] = RowsOf(key[q])
    BY <2>1 DEF IInv, HeldIsCurrent
  <2>3. Held(q) = read[q]
    BY <2>1 DEF Held
  <2>4. key[q] # k
    <3>1. CASE q \in Voters
      BY <1>2, <2>1, <3>1
    <3>2. CASE read[q] # {}
      BY <1>0, <1>1, <2>1, <2>2, <2>3, <3>2 DEF Unlocked
    <3> QED
      BY <2>1, <3>1, <3>2
  <2> QED
    BY <1>0, <1>1, <2>1, <2>2, <2>4
<1>10. OneSelection'
  BY <1>0, <1>1, <1>3 DEF IInv, OneSelection, RowsIn
<1>11. SingleChoiceHonoured'
  <2>1. ValidSelection(k[2], sel[r])
    BY <1>0 DEF IInv, Validated
  <2>2. k[2] \in SingleChoice => \A a, b \in sel[r] : a = b
    BY <1>0, <2>1, FS_Subset, FS_Singleton DEF ValidSelection, TypeOK
  <2>3. OptionIDs(Inserted(r, k)) \subseteq OptionsOf[k[2]]
    BY <2>1 DEF OptionIDs, Inserted, ValidSelection
  <2>4. k[2] \in SingleChoice => \A a, b \in Inserted(r, k) : a.opt = b.opt
    BY <2>2 DEF Inserted
  <2> SUFFICES ASSUME NEW j \in Keys
               PROVE  /\ OptionIDs(RowsIn(votes', j)) \subseteq OptionsOf[j[2]]
                      /\ j[2] \in SingleChoice =>
                           \A a, b \in RowsIn(votes', j) : a.opt = b.opt
    BY DEF SingleChoiceHonoured, OptionIDs
  <2>5. CASE j = k
    BY <1>1, <2>3, <2>4, <2>5
  <2>6. CASE j # k
    BY <1>1, <2>6 DEF IInv, SingleChoiceHonoured
  <2> QED
    BY <2>5, <2>6
<1>12. ReadsWholeSelection'
  BY <1>0 DEF IInv, ReadsWholeSelection, Finish, TypeOK
<1> QED
  BY <1>4, <1>5, <1>6, <1>7, <1>8, <1>9, <1>10, <1>11, <1>12 DEF IInv

\* A commit of a RemoveVote keeps the invariant.
LEMMA DeleteStep ==
  ASSUME IInv, TypeOK', NEW r \in Removers, DeleteUserVote(r)
  PROVE  IInv'
<1> DEFINE k == key[r]
<1> USE VoteAssumption
<1>0. /\ pc[r] = "deleteLock" /\ key' = key /\ Finish(r, "done") /\ Unlocked(r)
      /\ TypeOK /\ k \in Keys /\ r \notin Readers
  BY DEF IInv, DeleteUserVote, TypeOK
<1>1. CASE votes' = votes
  BY <1>0, <1>1, FinishStep
<1>2. CASE /\ snap[r] = RowsOf(k)
           /\ votes' = votes \ RowsOf(k)
           /\ RowsIn(votes', k) = {}
           /\ \A j \in Keys : j # k => RowsIn(votes', j) = RowsOf(j)
  <2>1. \A j \in Keys : RowsIn(votes', j) \subseteq RowsOf(j)
    BY <1>2
  <2>4. StagesOfKinds'
    BY <1>0 DEF IInv, StagesOfKinds, Finish, TypeOK
  <2>5. LockHeld'
    BY <1>0 DEF IInv, LockHeld, Finish, TypeOK
  <2>6. Validated'
    BY <1>0 DEF IInv, Validated, Finish, TypeOK, ValidSelection
  <2>7. FreshRows'
    BY <1>0, <1>2 DEF IInv, FreshRows, Finish, TypeOK
  <2>8. SnapshotWholeOrGone'
    <3> SUFFICES ASSUME NEW q \in Requests, pc'[q] \in {"selectLock", "deleteLock"}
                 PROVE  /\ \/ snap'[q] \cap votes' = {}
                           \/ snap'[q] = RowsIn(votes', key[q])
                        /\ q \in Voters => RowsIn(votes', key[q]) \subseteq snap'[q]
      BY <1>0 DEF SnapshotWholeOrGone
    <3>1. q # r /\ pc'[q] = pc[q] /\ snap'[q] = snap[q] /\ key[q] \in Keys
      BY <1>0 DEF Finish, TypeOK
    <3>2. /\ snap[q] \cap votes = {} \/ snap[q] = RowsOf(key[q])
          /\ q \in Voters => RowsOf(key[q]) \subseteq snap[q]
      BY <3>1 DEF IInv, SnapshotWholeOrGone
    <3>3. CASE key[q] = k
      BY <1>0, <1>2, <3>1, <3>2, <3>3
    <3>4. CASE key[q] # k
      BY <1>0, <1>2, <3>1, <3>2, <3>4
    <3> QED
      BY <3>3, <3>4
  <2>9. HeldIsCurrent'
    <3> SUFFICES ASSUME NEW q \in Voters \cup Removers,
                        q \in Voters \/ read'[q] # {},
                        pc'[q] \in {"write", "deleteLock"}
                 PROVE  /\ read'[q] = RowsIn(votes', key[q])
                        /\ pc'[q] = "deleteLock" => snap'[q] = RowsIn(votes', key[q])
      BY <1>0 DEF HeldIsCurrent
    <3>1. /\ q # r /\ pc'[q] = pc[q] /\ snap'[q] = snap[q] /\ read'[q] = read[q]
          /\ key[q] \in Keys
      BY <1>0 DEF Finish, TypeOK
    <3>2. /\ read[q] = RowsOf(key[q])
          /\ pc[q] = "deleteLock" => snap[q] = RowsOf(key[q])
      BY <3>1 DEF IInv, HeldIsCurrent
    <3>3. Held(q) = read[q]
      BY <3>1 DEF Held
    <3>4. key[q] = k => RowsOf(k) = {}
      BY <1>0, <1>2, <3>1, <3>2, <3>3 DEF Unlocked
    <3> QED
      BY <1>0, <1>2, <3>1, <3>2, <3>4
  <2>10. OneSelection'
    BY <1>2 DEF IInv, OneSelection
  <2>11. SingleChoiceHonoured'
    BY <2>1 DEF IInv, SingleChoiceHonoured, OptionIDs
  <2>12. ReadsWholeSelection'
    BY <1>0 DEF IInv, ReadsWholeSelection, Finish, TypeOK
  <2> QED
    BY <2>4, <2>5, <2>6, <2>7, <2>8, <2>9, <2>10, <2>11, <2>12 DEF IInv
<1> QED
  BY <1>1, <1>2, DeleteRows

\* Every step keeps the invariant.
LEMMA InvStep == IInv /\ [Next]_vars => IInv'
<1> SUFFICES ASSUME IInv, [Next]_vars PROVE IInv'
  OBVIOUS
<1>0. TypeOK /\ TypeOK'
  BY TypeStep DEF IInv
<1> USE <1>0, VoteAssumption
<1>1. ASSUME NEW r \in Voters, NEW S \in SUBSET Options, CallVote(r, S)
      PROVE  IInv'
  <2> USE <1>1 DEF CallVote, IInv, TypeOK
  <2>1. StagesOfKinds' /\ LockHeld' /\ Validated'
    BY DEF StagesOfKinds, LockHeld, Validated, ValidSelection
  <2>2. FreshRows' /\ SnapshotWholeOrGone' /\ HeldIsCurrent'
    BY DEF FreshRows, SnapshotWholeOrGone, HeldIsCurrent
  <2> QED
    BY <2>1, <2>2, TableUnchanged DEF ReadsWholeSelection
<1>2. ASSUME NEW r \in Removers \cup Readers, CallSelect(r)
      PROVE  IInv'
  <2> USE <1>2 DEF CallSelect, IInv, TypeOK
  <2>1. StagesOfKinds' /\ LockHeld' /\ Validated'
    BY DEF StagesOfKinds, LockHeld, Validated, ValidSelection
  <2>2. FreshRows' /\ SnapshotWholeOrGone' /\ HeldIsCurrent'
    BY DEF FreshRows, SnapshotWholeOrGone, HeldIsCurrent
  <2> QED
    BY <2>1, <2>2, TableUnchanged DEF ReadsWholeSelection
<1>3. ASSUME NEW r \in Requests, LockUserVote(r)
      PROVE  IInv'
  <2> USE <1>3 DEF LockUserVote, IInv, TypeOK
  <2>1. StagesOfKinds' /\ LockHeld' /\ Validated'
    BY DEF StagesOfKinds, LockHeld, Validated, ValidSelection
  <2>2. FreshRows' /\ SnapshotWholeOrGone' /\ HeldIsCurrent'
    BY DEF FreshRows, SnapshotWholeOrGone, HeldIsCurrent
  <2> QED
    BY <2>1, <2>2, TableUnchanged DEF ReadsWholeSelection
<1>4. ASSUME NEW r \in Requests, ValidateSelectedOptions(r)
      PROVE  IInv'
  <2>1. CASE /\ ValidSelection(key[r][2], sel[r])
             /\ pc' = [pc EXCEPT ![r] = "select"]
             /\ UNCHANGED <<votes, outbox, lockOwner, key, sel, snap, read>>
    <3> USE <1>4, <2>1 DEF ValidateSelectedOptions, IInv, TypeOK
    <3>1. StagesOfKinds' /\ LockHeld' /\ Validated'
      BY DEF StagesOfKinds, LockHeld, Validated, ValidSelection
    <3>2. FreshRows' /\ SnapshotWholeOrGone' /\ HeldIsCurrent'
      BY DEF FreshRows, SnapshotWholeOrGone, HeldIsCurrent
    <3> QED
      BY <3>1, <3>2, TableUnchanged DEF ReadsWholeSelection
  <2>2. CASE Finish(r, "failed") /\ UNCHANGED <<votes, outbox, key>>
    BY <1>4, <2>2, FinishStep DEF ValidateSelectedOptions
  <2> QED
    BY <1>4, <2>1, <2>2 DEF ValidateSelectedOptions
<1>5. ASSUME NEW r \in Requests, SelectSnapshot(r)
      PROVE  IInv'
  <2> USE <1>5 DEF SelectSnapshot, IInv, TypeOK
  <2>1. StagesOfKinds' /\ LockHeld' /\ Validated'
    BY DEF StagesOfKinds, LockHeld, Validated, ValidSelection
  <2>2. FreshRows'
    BY DEF FreshRows, RowsIn
  <2>3. SnapshotWholeOrGone' /\ HeldIsCurrent'
    BY DEF SnapshotWholeOrGone, HeldIsCurrent
  <2> QED
    BY <2>1, <2>2, <2>3, TableUnchanged DEF ReadsWholeSelection
<1>6. ASSUME NEW r \in Requests, GetUserVote(r)
      PROVE  IInv'
  <2> USE <1>6 DEF GetUserVote, IInv, TypeOK
  <2>0. /\ \/ read'[r] = {}
           \/ read'[r] = RowsOf(key[r]) /\ snap[r] = RowsOf(key[r])
        /\ r \in Voters => read'[r] = RowsOf(key[r])
    BY DEF SnapshotWholeOrGone, RowsIn
  <2>1. StagesOfKinds' /\ LockHeld' /\ Validated'
    BY DEF StagesOfKinds, LockHeld, Validated, ValidSelection
  <2>2. FreshRows'
    BY DEF FreshRows
  <2>3. SnapshotWholeOrGone' /\ HeldIsCurrent'
    BY <2>0 DEF SnapshotWholeOrGone, HeldIsCurrent
  <2>4. ReadsWholeSelection'
    BY <2>0 DEF ReadsWholeSelection, OneSelection, RowsIn
  <2>5. OneSelection' /\ SingleChoiceHonoured'
    BY TableUnchanged
  <2> QED
    BY <2>1, <2>2, <2>3, <2>4, <2>5
<1>7. ASSUME NEW r \in Requests, KeepUserVote(r)
      PROVE  IInv'
  BY <1>7, FinishStep DEF KeepUserVote
<1>8. ASSUME NEW r \in Requests, DeleteSnapshot(r)
      PROVE  IInv'
  <2> USE <1>8 DEF DeleteSnapshot, IInv, TypeOK
  <2>1. StagesOfKinds' /\ LockHeld' /\ Validated'
    BY DEF StagesOfKinds, LockHeld, Validated, ValidSelection
  <2>2. FreshRows'
    BY DEF FreshRows, RowsIn
  <2>3. SnapshotWholeOrGone' /\ HeldIsCurrent'
    BY DEF SnapshotWholeOrGone, HeldIsCurrent, StagesOfKinds
  <2>4. ReadsWholeSelection'
    BY DEF ReadsWholeSelection, StagesOfKinds
  <2>5. OneSelection' /\ SingleChoiceHonoured'
    BY TableUnchanged
  <2> QED
    BY <2>1, <2>2, <2>3, <2>4, <2>5
<1>9. ASSUME NEW r \in Requests, ReplaceUserVote(r)
      PROVE  IInv'
  BY <1>9, ReplaceStep DEF ReplaceUserVote
<1>10. ASSUME NEW r \in Requests, DeleteUserVote(r)
       PROVE  IInv'
  BY <1>10, DeleteStep DEF DeleteUserVote
<1>11. ASSUME NEW r \in Requests, Rollback(r)
       PROVE  IInv'
  BY <1>11, FinishStep DEF Rollback
<1>12. CASE UNCHANGED vars
  BY <1>12, TableUnchanged
     DEF vars, IInv, StagesOfKinds, LockHeld, Validated, FreshRows,
         SnapshotWholeOrGone, HeldIsCurrent, ReadsWholeSelection, ValidSelection
<1> QED
  BY <1>1, <1>2, <1>3, <1>4, <1>5, <1>6, <1>7, <1>8, <1>9, <1>10, <1>11, <1>12
     DEF Next, Progress, Quiescent

LEMMA InvInit == Init => IInv
  BY VoteAssumption
     DEF Init, IInv, TypeOK, StagesOfKinds, LockHeld, Validated, FreshRows,
         SnapshotWholeOrGone, HeldIsCurrent, OneSelection, SingleChoiceHonoured,
         ReadsWholeSelection, RowsIn, OptionIDs, ValidSelection

\* The inductive invariant: the locks, snapshots and rows of all requests fit
\* together in every reachable state.
THEOREM InvCorrect == Spec => []IInv
  BY InvInit, InvStep, PTL DEF Spec

\* Whatever requests of a user race, the selection that stays is the work of
\* one Vote: never a mixture of two.
THEOREM OneSelectionCorrect == Spec => []OneSelection
<1>1. IInv => OneSelection
  BY DEF IInv
<1> QED
  BY <1>1, InvCorrect, PTL

\* A single choice poll never holds two options of one user.
THEOREM SingleChoiceCorrect == Spec => []SingleChoiceHonoured
<1>1. IInv => SingleChoiceHonoured
  BY DEF IInv
<1> QED
  BY <1>1, InvCorrect, PTL

\* The difference a Vote reports is the difference it makes: what it read
\* stays current until it commits.
THEOREM DiffCorrect == Spec => []DiffIsCurrent
<1>1. IInv => DiffIsCurrent
  BY DEF IInv, HeldIsCurrent, DiffIsCurrent
<1> QED
  BY <1>1, InvCorrect, PTL

\* A RemoveVote reports all it deletes or, where it overlapped a Vote of the
\* same user, nothing.
THEOREM RemovalCorrect == Spec => []RemovalWholeOrLost
<1>1. IInv => RemovalWholeOrLost
  BY DEF IInv, HeldIsCurrent, RemovalWholeOrLost
<1> QED
  BY <1>1, InvCorrect, PTL

\* GetUserVote answers with a whole selection of one Vote, or with nothing.
THEOREM ReadsCorrect == Spec => []ReadsWholeSelection
<1>1. IInv => ReadsWholeSelection
  BY DEF IInv
<1> QED
  BY <1>1, InvCorrect, PTL

-----------------------------------------------------------------------------
\* The service implements the ledger.

\* A step that leaves table and outbox alone is no step of the ledger.
LEMMA LedgerStutters ==
  ASSUME UNCHANGED <<votes, outbox>>
  PROVE  UNCHANGED Ledger!ledgerVars
  BY DEF Ledger!ledgerVars, Selection, RowsIn

\* The commit of a Vote is the ledger's Change.
LEMMA ReplaceIsChange ==
  ASSUME IInv, NEW r \in Voters, ReplaceUserVote(r)
  PROVE  Ledger!Change(r, key[r], sel[r])
<1> DEFINE k == key[r]
<1>1. k \in Keys /\ sel[r] # {}
  BY DEF IInv, TypeOK, Validated, ReplaceUserVote
<1>2. OptionIDs(read[r]) = Selection[k]
  BY <1>1 DEF IInv, HeldIsCurrent, ReplaceUserVote, Selection
<1>3. OptionIDs(Inserted(r, k)) = sel[r]
  <2>1. \A o \in sel[r] : [key |-> k, opt |-> o, by |-> r] \in Inserted(r, k)
    BY DEF Inserted
  <2>2. \A row \in Inserted(r, k) : row.opt \in sel[r]
    BY DEF Inserted
  <2>3. \A o \in sel[r] : \E row \in Inserted(r, k) : row.opt = o
    BY <2>1
  <2> QED
    BY <2>2, <2>3 DEF OptionIDs
<1>4. Selection' = [Selection EXCEPT ![k] = sel[r]]
  BY <1>1, <1>3, CommitRows DEF Selection
<1>5. outbox' = outbox \cup Ledger!Removed(r, k, Selection[k] \ sel[r])
                       \cup Ledger!Cast(r, k, sel[r] \ Selection[k])
  BY <1>2 DEF ReplaceUserVote
<1> QED
  BY <1>1, <1>4, <1>5 DEF Ledger!Change

\* The commit of a RemoveVote is the ledger's Remove, the loss of a removal,
\* or nothing.
LEMMA DeleteIsRemove ==
  ASSUME IInv, NEW r \in Removers, DeleteUserVote(r)
  PROVE  \/ Ledger!Remove(r, key[r])
         \/ Ledger!LoseRemoval(key[r])
         \/ UNCHANGED Ledger!ledgerVars
<1> DEFINE k == key[r]
<1>1. k \in Keys /\ pc[r] = "deleteLock"
  BY DEF IInv, TypeOK, DeleteUserVote
<1>2. read[r] # {} => read[r] = RowsOf(k) /\ snap[r] = RowsOf(k)
  BY <1>1 DEF IInv, HeldIsCurrent
<1>3. outbox' = outbox \cup Ledger!Removed(r, k, OptionIDs(read[r]))
  BY DEF DeleteUserVote
<1>4. read[r] = {} => outbox' = outbox
  BY <1>3 DEF OptionIDs, Ledger!Removed
<1>5. CASE votes' = votes
  <2>1. CASE read[r] = {}
    BY <1>4, <1>5, <2>1, LedgerStutters
  <2>2. CASE read[r] # {}
    BY <1>2, <1>5, <2>2 DEF DeleteUserVote, RowsIn
  <2> QED
    BY <2>1, <2>2
<1>6. CASE /\ RowsIn(votes', k) = {}
           /\ \A j \in Keys : j # k => RowsIn(votes', j) = RowsOf(j)
  <2>1. OptionIDs({}) = {}
    BY DEF OptionIDs
  <2>2. Selection' = [Selection EXCEPT ![k] = {}]
    BY <1>1, <1>6, <2>1 DEF Selection
  <2>3. CASE read[r] = {}
    BY <1>1, <1>4, <2>2, <2>3 DEF Ledger!LoseRemoval
  <2>4. CASE read[r] # {}
    <3>1. OptionIDs(read[r]) = Selection[k]
      BY <1>1, <1>2, <2>4 DEF Selection
    <3> QED
      BY <1>3, <2>2, <3>1 DEF Ledger!Remove
  <2> QED
    BY <2>3, <2>4
<1> QED
  BY <1>5, <1>6, DeleteRows

\* Every step of the service is a step of the ledger or no step of it.
LEMMA RefinementStep ==
  ASSUME IInv, [Next]_vars
  PROVE  [Ledger!Next]_(Ledger!ledgerVars)
<1>1. ASSUME NEW r \in Voters, NEW S \in SUBSET Options, CallVote(r, S)
      PROVE  UNCHANGED <<votes, outbox>>
  BY <1>1 DEF CallVote
<1>2. ASSUME NEW r \in Removers \cup Readers, CallSelect(r)
      PROVE  UNCHANGED <<votes, outbox>>
  BY <1>2 DEF CallSelect
<1>3. ASSUME NEW r \in Requests,
             \/ LockUserVote(r) \/ ValidateSelectedOptions(r)
             \/ SelectSnapshot(r) \/ GetUserVote(r) \/ KeepUserVote(r)
             \/ DeleteSnapshot(r) \/ Rollback(r)
      PROVE  UNCHANGED <<votes, outbox>>
  BY <1>3 DEF LockUserVote, ValidateSelectedOptions, SelectSnapshot,
              GetUserVote, KeepUserVote, DeleteSnapshot, Rollback
<1>4. ASSUME NEW r \in Requests, ReplaceUserVote(r)
      PROVE  Ledger!Next
  <2>1. r \in Voters /\ key[r] \in Keys /\ sel[r] \in SUBSET Options
    BY <1>4 DEF ReplaceUserVote, IInv, TypeOK
  <2> QED
    BY <1>4, <2>1, ReplaceIsChange DEF Ledger!Next
<1>5. ASSUME NEW r \in Requests, DeleteUserVote(r)
      PROVE  Ledger!Next \/ UNCHANGED Ledger!ledgerVars
  <2>1. r \in Removers /\ key[r] \in Keys
    BY <1>5 DEF DeleteUserVote, IInv, TypeOK
  <2> QED
    BY <1>5, <2>1, DeleteIsRemove DEF Ledger!Next
<1>6. CASE UNCHANGED vars
  BY <1>6, LedgerStutters DEF vars
<1> QED
  BY <1>1, <1>2, <1>3, <1>4, <1>5, <1>6, LedgerStutters
     DEF Next, Progress, Quiescent, vars

\* The table and the outbox, whatever requests race and fail, change together
\* and by the difference: the service is the ledger the platform builds on.
THEOREM Refinement == Spec => ImplementsLedger
<1>1. Init => Ledger!Init
  BY DEF Init, Ledger!Init, Selection, RowsIn, OptionIDs
<1>2. IInv /\ [Next]_vars => [Ledger!Next]_(Ledger!ledgerVars)
  BY RefinementStep
<1> QED
  BY <1>1, <1>2, InvCorrect, PTL DEF Spec, ImplementsLedger, Ledger!Spec
-----------------------------------------------------------------------------
\* The events and the table.

\* The events of a set that are of a topic, a key and an option.
Matching(E, topic, k, o) == {e \in E : e.topic = topic /\ e.key = k /\ o \in e.opts}

\* The events of a request that has none yet count one for each of its options,
\* under its key alone.
LEMMA CountAdded ==
  ASSUME NEW E, IsFiniteSet(E), NEW r, NEW k, NEW S, NEW T, NEW j, NEW o,
         \A e \in E : e.by # r
  PROVE  LET F == E \cup Ledger!Removed(r, k, S) \cup Ledger!Cast(r, k, T) IN
         /\ IsFiniteSet(F)
         /\ Cardinality(Matching(F, Ledger!TopicVoteRemoved, j, o)) =
              Cardinality(Matching(E, Ledger!TopicVoteRemoved, j, o))
                + (IF j = k /\ o \in S THEN 1 ELSE 0)
         /\ Cardinality(Matching(F, Ledger!TopicVoteCast, j, o)) =
              Cardinality(Matching(E, Ledger!TopicVoteCast, j, o))
                + (IF j = k /\ o \in T THEN 1 ELSE 0)
<1> DEFINE rem == [by |-> r, topic |-> "vote.removed", key |-> k, opts |-> S]
           cast == [by |-> r, topic |-> "vote.cast", key |-> k, opts |-> T]
           F == E \cup Ledger!Removed(r, k, S) \cup Ledger!Cast(r, k, T)
           R == Matching(E, "vote.removed", j, o)
           C == Matching(E, "vote.cast", j, o)
<1>1. Ledger!Removed(r, k, S) = IF S = {} THEN {} ELSE {rem}
  BY DEF Ledger!Removed, Ledger!TopicVoteRemoved
<1>2. Ledger!Cast(r, k, T) = IF T = {} THEN {} ELSE {cast}
  BY DEF Ledger!Cast, Ledger!TopicVoteCast
<1>3. IsFiniteSet(E \cup {rem}) /\ IsFiniteSet(E \cup {cast})
  BY FS_AddElement
<1>4. IsFiniteSet((E \cup {rem}) \cup {cast})
  BY <1>3, FS_AddElement
<1>5. IsFiniteSet(F)
  <2>1. F \in SUBSET ((E \cup {rem}) \cup {cast})
    BY <1>1, <1>2
  <2> QED
    BY <1>4, <2>1, FS_Subset
<1>6. /\ IsFiniteSet(R) /\ Cardinality(R) \in Nat
      /\ IsFiniteSet(C) /\ Cardinality(C) \in Nat
  <2>1. R \in SUBSET E /\ C \in SUBSET E
    BY DEF Matching
  <2> QED
    BY <2>1, FS_Subset, FS_CardinalityType
<1>7. rem \notin R /\ cast \notin C
  BY DEF Matching
<1>8. Matching(F, "vote.removed", j, o) = IF j = k /\ o \in S THEN R \cup {rem} ELSE R
  BY <1>1, <1>2 DEF Matching
<1>9. Matching(F, "vote.cast", j, o) = IF j = k /\ o \in T THEN C \cup {cast} ELSE C
  BY <1>1, <1>2 DEF Matching
<1>10. /\ Cardinality(R \cup {rem}) = Cardinality(R) + 1
       /\ Cardinality(C \cup {cast}) = Cardinality(C) + 1
  BY <1>6, <1>7, FS_AddElement
<1>11. Cardinality(Matching(F, "vote.removed", j, o)) =
         Cardinality(R) + (IF j = k /\ o \in S THEN 1 ELSE 0)
  BY <1>6, <1>8, <1>10
<1>12. Cardinality(Matching(F, "vote.cast", j, o)) =
         Cardinality(C) + (IF j = k /\ o \in T THEN 1 ELSE 0)
  BY <1>6, <1>9, <1>10
<1> QED
  BY <1>5, <1>11, <1>12 DEF Ledger!TopicVoteRemoved, Ledger!TopicVoteCast

\* What the table holds of an option, as EventsMatchVotes counts it.
HeldOf(table, k, o) == IF o \in OptionIDs(RowsIn(table, k)) THEN 1 ELSE 0

NetIn(E, k, o) ==
  Cardinality(Matching(E, Ledger!TopicVoteCast, k, o))
    - Cardinality(Matching(E, Ledger!TopicVoteRemoved, k, o))

LEMMA NetType ==
  ASSUME NEW E, IsFiniteSet(E), NEW k, NEW o
  PROVE  NetIn(E, k, o) \in Int
<1>1. ASSUME NEW topic
      PROVE  Cardinality(Matching(E, topic, k, o)) \in Nat
  <2>1. Matching(E, topic, k, o) \in SUBSET E
    BY DEF Matching
  <2> QED
    BY <2>1, FS_Subset, FS_CardinalityType
<1> QED
  BY <1>1 DEF NetIn

\* EventsMatchVotes, in these words.
LEMMA EventsMatchVotesIs ==
  /\ EventsMatchVotes <=>
       \A k \in Keys, o \in Options :
         /\ NetIn(outbox, k, o) >= HeldOf(votes, k, o)
         /\ (\A r \in Removers : pc[r] = "idle") =>
              NetIn(outbox, k, o) = HeldOf(votes, k, o)
  /\ EventsMatchVotes' <=>
       \A k \in Keys, o \in Options :
         /\ NetIn(outbox', k, o) >= HeldOf(votes', k, o)
         /\ (\A r \in Removers : pc'[r] = "idle") =>
              NetIn(outbox', k, o) = HeldOf(votes', k, o)
  BY DEF EventsMatchVotes, Net, Reported, NetIn, HeldOf, Matching

\* A step that neither commits nor ends as "done" leaves the events as true as
\* they were.
LEMMA EventsUnchanged ==
  ASSUME EventsInv, UNCHANGED <<votes, outbox>>,
         \A r \in Requests : pc'[r] # "done" => pc[r] # "done",
         \A r \in Removers : pc'[r] = "idle" => pc[r] = "idle"
  PROVE  EventsInv'
<1>1. ReportsOnce'
  BY DEF EventsInv, ReportsOnce
<1>2. EventsMatchVotes'
  BY EventsMatchVotesIs DEF EventsInv
<1> QED
  BY <1>1, <1>2 DEF EventsInv

\* The commit of a Vote reports the difference it makes.
LEMMA ReplaceReports ==
  ASSUME IInv, EventsInv, NEW r \in Voters, ReplaceUserVote(r)
  PROVE  EventsInv'
<1> USE VoteAssumption
<1> DEFINE k == key[r]
           old == OptionIDs(RowsOf(k))
<1>1. /\ pc[r] = "deleteLock" /\ k \in Keys /\ TypeOK
      /\ pc' = [pc EXCEPT ![r] = "done"]
  BY DEF IInv, TypeOK, ReplaceUserVote, Finish
<1>2. OptionIDs(read[r]) = old
  BY <1>1 DEF IInv, HeldIsCurrent
<1>3. outbox' = outbox \cup Ledger!Removed(r, k, old \ sel[r])
                       \cup Ledger!Cast(r, k, sel[r] \ old)
  BY <1>2 DEF ReplaceUserVote
<1>4. \A e \in outbox : e.by # r
  BY <1>1 DEF EventsInv, ReportsOnce
<1>5. IsFiniteSet(outbox) /\ IsFiniteSet(outbox')
  BY <1>3, <1>4, CountAdded DEF EventsInv
<1>6. ReportsOnce'
  <2>1. \A e \in outbox' : e \in outbox \/ e.by = r
    BY <1>3 DEF Ledger!Removed, Ledger!Cast
  <2> QED
    BY <1>1, <2>1 DEF ReportsOnce, EventsInv, TypeOK
<1>7. OptionIDs(RowsIn(votes', k)) = sel[r]
  <2>1. RowsIn(votes', k) = Inserted(r, k)
    BY CommitRows
  <2>2. \A o \in sel[r] : [key |-> k, opt |-> o, by |-> r] \in Inserted(r, k)
    BY DEF Inserted
  <2>3. \A row \in Inserted(r, k) : row.opt \in sel[r]
    BY DEF Inserted
  <2>4. \A o \in sel[r] : \E row \in Inserted(r, k) : row.opt = o
    BY <2>2
  <2> QED
    BY <2>1, <2>3, <2>4 DEF OptionIDs
<1>8. ASSUME NEW j \in Keys, NEW o \in Options
      PROVE  NetIn(outbox', j, o) - NetIn(outbox, j, o)
               = HeldOf(votes', j, o) - HeldOf(votes, j, o)
  <2>1. NetIn(outbox', j, o) = NetIn(outbox, j, o)
          + (IF j = k /\ o \in sel[r] \ old THEN 1 ELSE 0)
          - (IF j = k /\ o \in old \ sel[r] THEN 1 ELSE 0)
    <3> DEFINE C == Cardinality(Matching(outbox, Ledger!TopicVoteCast, j, o))
               R == Cardinality(Matching(outbox, Ledger!TopicVoteRemoved, j, o))
    <3>1. C \in Nat /\ R \in Nat
      <4>1. /\ Matching(outbox, Ledger!TopicVoteCast, j, o) \in SUBSET outbox
            /\ Matching(outbox, Ledger!TopicVoteRemoved, j, o) \in SUBSET outbox
        BY DEF Matching
      <4> QED
        BY <1>5, <4>1, FS_Subset, FS_CardinalityType
    <3>2. /\ Cardinality(Matching(outbox', Ledger!TopicVoteRemoved, j, o))
               = R + (IF j = k /\ o \in old \ sel[r] THEN 1 ELSE 0)
          /\ Cardinality(Matching(outbox', Ledger!TopicVoteCast, j, o))
               = C + (IF j = k /\ o \in sel[r] \ old THEN 1 ELSE 0)
      BY <1>3, <1>4, <1>5, CountAdded
    <3> HIDE DEF C, R
    <3>3. NetIn(outbox, j, o) = C - R
      BY DEF NetIn, C, R
    <3>4. NetIn(outbox', j, o)
            = (C + (IF j = k /\ o \in sel[r] \ old THEN 1 ELSE 0))
               - (R + (IF j = k /\ o \in old \ sel[r] THEN 1 ELSE 0))
      BY <3>2 DEF NetIn
    <3> QED
      BY <3>1, <3>3, <3>4
  <2>2. NetIn(outbox, j, o) \in Int
    BY <1>5, NetType
  <2>3. CASE j = k
    <3>1. /\ HeldOf(votes', j, o) = IF o \in sel[r] THEN 1 ELSE 0
          /\ HeldOf(votes, j, o) = IF o \in old THEN 1 ELSE 0
      BY <1>7, <2>3 DEF HeldOf
    <3> QED
      BY <2>1, <2>2, <2>3, <3>1
  <2>4. CASE j # k
    <3>1. HeldOf(votes', j, o) = HeldOf(votes, j, o)
      BY <2>4, CommitRows DEF HeldOf
    <3>2. HeldOf(votes, j, o) \in Int
      BY DEF HeldOf
    <3>3. NetIn(outbox', j, o) = NetIn(outbox, j, o)
      BY <2>1, <2>2, <2>4
    <3> QED
      BY <2>2, <3>1, <3>2, <3>3
  <2> QED
    BY <2>3, <2>4
<1>9. EventsMatchVotes'
  <2> SUFFICES ASSUME NEW j \in Keys, NEW o \in Options
               PROVE  /\ NetIn(outbox', j, o) >= HeldOf(votes', j, o)
                      /\ (\A q \in Removers : pc'[q] = "idle") =>
                           NetIn(outbox', j, o) = HeldOf(votes', j, o)
    BY EventsMatchVotesIs
  <2>1. /\ NetIn(outbox, j, o) \in Int /\ NetIn(outbox', j, o) \in Int
        /\ HeldOf(votes, j, o) \in Int /\ HeldOf(votes', j, o) \in Int
    BY <1>5, NetType DEF HeldOf
  <2>2. /\ NetIn(outbox, j, o) >= HeldOf(votes, j, o)
        /\ (\A q \in Removers : pc[q] = "idle") =>
             NetIn(outbox, j, o) = HeldOf(votes, j, o)
    BY EventsMatchVotesIs DEF EventsInv
  <2>3. (\A q \in Removers : pc'[q] = "idle") => \A q \in Removers : pc[q] = "idle"
    BY <1>1 DEF TypeOK
  <2> QED
    BY <1>8, <2>1, <2>2, <2>3
<1> QED
  BY <1>5, <1>6, <1>9 DEF EventsInv

\* The commit of a RemoveVote reports what it deletes, or less.
LEMMA DeleteReports ==
  ASSUME IInv, EventsInv, NEW r \in Removers, DeleteUserVote(r)
  PROVE  EventsInv'
<1> USE VoteAssumption
<1> DEFINE k == key[r]
           S == OptionIDs(read[r])
<1>1. /\ pc[r] = "deleteLock" /\ k \in Keys /\ TypeOK
      /\ pc' = [pc EXCEPT ![r] = "done"]
  BY DEF IInv, TypeOK, DeleteUserVote, Finish
<1>2. outbox' = outbox \cup Ledger!Removed(r, k, S) \cup Ledger!Cast(r, k, {})
  BY DEF DeleteUserVote, Ledger!Cast
<1>3. \A e \in outbox : e.by # r
  BY <1>1 DEF EventsInv, ReportsOnce
<1>4. IsFiniteSet(outbox) /\ IsFiniteSet(outbox')
  BY <1>2, <1>3, CountAdded DEF EventsInv
<1>5. ReportsOnce'
  <2>1. \A e \in outbox' : e \in outbox \/ e.by = r
    BY <1>2 DEF Ledger!Removed, Ledger!Cast
  <2> QED
    BY <1>1, <2>1 DEF ReportsOnce, EventsInv, TypeOK
<1>6. \A o \in S : HeldOf(votes, k, o) = 1 /\ HeldOf(votes', k, o) = 0
  <2>1. CASE read[r] = {}
    BY <2>1 DEF OptionIDs
  <2>2. CASE read[r] # {}
    <3>1. read[r] = RowsOf(k) /\ snap[r] = RowsOf(k)
      BY <1>1, <2>2 DEF IInv, HeldIsCurrent
    <3>2. RowsIn(votes', k) = {}
      BY <3>1 DEF DeleteUserVote, RowsIn
    <3> QED
      BY <3>1, <3>2 DEF HeldOf, OptionIDs
  <2> QED
    BY <2>1, <2>2
<1>7. ASSUME NEW j \in Keys, NEW o \in Options
      PROVE  NetIn(outbox', j, o) >= HeldOf(votes', j, o)
  <2>1. /\ NetIn(outbox, j, o) \in Int
        /\ HeldOf(votes, j, o) \in {0, 1} /\ HeldOf(votes', j, o) \in {0, 1}
        /\ NetIn(outbox, j, o) >= HeldOf(votes, j, o)
    BY <1>4, NetType, EventsMatchVotesIs DEF HeldOf, EventsInv
  <2>2. NetIn(outbox', j, o) = NetIn(outbox, j, o)
          - (IF j = k /\ o \in S THEN 1 ELSE 0)
    <3> DEFINE C == Cardinality(Matching(outbox, Ledger!TopicVoteCast, j, o))
               R == Cardinality(Matching(outbox, Ledger!TopicVoteRemoved, j, o))
    <3>1. C \in Nat /\ R \in Nat
      <4>1. /\ Matching(outbox, Ledger!TopicVoteCast, j, o) \in SUBSET outbox
            /\ Matching(outbox, Ledger!TopicVoteRemoved, j, o) \in SUBSET outbox
        BY DEF Matching
      <4> QED
        BY <1>4, <4>1, FS_Subset, FS_CardinalityType
    <3>2. /\ Cardinality(Matching(outbox', Ledger!TopicVoteRemoved, j, o))
               = R + (IF j = k /\ o \in S THEN 1 ELSE 0)
          /\ Cardinality(Matching(outbox', Ledger!TopicVoteCast, j, o)) = C + 0
      BY <1>2, <1>3, <1>4, CountAdded
    <3> HIDE DEF C, R
    <3>3. NetIn(outbox, j, o) = C - R
      BY DEF NetIn, C, R
    <3>4. NetIn(outbox', j, o)
            = (C + 0) - (R + (IF j = k /\ o \in S THEN 1 ELSE 0))
      BY <3>2 DEF NetIn
    <3> QED
      BY <3>1, <3>3, <3>4
  <2>3. HeldOf(votes', j, o) <= HeldOf(votes, j, o)
    BY DEF DeleteUserVote, HeldOf, OptionIDs, RowsIn
  <2> QED
    BY <1>6, <2>1, <2>2, <2>3
<1>8. EventsMatchVotes'
  BY <1>1, <1>7, EventsMatchVotesIs DEF TypeOK
<1> QED
  BY <1>4, <1>5, <1>8 DEF EventsInv

LEMMA EventsStep == IInv /\ EventsInv /\ [Next]_vars => EventsInv'
<1> SUFFICES ASSUME IInv, EventsInv, [Next]_vars PROVE EventsInv'
  OBVIOUS
<1>0. TypeOK
  BY DEF IInv
<1>1. ASSUME NEW r \in Voters, NEW S \in SUBSET Options, CallVote(r, S)
      PROVE  EventsInv'
  BY <1>0, <1>1, EventsUnchanged DEF CallVote, TypeOK
<1>2. ASSUME NEW r \in Removers \cup Readers, CallSelect(r)
      PROVE  EventsInv'
  BY <1>0, <1>2, EventsUnchanged DEF CallSelect, TypeOK
<1>3. ASSUME NEW r \in Requests,
             \/ LockUserVote(r) \/ ValidateSelectedOptions(r)
             \/ SelectSnapshot(r) \/ GetUserVote(r) \/ KeepUserVote(r)
             \/ DeleteSnapshot(r) \/ Rollback(r)
      PROVE  EventsInv'
  <2>1. UNCHANGED <<votes, outbox>>
    BY <1>3 DEF LockUserVote, ValidateSelectedOptions, SelectSnapshot,
                GetUserVote, KeepUserVote, DeleteSnapshot, Rollback
  <2>2. /\ \A q \in Requests \ {r} : pc'[q] = pc[q]
        /\ pc[r] \notin {"done", "idle"} /\ pc'[r] # "idle"
    BY <1>0, <1>3
       DEF LockUserVote, ValidateSelectedOptions, SelectSnapshot, GetUserVote,
           KeepUserVote, DeleteSnapshot, Rollback, Finish, TypeOK
  <2> QED
    BY <2>1, <2>2, EventsUnchanged
<1>4. ASSUME NEW r \in Requests, ReplaceUserVote(r)
      PROVE  EventsInv'
  BY <1>4, ReplaceReports DEF ReplaceUserVote
<1>5. ASSUME NEW r \in Requests, DeleteUserVote(r)
      PROVE  EventsInv'
  BY <1>5, DeleteReports DEF DeleteUserVote
<1>6. CASE UNCHANGED vars
  BY <1>6, EventsUnchanged DEF vars
<1> QED
  BY <1>1, <1>2, <1>3, <1>4, <1>5, <1>6 DEF Next, Progress, Quiescent, vars

LEMMA EventsInit == Init => EventsInv
<1> SUFFICES ASSUME Init PROVE EventsInv
  OBVIOUS
<1>1. IsFiniteSet(outbox) /\ ReportsOnce
  BY FS_EmptySet DEF Init, ReportsOnce
<1>2. ASSUME NEW k \in Keys, NEW o \in Options
      PROVE  NetIn(outbox, k, o) = 0 /\ HeldOf(votes, k, o) = 0
  <2>1. \A topic : Matching(outbox, topic, k, o) = {}
    BY DEF Init, Matching
  <2>2. HeldOf(votes, k, o) = 0
    BY DEF Init, HeldOf, RowsIn, OptionIDs
  <2> QED
    BY <2>1, <2>2, FS_EmptySet DEF NetIn
<1>3. EventsMatchVotes
  BY <1>2, EventsMatchVotesIs
<1> QED
  BY <1>1, <1>3 DEF EventsInv

\* Whatever requests race, the events never claim fewer votes than the table
\* holds, and add up to it exactly as long as nobody calls RemoveVote.
THEOREM EventsCorrect == Spec => []EventsMatchVotes
<1>1. IInv /\ EventsInv /\ [Next]_vars => EventsInv'
  BY EventsStep
<1>2. EventsInv => EventsMatchVotes
  BY DEF EventsInv
<1> QED
  BY <1>1, <1>2, EventsInit, InvCorrect, PTL DEF Spec
=============================================================================
