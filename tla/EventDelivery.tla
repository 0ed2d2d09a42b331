--------------------------- MODULE EventDelivery ----------------------------
(***************************************************************************)
(* What the event pipeline promises to a consuming service: an event takes *)
(* effect only if the transaction that wrote it to the outbox committed,   *)
(* and it takes effect once, however often it is published or delivered.   *)
(***************************************************************************)
EXTENDS Naturals

CONSTANTS
  Txs,      \* the producing transactions
  Events,   \* the events they write to the outbox
  TxOf      \* [Events -> Txs]

VARIABLES
  committed,  \* the transactions that committed
  effects     \* [Events -> how often the event took effect]

deliveryVars == <<committed, effects>>

Init ==
  /\ committed = {}
  /\ effects = [e \in Events |-> 0]

Commit(t) ==
  /\ committed' = committed \cup {t}
  /\ UNCHANGED effects

Apply(e) ==
  /\ TxOf[e] \in committed
  /\ effects[e] = 0
  /\ effects' = [effects EXCEPT ![e] = 1]
  /\ UNCHANGED committed

Next ==
  \/ \E t \in Txs : Commit(t)
  \/ \E e \in Events : Apply(e)

Spec == Init /\ [][Next]_deliveryVars
=============================================================================
