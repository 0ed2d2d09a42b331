SPECIFICATION FairSpec
CONSTANTS
  t1 = t1
  t2 = t2
  removed1 = removed1
  cast1 = cast1
  cast2 = cast2
  castLog = castLog
  removedLog = removedLog
  Txs <- MCTxs
  Events <- MCEvents
  Streams <- MCStreams
  TxOf <- MCTxOf
  StreamOf <- MCStreamOf
  BatchSize = 2
  Faults = {"publish", "ack", "mark", "crash", "rebalance", "handler"}
  MaxFaults = 2
  None = None
INVARIANTS
  EffectOnce
  NoLostEvent
  AppliedInOrder
PROPERTIES
  ImplementsDelivery
  EveryEventApplied
