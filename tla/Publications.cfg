CONSTANTS
  Subscriber = {c1, c2, d}
  Client = {c1, c2}
  Sse = {c1}
  Dispatcher = d
  Hook = {h1}
  Wants <- MCWants
  Height <- MCHeight
  QueueSize = 2
  BatchSize = 2
  MaxRetries = 2
  MaxMempool = 1
  MaxFaults = 1
SPECIFICATION Spec
INVARIANTS TypeOK QueuesHaveNoGap ListenerKnowsTip DeliveriesInOrder TakenIsDelivered
PROPERTIES ListenersLearnHeight LeaversUnsubscribe
CHECK_DEADLOCK FALSE
