\* every driver, every kind of message, three asks
SPECIFICATION FairSpec
CONSTANTS
  Kinds <- EveryKind
  Messages <- EveryMessage
  MaxAsks = 3
INVARIANTS TypeOK InSync NoLeftover
PROPERTIES AskReturns
