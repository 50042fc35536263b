SPECIFICATION InboundSpec
CONSTANTS
  p1 = p1
  stop = stop
  start = start
  Phones = {p1}
  National = {p1}
  NoPhone = NoPhone
  Users = {u1}
  Operations = {"import"}
  MaxRequests = 1
  Messages = {stop, start}
  Sender <- MCSender
  Keyword <- MCKeyword
  Rules <- MCRules
  MaxDeliveries = 2
  MaxStalls = 1
  MaxCrashes = 1
INVARIANTS
  RowAsAsked
  HandledOnce
PROPERTIES
  InboundSettles
CHECK_DEADLOCK FALSE
