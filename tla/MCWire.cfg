SPECIFICATION Spec
CONSTANTS
  Senders = {s1, s2}
  Types <- AllTypes
  Numbers <- AllNumbers
  Chars <- AllChars
  Text <- Cells
  Messages <- ToSide
  PrefixBytes = 2
  MaxFrame = 40
  Lengths = {0, 3, 50}
  Cuts = {0, 14, 25, 26}
  MaxSent = 2
INVARIANTS
  TypeOK
  ListenerSurvives
PROPERTIES
  ImplementsChannel
  AllDelivered
CHECK_DEADLOCK FALSE
