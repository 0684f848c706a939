SPECIFICATION ApplicationSpec
CONSTANTS
  prose = prose
  number = number
  broken = broken
  forward = forward
  backward = backward
  word = word
  digits = digits
  Wirings <- MCWirings
  Types = {prose, number, broken}
  Unusable = {broken}
  Names = {forward, backward}
  Empty = Empty
  Unbound = Unbound
  EmptyObject = EmptyObject
  Payloads = {word, digits, EmptyObject}
  Unset = Unset
  Accepts <- MCAccepts
  Strict <- MCStrict
  Dump <- MCDump
  Missing = Missing
  Invalid = Invalid
  Applications <- MCApplications
  Clients <- MCClients
  Values <- MCValues
  RawRequests <- MCRawRequests
  RawResponses <- MCRawResponses
  Intruders <- MCIntruders
  ErrorDefs <- MCErrorDefs
  Segments <- MCSegments
  Capitals <- MCCapitals
  Number <- MCNumber
  HeaderTexts <- MCHeaderTexts
  LatinTexts <- MCLatinTexts
  Encode <- MCEncode
  Decode <- MCDecode
  Size <- MCSize
  WireName <- MCWireName
  HeaderNames <- MCHeaderNames
  ReservedRequest = {"content-type", "host"}
  ReservedResponse = {"content-type"}
  Codecs = {"utf8", "latin1"}
  Digits = {"7", "07"}
  Length <- MCLength
  PathRank <- MCPathRank
  MethodRank <- MCMethodRank
  Nodes <- MCNodes
  Notes <- MCNotes
  Kinds = {"http", "execute", "job", "task", "tool"}
  Observers = 2
INVARIANTS
  BoundCallsFit
  WhatIsSentIsReceived
  WhatIsAnsweredIsUnderstood
  SuccessIsCommitted
  FailuresRollBack
  EachObserverToldOnce
PROPERTIES
  TimedRequestsEnd
CHECK_DEADLOCK FALSE
