SPECIFICATION Spec
CONSTANTS
  Nil = Nil
  Stream = {s1}
  Uid = {u1, u2}
  Media <- MCMedia
  Network <- MCNetwork
  Ranges <- MCRanges
  Port = {1, 2, 3}
  Taken = {1}
  Addr = {a1}
  Check <- MCCheck
  Layout <- MCLayout
  PeerUfragSize = 4
  MaxPush = 2
  MaxAnswer = 2
  MaxQueue = 1
  MaxCert = 2
INVARIANTS
  OfferServed
  PortsFromRange
  AnswerReachesItsPush
  PasswordFollowsAnswer
  PingsAcceptable
  RepliesMatchRfc
SYMMETRY MCSymmetry
CHECK_DEADLOCK FALSE
