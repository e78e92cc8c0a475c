SPECIFICATION FairSpec
CONSTANTS
  k1 = k1
  k2 = k2
  Slots = {k1, k2}
  MaxRequests = 2
  MaxRetry = 1
INVARIANTS TypeOK NoAnswerAcrossDeletion InflightIsUnsettled
PROPERTIES StaleAnswersIgnored LoadingEnds
