SPECIFICATION ServerSpec
CONSTANTS
  NoToken = NoToken
  NoRequest = NoRequest
  NoCall = NoCall
  Nobody = Nobody
  MaxRequests = 2
  MaxConcurrent = 2
  Provinces <- MCProvinces
  Towns <- MCTowns
  Replies <- MCReplies
  Calls <- MCCalls
INVARIANTS
  Guarded EveryRouteReached AnswersAreTrue
  AnsweredAsAsked AgreesWithPrototype
PROPERTY EveryRequestAnswered
CHECK_DEADLOCK FALSE
