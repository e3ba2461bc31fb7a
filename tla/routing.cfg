SPECIFICATION RoutingSpec
CONSTANTS
  mine = mine
  also = also
  theirs = theirs
  plan = plan
  link = link
  gone = gone
  teach = teach
  old = old
  NoKey = NoKey
  Junk = Junk
  Notes = {mine, also, theirs}
  Mine = {mine, also}
  Texts = {plan, link, gone}
  Inner <- MCInner
  InTitle <- MCInTitle
  InText <- MCInText
  Keys = {teach, old}
  Active = {teach}
  Messages <- MCMessages
  Limit = 10
  MaxSends = 5
  MaxDeletes = 1
  MaxLosses = 1
INVARIANTS NothingIsLost ShownOnce BypassIsClean
CHECK_DEADLOCK FALSE
