SPECIFICATION FairSpec
CONSTANTS
  Threads = {gate, poller}
  Pollers = {poller}
  NumFiles = 2
  StartTexts <- SurfaceAndChild
  Binds = {app, surface}
  Texts <- AllTexts
  Requests <- TwoCalls
  app = app
  surface = surface
  MaxWrites = 1
  MaxCeilings = 2
  NoBind = NoBind
  NoText = NoText
  Free = Free
INVARIANTS AnswersOneSnapshot Noticed
PROPERTIES KeepsBinding Follows
