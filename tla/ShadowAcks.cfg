SPECIFICATION FairSpec
CONSTANTS
  Actions = {"get", "update"}
  MaxAcks = 2
  MaxTopics = 4
  CountModulus = 256
  Stickiness = {TRUE, FALSE}
  CallbackActions = {}
  Failures = {"subscribe", "unsubscribe", "publish"}
  MaxRequests = 3
  MaxDepth = 1
INVARIANTS AnsweredOnce AnswerHeard NothingLeft ShadowInv
PROPERTIES NoRequestForgotten AllAnswered
