SPECIFICATION FairSpec
CONSTANTS
  Topics = {replies, requests}
  Publishers = {p1, p2}
  Capacity = 5
  InitialBackoff = 1
  MaxBackoff = 30
INVARIANTS TypeOK StuckBehindOthers BackoffStartsOver
PROPERTIES StuckForGood SubscriptionsEnsured HealthFollows PublishersGoOn
