SPECIFICATION FairSpec
CONSTANTS
  Points = {"pub", "pub_v5"}
  Clients = {"paho", "amqtt"}
  Runs = {0, 1}
  Settings <- MCSettings
  Order <- MCOrder
  Refused <- MCRefused
  MaxAttempts = 2
  MaxCrashes = 2
INVARIANTS
  TypeOK
  AttemptsFollowTheRules
  ManifestIsTrue
PROPERTIES
  ImplementsLedger
  CampaignFinishes
