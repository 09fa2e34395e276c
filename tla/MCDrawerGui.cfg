CONSTANTS
  c1 = c1
  c2 = c2
  t1 = t1
  NoClient = NoClient
  Clients <- TwoClients
  Tasks <- OneTask
  Forms <- ThreeForms
  MaxEmails = 1
  MaxQueue = 1
SPECIFICATION FairSpec
INVARIANTS TypeOK OneEmailPerShownAlarm
PROPERTIES BadgeConverges AlarmIsEmailed CommandFindsLinkBroken AlarmIsTold
