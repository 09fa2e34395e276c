CONSTANTS
  c1 = c1
  c2 = c2
  t1 = t1
  NoClient = NoClient
  Clients <- TwoClients
  Tasks <- OneTask
  Forms <- OnOrOff
  MaxEmails = 1
  MaxQueue = 2
SPECIFICATION Spec
PROPERTIES OkIsShown
