SPECIFICATION Spec
CONSTANTS
  log = log
  word = word
  number = number
  wild = wild
  mail = mail
  phone = phone
  phone_at_x = phone_at_x
  mail_phone = mail_phone
  mail_digits = mail_digits
  MAIL = MAIL
  PHONE = PHONE
  PHONE_at_x = PHONE_at_x
  MAIL_phone = MAIL_phone
  mail_PHONE = mail_PHONE
  MAIL_PHONE = MAIL_PHONE
  MAIL_digits = MAIL_digits
  Word = {log, word}
  Variable = {number, mail, phone, phone_at_x, mail_phone, mail_digits}
  Wild = wild
  Logs <- LogLines
  Timestamps = {1}
  MaxDepth = 3
  SimNum = 1
  SimDen = 2
  Hash <- HashOf
  NoID = NoID
  MaxParses = 3
  Rules = {"phone", "email"}
  Rewrite <- RewriteTable
  Texts <- AllTexts
  Spread <- SpreadNumbers
  Calls = {"fix", "embed", "stream"}
  Kind <- KindOf
  Timeout = 2
  Tokens = 2
  Templates = {"t"}
  Sources = {"s"}
  Volumes = {1, 3}
  MinPoints = 3
  Window = 1
  ErrorThreshold = 1
  VolumeThreshold = 1
  AlertCapacity = 1
  MaxRequests = 4
  MaxTime = 1
  Callers = {"c1", "c2", "c3"}
  Limit = 1
  Expiry = 2
  PopTimeout = 1
  PoolSize = 2
  MaxCalls = 5
  Installers = {"i1", "i2"}
  PageLimit = 1
  OnlySuccessful = TRUE
  Scores = {1}
  Instants = {1, 2}
  MaxRows = 2
  MaxAlerts = 1
  MaxUpdates = 1
  MaxFailures = 1
  LogTemplates = {"t1", "t2"}
  Times = {1, 2}
  Month <- MonthOf
  BatchSize = 2
  QueryLimit = 1
  MaxLogs = 2
  MaxSends = 2
INVARIANTS
  NothingDetectableIsStored
CHECK_DEADLOCK FALSE
