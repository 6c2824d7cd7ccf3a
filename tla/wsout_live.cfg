CONSTANTS
  t1 = t1
  f1 = f1
  f2 = f2
  Tasks = {t1}
  Http = "http"
  Fds = {f1}
  RingFrames = 2
  PerPass = 2
  MailSlots = 2
  MaxFrames = 2
  MaxWaits = 1
  MayLose = TRUE
SPECIFICATION FairSpec
CHECK_DEADLOCK FALSE
PROPERTY Delivered
