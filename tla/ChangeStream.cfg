SPECIFICATION StreamSpec
CONSTANTS
  s1 = s1
  s2 = s2
  s3 = s3
  rename = rename
  deactivate = deactivate
  NoStream = NoStream
  Streams = {s1, s2, s3}
  Changes = {rename, deactivate}
  MaxErrors = 2
INVARIANTS
  StreamTypeOK
  NeverGivesUp
  OneMorePerError
PROPERTY FeedSpec
CHECK_DEADLOCK FALSE
