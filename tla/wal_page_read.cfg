SPECIFICATION Spec
CONSTANTS
  PageSize = 2
  XLOGbuffers = 2
  RecordEnds = {1, 5, 6}
  Slack = 1
  Readers = {r1}
INVARIANT ReturnsBytesRead
