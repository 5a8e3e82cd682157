\* The acknowledgement of a re-sent command answers the next one.
SPECIFICATION Spec
CONSTANTS
  Attempts = 2
  MaxIgnored = 4
  NetMax = 2
  Ops <- PutOps
  Factory <- Bulb
  Reports <- Everything
  Strays <- Silent
  Touches <- Nobody
  None = None
PROPERTY WaitsForItsReply
