\* One version: the tag is re-released for ever.
CONSTANTS
  MaxCommits = 2
  MaxVersion = 1
SPECIFICATION RetrySpec
PROPERTY ShipAtSameVersion
