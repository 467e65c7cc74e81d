\* One version, with room for a developer to push after the version commit.
CONSTANTS
  MaxCommits = 3
  MaxVersion = 1
SPECIFICATION FairSpec
PROPERTY TaggedRunPublishes
