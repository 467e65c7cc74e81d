\* One version.
CONSTANTS
  MaxCommits = 3
  MaxVersion = 1
SPECIFICATION Spec
INVARIANT EveryReleaseIsSigned
