\* Four commits on main and two versions: two bumps, with room for a developer
\* or a maintainer between them.
CONSTANTS
  MaxCommits = 4
  MaxVersion = 2
SPECIFICATION Spec
INVARIANTS
  TypeOK
  TagNamesItsVersion
  NoVersionSkipped
  SignedIsPublished
PROPERTY ImplementsReleaseLine
