SPECIFICATION HooksSpec
CONSTANTS
  Schema <- root_tab
  Files <- ManyFiles
  Opts <- ThreeOpts
  NoMemory = TRUE
  Addresses <- OneAddress
  Erasable <- Gone
INVARIANTS FrameOnTable ParseDecides StackAfterParse ServesOptions StartReleases
PROPERTIES ServeBalanced StartDecides
CHECK_DEADLOCK FALSE
