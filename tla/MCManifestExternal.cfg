SPECIFICATION Spec
CONSTANTS
  Basedir <- MCBasedir
  File <- MCFile
  Dotted <- MCDotted
  Fnmatch <- MCFnmatch
  Manifest <- MCManifest
  None = None
INVARIANTS ExternalIsExternal
CHECK_DEADLOCK FALSE
