SPECIFICATION Spec
CONSTANTS
  Basedir <- MCBasedir
  File <- MCFile
  Dotted <- MCDotted
  Fnmatch <- MCFnmatch
  Manifest <- MCManifest
  None = None
INVARIANTS FilesAreCopied TreesArePreserved ChecksAreInstalled
CHECK_DEADLOCK FALSE
