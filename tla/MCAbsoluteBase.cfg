SPECIFICATION Spec
CONSTANTS
  None = None
  Files <- BasedFiles
INVARIANTS
  AllFragmentsFindSamples
