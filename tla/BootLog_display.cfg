SPECIFICATION Spec

INVARIANT
  DisplayedIsDurable
