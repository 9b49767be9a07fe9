SPECIFICATION Spec

INVARIANTS
  CommitmentLogged
  LogErrorShown
  HandlesExact
