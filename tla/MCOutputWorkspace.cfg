CONSTANTS
  Deps <- PairDeps
  Reads <- PairReads
  ModelBound <- ModelStages
  Settings = {"low", "high"}
  Config <- PairConfig
  Off <- OffConfigs
  Videos = {v1, v2}
  Revisions = {m1, m2}
  RunIds = {r1, r2}
  Selections <- WholeOrPart
  Forces <- ForceSome
  MaxExecs = 3
  MaxChanges = 2
SPECIFICATION Spec
SYMMETRY Interchangeable
CHECK_DEADLOCK FALSE
INVARIANT StoreTrue
INVARIANT SucceededRunCurrent
INVARIANT PreviewTruthful
INVARIANT NoMixedVideo
