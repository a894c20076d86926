SPECIFICATION Spec
CONSTANTS
  x = x
  Names = {x}
  Environments <- MCEnvironments
  NoName = NoName
  MaxFunctions = 3
  MaxNest = 3
  MaxErrs = {1}
INVARIANT ScopeRestored
INVARIANT SitesOpen
INVARIANT OuterHasOwner
INVARIANT SameVariable
INVARIANT LabelsEnclose
INVARIANT AssignopHeard
PROPERTY ClosedIsFinal
PROPERTY OnceUsed
CHECK_DEADLOCK FALSE
