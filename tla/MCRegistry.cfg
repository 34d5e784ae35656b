SPECIFICATION Spec
CONSTANTS
  Artifacts <- MCArtifacts
  ClassName <- MCClassName
  Attrs <- MCAttrs
  ExplicitIds <- MCExplicitIds
  MaxCalls = 4
INVARIANTS RegistryInv CompiledGraphIsCurrent CyclesAreFound VisibleToAncestors
CHECK_DEADLOCK FALSE
