CONSTANTS
  Servers <- MCServers
  Build <- MCBuild
  Unset <- NothingStored
  Planner <- generate_plan_for_schema
  MaxStored = 4
SPECIFICATION Spec
INVARIANTS
  ServesStoredPlan
  SharedFieldsShareKeys
PROPERTY
  RestartsComeUp
