SPECIFICATION Spec
CONSTANTS
  Providers = {"p", "q"}
  Env = "env"
  ModelOf <- TwoGroups
  AutoBan = {"p"}
  BanAfter = 2
  Admins = {a1, a2}
  Agents = {g1}
  Production = FALSE
  MaxOps = 3
  MaxCalls = 1
  MaxFaults = 1
INVARIANT RegistryRules
CHECK_DEADLOCK FALSE
