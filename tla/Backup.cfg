SPECIFICATION FairSpec
CONSTANTS
  vaultwarden = vaultwarden
  matrix = matrix
  vault = vault
  server = server
  database = database
  Services <- MCServices
  Containers <- MCContainers
  Container <- MCContainer
  Writers <- MCWriters
  Jobs = {j1}
  Restores = {r1}
  MaxWrites = 1
  Restic = {"unknown", "below", "top"}
INVARIANTS
  OnlyTheServiceAtWorkIsDown
  PausedCopyIsOneState
  LoggedRestoreIsComplete
  SuccessIsWhole
PROPERTY
  JobsEnd
  ImplementsService
