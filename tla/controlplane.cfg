SPECIFICATION Spec
CONSTANTS
  k3sImages = {"v1.30", "v1.31"}
  Stored <- AnySpec
  Specs <- Valid
  Layouts <- OldAndNew
  Addresses = {"a", "b"}
  Lagging = {"Service"}
  EnvOps = {"spec", "drift", "takeName"}
  MaxOps = 1
  MaxFaults = 1
INVARIANT TypeOK
PROPERTIES ControlPlaneConverges StatusConverges MigrationCompletes StrangersStay
