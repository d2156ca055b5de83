SPECIFICATION Spec
CONSTANTS
  k3sImages = {"v1.30", "v1.31"}
  Stored <- Valid
  Specs <- Valid
  Layouts <- JustMigrating
  Addresses = {"a"}
  Lagging = {"StatefulSet", "Secret", "PVC"}
  EnvOps = {"spec", "drift"}
  MaxOps = 1
  MaxFaults = 0
PROPERTIES ControlPlaneConverges StatusConverges MigrationCompletes
