SPECIFICATION Spec
CONSTANTS
  k3sImages = {"v1.30", "v1.31"}
  Stored <- Plain
  Specs <- Plain
  Layouts <- JustMigrating
  Addresses = {"a"}
  Lagging = {"StatefulSet"}
  EnvOps = {"takeName"}
  MaxOps = 1
  MaxFaults = 0
PROPERTY StrangersKept
