SPECIFICATION Spec
CONSTANTS
  k3sImages = {"v1.30", "v1.31"}
  Stored <- Plain
  Specs <- Plain
  Layouts <- JustOccupied
  Addresses = {"a"}
  Lagging = {}
  EnvOps = {}
  MaxOps = 1
  MaxFaults = 0
PROPERTY VolumesKept
