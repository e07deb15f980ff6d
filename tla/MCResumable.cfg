CONSTANTS
  Requests = {r1, r2}
  Targets = {t1, t2}
  MaxUploadSize = 2
  MaxPartialUploads = 1
  Kinds <- AllKinds
  None = None
SPECIFICATION Spec
SYMMETRY Symmetry
INVARIANT UploadsWhole
PROPERTY NoOverwrite
