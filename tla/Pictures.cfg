\* Two saves in flight for one account, two picture formats.
SPECIFICATION Spec
CONSTANTS
  Request = {r1, r2}
  Ext = {png, jpg}
  Ops = {"upload", "clear", "edit", "touch"}
  MaxSuffix = 2
  MaxUpload = 4
SYMMETRY Symmetry
INVARIANT TypeOK
PROPERTIES LoneUploadShows LoneSaveKeepsFile
CHECK_DEADLOCK FALSE
