SPECIFICATION Spec
CONSTANTS
  Exts = {png, webp}
  Names = {b1}
  MaxWork = 2
  Absent = Absent
INVARIANT LogoPreserved
CHECK_DEADLOCK FALSE
