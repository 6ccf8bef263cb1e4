CONSTANTS
  gdm = gdm
  lightdm = lightdm
  xdm = xdm
  r1 = r1
  r2 = r2
  r3 = r3
  Akari = Akari
  None = None
  Torn = Torn
  DisplayManagers = {gdm, lightdm, xdm}
  Aliased = {gdm}
  Wanted = {lightdm}
  Releases = {r1, r2, r3}
  MaxEdits = 1
  MaxStops = 2
  MaxUndoStops = 3
SPECIFICATION MCSpec
SYMMETRY ReleaseSymmetry
INVARIANT TypeOK
 
INVARIANT RecoveryAvailable
 
INVARIANT FailedInstallRestores
INVARIANT PamKeepsEdits
