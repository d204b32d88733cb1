SPECIFICATION ShellSpec
CONSTANTS
  Catalog <- MCCatalog
  Docked <- MCDocked
  Moves <- MCMoves
  Brightness <- MCBrightness
  Cuts <- MCCuts
  Readable <- MCReadable
  Networks <- MCNetworks
  Points <- MCPoints
  Unit = 60
  Wrap = 4
INVARIANTS
  SurfaceShown
  ScreenFollowsPolicy
  ViewsAgree
  TouchedScreenIsOn
