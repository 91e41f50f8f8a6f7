SPECIFICATION Spec
CONSTANTS
  pm = pm
  ps = ps
  sm = sm
  ss = ss
  None = None
  Units = {pm, ps, sm, ss}
  Scan <- MCScan
  Sectors <- MCSectors
  MaxDrives = 3
  HomeUnit = pm
  PlayUnit = ps
  NDefDirs = 1
  MaxFiles = 2
  MaxSlips = 1
PROPERTY WritesStayHome
