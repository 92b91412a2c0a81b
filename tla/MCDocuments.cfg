CONSTANTS
  None = None
  Word <- MCWord
  HTHostName <- MCHost
  Home <- MCHome
  Resolver <- MCResolver
  NumberOf <- MCNumberOf
  PortWidth = 16
  Reference <- MCReference
  Place <- MCPlace
  MaxSteps = 3
SPECIFICATION Spec
INVARIANTS HereIsPlace RelativeLeadsThere OpensWhatItMeans EditableIsWritable
