SPECIFICATION Spec
CONSTANTS
    Objects <- MCObjects
    Callbacks <- MCCallbacks
    Cases <- MCCases
    Links = {"Headset"}
    RenderEndpoints <- MCRender
    CaptureEndpoints <- MCCapture
INVARIANTS
  RefsExact CleanIsEmpty CacheLive DeletedIsGone
PROPERTIES
  Leaves RemovalEnds
