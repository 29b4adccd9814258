SPECIFICATION CodecSpec
CONSTANTS
  Configurations <- Configs
  Jobs = {}
INVARIANTS RefsCoded FramesCodedOnce NeverFails BufferBounded Delivered ReferencesArrive
PROPERTY Ends
