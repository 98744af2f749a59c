\* Bodies of up to five bytes, previews of three, three replays.
CONSTANTS
  MaxBody = 5
  MaxReplays = 3
  PreviewLimit = 0
  DefaultPreviewLimit = 3
  Inside <- MCInside
SPECIFICATION CaptureSpec
INVARIANTS
  CaptureInv
  HonestReplay
  WholeIsReplayable
CHECK_DEADLOCK FALSE
