SPECIFICATION Spec
CONSTANTS
  Frames <- PriorityFrames
  Configs <- OneConfig
  Counts <- Zeroes
INVARIANT TagsAreSkipped
