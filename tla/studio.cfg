SPECIFICATION Spec
CONSTANTS
  Scenes = {s1, s2}
  Prompts = {p1, p2}
  Requests = {r1, r2}
  NoScene = NoScene
  NoPicture = NoPicture
  MaxRevision = 4
  MaxPayload = 3
INVARIANTS TypeOK PicturesShowPrompts BoardInOrder OfferedVideoCurrent StudioInv
PROPERTIES DeleteKeepsAnchor ApprovalsNeedRevision ImplementsBoard
SYMMETRY Symmetry
CHECK_DEADLOCK FALSE
