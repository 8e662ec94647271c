\* Containment of resolve_path when a sibling's name extends the workspace's.
CONSTANTS
    Names <- MC_PrefixNames
    WorkspaceDir <- MC_Workspace
    LinkTargets <- MC_PrefixLinkTargets
    MaxDepth = 1
    MaxEntries = 1
    MaxRawLen = 2
SPECIFICATION Spec
INVARIANT Contained
