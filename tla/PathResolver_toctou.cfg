\* Containment at the open after resolve_path, with commands running in between.
CONSTANTS
    Names <- MC_DistinctNames
    WorkspaceDir <- MC_Workspace
    LinkTargets <- MC_LinkTargets
    MaxDepth = 2
    MaxEntries = 2
    MaxRawLen = 3
SPECIFICATION Spec
INVARIANT UseContained
