\* Containment of resolve_path against links and "..", names not prefixes.
CONSTANTS
    Names <- MC_DistinctNames
    WorkspaceDir <- MC_Workspace
    LinkTargets <- MC_LinkTargets
    MaxDepth = 2
    MaxEntries = 2
    MaxRawLen = 3
SPECIFICATION Spec
INVARIANTS TypeOK Contained
