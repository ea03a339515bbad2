\* Two handlers, edits and two syncs on a markdown path and another one.
SPECIFICATION Spec
CONSTANTS
    Paths = {"deploy.md", "notes.txt"}
    Markdown = {"deploy.md"}
    Texts = {"plain", "linking", "broken"}
    Valid = {"plain", "linking"}
    Targets <- TargetsMC
    Clients = {c1, c2}
    MaxSyncs = 2
    MaxOps = 2
SYMMETRY Handlers
CHECK_DEADLOCK FALSE
INVARIANTS
    IndexInv
    SyncConverges
