CONSTANTS
    NUM_MAX_PROCESSES <- MCNumMaxProcesses
    NUM_TERMINALS <- MCNumTerminals
SPECIFICATION Spec
INVARIANTS
    VidmapAliasTracksTerminal
