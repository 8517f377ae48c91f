CONSTANTS
    NVolumes = 2
    MaxEntries = 2
SPECIFICATION Spec
INVARIANTS TypeOK StartedInOrder NoImageLeft BootOsTellsTheTruth
