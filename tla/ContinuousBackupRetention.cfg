SPECIFICATION FairCleanupSpec
CONSTANTS
    MaxStreams = 3
    Initially = 3
    MaxTx = 1
    MaxDamage = 1
    Menu = {"stage", "restart", "preview", "execute", "background"}
INVARIANTS PinnedKept DeletedMeansGone OncePerDay
PROPERTIES SafeDeletion DeletionFinishes
