SPECIFICATION FairSyncSpec
CONSTANTS
    MaxStreams = 2
    Initially = 0
    MaxTx = 2
    MaxDamage = 0
    Menu = {"configure", "backupNow", "pause", "close", "restart", "policy"}
INVARIANTS TypeOK SealedIsComplete IdentityBrackets RestorePauseHolds DisabledIsQuiet
PROPERTIES SealedIsFrozen BackupCatchesUp
