---------------------------- MODULE RestoreJournal ----------------------------
(***************************************************************************)
(* Replacing the live database by a backup: InstallRestore, the restore    *)
(* journal, and ReconcileOnStartup, which finishes or undoes a restore     *)
(* that a crash or an error interrupted (internal/infrastructure/backup).  *)
(*                                                                         *)
(* A SQLite database is a group of files: the main file and its -wal and   *)
(* -shm sidecars.  The directory holds the live group, the staging group,  *)
(* and for each restore a safety group (the previous database) and a       *)
(* failed group (a replacement that did not verify).  Every rename, every  *)
(* removal and every journal write is a step, and the process may die      *)
(* between any two; renames and the journal write are atomic.              *)
(*                                                                         *)
(* A file's content is abstracted to the version of the ledger it belongs  *)
(* to: 0 for the original, n for the package installed by the nth restore. *)
(***************************************************************************)
EXTENDS Integers, FiniteSets

CONSTANTS MaxRestores,   \* restores the user starts
          MaxCrashes,    \* times the process dies
          MaxFaults      \* system calls that fail

ASSUME RestoreBounds ==
    MaxRestores \in Nat /\ MaxCrashes \in Nat /\ MaxFaults \in Nat

VARIABLES
    file,      \* file[place][part]: the version the file belongs to
    journal,   \* the restore journal on disk
    pc,        \* where the process is
    mv,        \* the group move under way
    session,   \* Recovery.app and its database: "none", "open" or "closed"
    starting,  \* the process runs ReconcileOnStartup, not InstallRestore
    restores,  \* restores started
    crashes,   \* times the process died
    faults,    \* system calls that failed
    parts,     \* parts[v]: the files that hold the ledger v (ghost)
    rotated,   \* versions whose source tracking was reset (ghost)
    superseded \* a restore began over an unfinished journal (ghost)

vars == <<file, journal, pc, mv, session, starting, restores, crashes, faults, parts,
          rotated, superseded>>
ghosts == <<parts, rotated, superseded>>
env    == <<restores, crashes, ghosts>>

-----------------------------------------------------------------------------
(* Files.                                                                  *)

Sidecars == {"wal", "shm"}
Parts    == Sidecars \union {"main"}

None     == -1                    \* no such file
Blank    == -2                    \* a sidecar that a read-only connection left
Empty    == MaxRestores + 1       \* a database that sqlite.Open bootstrapped
Versions == 0 .. Empty
NoFiles  == [x \in Parts |-> None]

Live      == <<"live", 0>>
Staging   == <<"staging", 0>>
Safety(n) == <<"safety", n>>
Failed(n) == <<"failed", n>>
Places    == {Live, Staging} \union ({"safety", "failed"} \X (1 .. MaxRestores))

Has(pl, x)      == file[pl][x] # None
Present(pl)     == {x \in Parts : Has(pl, x)}
GroupExists(pl) == Present(pl) # {}

NoJournal == [state |-> "none", n |-> 0, originalPresent |-> FALSE]
NoMove    == [src |-> Live, dst |-> Live, todo |-> {}, done |-> {}, undo |-> FALSE,
              strict |-> FALSE, ok |-> "down", fail |-> "down"]

MySafety == Safety(journal.n)
MyFailed == Failed(journal.n)
FirstRestore == ~journal.originalPresent

\* Where a step that gives up goes: recoveryBlocked at startup, or back to
\* ConfirmRestore, which asks for a restart.
GiveUp == IF starting THEN "blocked" ELSE "quit"

Fault  == faults < MaxFaults /\ faults' = faults + 1
NoFault == UNCHANGED faults
Goto(label) == pc' = label /\ UNCHANGED mv

Init ==
    /\ \E found \in SUBSET Parts :
         /\ parts = [v \in Versions |-> IF v = 0 THEN found ELSE {}]
         /\ \/ session = "open" /\ pc = "running" /\ found = Parts
            \/ session = "none" /\ pc = "blocked"
    /\ rotated = {} /\ superseded = FALSE
    /\ file = [pl \in Places |->
                 IF pl = Live THEN [x \in Parts |-> IF x \in parts[0] THEN 0 ELSE None]
                              ELSE NoFiles]
    /\ journal = NoJournal
    /\ mv = NoMove
    /\ starting = FALSE
    /\ restores = 0 /\ crashes = 0 /\ faults = 0

-----------------------------------------------------------------------------
(* Moves of a file group: main first, then the sidecars.                   *)

First(S) == IF "main" \in S THEN "main" ELSE IF "wal" \in S THEN "wal" ELSE "shm"
Last(S)  == IF "shm" \in S THEN "shm" ELSE IF "wal" \in S THEN "wal" ELSE "main"

StartMove(src, dst, todo, strict, ok, fail) ==
    /\ pc' = "moving"
    /\ mv' = [src |-> src, dst |-> dst, todo |-> todo, done |-> {}, undo |-> FALSE,
              strict |-> strict, ok |-> ok, fail |-> fail]

MoveFileGroup(src, dst, ok, fail) ==
    IF GroupExists(dst) \/ ~GroupExists(src) THEN Goto(fail)
    ELSE StartMove(src, dst, Present(src), FALSE, ok, fail)

MoveOrphanSidecars(src, dst, ok, fail) ==
    IF \/ Has(src, "main")
       \/ \E s \in Sidecars : Has(src, s) /\ Has(dst, s)
       \/ ~GroupExists(src)
    THEN Goto(fail)
    ELSE StartMove(src, dst, Present(src), TRUE, ok, fail)

MutantResumeFileGroupMove(src, dst, ok, fail) == \* mutant: sidecars are left behind
    IF Has(src, "main") THEN MoveFileGroup(src, dst, ok, fail)
    ELSE Goto(IF GroupExists(dst) THEN ok ELSE fail)
ResumeFileGroupMove(src, dst, ok, fail) ==
    IF Has(src, "main") THEN MoveFileGroup(src, dst, ok, fail)
    ELSE IF GroupExists(src) THEN MoveOrphanSidecars(src, dst, ok, fail)
    ELSE Goto(IF GroupExists(dst) THEN ok ELSE fail)

\* A writable connection owns the sidecars of the live group, and takes them
\* away when it closes.
OpenGroup  == [file EXCEPT ![Live] = [x \in Parts |-> file[Live]["main"]]]
CloseGroup == [file EXCEPT ![Live] = [NoFiles EXCEPT !["main"] = file[Live]["main"]]]

Rename(src, dst, x) ==
    file' = [file EXCEPT ![dst][x] = file[src][x], ![src][x] = None]

\* One rename, in the order of the code; a failure starts the rollback.
MoveOne ==
    /\ pc = "moving" /\ ~mv.undo /\ mv.todo # {}
    /\ LET x == First(mv.todo) IN
       \/ /\ Rename(mv.src, mv.dst, x)
          /\ mv' = [mv EXCEPT !.todo = @ \ {x}, !.done = @ \union {x}]
          /\ NoFault
       \/ /\ Fault
          /\ mv' = [mv EXCEPT !.undo = TRUE]
          /\ UNCHANGED file
    /\ UNCHANGED <<journal, pc, session, starting, env>>

\* Only moveOrphanSidecars returns the error of the final directory sync.
MoveDone ==
    /\ pc = "moving" /\ ~mv.undo /\ mv.todo = {}
    /\ \/ pc' = mv.ok /\ NoFault
       \/ mv.strict /\ pc' = mv.fail /\ Fault
    /\ mv' = NoMove
    /\ UNCHANGED <<file, journal, session, starting, env>>

\* rollback, in reverse order; it stops at the first rename that fails.
MoveUndo ==
    /\ pc = "moving" /\ mv.undo
    /\ IF mv.done = {}
       THEN pc' = mv.fail /\ mv' = NoMove /\ NoFault /\ UNCHANGED file
       ELSE LET x == Last(mv.done) IN
            \/ /\ Rename(mv.dst, mv.src, x)
               /\ mv' = [mv EXCEPT !.done = @ \ {x}]
               /\ NoFault /\ UNCHANGED pc
            \/ /\ Fault
               /\ pc' = mv.fail /\ mv' = NoMove
               /\ UNCHANGED file
    /\ UNCHANGED <<journal, session, starting, env>>

\* WriteAtomicFile: the new journal, or the old one and an error.
WriteJournal(j, ok, fail) ==
    /\ \/ journal' = j /\ Goto(ok) /\ NoFault
       \/ UNCHANGED journal /\ Goto(fail) /\ Fault
    /\ UNCHANGED <<file, session, starting, env>>

\* The failure paths of InstallRestore remove the staging main file only.
RemoveStagingMain == file' = [file EXCEPT ![Staging]["main"] = None]

-----------------------------------------------------------------------------
(* InstallRestore, called with the session open or, when startup failed,   *)
(* without one.                                                            *)

\* With a session, the kept exclusive permit refuses a second restore.
MayRestore == pc \in {"running", "blocked"} \/ (pc = "quit" /\ session = "none")

\* Any staged main file is removed, the package is extracted and verified;
\* verification may leave empty sidecars.
InstallRestore ==
    /\ MayRestore
    /\ restores < MaxRestores
    /\ restores' = restores + 1
    /\ \E s \in {{}, Sidecars} :
         file' = [file EXCEPT ![Staging] = [x \in Parts |->
                    IF x = "main" THEN restores + 1
                    ELSE IF x \in s /\ file[Staging][x] = None THEN Blank
                    ELSE file[Staging][x]]]
    /\ starting' = FALSE
    /\ Goto("prepare")
    /\ UNCHANGED <<journal, session, crashes, faults, ghosts>>

\* Extraction or verification of the package fails: nothing else happened.
StagingFails ==
    /\ MayRestore
    /\ Fault
    /\ RemoveStagingMain
    /\ UNCHANGED <<journal, pc, mv, session, starting, env>>

\* Quiesce and Checkpoint, the safety name, and the first journal.  The
\* truncating checkpoint leaves the ledger in the main file alone.
MutantPrepare ==                                \* mutant: the name of another restore
    /\ pc = "prepare"
    /\ journal' = [state |-> "prepared", n |-> restores - 1,
                   originalPresent |-> GroupExists(Live)]
    /\ Goto(IF session = "open" THEN "close" ELSE "rename")
    /\ UNCHANGED <<file, session, starting, env, faults>>
Prepare ==
    /\ pc = "prepare"
    /\ \/ /\ journal' = [state |-> "prepared", n |-> restores,
                         originalPresent |-> GroupExists(Live)]
          /\ Goto(IF session = "open" THEN "close" ELSE "rename")
          /\ parts' = IF session = "open" THEN [parts EXCEPT ![file[Live]["main"]] = {"main"}]
                                         ELSE parts
          /\ superseded' = (superseded \/ journal.state # "none")
          /\ NoFault
          /\ UNCHANGED file
       \/ /\ Fault
          /\ RemoveStagingMain
          /\ Goto("quit")
          /\ UNCHANGED <<journal, parts, superseded>>
    /\ UNCHANGED <<session, starting, restores, crashes, rotated>>

\* Close removes the sidecars; a failed Close takes the journal back.
CloseSession ==
    /\ pc = "close"
    /\ \/ /\ file' = CloseGroup
          /\ session' = "closed"
          /\ Goto("rename")
          /\ NoFault /\ UNCHANGED journal
       \/ /\ Fault
          /\ RemoveStagingMain
          /\ session' \in {"open", "closed"}
          /\ journal' \in {NoJournal, journal}
          /\ Goto("quit")
    /\ UNCHANGED <<starting, env>>

RenameOriginal ==
    /\ pc = "rename"
    /\ IF GroupExists(Live) THEN MoveFileGroup(Live, MySafety, "renamed", "renamefailed")
                            ELSE Goto("renamed")
    /\ UNCHANGED <<file, journal, session, starting, env, faults>>

RenameFailed ==
    /\ pc = "renamefailed"
    /\ RemoveStagingMain
    /\ Goto("quit")
    /\ UNCHANGED <<journal, session, starting, env, faults>>

WriteRenamed ==
    /\ pc = "renamed"
    /\ WriteJournal([journal EXCEPT !.state = "original-renamed"], "install", "quit")

InstallStaging ==
    /\ pc = "install"
    /\ MoveFileGroup(Staging, Live, "installed", "installfailed")
    /\ UNCHANGED <<file, journal, session, starting, env, faults>>

InstallFailed ==
    /\ pc = "installfailed"
    /\ Goto(IF journal.originalPresent THEN "beginrollback" ELSE "quit")
    /\ UNCHANGED <<file, journal, session, starting, env, faults>>

WriteInstalled ==
    /\ pc = "installed"
    /\ WriteJournal([journal EXCEPT !.state = "replacement-installed"],
                    IF starting THEN "verify" ELSE "quit", GiveUp)

-----------------------------------------------------------------------------
(* ReconcileOnStartup, one action per state of the journal it finds.       *)

ReconcileNothing ==
    /\ pc = "reconcile" /\ journal.state = "none"
    /\ Goto("open")
    /\ UNCHANGED <<file, journal, session, starting, env, faults>>

\* The original main file moves first, its sidecars may be on either side.
RollBackFromSafety ==
    IF GroupExists(Live) THEN MoveOrphanSidecars(Live, MySafety, "beginrollback", "blocked")
                         ELSE Goto("beginrollback")

InstallStagedOrBlock ==
    Goto(IF FirstRestore /\ ~GroupExists(Live) /\ ~GroupExists(MySafety)
         THEN "installstaged" ELSE "blocked")

MutantReconcilePrepared ==                      \* mutant: orphans are not reunited
    /\ pc = "reconcile" /\ journal.state = "prepared"
    /\ IF Has(MySafety, "main") /\ ~Has(Live, "main") THEN Goto("beginrollback")
       ELSE IF Has(Live, "main") /\ ~Has(MySafety, "main") THEN Goto("finish")
       ELSE InstallStagedOrBlock
    /\ UNCHANGED <<file, journal, session, starting, env, faults>>
ReconcilePrepared ==
    /\ pc = "reconcile" /\ journal.state = "prepared"
    /\ IF Has(MySafety, "main") /\ ~Has(Live, "main") THEN RollBackFromSafety
       ELSE IF Has(Live, "main") /\ ~Has(MySafety, "main")
       THEN IF FirstRestore THEN Goto("verify")
            ELSE IF GroupExists(MySafety)
            THEN MoveOrphanSidecars(MySafety, Live, "finish", "blocked")
            ELSE Goto("finish")
       ELSE InstallStagedOrBlock
    /\ UNCHANGED <<file, journal, session, starting, env, faults>>

ReconcileRenamed ==
    /\ pc = "reconcile" /\ journal.state = "original-renamed"
    /\ IF Has(Live, "main")
       THEN IF GroupExists(Staging) THEN MoveOrphanSidecars(Staging, Live, "verify", "blocked")
                                    ELSE Goto("verify")
       ELSE IF Has(MySafety, "main") THEN RollBackFromSafety
       ELSE InstallStagedOrBlock
    /\ UNCHANGED <<file, journal, session, starting, env, faults>>

ReconcileLater ==
    /\ pc = "reconcile"
    /\ journal.state \in {"replacement-installed", "verified", "quarantining", "rolling-back"}
    /\ Goto(CASE journal.state = "quarantining" -> "quarantine"
              [] journal.state = "rolling-back" -> "rollback"
              [] OTHER                          -> "verify")
    /\ UNCHANGED <<file, journal, session, starting, env, faults>>

\* installStagedOnStartup.
InstallStagedOnStartup ==
    /\ pc = "installstaged"
    /\ IF Has(Staging, "main")
       THEN WriteJournal([journal EXCEPT !.state = "original-renamed"], "installnow", "blocked")
       ELSE Goto("blocked") /\ UNCHANGED <<file, journal, session, starting, env, faults>>

InstallNow ==
    /\ pc = "installnow"
    /\ MoveFileGroup(Staging, Live, "installed", "blocked")
    /\ UNCHANGED <<file, journal, session, starting, env, faults>>

-----------------------------------------------------------------------------
(* verifyOrRollbackReplacement and the rollback.                           *)

\* The read-only verification; like any reader it may leave empty sidecars.
VerifySucceeds ==
    /\ pc = "verify"
    /\ Has(Live, "main")
    /\ \E s \in {{}, Sidecars} :
         file' = [file EXCEPT ![Live] = [x \in Parts |->
                    IF x \in s /\ @[x] = None THEN Blank ELSE @[x]]]
    /\ Goto(IF journal.state = "verified" THEN "finalize" ELSE "reset")
    /\ UNCHANGED <<journal, session, starting, env, faults>>

VerifyFails ==
    /\ pc = "verify"
    /\ IF Has(Live, "main") THEN Fault ELSE NoFault
    /\ Goto(IF ~Has(MySafety, "main") THEN "blocked"
            ELSE IF ~GroupExists(Live) THEN "beginrollback" ELSE "writequarantine")
    /\ UNCHANGED <<file, journal, session, starting, env>>

\* ResetFinancialSourceTracking on a writable connection ...
Reset ==
    /\ pc = "reset"
    /\ \/ file' = OpenGroup /\ Goto("resetclose") /\ NoFault
       \/ Fault /\ Goto("blocked") /\ UNCHANGED file
    /\ UNCHANGED <<journal, session, starting, env>>

\* ... which is closed before the journal says so.
ResetClose ==
    /\ pc = "resetclose"
    /\ \/ /\ file' = CloseGroup /\ rotated' = rotated \union {file[Live]["main"]}
          /\ Goto("writeverified") /\ NoFault
       \/ Fault /\ Goto("blocked") /\ file' \in {file, CloseGroup} /\ UNCHANGED rotated
    /\ UNCHANGED <<journal, session, starting, restores, crashes, parts, superseded>>

WriteVerified ==
    /\ pc = "writeverified"
    /\ WriteJournal([journal EXCEPT !.state = "verified"], "finalize", "blocked")

\* finalizeVerified: the settings of the backup are merged through a
\* connection that stays open until the journal is gone.
Finalize ==
    /\ pc = "finalize"
    /\ \/ file' = OpenGroup /\ Goto("finish") /\ NoFault
       \/ Fault /\ Goto("blocked") /\ UNCHANGED file
    /\ UNCHANGED <<journal, session, starting, env>>

WriteQuarantine ==
    /\ pc = "writequarantine"
    /\ WriteJournal([journal EXCEPT !.state = "quarantining"], "quarantine", "blocked")

Quarantine ==
    /\ pc = "quarantine"
    /\ ResumeFileGroupMove(Live, MyFailed, "beginrollback", "blocked")
    /\ UNCHANGED <<file, journal, session, starting, env, faults>>

BeginRollback ==
    /\ pc = "beginrollback"
    /\ WriteJournal([journal EXCEPT !.state = "rolling-back"], "rollback", GiveUp)

ResumeRollback ==
    /\ pc = "rollback"
    /\ IF ~Has(MySafety, "main") /\ ~Has(Live, "main") THEN Goto(GiveUp)
       ELSE ResumeFileGroupMove(MySafety, Live, "finish", GiveUp)
    /\ UNCHANGED <<file, journal, session, starting, env, faults>>

\* finishRecovery removes the staging group, then the journal.
MutantFinishRecovery ==                         \* mutant: the safety copy goes too
    /\ pc = "finish"
    /\ file' = [file EXCEPT ![Staging] = NoFiles, ![MySafety] = NoFiles]
    /\ Goto("unjournal")
    /\ NoFault
    /\ UNCHANGED <<journal, session, starting, env>>
FinishRecovery ==
    /\ pc = "finish"
    /\ \/ file' = [file EXCEPT ![Staging] = NoFiles] /\ Goto("unjournal") /\ NoFault
       \/ Fault /\ Goto(GiveUp) /\ UNCHANGED file
    /\ UNCHANGED <<journal, session, starting, env>>

MutantRemoveJournal ==                          \* mutant: the journal is kept
    /\ pc = "unjournal"
    /\ Goto(IF starting THEN "open" ELSE "quit")
    /\ UNCHANGED <<file, journal, session, starting, env, faults>>
RemoveJournal ==
    /\ pc = "unjournal"
    /\ WriteJournal(NoJournal, IF starting THEN "open" ELSE "quit", GiveUp)

-----------------------------------------------------------------------------
(* The process.                                                            *)

\* sqlite.Open of the live database: an existing one, or a new empty one.
OpenLive ==
    /\ pc = "open"
    /\ LET v == IF Has(Live, "main") THEN file[Live]["main"] ELSE Empty IN
         /\ file' = [file EXCEPT ![Live] = [x \in Parts |-> v]]
         /\ parts' = [parts EXCEPT ![v] = Parts]
    /\ session' = "open"
    /\ Goto("running")
    /\ UNCHANGED <<journal, starting, restores, crashes, faults, rotated, superseded>>

OpenFails ==
    /\ pc = "open"
    /\ Fault
    /\ Goto("blocked")
    /\ UNCHANGED <<file, journal, session, starting, env>>

\* The process ends; a session that is still open is closed.
Quit ==
    /\ pc \in {"running", "blocked", "quit"}
    /\ LET v == file[Live]["main"] IN
       IF session = "open"
       THEN file' = CloseGroup /\ parts' = [parts EXCEPT ![v] = {"main"}]
       ELSE UNCHANGED <<file, parts>>
    /\ session' = "none"
    /\ Goto("down")
    /\ UNCHANGED <<journal, starting, restores, crashes, faults, rotated, superseded>>

Crash ==
    /\ pc # "down"
    /\ crashes < MaxCrashes
    /\ crashes' = crashes + 1
    /\ pc' = "down" /\ mv' = NoMove
    /\ session' = "none"
    /\ UNCHANGED <<file, journal, starting, restores, faults, ghosts>>

Start ==
    /\ pc = "down"
    /\ starting' = TRUE
    /\ Goto("reconcile")
    /\ UNCHANGED <<file, journal, session, env, faults>>

Install ==
    \/ Prepare \/ CloseSession \/ RenameOriginal \/ RenameFailed \/ WriteRenamed
    \/ InstallStaging \/ InstallFailed \/ WriteInstalled
Reconcile ==
    \/ ReconcileNothing \/ ReconcilePrepared \/ ReconcileRenamed \/ ReconcileLater
    \/ InstallStagedOnStartup \/ InstallNow
    \/ VerifySucceeds \/ VerifyFails \/ Reset \/ ResetClose \/ WriteVerified \/ Finalize
    \/ WriteQuarantine \/ Quarantine \/ BeginRollback \/ ResumeRollback
    \/ FinishRecovery \/ RemoveJournal \/ OpenLive \/ OpenFails
Move == MoveOne \/ MoveDone \/ MoveUndo

Next == InstallRestore \/ StagingFails \/ Install \/ Reconcile \/ Move \/ Start \/ Quit \/ Crash

Spec == Init /\ [][Next]_vars

\* The process runs, a restore that asks for a restart quits, and the user
\* starts the application again.
FairSpec == Spec /\ WF_vars(Install \/ Reconcile \/ Move \/ Start \/ (pc = "quit" /\ Quit))
-----------------------------------------------------------------------------
(* Properties.                                                             *)

JournalStates == {"prepared", "original-renamed", "replacement-installed", "verified",
                  "quarantining", "rolling-back"}
Labels == {"running", "blocked", "quit", "down", "prepare", "close", "rename", "renamed",
           "renamefailed", "install", "installed", "installfailed", "reconcile",
           "installstaged", "installnow", "verify", "reset", "resetclose",
           "writeverified", "finalize", "writequarantine", "quarantine",
           "beginrollback", "rollback", "finish", "unjournal", "open", "moving"}
TypeOK ==
    /\ file \in [Places -> [Parts -> Versions \union {None, Blank}]]
    /\ journal \in {NoJournal} \union
                 [state : JournalStates, n : 1 .. restores, originalPresent : BOOLEAN]
    /\ pc \in Labels
    /\ mv \in [src : Places, dst : Places, todo : SUBSET Parts, done : SUBSET Parts,
              undo : BOOLEAN, strict : BOOLEAN, ok : Labels, fail : Labels]
    /\ session \in {"none", "open", "closed"} /\ starting \in BOOLEAN
    /\ restores \in 0 .. MaxRestores /\ crashes \in 0 .. MaxCrashes /\ faults \in 0 .. MaxFaults
    /\ parts \in [Versions -> SUBSET Parts]
    /\ rotated \subseteq Versions /\ superseded \in BOOLEAN

\* The original database had its main file, or there was none.
WasWhole == parts[0] = {} \/ "main" \in parts[0]

\* Every file of a ledger that was in use is somewhere in the directory.
Kept ==
    \A v \in Versions : "main" \in parts[v] =>
        \A x \in parts[v] : \E pl \in Places : file[pl][x] = v

\* Whatever is interrupted or fails, no file of a ledger that was in use is
\* overwritten or removed: it is in the live group, or in a safety or failed
\* group kept beside it.  The exception takes three failing calls: a restore
\* begun over an unfinished journal takes the sidecars that the first one left
\* behind to its own safety group, and when its installation, and then the undo
\* of that, fail too, the rollback puts them beside the replacement's main
\* file, where the next connection overwrites them.
NothingLost == (~superseded \/ faults < 3) => Kept

\* As long as no restore is begun over an unfinished one: a connection to the
\* live database finds a main file with the sidecars of that same database,
\* all of them if they hold part of the ledger; sqlite.Open never bootstraps
\* an empty ledger in place of an existing one; and the application resumes
\* on a replacement only after its source tracking was reset.
OpensWhole ==
    (WasWhole /\ ~superseded /\ pc \in {"verify", "reset", "finalize", "open"}) =>
        LET v == file[Live]["main"] IN
        /\ v = None /\ pc = "open" => \A w \in Versions : "main" \notin parts[w]
        /\ v \in 1 .. MaxRestores /\ pc = "open" => v \in rotated
        /\ v # None => \A s \in Sidecars :
              /\ file[Live][s] \in {None, Blank, v}
              /\ s \in parts[v] => file[Live][s] = v

\* Crashes alone never leave a restore unresolved: as long as no system call
\* fails, startup finishes it or goes back, from a crash at any point and
\* again from a crash during that recovery.  (A live group that had lost its
\* main file before the restore is the exception.)
CrashesAreRecovered ==
    (faults = 0 /\ starting /\ WasWhole) => pc # "blocked"

\* An unfinished restore is finished or undone, or startup reports that it is
\* blocked.
RestoreSettles == journal.state # "none" ~> (journal.state = "none" \/ pc = "blocked")

\* "Restore/import boundaries rotate source epoch and invalidate projections
\* before resuming reads": a restored database is opened only after
\* ResetFinancialSourceTracking has run on it.
RotatedBeforeResume ==
    pc = "open" /\ file[Live]["main"] \in 1 .. MaxRestores => file[Live]["main"] \in rotated
=============================================================================
